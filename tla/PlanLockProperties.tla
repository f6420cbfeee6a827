------------------------- MODULE PlanLockProperties -------------------------
(***************************************************************************)
(* What the plan lock has to guarantee to the commands between lock and    *)
(* unlock.                                                                 *)
(***************************************************************************)
EXTENDS PlanLock

Places == {"mkdir", "look", "rm", "rmdir", "wait", "record", "held", "unlock", "done", "dead"}

(* Every variable keeps its type, and a missing directory has no PID.      *)
LockTypeOK ==
  /\ dir \in {"absent", "new", "old"} /\ pid \in Procs \cup {"none"}
  /\ pc \in [Procs -> Places] /\ tries \in [Procs -> 0..MaxTries]
  /\ maker \in Procs /\ reclaims \subseteq Procs
  /\ dir = "absent" => pid = "none"

Inside == {"record", "held"}

(* Commands exclude each other as long as nobody decided to reclaim a      *)
(* lock: mkdir, the waiting and the release alone never let two in (lock). *)
ExclusiveUnlessReclaimed ==
  reclaims = {} => \A p, q \in Procs : pc[p] \in Inside /\ pc[q] \in Inside => p = q

(* Every call of lock returns, with the lock or with exit code 75: the     *)
(* loop without a limit after a reclaim cannot go on for ever.             *)
LockReturns == \A p \in Procs : pc[p] = "mkdir" ~> pc[p] \in {"held", "done", "dead"}

(* "Never steal from a live complete()/claim() holder": the directory of a *)
(* live command that is past lock, its PID recorded, is removed by nobody. *)
NeverStealLive ==
  [][dir # "absent" /\ dir' = "absent" => pc[maker] # "held"]_lockVars
=============================================================================
