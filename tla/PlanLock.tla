------------------------------ MODULE PlanLock ------------------------------
(***************************************************************************)
(* lock and unlock of bin/opu-patch-plan: a directory made by mkdir, with  *)
(* the PID of its maker written into it afterwards, and reclaimed from a   *)
(* maker that is not alive.  Every process runs one command.               *)
(***************************************************************************)
EXTENDS Naturals

CONSTANTS Procs, MaxTries

ASSUME LockAssumption == Procs # {} /\ "none" \notin Procs /\ MaxTries \in Nat

VARIABLES
  dir,     \* .task-lock: "absent", "new" or "old" (more than 60 seconds)
  pid,     \* .task-lock/pid
  pc,      \* place of a process in lock, the command, unlock
  tries,
  maker,   \* history: the process that made the directory
  reclaims \* history: processes whose lock somebody decided to reclaim

lockVars == <<dir, pid, pc, tries, maker, reclaims>>

Go(p, next) == pc' = [pc EXCEPT ![p] = next]

Mkdir(p) ==
  /\ pc[p] = "mkdir"
  /\ IF dir = "absent" THEN dir' = "new" /\ maker' = p /\ Go(p, "record") /\ UNCHANGED tries
     ELSE /\ Go(p, "look") /\ tries' = [tries EXCEPT ![p] = IF @ < MaxTries THEN @ + 1 ELSE @]
          /\ UNCHANGED <<dir, maker>>
  /\ UNCHANGED <<pid, reclaims>>

(* No live holder, and none recorded or recorded long ago.                 *)
Stale == /\ dir # "absent"
         /\ pid = "none" \/ (pc[pid] = "dead" /\ dir = "old")

Look(p) ==
  /\ pc[p] = "look"
  /\ Go(p, IF Stale THEN "rm" ELSE "wait")
  /\ reclaims' = IF Stale THEN reclaims \cup {maker} ELSE reclaims
  /\ UNCHANGED <<dir, pid, tries, maker>>

(* rm -f pid; rmdir.  The directory goes only when it is empty.            *)
RemovePid(p, from, to) ==
  /\ pc[p] = from /\ Go(p, to)
  /\ pid' = "none"
  /\ UNCHANGED <<dir, tries, maker, reclaims>>

RemoveDir(p, from, to) ==
  /\ pc[p] = from /\ Go(p, to)
  /\ dir' = IF pid = "none" THEN "absent" ELSE dir
  /\ UNCHANGED <<pid, tries, maker, reclaims>>

Reclaim(p) == RemovePid(p, "rm", "rmdir") \/ RemoveDir(p, "rmdir", "mkdir")

(* Mutant: the exit code of lock is ignored.                               *)
WaitThenHold(p) ==
  /\ pc[p] = "wait"
  /\ Go(p, IF tries[p] < MaxTries THEN "mkdir" ELSE "held")
  /\ UNCHANGED <<dir, pid, tries, maker, reclaims>>

(* Mutant: no limit of tries.                                              *)
WaitForever(p) ==
  /\ pc[p] = "wait" /\ Go(p, "mkdir")
  /\ UNCHANGED <<dir, pid, tries, maker, reclaims>>

Wait(p) ==
  /\ pc[p] = "wait"
  /\ Go(p, IF tries[p] < MaxTries THEN "mkdir" ELSE "done")
  /\ UNCHANGED <<dir, pid, tries, maker, reclaims>>

Record(p) ==
  /\ pc[p] = "record" /\ Go(p, "held")
  /\ pid' = IF dir = "absent" THEN pid ELSE p
  /\ UNCHANGED <<dir, tries, maker, reclaims>>

Unlock(p) == RemovePid(p, "held", "unlock") \/ RemoveDir(p, "unlock", "done")

Die(p) ==
  /\ pc[p] \notin {"done", "dead"} /\ Go(p, "dead")
  /\ UNCHANGED <<dir, pid, tries, maker, reclaims>>

Age ==
  /\ dir = "new" /\ dir' = "old"
  /\ UNCHANGED <<pid, pc, tries, maker, reclaims>>

LockInit ==
  /\ dir = "absent" /\ pid = "none" /\ maker \in Procs /\ reclaims = {}
  /\ pc = [p \in Procs |-> "mkdir"]
  /\ tries = [p \in Procs |-> 0]

LockStep(p) == Mkdir(p) \/ Look(p) \/ Reclaim(p) \/ Wait(p) \/ Record(p) \/ Unlock(p)
LockNext == (\E p \in Procs : LockStep(p) \/ Die(p)) \/ Age

LockSpec == LockInit /\ [][LockNext]_lockVars
LockFairSpec == LockSpec /\ \A p \in Procs : WF_lockVars(LockStep(p))
=============================================================================
