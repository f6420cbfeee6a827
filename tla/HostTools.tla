----------------------------- MODULE HostTools -----------------------------
(***************************************************************************)
(* The tools on the managed hosts, webapp/tools_sync.py: before a remote   *)
(* tool runs, ensure_tools compares the stamp on each node with the        *)
(* fingerprint of the controller's own files and installs them where the   *)
(* two differ.                                                             *)
(*                                                                         *)
(* The installer is a script on the node, under the node's install lock:   *)
(* it removes the stamp, moves each directory aside and the new one in,    *)
(* replaces the runtime modules and writes the stamp last.  The session it *)
(* was started from may be lost while it goes on, and it may be killed     *)
(* between any two of its commands.  A version stands for the bytes of all *)
(* files, and its fingerprint for it; 0 for none.                          *)
(***************************************************************************)
EXTENDS Naturals, FiniteSets, Sequences

CONSTANTS
  Controllers,   \* processes of the server
  Threads,       \* their threads that use tools
  ControllerOf,  \* the process of a thread
  NodeList,      \* the nodes of the host, in the order of ensure_host_tools
  Parts,         \* what is replaced one by one: directories, then modules
  Jobs,          \* bound of the model: installers at a time
  Newest,        \* bound of the model: versions of the files
  MaxFaults,     \* bound of the model: faults of all kinds
  None

ASSUME ToolsAssumption ==
  /\ ControllerOf \in [Threads -> Controllers]
  /\ Len(NodeList) \in Nat \ {0} /\ Len(Parts) \in Nat \ {0}
  /\ Newest \in Nat \ {0} /\ MaxFaults \in Nat /\ None \notin Jobs
  /\ Jobs \cap (Threads \cup Controllers) = {} /\ Threads \cap Controllers = {}

Node == {NodeList[i] : i \in 1..Len(NodeList)}
Version == 1..Newest

VARIABLES
  checkout,  \* the version of a controller's own files
  verified,  \* _verified_at: the version seen on a node in the last 30 s
  thread,    \* where each thread is in ensure_host_tools
  runtime,   \* the version of each part on each node
  stamp,     \* .opu-tools-fingerprint
  holder,    \* .opu-tools-install.lock
  job,       \* the installers
  faults,    \* how many there were
  clean      \* history: what was seen of a node, by whom, and still stands

vars == <<checkout, verified, thread, runtime, stamp, holder, job, faults, clean>>

Away  == [pc |-> "idle", i |-> 1, want |-> [n \in Node |-> 0], job |-> None]
NoJob == [pc |-> "free", node |-> NodeList[1], version |-> 0, i |-> 1, old |-> 0, wanted |-> FALSE]

Whole(n, v) == \A p \in 1..Len(Parts) : runtime[n][p] = v

At(t) == NodeList[thread[t].i]
Own(t) == ControllerOf[t]

(* The host lock of a process: one thread at a time works on a node.       *)
Busy(c, n) == \E t \in Threads : Own(t) = c /\ thread[t].pc \in {"pull", "push", "wait"} /\ At(t) = n

(* What was seen of node n by one is known to others too.                  *)
Sees(who, n) == clean' = clean \cup (who \X {n})
Knows(from, who, n) == clean' = IF <<from, n>> \in clean THEN clean \cup (who \X {n})
                                                         ELSE clean \ (who \X {n})

(* The next node, or on to the tool.                                       *)
Advance(t, rec) ==
  thread' = [thread EXCEPT ![t] =
    IF rec.i < Len(NodeList) THEN [rec EXCEPT !.pc = "enter", !.i = @ + 1, !.job = None]
                             ELSE [rec EXCEPT !.pc = "ready", !.job = None]]

Raises(t) == thread' = [thread EXCEPT ![t] = Away]

Fault == faults < MaxFaults /\ faults' = faults + 1

-----------------------------------------------------------------------------
(* ensure_host_tools and _ensure_tools *)

Begin(t) ==
  /\ thread[t].pc = "idle"
  /\ thread' = [thread EXCEPT ![t] = [Away EXCEPT !.pc = "enter"]]
  /\ UNCHANGED <<checkout, verified, runtime, stamp, holder, job, faults, clean>>

(* Mutant: seen is seen, whatever the version.                             *)
FreshAny(c, n) == verified[c][n] # 0

(* Verified in the last 30 s, as the version the files have now.           *)
Fresh(c, n) == verified[c][n] = checkout[c]

Enter(t) ==
  LET rec == [thread[t] EXCEPT !.want[At(t)] = checkout[Own(t)]]
  IN /\ thread[t].pc = "enter" /\ ~Busy(Own(t), At(t))
     /\ \/ Fresh(Own(t), At(t)) /\ Advance(t, rec) /\ Knows(Own(t), {t}, At(t))
        \/ /\ ~Fresh(Own(t), At(t))
           /\ thread' = [thread EXCEPT ![t] = [rec EXCEPT !.pc = "pull"]] /\ UNCHANGED clean
     /\ UNCHANGED <<checkout, verified, runtime, stamp, holder, job, faults>>

PullMatches(t) ==
  /\ thread[t].pc = "pull" /\ stamp[At(t)] = thread[t].want[At(t)]
  /\ verified' = [verified EXCEPT ![Own(t)][At(t)] = stamp[At(t)]]
  /\ Sees({t, Own(t)}, At(t)) /\ Advance(t, thread[t])
  /\ UNCHANGED <<checkout, runtime, stamp, holder, job, faults>>

(* A stamp that cannot be read differs.                                    *)
PullDiffers(t) ==
  /\ thread[t].pc = "pull"
  /\ \/ stamp[At(t)] # thread[t].want[At(t)] /\ UNCHANGED faults
     \/ Fault
  /\ thread' = [thread EXCEPT ![t].pc = "push"]
  /\ UNCHANGED <<checkout, verified, runtime, stamp, holder, job, clean>>

(* The archive has a name of its own; the installer is started on it.      *)
Push(t) ==
  /\ thread[t].pc = "push"
  /\ \E j \in Jobs :
       /\ job[j].pc = "free" /\ j = CHOOSE k \in Jobs : job[k].pc = "free"
       /\ job' = [job EXCEPT ![j] = [NoJob EXCEPT !.pc = "waiting", !.node = At(t), !.wanted = TRUE,
                                                  !.version = thread[t].want[At(t)]]]
       /\ thread' = [thread EXCEPT ![t].pc = "wait", ![t].job = j]
  /\ UNCHANGED <<checkout, verified, runtime, stamp, holder, faults, clean>>

PushFails(t) ==
  /\ thread[t].pc = "push" /\ Fault /\ Raises(t)
  /\ UNCHANGED <<checkout, verified, runtime, stamp, holder, job, clean>>

(* The installer's exit code is read.                                      *)
Return(t) ==
  /\ thread[t].pc = "wait" /\ job[thread[t].job].pc \in {"done", "failed"}
  /\ job' = [job EXCEPT ![thread[t].job] = NoJob]
  /\ \/ /\ job[thread[t].job].pc = "done"
        /\ verified' = [verified EXCEPT ![Own(t)][At(t)] = thread[t].want[At(t)]]
        /\ Knows(thread[t].job, {t, Own(t)}, At(t)) /\ Advance(t, thread[t])
     \/ job[thread[t].job].pc = "failed" /\ Raises(t) /\ UNCHANGED <<verified, clean>>
  /\ UNCHANGED <<checkout, runtime, stamp, holder, faults>>

(* 180 s without an answer; the installer goes on.                         *)
Orphaned(j) == [job EXCEPT ![j] = IF @.pc \in {"done", "failed"} THEN NoJob ELSE [@ EXCEPT !.wanted = FALSE]]

TimesOut(t) ==
  /\ thread[t].pc = "wait" /\ Fault /\ Raises(t) /\ job' = Orphaned(thread[t].job)
  /\ UNCHANGED <<checkout, verified, runtime, stamp, holder, clean>>

(* The tool has run.                                                       *)
Use(t) ==
  /\ thread[t].pc = "ready" /\ Raises(t)
  /\ UNCHANGED <<checkout, verified, runtime, stamp, holder, job, faults, clean>>

-----------------------------------------------------------------------------
(* The installer script on a node *)

Step(j, pc) == job' = [job EXCEPT ![j].pc = pc]
End(j, pc)  == job' = [job EXCEPT ![j] = IF @.wanted THEN [@ EXCEPT !.pc = pc] ELSE NoJob]
On(j) == job[j].node

TakeLock(j) ==
  /\ job[j].pc = "waiting" /\ holder[On(j)] = None
  /\ holder' = [holder EXCEPT ![On(j)] = j] /\ Step(j, "staged")
  /\ UNCHANGED <<checkout, verified, thread, runtime, stamp, faults, clean>>

(* flock -w 120 gives up.                                                  *)
LockWaitEnds(j) ==
  /\ job[j].pc = "waiting" /\ holder[On(j)] # None
  /\ End(j, "failed")
  /\ UNCHANGED <<checkout, verified, thread, runtime, stamp, holder, faults, clean>>

(* Mutant: the old stamp stays until the new one is written.               *)
InstallUnderOldStamp(j) ==
  /\ job[j].pc = "staged" /\ Step(j, "installing")
  /\ clean' = {view \in clean : view[2] # On(j)} \cup {<<j, On(j)>>}
  /\ UNCHANGED <<checkout, verified, thread, runtime, stamp, holder, faults>>

(* Staged and validated: nothing was touched; now the stamp goes.          *)
Install(j) ==
  /\ job[j].pc = "staged" /\ Step(j, "installing")
  /\ stamp' = [stamp EXCEPT ![On(j)] = 0]
  /\ clean' = {view \in clean : view[2] # On(j)} \cup {<<j, On(j)>>}
  /\ UNCHANGED <<checkout, verified, thread, runtime, holder, faults>>

(* A directory is moved aside.                                             *)
MoveAside(j) ==
  /\ job[j].pc = "installing" /\ job[j].i < Len(Parts)
  /\ job' = [job EXCEPT ![j].pc = "gap", ![j].old = runtime[On(j)][job[j].i]]
  /\ runtime' = [runtime EXCEPT ![On(j)][job[j].i] = 0]
  /\ UNCHANGED <<checkout, verified, thread, stamp, holder, faults, clean>>

(* The new one takes its place; the modules, last, are replaced in place.  *)
MoveIn(j) ==
  /\ job[j].pc = "gap" \/ (job[j].pc = "installing" /\ job[j].i = Len(Parts))
  /\ job' = [job EXCEPT ![j].pc = "installing", ![j].i = @ + 1]
  /\ runtime' = [runtime EXCEPT ![On(j)][job[j].i] = job[j].version]
  /\ UNCHANGED <<checkout, verified, thread, stamp, holder, faults, clean>>

(* The directory that was moved aside comes back, and the script exits.    *)
MoveInFails(j) ==
  /\ job[j].pc = "gap" /\ Fault
  /\ runtime' = [runtime EXCEPT ![On(j)][job[j].i] = job[j].old]
  /\ End(j, "failed") /\ holder' = [holder EXCEPT ![On(j)] = None]
  /\ UNCHANGED <<checkout, verified, thread, stamp, clean>>

WriteStamp(j) ==
  /\ job[j].pc = "installing" /\ job[j].i > Len(Parts)
  /\ stamp' = [stamp EXCEPT ![On(j)] = job[j].version]
  /\ End(j, "done") /\ holder' = [holder EXCEPT ![On(j)] = None]
  /\ UNCHANGED <<checkout, verified, thread, runtime, faults, clean>>

(* Mutant: a lock that outlives its holder.                                *)
StopsLocked(j) ==
  /\ job[j].pc \notin {"free", "done", "failed"} /\ Fault /\ End(j, "failed")
  /\ UNCHANGED <<checkout, verified, thread, runtime, stamp, holder, clean>>

(* It fails or is killed; the lock goes with it, and what it moved aside.  *)
Stops(j) ==
  /\ job[j].pc \notin {"free", "done", "failed"} /\ Fault /\ End(j, "failed")
  /\ holder' = IF holder[On(j)] = j THEN [holder EXCEPT ![On(j)] = None] ELSE holder
  /\ UNCHANGED <<checkout, verified, thread, runtime, stamp, clean>>

-----------------------------------------------------------------------------
(* The processes of the server *)

(* 30 s have passed.                                                       *)
Expire(c, n) ==
  /\ verified[c][n] # 0
  /\ verified' = [verified EXCEPT ![c][n] = 0]
  /\ UNCHANGED <<checkout, thread, runtime, stamp, holder, job, faults, clean>>

Upgrade(c) ==
  /\ checkout[c] < Newest
  /\ checkout' = [checkout EXCEPT ![c] = @ + 1]
  /\ UNCHANGED <<verified, thread, runtime, stamp, holder, job, faults, clean>>

Restart(c) ==
  LET lost == {thread[t].job : t \in {u \in Threads : Own(u) = c /\ thread[u].pc = "wait"}}
  IN /\ Fault
     /\ verified' = [verified EXCEPT ![c] = [n \in Node |-> 0]]
     /\ thread' = [t \in Threads |-> IF Own(t) = c THEN Away ELSE thread[t]]
     /\ job' = [j \in Jobs |-> IF j \in lost THEN Orphaned(j)[j] ELSE job[j]]
     /\ UNCHANGED <<checkout, runtime, stamp, holder, clean>>

Init ==
  /\ checkout = [c \in Controllers |-> 1]
  /\ verified = [c \in Controllers |-> [n \in Node |-> 0]]
  /\ thread = [t \in Threads |-> Away]
  /\ runtime = [n \in Node |-> [p \in 1..Len(Parts) |-> 0]]
  /\ stamp = [n \in Node |-> 0]
  /\ holder = [n \in Node |-> None]
  /\ job = [j \in Jobs |-> NoJob]
  /\ faults = 0 /\ clean = {}

Ensure(t) ==
  Begin(t) \/ Enter(t) \/ PullMatches(t) \/ PullDiffers(t) \/ Push(t) \/ Return(t) \/ Use(t)

Installer(j) ==
  TakeLock(j) \/ Install(j) \/ MoveAside(j) \/ MoveIn(j) \/ WriteStamp(j)

Next ==
  \/ \E t \in Threads : Ensure(t) \/ PushFails(t) \/ TimesOut(t)
  \/ \E j \in Jobs : Installer(j) \/ LockWaitEnds(j) \/ MoveInFails(j) \/ Stops(j)
  \/ \E c \in Controllers : Upgrade(c) \/ Restart(c) \/ \E n \in Node : Expire(c, n)

Spec == Init /\ [][Next]_vars

(* Threads go on asking, scripts go on, and 30 s pass.                     *)
FairSpec ==
  /\ Spec
  /\ \A t \in Threads : WF_vars(Ensure(t))
  /\ \A j \in Jobs : WF_vars(Installer(j))
  /\ \A c \in Controllers, n \in Node : WF_vars(Expire(c, n))
=============================================================================
