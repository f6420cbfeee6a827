---------------------------- MODULE LiveExecute ----------------------------
(***************************************************************************)
(* Live execution of a plan over SSH: webapp/planctl.py and the handlers   *)
(* execute-next and execute-remaining of webapp/server.py, on top of the   *)
(* run registry, which this module extends and implements.                 *)
(*                                                                         *)
(* A run copies the controller's plan directory to the task's host, starts *)
(* the sealed executor there as a detached process, polls for its exit     *)
(* record, copies the directory back and verifies the sealed task.  Of a   *)
(* copy of the plan (patch-plan's files, see PatchPlan) the status and the *)
(* generation of every task are left; the plan's state follows from them.  *)
(* Every SSH session may fail, before or after its effect.                 *)
(***************************************************************************)
EXTENDS RunRegistry, Sequences

CONSTANTS
  TaskList,    \* the plan's tasks in order
  NodeOf,      \* the host of a task
  MaxRetries   \* bound of the model: retries of a task

Task == {TaskList[i] : i \in 1..Len(TaskList)}
Node == {NodeOf[t] : t \in Task}
ExecuteKey == CHOOSE k \in Keys : TRUE

ASSUME LiveAssumption ==
  /\ IsFiniteSet(Keys) /\ Cardinality(Keys) = 1 /\ Cardinality(Task) = Len(TaskList)
  /\ DOMAIN NodeOf = Task /\ MaxRetries \in Nat /\ None \notin Task

VARIABLES
  local,    \* the controller's copy of the plan, shared by all controllers
  host,     \* the copy on each host
  launch,   \* detached launches: their run directory, process and deeds
  at,       \* where the function of each run is
  look      \* where the inspection of a reconcile is

liveVars == <<local, host, launch, at, look>>
vars == <<registryVars, liveVars>>

NewPlan   == [t \in Task |-> [status |-> "pending", gen |-> 0]]
Idle      == [pc |-> "idle", many |-> FALSE, task |-> None, job |-> None]
NotSent   == [run |-> None, task |-> None, gen |-> 0, phase |-> "none", did |-> "nothing", rc |-> 0]
Terminal  == {"succeeded", "failed"}

State(plan) ==
  CASE \A t \in Task : plan[t].status = "succeeded" -> "succeeded"
    [] \E t \in Task : plan[t].status = "failed" -> "paused"
    [] OTHER -> "running"

(* next: the first pending task.                                           *)
IsNext(plan, t) ==
  \E i \in 1..Len(TaskList) :
    /\ TaskList[i] = t /\ plan[t].status = "pending"
    /\ \A j \in 1..(i - 1) : plan[TaskList[j]].status # "pending"

HostOf(j) == NodeOf[launch[j].task]
Over(j)   == launch[j].phase = "over"

(* The task a launch left behind agrees with its exit code.                *)
Verified(plan, j) == IF launch[j].rc = 0 THEN plan[launch[j].task].status = "succeeded"
                                         ELSE plan[launch[j].task].status = "failed"

(* uuid4: identifiers of new things are new; which one does not matter.    *)
Fresh(id, Ids, used, unused) ==
  used[id] = unused /\ id = CHOOSE i \in Ids : used[i] = unused

Go(r, pc) == at' = [at EXCEPT ![r].pc = pc]
In(r, pc) == worker[r] = "running" /\ at[r].pc = pc

(* The function of the run raises.                                         *)
Raise(r) == WorkerEnds(r, FALSE) /\ Go(r, "idle")

-----------------------------------------------------------------------------
(* The handlers, execute_next_task and execute_remaining_tasks *)

Accept(c, r, many) ==
  /\ Fresh(r, Runs, disk, NoRecord) /\ StartRun(c, ExecuteKey, r)
  /\ at' = [at EXCEPT ![r] = [Idle EXCEPT !.pc = "select", !.many = many]]
  /\ UNCHANGED <<local, host, launch, look>>

(* A pending task of a running plan is next.                               *)
Select(r) ==
  /\ In(r, "select") /\ State(local) = "running"
  /\ \E t \in Task : IsNext(local, t) /\ at' = [at EXCEPT ![r].pc = "push", ![r].task = t]
  /\ UNCHANGED <<registryVars, local, host, launch, look>>

(* Nothing is pending, or the plan is not running.                         *)
NothingToDo(r) ==
  /\ In(r, "select")
  /\ State(local) # "running" \/ \A t \in Task : local[t].status # "pending"
  /\ WorkerEnds(r, at[r].many \/ State(local) # "paused")
  /\ Go(r, "idle") /\ UNCHANGED <<local, host, launch, look>>

-----------------------------------------------------------------------------
(* _sync_plan_to_host *)

Push(r) ==
  /\ In(r, "push")
  /\ host' = [host EXCEPT ![NodeOf[at[r].task]] = local]
  /\ Go(r, "record") /\ UNCHANGED <<registryVars, local, launch, look>>

PushFails(r) ==
  /\ In(r, "push") /\ Raise(r)
  /\ host' \in {host, [host EXCEPT ![NodeOf[at[r].task]] = local]}
  /\ UNCHANGED <<local, launch, look>>

-----------------------------------------------------------------------------
(* _run_detached_remote *)

(* Mutant: the coordinates are written for the first task of a run only.   *)
CoordinatesOnce(r, j) ==
  IF Detached(disk[r]) THEN [disk[r].context EXCEPT !.terminal = FALSE]
                       ELSE [job |-> j, terminal |-> FALSE]

Coordinates(r, j) == [job |-> j, terminal |-> FALSE]

(* The coordinates of the launch are durable before it is sent.            *)
RecordLaunch(r) ==
  /\ In(r, "record")
  /\ \E j \in Jobs :
       /\ Fresh(j, Jobs, launch, NotSent)
       /\ SetContext(r, Coordinates(r, j))
       /\ launch' = [launch EXCEPT ![j] = [NotSent EXCEPT !.run = r, !.task = at[r].task, !.phase = "named"]]
       /\ at' = [at EXCEPT ![r].pc = "launch", ![r].job = j]
  /\ UNCHANGED <<local, host, look>>

Launch(r) ==
  /\ In(r, "launch")
  /\ launch' = [launch EXCEPT ![at[r].job].phase = "begun"]
  /\ Go(r, "poll") /\ UNCHANGED <<registryVars, local, host, look>>

(* The answer is lost; the command may still reach the host, even later.   *)
LaunchFails(r) ==
  /\ In(r, "launch") /\ Raise(r)
  /\ \E phase \in {"named", "sent"} : launch' = [launch EXCEPT ![at[r].job].phase = phase]
  /\ UNCHANGED <<local, host, look>>

(* RUNNING changes nothing.                                                *)
PollFinds(r) ==
  /\ In(r, "poll") /\ Over(at[r].job)
  /\ Go(r, "import") /\ UNCHANGED <<registryVars, local, host, launch, look>>

(* Mutant: neither a deadline nor a limit of failures.                     *)
PollGivesUpOnDeath(r) ==
  /\ In(r, "poll") /\ launch[at[r].job].phase = "dead" /\ Raise(r)
  /\ UNCHANGED <<local, host, launch, look>>

(* DEAD, MISSING, six failures in a row, or the deadline.                  *)
PollGivesUp(r) ==
  /\ In(r, "poll") /\ Raise(r)
  /\ UNCHANGED <<local, host, launch, look>>

-----------------------------------------------------------------------------
(* _sync_plan_from_host and the end of _execute_live *)

Import(r) ==
  /\ In(r, "import") /\ local' = host[HostOf(at[r].job)]
  /\ Go(r, "verify") /\ UNCHANGED <<registryVars, host, launch, look>>

ImportFails(r) ==
  /\ In(r, "import") /\ Raise(r)
  /\ local' \in {local, host[HostOf(at[r].job)]} /\ UNCHANGED <<host, launch, look>>

(* Mutant: the exit record alone is believed.                              *)
VerifyExitOnly(r) ==
  /\ In(r, "verify")
  /\ SetContext(r, [disk[r].context EXCEPT !.terminal = TRUE]) /\ Go(r, "return")
  /\ UNCHANGED <<local, host, launch, look>>

(* Only a verified end makes the context terminal.                         *)
Verify(r) ==
  /\ In(r, "verify")
  /\ \/ /\ Verified(local, at[r].job)
        /\ SetContext(r, [disk[r].context EXCEPT !.terminal = TRUE]) /\ Go(r, "return")
     \/ ~Verified(local, at[r].job) /\ Raise(r)
  /\ UNCHANGED <<local, host, launch, look>>

(* execute-remaining goes on after a success until max_tasks, execute-next *)
(* ends; a failed task or an unreadable result raises.                     *)
Return(r) ==
  /\ In(r, "return")
  /\ \/ /\ launch[at[r].job].rc = 0 /\ at[r].many
        /\ Go(r, "select") /\ UNCHANGED registryVars
     \/ /\ launch[at[r].job].rc = 0
        /\ WorkerEnds(r, TRUE) /\ Go(r, "idle")
     \/ Raise(r)
  /\ UNCHANGED <<local, host, launch, look>>

-----------------------------------------------------------------------------
(* reconcile_detached_run, within reconcile_run *)

Seen == cache[inspection.by][inspection.run].context.job

Inspect(c, r) ==
  /\ InspectionBegins(c, r) /\ look' = "poll"
  /\ UNCHANGED <<local, host, launch, at>>

(* Mutant: a launch without a live process has failed.                     *)
LookPollDeadFails ==
  /\ look = "poll"
  /\ \/ Over(Seen) /\ look' = "import" /\ UNCHANGED registryVars
     \/ launch[Seen].phase \in {"named", "sent", "dead"} /\ look' = "none" /\ InspectionEnds("failed")
     \/ look' = "none" /\ InspectionEnds("unknown")
  /\ UNCHANGED <<local, host, launch, at>>

(* Anything but an exit record leaves the run unknown.                     *)
LookPoll ==
  /\ look = "poll"
  /\ \/ Over(Seen) /\ look' = "import" /\ UNCHANGED registryVars
     \/ look' = "none" /\ InspectionEnds("unknown")
  /\ UNCHANGED <<local, host, launch, at>>

LookImport ==
  /\ look = "import"
  /\ \/ local' = host[HostOf(Seen)] /\ look' = "verify" /\ UNCHANGED registryVars
     \/ look' = "none" /\ InspectionEnds("unknown") /\ UNCHANGED local
  /\ UNCHANGED <<host, launch, at>>

(* Mutant: the task's own verdict is not looked at.                        *)
LookVerifyAlways ==
  /\ look = "verify" /\ look' = "none"
  /\ \/ ~Verified(local, Seen) /\ InspectionEnds("unknown")
     \/ Verified(local, Seen) /\ InspectionEnds("succeeded")
  /\ UNCHANGED <<local, host, launch, at>>

(* Logs that cannot be parsed make a verified success a failure.           *)
LookVerify ==
  /\ look = "verify" /\ look' = "none"
  /\ \/ ~Verified(local, Seen) /\ InspectionEnds("unknown")
     \/ /\ Verified(local, Seen)
        /\ \/ launch[Seen].rc = 0 /\ InspectionEnds("succeeded")
           \/ InspectionEnds("failed")
  /\ UNCHANGED <<local, host, launch, at>>

-----------------------------------------------------------------------------
(* What else changes a copy of the plan *)

(* retry-task, under an operation key of its own.                          *)
RetryTask(t) ==
  /\ State(local) = "paused" /\ local[t].status = "failed" /\ local[t].gen < MaxRetries
  /\ local' = [local EXCEPT ![t] = [status |-> "pending", gen |-> @.gen + 1]]
  /\ UNCHANGED <<registryVars, host, launch, at, look>>

(* The command of a lost session reaches the host.                         *)
Arrive(j) ==
  /\ launch[j].phase = "sent"
  /\ launch' = [launch EXCEPT ![j].phase = "begun"]
  /\ UNCHANGED <<registryVars, local, host, at, look>>

Claim(j) ==
  /\ launch[j].phase = "begun"
  /\ LET n == HostOf(j)
         t == launch[j].task
     IN /\ State(host[n]) = "running" /\ IsNext(host[n], t)
        /\ \A u \in Task : host[n][u].status # "running"
        /\ host' = [host EXCEPT ![n][t].status = "running"]
        /\ launch' = [launch EXCEPT ![j].phase = "working", ![j].gen = host[n][t].gen]
  /\ UNCHANGED <<registryVars, local, at, look>>

(* Refused before the claim, for whatever reason.                          *)
Refuse(j) ==
  /\ launch[j].phase = "begun"
  /\ launch' = [launch EXCEPT ![j].phase = "over", ![j].rc = 1]
  /\ UNCHANGED <<registryVars, local, host, at, look>>

Complete(j, status) ==
  /\ launch[j].phase = "working" /\ host[HostOf(j)][launch[j].task].status = "running"
  /\ host' = [host EXCEPT ![HostOf(j)][launch[j].task].status = status]
  /\ launch' = [launch EXCEPT ![j].phase = "reported", ![j].did = status]
  /\ UNCHANGED <<registryVars, local, at, look>>

(* The wrapper writes rc last.                                             *)
WriteExit(j) ==
  /\ launch[j].phase = "reported"
  /\ launch' = [launch EXCEPT ![j].phase = "over", ![j].rc = IF launch[j].did = "succeeded" THEN 0 ELSE 1]
  /\ UNCHANGED <<registryVars, local, host, at, look>>

(* The executor is killed and its wrapper notes it.                        *)
Killed(j) ==
  /\ launch[j].phase \in {"working", "reported"}
  /\ launch' = [launch EXCEPT ![j].phase = "over", ![j].rc = 1]
  /\ UNCHANGED <<registryVars, local, host, at, look>>

(* The host goes down under it.                                            *)
Lost(j) ==
  /\ launch[j].phase \in {"begun", "working", "reported"}
  /\ launch' = [launch EXCEPT ![j].phase = "dead"]
  /\ UNCHANGED <<registryVars, local, host, at, look>>

-----------------------------------------------------------------------------
(* The registry's own steps *)

Registry ==
  \/ \E c \in Controllers : ControllerStarts(c)
  \/ \E c \in Controllers, r \in Runs : GetRun(c, r) \/ CloseByHand(c, r)
  \/ \E r \in Runs : ThreadFails(r) \/ WorkerBegins(r) \/ Settle(r) \/ SettleFails(r)

(* Mutant: the lock of a dead controller's reconcile stays taken.          *)
DiesHoldingLock(c) ==
  /\ up[c] = "up" /\ up' = [up EXCEPT ![c] = "dead"]
  /\ cache' = [cache EXCEPT ![c] = [r \in Runs |-> NoRecord]]
  /\ active' = [active EXCEPT ![c] = [k \in Keys |-> None]]
  /\ worker' = [r \in Runs |-> IF Owner(r) = c THEN "done" ELSE worker[r]]
  /\ at' = [r \in Runs |-> IF Owner(r) = c THEN Idle ELSE at[r]]
  /\ look' = IF inspection.by = c THEN "none" ELSE look
  /\ UNCHANGED <<disk, inspection, local, host, launch>>

Dies(c) ==
  /\ ControllerDies(c)
  /\ at' = [r \in Runs |-> IF Owner(r) = c THEN Idle ELSE at[r]]
  /\ look' = IF inspection.by = c THEN "none" ELSE look
  /\ UNCHANGED <<local, host, launch>>

Init ==
  /\ RegistryInit
  /\ local = NewPlan /\ host = [n \in Node |-> NewPlan]
  /\ launch = [j \in Jobs |-> NotSent]
  /\ at = [r \in Runs |-> Idle] /\ look = "none"

Function(r) ==
  \/ Select(r) \/ NothingToDo(r) \/ Push(r) \/ PushFails(r) \/ RecordLaunch(r)
  \/ Launch(r) \/ LaunchFails(r) \/ PollFinds(r) \/ PollGivesUp(r)
  \/ Import(r) \/ ImportFails(r) \/ Verify(r) \/ Return(r)

Executor(j) ==
  \/ Arrive(j) \/ Claim(j) \/ Refuse(j) \/ WriteExit(j) \/ Killed(j) \/ Lost(j)
  \/ \E status \in Terminal : Complete(j, status)

Reconcile ==
  \/ \E c \in Controllers, r \in Runs : Inspect(c, r)
  \/ LookPoll \/ LookImport \/ LookVerify

Next ==
  \/ Registry /\ UNCHANGED liveVars
  \/ \E c \in Controllers : Dies(c)
  \/ \E c \in Controllers, r \in Runs, many \in BOOLEAN : Accept(c, r, many)
  \/ \E r \in Runs : Function(r)
  \/ \E j \in Jobs : Executor(j)
  \/ \E t \in Task : RetryTask(t)
  \/ Reconcile

Spec == Init /\ [][Next]_vars
FairSpec == Spec /\ \A r \in Runs : WF_vars(Function(r) \/ ((WorkerBegins(r) \/ Settle(r)) /\ UNCHANGED liveVars))
=============================================================================
