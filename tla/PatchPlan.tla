------------------------------ MODULE PatchPlan ------------------------------
(***************************************************************************)
(* The plan controller, bin/opu-patch-plan: the life of sealed patch plans *)
(* from creation to success, the tasks each one dispatches, the leases the *)
(* workers hold on them, and the registry that reserves Oracle hosts.      *)
(*                                                                         *)
(* A command works under its plan's lock (PlanLock), so at most one is in  *)
(* progress per plan: at[p] is where it stands and req[p] what it was      *)
(* given.  A command is one Begin action, which makes every check that     *)
(* precedes the first durable write, and one action per durable write (an  *)
(* atomic rename or an append).  Between two of them the clock may move,   *)
(* commands of other plans may run, and the command may die: a kill and a  *)
(* failed write (exit 74) both leave the files exactly as they are.        *)
(***************************************************************************)
EXTENDS Naturals, Sequences, FiniteSets, PlanStages

CONSTANTS
  Plans,          \* plan identifiers
  Hosts,          \* Oracle hosts: lower-case short names
  Actors,         \* requesters, approvers and operators
  Workers,        \* those of them who run executors
  NoPlan, NoActor,
  HostsOf,        \* hosts of a plan (its .nodes after normalisation)
  Stages,         \* stages of a plan's tasks, in dispatch order
  SourceOf,       \* the apply plan a rollback plan undoes, or NoPlan
  SealsLineage,   \* rollbacks whose source_apply lists the actor of every task
  Requester,      \* who asked for a plan
  WindowStart, WindowEnd,   \* maintenance window of a plan
  ReadyUntil,     \* expiry of an apply plan's readiness and recovery evidence
  LeaseChoices,   \* lease lengths the workers ask for
  MinLease,       \* shortest lease worth granting (30 s)
  Grace,          \* how late a completion may come (OPU_PLAN_COMPLETION_GRACE_SECONDS)
  FailureReports, \* what a failing stage may report: postcondition and outcome class
  MaxClock, MaxRetries, MaxCrashes   \* bounds of the model

TaskIds(p) == 1..Len(Stages[p])

(* Outcome classes of execution evidence.                                  *)
Classes == {"no_mutation", "service_state_known", "database_down",
            "grid_quiesced_known", "grid_stack_restored", "binary_state_known",
            "binary_state_unknown", "grid_state_unknown", "recovery_required"}

ASSUME PlanAssumption ==
  /\ NoPlan \notin Plans /\ NoActor \notin Actors /\ Workers \subseteq Actors
  /\ HostsOf \in [Plans -> (SUBSET Hosts) \ {{}}]
  /\ \A p \in Plans : Len(Stages[p]) \in Nat \ {0}
  /\ SourceOf \in [Plans -> Plans \cup {NoPlan}]
  /\ SealsLineage \subseteq Plans
  /\ Requester \in [Plans -> Actors]
  /\ WindowStart \in [Plans -> Nat] /\ WindowEnd \in [Plans -> Nat]
  /\ ReadyUntil \in [Plans -> Nat]
  /\ LeaseChoices \subseteq Nat
  /\ FailureReports \subseteq [post : {"failed", "blocked", "unknown"}, class : Classes]
  /\ MinLease \in Nat /\ Grace \in Nat
  /\ MaxClock \in Nat /\ MaxRetries \in Nat /\ MaxCrashes \in Nat

VARIABLES
  state,        \* contents of the plan's state file
  approver,     \* actor of approval.json, NoActor while there is none
  operator,     \* actor of authorization.json, NoActor while there is none
  sourceActors, \* source_apply.actors sealed into a rollback plan
  dispatched,   \* the tasks directory exists
  tasks,        \* the task files of a plan
  custody,      \* evidence/ : one write-once directory per task attempt
  archive,      \* attempts/ : results of attempts that were retried
  lastPause,    \* detail of the last state_changed/paused event
  successLogged,\* the all_tasks_succeeded event is in events.jsonl
  owner,        \* target-reservations.json: host -> plan
  at, req,      \* command in progress under the plan's lock
  clock, crashes

authority == <<approver, operator, sourceActors>>
work      == <<dispatched, tasks, custody, archive>>
audit     == <<lastPause, successLogged>>
world     == <<clock, crashes>>
vars == <<state, authority, work, audit, owner, at, req, world>>

-----------------------------------------------------------------------------
(* Types *)

PlanStates == {"absent", "incomplete", "awaiting_approval", "approved",
               "execution_authorized", "running", "paused", "succeeded"}
TaskStatus == {"pending", "running", "succeeded", "failed", "unknown"}
Terminal   == {"succeeded", "failed", "unknown"}
Active     == {"running", "paused"}

Reports == [retry : Nat, class : Classes,
            post : {"passed", "failed", "blocked", "unknown"}]

Task == [status : TaskStatus, claimant : Actors \cup {NoActor},
         expiry : Nat, retry : Nat, late : BOOLEAN, sealed : BOOLEAN]

NewTask == [status |-> "pending", claimant |-> NoActor, expiry |-> 0,
            retry |-> 0, late |-> FALSE, sealed |-> TRUE]

Labels == {"idle", "create", "approve", "approval", "authorize",
           "authorization", "dispatch", "reserved", "materialized", "claim",
           "renew", "complete", "custodied", "expire", "recorded", "resulted",
           "paused", "succeeded", "logged", "retry", "archived", "reset",
           "retried"}

NoReport  == [retry |-> 0, post |-> "unknown", class |-> "no_mutation"]
NoRequest == [task |-> 0, actor |-> NoActor, lease |-> 0, outcome |-> "pending",
              report |-> NoReport, late |-> FALSE]

NoPause == [why |-> "none", task |-> 0]

-----------------------------------------------------------------------------
(* Helpers *)

OpenWindow(p) == WindowStart[p] <= clock /\ clock < WindowEnd[p]

(* verify_apply_plan_readiness_current: rollback plans are exempt.         *)
ReadinessCurrent(p) == SourceOf[p] # NoPlan \/ clock <= ReadyUntil[p]

Owns(p) == \A h \in HostsOf[p] : owner[h] = p

(* The registry without the entries of the plan.                           *)
Released(p) == [h \in Hosts |-> IF owner[h] = p THEN NoPlan ELSE owner[h]]

StatusOf(p, i) == tasks[p][i].status

AllSealed(p) == \A i \in TaskIds(p) : tasks[p][i].sealed

NextPending(p, i) ==
  /\ StatusOf(p, i) = "pending"
  /\ \A j \in 1..(i - 1) : StatusOf(p, j) # "pending"

(* verify_source_task_custody: the custodied evidence of the current       *)
(* attempt carries the task's status and claimant.                         *)
Custodied(p, i) ==
  LET t == tasks[p][i] IN
  \E c \in custody[p] : /\ c.task = i /\ c.retry = t.retry
                        /\ c.actor = t.claimant /\ c.status = t.status
                        /\ c.report.retry = t.retry

(* Mutant: any task past its expiry, leased or done.                       *)
LeaseExpiredAnyStatus(p, i) == tasks[p][i].claimant # NoActor /\ tasks[p][i].expiry <= clock

LeaseExpired(p, i) == StatusOf(p, i) = "running" /\ tasks[p][i].expiry <= clock

(* Mutant: the lease ignores the end of the window.                        *)
BoundedByLeaseOnly(p, lease) == clock + lease

(* bounded_lease_expiry, and its refusal when too little time is left.     *)
Bounded(p, lease) ==
  IF clock + lease <= WindowEnd[p] THEN clock + lease ELSE WindowEnd[p]
LeaseGrantable(p) ==
  OpenWindow(p) /\ Bounded(p, req[p].lease) >= clock + MinLease

(* verify_execution_evidence: evidence is written by one attempt of a task *)
(* and is accepted for that attempt only, whenever it arrives.             *)
Accepted(p, i, status, report) ==
  /\ report.retry = tasks[p][i].retry
  /\ IF status = "succeeded"
       THEN report.post = "passed" /\ report.class = SuccessClass(Stages[p][i])
       ELSE report.post \in {"failed", "blocked", "unknown"}

(* Evidence an executor may present for a task: of its stage's success, or *)
(* of a failure, from any attempt so far.                                  *)
Evidence(p, i) ==
  {[status |-> "succeeded",
    report |-> [retry |-> g, post |-> "passed", class |-> SuccessClass(Stages[p][i])]] :
      g \in 0..tasks[p][i].retry}
  \cup
  {[status |-> "failed", report |-> [retry |-> g, post |-> f.post, class |-> f.class]] :
      g \in 0..tasks[p][i].retry, f \in FailureReports}

Begin(p, label, r) ==
  /\ at[p] = "idle"
  /\ at' = [at EXCEPT ![p] = label]
  /\ req' = [req EXCEPT ![p] = r]

Step(p, from, to) ==
  /\ at[p] = from
  /\ at' = [at EXCEPT ![p] = to]
  /\ UNCHANGED req

End(p, from) ==
  /\ at[p] = from
  /\ at' = [at EXCEPT ![p] = "idle"]
  /\ req' = [req EXCEPT ![p] = NoRequest]

SetState(p, s) == state' = [state EXCEPT ![p] = s]

(* The task the command in progress is about, and its new contents.        *)
Current(p) == tasks[p][req[p].task]
WriteTask(p, t) == tasks' = [tasks EXCEPT ![p][req[p].task] = t]

-----------------------------------------------------------------------------
(* create, create-rollback: mkdir makes the plan identifier unique; the    *)
(* state file comes last.                                                  *)

(* The source tasks a rollback examines: a cluster's whole lineage, or the *)
(* final validation of a standalone database.                              *)
SourceTasks(p) ==
  IF p \in SealsLineage THEN TaskIds(SourceOf[p]) ELSE {Len(Stages[SourceOf[p]])}

(* Mutant: a cluster rollback seals the final task's actor only.           *)
SealedActorsFinalOnly(p) ==
  IF SourceOf[p] = NoPlan THEN {}
  ELSE {tasks[SourceOf[p]][Len(Stages[SourceOf[p]])].claimant}

SealedActors(p) ==
  IF SourceOf[p] = NoPlan THEN {}
  ELSE {tasks[SourceOf[p]][i].claimant : i \in SourceTasks(p)}

BeginCreate(p) ==
  /\ state[p] = "absent"
  /\ IF SourceOf[p] = NoPlan
       THEN clock <= ReadyUntil[p] /\ WindowStart[p] <= ReadyUntil[p]
       ELSE /\ state[SourceOf[p]] = "succeeded"
            /\ AllSealed(SourceOf[p])
            /\ \A i \in SourceTasks(p) :
                 StatusOf(SourceOf[p], i) = "succeeded" /\ Custodied(SourceOf[p], i)
  /\ WindowStart[p] < WindowEnd[p]
  /\ Begin(p, "create", NoRequest)
  /\ SetState(p, "incomplete")
  /\ sourceActors' = [sourceActors EXCEPT ![p] = SealedActors(p)]
  /\ UNCHANGED <<approver, operator, work, audit, owner, world>>

FinishCreate(p) ==
  /\ End(p, "create")
  /\ SetState(p, "awaiting_approval")
  /\ UNCHANGED <<authority, work, audit, owner, world>>

-----------------------------------------------------------------------------
(* approve and authorize: seal a decision, then change the state.          *)

MayApprove(p, a) == a # Requester[p] /\ a \notin sourceActors[p]

BeginApprove(p, a) ==
  /\ state[p] = "awaiting_approval"
  /\ ReadinessCurrent(p)
  /\ MayApprove(p, a)
  /\ clock < WindowEnd[p]
  /\ approver[p] = NoActor
  /\ Begin(p, "approve", [NoRequest EXCEPT !.actor = a])
  /\ UNCHANGED <<state, authority, work, audit, owner, world>>

SealApproval(p) ==
  /\ Step(p, "approve", "approval")
  /\ approver' = [approver EXCEPT ![p] = req[p].actor]
  /\ UNCHANGED <<state, operator, sourceActors, work, audit, owner, world>>

CommitApproval(p) ==
  /\ End(p, "approval")
  /\ SetState(p, "approved")
  /\ UNCHANGED <<authority, work, audit, owner, world>>

(* Mutant: the approver may also operate.                                  *)
MayAuthorizeApprover(p, a) == a # Requester[p] /\ a \notin sourceActors[p]

MayAuthorize(p, a) ==
  a # Requester[p] /\ a # approver[p] /\ a \notin sourceActors[p]

BeginAuthorize(p, a) ==
  /\ state[p] = "approved"
  /\ ReadinessCurrent(p)
  /\ MayAuthorize(p, a)
  /\ OpenWindow(p)
  /\ operator[p] = NoActor
  /\ Begin(p, "authorize", [NoRequest EXCEPT !.actor = a])
  /\ UNCHANGED <<state, authority, work, audit, owner, world>>

SealAuthorization(p) ==
  /\ Step(p, "authorize", "authorization")
  /\ operator' = [operator EXCEPT ![p] = req[p].actor]
  /\ UNCHANGED <<state, approver, sourceActors, work, audit, owner, world>>

CommitAuthorization(p) ==
  /\ End(p, "authorization")
  /\ SetState(p, "execution_authorized")
  /\ UNCHANGED <<authority, work, audit, owner, world>>

-----------------------------------------------------------------------------
(* dispatch: reserve every host, publish the task directory, start the run. *)

BeginDispatch(p, a) ==
  /\ state[p] = "execution_authorized"
  /\ OpenWindow(p) /\ ReadinessCurrent(p)
  /\ a = operator[p]
  /\ ~dispatched[p]
  /\ Begin(p, "dispatch", NoRequest)
  /\ UNCHANGED <<state, authority, work, audit, owner, world>>

(* Mutants: only running and paused plans are looked at, not the registry; *)
(* one free host is enough.                                                *)
CanReserveUnfinishedOnly(p) ==
  \A q \in Plans \ {p} :
    state[q] \in Active => HostsOf[q] \cap HostsOf[p] = {}
CanReserveSomeHost(p) == \E h \in HostsOf[p] : owner[h] \in {NoPlan, p}

(* target_reservation reserve: neither an unfinished plan nor a registry   *)
(* entry of another plan may touch a host of this one.                     *)
CanReserve(p) ==
  /\ \A q \in Plans \ {p} :
       state[q] \in Active => HostsOf[q] \cap HostsOf[p] = {}
  /\ \A h \in HostsOf[p] : owner[h] \in {NoPlan, p}

Reserve(p) ==
  /\ Step(p, "dispatch", "reserved")
  /\ CanReserve(p)
  /\ owner' = [h \in Hosts |-> IF h \in HostsOf[p] THEN p ELSE owner[h]]
  /\ UNCHANGED <<state, authority, work, audit, world>>

ReserveRefused(p) ==
  /\ End(p, "dispatch")
  /\ ~CanReserve(p)
  /\ UNCHANGED <<state, authority, work, audit, owner, world>>

PublishTasks(p) ==
  /\ Step(p, "reserved", "materialized")
  /\ dispatched' = [dispatched EXCEPT ![p] = TRUE]
  /\ UNCHANGED <<state, authority, tasks, custody, archive, audit, owner, world>>

(* The rename fails and the reservation is given back.                     *)
PublishFails(p) ==
  /\ End(p, "reserved")
  /\ owner' = Released(p)
  /\ UNCHANGED <<state, authority, work, audit, world>>

StartRun(p) ==
  /\ End(p, "materialized")
  /\ SetState(p, "running")
  /\ UNCHANGED <<authority, work, audit, owner, world>>

-----------------------------------------------------------------------------
(* claim and renew: a lease on the next task, bounded by the window.       *)

NothingInDoubt(p) ==
  \A j \in TaskIds(p) : StatusOf(p, j) \notin {"running", "unknown"}

BeginClaim(p, i, a, lease) ==
  /\ state[p] = "running" /\ OpenWindow(p)
  /\ AllSealed(p) /\ Owns(p) /\ NothingInDoubt(p)
  /\ NextPending(p, i)
  /\ Begin(p, "claim", [NoRequest EXCEPT !.task = i, !.actor = a, !.lease = lease])
  /\ UNCHANGED <<state, authority, work, audit, owner, world>>

GrantLease(p) ==
  /\ End(p, "claim")
  /\ LeaseGrantable(p)
  /\ WriteTask(p, [Current(p) EXCEPT !.status = "running",
                                     !.claimant = req[p].actor,
                                     !.expiry = Bounded(p, req[p].lease)])
  /\ UNCHANGED <<state, authority, dispatched, custody, archive, audit, owner, world>>

BeginRenew(p, i, a, lease) ==
  /\ state[p] = "running" /\ OpenWindow(p) /\ Owns(p)
  /\ LET t == tasks[p][i] IN
       /\ t.sealed /\ t.status = "running"
       /\ t.claimant = a /\ t.expiry > clock
  /\ Begin(p, "renew", [NoRequest EXCEPT !.task = i, !.actor = a, !.lease = lease])
  /\ UNCHANGED <<state, authority, work, audit, owner, world>>

ExtendLease(p) ==
  /\ End(p, "renew")
  /\ LeaseGrantable(p)
  /\ WriteTask(p, [Current(p) EXCEPT !.expiry = Bounded(p, req[p].lease)])
  /\ UNCHANGED <<state, authority, dispatched, custody, archive, audit, owner, world>>

(* The window closed, or nearly did, while the command was checking.       *)
LeaseRefused(p) ==
  /\ End(p, "claim") \/ End(p, "renew")
  /\ ~LeaseGrantable(p)
  /\ UNCHANGED <<state, authority, work, audit, owner, world>>

-----------------------------------------------------------------------------
(* complete: take custody of the evidence, record and seal the result,     *)
(* then pause, continue or finish the run.                                 *)

(* Mutant: an existing custody directory is reused.                        *)
CustodyReusable(p, i) == tasks[p][i].status = "running"

(* The custody directory of an attempt is created once.                    *)
CustodyFree(p, i) == ~ \E c \in custody[p] : c.task = i /\ c.retry = tasks[p][i].retry

BeginComplete(p, i, a, status, report) ==
  LET t == tasks[p][i] IN
  /\ state[p] = "running" /\ t.sealed /\ Owns(p)
  /\ Accepted(p, i, status, report)
  /\ t.claimant = a /\ t.status = "running"
  /\ clock <= t.expiry + Grace
  /\ CustodyFree(p, i)
  /\ Begin(p, "complete", [task |-> i, actor |-> a, lease |-> 0, outcome |-> status,
                           report |-> report, late |-> t.expiry <= clock])
  /\ UNCHANGED <<state, authority, work, audit, owner, world>>

TakeCustody(p) ==
  /\ Step(p, "complete", "custodied")
  /\ custody' = [custody EXCEPT ![p] = @ \cup
       {[task |-> req[p].task, retry |-> Current(p).retry,
         actor |-> req[p].actor, status |-> req[p].outcome, report |-> req[p].report]}]
  /\ UNCHANGED <<state, authority, dispatched, tasks, archive, audit, owner, world>>

RecordResult(p) ==
  /\ Step(p, "custodied", "recorded")
  /\ WriteTask(p, [Current(p) EXCEPT !.status = req[p].outcome,
                                     !.late = req[p].late, !.sealed = FALSE])
  /\ UNCHANGED <<state, authority, dispatched, custody, archive, audit, owner, world>>

SealResult(p) ==
  /\ Step(p, "recorded", "resulted")
  /\ WriteTask(p, [Current(p) EXCEPT !.sealed = TRUE])
  /\ UNCHANGED <<state, authority, dispatched, custody, archive, audit, owner, world>>

(* What a sealed result makes of the run.                                  *)
HasStatus(p, s) == \E i \in TaskIds(p) : StatusOf(p, i) = s
(* Mutant: a run with nothing pending is a success.                        *)
RunBlockedByUnknown(p) == ~AllSealed(p) \/ HasStatus(p, "unknown")
RunBlocked(p) ==
  \/ ~AllSealed(p)
  \/ HasStatus(p, "unknown")
  \/ /\ ~HasStatus(p, "pending")
     /\ \E i \in TaskIds(p) : StatusOf(p, i) # "succeeded" \/ ~Custodied(p, i)
(* Mutant: a late success lets the run go on.                              *)
MustPauseUnlessLate(p) == req[p].outcome # "succeeded" \/ RunBlocked(p)
MustPause(p) == req[p].outcome # "succeeded" \/ req[p].late \/ RunBlocked(p)

(* Mutant: pausing gives the hosts back.                                   *)
PauseRunReleasing(p) ==
  /\ Step(p, "resulted", "paused")
  /\ MustPause(p)
  /\ SetState(p, "paused")
  /\ owner' = Released(p)
  /\ UNCHANGED <<authority, work, audit, world>>

PauseRun(p) ==
  /\ Step(p, "resulted", "paused")
  /\ MustPause(p)
  /\ SetState(p, "paused")
  /\ UNCHANGED <<authority, work, audit, owner, world>>

PauseReason(p) ==
  CASE req[p].outcome = "failed"  -> "task_failed"
    [] req[p].outcome = "unknown" -> "lease_expired_task"
    [] req[p].outcome = "succeeded" /\ req[p].late -> "task_completed_after_lease"
    [] OTHER -> "blocks_success"

LogPause(p) ==
  /\ End(p, "paused")
  /\ lastPause' = [lastPause EXCEPT ![p] = [why |-> PauseReason(p), task |-> req[p].task]]
  /\ UNCHANGED <<state, authority, work, successLogged, owner, world>>

ContinueRun(p) ==
  /\ End(p, "resulted")
  /\ ~MustPause(p) /\ HasStatus(p, "pending")
  /\ UNCHANGED <<state, authority, work, audit, owner, world>>

FinishRun(p) ==
  /\ Step(p, "resulted", "succeeded")
  /\ ~MustPause(p) /\ ~HasStatus(p, "pending")
  /\ SetState(p, "succeeded")
  /\ UNCHANGED <<authority, work, audit, owner, world>>

LogSuccess(p) ==
  /\ Step(p, "succeeded", "logged")
  /\ successLogged' = [successLogged EXCEPT ![p] = TRUE]
  /\ UNCHANGED <<state, authority, work, lastPause, owner, world>>

ReleaseHosts(p) ==
  /\ End(p, "logged")
  /\ owner' = Released(p)
  /\ UNCHANGED <<state, authority, work, audit, world>>

-----------------------------------------------------------------------------
(* reconcile: an expired lease has an unknown outcome; a succeeded plan    *)
(* whose command died gives its hosts back.                                *)

BeginExpire(p, i) ==
  /\ state[p] = "running" /\ dispatched[p]
  /\ LeaseExpired(p, i)
  /\ \A j \in 1..i : tasks[p][j].sealed
  /\ \A j \in 1..(i - 1) : ~LeaseExpired(p, j)
  /\ Begin(p, "expire", [NoRequest EXCEPT !.task = i, !.outcome = "unknown"])
  /\ UNCHANGED <<state, authority, work, audit, owner, world>>

MarkUnknown(p) ==
  /\ Step(p, "expire", "recorded")
  /\ WriteTask(p, [Current(p) EXCEPT !.status = "unknown", !.sealed = FALSE])
  /\ UNCHANGED <<state, authority, dispatched, custody, archive, audit, owner, world>>

BeginReconcileSuccess(p) ==
  /\ state[p] = "succeeded" /\ AllSealed(p)
  /\ \A i \in TaskIds(p) : StatusOf(p, i) = "succeeded" /\ Custodied(p, i)
  /\ successLogged[p]
  /\ Begin(p, "logged", NoRequest)
  /\ UNCHANGED <<state, authority, work, audit, owner, world>>

-----------------------------------------------------------------------------
(* retry-task: only the failure that paused the plan, and only if its      *)
(* custodied report is safe.                                               *)

PausedByFailureOf(p, i) ==
  /\ lastPause[p] = [why |-> "task_failed", task |-> i]
  /\ StatusOf(p, i) = "failed"

(* Mutant: the postcondition of the failure is not looked at.              *)
SafeReportAnyPostcondition(p, i) ==
  /\ Custodied(p, i)
  /\ \E c \in custody[p] :
       /\ c.task = i /\ c.retry = tasks[p][i].retry
       /\ SafeToRetry(Stages[p][i], [c.report EXCEPT !.post = "failed"])

SafeReport(p, i) ==
  /\ Custodied(p, i)
  /\ \E c \in custody[p] : /\ c.task = i /\ c.retry = tasks[p][i].retry
                           /\ SafeToRetry(Stages[p][i], c.report)

BeginRetry(p, i) ==
  /\ state[p] = "paused" /\ OpenWindow(p)
  /\ PausedByFailureOf(p, i) /\ SafeReport(p, i)
  /\ AllSealed(p) /\ Owns(p)
  /\ tasks[p][i].retry < MaxRetries
  /\ Begin(p, "retry", [NoRequest EXCEPT !.task = i])
  /\ UNCHANGED <<state, authority, work, audit, owner, world>>

(* Mutant: an archive left by an interrupted retry is an error.            *)
ArchiveAttemptOnce(p) ==
  LET entry == [task |-> req[p].task, result |-> Current(p)] IN
  /\ Step(p, "retry", "archived")
  /\ entry \notin archive[p]
  /\ archive' = [archive EXCEPT ![p] = @ \cup {entry}]
  /\ UNCHANGED <<state, authority, dispatched, tasks, custody, audit, owner, world>>

(* A hard link that already exists has to be byte-identical.               *)
ArchiveAttempt(p) ==
  LET entry == [task |-> req[p].task, result |-> Current(p)] IN
  /\ Step(p, "retry", "archived")
  /\ \A x \in archive[p] :
       x.task = entry.task /\ x.result.retry = entry.result.retry => x = entry
  /\ archive' = [archive EXCEPT ![p] = @ \cup {entry}]
  /\ UNCHANGED <<state, authority, dispatched, tasks, custody, audit, owner, world>>

ResetTask(p) ==
  /\ Step(p, "archived", "reset")
  /\ WriteTask(p, [NewTask EXCEPT !.retry = Current(p).retry + 1, !.sealed = FALSE])
  /\ UNCHANGED <<state, authority, dispatched, custody, archive, audit, owner, world>>

SealAttempt(p) ==
  /\ Step(p, "reset", "retried")
  /\ WriteTask(p, [Current(p) EXCEPT !.sealed = TRUE])
  /\ UNCHANGED <<state, authority, dispatched, custody, archive, audit, owner, world>>

ResumeRun(p) ==
  /\ End(p, "retried")
  /\ SetState(p, "running")
  /\ UNCHANGED <<authority, work, audit, owner, world>>

-----------------------------------------------------------------------------
(* The command dies between two writes; its lock is reclaimed.             *)

Crash(p) ==
  /\ at[p] # "idle" /\ crashes < MaxCrashes
  /\ crashes' = crashes + 1
  /\ End(p, at[p])
  /\ UNCHANGED <<state, authority, work, audit, owner, clock>>

Tick ==
  /\ clock < MaxClock
  /\ clock' = clock + 1
  /\ UNCHANGED <<state, authority, work, audit, owner, at, req, crashes>>

-----------------------------------------------------------------------------
Init ==
  /\ state = [p \in Plans |-> "absent"]
  /\ approver = [p \in Plans |-> NoActor]
  /\ operator = [p \in Plans |-> NoActor]
  /\ sourceActors = [p \in Plans |-> {}]
  /\ dispatched = [p \in Plans |-> FALSE]
  /\ tasks = [p \in Plans |-> [i \in TaskIds(p) |-> NewTask]]
  /\ custody = [p \in Plans |-> {}]
  /\ archive = [p \in Plans |-> {}]
  /\ lastPause = [p \in Plans |-> NoPause]
  /\ successLogged = [p \in Plans |-> FALSE]
  /\ owner = [h \in Hosts |-> NoPlan]
  /\ at = [p \in Plans |-> "idle"]
  /\ req = [p \in Plans |-> NoRequest]
  /\ clock = 0
  /\ crashes = 0

(* The commands a person or a worker invokes.                              *)
Invoke(p) ==
  \/ BeginCreate(p)
  \/ \E a \in Actors : BeginApprove(p, a)
  \/ \E a \in Actors : BeginAuthorize(p, a)
  \/ \E a \in Actors : BeginDispatch(p, a)
  \/ \E i \in TaskIds(p), a \in Workers, l \in LeaseChoices : BeginClaim(p, i, a, l)
  \/ \E i \in TaskIds(p), a \in Workers, l \in LeaseChoices : BeginRenew(p, i, a, l)
  \/ \E i \in TaskIds(p), a \in Workers : \E e \in Evidence(p, i) :
       BeginComplete(p, i, a, e.status, e.report)
  \/ \E i \in TaskIds(p) : BeginExpire(p, i)
  \/ BeginReconcileSuccess(p)
  \/ \E i \in TaskIds(p) : BeginRetry(p, i)

(* The next durable write of the command in progress.                      *)
Proceed(p) ==
  \/ FinishCreate(p)
  \/ SealApproval(p) \/ CommitApproval(p)
  \/ SealAuthorization(p) \/ CommitAuthorization(p)
  \/ Reserve(p) \/ ReserveRefused(p)
  \/ PublishTasks(p) \/ PublishFails(p) \/ StartRun(p)
  \/ GrantLease(p) \/ ExtendLease(p) \/ LeaseRefused(p)
  \/ TakeCustody(p) \/ RecordResult(p) \/ SealResult(p)
  \/ PauseRun(p) \/ LogPause(p) \/ ContinueRun(p)
  \/ FinishRun(p) \/ LogSuccess(p) \/ ReleaseHosts(p)
  \/ MarkUnknown(p)
  \/ ArchiveAttempt(p) \/ ResetTask(p) \/ SealAttempt(p) \/ ResumeRun(p)

Next ==
  \/ \E p \in Plans : Invoke(p) \/ Proceed(p) \/ Crash(p)
  \/ Tick

Spec == Init /\ [][Next]_vars

(* A started command is a running process: it goes on unless it dies.      *)
FairSpec == Spec /\ \A p \in Plans : WF_vars(Proceed(p))
=============================================================================
