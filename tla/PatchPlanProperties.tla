------------------------ MODULE PatchPlanProperties ------------------------
(***************************************************************************)
(* What the plan controller has to guarantee.                              *)
(***************************************************************************)
EXTENDS PatchPlan

(* Types, part by part.                                                    *)
AuthorityTypes ==
  /\ state \in [Plans -> PlanStates]
  /\ approver \in [Plans -> Actors \cup {NoActor}]
  /\ operator \in [Plans -> Actors \cup {NoActor}]
  /\ sourceActors \in [Plans -> SUBSET (Actors \cup {NoActor})]

Custody(p) == [task : TaskIds(p), retry : Nat, actor : Actors,
               status : {"succeeded", "failed"}, report : Reports]

WorkTypes ==
  /\ dispatched \in [Plans -> BOOLEAN]
  /\ DOMAIN tasks = Plans /\ DOMAIN custody = Plans /\ DOMAIN archive = Plans
  /\ \A p \in Plans :
       /\ tasks[p] \in [TaskIds(p) -> Task]
       /\ custody[p] \subseteq Custody(p)
       /\ archive[p] \subseteq [task : TaskIds(p), result : Task]

Pause(p) == [why : {"task_failed", "lease_expired_task",
                    "task_completed_after_lease", "blocks_success"},
             task : TaskIds(p)]

AuditTypes ==
  /\ DOMAIN lastPause = Plans
  /\ \A p \in Plans : lastPause[p] = NoPause \/ lastPause[p] \in Pause(p)
  /\ successLogged \in [Plans -> BOOLEAN]

Request(p) == [task : TaskIds(p) \cup {0}, actor : Actors \cup {NoActor}, lease : Nat,
               outcome : TaskStatus, report : Reports, late : BOOLEAN]

CommandTypes ==
  /\ at \in [Plans -> Labels]
  /\ DOMAIN req = Plans
  /\ \A p \in Plans : req[p] \in Request(p)

FileTypes ==
  /\ AuthorityTypes /\ WorkTypes /\ AuditTypes
  /\ owner \in [Hosts -> Plans \cup {NoPlan}]
  /\ clock \in Nat /\ crashes \in Nat

(* Every variable keeps its type: what the commands read back from the     *)
(* plan's files is what the validators accept (verify_plan, verify_task).  *)
TypeOK == FileTypes /\ CommandTypes

-----------------------------------------------------------------------------
(* Hosts *)

(* A plan that is unfinished, or whose dispatch is past its reservation.   *)
Holding(label, s) == s \in Active \/ label \in {"reserved", "materialized"}

(* An unfinished plan, and a dispatch that has passed its reservation,     *)
(* holds every host it names, through pauses, failures and crashes         *)
(* (target_reservation; dispatch; the release in complete and reconcile).  *)
ReservationHeld == \A p \in Plans : Holding(at[p], state[p]) => Owns(p)

(* Two plans never have unfinished work on a common host: the reservation  *)
(* registry serialises database and Grid plans across commands that run    *)
(* at the same time and commands that die half-way (dispatch).             *)
TargetsExclusive ==
  \A p, q \in Plans :
    p # q /\ state[p] \in Active /\ state[q] \in Active
      => HostsOf[p] \cap HostsOf[q] = {}

(* At most one task is leased on any host, over all plans (claim).         *)
OneLeasePerHost ==
  \A p, q \in Plans : \A i \in TaskIds(p), j \in TaskIds(q) :
    /\ StatusOf(p, i) = "running" /\ StatusOf(q, j) = "running"
    /\ HostsOf[p] \cap HostsOf[q] # {}
    => p = q /\ i = j

(* The controller implements the abstract promise about hosts.             *)
Exclusion == INSTANCE HostExclusion WITH
  unfinished <- {p \in Plans : state[p] \in Active},
  finished   <- {p \in Plans : state[p] = "succeeded"}
ExclusionSpec == Exclusion!Spec

-----------------------------------------------------------------------------
(* Inductive strengthenings of the host properties *)

(* The state of a plan while a command that will change it is in progress. *)
Agrees(label, s) ==
  /\ label = "create" => s = "incomplete"
  /\ label \in {"approve", "approval"} => s = "awaiting_approval"
  /\ label \in {"authorize", "authorization"} => s = "approved"
  /\ label \in {"dispatch", "reserved", "materialized"} => s = "execution_authorized"
  /\ label \in {"claim", "renew", "complete", "custodied", "expire", "recorded",
                "resulted"} => s = "running"
  /\ label \in {"paused", "retry", "archived", "reset", "retried"} => s = "paused"
  /\ label \in {"succeeded", "logged"} => s = "succeeded"

StateAgreement == \A p \in Plans : Agrees(at[p], state[p])

(* A command in progress knows the task it is about.                       *)
TaskLabels == {"claim", "renew", "complete", "custodied", "expire", "recorded",
               "resulted", "paused", "retry", "archived", "reset", "retried"}

RequestInv ==
  \A p \in Plans :
    /\ at[p] \in TaskLabels => req[p].task \in TaskIds(p)
    /\ at[p] = "complete" =>
         req[p].actor \in Actors /\ req[p].outcome \in {"succeeded", "failed"}
    /\ at[p] \in {"custodied", "recorded", "resulted"} => req[p].outcome # "running"
    /\ at[p] = "expire" => req[p].outcome = "unknown"

TypeInv == TypeOK /\ RequestInv

HostInv == StateAgreement /\ ReservationHeld

(* Leases exist in unfinished plans only, one per plan, and a claim that   *)
(* has been checked finds no other lease when it is written.               *)
LeaseInv ==
  /\ \A p \in Plans : \A i \in TaskIds(p) :
       StatusOf(p, i) = "running" => state[p] \in Active
  /\ \A p \in Plans : \A i, j \in TaskIds(p) :
       StatusOf(p, i) = "running" /\ StatusOf(p, j) = "running" => i = j
  /\ \A p \in Plans : at[p] = "claim" => NothingInDoubt(p)

-----------------------------------------------------------------------------
(* Results *)

(* A succeeded plan has a sealed, custodied success with the right outcome *)
(* class for every one of its tasks, whatever was retried, reconciled or   *)
(* interrupted on the way (complete's final scan).                         *)
Earned(p) ==
  state[p] = "succeeded" =>
    \A i \in TaskIds(p) :
      /\ StatusOf(p, i) = "succeeded" /\ tasks[p][i].sealed
      /\ Custodied(p, i)
      /\ \E c \in custody[p] : /\ c.task = i /\ c.retry = tasks[p][i].retry
                               /\ c.report.class = SuccessClass(Stages[p][i])
SuccessIsEarned == \A p \in Plans : Earned(p)

(* "Failed work pauses the plan": while no command is in progress and none *)
(* has died, a running plan is a run of successes, each in its lease, then *)
(* at most one leased task, then pending ones (complete, reconcile,        *)
(* retry_task).                                                            *)
FailureStopsTheRun ==
  \A p \in Plans : crashes = 0 /\ state[p] = "running" /\ at[p] = "idle" =>
    \A i \in TaskIds(p) :
      /\ StatusOf(p, i) \in {"succeeded", "running", "pending"}
      /\ ~tasks[p][i].late
      /\ StatusOf(p, i) # "pending" =>
           \A j \in 1..(i - 1) : StatusOf(p, j) = "succeeded"

(* What a worker is told to do next never lies beyond a failed task: the   *)
(* step from pending to running finds only successes before it (claim).    *)
NoClaimPastFailure ==
  [][\A p \in Plans : \A i \in TaskIds(p) :
       StatusOf(p, i) = "pending" /\ StatusOf(p, i)' = "running" =>
         \A j \in TaskIds(p) : StatusOf(p, j) # "failed"]_vars

(* A recorded outcome is final: a success or an unknown outcome is never   *)
(* reopened, and a failure is reopened only as a new attempt whose result  *)
(* has been archived (complete, reconcile, retry_task).                    *)
OutcomesFinal ==
  [][\A p \in Plans : \A i \in TaskIds(p) :
       LET t == tasks[p][i]  n == tasks[p][i]' IN
       /\ t.status \in {"succeeded", "unknown"} =>
            n.status = t.status /\ n.retry = t.retry /\ n.claimant = t.claimant
       /\ t.status = "failed" =>
            \/ n.status = "failed" /\ n.retry = t.retry
            \/ /\ n.status = "pending" /\ n.retry = t.retry + 1
               /\ [task |-> i, result |-> t] \in archive[p]]_vars

(* Evidence custody is write-once: an attempt has one record, its own,     *)
(* wherever commands died and were repeated (custody_execution_evidence).  *)
OneRecord(p) ==
  \A c, d \in custody[p] : /\ c.report.retry = c.retry
                           /\ c.task = d.task /\ c.retry = d.retry => c = d
CustodyWriteOnce == \A p \in Plans : OneRecord(p)

(* No blind retry: every attempt of a task but the current one is archived *)
(* as a failure whose custodied report was explicitly safe to repeat       *)
(* (retry_task).                                                           *)
RepeatedSafely(p) ==
  \A i \in TaskIds(p) : \A g \in 0..(tasks[p][i].retry - 1) :
    /\ \E x \in archive[p] : x.task = i /\ x.result.retry = g
                             /\ x.result.status = "failed"
    /\ \E c \in custody[p] : c.task = i /\ c.retry = g /\ c.status = "failed"
                             /\ SafeToRetry(Stages[p][i], c.report)
NoBlindRetry == \A p \in Plans : RepeatedSafely(p)

(* Inductive strengthening: a success in custody has the outcome class of  *)
(* its stage, and a command in progress still finds of its task what it    *)
(* found when it began.                                                    *)
Graded(p) ==
  \A c \in custody[p] : c.status = "succeeded" => c.report.class = SuccessClass(Stages[p][c.task])

OfTask(p) ==
  /\ at[p] = "claim" => Current(p).status = "pending"
  /\ at[p] \in {"renew", "complete", "custodied", "expire"} => Current(p).status = "running"
  /\ at[p] \in {"retry", "archived"} => Current(p).status = "failed" /\ SafeReport(p, req[p].task)
  /\ at[p] = "archived" => [task |-> req[p].task, result |-> Current(p)] \in archive[p]
  /\ at[p] = "complete" =>
       CustodyFree(p, req[p].task) /\ Accepted(p, req[p].task, req[p].outcome, req[p].report)

Kept(p) == Graded(p) /\ OneRecord(p) /\ RepeatedSafely(p) /\ Earned(p)

ResultInv == \A p \in Plans : OfTask(p) /\ Kept(p)

(* Inductive strengthening: while no command has died, results come in the *)
(* order of the tasks, and a bad one is the only one and pauses the plan.  *)
Bad(p, i) == StatusOf(p, i) \in {"failed", "unknown"} \/ tasks[p][i].late

Orderly(p) ==
  /\ \A i \in TaskIds(p) :
       /\ StatusOf(p, i) # "pending" => \A j \in 1..(i - 1) : StatusOf(p, j) = "succeeded"
       /\ Bad(p, i) =>
            /\ state[p] = "paused" \/ (at[p] \in {"recorded", "resulted"} /\ req[p].task = i)
            /\ at[p] \notin {"reset", "retried"}
            /\ \A j \in TaskIds(p) : Bad(p, j) => j = i
  /\ at[p] = "claim" => \A j \in 1..(req[p].task - 1) : StatusOf(p, j) = "succeeded"
  /\ at[p] \in {"recorded", "resulted"} =>
       Current(p).status = req[p].outcome /\ (Current(p).late => req[p].late)

OrderInv == crashes = 0 => \A p \in Plans : Orderly(p)

-----------------------------------------------------------------------------
(* Authority and time *)

(* Requester, approver and authorising operator of a plan that may run are *)
(* three people, and neither of the last two is sealed into a rollback as  *)
(* a source worker (approve, authorize), also when a sealed decision was   *)
(* written by a command that died.                                         *)
SeparationOfDuties ==
  \A p \in Plans :
    state[p] \in {"execution_authorized", "running", "paused", "succeeded"} =>
      /\ approver[p] # NoActor /\ operator[p] # NoActor
      /\ Cardinality({Requester[p], approver[p], operator[p]}) = 3
      /\ {approver[p], operator[p]} \cap sourceActors[p] = {}

(* Inductive strengthening: whoever is sealed, or about to be, may be, and *)
(* the state of a plan says who is.                                        *)
Duties(p) ==
  /\ state[p] \in {"absent", "incomplete"} => approver[p] = NoActor
  /\ state[p] \in {"absent", "incomplete", "awaiting_approval"} => operator[p] = NoActor
  /\ state[p] \notin {"absent", "incomplete", "awaiting_approval"} => approver[p] # NoActor
  /\ state[p] \in {"execution_authorized", "running", "paused", "succeeded"} => operator[p] # NoActor
  /\ approver[p] # NoActor => MayApprove(p, approver[p])
  /\ operator[p] # NoActor => MayAuthorize(p, operator[p])
  /\ at[p] = "approve" => req[p].actor \in Actors /\ MayApprove(p, req[p].actor)
  /\ at[p] = "approval" => approver[p] # NoActor
  /\ at[p] = "authorize" => req[p].actor \in Actors /\ MayAuthorize(p, req[p].actor)
  /\ at[p] = "authorization" => operator[p] # NoActor

DutyInv == \A p \in Plans : Duties(p)

(* A lease never outlives the maintenance window, however long a command   *)
(* waited between its checks and its write (bounded_lease_expiry).         *)
LeaseInsideWindow ==
  \A p \in Plans : \A i \in TaskIds(p) :
    StatusOf(p, i) = "running" => tasks[p][i].expiry <= WindowEnd[p]

(* Whoever executed an attempt of the apply plan neither approves nor      *)
(* operates its rollback: "rollback approver must differ from every source *)
(* apply worker" (approve, authorize, create_rollback).                    *)
RollbackIndependence ==
  \A p \in Plans : SourceOf[p] # NoPlan =>
    \A c \in custody[SourceOf[p]] : c.actor \notin {approver[p], operator[p]}

(* A cluster rollback, whose source lineage is sealed whole, keeps apart   *)
(* from everyone whose result the source success rests on, although the    *)
(* lineage is read while other commands run (create_rac_rollback_plan).    *)
LineageIndependence ==
  \A p \in SealsLineage : SourceOf[p] # NoPlan =>
    \A i \in TaskIds(SourceOf[p]) :
      state[p] # "absent" =>
        tasks[SourceOf[p]][i].claimant \notin {approver[p], operator[p]}

-----------------------------------------------------------------------------
(* Recovery *)

(* Every command that starts comes to its end: no sequence of interrupted  *)
(* commands leaves a later one without a next step.                        *)
CommandsEnd == \A p \in Plans : at[p] # "idle" ~> at[p] = "idle"
=============================================================================
