--------------------------- MODULE PatchPlanProofs ---------------------------
(***************************************************************************)
(* Proofs about the plan controller, for every set of plans, hosts, actors *)
(* and stages, every window and lease length, and any number of crashes    *)
(* and retries.                                                            *)
(***************************************************************************)
EXTENDS PatchPlanProperties, PlanLockProperties, FiniteSetTheorems, TLAPS

(* The commands *)

Commands == {"create", "approve", "authorize", "dispatch", "claim", "renew", "complete",
             "expire", "logged", "retry"}

(* A command begins with its checks, and only create writes with them.     *)
LEMMA InvokeBegins ==
  ASSUME NEW p \in Plans, Invoke(p)
  PROVE  /\ \E label \in Commands : \E r : Begin(p, label, r)
         /\ \/ BeginCreate(p)
            \/ UNCHANGED <<state, authority, work, audit, owner, world>>
<1> DEFINE Begins == \E label \in Commands : \E r : Begin(p, label, r)
           Only == UNCHANGED <<state, authority, work, audit, owner, world>>
<1> SUFFICES Begins /\ (BeginCreate(p) \/ Only)
  OBVIOUS
<1>1. CASE BeginCreate(p)
  <2>1. Begin(p, "create", NoRequest)
    BY <1>1 DEF BeginCreate
  <2> QED BY <1>1, <2>1 DEF Commands
<1>2. ASSUME NEW a \in Actors, BeginApprove(p, a) PROVE Begins /\ Only
  <2>1. Begin(p, "approve", [NoRequest EXCEPT !.actor = a])
    BY <1>2 DEF BeginApprove
  <2> QED BY <1>2, <2>1 DEF BeginApprove, Commands
<1>3. ASSUME NEW a \in Actors, BeginAuthorize(p, a) PROVE Begins /\ Only
  <2>1. Begin(p, "authorize", [NoRequest EXCEPT !.actor = a])
    BY <1>3 DEF BeginAuthorize
  <2> QED BY <1>3, <2>1 DEF BeginAuthorize, Commands
<1>4. ASSUME NEW a \in Actors, BeginDispatch(p, a) PROVE Begins /\ Only
  <2>1. Begin(p, "dispatch", NoRequest)
    BY <1>4 DEF BeginDispatch
  <2> QED BY <1>4, <2>1 DEF BeginDispatch, Commands
<1>5. ASSUME NEW i \in TaskIds(p), NEW a \in Workers, NEW l \in LeaseChoices,
             BeginClaim(p, i, a, l) \/ BeginRenew(p, i, a, l)
      PROVE  Begins /\ Only
  <2> DEFINE r == [NoRequest EXCEPT !.task = i, !.actor = a, !.lease = l]
  <2>1. Begin(p, "claim", r) \/ Begin(p, "renew", r)
    BY <1>5 DEF BeginClaim, BeginRenew
  <2> HIDE DEF r
  <2>2. Begins
    BY <2>1 DEF Commands
  <2> QED BY <1>5, <2>2 DEF BeginClaim, BeginRenew
<1>6. ASSUME NEW i \in TaskIds(p), NEW a \in Workers, NEW e \in Evidence(p, i),
             BeginComplete(p, i, a, e.status, e.report)
      PROVE  Begins /\ Only
  <2> DEFINE r == [task |-> i, actor |-> a, lease |-> 0, outcome |-> e.status,
                   report |-> e.report, late |-> tasks[p][i].expiry <= clock]
  <2>1. Begin(p, "complete", r)
    BY <1>6 DEF BeginComplete
  <2> HIDE DEF r
  <2>2. Begins
    BY <2>1 DEF Commands
  <2> QED BY <1>6, <2>2 DEF BeginComplete
<1>7. ASSUME NEW i \in TaskIds(p), BeginExpire(p, i) \/ BeginRetry(p, i) PROVE Begins /\ Only
  <2> DEFINE x == [NoRequest EXCEPT !.task = i, !.outcome = "unknown"]
             r == [NoRequest EXCEPT !.task = i]
  <2>1. Begin(p, "expire", x) \/ Begin(p, "retry", r)
    BY <1>7 DEF BeginExpire, BeginRetry
  <2> HIDE DEF x, r
  <2>2. Begins
    BY <2>1 DEF Commands
  <2> QED BY <1>7, <2>2 DEF BeginExpire, BeginRetry
<1>8. CASE BeginReconcileSuccess(p)
  <2>1. Begin(p, "logged", NoRequest)
    BY <1>8 DEF BeginReconcileSuccess
  <2> QED BY <1>8, <2>1 DEF BeginReconcileSuccess, Commands
<1> HIDE DEF Begins, Only
<1> QED BY <1>1, <1>2, <1>3, <1>4, <1>5, <1>6, <1>7, <1>8 DEF Invoke

-----------------------------------------------------------------------------
(* Types and requests *)

(* A graded success carries one of the outcome classes.                    *)
LEMMA SuccessClassType == \A s : SuccessClass(s) \in Classes
BY DEF SuccessClass, Classes

(* What an executor may present is a status and a well-formed report.      *)
LEMMA EvidenceType ==
  ASSUME TypeOK, NEW p \in Plans, NEW i \in TaskIds(p), NEW e \in Evidence(p, i)
  PROVE  e.status \in {"succeeded", "failed"} /\ e.report \in Reports
<1>1. tasks[p][i].retry \in Nat
  BY DEF TypeOK, FileTypes, WorkTypes, Task
<1>2. \A g \in 0..tasks[p][i].retry : g \in Nat
  BY <1>1
<1>3. PICK g \in 0..tasks[p][i].retry :
        \/ e = [status |-> "succeeded",
                report |-> [retry |-> g, post |-> "passed",
                            class |-> SuccessClass(Stages[p][i])]]
        \/ \E f \in FailureReports :
             e = [status |-> "failed",
                  report |-> [retry |-> g, post |-> f.post, class |-> f.class]]
  BY DEF Evidence
<1> QED BY <1>2, <1>3, SuccessClassType, PlanAssumption DEF Reports

LEMMA TaskIdsNat == \A p \in Plans : TaskIds(p) \subseteq Nat \ {0}
BY PlanAssumption DEF TaskIds

LEMMA TypeInit == Init => TypeInv
BY PlanAssumption, TaskIdsNat DEF Init, TypeInv, TypeOK, FileTypes, RequestInv, AuthorityTypes,
   WorkTypes, AuditTypes, CommandTypes, PlanStates, Labels, TaskLabels, NewTask, Task,
   TaskStatus, Request, NoRequest, NoReport, Reports, Classes

(* What starting, continuing and ending a command do to its request.       *)
CommandInv == CommandTypes /\ RequestInv

LEMMA NoRequestType ==
  \A p \in Plans : NoRequest \in Request(p) /\ NoReport \in Reports
BY DEF NoRequest, Request, NoReport, Reports, Classes, TaskStatus

LEMMA BeginTypes ==
  ASSUME CommandInv, NEW p \in Plans, NEW label \in Labels, NEW r \in Request(p),
         Begin(p, label, r),
         label \in TaskLabels => r.task \in TaskIds(p),
         label = "complete" => r.actor \in Actors /\ r.outcome \in {"succeeded", "failed"},
         label \notin {"custodied", "recorded", "resulted"},
         label = "expire" => r.outcome = "unknown"
  PROVE  CommandInv'
<1> DEFINE Good(q, l, x) ==
      /\ l \in TaskLabels => x.task \in TaskIds(q)
      /\ l = "complete" => x.actor \in Actors /\ x.outcome \in {"succeeded", "failed"}
      /\ l \in {"custodied", "recorded", "resulted"} => x.outcome # "running"
      /\ l = "expire" => x.outcome = "unknown"
<1>1. \A q \in Plans : Good(q, at[q], req[q])
  BY DEF CommandInv, RequestInv
<1>2. Good(p, label, r)
  OBVIOUS
<1>3. \A q \in Plans : Good(q, at'[q], req'[q])
  <2> HIDE DEF Good
  <2> QED BY <1>1, <1>2 DEF Begin, CommandInv, CommandTypes
<1>4. CommandTypes'
  BY DEF CommandInv, CommandTypes, Begin
<1> QED BY <1>3, <1>4 DEF CommandInv, RequestInv

LEMMA StepTypes ==
  ASSUME CommandInv, NEW p \in Plans, NEW from \in Labels \ {"idle"}, NEW to \in Labels,
         Step(p, from, to),
         to \in TaskLabels => from \in TaskLabels,
         to \notin {"complete", "expire"},
         to \in {"custodied", "recorded", "resulted"} => req[p].outcome # "running"
  PROVE  CommandInv'
BY DEF CommandInv, CommandTypes, RequestInv, Step

LEMMA EndTypes ==
  ASSUME CommandInv, NEW p \in Plans, NEW from, End(p, from)
  PROVE  CommandInv'
<1>1. \A q \in Plans : at'[q] = "idle" \/ (at'[q] = at[q] /\ req'[q] = req[q])
  BY DEF End, CommandInv, CommandTypes
<1>2. CommandTypes'
  BY NoRequestType DEF End, CommandInv, CommandTypes, Labels
<1> QED BY <1>1, <1>2 DEF CommandInv, RequestInv, TaskLabels

(* Starting a command: the files stay as they are, except for create.      *)
LEMMA TypeInvoke ==
  ASSUME TypeInv, NEW p \in Plans, Invoke(p)
  PROVE  TypeInv'
<1> USE NoRequestType DEF TypeInv, TypeOK, CommandInv
<1> DEFINE Files == <<state, authority, work, audit, owner, world>>
<1>0. ASSUME UNCHANGED Files PROVE FileTypes'
  BY <1>0 DEF FileTypes, AuthorityTypes, WorkTypes, AuditTypes, authority, work, audit, world
<1>1. CASE BeginCreate(p)
  <2>1. SealedActors(p) \subseteq Actors \cup {NoActor}
    <3>1. CASE SourceOf[p] = NoPlan
      BY <3>1 DEF SealedActors
    <3>2. CASE SourceOf[p] # NoPlan
      <4>1. SourceOf[p] \in Plans /\ Len(Stages[SourceOf[p]]) \in Nat \ {0}
        BY <3>2, PlanAssumption
      <4>2. SourceTasks(p) \subseteq TaskIds(SourceOf[p])
        BY <4>1 DEF SourceTasks, TaskIds
      <4>3. \A i \in SourceTasks(p) :
              tasks[SourceOf[p]][i].claimant \in Actors \cup {NoActor}
        BY <4>1, <4>2 DEF FileTypes, WorkTypes, Task
      <4> QED BY <3>2, <4>3 DEF SealedActors
    <3> QED BY <3>1, <3>2
  <2>2. FileTypes'
    BY <1>1, <2>1 DEF BeginCreate, SetState, FileTypes, AuthorityTypes, WorkTypes,
       AuditTypes, PlanStates, work, audit, world
  <2>3. CommandInv'
    BY <1>1, BeginTypes DEF BeginCreate, Labels, TaskLabels
  <2> QED BY <2>2, <2>3
<1>2. ASSUME NEW a \in Actors,
             BeginApprove(p, a) \/ BeginAuthorize(p, a) \/ BeginDispatch(p, a)
      PROVE  TypeInv'
  <2>1. [NoRequest EXCEPT !.actor = a] \in Request(p)
    BY DEF Request, NoRequest
  <2>2. CommandInv'
    BY <1>2, <2>1, BeginTypes DEF BeginApprove, BeginAuthorize, BeginDispatch, Labels,
       TaskLabels
  <2> QED BY <1>0, <1>2, <2>2 DEF BeginApprove, BeginAuthorize, BeginDispatch
<1>3. ASSUME NEW i \in TaskIds(p), NEW a \in Workers, NEW l \in LeaseChoices,
             BeginClaim(p, i, a, l) \/ BeginRenew(p, i, a, l)
      PROVE  TypeInv'
  <2> DEFINE r == [NoRequest EXCEPT !.task = i, !.actor = a, !.lease = l]
  <2>1. r \in Request(p) /\ r.task = i
    BY PlanAssumption DEF Request, NoRequest
  <2>2. Begin(p, "claim", r) \/ Begin(p, "renew", r)
    BY <1>3 DEF BeginClaim, BeginRenew
  <2> HIDE DEF r
  <2>3. CommandInv'
    BY <2>1, <2>2, BeginTypes DEF Labels, TaskLabels
  <2> QED BY <1>0, <1>3, <2>3 DEF BeginClaim, BeginRenew
<1>4. ASSUME NEW i \in TaskIds(p), NEW a \in Workers, NEW e \in Evidence(p, i),
             BeginComplete(p, i, a, e.status, e.report)
      PROVE  TypeInv'
  <2> DEFINE b == tasks[p][i].expiry <= clock
  <2>1. b \in BOOLEAN
    BY DEF FileTypes, WorkTypes, Task
  <2> DEFINE r == [task |-> i, actor |-> a, lease |-> 0,
                   outcome |-> e.status, report |-> e.report, late |-> b]
  <2>2. r \in Request(p) /\ r.task = i /\ r.actor = a /\ r.outcome = e.status
    <3> HIDE DEF b
    <3> QED BY <2>1, EvidenceType, PlanAssumption DEF Request, TaskStatus
  <2>3. e.status \in {"succeeded", "failed"} /\ a \in Actors
    BY EvidenceType, PlanAssumption
  <2>4. Begin(p, "complete", r)
    BY <1>4 DEF BeginComplete
  <2> HIDE DEF r
  <2>5. CommandInv'
    BY <2>2, <2>3, <2>4, BeginTypes DEF Labels
  <2> QED BY <1>0, <1>4, <2>5 DEF BeginComplete
<1>5. ASSUME NEW i \in TaskIds(p), BeginExpire(p, i) \/ BeginRetry(p, i)
      PROVE  TypeInv'
  <2> DEFINE x == [NoRequest EXCEPT !.task = i, !.outcome = "unknown"]
             r == [NoRequest EXCEPT !.task = i]
  <2>1. /\ x \in Request(p) /\ x.task = i /\ x.outcome = "unknown"
        /\ r \in Request(p) /\ r.task = i
    BY DEF Request, NoRequest, TaskStatus
  <2>2. Begin(p, "expire", x) \/ Begin(p, "retry", r)
    BY <1>5 DEF BeginExpire, BeginRetry
  <2> HIDE DEF x, r
  <2>3. CommandInv'
    BY <2>1, <2>2, BeginTypes DEF Labels, TaskLabels
  <2> QED BY <1>0, <1>5, <2>3 DEF BeginExpire, BeginRetry
<1>6. CASE BeginReconcileSuccess(p)
  <2>1. CommandInv'
    BY <1>6, BeginTypes DEF BeginReconcileSuccess, Labels, TaskLabels
  <2> QED BY <1>0, <1>6, <2>1 DEF BeginReconcileSuccess
<1> QED BY <1>1, <1>2, <1>3, <1>4, <1>5, <1>6 DEF Invoke

(* Rewriting a task, or leaving the tasks alone, keeps the work well typed. *)
LEMMA WriteTaskTypes ==
  ASSUME WorkTypes, NEW p \in Plans, req[p].task \in TaskIds(p), NEW t \in Task,
         WriteTask(p, t), UNCHANGED <<dispatched, custody, archive>>
  PROVE  WorkTypes'
BY DEF WorkTypes, WriteTask

(* Each durable write keeps the files and the command well typed.          *)
LEMMA TypeProceed ==
  ASSUME TypeInv, NEW p \in Plans, Proceed(p)
  PROVE  TypeInv'
<1> USE DEF TypeInv, TypeOK, CommandInv
<1>1. CASE FinishCreate(p) \/ SealApproval(p) \/ CommitApproval(p)
           \/ SealAuthorization(p) \/ CommitAuthorization(p)
  <2> USE <1>1 DEF FinishCreate, SealApproval, CommitApproval, SealAuthorization,
                CommitAuthorization
  <2>1. CommandInv'
    BY StepTypes, EndTypes DEF Labels, TaskLabels
  <2>2. req[p].actor \in Actors \cup {NoActor}
    BY DEF CommandTypes, Request
  <2>3. FileTypes'
    BY SMTT(60), <2>2 DEF FileTypes, AuthorityTypes, WorkTypes, AuditTypes, SetState, PlanStates,
       authority, work, audit, world
  <2> QED BY <2>1, <2>3
<1>2. CASE Reserve(p) \/ ReserveRefused(p) \/ PublishTasks(p)
           \/ PublishFails(p) \/ StartRun(p)
  <2> USE <1>2 DEF Reserve, ReserveRefused, PublishTasks, PublishFails, StartRun
  <2>1. CommandInv'
    BY StepTypes, EndTypes DEF Labels, TaskLabels
  <2>2. FileTypes'
    BY ZenonT(60) DEF FileTypes, AuthorityTypes, WorkTypes, AuditTypes, SetState, PlanStates,
       Released, authority, work, audit, world
  <2> QED BY <2>1, <2>2
<1>3. CASE GrantLease(p) \/ ExtendLease(p) \/ LeaseRefused(p)
  <2> USE <1>3 DEF GrantLease, ExtendLease, LeaseRefused
  <2>1. CommandInv'
    BY EndTypes
  <2>2. req[p].task \in TaskIds(p) /\ Current(p) \in Task
    BY DEF End, RequestInv, TaskLabels, FileTypes, WorkTypes, Current
  <2>3. /\ req[p].actor \in Actors \cup {NoActor}
        /\ Bounded(p, req[p].lease) \in Nat
    BY SMTT(60), PlanAssumption DEF CommandTypes, Request, Bounded, FileTypes
  <2>4. /\ [Current(p) EXCEPT !.expiry = Bounded(p, req[p].lease)] \in Task
        /\ [Current(p) EXCEPT !.status = "running", !.claimant = req[p].actor,
                              !.expiry = Bounded(p, req[p].lease)] \in Task
    BY <2>2, <2>3 DEF Task, TaskStatus
  <2>5. WorkTypes'
    <3>1. CASE UNCHANGED work
      BY <3>1 DEF work, FileTypes, WorkTypes
    <3>2. CASE ~ UNCHANGED work
      BY <2>2, <2>4, <3>2, WriteTaskTypes DEF FileTypes
    <3> QED BY <3>1, <3>2
  <2> QED BY <2>1, <2>5 DEF FileTypes, AuthorityTypes, AuditTypes, authority, audit, world
<1>4. CASE TakeCustody(p)
  <2> USE <1>4 DEF TakeCustody
  <2>1. at[p] = "complete" /\ req[p] \in Request(p)
    BY DEF Step, CommandTypes
  <2>2. /\ req[p].task \in TaskIds(p) /\ req[p].actor \in Actors
        /\ req[p].outcome \in {"succeeded", "failed"} /\ req[p].report \in Reports
    BY <2>1 DEF RequestInv, TaskLabels, Request
  <2>3. CommandInv'
    BY <2>2, StepTypes DEF Labels, TaskLabels
  <2>4. Current(p).retry \in Nat
    BY <2>2 DEF FileTypes, WorkTypes, Task, Current
  <2>5. [task |-> req[p].task, retry |-> Current(p).retry,
         actor |-> req[p].actor, status |-> req[p].outcome,
         report |-> req[p].report] \in Custody(p)
    BY <2>2, <2>4 DEF Custody
  <2>6. FileTypes'
    BY <2>5 DEF FileTypes, AuthorityTypes, WorkTypes, AuditTypes, authority, audit, world
  <2> QED BY <2>3, <2>6
<1>5. CASE RecordResult(p) \/ SealResult(p) \/ MarkUnknown(p)
  <2> USE <1>5 DEF RecordResult, SealResult, MarkUnknown
  <2>1. CommandInv'
    <3>1. Step(p, "custodied", "recorded") \/ Step(p, "recorded", "resulted")
          \/ (Step(p, "expire", "recorded") /\ req[p].outcome = "unknown")
      <4>1. RequestInv /\ (at[p] = "expire" => req[p].outcome = "unknown")
        BY SMTT(60) DEF RequestInv
      <4> QED BY <4>1 DEF Step
    <3>2. CASE Step(p, "custodied", "recorded")
      BY <3>2, StepTypes DEF Labels, TaskLabels, RequestInv, Step
    <3>3. CASE Step(p, "recorded", "resulted")
      BY <3>3, StepTypes DEF Labels, TaskLabels, RequestInv, Step
    <3>4. CASE Step(p, "expire", "recorded") /\ req[p].outcome = "unknown"
      BY <3>4, StepTypes DEF Labels, TaskLabels
    <3> QED BY <3>1, <3>2, <3>3, <3>4
  <2>2. /\ req[p].outcome \in TaskStatus /\ req[p].late \in BOOLEAN
        /\ req[p].task \in TaskIds(p) /\ Current(p) \in Task
    BY DEF Step, CommandTypes, Request, RequestInv, TaskLabels, FileTypes, WorkTypes,
       Current
  <2>3. PICK t \in Task : WriteTask(p, t)
    <3>1. /\ [Current(p) EXCEPT !.status = req[p].outcome, !.late = req[p].late,
                                !.sealed = FALSE] \in Task
          /\ [Current(p) EXCEPT !.sealed = TRUE] \in Task
          /\ [Current(p) EXCEPT !.status = "unknown", !.sealed = FALSE] \in Task
      BY <2>2 DEF Task, TaskStatus
    <3> QED BY <3>1
  <2>4. WorkTypes'
    BY <2>2, <2>3, WriteTaskTypes DEF FileTypes
  <2> QED BY SMTT(60), <2>1, <2>4 DEF FileTypes, AuthorityTypes, AuditTypes, authority, audit, world
<1>6. CASE PauseRun(p) \/ LogPause(p) \/ ContinueRun(p) \/ FinishRun(p)
           \/ LogSuccess(p) \/ ReleaseHosts(p)
  <2> USE <1>6 DEF PauseRun, LogPause, ContinueRun, FinishRun, LogSuccess, ReleaseHosts
  <2>1. CommandInv'
    BY StepTypes, EndTypes DEF Labels, TaskLabels
  <2>2. LogPause(p) => [why |-> PauseReason(p), task |-> req[p].task] \in Pause(p)
    BY DEF Pause, PauseReason, RequestInv, TaskLabels, End
  <2>3. FileTypes'
    BY ZenonT(60), <2>2 DEF FileTypes, AuthorityTypes, WorkTypes, AuditTypes, SetState, PlanStates,
       Released, authority, work, audit, world
  <2> QED BY <2>1, <2>3
<1>7. CASE ArchiveAttempt(p) \/ ResetTask(p) \/ SealAttempt(p) \/ ResumeRun(p)
  <2> USE <1>7 DEF ArchiveAttempt, ResetTask, SealAttempt, ResumeRun
  <2>1. CommandInv'
    BY StepTypes, EndTypes DEF Labels, TaskLabels
  <2>2. at[p] # "idle" /\ req[p].task \in TaskIds(p)
    BY DEF RequestInv, TaskLabels, Step, End
  <2>3. Current(p) \in Task
    BY <2>2 DEF FileTypes, WorkTypes, Current
  <2>4. /\ [NewTask EXCEPT !.retry = Current(p).retry + 1, !.sealed = FALSE] \in Task
        /\ [Current(p) EXCEPT !.sealed = TRUE] \in Task
    <3>1. Current(p).retry + 1 \in Nat
      BY <2>3 DEF Task
    <3> HIDE <1>7 DEF Current
    <3> QED BY <2>3, <3>1 DEF NewTask, Task, TaskStatus
  <2>5. CASE ResetTask(p) \/ SealAttempt(p)
    <3>1. WorkTypes'
      BY <2>2, <2>4, <2>5, WriteTaskTypes DEF FileTypes
    <3> QED BY <2>1, <2>5, <3>1 DEF FileTypes, AuthorityTypes, AuditTypes, authority,
            audit, world
  <2>6. CASE ArchiveAttempt(p) \/ ResumeRun(p)
    <3>1. [task |-> req[p].task, result |-> Current(p)] \in [task : TaskIds(p), result : Task]
      BY <2>2, <2>3
    <3>2. WorkTypes'
      BY SMTT(60), <2>6, <3>1 DEF FileTypes, WorkTypes, work
    <3> QED BY <2>1, <2>6, <3>2 DEF FileTypes, AuthorityTypes, AuditTypes, SetState,
            PlanStates, authority, audit, world
  <2> QED BY <2>5, <2>6
<1> QED BY <1>1, <1>2, <1>3, <1>4, <1>5, <1>6, <1>7 DEF Proceed

LEMMA TypeStep == TypeInv /\ [Next]_vars => TypeInv'
<1> SUFFICES ASSUME TypeInv, [Next]_vars PROVE TypeInv'
  OBVIOUS
<1> USE DEF TypeInv, TypeOK, FileTypes, RequestInv, AuthorityTypes, WorkTypes,
    AuditTypes, CommandTypes, authority, work, audit
<1>1. ASSUME NEW p \in Plans, Crash(p) PROVE TypeInv'
  BY <1>1, TaskIdsNat DEF Crash, End, Labels, TaskLabels, Request, NoRequest, NoReport,
     Reports, Classes, TaskStatus
<1>2. CASE Tick
  BY <1>2 DEF Tick
<1>3. CASE UNCHANGED vars
  BY <1>3 DEF vars, world
<1> QED BY <1>1, <1>2, <1>3, TypeInvoke, TypeProceed DEF Next

(* Every reachable state is well typed, and a command in progress always   *)
(* names a task of its plan.                                               *)
THEOREM TypeCorrect == Spec => []TypeOK
<1>1. TypeInv => TypeOK
  BY DEF TypeInv
<1> QED BY <1>1, TypeInit, TypeStep, PTL DEF Spec

-----------------------------------------------------------------------------
(* Hosts *)

(* A move of one plan that leaves the registry alone and ends where the    *)
(* plan holds its hosts only if it began there.                            *)
LEMMA HostMove ==
  ASSUME TypeInv, HostInv, NEW p \in Plans, NEW l, NEW s,
         at' = [at EXCEPT ![p] = l], state' = [state EXCEPT ![p] = s],
         UNCHANGED owner, Agrees(l, s), Holding(l, s) => Holding(at[p], state[p])
  PROVE  HostInv'
BY DEF HostInv, StateAgreement, ReservationHeld, Owns, TypeInv, TypeOK, FileTypes,
   AuthorityTypes, CommandTypes

(* A move that leaves the plan's state as it is.                           *)
LEMMA HostLabel ==
  ASSUME TypeInv, HostInv, NEW p \in Plans, NEW l,
         at' = [at EXCEPT ![p] = l], UNCHANGED <<state, owner>>,
         Agrees(l, state[p]), Holding(l, state[p]) => Holding(at[p], state[p])
  PROVE  HostInv'
BY DEF HostInv, StateAgreement, ReservationHeld, Owns, TypeInv, TypeOK, FileTypes,
   AuthorityTypes, CommandTypes

(* Giving the hosts of a plan back takes none from another plan.           *)
LEMMA HostRelease ==
  ASSUME TypeInv, HostInv, NEW p \in Plans, at' = [at EXCEPT ![p] = "idle"],
         UNCHANGED state, state[p] \notin Active, owner' = Released(p)
  PROVE  HostInv'
BY ZenonT(60), PlanAssumption DEF HostInv, StateAgreement, Agrees, ReservationHeld, Holding, Owns,
   Released, TypeInv, TypeOK, FileTypes, AuthorityTypes, CommandTypes

LEMMA HostInit == Init => HostInv
BY DEF Init, HostInv, StateAgreement, Agrees, ReservationHeld, Holding, Active

LEMMA HostInvoke ==
  ASSUME TypeInv, HostInv, NEW p \in Plans, Invoke(p)
  PROVE  HostInv'
<1> USE DEF Begin, Agrees, Holding, Active
<1>1. CASE BeginCreate(p)
  BY <1>1, HostMove DEF BeginCreate, SetState
<1>2. ASSUME NEW a \in Actors,
             BeginApprove(p, a) \/ BeginAuthorize(p, a) \/ BeginDispatch(p, a)
      PROVE  HostInv'
  BY SMTT(60), <1>2, HostLabel DEF BeginApprove, BeginAuthorize, BeginDispatch
<1>3. ASSUME NEW i \in TaskIds(p), NEW a \in Workers, NEW l \in LeaseChoices,
             BeginClaim(p, i, a, l) \/ BeginRenew(p, i, a, l)
      PROVE  HostInv'
  BY <1>3, HostLabel DEF BeginClaim, BeginRenew
<1>4. ASSUME NEW i \in TaskIds(p), NEW a \in Workers, NEW e \in Evidence(p, i),
             BeginComplete(p, i, a, e.status, e.report)
      PROVE  HostInv'
  BY <1>4, HostLabel DEF BeginComplete
<1>5. ASSUME NEW i \in TaskIds(p), BeginExpire(p, i) \/ BeginRetry(p, i)
      PROVE  HostInv'
  BY <1>5, HostLabel DEF BeginExpire, BeginRetry
<1>6. CASE BeginReconcileSuccess(p)
  BY <1>6, HostLabel DEF BeginReconcileSuccess
<1> QED BY <1>1, <1>2, <1>3, <1>4, <1>5, <1>6 DEF Invoke

LEMMA HostProceed ==
  ASSUME TypeInv, HostInv, NEW p \in Plans, Proceed(p)
  PROVE  HostInv'
<1>0. Agrees(at[p], state[p])
  BY DEF HostInv, StateAgreement
<1> USE <1>0 DEF Step, End, SetState, Agrees, Holding, Active
<1>1. CASE FinishCreate(p) \/ CommitApproval(p) \/ CommitAuthorization(p)
           \/ StartRun(p) \/ PauseRun(p) \/ FinishRun(p) \/ ResumeRun(p)
  BY SMTT(60), <1>1, HostMove DEF FinishCreate, CommitApproval, CommitAuthorization, StartRun,
     PauseRun, FinishRun, ResumeRun
<1>2. CASE SealApproval(p) \/ SealAuthorization(p) \/ ReserveRefused(p)
           \/ PublishTasks(p) \/ GrantLease(p) \/ ExtendLease(p) \/ LeaseRefused(p)
  BY <1>2, HostLabel DEF SealApproval, SealAuthorization, ReserveRefused, PublishTasks,
     GrantLease, ExtendLease, LeaseRefused
<1>3. CASE TakeCustody(p) \/ RecordResult(p) \/ SealResult(p) \/ LogPause(p)
           \/ ContinueRun(p) \/ LogSuccess(p) \/ MarkUnknown(p)
  BY <1>3, HostLabel DEF TakeCustody, RecordResult, SealResult, LogPause, ContinueRun,
     LogSuccess, MarkUnknown
<1>4. CASE ArchiveAttempt(p) \/ ResetTask(p) \/ SealAttempt(p)
  BY <1>4, HostLabel DEF ArchiveAttempt, ResetTask, SealAttempt
<1>5. CASE PublishFails(p) \/ ReleaseHosts(p)
  BY <1>5, HostRelease DEF PublishFails, ReleaseHosts
<1>6. CASE Reserve(p)
  <2>1. \A q \in Plans \ {p} : Owns(q) => \A h \in HostsOf[q] : h \notin HostsOf[p]
    BY ZenonT(60), <1>6, PlanAssumption DEF Reserve, CanReserve, Owns
  <2>2. \A q \in Plans : HostsOf[q] \subseteq Hosts
    BY PlanAssumption
  <2>3. ReservationHeld'
    BY <1>6, <2>1, <2>2 DEF Reserve, HostInv, ReservationHeld, Owns, TypeInv, TypeOK,
       FileTypes, CommandTypes
  <2>4. StateAgreement'
    BY <1>6 DEF Reserve, HostInv, StateAgreement, TypeInv, TypeOK, CommandTypes
  <2> QED BY <2>3, <2>4 DEF HostInv
<1> QED BY <1>1, <1>2, <1>3, <1>4, <1>5, <1>6 DEF Proceed

LEMMA HostStep == TypeInv /\ HostInv /\ [Next]_vars => HostInv'
<1> SUFFICES ASSUME TypeInv, HostInv, [Next]_vars PROVE HostInv'
  OBVIOUS
<1>1. ASSUME NEW p \in Plans, Crash(p) PROVE HostInv'
  BY <1>1, HostLabel DEF Crash, End, Agrees, Holding
<1>2. CASE Tick \/ UNCHANGED vars
  BY <1>2 DEF Tick, vars, HostInv, StateAgreement, ReservationHeld, Owns
<1> QED BY <1>1, <1>2, HostInvoke, HostProceed DEF Next

(* A plan with unfinished work holds every host it names, whatever was     *)
(* interrupted, refused or retried in it or in any other plan.             *)
THEOREM ReservationsHold == Spec => []ReservationHeld
<1>1. HostInv => ReservationHeld
  BY DEF HostInv
<1> QED BY <1>1, TypeInit, TypeStep, HostInit, HostStep, PTL DEF Spec

(* No two plans have unfinished work on a common host.                     *)
THEOREM TargetsStayExclusive == Spec => []TargetsExclusive
<1>1. TypeInv /\ HostInv => TargetsExclusive
  <2> SUFFICES ASSUME TypeInv, HostInv, NEW p \in Plans, NEW q \in Plans, p # q,
                      state[p] \in Active, state[q] \in Active
               PROVE  HostsOf[p] \cap HostsOf[q] = {}
    BY DEF TargetsExclusive
  <2> QED BY DEF HostInv, ReservationHeld, Holding, Owns
<1> QED BY <1>1, TypeInit, TypeStep, HostInit, HostStep, PTL DEF Spec

-----------------------------------------------------------------------------
(* Leases *)

(* A step that writes no task and keeps the leased plans unfinished.       *)
LEMMA LeaseFrame ==
  ASSUME TypeInv, LeaseInv, NEW p \in Plans, NEW l, NEW s, UNCHANGED tasks,
         at' = [at EXCEPT ![p] = l], state' = [state EXCEPT ![p] = s],
         s \in Active \/ state[p] \notin Active \/ ~HasStatus(p, "running"),
         l = "claim" => NothingInDoubt(p)
  PROVE  LeaseInv'
BY DEF LeaseInv, StatusOf, HasStatus, NothingInDoubt, TypeInv, TypeOK, FileTypes,
   AuthorityTypes, CommandTypes

(* A step that gives one task a status other than a lease.                 *)
LEMMA LeaseWrite ==
  ASSUME TypeInv, LeaseInv, NEW p \in Plans, NEW l, NEW t, UNCHANGED state,
         req[p].task \in TaskIds(p), WriteTask(p, t),
         at' = [at EXCEPT ![p] = l], l # "claim",
         t.status = "running" => StatusOf(p, req[p].task) = "running"
  PROVE  LeaseInv'
<1>1. \A q \in Plans : \A i \in TaskIds(q) :
        /\ StatusOf(q, i)' = "running" => StatusOf(q, i) = "running"
        /\ q # p => StatusOf(q, i)' = StatusOf(q, i)
  BY DEF WriteTask, StatusOf, TypeInv, TypeOK, FileTypes, WorkTypes
<1>2. \A q \in Plans : at'[q] = "claim" => q # p /\ at[q] = "claim"
  BY DEF TypeInv, TypeOK, CommandTypes
<1> QED BY <1>1, <1>2 DEF LeaseInv, NothingInDoubt

LEMMA LeaseInit == Init => LeaseInv
BY DEF Init, LeaseInv, StatusOf, NewTask, NothingInDoubt

LEMMA LeaseInvoke ==
  ASSUME TypeInv, HostInv, LeaseInv, NEW p \in Plans, Invoke(p)
  PROVE  LeaseInv'
<1> USE DEF Begin, Active
<1>0. state = [state EXCEPT ![p] = state[p]]
  BY DEF TypeInv, TypeOK, FileTypes, AuthorityTypes
<1>1. CASE BeginCreate(p)
  BY <1>1, LeaseFrame DEF BeginCreate, SetState, work
<1>2. ASSUME NEW a \in Actors,
             BeginApprove(p, a) \/ BeginAuthorize(p, a) \/ BeginDispatch(p, a)
      PROVE  LeaseInv'
  BY <1>0, <1>2, LeaseFrame DEF BeginApprove, BeginAuthorize, BeginDispatch, work
<1>3. ASSUME NEW i \in TaskIds(p), NEW a \in Workers, NEW l \in LeaseChoices,
             BeginClaim(p, i, a, l) \/ BeginRenew(p, i, a, l)
      PROVE  LeaseInv'
  BY SMTT(60), <1>0, <1>3, LeaseFrame DEF BeginClaim, BeginRenew, work
<1>4. ASSUME NEW i \in TaskIds(p), NEW a \in Workers, NEW e \in Evidence(p, i),
             BeginComplete(p, i, a, e.status, e.report)
      PROVE  LeaseInv'
  BY <1>0, <1>4, LeaseFrame DEF BeginComplete, work
<1>5. ASSUME NEW i \in TaskIds(p), BeginExpire(p, i) \/ BeginRetry(p, i)
      PROVE  LeaseInv'
  <2>1. /\ UNCHANGED <<state, tasks>>
        /\ \/ at' = [at EXCEPT ![p] = "expire"] /\ state[p] = "running"
           \/ at' = [at EXCEPT ![p] = "retry"] /\ state[p] = "paused"
    BY <1>5 DEF BeginExpire, BeginRetry, work
  <2> QED BY <1>0, <2>1, LeaseFrame
<1>6. CASE BeginReconcileSuccess(p)
  <2>1. at' = [at EXCEPT ![p] = "logged"] /\ UNCHANGED <<state, tasks>>
        /\ state[p] = "succeeded"
    BY <1>6 DEF BeginReconcileSuccess, work
  <2> QED BY <1>0, <2>1, LeaseFrame
<1> QED BY <1>1, <1>2, <1>3, <1>4, <1>5, <1>6 DEF Invoke

LEMMA LeaseProceed ==
  ASSUME TypeInv, HostInv, LeaseInv, NEW p \in Plans, Proceed(p)
  PROVE  LeaseInv'
<1>0. /\ Agrees(at[p], state[p])
      /\ state = [state EXCEPT ![p] = state[p]]
      /\ at[p] \in TaskLabels => req[p].task \in TaskIds(p) /\ Current(p) \in Task
      /\ at[p] = "custodied" => req[p].outcome # "running"
  BY DEF HostInv, StateAgreement, TypeInv, TypeOK, FileTypes, AuthorityTypes, RequestInv,
     WorkTypes, Current
<1> USE <1>0 DEF Step, End, SetState, Agrees, Active
<1>1. CASE FinishCreate(p) \/ CommitApproval(p) \/ CommitAuthorization(p)
           \/ StartRun(p) \/ PauseRun(p) \/ ResumeRun(p)
  BY <1>1, LeaseFrame DEF FinishCreate, CommitApproval, CommitAuthorization, StartRun,
     PauseRun, ResumeRun, work
<1>2. CASE FinishRun(p)
  <2>1. ~HasStatus(p, "running")
    BY <1>2 DEF FinishRun, MustPause, RunBlocked, HasStatus
  <2> QED BY <1>2, <2>1, LeaseFrame DEF FinishRun, work
<1>3. CASE SealApproval(p) \/ SealAuthorization(p) \/ Reserve(p) \/ ReserveRefused(p)
           \/ PublishTasks(p) \/ PublishFails(p) \/ LeaseRefused(p)
  BY <1>3, LeaseFrame DEF SealApproval, SealAuthorization, Reserve, ReserveRefused,
     PublishTasks, PublishFails, LeaseRefused, work
<1>4. CASE TakeCustody(p) \/ LogPause(p) \/ ContinueRun(p) \/ LogSuccess(p)
           \/ ReleaseHosts(p) \/ ArchiveAttempt(p)
  BY SMTT(60), <1>4, LeaseFrame DEF TakeCustody, LogPause, ContinueRun, LogSuccess, ReleaseHosts,
     ArchiveAttempt, work
<1>5. CASE GrantLease(p)
  <2>1. NothingInDoubt(p)
    BY <1>5 DEF GrantLease, LeaseInv
  <2>2. req[p].task \in TaskIds(p)
    BY <1>5 DEF GrantLease, TaskLabels
  <2>3. \A q \in Plans : \A i \in TaskIds(q) :
          StatusOf(q, i)' = "running" =>
            (q = p /\ i = req[p].task) \/ (q # p /\ StatusOf(q, i) = "running")
    BY <1>5, <2>1 DEF GrantLease, WriteTask, StatusOf, NothingInDoubt, TypeInv, TypeOK,
       FileTypes, WorkTypes
  <2>4. \A q \in Plans : q # p => tasks'[q] = tasks[q] /\ at'[q] = at[q]
    BY <1>5 DEF GrantLease, WriteTask, TypeInv, TypeOK, FileTypes, WorkTypes, CommandTypes
  <2>5. state[p] = "running" /\ UNCHANGED state /\ at'[p] = "idle"
    BY <1>5 DEF GrantLease, TypeInv, TypeOK, CommandTypes
  <2> QED BY <2>3, <2>4, <2>5 DEF LeaseInv, NothingInDoubt, StatusOf
<1>6. CASE ExtendLease(p) \/ SealResult(p) \/ SealAttempt(p)
  <2> DEFINE x == [Current(p) EXCEPT !.expiry = Bounded(p, req[p].lease)]
             s == [Current(p) EXCEPT !.sealed = TRUE]
  <2>1. req[p].task \in TaskIds(p) /\ Current(p) \in Task
    BY <1>6 DEF ExtendLease, SealResult, SealAttempt, TaskLabels
  <2>2. x.status = StatusOf(p, req[p].task) /\ s.status = StatusOf(p, req[p].task)
    BY <2>1 DEF Task, Current, StatusOf
  <2>3. WriteTask(p, x) \/ WriteTask(p, s)
    BY <1>6 DEF ExtendLease, SealResult, SealAttempt
  <2> HIDE DEF x, s
  <2> QED BY <1>6, <2>1, <2>2, <2>3, LeaseWrite DEF ExtendLease, SealResult, SealAttempt
<1>7. CASE RecordResult(p) \/ MarkUnknown(p) \/ ResetTask(p)
  <2> DEFINE x == [Current(p) EXCEPT !.status = req[p].outcome, !.late = req[p].late,
                                     !.sealed = FALSE]
             u == [Current(p) EXCEPT !.status = "unknown", !.sealed = FALSE]
             n == [NewTask EXCEPT !.retry = Current(p).retry + 1, !.sealed = FALSE]
  <2>1. req[p].task \in TaskIds(p) /\ Current(p) \in Task
    BY <1>7 DEF RecordResult, MarkUnknown, ResetTask, TaskLabels
  <2>2. x.status = req[p].outcome /\ u.status = "unknown" /\ n.status = "pending"
    BY <2>1 DEF Task, NewTask
  <2>3. \/ WriteTask(p, x) /\ req[p].outcome # "running"
        \/ WriteTask(p, u)
        \/ WriteTask(p, n)
    BY <1>7 DEF RecordResult, MarkUnknown, ResetTask
  <2> HIDE DEF x, u, n
  <2> QED BY <1>7, <2>1, <2>2, <2>3, LeaseWrite DEF RecordResult, MarkUnknown, ResetTask
<1> QED BY <1>1, <1>2, <1>3, <1>4, <1>5, <1>6, <1>7 DEF Proceed

LEMMA LeaseStep == TypeInv /\ HostInv /\ LeaseInv /\ [Next]_vars => LeaseInv'
<1> SUFFICES ASSUME TypeInv, HostInv, LeaseInv, [Next]_vars PROVE LeaseInv'
  OBVIOUS
<1>1. ASSUME NEW p \in Plans, Crash(p) PROVE LeaseInv'
  <2>1. state = [state EXCEPT ![p] = state[p]]
    BY DEF TypeInv, TypeOK, FileTypes, AuthorityTypes
  <2> QED BY <1>1, <2>1, LeaseFrame DEF Crash, End, work
<1>2. CASE Tick \/ UNCHANGED vars
  BY <1>2 DEF Tick, vars, work, LeaseInv, StatusOf, NothingInDoubt
<1> QED BY <1>1, <1>2, LeaseInvoke, LeaseProceed DEF Next

(* At most one task is leased on any host, over all plans.                 *)
THEOREM OneLease == Spec => []OneLeasePerHost
<1>1. TypeInv /\ HostInv /\ LeaseInv => OneLeasePerHost
  <2> SUFFICES ASSUME HostInv, LeaseInv, NEW p \in Plans, NEW q \in Plans,
                      NEW i \in TaskIds(p), NEW j \in TaskIds(q),
                      StatusOf(p, i) = "running", StatusOf(q, j) = "running",
                      HostsOf[p] \cap HostsOf[q] # {}
               PROVE  p = q /\ i = j
    BY DEF OneLeasePerHost
  <2>1. Owns(p) /\ Owns(q)
    BY DEF HostInv, ReservationHeld, Holding, LeaseInv
  <2>2. p = q
    BY <2>1 DEF Owns
  <2> QED BY <2>2 DEF LeaseInv
<1> QED BY <1>1, TypeInit, TypeStep, HostInit, HostStep, LeaseInit, LeaseStep, PTL
        DEF Spec

-----------------------------------------------------------------------------
(* Refinement *)

(* The controller implements HostExclusion: running and paused plans are   *)
(* the unfinished ones, and only a dispatch that holds its hosts starts    *)
(* one.                                                                    *)
THEOREM Implements == Spec => ExclusionSpec
<1> DEFINE U == {p \in Plans : state[p] \in Active}
           F == {p \in Plans : state[p] = "succeeded"}
<1>1. Init => Exclusion!Init
  BY DEF Init, Exclusion!Init, Active
<1>2. TypeInv /\ HostInv /\ [Next]_vars => [Exclusion!Next]_<<U, F>>
  <2> SUFFICES ASSUME TypeInv, HostInv, [Next]_vars
               PROVE  [Exclusion!Next]_<<U, F>>
    OBVIOUS
  <2>0. ASSUME UNCHANGED state PROVE UNCHANGED <<U, F>>
    BY <2>0
  <2>1. ASSUME NEW p \in Plans, NEW s, SetState(p, s), s \notin Active,
               s # "succeeded", state[p] \notin Active, state[p] # "succeeded"
        PROVE  UNCHANGED <<U, F>>
    BY <2>1 DEF SetState, TypeInv, TypeOK, FileTypes, AuthorityTypes
  <2>2. ASSUME NEW p \in Plans, NEW s, SetState(p, s), s \in Active, state[p] \in Active
        PROVE  UNCHANGED <<U, F>>
    BY <2>2 DEF SetState, Active, TypeInv, TypeOK, FileTypes, AuthorityTypes
  <2>3. ASSUME NEW p \in Plans, Proceed(p)
        PROVE  [Exclusion!Next]_<<U, F>>
    <3>0. Agrees(at[p], state[p])
      BY DEF HostInv, StateAgreement
    <3>1. CASE FinishCreate(p) \/ CommitApproval(p) \/ CommitAuthorization(p)
      BY <2>1, <3>0, <3>1 DEF FinishCreate, CommitApproval, CommitAuthorization, End,
         Agrees, Active
    <3>2. CASE PauseRun(p) \/ ResumeRun(p)
      BY <2>2, <3>0, <3>2 DEF PauseRun, ResumeRun, Step, End, Agrees, Active
    <3>3. CASE StartRun(p)
      <4>1. state[p] = "execution_authorized" /\ Owns(p)
        BY <3>0, <3>3 DEF StartRun, End, Agrees, HostInv, ReservationHeld, Holding
      <4>2. \A q \in U : HostsOf[q] \cap HostsOf[p] = {}
        BY <4>1 DEF HostInv, ReservationHeld, Holding, Owns, Active
      <4>3. U' = U \cup {p} /\ F' = F /\ p \notin U \cup F
        BY <3>3, <4>1 DEF StartRun, SetState, Active, TypeInv, TypeOK, FileTypes,
           AuthorityTypes
      <4>4. Exclusion!Start(p)
        BY <4>2, <4>3 DEF Exclusion!Start
      <4> QED BY <4>4 DEF Exclusion!Next
    <3>4. CASE FinishRun(p)
      <4>1. state[p] = "running"
        BY <3>0, <3>4 DEF FinishRun, Step, Agrees
      <4>2. p \in U /\ U' = U \ {p} /\ F' = F \cup {p}
        BY <3>4, <4>1 DEF FinishRun, SetState, Active, TypeInv, TypeOK, FileTypes,
           AuthorityTypes
      <4>3. Exclusion!Finish(p)
        BY <4>2 DEF Exclusion!Finish
      <4> QED BY <4>3 DEF Exclusion!Next
    <3>5. CASE SealApproval(p) \/ SealAuthorization(p) \/ Reserve(p)
               \/ ReserveRefused(p) \/ PublishTasks(p) \/ PublishFails(p)
               \/ GrantLease(p) \/ ExtendLease(p) \/ LeaseRefused(p)
      BY <2>0, <3>5 DEF SealApproval, SealAuthorization, Reserve, ReserveRefused,
         PublishTasks, PublishFails, GrantLease, ExtendLease, LeaseRefused
    <3>6. CASE TakeCustody(p) \/ RecordResult(p) \/ SealResult(p) \/ LogPause(p)
               \/ ContinueRun(p) \/ LogSuccess(p) \/ ReleaseHosts(p)
               \/ MarkUnknown(p) \/ ArchiveAttempt(p) \/ ResetTask(p) \/ SealAttempt(p)
      BY <2>0, <3>6 DEF TakeCustody, RecordResult, SealResult, LogPause, ContinueRun,
         LogSuccess, ReleaseHosts, MarkUnknown, ArchiveAttempt, ResetTask, SealAttempt
    <3> QED BY <2>3, <3>1, <3>2, <3>3, <3>4, <3>5, <3>6 DEF Proceed
  <2>4. ASSUME NEW p \in Plans, Invoke(p)
        PROVE  UNCHANGED <<U, F>>
    <3>1. CASE BeginCreate(p)
      BY <2>1, <3>1 DEF BeginCreate, Active
    <3>2. CASE UNCHANGED state
      BY <2>0, <3>2
    <3>3. BeginCreate(p) \/ UNCHANGED state
      BY <2>4, InvokeBegins
    <3> QED BY <3>1, <3>2, <3>3
  <2>5. CASE (\E p \in Plans : Crash(p)) \/ Tick \/ UNCHANGED vars
    BY <2>0, <2>5 DEF Crash, Tick, vars
  <2> QED BY <2>3, <2>4, <2>5 DEF Next
<1> QED BY <1>1, <1>2, TypeInit, TypeStep, HostInit, HostStep, PTL
        DEF Spec, ExclusionSpec, Exclusion!Spec

(* Duties *)

LEMMA DutyInit == Init => DutyInv
BY DEF Init, DutyInv, Duties

(* A plan that a step leaves alone keeps its duties.                       *)
LEMMA DutyFrame ==
  ASSUME NEW p \in Plans, Duties(p), state'[p] = state[p], approver'[p] = approver[p],
         operator'[p] = operator[p], sourceActors'[p] = sourceActors[p],
         \/ at'[p] = at[p] /\ req'[p] = req[p]
         \/ at'[p] \notin {"approve", "approval", "authorize", "authorization"}
  PROVE  Duties(p)'
BY DEF Duties, MayApprove, MayAuthorize

(* A move among the states in which operator and approver are decided.     *)
LEMMA DutyMove ==
  ASSUME NEW p \in Plans, Duties(p), UNCHANGED authority,
         at'[p] \notin {"approve", "approval", "authorize", "authorization"},
         {state[p], state'[p]} \subseteq {"execution_authorized", "running", "paused", "succeeded"}
  PROVE  Duties(p)'
BY DEF Duties, MayApprove, MayAuthorize, authority

(* The other plans are untouched by a step of one.                         *)
LEMMA OtherPlans ==
  ASSUME TypeInv, NEW p \in Plans, Invoke(p) \/ Proceed(p) \/ Crash(p)
  PROVE  \A q \in Plans \ {p} :
           /\ state'[q] = state[q] /\ at'[q] = at[q] /\ req'[q] = req[q]
           /\ approver'[q] = approver[q] /\ operator'[q] = operator[q]
           /\ sourceActors'[q] = sourceActors[q]
           /\ tasks'[q] = tasks[q] /\ custody'[q] = custody[q] /\ archive'[q] = archive[q]
<1> USE DEF TypeInv, TypeOK, FileTypes, AuthorityTypes, WorkTypes, CommandTypes,
    authority, work, Begin, Step, End, SetState, WriteTask
<1>1. CASE Invoke(p)
  <2>1. \A q \in Plans \ {p} : at'[q] = at[q] /\ req'[q] = req[q]
    BY <1>1, InvokeBegins
  <2>2. CASE BeginCreate(p)
    BY <2>1, <2>2 DEF BeginCreate
  <2>3. CASE UNCHANGED <<state, authority, work>>
    BY <2>1, <2>3
  <2> QED BY <1>1, <2>2, <2>3, InvokeBegins
<1>2. CASE FinishCreate(p) \/ SealApproval(p) \/ CommitApproval(p) \/ SealAuthorization(p)
           \/ CommitAuthorization(p) \/ Reserve(p) \/ ReserveRefused(p)
           \/ PublishTasks(p) \/ PublishFails(p) \/ StartRun(p)
  BY <1>2 DEF FinishCreate, SealApproval, CommitApproval, SealAuthorization,
     CommitAuthorization, Reserve, ReserveRefused, PublishTasks, PublishFails, StartRun
<1>3. CASE GrantLease(p) \/ ExtendLease(p) \/ LeaseRefused(p) \/ TakeCustody(p)
           \/ RecordResult(p) \/ SealResult(p) \/ PauseRun(p) \/ LogPause(p)
           \/ ContinueRun(p) \/ FinishRun(p) \/ LogSuccess(p) \/ ReleaseHosts(p)
  BY <1>3 DEF GrantLease, ExtendLease, LeaseRefused, TakeCustody, RecordResult, SealResult,
     PauseRun, LogPause, ContinueRun, FinishRun, LogSuccess, ReleaseHosts
<1>4. CASE MarkUnknown(p) \/ ArchiveAttempt(p) \/ ResetTask(p) \/ SealAttempt(p) \/ ResumeRun(p)
  BY <1>4 DEF MarkUnknown, ArchiveAttempt, ResetTask, SealAttempt, ResumeRun
<1>5. CASE Crash(p)
  BY <1>5 DEF Crash
<1> QED BY <1>1, <1>2, <1>3, <1>4, <1>5 DEF Proceed

LEMMA DutyInvoke ==
  ASSUME TypeInv, NEW p \in Plans, Duties(p), Invoke(p)
  PROVE  Duties(p)'
<1> USE DEF Begin, authority, TypeInv, TypeOK, FileTypes, AuthorityTypes, CommandTypes
<1>1. CASE BeginCreate(p)
  BY <1>1 DEF BeginCreate, SetState, Duties
<1>2. ASSUME NEW a \in Actors, BeginApprove(p, a) PROVE Duties(p)'
  <2>1. req'[p].actor = a
    BY <1>2 DEF BeginApprove, NoRequest
  <2> QED BY <1>2, <2>1 DEF BeginApprove, Duties, MayApprove, MayAuthorize
<1>3. ASSUME NEW a \in Actors, BeginAuthorize(p, a) PROVE Duties(p)'
  <2>1. req'[p].actor = a
    BY <1>3 DEF BeginAuthorize, NoRequest
  <2> QED BY <1>3, <2>1 DEF BeginAuthorize, Duties, MayApprove, MayAuthorize
<1>4. CASE /\ UNCHANGED <<state, authority>>
           /\ at'[p] \notin {"approve", "approval", "authorize", "authorization"}
  BY SMTT(60), <1>4, DutyFrame
<1>5. \/ BeginCreate(p)
      \/ \E a \in Actors : BeginApprove(p, a) \/ BeginAuthorize(p, a)
      \/ /\ UNCHANGED <<state, authority>>
         /\ at'[p] \in {"dispatch", "claim", "renew", "complete", "expire", "logged", "retry"}
  BY ZenonT(60) DEF Invoke, BeginDispatch, BeginClaim, BeginRenew, BeginComplete, BeginExpire,
     BeginReconcileSuccess, BeginRetry
<1> QED BY <1>1, <1>2, <1>3, <1>4, <1>5

LEMMA DutyProceed ==
  ASSUME TypeInv, HostInv, NEW p \in Plans, Duties(p), Proceed(p)
  PROVE  Duties(p)'
<1>0. Agrees(at[p], state[p])
  BY DEF HostInv, StateAgreement
<1> USE <1>0 DEF Step, End, SetState, authority, TypeInv, TypeOK, FileTypes, AuthorityTypes, CommandTypes
<1>1. CASE FinishCreate(p)
  BY <1>1 DEF FinishCreate, Duties, Agrees
<1>2. CASE SealApproval(p)
  BY <1>2, PlanAssumption DEF SealApproval, Duties, Agrees, MayApprove, MayAuthorize
<1>3. CASE CommitApproval(p)
  BY <1>3 DEF CommitApproval, Duties, Agrees, MayApprove, MayAuthorize
<1>4. CASE SealAuthorization(p)
  BY <1>4, PlanAssumption DEF SealAuthorization, Duties, Agrees, MayApprove, MayAuthorize
<1>5. CASE CommitAuthorization(p)
  BY <1>5 DEF CommitAuthorization, Duties, Agrees, MayApprove, MayAuthorize
<1>6. CASE StartRun(p) \/ PauseRun(p) \/ FinishRun(p) \/ ResumeRun(p)
  BY <1>6, DutyMove DEF StartRun, PauseRun, FinishRun, ResumeRun, Agrees
<1>7. CASE Reserve(p) \/ ReserveRefused(p) \/ PublishTasks(p) \/ PublishFails(p)
           \/ GrantLease(p) \/ ExtendLease(p) \/ LeaseRefused(p)
           \/ TakeCustody(p) \/ RecordResult(p) \/ SealResult(p)
  BY <1>7, DutyFrame DEF Reserve, ReserveRefused, PublishTasks, PublishFails, GrantLease,
     ExtendLease, LeaseRefused, TakeCustody, RecordResult, SealResult
<1>8. CASE LogPause(p) \/ ContinueRun(p) \/ LogSuccess(p) \/ ReleaseHosts(p) \/ MarkUnknown(p)
           \/ ArchiveAttempt(p) \/ ResetTask(p) \/ SealAttempt(p)
  BY <1>8, DutyFrame DEF LogPause, ContinueRun, LogSuccess, ReleaseHosts, MarkUnknown,
     ArchiveAttempt, ResetTask, SealAttempt
<1> QED BY <1>1, <1>2, <1>3, <1>4, <1>5, <1>6, <1>7, <1>8 DEF Proceed

LEMMA DutyStep == TypeInv /\ HostInv /\ DutyInv /\ [Next]_vars => DutyInv'
<1> SUFFICES ASSUME TypeInv, HostInv, DutyInv, [Next]_vars PROVE DutyInv'
  OBVIOUS
<1>1. ASSUME NEW p \in Plans, Invoke(p) \/ Proceed(p) \/ Crash(p) PROVE DutyInv'
  <2>1. \A q \in Plans \ {p} : Duties(q)'
    BY <1>1, OtherPlans, DutyFrame DEF DutyInv
  <2>2. ASSUME Crash(p) PROVE Duties(p)'
    BY <2>2, DutyFrame DEF DutyInv, Crash, End, authority, TypeInv, TypeOK, CommandTypes
  <2>3. Duties(p)'
    BY <1>1, <2>2, DutyInvoke, DutyProceed DEF DutyInv
  <2> QED BY <2>1, <2>3 DEF DutyInv
<1>2. CASE Tick \/ UNCHANGED vars
  BY <1>2, DutyFrame DEF Tick, vars, authority, DutyInv
<1> QED BY <1>1, <1>2 DEF Next

(* Three different people are three.                                       *)
LEMMA ThreeActors ==
  ASSUME NEW a, NEW b, NEW c, a # b, a # c, b # c
  PROVE  Cardinality({a, b, c}) = 3
<1>1. IsFiniteSet({c}) /\ Cardinality({c}) = 1
  BY FS_Singleton
<1>2. IsFiniteSet({c} \cup {b}) /\ Cardinality({c} \cup {b}) = 2
  BY <1>1, FS_AddElement
<1>3. Cardinality(({c} \cup {b}) \cup {a}) = 3
  BY <1>2, FS_AddElement
<1>4. ({c} \cup {b}) \cup {a} = {a, b, c}
  OBVIOUS
<1> QED BY <1>3, <1>4

(* Requester, approver and operator of a plan that may run differ, however *)
(* its decisions were interrupted (approve, authorize).                    *)
THEOREM DutiesAreSeparate == Spec => []SeparationOfDuties
<1>1. DutyInv => SeparationOfDuties
  <2> SUFFICES ASSUME DutyInv, NEW p \in Plans,
                      state[p] \in {"execution_authorized", "running", "paused", "succeeded"}
               PROVE  /\ approver[p] # NoActor /\ operator[p] # NoActor
                      /\ Cardinality({Requester[p], approver[p], operator[p]}) = 3
                      /\ {approver[p], operator[p]} \cap sourceActors[p] = {}
    BY DEF SeparationOfDuties
  <2>1. approver[p] # NoActor /\ operator[p] # NoActor
    BY DEF DutyInv, Duties
  <2>2. MayApprove(p, approver[p]) /\ MayAuthorize(p, operator[p])
    BY <2>1 DEF DutyInv, Duties
  <2>3. Cardinality({Requester[p], approver[p], operator[p]}) = 3
    BY <2>2, ThreeActors DEF MayApprove, MayAuthorize
  <2> QED BY <2>1, <2>2, <2>3 DEF MayApprove, MayAuthorize
<1> QED BY <1>1, TypeInit, TypeStep, HostInit, HostStep, DutyInit, DutyStep, PTL DEF Spec

-----------------------------------------------------------------------------
(* Leases and the window *)

(* A step that writes no task, or gives one task no later lease.           *)
LEMMA WindowWrite ==
  ASSUME TypeInv, LeaseInsideWindow, NEW p \in Plans, NEW t, req[p].task \in TaskIds(p),
         WriteTask(p, t),
         t.status = "running" => t.expiry <= WindowEnd[p]
  PROVE  LeaseInsideWindow'
BY DEF LeaseInsideWindow, StatusOf, WriteTask, TypeInv, TypeOK, FileTypes, WorkTypes

LEMMA WindowProceed ==
  ASSUME TypeInv, HostInv, LeaseInsideWindow, NEW p \in Plans, Proceed(p)
  PROVE  LeaseInsideWindow'
<1>0. ASSUME at[p] \in TaskLabels
      PROVE  req[p].task \in TaskIds(p) /\ Current(p) \in Task
  BY <1>0 DEF TypeInv, TypeOK, FileTypes, RequestInv, WorkTypes, Current
<1>1. CASE UNCHANGED tasks
  BY <1>1 DEF LeaseInsideWindow, StatusOf
<1>2. Bounded(p, req[p].lease) <= WindowEnd[p]
  BY PlanAssumption DEF Bounded, TypeInv, TypeOK, FileTypes, CommandTypes, Request
<1>3. CASE GrantLease(p) \/ ExtendLease(p)
  <2> DEFINE x == [Current(p) EXCEPT !.status = "running", !.claimant = req[p].actor,
                                     !.expiry = Bounded(p, req[p].lease)]
             y == [Current(p) EXCEPT !.expiry = Bounded(p, req[p].lease)]
  <2>1. req[p].task \in TaskIds(p) /\ Current(p) \in Task
    BY <1>0, <1>3 DEF GrantLease, ExtendLease, End, TaskLabels
  <2>2. x.expiry <= WindowEnd[p] /\ y.expiry <= WindowEnd[p]
    BY <1>2, <2>1 DEF Task
  <2>3. WriteTask(p, x) \/ WriteTask(p, y)
    BY <1>3 DEF GrantLease, ExtendLease
  <2> HIDE DEF x, y
  <2> QED BY <2>1, <2>2, <2>3, WindowWrite
<1>4. CASE SealResult(p) \/ SealAttempt(p)
  <2> DEFINE x == [Current(p) EXCEPT !.sealed = TRUE]
  <2>1. req[p].task \in TaskIds(p) /\ Current(p) \in Task
    BY <1>0, <1>4 DEF SealResult, SealAttempt, Step, TaskLabels
  <2>2. x.status = "running" => x.expiry <= WindowEnd[p]
    BY <2>1 DEF Task, Current, LeaseInsideWindow, StatusOf
  <2>3. WriteTask(p, x)
    BY <1>4 DEF SealResult, SealAttempt
  <2> HIDE DEF x
  <2> QED BY <2>1, <2>2, <2>3, WindowWrite
<1>5. CASE RecordResult(p) \/ MarkUnknown(p) \/ ResetTask(p)
  <2> DEFINE x == [Current(p) EXCEPT !.status = req[p].outcome, !.late = req[p].late,
                                     !.sealed = FALSE]
             u == [Current(p) EXCEPT !.status = "unknown", !.sealed = FALSE]
             n == [NewTask EXCEPT !.retry = Current(p).retry + 1, !.sealed = FALSE]
  <2>1. req[p].task \in TaskIds(p) /\ Current(p) \in Task
    BY <1>0, <1>5 DEF RecordResult, MarkUnknown, ResetTask, Step, TaskLabels
  <2>2. x.status = req[p].outcome /\ u.status = "unknown" /\ n.status = "pending"
    BY <2>1 DEF Task, NewTask
  <2>3. \/ WriteTask(p, x) /\ req[p].outcome # "running"
        \/ WriteTask(p, u)
        \/ WriteTask(p, n)
    BY <1>5 DEF RecordResult, MarkUnknown, ResetTask, Step, TypeInv, RequestInv
  <2> HIDE DEF x, u, n
  <2> QED BY <2>1, <2>2, <2>3, WindowWrite
<1>6. \/ UNCHANGED tasks
      \/ GrantLease(p) \/ ExtendLease(p) \/ SealResult(p) \/ SealAttempt(p)
      \/ RecordResult(p) \/ MarkUnknown(p) \/ ResetTask(p)
  BY DEF Proceed, work, FinishCreate, SealApproval, CommitApproval, SealAuthorization,
     CommitAuthorization, Reserve, ReserveRefused, PublishTasks, PublishFails, StartRun,
     LeaseRefused, TakeCustody, PauseRun, LogPause, ContinueRun, FinishRun, LogSuccess,
     ReleaseHosts, ArchiveAttempt, ResumeRun
<1> QED BY <1>1, <1>3, <1>4, <1>5, <1>6

(* No lease outlives the maintenance window, however long a command took   *)
(* between its checks and its write (bounded_lease_expiry).                *)
THEOREM LeasesEndInWindow == Spec => []LeaseInsideWindow
<1>1. Init => LeaseInsideWindow
  BY DEF Init, LeaseInsideWindow, StatusOf, NewTask
<1>2. TypeInv /\ HostInv /\ LeaseInsideWindow /\ [Next]_vars => LeaseInsideWindow'
  <2> SUFFICES ASSUME TypeInv, HostInv, LeaseInsideWindow, [Next]_vars
               PROVE  LeaseInsideWindow'
    OBVIOUS
  <2>1. CASE UNCHANGED tasks
    BY <2>1 DEF LeaseInsideWindow, StatusOf
  <2>2. ASSUME NEW p \in Plans, Invoke(p) PROVE UNCHANGED tasks
    BY <2>2, InvokeBegins DEF BeginCreate, work
  <2>3. ASSUME NEW p \in Plans, Crash(p) PROVE UNCHANGED tasks
    BY <2>3 DEF Crash, work
  <2>4. CASE Tick \/ UNCHANGED vars
    BY <2>1, <2>4 DEF Tick, vars, work
  <2> QED BY <2>1, <2>2, <2>3, <2>4, WindowProceed DEF Next
<1> QED BY <1>1, <1>2, TypeInit, TypeStep, HostInit, HostStep, PTL DEF Spec

-----------------------------------------------------------------------------
(* Results *)

(* Commands that still need what they found of their task.                 *)
Relying == {"claim", "renew", "complete", "custodied", "expire", "retry", "archived"}

LEMMA ResultInit == Init => ResultInv
<1> SUFFICES ASSUME Init, NEW p \in Plans PROVE OfTask(p) /\ Kept(p)
  BY DEF ResultInv
<1>1. \A i \in TaskIds(p) : tasks[p][i].retry = 0
  BY DEF Init, NewTask
<1>2. RepeatedSafely(p)
  BY <1>1 DEF RepeatedSafely
<1> QED BY <1>2 DEF Init, OfTask, Kept, Graded, OneRecord, Earned

(* A step that leaves the files of a plan alone, short of its success.     *)
LEMMA KeptFrame ==
  ASSUME NEW p \in Plans, Kept(p),
         tasks'[p] = tasks[p], custody'[p] = custody[p], archive'[p] = archive[p],
         state'[p] = state[p] \/ state'[p] # "succeeded"
  PROVE  Kept(p)'
<1>1. Graded(p)' /\ OneRecord(p)' /\ RepeatedSafely(p)'
  BY DEF Kept, Graded, OneRecord, RepeatedSafely
<1>2. Earned(p)'
  BY SMTT(60) DEF Kept, Earned, StatusOf, Custodied
<1> QED BY <1>1, <1>2 DEF Kept

LEMMA OfTaskFrame ==
  ASSUME NEW p \in Plans, OfTask(p),
         tasks'[p] = tasks[p], custody'[p] = custody[p], archive'[p] = archive[p],
         at'[p] = at[p] /\ req'[p] = req[p]
  PROVE  OfTask(p)'
BY DEF OfTask, Current, SafeReport, Custodied, CustodyFree, Accepted

(* Starting a command: it has just looked.                                 *)
LEMMA OfTaskInvoke ==
  ASSUME TypeInv, NEW p \in Plans, Invoke(p)
  PROVE  OfTask(p)'
<1> USE DEF Begin, TypeInv, TypeOK, CommandTypes
<1>1. ASSUME at'[p] \notin Relying PROVE OfTask(p)'
  BY <1>1 DEF OfTask, Relying
<1>2. ASSUME NEW i \in TaskIds(p), NEW a \in Workers, NEW l \in LeaseChoices,
             BeginClaim(p, i, a, l) \/ BeginRenew(p, i, a, l)
      PROVE  OfTask(p)'
  <2> DEFINE r == [NoRequest EXCEPT !.task = i, !.actor = a, !.lease = l]
  <2>0. r.task = i
    BY DEF NoRequest
  <2>1. req'[p].task = i /\ tasks' = tasks /\ at'[p] \in {"claim", "renew"}
    <3>1. (Begin(p, "claim", r) \/ Begin(p, "renew", r)) /\ UNCHANGED work
      BY <1>2 DEF BeginClaim, BeginRenew
    <3> HIDE DEF r
    <3> QED BY <2>0, <3>1 DEF work
  <2>2. Current(p)' = tasks[p][i]
    BY <2>1 DEF Current
  <2> QED BY <1>2, <2>1, <2>2 DEF BeginClaim, BeginRenew, NextPending, StatusOf, OfTask
<1>3. ASSUME NEW i \in TaskIds(p), NEW a \in Workers, NEW e \in Evidence(p, i),
             BeginComplete(p, i, a, e.status, e.report)
      PROVE  OfTask(p)'
  <2>1. /\ req'[p].task = i /\ req'[p].outcome = e.status /\ req'[p].report = e.report
        /\ tasks' = tasks /\ custody' = custody /\ at'[p] = "complete"
    BY <1>3 DEF BeginComplete, work
  <2>2. Current(p)' = tasks[p][i]
    BY <2>1 DEF Current
  <2>3. CustodyFree(p, i) /\ Accepted(p, i, e.status, e.report) /\ tasks[p][i].status = "running"
    BY <1>3 DEF BeginComplete
  <2>4. CustodyFree(p, req[p].task)' /\ Accepted(p, req[p].task, req[p].outcome, req[p].report)'
    BY <2>1, <2>3 DEF CustodyFree, Accepted
  <2> QED BY <2>1, <2>2, <2>3, <2>4 DEF OfTask
<1>4. ASSUME NEW i \in TaskIds(p), BeginExpire(p, i) \/ BeginRetry(p, i)
      PROVE  OfTask(p)'
  <2> DEFINE x == [NoRequest EXCEPT !.task = i, !.outcome = "unknown"]
             r == [NoRequest EXCEPT !.task = i]
  <2>0. x.task = i /\ r.task = i
    BY DEF NoRequest
  <2>1. /\ req'[p].task = i /\ tasks' = tasks /\ custody' = custody
        /\ at'[p] \in {"expire", "retry"}
    <3>1. (Begin(p, "expire", x) \/ Begin(p, "retry", r)) /\ UNCHANGED work
      BY <1>4 DEF BeginExpire, BeginRetry
    <3> HIDE DEF x, r
    <3> QED BY <2>0, <3>1 DEF work
  <2>2. Current(p)' = tasks[p][i]
    BY <2>1 DEF Current
  <2>3. CASE BeginExpire(p, i)
    BY <2>1, <2>2, <2>3 DEF BeginExpire, LeaseExpired, StatusOf, OfTask
  <2>4. CASE BeginRetry(p, i)
    <3>1. SafeReport(p, i) /\ tasks[p][i].status = "failed"
      BY <2>4 DEF BeginRetry, PausedByFailureOf, StatusOf
    <3>2. SafeReport(p, req[p].task)'
      BY <2>1, <3>1 DEF SafeReport, Custodied
    <3>3. at'[p] = "retry"
      BY <2>4 DEF BeginRetry
    <3> QED BY <2>2, <3>1, <3>2, <3>3 DEF OfTask
  <2> QED BY <1>4, <2>3, <2>4
<1>5. \/ at'[p] \notin Relying
      \/ \E i \in TaskIds(p), a \in Workers, l \in LeaseChoices :
           BeginClaim(p, i, a, l) \/ BeginRenew(p, i, a, l)
      \/ \E i \in TaskIds(p), a \in Workers : \E e \in Evidence(p, i) :
           BeginComplete(p, i, a, e.status, e.report)
      \/ \E i \in TaskIds(p) : BeginExpire(p, i) \/ BeginRetry(p, i)
  <2>1. ASSUME NEW a \in Actors,
               BeginCreate(p) \/ BeginApprove(p, a) \/ BeginAuthorize(p, a)
               \/ BeginDispatch(p, a) \/ BeginReconcileSuccess(p)
        PROVE  at'[p] \notin Relying
    BY <2>1 DEF BeginCreate, BeginApprove, BeginAuthorize, BeginDispatch,
       BeginReconcileSuccess, Relying
  <2>2. Requester[p] \in Actors
    BY PlanAssumption
  <2> QED BY <2>1, <2>2 DEF Invoke
<1> QED BY <1>1, <1>2, <1>3, <1>4, <1>5

LEMMA OfTaskProceed ==
  ASSUME TypeInv, NEW p \in Plans, OfTask(p), Proceed(p)
  PROVE  OfTask(p)'
<1> USE DEF Step, End, TypeInv, TypeOK, FileTypes, WorkTypes, CommandTypes
<1>1. CASE at'[p] \notin Relying
  BY <1>1 DEF OfTask, Relying
<1>2. CASE TakeCustody(p)
  BY <1>2 DEF TakeCustody, OfTask, Current
<1>3. CASE ArchiveAttempt(p)
  <2>1. Current(p)' = Current(p) /\ at[p] = "retry" /\ at'[p] = "archived"
    BY <1>3 DEF ArchiveAttempt, Current
  <2>2. SafeReport(p, req[p].task)' /\ Current(p).status = "failed"
    BY <1>3, <2>1 DEF ArchiveAttempt, OfTask, SafeReport, Custodied
  <2>3. [task |-> req[p].task, result |-> Current(p)] \in archive'[p] /\ req' = req
    BY <1>3 DEF ArchiveAttempt
  <2> QED BY <2>1, <2>2, <2>3 DEF OfTask
<1>4. at'[p] \notin Relying \/ TakeCustody(p) \/ ArchiveAttempt(p)
  BY DEF Relying, Proceed, FinishCreate, SealApproval, CommitApproval, SealAuthorization,
     CommitAuthorization, Reserve, ReserveRefused, PublishTasks, PublishFails, StartRun,
     GrantLease, ExtendLease, LeaseRefused, RecordResult, SealResult, PauseRun, LogPause,
     ContinueRun, FinishRun, LogSuccess, ReleaseHosts, MarkUnknown, ResetTask, SealAttempt,
     ResumeRun
<1> QED BY <1>1, <1>2, <1>3, <1>4

(* A task rewritten in place, in a plan that has not succeeded.            *)
LEMMA KeptWrite ==
  ASSUME TypeInv, NEW p \in Plans, Kept(p), req[p].task \in TaskIds(p), NEW t,
         WriteTask(p, t), t.retry = Current(p).retry,
         UNCHANGED <<custody, archive>>, state'[p] # "succeeded"
  PROVE  Kept(p)'
<1>1. \A i \in TaskIds(p) : tasks'[p][i].retry = tasks[p][i].retry
  BY DEF TypeInv, TypeOK, FileTypes, WorkTypes, WriteTask, Current
<1>2. RepeatedSafely(p)'
  BY <1>1 DEF Kept, RepeatedSafely
<1> QED BY <1>2 DEF Kept, Graded, OneRecord, Earned

(* The failure under retry has one record, and that one is safe.           *)
LEMMA SafeFailure ==
  ASSUME NEW p \in Plans, NEW i, OneRecord(p), SafeReport(p, i), tasks[p][i].status = "failed"
  PROVE  \E c \in custody[p] : /\ c.task = i /\ c.retry = tasks[p][i].retry
                               /\ c.status = "failed" /\ SafeToRetry(Stages[p][i], c.report)
<1>1. PICK c \in custody[p] : /\ c.task = i /\ c.retry = tasks[p][i].retry
                              /\ SafeToRetry(Stages[p][i], c.report)
  BY DEF SafeReport
<1>2. PICK d \in custody[p] : d.task = i /\ d.retry = tasks[p][i].retry /\ d.status = "failed"
  BY DEF SafeReport, Custodied
<1>3. c = d
  BY <1>1, <1>2 DEF OneRecord
<1> QED BY <1>1, <1>2, <1>3

LEMMA KeptReset ==
  ASSUME TypeInv, NEW p \in Plans, OfTask(p), Kept(p), ResetTask(p), state'[p] # "succeeded"
  PROVE  Kept(p)'
<1> DEFINE k == req[p].task
<1>1. /\ k \in TaskIds(p) /\ tasks[p] \in [TaskIds(p) -> Task]
      /\ at[p] = "archived" /\ UNCHANGED <<custody, archive>>
  BY DEF ResetTask, Step, TypeInv, RequestInv, TaskLabels, TypeOK, FileTypes, WorkTypes
<1>2. tasks'[p][k].retry = tasks[p][k].retry + 1
  BY <1>1 DEF ResetTask, WriteTask, Current, NewTask, TypeInv, TypeOK, FileTypes, WorkTypes
<1>3. \A i \in TaskIds(p) \ {k} : tasks'[p][i] = tasks[p][i]
  BY <1>1 DEF ResetTask, WriteTask, TypeInv, TypeOK, FileTypes, WorkTypes
<1>4. /\ \E x \in archive[p] : /\ x.task = k /\ x.result.retry = tasks[p][k].retry
                               /\ x.result.status = "failed"
      /\ \E c \in custody[p] : /\ c.task = k /\ c.retry = tasks[p][k].retry
                               /\ c.status = "failed" /\ SafeToRetry(Stages[p][k], c.report)
  BY <1>1, SafeFailure DEF OfTask, Current, Kept
<1>5. ASSUME NEW i \in TaskIds(p), NEW g \in 0..(tasks'[p][i].retry - 1)
      PROVE  /\ \E x \in archive[p] : x.task = i /\ x.result.retry = g
                                       /\ x.result.status = "failed"
             /\ \E c \in custody[p] : c.task = i /\ c.retry = g /\ c.status = "failed"
                                       /\ SafeToRetry(Stages[p][i], c.report)
  <2>1. tasks[p][i].retry \in Nat
    BY <1>1 DEF Task
  <2>2. g \in 0..(tasks[p][i].retry - 1) \/ (i = k /\ g = tasks[p][k].retry)
    BY <1>2, <1>3, <2>1
  <2> QED BY <1>4, <2>2 DEF Kept, RepeatedSafely
<1>6. RepeatedSafely(p)'
  BY <1>1, <1>5 DEF RepeatedSafely
<1> QED BY <1>1, <1>6 DEF Kept, Graded, OneRecord, Earned

LEMMA KeptCustody ==
  ASSUME TypeInv, NEW p \in Plans, OfTask(p), Kept(p), TakeCustody(p), state'[p] # "succeeded"
  PROVE  Kept(p)'
<1> DEFINE r == [task |-> req[p].task, retry |-> Current(p).retry, actor |-> req[p].actor,
                 status |-> req[p].outcome, report |-> req[p].report]
<1>1. custody'[p] = custody[p] \cup {r} /\ at[p] = "complete" /\ UNCHANGED <<tasks, archive>>
  BY SMTT(60) DEF TakeCustody, Step, TypeInv, TypeOK, FileTypes, WorkTypes
<1>2. /\ \A c \in custody[p] : ~(c.task = r.task /\ c.retry = r.retry)
      /\ r.report.retry = r.retry
      /\ r.status = "succeeded" => r.report.class = SuccessClass(Stages[p][r.task])
  BY <1>1 DEF OfTask, CustodyFree, Accepted, Current
<1> HIDE DEF r
<1>3. Graded(p)' /\ OneRecord(p)'
  BY <1>1, <1>2 DEF Kept, Graded, OneRecord
<1>4. RepeatedSafely(p)'
  BY <1>1 DEF Kept, RepeatedSafely
<1> QED BY <1>3, <1>4 DEF Kept, Earned

(* The last look of complete before the plan succeeds.                     *)
LEMMA KeptFinish ==
  ASSUME TypeInv, NEW p \in Plans, Kept(p), FinishRun(p)
  PROVE  Kept(p)'
<1>1. UNCHANGED <<tasks, custody, archive>>
  BY DEF FinishRun, work
<1>2. ~RunBlocked(p) /\ ~HasStatus(p, "pending")
  BY DEF FinishRun, MustPause
<1>3. \A i \in TaskIds(p) :
        /\ StatusOf(p, i) = "succeeded" /\ tasks[p][i].sealed /\ Custodied(p, i)
  BY <1>2 DEF RunBlocked, AllSealed
<1>4. \A i \in TaskIds(p) : \E c \in custody[p] :
        /\ c.task = i /\ c.retry = tasks[p][i].retry
        /\ c.report.class = SuccessClass(Stages[p][i])
  <2> SUFFICES ASSUME NEW i \in TaskIds(p)
               PROVE  \E c \in custody[p] : /\ c.task = i /\ c.retry = tasks[p][i].retry
                                            /\ c.report.class = SuccessClass(Stages[p][i])
    OBVIOUS
  <2>1. PICK c \in custody[p] : /\ c.task = i /\ c.retry = tasks[p][i].retry
                                /\ c.status = "succeeded"
    BY <1>3 DEF Custodied, StatusOf
  <2> QED BY <2>1 DEF Kept, Graded
<1>5. Earned(p)'
  BY <1>1, <1>3, <1>4 DEF Earned, StatusOf, Custodied
<1>6. Graded(p)' /\ OneRecord(p)' /\ RepeatedSafely(p)'
  BY <1>1 DEF Kept, Graded, OneRecord, RepeatedSafely
<1> QED BY <1>5, <1>6 DEF Kept

LEMMA KeptProceed ==
  ASSUME TypeInv, HostInv, NEW p \in Plans, OfTask(p), Kept(p), Proceed(p)
  PROVE  Kept(p)'
<1>0. Agrees(at[p], state[p])
  BY DEF HostInv, StateAgreement
<1>1. CASE FinishRun(p)
  BY <1>1, KeptFinish
<1>2. CASE TakeCustody(p) \/ ResetTask(p)
  <2>1. state'[p] # "succeeded"
    BY <1>0, <1>2 DEF TakeCustody, ResetTask, Step, Agrees
  <2> QED BY <1>2, <2>1, KeptCustody, KeptReset
<1>3. CASE ArchiveAttempt(p)
  <2>1. /\ tasks'[p] = tasks[p] /\ custody'[p] = custody[p] /\ state'[p] = state[p]
        /\ archive[p] \subseteq archive'[p]
    BY <1>3 DEF ArchiveAttempt, TypeInv, TypeOK, FileTypes, WorkTypes
  <2>2. RepeatedSafely(p)'
    BY <2>1 DEF Kept, RepeatedSafely
  <2> QED BY <2>1, <2>2 DEF Kept, Graded, OneRecord, Earned, StatusOf, Custodied
<1>4. CASE GrantLease(p) \/ ExtendLease(p) \/ SealResult(p) \/ SealAttempt(p)
           \/ RecordResult(p) \/ MarkUnknown(p)
  <2>1. at[p] \in TaskLabels /\ state'[p] # "succeeded" /\ UNCHANGED <<custody, archive>>
    BY <1>0, <1>4 DEF GrantLease, ExtendLease, SealResult, SealAttempt, RecordResult,
       MarkUnknown, Step, End, Agrees, TaskLabels
  <2>2. req[p].task \in TaskIds(p) /\ Current(p) \in Task
    BY <2>1 DEF TypeInv, TypeOK, FileTypes, RequestInv, WorkTypes, Current
  <2>3. PICK t : WriteTask(p, t) /\ t.retry = Current(p).retry
    <3> DEFINE Same(t) == t.retry = Current(p).retry
               a == [Current(p) EXCEPT !.status = "running", !.claimant = req[p].actor,
                                       !.expiry = Bounded(p, req[p].lease)]
               b == [Current(p) EXCEPT !.expiry = Bounded(p, req[p].lease)]
               c == [Current(p) EXCEPT !.sealed = TRUE]
               d == [Current(p) EXCEPT !.status = req[p].outcome, !.late = req[p].late,
                                       !.sealed = FALSE]
               e == [Current(p) EXCEPT !.status = "unknown", !.sealed = FALSE]
    <3>1. Same(a) /\ Same(b) /\ Same(c) /\ Same(d) /\ Same(e)
      BY <2>2 DEF Task
    <3>2. WriteTask(p, a) \/ WriteTask(p, b) \/ WriteTask(p, c) \/ WriteTask(p, d)
          \/ WriteTask(p, e)
      BY <1>4 DEF GrantLease, ExtendLease, SealResult, SealAttempt, RecordResult, MarkUnknown
    <3> HIDE DEF a, b, c, d, e
    <3> QED BY <3>1, <3>2
  <2> QED BY <2>1, <2>2, <2>3, KeptWrite
<1>5. CASE /\ UNCHANGED <<tasks, custody, archive>>
           /\ state'[p] = state[p] \/ state'[p] # "succeeded"
  BY <1>5, KeptFrame
<1>6. CASE FinishCreate(p) \/ SealApproval(p) \/ CommitApproval(p)
           \/ SealAuthorization(p) \/ CommitAuthorization(p)
           \/ Reserve(p) \/ ReserveRefused(p) \/ PublishTasks(p) \/ PublishFails(p)
           \/ StartRun(p) \/ LeaseRefused(p)
  BY <1>5, <1>6 DEF FinishCreate, SealApproval, CommitApproval, SealAuthorization,
     CommitAuthorization, Reserve, ReserveRefused, PublishTasks, PublishFails, StartRun,
     LeaseRefused, SetState, work, TypeInv, TypeOK, FileTypes, AuthorityTypes
<1>7. CASE PauseRun(p) \/ LogPause(p) \/ ContinueRun(p) \/ LogSuccess(p)
           \/ ReleaseHosts(p) \/ ResumeRun(p)
  BY <1>5, <1>7 DEF PauseRun, LogPause, ContinueRun, LogSuccess, ReleaseHosts, ResumeRun,
     SetState, work, TypeInv, TypeOK, FileTypes, AuthorityTypes
<1> QED BY <1>1, <1>2, <1>3, <1>4, <1>6, <1>7 DEF Proceed

LEMMA InvokeKeeps ==
  ASSUME TypeInv, NEW p \in Plans, Invoke(p)
  PROVE  /\ UNCHANGED <<tasks, custody, archive>>
         /\ state'[p] = state[p] \/ state'[p] # "succeeded"
BY InvokeBegins DEF BeginCreate, work, SetState, TypeInv, TypeOK, FileTypes, AuthorityTypes

LEMMA ResultStep == TypeInv /\ HostInv /\ ResultInv /\ [Next]_vars => ResultInv'
<1> SUFFICES ASSUME TypeInv, HostInv, ResultInv, [Next]_vars PROVE ResultInv'
  OBVIOUS
<1>1. ASSUME NEW p \in Plans, Invoke(p) \/ Proceed(p) \/ Crash(p) PROVE ResultInv'
  <2>1. \A q \in Plans \ {p} : OfTask(q)' /\ Kept(q)'
    BY <1>1, OtherPlans, KeptFrame, OfTaskFrame DEF ResultInv
  <2>2. CASE Crash(p)
    <3>1. at'[p] = "idle" /\ UNCHANGED <<state, tasks, custody, archive>>
      BY <2>2 DEF Crash, End, work, TypeInv, TypeOK, CommandTypes
    <3>2. OfTask(p)'
      BY <3>1 DEF OfTask
    <3>3. Kept(p)'
      BY <3>1, KeptFrame DEF ResultInv
    <3> QED BY <2>1, <3>2, <3>3 DEF ResultInv
  <2>3. CASE Invoke(p)
    BY <2>1, <2>3, OfTaskInvoke, InvokeKeeps, KeptFrame DEF ResultInv
  <2>4. CASE Proceed(p)
    BY <2>1, <2>4, OfTaskProceed, KeptProceed DEF ResultInv
  <2> QED BY <1>1, <2>2, <2>3, <2>4
<1>2. CASE Tick \/ UNCHANGED vars
  BY <1>2, KeptFrame, OfTaskFrame DEF Tick, vars, work, ResultInv
<1> QED BY <1>1, <1>2 DEF Next

(* A succeeded plan has a sealed and custodied success of the right class  *)
(* for each of its tasks (complete).                                       *)
THEOREM SuccessIsAlwaysEarned == Spec => []SuccessIsEarned
<1>1. ResultInv => SuccessIsEarned
  BY DEF ResultInv, Kept, SuccessIsEarned
<1> QED BY <1>1, TypeInit, TypeStep, HostInit, HostStep, ResultInit, ResultStep, PTL DEF Spec

(* An attempt has one custody record, its own (custody_execution_evidence). *)
THEOREM CustodyIsWriteOnce == Spec => []CustodyWriteOnce
<1>1. ResultInv => CustodyWriteOnce
  BY DEF ResultInv, Kept, CustodyWriteOnce
<1> QED BY <1>1, TypeInit, TypeStep, HostInit, HostStep, ResultInit, ResultStep, PTL DEF Spec

(* Whatever was repeated had failed, is archived and was safe (retry_task). *)
THEOREM RetriesAreNeverBlind == Spec => []NoBlindRetry
<1>1. ResultInv => NoBlindRetry
  BY DEF ResultInv, Kept, NoBlindRetry
<1> QED BY <1>1, TypeInit, TypeStep, HostInit, HostStep, ResultInit, ResultStep, PTL DEF Spec

-----------------------------------------------------------------------------
(* Outcomes *)

(* How a step may treat the recorded outcome of a task.                    *)
Finality(p, i) ==
  /\ tasks[p][i].status \in {"succeeded", "unknown"} =>
       /\ tasks'[p][i].status = tasks[p][i].status
       /\ tasks'[p][i].retry = tasks[p][i].retry
       /\ tasks'[p][i].claimant = tasks[p][i].claimant
  /\ tasks[p][i].status = "failed" =>
       \/ tasks'[p][i].status = "failed" /\ tasks'[p][i].retry = tasks[p][i].retry
       \/ /\ tasks'[p][i].status = "pending" /\ tasks'[p][i].retry = tasks[p][i].retry + 1
          /\ [task |-> i, result |-> tasks[p][i]] \in archive[p]

(* A task rewritten without its outcome, or one that had none.             *)
LEMMA FinalWrite ==
  ASSUME TypeInv, NEW p \in Plans, req[p].task \in TaskIds(p), NEW t, WriteTask(p, t),
         \/ Current(p).status \in {"pending", "running"}
         \/ /\ t.status = Current(p).status /\ t.retry = Current(p).retry
            /\ t.claimant = Current(p).claimant
         \/ /\ Current(p).status = "failed" /\ t.status = "pending"
            /\ t.retry = Current(p).retry + 1
            /\ [task |-> req[p].task, result |-> Current(p)] \in archive[p]
  PROVE  \A i \in TaskIds(p) : Finality(p, i)
BY DEF Finality, WriteTask, Current, TypeInv, TypeOK, FileTypes, WorkTypes

LEMMA FinalProceed ==
  ASSUME TypeInv, NEW p \in Plans, OfTask(p), Proceed(p)
  PROVE  \A i \in TaskIds(p) : Finality(p, i)
<1>0. ASSUME at[p] \in TaskLabels
      PROVE  req[p].task \in TaskIds(p) /\ Current(p) \in Task
  BY <1>0 DEF TypeInv, TypeOK, FileTypes, RequestInv, WorkTypes, Current
<1>1. CASE UNCHANGED tasks
  BY <1>1 DEF Finality
<1>2. CASE GrantLease(p) \/ ExtendLease(p) \/ RecordResult(p) \/ MarkUnknown(p)
  <2>1. at[p] \in {"claim", "renew", "custodied", "expire"}
    BY <1>2 DEF GrantLease, ExtendLease, RecordResult, MarkUnknown, Step, End
  <2>2. Current(p).status \in {"pending", "running"}
    BY <2>1 DEF OfTask
  <2>3. \E t : WriteTask(p, t)
    BY <1>2 DEF GrantLease, ExtendLease, RecordResult, MarkUnknown
  <2>4. req[p].task \in TaskIds(p)
    BY <1>0, <2>1 DEF TaskLabels
  <2> QED BY <2>2, <2>3, <2>4, FinalWrite
<1>3. CASE SealResult(p) \/ SealAttempt(p)
  <2> DEFINE x == [Current(p) EXCEPT !.sealed = TRUE]
  <2>1. req[p].task \in TaskIds(p) /\ Current(p) \in Task
    BY <1>0, <1>3 DEF SealResult, SealAttempt, Step, TaskLabels
  <2>2. /\ x.status = Current(p).status /\ x.retry = Current(p).retry
        /\ x.claimant = Current(p).claimant
    BY <2>1 DEF Task
  <2>3. WriteTask(p, x)
    BY <1>3 DEF SealResult, SealAttempt
  <2> HIDE DEF x
  <2> QED BY <2>1, <2>2, <2>3, FinalWrite
<1>4. CASE ResetTask(p)
  <2> DEFINE x == [NewTask EXCEPT !.retry = Current(p).retry + 1, !.sealed = FALSE]
  <2>1. at[p] = "archived" /\ req[p].task \in TaskIds(p)
    BY <1>0, <1>4 DEF ResetTask, Step, TaskLabels
  <2>2. x.status = "pending" /\ x.retry = Current(p).retry + 1
    BY DEF NewTask
  <2>3. WriteTask(p, x)
    BY <1>4 DEF ResetTask
  <2>4. /\ Current(p).status = "failed"
        /\ [task |-> req[p].task, result |-> Current(p)] \in archive[p]
    BY <2>1 DEF OfTask
  <2> HIDE DEF x
  <2> QED BY <2>1, <2>2, <2>3, <2>4, FinalWrite
<1>5. \/ UNCHANGED tasks
      \/ GrantLease(p) \/ ExtendLease(p) \/ SealResult(p) \/ SealAttempt(p)
      \/ RecordResult(p) \/ MarkUnknown(p) \/ ResetTask(p)
  BY DEF Proceed, work, FinishCreate, SealApproval, CommitApproval, SealAuthorization,
     CommitAuthorization, Reserve, ReserveRefused, PublishTasks, PublishFails, StartRun,
     LeaseRefused, TakeCustody, PauseRun, LogPause, ContinueRun, FinishRun, LogSuccess,
     ReleaseHosts, ArchiveAttempt, ResumeRun
<1> QED BY <1>1, <1>2, <1>3, <1>4, <1>5

(* A success or an unknown outcome is never reopened, and a failure only   *)
(* as a new attempt with its result archived (complete, reconcile,         *)
(* retry_task), whatever commands died on the way.                         *)
THEOREM OutcomesAreFinal == Spec => OutcomesFinal
<1> DEFINE Inv == TypeInv /\ HostInv /\ ResultInv
           Final == \A p \in Plans : \A i \in TaskIds(p) :
             LET t == tasks[p][i]  n == tasks[p][i]' IN
             /\ t.status \in {"succeeded", "unknown"} =>
                  n.status = t.status /\ n.retry = t.retry /\ n.claimant = t.claimant
             /\ t.status = "failed" =>
                  \/ n.status = "failed" /\ n.retry = t.retry
                  \/ /\ n.status = "pending" /\ n.retry = t.retry + 1
                     /\ [task |-> i, result |-> t] \in archive[p]
<1>1. Init => Inv
  BY TypeInit, HostInit, ResultInit
<1>2. Inv /\ [Next]_vars => Inv'
  BY TypeStep, HostStep, ResultStep
<1>3. Inv /\ [Next]_vars => [Final]_vars
  <2> SUFFICES ASSUME Inv, Next PROVE \A p \in Plans : \A i \in TaskIds(p) : Finality(p, i)
    BY DEF Finality
  <2>1. ASSUME NEW p \in Plans, Invoke(p) \/ Proceed(p) \/ Crash(p)
        PROVE  \A q \in Plans : \A i \in TaskIds(q) : Finality(q, i)
    <3>1. \A q \in Plans \ {p} : tasks'[q] = tasks[q]
      BY <2>1, OtherPlans
    <3>2. \A q \in Plans \ {p} : \A i \in TaskIds(q) : Finality(q, i)
      BY <3>1 DEF Finality
    <3>3. CASE Invoke(p) \/ Crash(p)
      <4>1. UNCHANGED tasks
        BY <3>3, InvokeKeeps DEF Crash, work
      <4> QED BY <4>1 DEF Finality
    <3>4. CASE Proceed(p)
      BY <3>2, <3>4, FinalProceed DEF ResultInv
    <3> QED BY <2>1, <3>3, <3>4
  <2>2. CASE Tick
    BY <2>2 DEF Tick, work, Finality
  <2> QED BY <2>1, <2>2 DEF Next
<1> HIDE DEF Inv
<1> QED BY <1>1, <1>2, <1>3, PTL DEF Spec, OutcomesFinal

-----------------------------------------------------------------------------
(* Lineage *)

(* Inductive strengthening: the plan a lineage was read from has not moved *)
(* since, and its claimants are sealed into the rollback.                  *)
Lineage(p) ==
  p \in SealsLineage /\ SourceOf[p] # NoPlan /\ state[p] # "absent" =>
    /\ state[SourceOf[p]] = "succeeded"
    /\ \A i \in TaskIds(SourceOf[p]) :
         tasks[SourceOf[p]][i].claimant \in sourceActors[p] \cap Actors
LineageInv == \A p \in Plans : Lineage(p)

(* A succeeded plan stays as it is.                                        *)
LEMMA SucceededStays ==
  ASSUME TypeInv, HostInv, [Next]_vars, NEW q \in Plans, state[q] = "succeeded"
  PROVE  state'[q] = "succeeded" /\ tasks'[q] = tasks[q]
<1>0. Agrees(at[q], state[q])
  BY DEF HostInv, StateAgreement
<1> USE <1>0 DEF TypeInv, TypeOK, FileTypes, AuthorityTypes, WorkTypes
<1>1. CASE Invoke(q)
  BY <1>1, InvokeBegins DEF BeginCreate, work
<1>2. CASE Crash(q) \/ Tick \/ UNCHANGED vars
  BY <1>2 DEF Crash, Tick, vars, work
<1>3. CASE Proceed(q)
  <2>1. LogSuccess(q) \/ ReleaseHosts(q)
    BY <1>3 DEF Proceed, Agrees, Step, End, FinishCreate, SealApproval, CommitApproval,
       SealAuthorization, CommitAuthorization, Reserve, ReserveRefused, PublishTasks,
       PublishFails, StartRun, GrantLease, ExtendLease, LeaseRefused, TakeCustody,
       RecordResult, SealResult, PauseRun, LogPause, ContinueRun, FinishRun, MarkUnknown,
       ArchiveAttempt, ResetTask, SealAttempt, ResumeRun
  <2> QED BY SMTT(60), <2>1 DEF LogSuccess, ReleaseHosts, work
<1>4. ASSUME NEW p \in Plans \ {q}, Invoke(p) \/ Proceed(p) \/ Crash(p)
      PROVE  state'[q] = "succeeded" /\ tasks'[q] = tasks[q]
  BY <1>4, OtherPlans
<1> QED BY <1>1, <1>2, <1>3, <1>4 DEF Next

(* Only create gives a plan a state and its source actors.                 *)
LEMMA CreatedOnce ==
  ASSUME TypeInv, HostInv, [Next]_vars, NEW p \in Plans
  PROVE  \/ BeginCreate(p)
         \/ /\ sourceActors'[p] = sourceActors[p]
            /\ state[p] = "absent" => state'[p] = "absent"
<1>0. Agrees(at[p], state[p])
  BY DEF HostInv, StateAgreement
<1>1. CASE Invoke(p)
  BY <1>1, InvokeBegins DEF authority
<1>2. CASE Crash(p) \/ Tick \/ UNCHANGED vars
  BY <1>2 DEF Crash, Tick, vars, authority
<1>3. CASE FinishCreate(p) \/ SealApproval(p) \/ CommitApproval(p) \/ SealAuthorization(p)
           \/ CommitAuthorization(p) \/ Reserve(p) \/ ReserveRefused(p)
           \/ PublishTasks(p) \/ PublishFails(p) \/ StartRun(p)
  BY <1>0, <1>3 DEF FinishCreate, SealApproval, CommitApproval, SealAuthorization,
     CommitAuthorization, Reserve, ReserveRefused, PublishTasks, PublishFails, StartRun,
     Step, End, Agrees, authority
<1>4. CASE GrantLease(p) \/ ExtendLease(p) \/ LeaseRefused(p) \/ TakeCustody(p)
           \/ RecordResult(p) \/ SealResult(p) \/ PauseRun(p) \/ LogPause(p)
           \/ ContinueRun(p) \/ FinishRun(p) \/ LogSuccess(p) \/ ReleaseHosts(p)
  BY <1>0, <1>4 DEF GrantLease, ExtendLease, LeaseRefused, TakeCustody, RecordResult,
     SealResult, PauseRun, LogPause, ContinueRun, FinishRun, LogSuccess, ReleaseHosts,
     Step, End, Agrees, authority
<1>5. CASE MarkUnknown(p) \/ ArchiveAttempt(p) \/ ResetTask(p) \/ SealAttempt(p) \/ ResumeRun(p)
  BY <1>0, <1>5 DEF MarkUnknown, ArchiveAttempt, ResetTask, SealAttempt, ResumeRun,
     Step, End, Agrees, authority
<1>6. ASSUME NEW q \in Plans \ {p}, Invoke(q) \/ Proceed(q) \/ Crash(q)
      PROVE  sourceActors'[p] = sourceActors[p] /\ state'[p] = state[p]
  BY <1>6, OtherPlans
<1> QED BY <1>1, <1>2, <1>3, <1>4, <1>5, <1>6 DEF Next, Proceed

LEMMA LineageStep ==
  TypeInv /\ HostInv /\ LineageInv /\ [Next]_vars => LineageInv'
<1> SUFFICES ASSUME TypeInv, HostInv, LineageInv, [Next]_vars, NEW p \in Plans,
                    p \in SealsLineage, SourceOf[p] # NoPlan, state'[p] # "absent"
             PROVE  /\ state'[SourceOf[p]] = "succeeded"
                    /\ \A i \in TaskIds(SourceOf[p]) :
                         tasks'[SourceOf[p]][i].claimant \in sourceActors'[p] \cap Actors
  BY DEF LineageInv, Lineage
<1> DEFINE s == SourceOf[p]
<1>1. s \in Plans
  BY PlanAssumption
<1>2. /\ state[s] = "succeeded"
      /\ \A i \in TaskIds(s) : tasks[s][i].claimant \in sourceActors'[p] \cap Actors
  <2>1. CASE BeginCreate(p)
    <3>1. state[s] = "succeeded" /\ \A i \in TaskIds(s) : Custodied(s, i)
      BY <2>1 DEF BeginCreate, SourceTasks
    <3>2. \A i \in TaskIds(s) : tasks[s][i].claimant \in Actors
      BY <1>1, <3>1 DEF Custodied, TypeInv, TypeOK, FileTypes, WorkTypes, Custody
    <3>3. sourceActors'[p] = {tasks[s][i].claimant : i \in TaskIds(s)}
      BY <2>1 DEF BeginCreate, SealedActors, SourceTasks, TypeInv, TypeOK, FileTypes,
         AuthorityTypes
    <3> QED BY <3>1, <3>2, <3>3
  <2>2. CASE ~BeginCreate(p)
    BY <2>2, CreatedOnce DEF LineageInv, Lineage
  <2> QED BY <2>1, <2>2
<1> QED BY <1>1, <1>2, SucceededStays

(* Nobody whose result a cluster's success rests on approves or operates   *)
(* its rollback, although the lineage is read without the source's lock    *)
(* (create_rac_rollback_plan).                                             *)
THEOREM LineageIsIndependent == Spec => []LineageIndependence
<1>1. Init => LineageInv
  BY DEF Init, LineageInv, Lineage
<1>2. DutyInv /\ LineageInv => LineageIndependence
  <2> SUFFICES ASSUME DutyInv, LineageInv, NEW p \in SealsLineage, SourceOf[p] # NoPlan,
                      NEW i \in TaskIds(SourceOf[p]), state[p] # "absent"
               PROVE  tasks[SourceOf[p]][i].claimant \notin {approver[p], operator[p]}
    BY DEF LineageIndependence
  <2>1. p \in Plans /\ NoActor \notin Actors
    BY PlanAssumption
  <2>2. tasks[SourceOf[p]][i].claimant \in sourceActors[p] \cap Actors
    BY <2>1 DEF LineageInv, Lineage
  <2> QED BY <2>1, <2>2 DEF DutyInv, Duties, MayApprove, MayAuthorize
<1> QED BY <1>1, <1>2, TypeInit, TypeStep, HostInit, HostStep, DutyInit, DutyStep,
           LineageStep, PTL DEF Spec

-----------------------------------------------------------------------------
(* The order of results *)

LEMMA OrderlySame ==
  ASSUME NEW p \in Plans, Orderly(p), tasks'[p] = tasks[p], state'[p] = state[p],
         at'[p] = at[p], req'[p] = req[p]
  PROVE  Orderly(p)'
BY DEF Orderly, Bad, StatusOf, Current

(* No task changes, and no bad result is left without a pause.             *)
LEMMA OrderlyQuiet ==
  ASSUME NEW p \in Plans, Orderly(p), tasks'[p] = tasks[p],
         at'[p] \notin {"claim", "recorded", "resulted", "reset", "retried"},
         \A i \in TaskIds(p) : Bad(p, i) => state'[p] = "paused"
  PROVE  Orderly(p)'
BY DEF Orderly, Bad, StatusOf

LEMMA OrderlyInvoke ==
  ASSUME TypeInv, NEW p \in Plans, Orderly(p), Invoke(p)
  PROVE  Orderly(p)'
<1>1. tasks'[p] = tasks[p] /\ at[p] = "idle"
  BY InvokeKeeps, InvokeBegins DEF Begin
<1>2. \A i \in TaskIds(p) : Bad(p, i) => state[p] = "paused"
  BY <1>1 DEF Orderly
<1>3. CASE state'[p] # "paused" /\ state[p] = "paused"
  BY <1>3, InvokeBegins DEF BeginCreate
<1>4. CASE at'[p] # "claim" /\ (state[p] = "paused" => state'[p] = "paused")
  <2>1. at'[p] \notin {"claim", "recorded", "resulted", "reset", "retried"}
    <3>1. PICK label \in Commands : \E r : Begin(p, label, r)
      BY InvokeBegins
    <3>2. at'[p] = label
      BY <3>1 DEF Begin, TypeInv, TypeOK, CommandTypes
    <3> QED BY <1>4, <3>2 DEF Commands
  <2>2. \A i \in TaskIds(p) : Bad(p, i) => state'[p] = "paused"
    BY <1>2, <1>4
  <2> QED BY <1>1, <2>1, <2>2, OrderlyQuiet
<1>5. CASE at'[p] = "claim"
  <2>1. PICK i \in TaskIds(p), a \in Workers, l \in LeaseChoices : BeginClaim(p, i, a, l)
    BY ZenonT(60), <1>5 DEF Invoke, BeginCreate, BeginApprove, BeginAuthorize, BeginDispatch,
       BeginRenew, BeginComplete, BeginExpire, BeginReconcileSuccess, BeginRetry, Begin,
       TypeInv, TypeOK, CommandTypes
  <2> DEFINE r == [NoRequest EXCEPT !.task = i, !.actor = a, !.lease = l]
  <2>2. r.task = i /\ Begin(p, "claim", r)
    BY <2>1 DEF BeginClaim, NoRequest
  <2> HIDE DEF r
  <2>3. req'[p].task = i
    BY <2>2 DEF Begin, TypeInv, TypeOK, CommandTypes
  <2>4. state[p] = "running" /\ state'[p] = "running"
    BY <2>1 DEF BeginClaim
  <2>5. \A j \in TaskIds(p) : ~Bad(p, j)
    BY <1>2, <2>4
  <2>6. /\ \A j \in 1..(i - 1) : StatusOf(p, j) # "pending"
        /\ \A j \in TaskIds(p) : StatusOf(p, j) \notin {"running", "unknown"}
    BY <2>1 DEF BeginClaim, NextPending, NothingInDoubt
  <2>7. \A j \in TaskIds(p) : tasks[p][j].status \in TaskStatus
    BY DEF TypeInv, TypeOK, FileTypes, WorkTypes, Task
  <2>8. 1..(i - 1) \subseteq TaskIds(p)
    BY PlanAssumption DEF TaskIds
  <2>9. \A j \in 1..(i - 1) : StatusOf(p, j) = "succeeded"
    BY <2>5, <2>6, <2>7, <2>8 DEF Bad, StatusOf, TaskStatus
  <2> QED BY SMTT(60), <1>1, <1>5, <2>3, <2>5, <2>9 DEF Orderly, Bad, StatusOf
<1> QED BY <1>3, <1>4, <1>5

(* What a rewritten task leaves to show.                                   *)
LEMMA OrderlyWrite ==
  ASSUME TypeInv, NEW p \in Plans, Orderly(p), req[p].task \in TaskIds(p), NEW t,
         WriteTask(p, t), at'[p] # "claim", state'[p] = state[p],
         Current(p).status # "succeeded" \/ t.status = "succeeded",
         t.status # "pending" =>
           \A j \in 1..(req[p].task - 1) : StatusOf(p, j) = "succeeded",
         \A i \in TaskIds(p) : Bad(p, i) => i = req[p].task,
         t.status \in {"failed", "unknown"} \/ t.late =>
           /\ state[p] = "paused" \/ (at'[p] \in {"recorded", "resulted"} /\ req' = req)
           /\ at'[p] \notin {"reset", "retried"},
         at'[p] \in {"recorded", "resulted"} =>
           /\ req' = req
           /\ t.status = req[p].outcome /\ (t.late => req[p].late)
  PROVE  Orderly(p)'
<1> DEFINE k == req[p].task
<1>1. tasks'[p][k] = t /\ \A i \in TaskIds(p) \ {k} : tasks'[p][i] = tasks[p][i]
  BY DEF WriteTask, TypeInv, TypeOK, FileTypes, WorkTypes
<1>2. \A i \in TaskIds(p) : 1..(i - 1) \subseteq TaskIds(p)
  BY PlanAssumption DEF TaskIds
<1>3. ASSUME NEW i \in TaskIds(p), tasks'[p][i].status # "pending", NEW j \in 1..(i - 1)
      PROVE  tasks'[p][j].status = "succeeded"
  <2>1. i # j /\ j \in TaskIds(p)
    BY <1>2 DEF TaskIds
  <2>2. CASE i = k
    BY <1>1, <1>3, <2>1, <2>2 DEF StatusOf
  <2>3. CASE i # k
    <3>1. tasks[p][j].status = "succeeded"
      BY <1>1, <1>3, <2>3 DEF Orderly, StatusOf
    <3> QED BY <1>1, <2>1, <3>1 DEF Current
  <2> QED BY <2>2, <2>3
<1>4. \A i \in TaskIds(p) : Bad(p, i)' => i = k
  BY <1>1 DEF Bad, StatusOf
<1>5. ASSUME NEW i \in TaskIds(p), Bad(p, i)'
      PROVE  /\ state'[p] = "paused" \/ (at'[p] \in {"recorded", "resulted"} /\ req'[p].task = i)
             /\ at'[p] \notin {"reset", "retried"}
  BY <1>1, <1>4, <1>5 DEF Bad, StatusOf
<1>6. at'[p] \in {"recorded", "resulted"} =>
        Current(p)' .status = req'[p].outcome /\ (Current(p)' .late => req'[p].late)
  BY <1>1 DEF Current
<1> QED BY <1>3, <1>4, <1>5, <1>6 DEF Orderly, StatusOf

LEMMA OrderlyProceed ==
  ASSUME TypeInv, HostInv, NEW p \in Plans, OfTask(p), Orderly(p), Proceed(p)
  PROVE  Orderly(p)'
<1> DEFINE k == req[p].task
<1>0. Agrees(at[p], state[p])
  BY DEF HostInv, StateAgreement
<1>1. at[p] \in TaskLabels => k \in TaskIds(p) /\ Current(p) \in Task
  BY DEF TypeInv, TypeOK, FileTypes, RequestInv, WorkTypes, Current
<1>2. CASE FinishCreate(p) \/ SealApproval(p) \/ CommitApproval(p)
           \/ SealAuthorization(p) \/ CommitAuthorization(p)
           \/ Reserve(p) \/ ReserveRefused(p) \/ PublishTasks(p) \/ PublishFails(p)
           \/ StartRun(p) \/ LeaseRefused(p)
  <2> USE <1>2 DEF FinishCreate, SealApproval, CommitApproval, SealAuthorization,
       CommitAuthorization, Reserve, ReserveRefused, PublishTasks, PublishFails, StartRun,
       LeaseRefused, Step, End
  <2>1. /\ at'[p] \notin {"claim", "recorded", "resulted", "reset", "retried"}
        /\ tasks'[p] = tasks[p]
    BY DEF work, TypeInv, TypeOK, CommandTypes
  <2>2. \A i \in TaskIds(p) : ~Bad(p, i)
    BY <1>0 DEF Agrees, Orderly
  <2> QED BY <2>1, <2>2, OrderlyQuiet
<1>3. CASE TakeCustody(p) \/ LogPause(p) \/ LogSuccess(p) \/ ReleaseHosts(p) \/ ArchiveAttempt(p)
  <2> USE <1>3 DEF TakeCustody, LogPause, LogSuccess, ReleaseHosts, ArchiveAttempt, Step, End
  <2>1. /\ at'[p] \notin {"claim", "recorded", "resulted", "reset", "retried"}
        /\ tasks'[p] = tasks[p] /\ state'[p] = state[p]
    BY DEF work, TypeInv, TypeOK, CommandTypes
  <2>2. \A i \in TaskIds(p) : Bad(p, i) => state[p] = "paused"
    BY DEF Orderly
  <2> QED BY <2>1, <2>2, OrderlyQuiet
<1>4. CASE PauseRun(p) \/ ResumeRun(p)
  <2> USE <1>4 DEF PauseRun, ResumeRun, Step, End, SetState
  <2>1. /\ at'[p] \notin {"claim", "recorded", "resulted", "reset", "retried"}
        /\ tasks'[p] = tasks[p]
    BY DEF work, TypeInv, TypeOK, CommandTypes
  <2>2. \A i \in TaskIds(p) : Bad(p, i) => state'[p] = "paused"
    BY DEF Orderly, TypeInv, TypeOK, FileTypes, AuthorityTypes
  <2> QED BY <2>1, <2>2, OrderlyQuiet
<1>5. CASE ContinueRun(p) \/ FinishRun(p)
  <2> USE <1>5 DEF ContinueRun, FinishRun, Step, End
  <2>1. /\ at'[p] \notin {"claim", "recorded", "resulted", "reset", "retried"}
        /\ tasks'[p] = tasks[p]
    BY DEF work, TypeInv, TypeOK, CommandTypes
  <2>2. at[p] = "resulted" /\ state[p] = "running" /\ req[p].outcome = "succeeded" /\ ~req[p].late
    BY <1>0 DEF Agrees, MustPause
  <2>3. \A i \in TaskIds(p) : ~Bad(p, i)
    BY <2>2 DEF Orderly, Bad, Current, StatusOf
  <2> QED BY <2>1, <2>3, OrderlyQuiet
<1>6. CASE GrantLease(p) \/ ExtendLease(p)
  <2> DEFINE a == [Current(p) EXCEPT !.status = "running", !.claimant = req[p].actor,
                                     !.expiry = Bounded(p, req[p].lease)]
             b == [Current(p) EXCEPT !.expiry = Bounded(p, req[p].lease)]
  <2>1. /\ at[p] \in {"claim", "renew"} /\ at'[p] = "idle" /\ state'[p] = state[p]
        /\ state[p] = "running"
        /\ (at[p] = "claim" /\ WriteTask(p, a)) \/ (at[p] = "renew" /\ WriteTask(p, b))
    BY <1>0, <1>6 DEF GrantLease, ExtendLease, End, Agrees, TypeInv, TypeOK, CommandTypes
  <2>2. k \in TaskIds(p) /\ Current(p) \in Task
    BY <1>1, <2>1 DEF TaskLabels
  <2>3. \A i \in TaskIds(p) : ~Bad(p, i)
    BY SMTT(60), <2>1 DEF Orderly
  <2>4. Current(p).status \in {"pending", "running"} /\ ~Current(p).late
    BY SMTT(60), <2>1, <2>2, <2>3 DEF OfTask, Bad, Current
  <2>5. \A j \in 1..(k - 1) : StatusOf(p, j) = "succeeded"
    BY <2>1, <2>2 DEF Orderly, OfTask, Current, StatusOf
  <2>6. PICK t : WriteTask(p, t) /\ t.status = "running" /\ t.late = FALSE
    <3>1. a.status = "running" /\ a.late = FALSE
      BY <2>2, <2>4 DEF Task
    <3>2. at[p] = "renew" => b.status = "running" /\ b.late = FALSE
      BY <2>2, <2>4 DEF Task, OfTask
    <3> HIDE DEF a, b
    <3> QED BY <2>1, <3>1, <3>2
  <2> QED BY <2>1, <2>2, <2>3, <2>4, <2>5, <2>6, OrderlyWrite
<1>7. CASE RecordResult(p) \/ MarkUnknown(p)
  <2> DEFINE d == [Current(p) EXCEPT !.status = req[p].outcome, !.late = req[p].late,
                                     !.sealed = FALSE]
             e == [Current(p) EXCEPT !.status = "unknown", !.sealed = FALSE]
  <2>1. /\ at[p] \in {"custodied", "expire"} /\ at'[p] = "recorded" /\ state'[p] = state[p]
        /\ req' = req /\ state[p] = "running"
        /\ WriteTask(p, d) \/ (at[p] = "expire" /\ WriteTask(p, e))
    BY <1>0, <1>7 DEF RecordResult, MarkUnknown, Step, Agrees, TypeInv, TypeOK, CommandTypes
  <2>2. k \in TaskIds(p) /\ Current(p) \in Task
    BY <1>1, <2>1 DEF TaskLabels
  <2>3. \A i \in TaskIds(p) : ~Bad(p, i)
    BY <2>1 DEF Orderly
  <2>4. Current(p).status = "running" /\ ~Current(p).late
    BY <2>1, <2>2, <2>3 DEF OfTask, Bad, Current
  <2>5. \A j \in 1..(k - 1) : StatusOf(p, j) = "succeeded"
    BY <2>2, <2>4 DEF Orderly, Current, StatusOf
  <2>6. PICK t : WriteTask(p, t) /\ t.status = req[p].outcome /\ (t.late => req[p].late)
    <3>1. d.status = req[p].outcome /\ d.late = req[p].late
      BY <2>2 DEF Task
    <3>2. at[p] = "expire" => e.status = req[p].outcome /\ e.late = FALSE
      BY <2>2, <2>4 DEF Task, TypeInv, RequestInv
    <3> HIDE DEF d, e
    <3> QED BY <2>1, <3>1, <3>2
  <2> QED BY <2>1, <2>2, <2>3, <2>4, <2>5, <2>6, OrderlyWrite
<1>8. CASE SealResult(p) \/ SealAttempt(p)
  <2> DEFINE x == [Current(p) EXCEPT !.sealed = TRUE]
  <2>1. /\ \/ at[p] = "recorded" /\ at'[p] = "resulted"
           \/ at[p] = "reset" /\ at'[p] = "retried"
        /\ state'[p] = state[p] /\ req' = req /\ WriteTask(p, x)
    <3>1. CASE SealResult(p)
      BY <3>1 DEF SealResult, Step, TypeInv, TypeOK, CommandTypes
    <3>2. CASE SealAttempt(p)
      BY <3>2 DEF SealAttempt, Step, TypeInv, TypeOK, CommandTypes
    <3> QED BY <1>8, <3>1, <3>2
  <2>2. k \in TaskIds(p) /\ Current(p) \in Task
    BY <1>1, <2>1 DEF TaskLabels
  <2>3. x.status = Current(p).status /\ x.late = Current(p).late
    BY <2>2 DEF Task
  <2> HIDE DEF x
  <2>4. \A i \in TaskIds(p) : Bad(p, i) => i = k
    BY <1>0, <2>1 DEF Orderly, Agrees
  <2>5. Current(p).status # "pending" =>
          \A j \in 1..(k - 1) : StatusOf(p, j) = "succeeded"
    BY <2>2 DEF Orderly, Current, StatusOf
  <2>6. Current(p).status \in {"failed", "unknown"} \/ Current(p).late => Bad(p, k)
    BY DEF Bad, Current, StatusOf
  <2>7. Bad(p, k) => at[p] = "recorded"
    BY <2>1, <2>2 DEF Orderly
  <2>8. at[p] = "recorded" =>
          Current(p).status = req[p].outcome /\ (Current(p).late => req[p].late)
    BY DEF Orderly
  <2> QED BY <2>1, <2>2, <2>3, <2>4, <2>5, <2>6, <2>7, <2>8, OrderlyWrite
<1>9. CASE ResetTask(p)
  <2> DEFINE x == [NewTask EXCEPT !.retry = Current(p).retry + 1, !.sealed = FALSE]
  <2>1. /\ at[p] = "archived" /\ at'[p] = "reset" /\ state'[p] = state[p]
        /\ req' = req /\ WriteTask(p, x)
    BY <1>9 DEF ResetTask, Step, TypeInv, TypeOK, CommandTypes
  <2>2. k \in TaskIds(p) /\ Current(p) \in Task
    BY <1>1, <2>1 DEF TaskLabels
  <2>3. x.status = "pending" /\ x.late = FALSE
    BY DEF NewTask
  <2> HIDE DEF x
  <2>4. Current(p).status = "failed" /\ Bad(p, k)
    BY <2>1 DEF OfTask, Bad, Current, StatusOf
  <2>5. \A i \in TaskIds(p) : Bad(p, i) => i = k
    BY <2>2, <2>4 DEF Orderly
  <2> QED BY <2>1, <2>2, <2>3, <2>4, <2>5, OrderlyWrite
<1> QED BY <1>2, <1>3, <1>4, <1>5, <1>6, <1>7, <1>8, <1>9 DEF Proceed

LEMMA OrderStep == TypeInv /\ HostInv /\ ResultInv /\ OrderInv /\ [Next]_vars => OrderInv'
<1> SUFFICES ASSUME TypeInv, HostInv, ResultInv, OrderInv, [Next]_vars, crashes' = 0
             PROVE  \A q \in Plans : Orderly(q)'
  BY DEF OrderInv
<1>1. ASSUME NEW p \in Plans, Crash(p) PROVE FALSE
  BY <1>1 DEF Crash, TypeInv, TypeOK, FileTypes
<1>2. ASSUME NEW p \in Plans, Invoke(p) \/ Proceed(p) PROVE \A q \in Plans : Orderly(q)'
  <2>1. UNCHANGED crashes
    <3>1. CASE Invoke(p)
      BY <3>1, InvokeBegins DEF BeginCreate, world
    <3>2. CASE Proceed(p)
      BY <3>2 DEF Proceed, FinishCreate, SealApproval, CommitApproval, SealAuthorization,
         CommitAuthorization, Reserve, ReserveRefused, PublishTasks, PublishFails, StartRun,
         GrantLease, ExtendLease, LeaseRefused, TakeCustody, RecordResult, SealResult,
         PauseRun, LogPause, ContinueRun, FinishRun, LogSuccess, ReleaseHosts, MarkUnknown,
         ArchiveAttempt, ResetTask, SealAttempt, ResumeRun, world
    <3> QED BY <1>2, <3>1, <3>2
  <2>2. \A q \in Plans : Orderly(q)
    BY <2>1 DEF OrderInv
  <2>3. \A q \in Plans \ {p} : Orderly(q)'
    BY <1>2, <2>2, OtherPlans, OrderlySame
  <2>4. Orderly(p)'
    BY <1>2, <2>2, OrderlyInvoke, OrderlyProceed DEF ResultInv
  <2> QED BY <2>3, <2>4
<1>3. CASE Tick \/ UNCHANGED vars
  <2>1. UNCHANGED <<crashes, tasks, state, at, req>>
    BY <1>3 DEF Tick, vars, work, world
  <2> QED BY <2>1, OrderlySame DEF OrderInv
<1> QED BY <1>1, <1>2, <1>3 DEF Next

(* "Failed work pauses the plan": as long as no command dies, a running    *)
(* plan has nothing but successes behind its next task (complete,          *)
(* reconcile, retry_task).                                                 *)
THEOREM FailureAlwaysStopsTheRun == Spec => []FailureStopsTheRun
<1>1. Init => OrderInv
  <2> SUFFICES ASSUME Init, NEW p \in Plans PROVE Orderly(p)
    BY DEF OrderInv
  <2> QED BY DEF Init, Orderly, Bad, StatusOf, NewTask
<1>2. TypeInv /\ OrderInv => FailureStopsTheRun
  <2> SUFFICES ASSUME TypeInv, OrderInv, NEW p \in Plans, crashes = 0, state[p] = "running",
                      at[p] = "idle", NEW i \in TaskIds(p)
               PROVE  /\ StatusOf(p, i) \in {"succeeded", "running", "pending"}
                      /\ ~tasks[p][i].late
                      /\ StatusOf(p, i) # "pending" =>
                           \A j \in 1..(i - 1) : StatusOf(p, j) = "succeeded"
    BY DEF FailureStopsTheRun
  <2>1. Orderly(p)
    BY DEF OrderInv
  <2>2. ~Bad(p, i)
    BY <2>1 DEF Orderly
  <2>3. StatusOf(p, i) \in TaskStatus
    BY DEF StatusOf, TypeInv, TypeOK, FileTypes, WorkTypes, Task
  <2> QED BY <2>1, <2>2, <2>3 DEF Orderly, Bad, TaskStatus
<1> QED BY <1>1, <1>2, TypeInit, TypeStep, HostInit, HostStep, ResultInit, ResultStep,
           OrderStep, PTL DEF Spec

-----------------------------------------------------------------------------
(* The lock that makes a command of the plan one action (PlanLock)         *)

(* What makes exclusion inductive while nobody reclaims: a command between *)
(* mkdir and rmdir is the maker of the directory, which is still there,    *)
(* and nobody is about to remove it for another.                           *)
LockOwner ==
  reclaims = {} =>
    /\ \A p \in Procs : pc[p] \in Inside \cup {"unlock"} => dir # "absent" /\ maker = p
    /\ \A p \in Procs : pc[p] \notin {"rm", "rmdir"}

(* The types and the ownership together.                                   *)
LockInv == LockTypeOK /\ LockOwner

(* Before any command has run, nobody holds the lock (lock).               *)
LEMMA LockInvInit == LockInit => LockInv
  BY LockAssumption DEF LockInit, LockInv, LockTypeOK, LockOwner, Places, Inside

(* Each step of lock and unlock keeps types and ownership.                 *)
LEMMA LockInvStep == LockInv /\ [LockNext]_lockVars => LockInv'
<1> SUFFICES ASSUME LockInv, [LockNext]_lockVars PROVE LockInv'
  OBVIOUS
<1> USE LockAssumption DEF LockInv, LockTypeOK, LockOwner, Places, Inside, Go
<1>1. ASSUME NEW p \in Procs, Mkdir(p) PROVE LockInv'
  BY <1>1 DEF Mkdir
<1>2. ASSUME NEW p \in Procs, Look(p) PROVE LockInv'
  BY <1>2 DEF Look, Stale
<1>3. ASSUME NEW p \in Procs, Reclaim(p) PROVE LockInv'
  BY <1>3 DEF Reclaim, RemovePid, RemoveDir
<1>4. ASSUME NEW p \in Procs, Wait(p) PROVE LockInv'
  BY <1>4 DEF Wait
<1>5. ASSUME NEW p \in Procs, Record(p) PROVE LockInv'
  BY <1>5 DEF Record
<1>6. ASSUME NEW p \in Procs, Unlock(p) PROVE LockInv'
  BY <1>6 DEF Unlock, RemovePid, RemoveDir
<1>7. ASSUME NEW p \in Procs, Die(p) PROVE LockInv'
  BY <1>7 DEF Die
<1>8. CASE Age
  BY <1>8 DEF Age
<1>9. CASE UNCHANGED lockVars
  BY <1>9 DEF lockVars
<1> QED
  BY <1>1, <1>2, <1>3, <1>4, <1>5, <1>6, <1>7, <1>8, <1>9 DEF LockNext, LockStep

(* For any number of commands: without a reclaim, mkdir excludes (lock,    *)
(* unlock).                                                                *)
THEOREM MkdirExcludes == LockSpec => []ExclusiveUnlessReclaimed
<1>1. LockInv => ExclusiveUnlessReclaimed
  BY DEF LockInv, LockOwner, ExclusiveUnlessReclaimed
<1> QED
  BY <1>1, LockInvInit, LockInvStep, PTL DEF LockSpec
=============================================================================
