----------------------- MODULE ControlPlaneProperties -----------------------
(***************************************************************************)
(* What a POST may change, on whose behalf, and what is told of it.        *)
(***************************************************************************)
EXTENDS ControlPlane, RunRegistryProperties

Subjects == {"plan", "rollback", "recovery"}
Stages == {"idle", "authenticated", "authorized", "ticket", "clear", "verified"}
Seals == UNION {{subject[on].requester, subject[on].approver, subject[on].operator} : on \in Subjects}

(* Every variable keeps its type, and a handler serves a request of a      *)
(* living server.                                                          *)
ControlTypeOK ==
  /\ RegistryTypeOK
  /\ principals \in RoleMaps /\ tickets \subseteq Tickets
  /\ agents \in [Agents -> Tokens \cup {None}]
  /\ \A h \in Handlers : /\ request[h].stage \in Stages
                         /\ request[h] # NoRequest => up[request[h].on] = "up"
  /\ job.status \in {"queued", "claimed", "completed"}
  /\ tool \in [Runs -> {"none", "running", "going", "done", "idle", "failed"}]
  /\ \A r \in Runs : at[r] \in {"idle", "waiting", "emit", "post", "end"} \/ ~Running(r)

(* Whatever a plan, a rollback plan or a recovery request records as its   *)
(* requester, approver or operator is the caller whose credential came     *)
(* with the request, and that caller had a role for the deed at some       *)
(* moment of the request: two reads of a registry that changes, and one    *)
(* of them for recovery requests (do_POST, _authorize_path, _require_role). *)
SealedByEntitledCaller ==
  \A g \in Seals : g.run # None => g.actor = g.by /\ g.entitled

(* A plan is approved by three distinct credentials end to end: no caller  *)
(* reaches two of the three seals under another name.                      *)
ThreeCredentials ==
  \A on \in Subjects :
    LET s == subject[on]
        behind == <<s.requester.by, s.approver.by, s.operator.by>>
    IN \A i, j \in 1..3 : i # j /\ behind[i] # None => behind[i] # behind[j]

(* The ticket sealed in an approval was an approved one at some moment of  *)
(* the request that brought it (itsm.validate_ticket, before the run).     *)
TicketWasApproved ==
  \A on \in {"plan", "rollback"} :
    LET g == subject[on].approver IN g.run # None => g.vouched

(* What a job of the queue says of its agent was said by that agent, with  *)
(* a token that was its own at some moment of the request.                 *)
AgentWasEnrolled ==
  job.status # "queued" =>
    job.grant.actor = job.grant.by /\ job.grant.vouched /\ job.grant.entitled

(* Nothing is on file that its caller was not entitled to.                 *)
CallersAreEntitled ==
  ControlTypeOK /\ SealedByEntitledCaller /\ TicketWasApproved /\ AgentWasEnrolled

(* An enrolment changes the agent it is about and no other: a revocation   *)
(* is not undone by an enrolment that was already under way.               *)
RevocationHolds ==
  [][\A p \in Agents : agents'[p] # agents[p] =>
       \E a \in Admins : edit[a] # None /\ edit[a].agent = p]_agents

Dispatched == {"running", "paused", "succeeded"}

(* What a plan or a recovery request shows, now and ever after, of a run   *)
(* that did what its route asks.                                           *)
Did(r) ==
  LET s == subject[asked[r].on]
      verb == asked[r].verb
      recovery == asked[r].on = "recovery"
  IN /\ verb = "create" => s.requester.run = r
     /\ verb = "approve" => s.approver.run = r
     /\ verb = "authorize" => s.operator.run = r
     /\ verb = "dispatch" => s.operator.actor = grant[r].actor
     /\ verb \in {"dispatch", "retry-task"} \cup Executions /\ ~recovery => s.state \in Dispatched
     /\ verb = "execute" /\ recovery => s.state = "completed"

(* execute-remaining returns normally when the plan is not running: it has *)
(* executed nothing, whatever the state of the plan.                       *)
FoundNothing(r) == asked[r].verb = "execute-remaining" /\ tool[r] = "idle"

(* An event of a plan in the audit log is the one of the run that tells it *)
(* and the plan shows the deed, so that a deed is told by its doer only;   *)
(* but execute-remaining tells of success also when it found nothing to    *)
(* execute.  The failure of an execution is told when it ended badly.  And *)
(* whatever the webhook or the dead letters hold is in the audit log.      *)
EventsTellDeeds ==
  /\ \A e \in audit :
       /\ e.event \notin {"plan.execute.failed", "run.failed"} =>
            /\ e.event = Event(asked[e.run], TRUE) /\ e.on = asked[e.run].on
            /\ Did(e.run) \/ FoundNothing(e.run)
       /\ e.event = "plan.execute.failed" => tool[e.run] = "failed"
  /\ delivered \cup dead \subseteq audit

(* Nobody hears of a failure the run file does not hold: a reader who is   *)
(* told finds it, whatever other servers and the disk do.                  *)
FailureIsOnFile ==
  \A e \in audit : e.event = "run.failed" => disk[e.run].status = "failed"

(* The plan or the recovery request shows the deed of a run that is filed  *)
(* as succeeded, unless it is an execute-remaining that found nothing to   *)
(* execute; such a run told of no failure.                                 *)
SucceededRunsDid ==
  \A r \in Runs : disk[r].status = "succeeded" =>
    /\ Did(r) \/ FoundNothing(r)
    /\ \A e \in audit : e.run = r => e.event \notin {"plan.execute.failed", "run.failed"}

(* One run at a time works on a key, and what run files and events tell of *)
(* it is what was done.                                                    *)
RunsTellDeeds == KeyExclusive /\ EventsTellDeeds /\ FailureIsOnFile /\ SucceededRunsDid
=============================================================================
