------------------------ MODULE AgentQueueProperties ------------------------
(***************************************************************************)
(* What the pull queue has to guarantee about work it hands out once.      *)
(***************************************************************************)
EXTENDS AgentQueue

Results  == {"none", "succeeded", "failed"}
AgentPcs == {"idle", "claimed", "asked", "ready", "launch", "waiting", "ended", "defer",
             "defer_read", "defer_write", "block", "complete", "complete_read",
             "complete_write"}

JobFile  == [status : {"absent", "queued", "completed"} \cup Blocking, attempt : Attempts,
             gen : 0..MaxClaims, owner : Agents \cup {"none"}, token : 0..MaxClaims,
             result : Results]
Executor == [by : Agents \cup {"hand"}, job : Job, attempt : Attempts,
             phase : {"started", "working"}]
RunOnce  == [pc : AgentPcs, job : Job, attempt : Attempts, token : 0..MaxClaims,
             beat : BOOLEAN, orelse : {"idle", "block"}, result : Results]
Call     == [pc : {"idle", "read", "write"}, job : Job, gen : 0..MaxClaims,
             attempt : Attempts, result : Results]

(* Every variable keeps its type.                                          *)
TypeOK ==
  /\ job \in [Job -> JobFile]
  /\ due \subseteq Job
  /\ history \in [Job -> SUBSET [attempt : Attempts, result : Results]]
  /\ native \in [Job -> [status : {"pending", "running", "unknown"} \cup Terminal,
                         retry : Attempts]]
  /\ exec \subseteq Executor
  /\ agent \in [Agents -> RunOnce]
  /\ op \in [Operators -> Call]

(* A job is queued only while nothing that was launched for this attempt   *)
(* is still at work: expired jobs "are never redelivered blindly", and     *)
(* defer_pending puts back only a task nobody started.                     *)
NeverRedelivered ==
  \A e \in exec, j \in Job :
    e.by # "hand" /\ e.job = j /\ e.attempt = job[j].attempt => job[j].status \in Blocking

(* The agents launch at most one executor at a time on a node and in a     *)
(* plan, even when an agent dies and its executor goes on (claim).         *)
OneAtATime ==
  \A e, f \in {x \in exec : x.by # "hand"} :
    e # f => NodeOf[e.job] # NodeOf[f.job] /\ ~SamePlan(e.job, f.job)

(* What is handed out is handed out once, and to one at a time.            *)
DeliveredOnce == TypeOK /\ OneAtATime /\ NeverRedelivered

(* What the queue records about an attempt is what the sealed plan says:   *)
(* complete and reconcile take the outcome from the verified task, and     *)
(* check attempt and claim again before they write it.                     *)
ResultIsSealed ==
  \A j \in Job : job[j].status = "completed" =>
    job[j].attempt < native[j].retry \/ native[j].status = job[j].result

(* A job moves on by one attempt at a time, and only from an attempt whose *)
(* failure is archived (publish_task).                                     *)
AttemptsChain ==
  [][\A j \in Job : job[j].status # "absent" /\ job'[j].attempt # job[j].attempt =>
       /\ job'[j].attempt = job[j].attempt + 1
       /\ [attempt |-> job[j].attempt, result |-> "failed"] \in history'[j]]_vars

(* A job that was claimed is settled or handed back, whatever agents and   *)
(* executors die: its lease runs out and the next poll of any agent on any *)
(* node notices (claim, _expire).                                          *)
ClaimsEnd == \A j \in Job : job[j].status \in Active ~> job[j].status \notin Active

-----------------------------------------------------------------------------
(* Inductive strengthenings *)

(* What the verified task t says of attempt n, now or before its retry.    *)
Tells(t, n, r) ==
  \/ r \in Terminal /\ t.status = r /\ t.retry = n
  \/ r = "failed" /\ t.retry > n

Sealed(j, n, r) == Tells(native[j], n, r)

(* A result about to be recorded is sealed, and whoever holds a job holds  *)
(* the attempt it claimed.                                                 *)
RecordInv ==
  /\ \A j \in Job : job[j].status = "completed" => Sealed(j, job[j].attempt, job[j].result)
  /\ \A a \in Agents :
       /\ agent[a].pc = "complete_write" =>
            Sealed(agent[a].job, agent[a].attempt, agent[a].result)
       /\ agent[a].pc # "idle" /\ Holds(a) => Mine(a).attempt = agent[a].attempt
  /\ \A o \in Operators : op[o].pc = "write" => Sealed(op[o].job, op[o].attempt, op[o].result)

(* The task of a job's attempt has not been started, or has been retried.  *)
Untouched(j) == native[j].status = "pending" /\ native[j].retry = job[j].attempt
Retried(j)   == native[j].status = "pending" /\ native[j].retry = job[j].attempt + 1

Out(j) == {e \in exec : e.job = j}

(* Where a job and its task stand, while agents alone start executors.     *)
JobInv(j) ==
  /\ native[j].retry = job[j].attempt \/ Retried(j)
  /\ job[j].status = "absent" => job[j].attempt = 0
  /\ job[j].status \in {"absent", "queued"} => Untouched(j) /\ Out(j) = {}
  /\ job[j].status = "completed" =>
       Out(j) = {} /\ (native[j].status \in Terminal \/ Retried(j))
  /\ \A e \in Out(j) :
       /\ Out(j) = {e} /\ e.attempt = job[j].attempt /\ native[j].retry = job[j].attempt
       /\ native[j].status \in (IF e.phase = "started" THEN {"pending"}
                                                      ELSE {"running", "unknown"})

(* An agent that may still launch, or put back, the task it claimed.       *)
Launching == {"claimed", "asked", "ready", "launch", "defer_write"}

Working(a) == agent[a].pc # "idle" /\ agent[a].attempt = Mine(a).attempt

AgentInv(a) ==
  agent[a].pc # "idle" =>
    LET j == agent[a].job IN
    /\ job[j].status # "absent" /\ agent[a].attempt <= job[j].attempt
    /\ agent[a].pc \in Launching => Working(a) /\ job[j].status \in Blocking /\ Untouched(j)
    /\ Working(a) => /\ job[j].status # "queued"
                     /\ agent[a].pc # "waiting" => Out(j) = {}
                     /\ \A e \in Out(j) : e.by = a
                     /\ \A b \in Agents \ {a} : agent[b].job = j => ~Working(b)

(* Jobs that are out are on different nodes and of different plans.        *)
Apart ==
  \A i, j \in Job : i # j /\ job[i].status \in Blocking /\ job[j].status \in Blocking =>
    NodeOf[i] # NodeOf[j] /\ ~SamePlan(i, j)

DeliveryInv == Apart /\ (\A j \in Job : JobInv(j)) /\ (\A a \in Agents : AgentInv(a))

=============================================================================
