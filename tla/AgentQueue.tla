----------------------------- MODULE AgentQueue -----------------------------
(***************************************************************************)
(* The lab pull queue: webapp/agent_queue.py keeps one job file per sealed *)
(* task, webapp/agent_worker.py claims a job, launches the sealed executor *)
(* and records the outcome.                                                *)
(*                                                                         *)
(* Every critical section under .queue.lock is one action; a function that *)
(* leaves the lock to ask the plan controller is several.  Of the          *)
(* controller (PatchPlan) only the state of each sealed task is left, of   *)
(* an executor (RacRolling) only whether it holds the task.  Agents may    *)
(* die at any point; an executor survives the agent that launched it.      *)
(***************************************************************************)
EXTENDS Naturals, Sequences, FiniteSets

CONSTANTS
  Jobs,        \* the sealed tasks, in the order of their file names
  PlanOf,      \* plan of a job
  NodeOf,      \* node of a job
  Agents,
  AgentNode,   \* node of an agent
  Operators,   \* who call reconcile
  ByHand,      \* jobs whose executor an operator may start over SSH instead
  PublishDies, \* the controller may die inside publish_task
  MaxClaims,   \* bound of the model: claims of a job
  MaxRetries   \* bound of the model: retries of a sealed task

Job == {Jobs[k] : k \in 1..Len(Jobs)}
Earlier(i, j) == \E k, m \in 1..Len(Jobs) : k < m /\ Jobs[k] = i /\ Jobs[m] = j

ASSUME QueueAssumption ==
  /\ Len(Jobs) \in Nat \ {0}
  /\ \A k, m \in 1..Len(Jobs) : k # m => Jobs[k] # Jobs[m]
  /\ {"hand", "none"} \cap Agents = {}
  /\ DOMAIN PlanOf = Job /\ DOMAIN NodeOf = Job /\ DOMAIN AgentNode = Agents
  /\ ByHand \subseteq Job /\ PublishDies \in BOOLEAN
  /\ MaxClaims \in Nat /\ MaxRetries \in Nat

VARIABLES
  job,      \* jobs/<plan>__<task>.json
  due,      \* jobs whose lease_expires_epoch has passed
  history,  \* history/<job>/attempt-<n>.json: number and result
  native,   \* the sealed task: status and retry_count
  exec,     \* executors at work
  agent,    \* run_once, per agent process
  op        \* reconcile, per operator

vars == <<job, due, history, native, exec, agent, op>>

Active   == {"claimed", "running"}
Blocking == Active \cup {"reconciliation_required"}
Terminal == {"succeeded", "failed"}

Unpublished == [status |-> "absent", attempt |-> 0, gen |-> 0,
                owner |-> "none", token |-> 0, result |-> "none"]
IdleAgent   == [pc |-> "idle", job |-> Jobs[1], attempt |-> 0, token |-> 0,
                beat |-> TRUE, orelse |-> "idle", result |-> "none"]
IdleOp      == [pc |-> "idle", job |-> Jobs[1], gen |-> 0, attempt |-> 0, result |-> "none"]

-----------------------------------------------------------------------------
(* The sealed tasks and their executors *)

SamePlan(i, j) == PlanOf[i] = PlanOf[j]
Paused(j) == \E i \in Job : SamePlan(i, j) /\ native[i].status \in {"failed", "unknown"}

(* next: the first pending task of a running plan.                         *)
IsNext(j) == /\ native[j].status = "pending" /\ ~Paused(j)
             /\ \A i \in Job : SamePlan(i, j) /\ Earlier(i, j) => native[i].status # "pending"

ExecutorClaims(e) ==
  /\ e.phase = "started" /\ IsNext(e.job)
  /\ \A i \in Job : SamePlan(i, e.job) => native[i].status # "running"
  /\ native' = [native EXCEPT ![e.job].status = "running"]
  /\ exec' = (exec \ {e}) \cup {[e EXCEPT !.phase = "working"]}
  /\ UNCHANGED <<job, due, history, agent, op>>

(* Refused by the controller, by the host lock or by a source document.    *)
ExecutorRefused(e) ==
  /\ e.phase = "started" /\ exec' = exec \ {e}
  /\ UNCHANGED <<job, due, history, native, agent, op>>

(* complete, unless reconcile came first; an executor that dies reports    *)
(* nothing.                                                                *)
ExecutorEnds(e) ==
  /\ e.phase = "working" /\ exec' = exec \ {e}
  /\ \/ /\ native[e.job].status = "running"
        /\ \E s \in Terminal : native' = [native EXCEPT ![e.job].status = s]
     \/ UNCHANGED native
  /\ UNCHANGED <<job, due, history, agent, op>>

(* The controller's own reconcile and retry.                               *)
NativeExpires(j) ==
  /\ native[j].status = "running"
  /\ native' = [native EXCEPT ![j].status = "unknown"]
  /\ UNCHANGED <<job, due, history, exec, agent, op>>

NativeRetry(j) ==
  /\ native[j].status = "failed" /\ native[j].retry < MaxRetries
  /\ native' = [native EXCEPT ![j] = [status |-> "pending", retry |-> @.retry + 1]]
  /\ UNCHANGED <<job, due, history, exec, agent, op>>

RunByHand(j) ==
  /\ j \in ByHand /\ native[j].status = "pending"
  /\ \A e \in exec : e.by = "hand" => e.job # j
  /\ exec' = exec \cup {[by |-> "hand", job |-> j, attempt |-> native[j].retry,
                         phase |-> "started"]}
  /\ UNCHANGED <<job, due, history, native, agent, op>>

(* native_task: the sealed task is at the attempt asked about.  The call   *)
(* may also fail, which counts as no match.                                *)
Matches(j, attempt, Statuses) == native[j].retry = attempt /\ native[j].status \in Statuses

-----------------------------------------------------------------------------
(* publish_task, for a task listed as pending some time ago *)

Fresh(attempt, gen) == [Unpublished EXCEPT !.status = "queued", !.attempt = attempt, !.gen = gen]

Archived(j, n) == \E h \in history[j] : h.attempt = n

(* Mutant: any attempt but a running one may be replaced.                  *)
MayReplaceInactive(j, n) == /\ job[j].status \notin Active /\ job[j].status # "absent"
                            /\ n = job[j].attempt + 1
                            /\ ~Archived(j, job[j].attempt)

MayReplace(j, n) == /\ job[j].status = "completed" /\ n = job[j].attempt + 1
                    /\ ~Archived(j, job[j].attempt)

Archive(j) ==
  history' = [history EXCEPT ![j] = @ \cup {[attempt |-> job[j].attempt, result |-> job[j].result]}]

Publish(j, n) ==
  /\ n <= native[j].retry
  /\ \/ job[j].status = "absent" /\ UNCHANGED history
     \/ MayReplace(j, n) /\ Archive(j)
  /\ job' = [job EXCEPT ![j] = Fresh(n, @.gen)]
  /\ UNCHANGED <<due, native, exec, agent, op>>

PublishCrashes(j, n) ==
  /\ PublishDies
  /\ n <= native[j].retry /\ MayReplace(j, n) /\ Archive(j)
  /\ UNCHANGED <<job, due, native, exec, agent, op>>

-----------------------------------------------------------------------------
(* Leases and fences *)

LeaseRunsOut(j) ==
  /\ job[j].status \in Active /\ j \notin due
  /\ due' = due \cup {j}
  /\ UNCHANGED <<job, history, native, exec, agent, op>>

(* Mutant: an expired job is delivered again.                              *)
ExpireToQueue(J) ==
  [j \in Job |-> IF j \in J \cap due /\ job[j].status \in Active
                   THEN [job[j] EXCEPT !.status = "queued"] ELSE job[j]]

(* Mutant: nobody but the owner looks at the lease.                        *)
ExpireNever(J) == job

(* _expire, for the jobs J.                                                *)
Expire(J) ==
  [j \in Job |-> IF j \in J \cap due /\ job[j].status \in Active
                   THEN [job[j] EXCEPT !.status = "reconciliation_required"] ELSE job[j]]

Holds(a) == LET j == agent[a].job
            IN  job[j].owner = a /\ job[j].token = agent[a].token

(* _owned *)
Owned(a) == Holds(a) /\ agent[a].job \notin due /\ job[agent[a].job].status \in Active

Go(a, pc) == agent' = [agent EXCEPT ![a] = IF pc = "idle" THEN IdleAgent ELSE [@ EXCEPT !.pc = pc]]

(* A critical section of the agent's claim: the change, or an exception.   *)
Fenced(a, record, to, orelse) ==
  /\ IF Owned(a) THEN /\ job' = [job EXCEPT ![agent[a].job] = record]
                      /\ Go(a, to)
                 ELSE /\ job' = IF Holds(a) THEN Expire({agent[a].job}) ELSE job
                      /\ Go(a, orelse)
  /\ UNCHANGED <<due, history, native, exec, op>>

Mine(a) == job[agent[a].job]

-----------------------------------------------------------------------------
(* claim *)

NodeBusy(n, q) == \E i \in Job : NodeOf[i] = n /\ q[i].status \in Blocking
PlanBusy(j, q) == \E i \in Job \ {j} : SamePlan(i, j) /\ q[i].status \in Blocking
InOrder(j, q)  == \A i \in Job : SamePlan(i, j) /\ Earlier(i, j) =>
                    q[i].status = "absent" \/ (q[i].status = "completed" /\ q[i].result = "succeeded")

(* Mutant: only the peers of a job's own plan keep it back.                *)
ClaimablePlanOnly(a, q) ==
  {j \in Job : NodeOf[j] = AgentNode[a] /\ q[j].status = "queued" /\ ~PlanBusy(j, q) /\ InOrder(j, q)}

Claimable(a, q) ==
  {j \in Job : /\ NodeOf[j] = AgentNode[a] /\ ~NodeBusy(AgentNode[a], q)
               /\ q[j].status = "queued" /\ ~PlanBusy(j, q) /\ InOrder(j, q)}

Poll(a) ==
  /\ agent[a].pc = "idle"
  /\ LET q == Expire(Job)
         C == Claimable(a, q)
         j == CHOOSE c \in C : \A d \in C : c = d \/ Earlier(c, d)
     IN  IF C # {} /\ q[j].gen < MaxClaims
           THEN /\ job' = [q EXCEPT ![j] = [q[j] EXCEPT !.status = "claimed", !.owner = a,
                                                        !.gen = @ + 1, !.token = q[j].gen + 1]]
                /\ due' = due \ {j}
                /\ agent' = [agent EXCEPT ![a] =
                     [IdleAgent EXCEPT !.pc = "claimed", !.job = j, !.attempt = q[j].attempt,
                                       !.token = q[j].gen + 1, !.orelse = "block"]]
           ELSE job' = q /\ UNCHANGED <<due, agent>>
  /\ UNCHANGED <<history, native, exec, op>>

-----------------------------------------------------------------------------
(* run_once: native_ready, launch, renewal, outcome *)

AskStatus(a) ==
  /\ agent[a].pc = "claimed"
  /\ \/ Matches(agent[a].job, agent[a].attempt, {"pending"}) /\ Go(a, "asked")
     \/ Go(a, "block")
  /\ UNCHANGED <<job, due, history, native, exec, op>>

AskNext(a) ==
  /\ agent[a].pc = "asked"
  /\ \/ IsNext(agent[a].job) /\ native[agent[a].job].retry = agent[a].attempt
        /\ agent' = [agent EXCEPT ![a].pc = "ready", ![a].orelse = "idle"]
     \/ Go(a, "defer")
  /\ UNCHANGED <<job, due, history, native, exec, op>>

(* The executor is not executable, or cannot be started after the renewal. *)
CannotLaunch(a) ==
  /\ agent[a].pc \in {"ready", "launch"}
  /\ Go(a, "defer")
  /\ UNCHANGED <<job, due, history, native, exec, op>>

Renewed(a) == [Mine(a) EXCEPT !.status = "running"]

ExtendLease(a) ==
  /\ agent[a].pc = "ready"
  /\ Fenced(a, Renewed(a), "launch", "idle")

Launch(a) ==
  /\ agent[a].pc = "launch"
  /\ exec' = exec \cup {[by |-> a, job |-> agent[a].job, attempt |-> agent[a].attempt,
                         phase |-> "started"]}
  /\ agent' = [agent EXCEPT ![a].pc = "waiting", ![a].orelse = "block"]
  /\ UNCHANGED <<job, due, history, native, op>>

(* The renewal while the executor works fails, or is refused: the agent    *)
(* stops renewing and goes on waiting.                                     *)
RenewFails(a) ==
  /\ agent[a].pc = "waiting" /\ agent[a].beat
  /\ agent' = [agent EXCEPT ![a].beat = FALSE]
  /\ \/ ~Owned(a) /\ job' = IF Holds(a) THEN Expire({agent[a].job}) ELSE job
     \/ UNCHANGED job
  /\ UNCHANGED <<due, history, native, exec, op>>

ExecutorSeen(a) ==
  /\ agent[a].pc = "waiting"
  /\ ~\E e \in exec : e.by = a /\ e.job = agent[a].job /\ e.attempt = agent[a].attempt
  /\ Go(a, IF agent[a].beat THEN "ended" ELSE "idle")
  /\ UNCHANGED <<job, due, history, native, exec, op>>

AskOutcome(a) ==
  /\ agent[a].pc = "ended"
  /\ \/ Matches(agent[a].job, agent[a].attempt, {"pending"}) /\ Go(a, "defer")
     \/ Matches(agent[a].job, agent[a].attempt, Terminal) /\ Go(a, "complete")
     \/ Go(a, "block")
  /\ UNCHANGED <<job, due, history, native, exec, op>>

-----------------------------------------------------------------------------
(* defer_pending, require_reconciliation, complete *)

DeferCheck(a) == agent[a].pc = "defer" /\ Fenced(a, Mine(a), "defer_read", agent[a].orelse)

DeferRead(a) ==
  /\ agent[a].pc = "defer_read"
  /\ \/ Matches(agent[a].job, agent[a].attempt, {"pending"}) /\ Go(a, "defer_write")
     \/ Go(a, agent[a].orelse)
  /\ UNCHANGED <<job, due, history, native, exec, op>>

Released(a, status) == [Mine(a) EXCEPT !.status = status, !.token = 0]

DeferWrite(a) ==
  /\ agent[a].pc = "defer_write"
  /\ Fenced(a, [Released(a, "queued") EXCEPT !.owner = "none"], "idle", agent[a].orelse)

Block(a) ==
  /\ agent[a].pc = "block"
  /\ Fenced(a, Released(a, "reconciliation_required"), "idle", "idle")

CompleteCheck(a) == agent[a].pc = "complete" /\ Fenced(a, Mine(a), "complete_read", "idle")

CompleteRead(a) ==
  /\ agent[a].pc = "complete_read"
  /\ \/ /\ Matches(agent[a].job, agent[a].attempt, Terminal)
        /\ agent' = [agent EXCEPT ![a].pc = "complete_write",
                                  ![a].result = native[agent[a].job].status]
     \/ Go(a, "idle")
  /\ UNCHANGED <<job, due, history, native, exec, op>>

CompleteWrite(a) ==
  /\ agent[a].pc = "complete_write"
  /\ Fenced(a, [Mine(a) EXCEPT !.status = "completed", !.result = agent[a].result], "idle", "idle")

AgentStep(a) ==
  \/ Poll(a) \/ AskStatus(a) \/ AskNext(a) \/ CannotLaunch(a) \/ ExtendLease(a) \/ Launch(a)
  \/ ExecutorSeen(a) \/ AskOutcome(a) \/ DeferCheck(a) \/ DeferRead(a) \/ DeferWrite(a)
  \/ Block(a) \/ CompleteCheck(a) \/ CompleteRead(a) \/ CompleteWrite(a)

Die(a) ==
  /\ agent[a].pc # "idle"
  /\ Go(a, "idle")
  /\ UNCHANGED <<job, due, history, native, exec, op>>

-----------------------------------------------------------------------------
(* reconcile *)

ReconcileCheck(o, j) ==
  /\ op[o].pc = "idle"
  /\ job' = Expire({j}) /\ job'[j].status = "reconciliation_required"
  /\ op' = [op EXCEPT ![o] = [IdleOp EXCEPT !.pc = "read", !.job = j, !.gen = job[j].gen,
                                            !.attempt = job[j].attempt]]
  /\ UNCHANGED <<due, history, native, exec, agent>>

ReconcileRead(o) ==
  /\ op[o].pc = "read"
  /\ \/ /\ Matches(op[o].job, op[o].attempt, Terminal)
        /\ op' = [op EXCEPT ![o].pc = "write", ![o].result = native[op[o].job].status]
     \/ op' = [op EXCEPT ![o] = IdleOp]
  /\ UNCHANGED <<job, due, history, native, exec, agent>>

(* Mutant: only the state of the job is checked again.                     *)
SameClaimAnyAttempt(o) == job[op[o].job].status = "reconciliation_required"

SameClaim(o) == LET r == job[op[o].job]
                IN  /\ r.status = "reconciliation_required"
                    /\ r.gen = op[o].gen /\ r.attempt = op[o].attempt

ReconcileWrite(o) ==
  /\ op[o].pc = "write"
  /\ job' = IF SameClaim(o)
              THEN [job EXCEPT ![op[o].job] = [@ EXCEPT !.status = "completed", !.result = op[o].result]]
              ELSE job
  /\ op' = [op EXCEPT ![o] = IdleOp]
  /\ UNCHANGED <<due, history, native, exec, agent>>

-----------------------------------------------------------------------------
Init ==
  /\ job = [j \in Job |-> Unpublished]
  /\ due = {}
  /\ history = [j \in Job |-> {}]
  /\ native = [j \in Job |-> [status |-> "pending", retry |-> 0]]
  /\ exec = {}
  /\ agent = [a \in Agents |-> IdleAgent]
  /\ op = [o \in Operators |-> IdleOp]

Launchers == Agents \cup {"hand"}
ExecutorStep(b, j) ==
  \E e \in exec : /\ e.by = b /\ e.job = j
                  /\ ExecutorClaims(e) \/ ExecutorRefused(e) \/ ExecutorEnds(e)
Reconcile(o) == (\E j \in Job : ReconcileCheck(o, j)) \/ ReconcileRead(o) \/ ReconcileWrite(o)
Attempts == 0..MaxRetries

Next ==
  \/ \E a \in Agents : AgentStep(a) \/ RenewFails(a) \/ Die(a)
  \/ \E o \in Operators : Reconcile(o)
  \/ \E j \in Job : \/ LeaseRunsOut(j) \/ NativeExpires(j) \/ NativeRetry(j) \/ RunByHand(j)
                    \/ \E n \in Attempts : Publish(j, n) \/ PublishCrashes(j, n)
  \/ \E b \in Launchers, j \in Job : ExecutorStep(b, j)

Spec == Init /\ [][Next]_vars

(* Agents keep polling, leases run out, executors end.                     *)
FairSpec == /\ Spec
            /\ \A b \in Launchers, j \in Job : WF_vars(ExecutorStep(b, j))
            /\ \A a \in Agents : WF_vars(AgentStep(a))
            /\ \A j \in Job : WF_vars(LeaseRunsOut(j))
=============================================================================
