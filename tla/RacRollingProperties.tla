------------------------ MODULE RacRollingProperties ------------------------
(***************************************************************************)
(* What a rolling RAC patch has to guarantee to the cluster it works on.   *)
(***************************************************************************)
EXTENDS RacRolling

(* Every variable keeps its type.                                          *)
TypeOK ==
  /\ inst \in [Node -> {"running", "stopped"}]
  /\ home \in [Node -> {"old", "new", "torn"}]
  /\ svc \in [Services -> SUBSET Node]
  /\ sql \in BOOLEAN
  /\ bound \subseteq Node
  /\ drain \in [Node -> [moved : SUBSET Services, survivor : Node \cup {"none"}]]
  /\ status \in [1..Len(Tasks) -> {"pending", "running", "succeeded", "failed", "unknown"}]
  /\ retries \in 0..MaxRetries
  /\ plan \in {"running", "paused", "succeeded"}
  /\ run \in [phase : {"none", "stage", "ended"}, pc : 0..12, ok : BOOLEAN,
              supervised : BOOLEAN, survivor : Node \cup {"none"}, moved : SUBSET Services]
  /\ marks \subseteq {"instance-down", "binary-state-unknown", "binary-state-known",
                      "heartbeat-failed"}
  /\ evidence = NoEvidence
     \/ evidence \in [post : {"passed", "failed", "unknown"},
                      class : {"no_mutation", "service_state_known", "database_down",
                               "binary_state_known", "binary_state_unknown"}]

-----------------------------------------------------------------------------
(* The cluster *)

(* One rolling node: at most one instance is out of service, whatever      *)
(* stages fail, lose their supervisor or run on after their lease.         *)
OneNodeOut == Cardinality({n \in Node : inst[n] = "stopped"}) <= 1

(* No service is ever without an instance: it is drained before the stop   *)
(* and its survivor keeps running (drain_services, the checks of rac_stop). *)
ServiceAlwaysUp == \A s \in Services : svc[s] # {}

(* The cluster serves throughout: one node out and no service down.        *)
ClusterServes == TypeOK /\ OneNodeOut /\ ServiceAlwaysUp

(* The SQL part is applied only to a whole patched cluster: every home is  *)
(* new and every instance runs (verify_prior_node_validations and          *)
(* verify_all_nodes_running before datapatch).                             *)
DatapatchLast ==
  sql => \A n \in Node : home[n] = "new" /\ inst[n] = "running"

(* An instance is started only from a home whose patch state is proven:    *)
(* a failed OPatch never restarts it (mutation_exit_guard, rac_start).     *)
StartsFromNewHome ==
  [][\A n \in Node : inst[n] = "stopped" /\ inst'[n] = "running" => home[n] = "new"]_vars

(* The cluster is patched node by node in the plan's order: an instance is *)
(* taken down only when all others serve, all nodes before it are done and *)
(* none after it is begun; its home changes only while it is down, and it  *)
(* comes up from a patched home; SQL follows the last node (dispatch,      *)
(* rac_stop, rac_opatch_apply, rac_start, cluster_datapatch).              *)
Upgrade == INSTANCE RollingUpgrade

PatchesNodeByNode == Upgrade!Spec

(* Services that ran on one node run there again when a plan that needed   *)
(* no retry succeeds: the post-execution gate "service restoration"        *)
(* (drain_services, restore_drained_services).  The retry of a drain that  *)
(* failed half-way empties the list of the services it had moved.          *)
ServicesRestored ==
  plan = "succeeded" /\ retries = 0 =>
    \A s \in Services : Cardinality(Placement[s]) = 1 => svc[s] = Placement[s]

-----------------------------------------------------------------------------
(* Reports *)

Settled == plan # "succeeded" /\ run = Stopped /\ status[Pos] # "running"

(* A home torn by OPatch freezes the plan: it is paused on that very task, *)
(* which nobody can retry (the guard, derive_outcome, retry_task).         *)
TornHomeFreezes ==
  Settled /\ (\E n \in Node : home[n] = "torn") =>
    /\ plan = "paused" /\ Kind[Stage] = "opatch" /\ home[LocalNode] = "torn"
    /\ status[Pos] = "unknown" \/ (status[Pos] = "failed" /\ ~MayRetry)

(* A torn home is never reported as anything better than an unknown binary *)
(* state, whichever of stage, heartbeat and supervisor failed with it.     *)
TornHomeIsReported ==
  Settled /\ status[Pos] = "failed" /\ home[LocalNode] = "torn" =>
    evidence = [post |-> "unknown", class |-> "binary_state_unknown"]

(* An attempt that lost its heartbeat never counts as a success and is     *)
(* never repeated (execute_task, retry_task).                              *)
HeartbeatLossBlocks ==
  "heartbeat-failed" \in marks /\ evidence # NoEvidence => evidence.post = "unknown"

(* A report is never better than the truth, and what it does not vouch for *)
(* is not repeated (derive_outcome, emit_evidence, retry_task).            *)
ReportsAreHonest == TornHomeFreezes /\ TornHomeIsReported /\ HeartbeatLossBlocks

(* "a database left down [...] remain[s] blocked": no failure that left    *)
(* the local instance down may be retried (retry_task).                    *)
DatabaseDownBlocked ==
  Settled /\ status[Pos] = "failed" /\ inst[LocalNode] = "stopped" => ~MayRetry

(* "an explicitly repeatable validation/datapatch stage with a known       *)
(* binary state" may be retried after a failure (retry_task).              *)
DatapatchRepeatable ==
  /\ Settled /\ status[Pos] = "failed"
  /\ Kind[Stage] \in {"validate", "datapatch", "final"}
  /\ evidence = [post |-> "failed", class |-> "binary_state_known"]
  => MayRetry

(* A claimed task gets an outcome by the executor's own steps, whether its *)
(* stage succeeds, fails or loses its lease, unless the supervisor dies:   *)
(* such a task waits for an operator (execute_task).                       *)
TasksEnd ==
  \A i \in 1..Len(Tasks) : status[i] = "running" ~> status[i] # "running" \/ ~run.supervised

-----------------------------------------------------------------------------
(* Inductive strengthening: what holds of the cluster while the plan is at *)
(* one of its tasks, and when it is done (RollingInv).                     *)

Count == Len(Tasks)
KindOf(i) == Kind[Tasks[i].stage]
NodeOf(i) == Tasks[i].node

(* The task the plan is at.                                                *)
Current(q) == /\ plan # "succeeded" /\ status[q] # "succeeded"
              /\ \A i \in 1..(q - 1) : status[i] = "succeeded"

(* The attempt is past a step, and has not failed.                         *)
Past(k) == run.pc > k /\ (run.phase = "stage" \/ run.ok)

(* A report is outstanding only while an executor is at work.              *)
ExecutorInv ==
  /\ (run.phase = "none" => run = Stopped)
  /\ (run.ok => run.phase = "ended")
  /\ ("heartbeat-failed" \in marks /\ evidence # NoEvidence => evidence.post = "unknown")

(* Tasks are taken in order, by one executor at a time, which is at work   *)
(* until its task has an outcome.                                          *)
TaskInv(q) ==
  /\ \A i \in (q + 1)..Count : status[i] = "pending"
  /\ (plan = "running" <=> status[q] \in {"pending", "running"})
  /\ (run # Stopped => status[q] \in {"running", "unknown"} /\ evidence = NoEvidence)
  /\ (status[q] = "running" => run # Stopped)
  /\ (run.phase = "stage" => run.pc \in 1..(Len(Program[KindOf(q)]) + 1))
  /\ (run.ok => run.pc > Len(Program[KindOf(q)]))

(* All instances run but the one that the plan has at hand.                *)
UpInv(q) ==
  /\ \A m \in Node : \/ inst[m] = "running"
                     \/ /\ m = NodeOf(q)
                        /\ KindOf(q) \in {"stop", "opatch", "start", "validate"}
  /\ (KindOf(q) = "validate" /\ Past(3) => inst[NodeOf(q)] = "running")

(* A torn home is one of an attempt that has failed and says so.           *)
TornInv(q) ==
  /\ run.phase # "stage"
  /\ (run.phase = "ended" => ~run.ok /\ "binary-state-unknown" \in marks)
  /\ (run.phase = "none" =>
        \/ status[q] = "unknown"
        \/ /\ status[q] = "failed"
           /\ evidence = [post |-> "unknown", class |-> "binary_state_unknown"])

(* The homes behind the plan are new, and none is torn but the one it has  *)
(* at hand.                                                                *)
HomeInv(q) ==
  /\ \A j \in 1..(q - 1) : KindOf(j) = "opatch" => home[NodeOf(j)] = "new"
  /\ (KindOf(q) = "opatch" /\ Past(11) => home[NodeOf(q)] = "new")
  /\ \A m \in Node : home[m] = "torn" =>
       m = NodeOf(q) /\ KindOf(q) = "opatch" /\ TornInv(q)
  /\ (sql => KindOf(q) \in {"datapatch", "final"})

(* The homes ahead of the plan are untouched, one is patched while its     *)
(* instance is down, and only an instance that is down is started.         *)
AheadInv(q) ==
  /\ \A j \in (q + 1)..Count : KindOf(j) = "opatch" => home[NodeOf(j)] = "old"
  /\ (KindOf(q) = "opatch" /\ Past(3) => inst[NodeOf(q)] = "stopped")
  /\ (KindOf(q) = "opatch" /\ Past(7) /\ run.pc <= 9 => home[NodeOf(q)] = "old")
  /\ (KindOf(q) = "start" /\ Past(4) /\ run.pc <= 5 => inst[NodeOf(q)] = "stopped")

(* An instance is stopped only when its services run elsewhere, too.       *)
ServeInv(q) ==
  /\ (KindOf(q) = "drain" /\ Past(3) => run.survivor \in Node \ {NodeOf(q)})
  /\ (KindOf(q) = "stop" /\ Past(4) => run.survivor \in Node \ {NodeOf(q)})
  /\ (KindOf(q) = "stop" /\ Past(5) /\ run.pc = 6 =>
       \A s \in Services : NodeOf(q) \in svc[s] => run.survivor \in svc[s])

(* No attempt of the plan has failed so far.                               *)
Smooth == retries = 0 /\ plan # "paused" /\ (run.phase = "ended" => run.ok)

(* Where a service is that has one place, node p, while all goes well: it  *)
(* leaves p with the drain of p, and is back by the end of p's start.      *)
PlaceInv(s, p, q) ==
  LET n == NodeOf(q)
      k == KindOf(q)
  IN /\ (n # p \/ k \in {"precheck", "validate", "datapatch", "final"} => svc[s] = {p})
     /\ (n # p /\ k = "drain" => s \notin run.moved)
     /\ (n # p /\ k \in {"stop", "opatch", "start"} => s \notin drain[n].moved)
     /\ (n = p /\ k = "drain" => \/ svc[s] = {p} /\ ~Past(5)
                                 \/ svc[s] = {run.survivor} /\ s \in run.moved /\ Past(3))
     /\ (n = p /\ k \in {"stop", "opatch", "start"} =>
           s \in drain[n].moved /\ drain[n].survivor # p)
     /\ (n = p /\ k \in {"stop", "opatch"} => svc[s] = {drain[n].survivor})
     /\ (n = p /\ k = "start" => \/ svc[s] = {p}
                                 \/ svc[s] = {drain[n].survivor} /\ ~Past(9))

RestoreInv(q) ==
  /\ (KindOf(q) = "drain" /\ Past(6) =>
        drain[NodeOf(q)] = [moved |-> run.moved, survivor |-> run.survivor])
  /\ (Smooth => \A s \in Services, p \in Node : Placement[s] = {p} => PlaceInv(s, p, q))

AtTask(q) ==
  /\ Current(q) /\ TaskInv(q) /\ UpInv(q) /\ HomeInv(q) /\ AheadInv(q)
  /\ ServeInv(q) /\ RestoreInv(q)

(* The end of the plan.                                                    *)
AtEnd ==
  /\ run = Stopped
  /\ \A m \in Node : inst[m] = "running" /\ home[m] = "new"
  /\ (retries = 0 =>
        \A s \in Services, p \in Node : Placement[s] = {p} => svc[s] = {p})

RollingInv ==
  /\ TypeOK /\ ExecutorInv /\ ServiceAlwaysUp
  /\ (plan = "succeeded" => AtEnd)
  /\ (plan # "succeeded" => \E q \in 1..Count : AtTask(q))
=============================================================================
