----------------------------- MODULE RacRolling -----------------------------
(***************************************************************************)
(* The executors of a rolling RAC database patch and of its rollback,      *)
(* bin/opu-database-rac-node-patch and opu-database-rac-node-rollback: the *)
(* typed stages a plan dispatches, what each does to the instances, homes, *)
(* services and SQL registry of the cluster, and what it reports.          *)
(*                                                                         *)
(* Oracle's state (inst, home, svc, sql) is external: the executors query  *)
(* it and change it through srvctl, opatch and datapatch.  A stage is a    *)
(* program of steps; any step may fail, because the query behind a check   *)
(* may be unavailable and a command may return nonzero with or without its *)
(* effect.  Supervisor, stage and heartbeat are three processes.  Of the   *)
(* plan controller (PatchPlan) only the serial claim, the completion, the  *)
(* lease expiry and the retry are left here.                               *)
(***************************************************************************)
EXTENDS Naturals, Sequences, FiniteSets, PlanStages

CONSTANTS
  Adapter,        \* one of the two RAC adapters
  Nodes,          \* nodes of the plan in patching order
  Coordinator,    \* the node of the cluster-wide stages
  Services,
  Placement,      \* the nodes each service runs on before the plan
  MaxRetries      \* bound of the model: retries in a plan

Node  == {Nodes[k] : k \in 1..Len(Nodes)}
Tasks == TaskList(Adapter, Nodes, Coordinator)

ASSUME RollingAssumption ==
  /\ Adapter \in {"database_rolling_opatch", "database_rac_opatch_rollback"}
  /\ Nodes \in Seq(Node) /\ Len(Nodes) >= 2 /\ Cardinality(Node) = Len(Nodes)
  /\ Coordinator \in Node
  /\ Placement \in [Services -> (SUBSET Node) \ {{}}]
  /\ MaxRetries \in Nat

VARIABLES
  inst,     \* instance of a node: "running" or "stopped"
  home,     \* Oracle home of a node: "old", "new" or "torn" by a failed OPatch
  svc,      \* nodes a service runs on
  sql,      \* DBA_REGISTRY_SQLPATCH's latest action is the plan's, and succeeded
  bound,    \* nodes with a target-binding.json
  drain,    \* drain-state.json of a node: services moved away and the survivor
  status,   \* status of the plan's tasks
  retries,  \* retries so far
  plan,     \* "running", "paused" or "succeeded"
  run,      \* the executor at work
  marks,    \* marker files of the current attempt
  evidence  \* report of the current task's last attempt

oracle == <<inst, home, svc, sql>>
files  == <<bound, drain>>
tasks  == <<status, retries, plan>>
vars == <<oracle, files, tasks, run, marks, evidence>>

-----------------------------------------------------------------------------
(* Stages and their programs *)

Kind ==
  [ rac_precheck |-> "precheck",           rac_rollback_precheck |-> "precheck",
    rac_drain |-> "drain",                 rac_rollback_drain |-> "drain",
    rac_stop |-> "stop",                   rac_rollback_stop |-> "stop",
    rac_opatch_apply |-> "opatch",         rac_opatch_rollback |-> "opatch",
    rac_start |-> "start",                 rac_rollback_start |-> "start",
    rac_node_validate |-> "validate",      rac_rollback_node_validate |-> "validate",
    cluster_datapatch |-> "datapatch",     rac_rollback_datapatch |-> "datapatch",
    cluster_final_validate |-> "final",    rac_rollback_final_validate |-> "final" ]

Program ==
  [ precheck  |-> <<"running", "bind", "old", "survivor", "services_up">>,
    drain     |-> <<"bound", "running", "survivor", "drain", "services_away", "save_drain">>,
    stop      |-> <<"bound", "drained", "running", "survivor", "services_away", "stop",
                    "wait_stopped", "mark_down", "survivor", "services_up">>,
    opatch    |-> <<"bound", "drained", "stopped", "mark_down", "survivor", "services_up",
                    "old", "mark_unknown", "opatch", "mark_known", "new">>,
    start     |-> <<"bound", "drained", "new", "stopped", "start", "wait_running",
                    "unmark_down", "restore", "restored", "services_up">>,
    validate  |-> <<"bound", "new", "running", "services_up">>,
    datapatch |-> <<"bound", "validated", "all_running", "services_up", "new",
                    "datapatch", "sql_done">>,
    final     |-> <<"bound", "validated", "all_running", "services_up", "new",
                    "sql_done">> ]

NoDrain    == [moved |-> {}, survivor |-> "none"]
NoEvidence == [post |-> "none", class |-> "none"]
Stopped    == [phase |-> "none", pc |-> 0, ok |-> FALSE, supervised |-> FALSE,
               survivor |-> "none", moved |-> {}]

-----------------------------------------------------------------------------
(* Helpers *)

Unfinished == {i \in 1..Len(Tasks) : status[i] # "succeeded"}
Pos == CHOOSE i \in Unfinished : \A j \in Unfinished : i <= j
Stage == Tasks[Pos].stage
LocalNode == Tasks[Pos].node
Op    == Program[Kind[Stage]][run.pc]

At(op) == run.phase = "stage" /\ run.pc <= Len(Program[Kind[Stage]]) /\ Op = op
Advance == run' = [run EXCEPT !.pc = @ + 1]

(* require_surviving_instance: the first other node that runs an instance. *)
Survivors == {k \in 1..Len(Nodes) : Nodes[k] # LocalNode /\ inst[Nodes[k]] = "running"}
Survivor  == Nodes[CHOOSE k \in Survivors : \A j \in Survivors : k <= j]

(* Mutant: any inventory that can be queried will do.                      *)
InventoryAny(state) == TRUE

(* require_inventory_state: lspatches finds the patch, or does not.  A     *)
(* torn home answers either way.                                           *)
Inventory(state) == home[LocalNode] = state \/ home[LocalNode] = "torn"

(* Mutant: an instance whose state is not reported passes for either.      *)
InstanceAny(state) == TRUE

(* require_bound_instance_state, wait_bound_instance.                      *)
InstanceIs(state) == inst[LocalNode] = state

(* Mutant: the survivor is found in every list of instances.               *)
OnlyHereNever(s) == FALSE

(* csv_has_instance, twice: the service runs here and not on the survivor. *)
OnlyHere(s) == LocalNode \in svc[s] /\ run.survivor \notin svc[s]

(* The condition of a checking step.                                       *)
Passes(op) ==
  CASE op = "bound"         -> LocalNode \in bound
    [] op = "drained"       -> drain[LocalNode] # NoDrain
    [] op \in {"running", "wait_running"} -> InstanceIs("running")
    [] op \in {"stopped", "wait_stopped"} -> InstanceIs("stopped")
    [] op \in {"old", "new"} -> Inventory(op)
    [] op = "services_up"   -> \A s \in Services : svc[s] # {}
    [] op = "services_away" ->
         \A s \in Services : svc[s] # {} /\ ~OnlyHere(s)
    [] op = "restored"      -> \A s \in drain[LocalNode].moved : LocalNode \in svc[s]
    [] op = "validated"     ->
         \A i \in 1..Len(Tasks) : Kind[Tasks[i].stage] = "validate" => status[i] = "succeeded"
    [] op = "all_running"   -> \A n \in Node : inst[n] = "running"
    [] op = "sql_done"      -> sql
    [] OTHER -> FALSE

(* mutation_exit_guard: armed when OPatch begins, disarmed by success only. *)
Armed == /\ Kind[Stage] = "opatch"
         /\ \E k \in 1..(run.pc - 1) : Program["opatch"][k] = "mark_unknown"

(* derive_outcome: the class of an attempt that failed.                    *)
FailureClass ==
  IF "binary-state-unknown" \in marks THEN "binary_state_unknown"
  ELSE IF "instance-down" \in marks THEN "database_down"
  ELSE IF "binary-state-known" \in marks
          \/ Kind[Stage] \in {"start", "validate", "datapatch", "final"}
    THEN "binary_state_known"
  ELSE "no_mutation"

-----------------------------------------------------------------------------
(* The supervisor claims the next task and starts the stage.               *)

Claim ==
  /\ plan = "running" /\ run = Stopped
  /\ status[Pos] = "pending"
  /\ status' = [status EXCEPT ![Pos] = "running"]
  /\ run' = [Stopped EXCEPT !.phase = "stage", !.pc = 1, !.supervised = TRUE]
  /\ marks' = {}
  /\ evidence' = NoEvidence
  /\ UNCHANGED <<oracle, files, retries, plan>>

-----------------------------------------------------------------------------
(* The stage *)

Check ==
  /\ run.phase = "stage" /\ run.pc <= Len(Program[Kind[Stage]])
  /\ Passes(Op)
  /\ Advance
  /\ UNCHANGED <<oracle, files, tasks, marks, evidence>>

(* A check fails, a query is unavailable, a command returns nonzero.       *)
Die ==
  /\ run.phase = "stage" /\ run.pc <= Len(Program[Kind[Stage]])
  /\ run' = [run EXCEPT !.phase = "ended"]
  /\ marks' = marks \cup (IF Armed THEN {"binary-state-unknown", "instance-down"} ELSE {})
                    \cup (IF Op = "wait_running" THEN {"instance-down"} ELSE {})
  /\ UNCHANGED <<oracle, files, tasks, evidence>>

StageSucceeds ==
  /\ run.phase = "stage" /\ run.pc > Len(Program[Kind[Stage]])
  /\ run' = [run EXCEPT !.phase = "ended", !.ok = TRUE]
  /\ UNCHANGED <<oracle, files, tasks, marks, evidence>>

(* Writes of the stage's own files.                                        *)
Bind ==
  /\ At("bind") /\ Advance
  /\ bound' = bound \cup {LocalNode}
  /\ UNCHANGED <<oracle, drain, tasks, marks, evidence>>

(* Mutant: the drain record does not name the services.                    *)
SaveDrainUnnamed ==
  /\ At("save_drain") /\ Advance
  /\ drain' = [drain EXCEPT ![LocalNode] = [moved |-> {}, survivor |-> run.survivor]]
  /\ UNCHANGED <<oracle, bound, tasks, marks, evidence>>

SaveDrain ==
  /\ At("save_drain") /\ Advance
  /\ drain' = [drain EXCEPT ![LocalNode] = [moved |-> run.moved, survivor |-> run.survivor]]
  /\ UNCHANGED <<oracle, bound, tasks, marks, evidence>>

Mark ==
  /\ \/ At("mark_down")    /\ marks' = marks \cup {"instance-down"}
     \/ At("unmark_down")  /\ marks' = marks \ {"instance-down"}
     \/ At("mark_unknown") /\ marks' = marks \cup {"binary-state-unknown"}
     \/ At("mark_known")   /\ marks' = (marks \ {"binary-state-unknown"})
                                         \cup {"binary-state-known"}
  /\ Advance
  /\ UNCHANGED <<oracle, files, tasks, evidence>>

FindSurvivor ==
  /\ At("survivor") /\ Survivors # {}
  /\ run' = [run EXCEPT !.pc = @ + 1, !.survivor = Survivor]
  /\ UNCHANGED <<oracle, files, tasks, marks, evidence>>

(* drain_services: one relocation per service that runs here and not on    *)
(* the survivor.                                                           *)
ToMove == {s \in Services : OnlyHere(s)}

Move(s, from, to) == svc' = [svc EXCEPT ![s] = (@ \ {from}) \cup {to}]

DrainService(s) ==
  /\ At("drain") /\ s \in ToMove
  /\ Move(s, LocalNode, run.survivor)
  /\ run' = [run EXCEPT !.moved = @ \cup {s}]
  /\ UNCHANGED <<inst, home, sql, files, tasks, marks, evidence>>

DrainDone ==
  /\ At("drain") /\ ToMove = {} /\ Advance
  /\ UNCHANGED <<oracle, files, tasks, marks, evidence>>

(* restore_drained_services: the services the drain record names.          *)
ToRestore == {s \in drain[LocalNode].moved : drain[LocalNode].survivor \in svc[s]
                                          /\ LocalNode \notin svc[s]}
RestoreService(s) ==
  /\ At("restore") /\ s \in ToRestore
  /\ Move(s, drain[LocalNode].survivor, LocalNode)
  /\ UNCHANGED <<inst, home, sql, files, tasks, run, marks, evidence>>

RestoreDone ==
  /\ At("restore") /\ ToRestore = {} /\ Advance
  /\ UNCHANGED <<oracle, files, tasks, marks, evidence>>

(* srvctl, opatch and datapatch.  A zero exit code of srvctl may come with *)
(* the instance as it was, and one of opatch with the inventory as it was. *)
StopInstance ==
  /\ At("stop") /\ Advance
  /\ \/ /\ inst' = [inst EXCEPT ![LocalNode] = "stopped"]
        /\ svc' = [s \in Services |-> svc[s] \ {LocalNode}]
     \/ UNCHANGED <<inst, svc>>
  /\ UNCHANGED <<home, sql, files, tasks, marks, evidence>>

StartInstance ==
  /\ At("start") /\ Advance
  /\ \E i \in {"running", "stopped"} : inst' = [inst EXCEPT ![LocalNode] = i]
  /\ UNCHANGED <<home, svc, sql, files, tasks, marks, evidence>>

OPatch ==
  /\ At("opatch") /\ Advance
  /\ \E h \in {"old", "new"} : home' = [home EXCEPT ![LocalNode] = h]
  /\ UNCHANGED <<inst, svc, sql, files, tasks, marks, evidence>>

(* Mutant: the exit guard is gone and the unknown marker is set after a    *)
(* successful run only.                                                    *)
OPatchFailsSilently ==
  /\ At("opatch")
  /\ \E h \in {"old", "new", "torn"} : home' = [home EXCEPT ![LocalNode] = h]
  /\ run' = [run EXCEPT !.phase = "ended"]
  /\ marks' = marks \ {"binary-state-unknown"}
  /\ UNCHANGED <<inst, svc, sql, files, tasks, evidence>>

OPatchFails ==
  /\ At("opatch")
  /\ \E h \in {"old", "new", "torn"} : home' = [home EXCEPT ![LocalNode] = h]
  /\ run' = [run EXCEPT !.phase = "ended"]
  /\ marks' = marks \cup {"binary-state-unknown", "instance-down"}
  /\ UNCHANGED <<inst, svc, sql, files, tasks, evidence>>

Datapatch ==
  /\ At("datapatch") /\ Advance
  /\ \E done \in BOOLEAN : sql' = (sql \/ done)
  /\ UNCHANGED <<inst, home, svc, files, tasks, marks, evidence>>

StageStep ==
  \/ Check \/ Die \/ StageSucceeds
  \/ Bind \/ SaveDrain \/ Mark \/ FindSurvivor
  \/ \E s \in Services : DrainService(s) \/ RestoreService(s)
  \/ DrainDone \/ RestoreDone
  \/ StopInstance \/ StartInstance \/ OPatch \/ OPatchFails \/ Datapatch

-----------------------------------------------------------------------------
(* Heartbeat, supervisor and controller *)

(* heartbeat: a renewal is refused.                                        *)
HeartbeatFails ==
  /\ run.phase = "stage" /\ "heartbeat-failed" \notin marks
  /\ marks' = marks \cup {"heartbeat-failed"}
  /\ UNCHANGED <<oracle, files, tasks, run, evidence>>

(* The supervisor dies, or its completion is refused; the stage and its    *)
(* heartbeat go on.                                                        *)
SupervisorDies ==
  /\ run.phase # "none" /\ run.supervised
  /\ run' = [run EXCEPT !.supervised = FALSE]
  /\ UNCHANGED <<oracle, files, tasks, marks, evidence>>

Succeed ==
  /\ status' = [status EXCEPT ![Pos] = "succeeded"]
  /\ plan' = IF Unfinished = {Pos} THEN "succeeded" ELSE plan
  /\ UNCHANGED retries

Fail ==
  /\ status' = [status EXCEPT ![Pos] = "failed"]
  /\ plan' = "paused"
  /\ UNCHANGED retries

(* Mutant: a lost heartbeat is forgotten when the stage ends well.         *)
ReportForgivingHeartbeat ==
  /\ run.phase = "ended" /\ run.supervised /\ status[Pos] = "running"
  /\ IF run.ok
       THEN evidence' = [post |-> "passed", class |-> SuccessClass(Stage)] /\ Succeed
       ELSE evidence' = [post |-> "failed", class |-> FailureClass] /\ Fail
  /\ run' = Stopped
  /\ UNCHANGED <<oracle, files, marks>>

(* Mutant: an attempt whose lease was lost is left to the controller.      *)
ReportUnlessLost ==
  /\ run.phase = "ended" /\ run.supervised /\ status[Pos] = "running"
  /\ "heartbeat-failed" \notin marks
  /\ IF run.ok
       THEN evidence' = [post |-> "passed", class |-> SuccessClass(Stage)] /\ Succeed
       ELSE /\ evidence' = [post |-> IF "binary-state-unknown" \in marks THEN "unknown"
                                                                         ELSE "failed",
                            class |-> FailureClass]
            /\ Fail
  /\ run' = Stopped
  /\ UNCHANGED <<oracle, files, marks>>

(* emit_evidence and complete.                                             *)
Report ==
  /\ run.phase = "ended" /\ run.supervised /\ status[Pos] = "running"
  /\ IF "heartbeat-failed" \in marks
       THEN evidence' = [post |-> "unknown", class |-> FailureClass] /\ Fail
     ELSE IF run.ok
       THEN evidence' = [post |-> "passed", class |-> SuccessClass(Stage)] /\ Succeed
     ELSE /\ evidence' = [post |-> IF "binary-state-unknown" \in marks THEN "unknown"
                                                                       ELSE "failed",
                          class |-> FailureClass]
          /\ Fail
  /\ run' = Stopped
  /\ UNCHANGED <<oracle, files, marks>>

(* reconcile, when an operator calls it: the lease has expired, because    *)
(* nobody renewed it, and the plan pauses.                                 *)
LeaseExpires ==
  /\ plan # "succeeded" /\ status[Pos] = "running"
  /\ run.phase = "ended" \/ "heartbeat-failed" \in marks
  /\ status' = [status EXCEPT ![Pos] = "unknown"]
  /\ plan' = "paused"
  /\ UNCHANGED <<oracle, files, retries, run, marks, evidence>>

(* The stage ended after its lease did, or nobody waits for it.            *)
Abandon ==
  /\ run.phase = "ended" /\ status[Pos] # "running"
  /\ run' = Stopped
  /\ UNCHANGED <<oracle, files, tasks, marks, evidence>>

(* Mutant: a failed attempt may be repeated whatever it reported.          *)
MayRetryAny == TRUE
MayRetry == SafeToRetry(Stage, evidence)

Retry ==
  /\ plan = "paused" /\ status[Pos] = "failed" /\ MayRetry
  /\ retries < MaxRetries
  /\ status' = [status EXCEPT ![Pos] = "pending"]
  /\ retries' = retries + 1
  /\ plan' = "running"
  /\ UNCHANGED <<oracle, files, run, marks, evidence>>

-----------------------------------------------------------------------------
Init ==
  /\ inst = [n \in Node |-> "running"]
  /\ home = [n \in Node |-> "old"]
  /\ svc = Placement
  /\ sql = FALSE
  /\ bound = {}
  /\ drain = [n \in Node |-> NoDrain]
  /\ status = [i \in 1..Len(Tasks) |-> "pending"]
  /\ retries = 0
  /\ plan = "running"
  /\ run = Stopped
  /\ marks = {}
  /\ evidence = NoEvidence

Next ==
  /\ plan # "succeeded"
  /\ \/ Claim \/ StageStep \/ HeartbeatFails \/ SupervisorDies
     \/ Report \/ LeaseExpires \/ Abandon \/ Retry

Spec == Init /\ [][Next]_vars

(* A started stage runs to its end and its supervisor, while it lives,     *)
(* reports it.  Nothing makes an operator claim, reconcile or retry.       *)
FairSpec == Spec /\ WF_vars(StageStep) /\ WF_vars(Report)
=============================================================================
