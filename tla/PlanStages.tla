----------------------------- MODULE PlanStages -----------------------------
(***************************************************************************)
(* The typed work a sealed plan turns into: for each adapter, the stages   *)
(* dispatch writes and their order (bin/opu-patch-plan, dispatch), the     *)
(* outcome class a successful stage has to report (verify_execution_evi-   *)
(* dence) and the stages retry-task accepts again although the binary      *)
(* state has already changed (retry_task).                                 *)
(***************************************************************************)
EXTENDS Naturals, Sequences

(* The pseudo node of the tasks that run wherever the coordinator is.      *)
Local == "local"

(* Stages written once per node of the plan, in the order of the nodes.    *)
NodeStages ==
  [ database_single_instance_opatch |-> <<"precheck", "apply", "validate">>,
    database_single_instance_opatch_rollback |->
      <<"rollback_precheck", "rollback_binary", "rollback_binary_validate">>,
    database_rolling_opatch |->
      <<"rac_precheck", "rac_drain", "rac_stop", "rac_opatch_apply",
        "rac_start", "rac_node_validate">>,
    database_rac_opatch_rollback |->
      <<"rac_rollback_precheck", "rac_rollback_drain", "rac_rollback_stop",
        "rac_opatch_rollback", "rac_rollback_start",
        "rac_rollback_node_validate">>,
    grid_rolling_opatch |->
      <<"grid_precheck", "grid_rootcrs_prepatch", "grid_opatch_apply",
        "grid_rootadd_rdbms", "grid_rootcrs_postpatch",
        "grid_node_validate">>,
    grid_rolling_opatch_rollback |->
      <<"grid_rollback_precheck", "grid_rootcrs_prepatch",
        "grid_opatch_rollback", "grid_rootcrs_postpatch",
        "grid_rollback_node_validate">>,
    grid_rolling_opatchauto |->
      <<"opatchauto_precheck", "opatchauto_apply",
        "opatchauto_resume_check", "opatchauto_node_validate">>,
    grid_rolling_opatchauto_rollback |->
      <<"opatchauto_rollback_precheck", "opatchauto_rollback",
        "opatchauto_rollback_node_validate">>,
    database_ojvm_opatch |->
      <<"ojvm_precheck", "ojvm_stop_all", "ojvm_binary_apply",
        "ojvm_start_upgrade">>,
    database_ojvm_opatch_rollback |->
      <<"ojvm_rollback_precheck", "ojvm_rollback_stop_all",
        "ojvm_rollback_binary", "ojvm_rollback_start_upgrade">>,
    database_out_of_place_switch |->
      <<"oop_precheck", "oop_clone_home", "oop_patch_clone",
        "oop_validate_clone", "oop_switch_home">>,
    database_out_of_place_switchback |->
      <<"oop_switchback_precheck", "oop_switch_back">> ]

Adapters == DOMAIN NodeStages

(* Adapters whose dispatch branch takes nodes[0] and never loops.          *)
FirstNodeOnly ==
  { "database_single_instance_opatch_rollback", "database_ojvm_opatch",
    "database_ojvm_opatch_rollback", "database_out_of_place_switch",
    "database_out_of_place_switchback" }

RollingAdapters ==
  { "database_rolling_opatch", "database_rac_opatch_rollback",
    "grid_rolling_opatch", "grid_rolling_opatch_rollback",
    "grid_rolling_opatchauto", "grid_rolling_opatchauto_rollback" }

On(node, stages) == [k \in 1..Len(stages) |-> [stage |-> stages[k], node |-> node]]

(* Tasks written after the last node: on the coordinator for a cluster,    *)
(* and on "local" for a standalone database.                               *)
ClosingTasks(adapter, node, coordinator) ==
  CASE adapter = "database_single_instance_opatch" ->
         On(Local, <<"datapatch", "final_validate">>)
    [] adapter = "database_single_instance_opatch_rollback" ->
         On(Local, <<"rollback_datapatch", "rollback_final_validate">>)
    [] adapter = "database_rolling_opatch" ->
         On(coordinator, <<"cluster_datapatch", "cluster_final_validate">>)
    [] adapter = "database_rac_opatch_rollback" ->
         On(coordinator, <<"rac_rollback_datapatch", "rac_rollback_final_validate">>)
    [] adapter = "grid_rolling_opatch" ->
         On(coordinator, <<"grid_cluster_final_validate">>)
    [] adapter = "grid_rolling_opatch_rollback" ->
         On(coordinator, <<"grid_rollback_cluster_final_validate">>)
    [] adapter = "grid_rolling_opatchauto" ->
         On(coordinator, <<"opatchauto_cluster_final_validate">>)
    [] adapter = "grid_rolling_opatchauto_rollback" ->
         On(coordinator, <<"opatchauto_rollback_cluster_final_validate">>)
    [] adapter = "database_ojvm_opatch" ->
         On(Local, <<"ojvm_datapatch_upgrade">>) \o On(node, <<"ojvm_restart_normal">>)
           \o On(Local, <<"ojvm_final_validate">>)
    [] adapter = "database_ojvm_opatch_rollback" ->
         On(Local, <<"ojvm_rollback_datapatch">>) \o On(node, <<"ojvm_rollback_restart_normal">>)
           \o On(Local, <<"ojvm_rollback_final_validate">>)
    [] adapter = "database_out_of_place_switch" ->
         On(Local, <<"oop_datapatch", "oop_final_validate">>)
    [] adapter = "database_out_of_place_switchback" ->
         On(Local, <<"oop_switchback_datapatch", "oop_switchback_final_validate">>)

(* The globally serial task list: node by node, then the closing tasks.    *)
TaskList(adapter, nodes, coordinator) ==
  LET stages == NodeStages[adapter]
      hosts  == IF adapter \in FirstNodeOnly THEN <<nodes[1]>> ELSE nodes
      width  == Len(stages)
      perNode == [i \in 1..(width * Len(hosts)) |->
                    [stage |-> stages[((i - 1) % width) + 1],
                     node  |-> hosts[((i - 1) \div width) + 1]]]
  IN  perNode \o ClosingTasks(adapter, nodes[1], coordinator)

AllStages ==
  UNION { {t.stage : t \in {TaskList(a, <<"n">>, "n")[i] :
             i \in 1..Len(TaskList(a, <<"n">>, "n"))}} : a \in Adapters }

PrecheckStages ==
  { "precheck", "rollback_precheck", "rac_precheck", "rac_rollback_precheck",
    "grid_precheck", "grid_rollback_precheck", "opatchauto_precheck",
    "opatchauto_rollback_precheck", "ojvm_precheck", "ojvm_rollback_precheck",
    "oop_precheck", "oop_switchback_precheck" }

(* The outcome class a success of the stage has to report.                 *)
SuccessClass(stage) ==
  CASE stage \in PrecheckStages -> "no_mutation"
    [] stage \in {"rac_drain", "rac_rollback_drain"} -> "service_state_known"
    [] stage \in {"rac_stop", "rac_rollback_stop", "ojvm_stop_all",
                  "ojvm_rollback_stop_all"} -> "database_down"
    [] stage = "grid_rootcrs_prepatch" -> "grid_quiesced_known"
    [] stage = "grid_rootcrs_postpatch" -> "grid_stack_restored"
    [] OTHER -> "binary_state_known"

(* Stages retry-task lets run again after a failure that left the binary   *)
(* state known, as the controller spells them.                             *)
RepeatableStages ==
  { "validate", "datapatch", "final_validate", "rollback_binary_validate",
    "rollback_datapatch", "rollback_final_validate",
    "rac_node_validate", "cluster_datapatch", "cluster_final_validate",
    "rac_rollback_node_validate", "cluster_rollback_datapatch",
    "cluster_rollback_final_validate",
    "grid_node_validate", "grid_cluster_final_validate",
    "grid_rollback_node_validate", "grid_rollback_cluster_final_validate",
    "opatchauto_node_validate", "opatchauto_cluster_final_validate",
    "opatchauto_rollback_node_validate",
    "opatchauto_rollback_cluster_final_validate",
    "ojvm_datapatch", "ojvm_final_validate", "ojvm_rollback_datapatch",
    "ojvm_rollback_final_validate",
    "oop_validate", "oop_datapatch", "oop_final_validate",
    "oop_switchback_validate", "oop_switchback_datapatch",
    "oop_switchback_final_validate" }

(* A failure report permits another attempt of the stage.                  *)
SafeToRetry(stage, report) ==
  /\ report.post = "failed"
  /\ \/ report.class = "no_mutation"
     \/ report.class = "binary_state_known" /\ stage \in RepeatableStages
=============================================================================
