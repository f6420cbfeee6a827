----------------------------- MODULE MCPatchPlan -----------------------------
(***************************************************************************)
(* Instances of the plan controller for TLC.                               *)
(***************************************************************************)
EXTENDS PatchPlanProperties

(* What failing stages report: nothing touched, a known binary state, and  *)
(* a known binary state whose outcome a lost heartbeat put in doubt.       *)
SomeFailures ==
  { [post |-> "failed",  class |-> "no_mutation"],
    [post |-> "failed",  class |-> "binary_state_known"],
    [post |-> "unknown", class |-> "binary_state_known"] }
OneFailure == { [post |-> "failed", class |-> "no_mutation"] }

(* Three plans of which the second overlaps both others.  They have one    *)
(* task each: the registry never looks at tasks.                           *)
RivalPlans    == {"left", "both", "right"}
RivalHosts    == {"h1", "h2"}
RivalHostsOf  == [left |-> {"h1"}, both |-> {"h1", "h2"}, right |-> {"h2"}]
RivalStages   == [p \in RivalPlans |-> <<"validate">>]
RivalSource   == [p \in RivalPlans |-> "none"]
RivalAsker    == [p \in RivalPlans |-> "ann"]
RivalStart    == [p \in RivalPlans |-> 0]
RivalEnd      == [p \in RivalPlans |-> 2]
RivalReady    == [p \in RivalPlans |-> 1]

(* One standalone plan with the tasks dispatch really writes for it.       *)
SoloPlans     == {"apply"}
SoloHosts     == {"h1"}
SoloHostsOf   == [apply |-> {"h1"}]
StagesFor(adapter) ==
  LET l == TaskList(adapter, <<"h1">>, "h1") IN [i \in 1..Len(l) |-> l[i].stage]
SoloStages    == [apply |-> StagesFor("database_single_instance_opatch")]
(* Its last three tasks alone, for runs in which commands die.             *)
LastStages    == [apply |-> SubSeq(SoloStages.apply, 3, 5)]
ShortStages   == [apply |-> SubSeq(SoloStages.apply, 4, 5)]
SoloSource    == [apply |-> "none"]
SoloAsker     == [apply |-> "ann"]
SoloStart     == [apply |-> 1]
SoloEnd       == [apply |-> 4]
SoloReady     == [apply |-> 2]

(* An apply plan and the rollback plan derived from its success.           *)
PairPlans     == {"apply", "undo"}
PairHostsOf   == [p \in PairPlans |-> {"h1"}]
PairStages    == [apply |-> <<"apply", "final_validate">>, undo |-> <<"rollback_precheck">>]
PairSource    == [apply |-> "none", undo |-> "apply"]
PairLineage   == {"undo"}
PairAsker     == [apply |-> "ann", undo |-> "ann"]
PairStart     == [p \in PairPlans |-> 0]
PairEnd       == [p \in PairPlans |-> 2]
PairReady     == [p \in PairPlans |-> 1]
=============================================================================
