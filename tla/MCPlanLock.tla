----------------------------- MODULE MCPlanLock -----------------------------
(***************************************************************************)
(* An instance of the plan lock for TLC.                                   *)
(***************************************************************************)
EXTENDS PlanLockProperties

ThreeProcs == {"p1", "p2", "p3"}
=============================================================================
