--------------------------- MODULE MCLiveExecute ---------------------------
(***************************************************************************)
(* Instances of live execution for TLC.                                    *)
(***************************************************************************)
EXTENDS LiveExecuteProperties

(* A task on each of two hosts.                                            *)
TwoTasks == <<"t1", "t2">>
OnTwo    == [t \in {"t1", "t2"} |-> IF t = "t1" THEN "n1" ELSE "n2"]
=============================================================================
