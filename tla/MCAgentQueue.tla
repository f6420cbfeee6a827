---------------------------- MODULE MCAgentQueue ----------------------------
(***************************************************************************)
(* Instances of the pull queue for TLC.                                    *)
(***************************************************************************)
EXTENDS AgentQueueProperties

OneJob  == <<"p1_1">>
(* Two tasks of one plan on two nodes, and a task of another plan.         *)
ThreeJobs == <<"p1_1", "p1_2", "p2_1">>

Plans == [j \in Job |-> IF j = "p2_1" THEN "p2" ELSE "p1"]
Nodes == [j \in Job |-> IF j = "p1_2" THEN "n2" ELSE "n1"]

OneAgent  == {"a1"}
TwoAgents == {"a1", "a2"}
SameNode  == [a \in Agents |-> "n1"]
OneEach   == [a \in Agents |-> IF a = "a1" THEN "n1" ELSE "n2"]

OneOperator  == {"o1"}
TwoOperators == {"o1", "o2"}
=============================================================================
