---------------------------- MODULE MCRacRolling ----------------------------
(***************************************************************************)
(* Instances of the rolling RAC patch for TLC.                             *)
(***************************************************************************)
EXTENDS RacRollingProperties

TwoNodes   == <<"n1", "n2">>
ThreeNodes == <<"n1", "n2", "n3">>
TwoServices == {"s1", "s2"}
OneService  == {"s1"}

OnFirst == [s \in OneService |-> {"n1"}]

(* One service on each node, so that one that is not moved back shows.     *)
OneEach == [s \in TwoServices |-> IF s = "s1" THEN {"n1"} ELSE {"n2"}]
=============================================================================
