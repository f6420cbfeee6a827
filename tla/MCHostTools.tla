---------------------------- MODULE MCHostTools ----------------------------
(***************************************************************************)
(* Instances of the tool installation for TLC.                             *)
(***************************************************************************)
EXTENDS HostToolsProperties

OneNode == <<"n1">>
DirectoryAndModules == <<"bin", "webapp">>

(* Two threads of one server, and another server.                          *)
TwoAndOne == [t \in {"t1", "t2", "t3"} |-> IF t = "t3" THEN "c2" ELSE "c1"]
=============================================================================
