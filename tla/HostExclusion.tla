---------------------------- MODULE HostExclusion ----------------------------
(***************************************************************************)
(* What the target-reservation registry promises, whatever its files look  *)
(* like: a plan whose work is unfinished has its hosts to itself, and      *)
(* finished work never starts again.                                       *)
(***************************************************************************)
CONSTANTS Plans, HostsOf

VARIABLES unfinished, finished

Init == unfinished = {} /\ finished = {}

Start(p) ==
  /\ p \notin unfinished \cup finished
  /\ \A q \in unfinished : HostsOf[q] \cap HostsOf[p] = {}
  /\ unfinished' = unfinished \cup {p}
  /\ UNCHANGED finished

Finish(p) ==
  /\ p \in unfinished
  /\ unfinished' = unfinished \ {p}
  /\ finished' = finished \cup {p}

Next == \E p \in Plans : Start(p) \/ Finish(p)

Spec == Init /\ [][Next]_<<unfinished, finished>>
=============================================================================
