--------------------------- MODULE RollingUpgrade ---------------------------
(***************************************************************************)
(* What a rolling patch promises, whatever its stages, reports and retries *)
(* look like: node after node, in the plan's order, an instance is taken   *)
(* down while every other one serves, its home is patched while it is      *)
(* down, and it comes up from a home that is patched whole; the SQL part   *)
(* follows when every node is done.  A home that a failed patch tears ends *)
(* the upgrade there.                                                      *)
(***************************************************************************)
EXTENDS Naturals, Sequences

CONSTANT Nodes      \* nodes of the cluster in patching order

VARIABLES inst, home, sql

Places == 1..Len(Nodes)
Cluster == {Nodes[k] : k \in Places}

AllUp == \A n \in Cluster : inst[n] = "running"

Init ==
  /\ inst = [n \in Cluster |-> "running"]
  /\ home = [n \in Cluster |-> "old"]
  /\ sql = FALSE

TakeDown(k) ==
  /\ AllUp
  /\ \A j \in 1..(k - 1) : home[Nodes[j]] = "new"
  /\ \A j \in k..Len(Nodes) : home[Nodes[j]] = "old"
  /\ inst' = [inst EXCEPT ![Nodes[k]] = "stopped"]
  /\ UNCHANGED <<home, sql>>

Patch(k) ==
  /\ inst[Nodes[k]] = "stopped" /\ home[Nodes[k]] = "old"
  /\ \E h \in {"new", "torn"} : home' = [home EXCEPT ![Nodes[k]] = h]
  /\ UNCHANGED <<inst, sql>>

BringUp(k) ==
  /\ inst[Nodes[k]] = "stopped" /\ home[Nodes[k]] = "new"
  /\ inst' = [inst EXCEPT ![Nodes[k]] = "running"]
  /\ UNCHANGED <<home, sql>>

PatchSql ==
  /\ AllUp /\ \A n \in Cluster : home[n] = "new"
  /\ sql' = TRUE
  /\ UNCHANGED <<inst, home>>

Next == (\E k \in Places : TakeDown(k) \/ Patch(k) \/ BringUp(k)) \/ PatchSql

Spec == Init /\ [][Next]_<<inst, home, sql>>
=============================================================================
