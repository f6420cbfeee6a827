-------------------------- MODULE RacRollingProofs --------------------------
(***************************************************************************)
(* Proofs about a rolling RAC patch and its rollback, for every number of  *)
(* nodes, every set of services and every placement: the cluster serves    *)
(* throughout, SQL changes come last, an instance starts only from a       *)
(* patched home, reports are honest and services return to their node.     *)
(*                                                                         *)
(* The argument has three parts: the order of the task list (six stages    *)
(* per node, then two for the cluster), the steps of a stage's program,    *)
(* and RollingInv, which says what holds while the plan is at a task.      *)
(***************************************************************************)
EXTENDS RacRollingProperties, SequenceTheorems, FiniteSetTheorems, TLAPS

USE RollingAssumption

-----------------------------------------------------------------------------
(* The task list *)

(* The kinds of a node's stages, in their order.                           *)
NodeKinds == <<"precheck", "drain", "stop", "opatch", "start", "validate">>

(* The stages of the two adapters and their kinds.                         *)
LEMMA StagesOfAdapter ==
  /\ Adapter \notin FirstNodeOnly
  /\ Len(NodeStages[Adapter]) = 6
  /\ \A k \in 1..6 : /\ NodeStages[Adapter][k] \in DOMAIN Kind
                     /\ Kind[NodeStages[Adapter][k]] = NodeKinds[k]
<1>1. CASE Adapter = "database_rolling_opatch"
  BY <1>1 DEF FirstNodeOnly, NodeStages, NodeKinds, Kind
<1>2. CASE Adapter = "database_rac_opatch_rollback"
  BY <1>2 DEF FirstNodeOnly, NodeStages, NodeKinds, Kind
<1> QED BY <1>1, <1>2

TaskType == [stage : DOMAIN Kind, node : Node]

(* A function on 1..n is a sequence of length n.                           *)
LEMMA FunctionIsSequence ==
  ASSUME NEW S, NEW n \in Nat, NEW f \in [1..n -> S]
  PROVE  f \in Seq(S) /\ Len(f) = n
<1>1. f \in Seq(S)
  OBVIOUS
<1>2. DOMAIN f = 1..n /\ DOMAIN f = 1..Len(f) /\ Len(f) \in Nat
  BY <1>1, LenProperties
<1> QED BY <1>1, <1>2

(* The closing tasks are the two of the cluster, on the coordinator.       *)
LEMMA ClosingOfAdapter ==
  ASSUME NEW n
  PROVE  LET c == ClosingTasks(Adapter, n, Coordinator)
         IN /\ c \in Seq(TaskType)
            /\ Len(c) = 2
            /\ Kind[c[1].stage] = "datapatch" /\ Kind[c[2].stage] = "final"
            /\ c[1].node = Coordinator /\ c[2].node = Coordinator
<1>1. CASE Adapter = "database_rolling_opatch"
  <2> DEFINE st == <<"cluster_datapatch", "cluster_final_validate">>
             c == On(Coordinator, st)
  <2>1. ClosingTasks(Adapter, n, Coordinator) = c
    BY <1>1 DEF ClosingTasks
  <2>2. c = [k \in 1..2 |-> [stage |-> st[k], node |-> Coordinator]]
    BY DEF On
  <2>3. c[1] = [stage |-> "cluster_datapatch", node |-> Coordinator]
    BY <2>2
  <2>4. c[2] = [stage |-> "cluster_final_validate", node |-> Coordinator]
    BY <2>2
  <2>5. c \in [1..2 -> TaskType]
    BY <2>2 DEF Kind, TaskType
  <2>6. c \in Seq(TaskType) /\ Len(c) = 2
    BY <2>5, FunctionIsSequence
  <2> QED BY <2>1, <2>3, <2>4, <2>6 DEF Kind
<1>2. CASE Adapter = "database_rac_opatch_rollback"
  <2> DEFINE st == <<"rac_rollback_datapatch", "rac_rollback_final_validate">>
             c == On(Coordinator, st)
  <2>1. ClosingTasks(Adapter, n, Coordinator) = c
    BY <1>2 DEF ClosingTasks
  <2>2. c = [k \in 1..2 |-> [stage |-> st[k], node |-> Coordinator]]
    BY DEF On
  <2>3. c[1] = [stage |-> "rac_rollback_datapatch", node |-> Coordinator]
    BY <2>2
  <2>4. c[2] = [stage |-> "rac_rollback_final_validate", node |-> Coordinator]
    BY <2>2
  <2>5. c \in [1..2 -> TaskType]
    BY <2>2 DEF Kind, TaskType
  <2>6. c \in Seq(TaskType) /\ Len(c) = 2
    BY ZenonT(60), <2>5, FunctionIsSequence
  <2> QED BY <2>1, <2>3, <2>4, <2>6 DEF Kind
<1> QED BY <1>1, <1>2
Width == 6

(* The tasks of the nodes, before the closing tasks.                       *)
PerNode == [i \in 1..(Width * Len(Nodes)) |->
              [stage |-> NodeStages[Adapter][((i - 1) % Width) + 1],
               node  |-> Nodes[((i - 1) \div Width) + 1]]]

LEMMA NodesAreNodes ==
  /\ Len(Nodes) \in Nat /\ Len(Nodes) >= 2
  /\ \A g \in 1..Len(Nodes) : Nodes[g] \in Node
BY ZenonT(60), LenProperties DEF Node

(* The g-th node's k-th task.                                              *)
LEMMA PlaceInGroup ==
  ASSUME NEW g \in 0..(Len(Nodes) - 1), NEW k \in 1..6
  PROVE  /\ 6 * g + k \in 1..(Width * Len(Nodes))
         /\ ((6 * g + k) - 1) % Width = k - 1
         /\ ((6 * g + k) - 1) \div Width = g
BY NodesAreNodes DEF Width

(* And every position before the closing tasks is one of these.            *)
LEMMA GroupOfPlace ==
  ASSUME NEW i \in 1..(Width * Len(Nodes))
  PROVE  \E g \in 0..(Len(Nodes) - 1), k \in 1..6 : i = 6 * g + k
<1> DEFINE g == (i - 1) \div 6
           k == ((i - 1) % 6) + 1
<1>1. g \in 0..(Len(Nodes) - 1) /\ k \in 1..6 /\ i = 6 * g + k
  BY NodesAreNodes DEF Width
<1> QED BY <1>1

LEMMA PerNodeIs ==
  /\ PerNode \in Seq(TaskType)
  /\ Len(PerNode) = Width * Len(Nodes)
  /\ \A g \in 0..(Len(Nodes) - 1), k \in 1..6 :
       /\ PerNode[6 * g + k].stage = NodeStages[Adapter][k]
       /\ PerNode[6 * g + k].node = Nodes[g + 1]
<1> DEFINE W == Width * Len(Nodes)
<1>1. W \in Nat
  BY NodesAreNodes DEF Width
<1>2. \A g \in 0..(Len(Nodes) - 1), k \in 1..6 :
        PerNode[6 * g + k] = [stage |-> NodeStages[Adapter][k], node |-> Nodes[g + 1]]
  <2> TAKE g \in 0..(Len(Nodes) - 1), k \in 1..6
  <2> DEFINE i == 6 * g + k
  <2>1. i \in 1..W /\ ((i - 1) % Width) + 1 = k /\ ((i - 1) \div Width) + 1 = g + 1
    <3>1. i \in 1..W /\ (i - 1) % Width = k - 1 /\ (i - 1) \div Width = g
      BY PlaceInGroup
    <3> HIDE DEF i, W
    <3> QED BY <3>1
  <2> HIDE DEF i
  <2>2. PerNode[i] = [stage |-> NodeStages[Adapter][((i - 1) % Width) + 1],
                      node  |-> Nodes[((i - 1) \div Width) + 1]]
    BY <2>1 DEF PerNode
  <2>3. PerNode[i] = [stage |-> NodeStages[Adapter][k], node |-> Nodes[g + 1]]
    BY <2>1, <2>2
  <2> QED BY <2>3 DEF i
<1>3. \A i \in 1..W : PerNode[i] \in TaskType
  <2> TAKE i \in 1..W
  <2>1. PICK g \in 0..(Len(Nodes) - 1), k \in 1..6 : i = 6 * g + k
    BY GroupOfPlace
  <2>2. NodeStages[Adapter][k] \in DOMAIN Kind
    BY StagesOfAdapter
  <2>3. Nodes[g + 1] \in Node
    BY NodesAreNodes
  <2>4. PerNode[i] = [stage |-> NodeStages[Adapter][k], node |-> Nodes[g + 1]]
    BY <1>2, <2>1
  <2> QED BY <2>2, <2>3, <2>4 DEF TaskType
<1>4. PerNode \in [1..W -> TaskType]
  <2>1. PerNode = [i \in 1..W |-> PerNode[i]]
    BY DEF PerNode
  <2> QED BY <1>3, <2>1
<1> HIDE DEF W
<1>5. PerNode \in Seq(TaskType) /\ Len(PerNode) = W
  BY <1>1, <1>4, FunctionIsSequence
<1>6. \A g \in 0..(Len(Nodes) - 1), k \in 1..6 :
        /\ PerNode[6 * g + k].stage = NodeStages[Adapter][k]
        /\ PerNode[6 * g + k].node = Nodes[g + 1]
  <2> TAKE g \in 0..(Len(Nodes) - 1), k \in 1..6
  <2>1. PerNode[6 * g + k] = [stage |-> NodeStages[Adapter][k], node |-> Nodes[g + 1]]
    BY <1>2
  <2> QED BY <2>1
<1> QED BY <1>5, <1>6 DEF W

(* The task list of the plan: its length, and what stands where.           *)
LEMMA TasksAre ==
  /\ Tasks \in Seq(TaskType)
  /\ Count = 6 * Len(Nodes) + 2
  /\ \A g \in 0..(Len(Nodes) - 1), k \in 1..6 :
       KindOf(6 * g + k) = NodeKinds[k] /\ NodeOf(6 * g + k) = Nodes[g + 1]
  /\ KindOf(Count - 1) = "datapatch" /\ KindOf(Count) = "final"
  /\ NodeOf(Count - 1) = Coordinator /\ NodeOf(Count) = Coordinator
<1> DEFINE c == ClosingTasks(Adapter, Nodes[1], Coordinator)
           W == Width * Len(Nodes)
<1>1. Tasks = PerNode \o c
  BY StagesOfAdapter DEF Tasks, TaskList, PerNode, Width
<1>2. /\ c \in Seq(TaskType) /\ Len(c) = 2
      /\ Kind[c[1].stage] = "datapatch" /\ Kind[c[2].stage] = "final"
      /\ c[1].node = Coordinator /\ c[2].node = Coordinator
  BY ClosingOfAdapter
<1>3. PerNode \in Seq(TaskType) /\ Len(PerNode) = W /\ W \in Nat /\ W = 6 * Len(Nodes)
  BY PerNodeIs, NodesAreNodes DEF Width
<1> HIDE DEF c, W
<1>4. /\ PerNode \o c \in Seq(TaskType)
      /\ Len(PerNode \o c) = W + 2
      /\ \A i \in 1..(W + 2) :
           (PerNode \o c)[i] = IF i <= W THEN PerNode[i] ELSE c[i - W]
  <2>1. /\ PerNode \o c \in Seq(TaskType)
        /\ Len(PerNode \o c) = Len(PerNode) + Len(c)
        /\ \A i \in 1..(Len(PerNode) + Len(c)) :
             (PerNode \o c)[i] = IF i <= Len(PerNode) THEN PerNode[i] ELSE c[i - Len(PerNode)]
    <3>1. PerNode \in Seq(TaskType) /\ c \in Seq(TaskType)
      BY <1>2, <1>3
    <3> QED BY ONLY <3>1, ConcatProperties
  <2> QED BY <1>2, <1>3, <2>1
<1>5. /\ Tasks \in Seq(TaskType) /\ Count = W + 2
      /\ \A i \in 1..W : Tasks[i] = PerNode[i]
      /\ Tasks[W + 1] = c[1] /\ Tasks[W + 2] = c[2]
  BY SMTT(60), <1>1, <1>3, <1>4 DEF Count
<1>6. ASSUME NEW g \in 0..(Len(Nodes) - 1), NEW k \in 1..6
      PROVE  KindOf(6 * g + k) = NodeKinds[k] /\ NodeOf(6 * g + k) = Nodes[g + 1]
  <2>1. Tasks[6 * g + k] = PerNode[6 * g + k]
    BY <1>5, PlaceInGroup DEF W
  <2>2. /\ PerNode[6 * g + k].stage = NodeStages[Adapter][k]
        /\ PerNode[6 * g + k].node = Nodes[g + 1]
    BY PerNodeIs
  <2> QED BY <2>1, <2>2, StagesOfAdapter DEF KindOf, NodeOf
<1>7. Count - 1 = W + 1
  BY <1>3, <1>5
<1> QED BY SMTT(60), <1>2, <1>3, <1>5, <1>6, <1>7 DEF KindOf, NodeOf
(* The kind and the node of the k-th task of the group of node g + 1.      *)
LEMMA GroupTask ==
  ASSUME NEW i, NEW g \in 0..(Len(Nodes) - 1), NEW k \in 1..6, i = 6 * g + k
  PROVE  KindOf(i) = NodeKinds[k] /\ NodeOf(i) = Nodes[g + 1]
<1>1. KindOf(6 * g + k) = NodeKinds[k] /\ NodeOf(6 * g + k) = Nodes[g + 1]
  BY TasksAre
<1> QED BY ONLY <1>1, i = 6 * g + k

Kinds == {"precheck", "drain", "stop", "opatch", "start", "validate", "datapatch", "final"}

(* Every task is one of a node's, or one of the two of the cluster.        *)
LEMMA TaskPlaces ==
  ASSUME NEW q \in 1..Count
  PROVE  \/ \E g \in 0..(Len(Nodes) - 1), k \in 1..6 : q = 6 * g + k
         \/ q = Count - 1 \/ q = Count
<1>1. CASE q \in 1..(Width * Len(Nodes))
  BY <1>1, GroupOfPlace
<1>2. CASE q \notin 1..(Width * Len(Nodes))
  BY SMTT(60), <1>2, TasksAre, NodesAreNodes DEF Width
<1> QED BY <1>1, <1>2

(* What a kind says of the position of its task, and the next task.        *)
LEMMA TaskKinds ==
  ASSUME NEW q \in 1..Count
  PROVE  /\ KindOf(q) \in Kinds /\ NodeOf(q) \in Node /\ Tasks[q].stage \in DOMAIN Kind
         /\ (KindOf(q) \in {"datapatch", "final"} => q >= Count - 1)
         /\ (KindOf(q) = "final" <=> q = Count)
         /\ (q < Count =>
               /\ (KindOf(q) = "precheck" => KindOf(q + 1) = "drain")
               /\ (KindOf(q) = "drain" => KindOf(q + 1) = "stop")
               /\ (KindOf(q) = "stop" => KindOf(q + 1) = "opatch")
               /\ (KindOf(q) = "opatch" => KindOf(q + 1) = "start")
               /\ (KindOf(q) = "start" => KindOf(q + 1) = "validate")
               /\ (KindOf(q) = "validate" => KindOf(q + 1) \in {"precheck", "datapatch"})
               /\ (KindOf(q) = "datapatch" => KindOf(q + 1) = "final")
               /\ (KindOf(q) \in {"precheck", "drain", "stop", "opatch", "start"}
                     => NodeOf(q + 1) = NodeOf(q)))
         /\ (KindOf(q) = "start" =>
               q - 1 \in 1..Count /\ KindOf(q - 1) = "opatch" /\ NodeOf(q - 1) = NodeOf(q))
<1> DEFINE N == Len(Nodes)
<1>0. N \in Nat /\ N >= 2 /\ Count = 6 * N + 2
  BY NodesAreNodes, TasksAre
<1>1. Tasks[q] \in TaskType
  BY TasksAre, ElementOfSeq DEF Count
<1>2. NodeOf(q) \in Node /\ Tasks[q].stage \in DOMAIN Kind
  BY <1>1 DEF NodeOf, TaskType
<1>3. CASE q = Count
  BY <1>0, <1>2, <1>3, TasksAre DEF Kinds
<1>4. CASE q = Count - 1
  <2>1. q + 1 = Count
    BY <1>0, <1>4
  <2> QED BY <1>0, <1>2, <1>4, <2>1, TasksAre DEF Kinds
<1>5. ASSUME NEW g \in 0..(N - 1), NEW k \in 1..6, q = 6 * g + k
      PROVE  /\ q < Count - 1
             /\ KindOf(q) = NodeKinds[k] /\ NodeOf(q) = Nodes[g + 1]
             /\ (k < 6 => KindOf(q + 1) = NodeKinds[k + 1] /\ NodeOf(q + 1) = Nodes[g + 1])
             /\ (k = 6 => KindOf(q + 1) \in {"precheck", "datapatch"})
             /\ (k > 1 => /\ q - 1 \in 1..Count
                          /\ KindOf(q - 1) = NodeKinds[k - 1] /\ NodeOf(q - 1) = Nodes[g + 1])
  <2>1. q < Count - 1
    BY <1>0, <1>5
  <2>2. KindOf(q) = NodeKinds[k] /\ NodeOf(q) = Nodes[g + 1]
    BY ZenonT(60), <1>5, GroupTask
  <2>3. ASSUME k < 6
        PROVE  KindOf(q + 1) = NodeKinds[k + 1] /\ NodeOf(q + 1) = Nodes[g + 1]
    <3>1. q + 1 = 6 * g + (k + 1) /\ k + 1 \in 1..6
      BY <1>5, <2>3
    <3>2. KindOf(q + 1) = NodeKinds[k + 1] /\ NodeOf(q + 1) = Nodes[g + 1]
      BY <3>1, GroupTask
    <3> QED BY <3>2, <2>3
  <2>4. ASSUME k = 6, g = N - 1
        PROVE  KindOf(q + 1) \in {"precheck", "datapatch"}
    <3>1. q + 1 = Count - 1
      BY <1>0, <1>5, <2>4
    <3>2. KindOf(q + 1) = "datapatch"
      BY <3>1, TasksAre
    <3> QED BY <3>2, <2>4
  <2>5. ASSUME k = 6, g # N - 1
        PROVE  KindOf(q + 1) \in {"precheck", "datapatch"}
    <3>1. q + 1 = 6 * (g + 1) + 1 /\ g + 1 \in 0..(N - 1)
      BY <1>0, <1>5, <2>5
    <3> DEFINE h == g + 1
    <3>3. h \in 0..(N - 1) /\ 1 \in 1..6 /\ q + 1 = 6 * h + 1
      BY <3>1
    <3> HIDE DEF h
    <3>2. KindOf(q + 1) = NodeKinds[1]
      BY <3>3, GroupTask
    <3> QED BY <3>2, <2>5 DEF NodeKinds
  <2>6. ASSUME k > 1
        PROVE  /\ q - 1 \in 1..Count
               /\ KindOf(q - 1) = NodeKinds[k - 1] /\ NodeOf(q - 1) = Nodes[g + 1]
    <3>1. q - 1 = 6 * g + (k - 1) /\ k - 1 \in 1..6 /\ q - 1 \in 1..Count
      BY <1>0, <1>5, <2>6
    <3>2. KindOf(q - 1) = NodeKinds[k - 1] /\ NodeOf(q - 1) = Nodes[g + 1]
      BY <3>1, GroupTask
    <3> QED BY <3>1, <3>2, <2>6
  <2>7. k < 6 => KindOf(q + 1) = NodeKinds[k + 1] /\ NodeOf(q + 1) = Nodes[g + 1]
    BY <2>3
  <2>8. k = 6 => KindOf(q + 1) \in {"precheck", "datapatch"}
    BY <2>4, <2>5
  <2>9. k > 1 => /\ q - 1 \in 1..Count
                 /\ KindOf(q - 1) = NodeKinds[k - 1] /\ NodeOf(q - 1) = Nodes[g + 1]
    BY <2>6
  <2> QED BY <2>1, <2>2, <2>7, <2>8, <2>9
<1>6. CASE \E g \in 0..(N - 1), k \in 1..6 : q = 6 * g + k
  <2>1. PICK g \in 0..(N - 1), k \in 1..6 : q = 6 * g + k
    BY <1>6
  <2> DEFINE F == /\ q < Count - 1
             /\ KindOf(q) = NodeKinds[k] /\ NodeOf(q) = Nodes[g + 1]
             /\ (k < 6 => KindOf(q + 1) = NodeKinds[k + 1] /\ NodeOf(q + 1) = Nodes[g + 1])
             /\ (k = 6 => KindOf(q + 1) \in {"precheck", "datapatch"})
             /\ (k > 1 => /\ q - 1 \in 1..Count
                          /\ KindOf(q - 1) = NodeKinds[k - 1] /\ NodeOf(q - 1) = Nodes[g + 1])
  <2>2. F
    BY SMTT(60), <1>5, <2>1
  <2>3. \/ k = 1 /\ NodeKinds[k] = "precheck" /\ NodeKinds[k + 1] = "drain"
        \/ k = 2 /\ NodeKinds[k] = "drain" /\ NodeKinds[k + 1] = "stop"
        \/ k = 3 /\ NodeKinds[k] = "stop" /\ NodeKinds[k + 1] = "opatch"
        \/ k = 4 /\ NodeKinds[k] = "opatch" /\ NodeKinds[k + 1] = "start"
        \/ k = 5 /\ NodeKinds[k] = "start" /\ NodeKinds[k + 1] = "validate"
                 /\ NodeKinds[k - 1] = "opatch"
        \/ k = 6 /\ NodeKinds[k] = "validate"
    BY DEF NodeKinds
  <2>4. q < Count - 1
    BY <2>2
  <2>5. Count \in Nat /\ q \in Nat
    BY <1>0
  <2> HIDE DEF F
  <2>6. q # Count /\ ~(q >= Count - 1) /\ q < Count
    BY <2>4, <2>5
  <2>7. CASE k = 1
    BY <1>2, <2>2, <2>3, <2>6, <2>7 DEF Kinds, F
  <2>8. CASE k = 2
    BY <1>2, <2>2, <2>3, <2>6, <2>8 DEF Kinds, F
  <2>9. CASE k = 3
    BY <1>2, <2>2, <2>3, <2>6, <2>9 DEF Kinds, F
  <2>10. CASE k = 4
    BY <1>2, <2>2, <2>3, <2>6, <2>10 DEF Kinds, F
  <2>11. CASE k = 5
    BY SMTT(60), <1>2, <2>2, <2>3, <2>6, <2>11 DEF Kinds, F
  <2>12. CASE k = 6
    BY <1>2, <2>2, <2>3, <2>6, <2>12 DEF Kinds, F
  <2> QED BY <2>3, <2>7, <2>8, <2>9, <2>10, <2>11, <2>12
<1> QED BY <1>3, <1>4, <1>6, TaskPlaces

LEMMA FirstKind == Count \in Nat /\ Count >= 14 /\ KindOf(1) = "precheck" /\ KindOf(Count) = "final"
<1>1. 1 = 6 * 0 + 1 /\ 0 \in 0..(Len(Nodes) - 1)
  BY NodesAreNodes
<1>2. KindOf(1) = NodeKinds[1]
  BY <1>1, GroupTask
<1> QED BY <1>2, TasksAre, NodesAreNodes DEF NodeKinds

(* The nodes are distinct and finitely many.                               *)
LEMMA NodesAreDistinct ==
  /\ IsFiniteSet(Node)
  /\ \A g, h \in 1..Len(Nodes) : Nodes[g] = Nodes[h] => g = h
<1> DEFINE S == 1..Len(Nodes)
<1>1. IsFiniteSet(S) /\ Cardinality(S) = Len(Nodes)
  <2>1. Len(Nodes) \in Nat /\ Len(Nodes) >= 2
    BY NodesAreNodes
  <2>2. 1 \in Int /\ Len(Nodes) \in Int
    BY <2>1
  <2>3. IsFiniteSet(1..Len(Nodes)) /\ Cardinality(1..Len(Nodes)) = IF 1 > Len(Nodes) THEN 0 ELSE Len(Nodes) - 1 + 1
    BY <2>2, FS_Interval, ZenonT(60)
  <2> QED BY <2>1, <2>3
<1>2. Nodes \in [S -> Node]
  BY ZenonT(60), LenProperties
<1>3. Nodes \in Surjection(S, Node)
  BY ZenonT(60), <1>2 DEF Surjection, Node
<1> HIDE DEF S
<1>4. IsFiniteSet(Node)
  BY <1>1, <1>3, FS_Surjection
<1>5. Cardinality(S) = Cardinality(Node)
  BY <1>1
<1>6. Nodes \in Injection(S, Node)
  BY <1>1, <1>3, <1>5, FS_SurjSameCardinalityImpliesInj
<1> QED BY <1>4, <1>6 DEF Injection, IsInjective, S

(* Each node has its home patched once.                                    *)
LEMMA OneOPatchPerNode ==
  ASSUME NEW i \in 1..Count, NEW j \in 1..Count, KindOf(i) = "opatch", KindOf(j) = "opatch",
         NodeOf(i) = NodeOf(j)
  PROVE  i = j
<1>1. ASSUME NEW q \in 1..Count, KindOf(q) = "opatch"
      PROVE  \E g \in 0..(Len(Nodes) - 1) : q = 6 * g + 4
  <2>1. PICK g \in 0..(Len(Nodes) - 1), k \in 1..6 : q = 6 * g + k
    BY <1>1, TaskPlaces, TasksAre
  <2>2. NodeKinds[k] = "opatch"
    BY <1>1, <2>1, TasksAre
  <2>3. k = 4
    BY SMTT(60), <2>2 DEF NodeKinds
  <2> QED BY <2>1, <2>3
<1>2. PICK g \in 0..(Len(Nodes) - 1) : i = 6 * g + 4
  BY <1>1
<1>3. PICK h \in 0..(Len(Nodes) - 1) : j = 6 * h + 4
  BY <1>1
<1>4. Nodes[g + 1] = Nodes[h + 1]
  <2>1. NodeOf(i) = Nodes[g + 1] /\ NodeOf(j) = Nodes[h + 1]
    BY <1>2, <1>3, GroupTask
  <2> QED BY <2>1
<1>5. g + 1 \in 1..Len(Nodes) /\ h + 1 \in 1..Len(Nodes)
  BY NodesAreNodes
<1>6. g + 1 = h + 1
  <2>1. \A x, y \in 1..Len(Nodes) : Nodes[x] = Nodes[y] => x = y
    BY ZenonT(60), NodesAreDistinct
  <2> QED BY <1>4, <1>5, <2>1, Zenon
<1> QED BY <1>2, <1>3, <1>6

(* And all homes are patched before the tasks of the cluster.              *)
LEMMA OPatchBeforeCluster ==
  ASSUME NEW n \in Node
  PROVE  \E j \in 1..(Count - 2) : KindOf(j) = "opatch" /\ NodeOf(j) = n
<1>1. PICK h \in 1..Len(Nodes) : Nodes[h] = n
  BY ZenonT(60) DEF Node
<1> DEFINE g == h - 1
<1>2. g \in 0..(Len(Nodes) - 1) /\ 6 * g + 4 \in 1..(Count - 2)
  BY NodesAreNodes, TasksAre
<1>3. KindOf(6 * g + 4) = NodeKinds[4] /\ NodeOf(6 * g + 4) = Nodes[g + 1]
  <2>1. \A i : i = 6 * g + 4 => KindOf(i) = NodeKinds[4] /\ NodeOf(i) = Nodes[g + 1]
    <3> HIDE DEF g
    <3>1. 4 \in 1..6
      OBVIOUS
    <3> QED BY SMTT(60), <1>2, <3>1, GroupTask
  <2> QED BY <2>1
<1>4. Nodes[g + 1] = n
  BY <1>1
<1>5. NodeKinds[4] = "opatch"
  BY DEF NodeKinds
<1> QED BY <1>2, <1>3, <1>4, <1>5
-----------------------------------------------------------------------------
(* The programs of the stages *)

LEMMA ProgramLengths ==
  /\ Len(Program["precheck"]) = 5 /\ Len(Program["drain"]) = 6
  /\ Len(Program["stop"]) = 10 /\ Len(Program["opatch"]) = 11
  /\ Len(Program["start"]) = 10 /\ Len(Program["validate"]) = 4
  /\ Len(Program["datapatch"]) = 7 /\ Len(Program["final"]) = 6
  /\ \A k \in Kinds : Len(Program[k]) \in 4..11
BY DEF Program, Kinds

(* Where the steps are that change something.                              *)
LEMMA ProgramSteps ==
  ASSUME NEW k \in Kinds, NEW i \in 1..Len(Program[k])
  PROVE  LET op == Program[k][i]
         IN /\ (op = "bind" => k = "precheck")
            /\ (op = "drain" => k = "drain" /\ i = 4)
            /\ (op = "save_drain" => k = "drain" /\ i = 6)
            /\ (op = "stop" => k = "stop" /\ i = 6)
            /\ (op = "opatch" => k = "opatch" /\ i = 9)
            /\ (op \in {"mark_unknown", "mark_known"} => k = "opatch")
            /\ (op = "unmark_down" => k = "start")
            /\ (op = "start" => k = "start" /\ i = 5)
            /\ (op = "restore" => k = "start" /\ i = 8)
            /\ (op = "datapatch" => k = "datapatch")
            /\ (op = "survivor" =>
                  \/ k = "precheck" /\ i = 4
                  \/ k = "drain" /\ i = 3
                  \/ k = "stop" /\ i \in {4, 9}
                  \/ k = "opatch" /\ i = 5)
<1>1. CASE k = "precheck"
  BY SMTT(60), <1>1 DEF Program
<1>2. CASE k = "drain"
  BY <1>2 DEF Program
<1>3. CASE k = "stop"
  BY SMTT(60), <1>3 DEF Program
<1>4. CASE k = "opatch"
  BY SMTT(60), <1>4 DEF Program
<1>5. CASE k = "start"
  BY SMTT(60), <1>5 DEF Program
<1>6. CASE k = "validate"
  BY <1>6 DEF Program
<1>7. CASE k = "datapatch"
  BY <1>7 DEF Program
<1>8. CASE k = "final"
  BY SMTT(60), <1>8 DEF Program
<1> QED BY <1>1, <1>2, <1>3, <1>4, <1>5, <1>6, <1>7, <1>8 DEF Kinds

(* And what is checked where, as far as it matters.                        *)
LEMMA ProgramChecks ==
  /\ Program["drain"][3] = "survivor" /\ Program["drain"][4] = "drain"
  /\ Program["drain"][5] = "services_away" /\ Program["drain"][6] = "save_drain"
  /\ Program["stop"][4] = "survivor" /\ Program["stop"][5] = "services_away"
  /\ Program["opatch"][3] = "stopped" /\ Program["opatch"][7] = "old"
  /\ Program["opatch"][8] = "mark_unknown" /\ Program["opatch"][11] = "new"
  /\ Program["start"][4] = "stopped"
  /\ Program["start"][9] = "restored" /\ Program["validate"][3] = "running"
BY DEF Program

-----------------------------------------------------------------------------
(* The task at hand *)

Statuses == {"pending", "running", "succeeded", "failed", "unknown"}

(* The least of a set of numbers.                                          *)
LEMMA LeastNatural ==
  ASSUME NEW T, T \subseteq Nat, T # {}
  PROVE  \E x \in T : \A y \in T : x <= y
<1>1. PICK x \in T : \A y \in T : ~ (<<y, x>> \in OpToRel(<, Nat))
  BY ZenonT(60), NatLessThanWellFounded, WFMin
<1>2. \A y \in T : ~ (y < x)
  BY <1>1 DEF OpToRel
<1> QED BY <1>2

LEMMA TaskAtHand ==
  ASSUME TypeOK, NEW q \in 1..Count, Current(q)
  PROVE  /\ Pos = q /\ q \in Unfinished
         /\ Stage = Tasks[q].stage /\ Kind[Stage] = KindOf(q) /\ LocalNode = NodeOf(q)
<1>1. q \in Unfinished
  BY DEF Current, Unfinished, Count
<1>2. \A i \in Unfinished : q <= i
  <2> SUFFICES ASSUME NEW i \in Unfinished, ~(q <= i) PROVE FALSE
    OBVIOUS
  <2>1. i \in 1..Count /\ status[i] # "succeeded"
    BY DEF Unfinished, Count
  <2>2. i \in 1..(q - 1)
    BY <2>1, FirstKind
  <2> QED BY <2>1, <2>2 DEF Current
<1>3. \A i \in Unfinished : (\A j \in Unfinished : i <= j) => i = q
  <2> SUFFICES ASSUME NEW i \in Unfinished, i <= q PROVE i = q
    BY <1>1
  <2>1. i \in Nat /\ q \in Nat /\ q <= i
    BY <1>2, FirstKind DEF Unfinished, Count
  <2> QED BY <2>1
<1>4. Pos = q
  BY <1>1, <1>2, <1>3 DEF Pos
<1> QED BY <1>1, <1>4 DEF Stage, LocalNode, KindOf, NodeOf


(* The fields of an executor.                                              *)
Run == [phase : {"none", "stage", "ended"}, pc : 0..12, ok : BOOLEAN,
        supervised : BOOLEAN, survivor : Node \cup {"none"}, moved : SUBSET Services]
Drained == [moved : SUBSET Services, survivor : Node \cup {"none"}]
Evidence == [post : {"passed", "failed", "unknown"},
            class : {"no_mutation", "service_state_known", "database_down",
                     "binary_state_known", "binary_state_unknown"}]

LEMMA StoppedIs ==
  /\ Stopped \in Run /\ Stopped.phase = "none" /\ Stopped.pc = 0 /\ ~Stopped.ok
  /\ Stopped.moved = {} /\ NoDrain \in Drained /\ NoDrain.moved = {}
BY DEF Stopped, Run, NoDrain, Drained
(* The actions, one by one.                                                *)
LEMMA NextCases ==
  ASSUME Next
  PROVE  /\ plan # "succeeded"
         /\ \/ Claim \/ Check \/ Die \/ StageSucceeds \/ Bind \/ SaveDrain \/ Mark
            \/ FindSurvivor \/ (\E s \in Services : DrainService(s)) \/ DrainDone
            \/ (\E s \in Services : RestoreService(s)) \/ RestoreDone
            \/ StopInstance \/ StartInstance \/ OPatch \/ OPatchFails \/ Datapatch
            \/ HeartbeatFails \/ SupervisorDies \/ Report \/ LeaseExpires \/ Abandon \/ Retry
BY DEF Next, StageStep

(* Which of the actions change what.                                       *)
LEMMA Frames ==
  ASSUME Next
  PROVE  /\ inst' = inst \/ StopInstance \/ StartInstance
         /\ home' = home \/ OPatch \/ OPatchFails
         /\ \/ svc' = svc \/ StopInstance
            \/ \E s \in Services : DrainService(s) \/ RestoreService(s)
         /\ sql' = sql \/ Datapatch
         /\ drain' = drain \/ SaveDrain
         /\ bound' = bound \/ Bind
         /\ retries' = retries \/ Retry
         /\ (status' = status /\ plan' = plan) \/ Claim \/ Report \/ LeaseExpires \/ Retry
         /\ evidence' = evidence \/ Claim \/ Report
         /\ \/ marks' = marks \/ Claim \/ Die \/ Mark \/ OPatchFails \/ HeartbeatFails
<1> USE DEF oracle, files, tasks
<1>1. CASE Claim \/ Check \/ Die \/ StageSucceeds \/ Bind \/ SaveDrain \/ Mark \/ FindSurvivor
  BY <1>1 DEF Claim, Check, Die, StageSucceeds, Bind, SaveDrain, Mark, FindSurvivor
<1>2. CASE \E s \in Services : DrainService(s) \/ RestoreService(s)
  BY <1>2 DEF DrainService, RestoreService
<1>3. CASE DrainDone \/ RestoreDone \/ StopInstance \/ StartInstance \/ OPatch \/ OPatchFails
           \/ Datapatch
  BY <1>3 DEF DrainDone, RestoreDone, StopInstance, StartInstance, OPatch, OPatchFails, Datapatch
<1>4. CASE HeartbeatFails \/ SupervisorDies \/ Report \/ LeaseExpires \/ Abandon \/ Retry
  <2>1. CASE Report
    BY <2>1 DEF Report, Succeed, Fail
  <2>2. CASE HeartbeatFails \/ SupervisorDies \/ LeaseExpires \/ Abandon \/ Retry
    BY <2>2 DEF HeartbeatFails, SupervisorDies, LeaseExpires, Abandon, Retry
  <2> QED BY <1>4, <2>1, <2>2
<1> QED BY <1>1, <1>2, <1>3, <1>4, NextCases

(* The survivor found is a node, and another one.                          *)
LEMMA SurvivorIsOther ==
  ASSUME FindSurvivor
  PROVE  Survivor \in Node /\ Survivor # LocalNode
<1>1. Survivors \subseteq Nat /\ Survivors # {}
  BY NodesAreNodes DEF Survivors, FindSurvivor
<1>2. PICK k \in Survivors : \A j \in Survivors : k <= j
  BY <1>1, LeastNatural
<1>3. \A i \in Survivors : (\A j \in Survivors : i <= j) => i = k
  BY <1>2, NodesAreNodes DEF Survivors
<1>4. Survivor = Nodes[k]
  BY <1>2, <1>3 DEF Survivor
<1> QED BY <1>2, <1>4, NodesAreNodes DEF Survivors

(* The checks the invariant relies on.                                     *)
Checked == {"services_away", "old", "new", "restored", "running", "stopped"}

(* The stage takes its next step.                                          *)
Forward(q) ==
  /\ run.phase = "stage" /\ run.pc \in 1..Len(Program[KindOf(q)]) /\ Op = Program[KindOf(q)][run.pc]
  /\ run'.phase = "stage" /\ run'.pc = run.pc + 1 /\ ~run'.ok
  /\ run'.moved = run.moved
  /\ (Op = "survivor" => FindSurvivor) /\ (Op # "survivor" => run'.survivor = run.survivor)
  /\ (Op \in Checked => Passes(Op)) /\ (Op = "save_drain" => SaveDrain)
  /\ UNCHANGED <<evidence, retries, status, plan>>

(* The stage moves one more service.                                       *)
Drains(q) ==
  /\ KindOf(q) = "drain" /\ run.phase = "stage" /\ run.pc = 4
  /\ run'.phase = "stage" /\ run'.pc = run.pc /\ ~run'.ok /\ run'.survivor = run.survivor
  /\ \E s \in Services : DrainService(s) /\ run'.moved = run.moved \cup {s}

(* The stage ends.                                                         *)
Ends(q) ==
  /\ run.phase = "stage" /\ run'.phase = "ended"
  /\ run'.pc = run.pc /\ run'.moved = run.moved /\ run'.survivor = run.survivor
  /\ (run'.ok => run.pc > Len(Program[KindOf(q)]))
  /\ (run'.ok \/ Die \/ OPatchFails)
  /\ UNCHANGED <<evidence, retries, status, plan>>

(* The executor is still where it was.                                     *)
Stays ==
  /\ run'.phase = run.phase /\ run'.pc = run.pc /\ run'.ok = run.ok
  /\ run'.survivor = run.survivor /\ run'.moved = run.moved

Started == run'.phase = "stage" /\ run'.pc = 1 /\ ~run'.ok /\ run'.moved = {}

LEMMA ExecutorStep ==
  ASSUME TypeOK, ExecutorInv, NEW q \in 1..Count, Current(q), TaskInv(q), Next
  PROVE  /\ run' \in Run
         /\ \/ Claim /\ Started
            \/ Forward(q)
            \/ Drains(q)
            \/ Ends(q)
            \/ Stays /\ (run' = run \/ SupervisorDies)
            \/ run' = Stopped /\ (Report \/ Abandon)
<1>1. run \in Run
  BY DEF TypeOK, Run
<1>2. Pos = q /\ Kind[Stage] = KindOf(q) /\ KindOf(q) \in Kinds
  BY TaskAtHand, TaskKinds
<1> DEFINE L == Len(Program[KindOf(q)])
<1>3. L \in 4..11
  BY <1>2, ProgramLengths
<1>4. /\ (run.phase = "stage" => run.pc \in 1..(L + 1) /\ ~run.ok)
      /\ Op = Program[KindOf(q)][run.pc]
      /\ (run.phase = "stage" /\ run.pc <= L => run.pc \in 1..L)
  BY <1>1, <1>2, <1>3 DEF TaskInv, ExecutorInv, Op, Run
<1>5. ASSUME Advance, run.phase = "stage", run.pc <= L
      PROVE  /\ run' \in Run /\ run'.phase = "stage" /\ run'.pc = run.pc + 1 /\ ~run'.ok
             /\ run'.moved = run.moved /\ run'.survivor = run.survivor
  <2> DEFINE p == run.pc + 1
  <2>1. p \in 0..12 /\ ~run.ok
    <3> HIDE DEF L
    <3>1. run.pc \in 1..L /\ ~run.ok
      BY <1>4, <1>5
    <3> QED BY SMTT(60), <1>3, <3>1
  <2>2. run' = [run EXCEPT !.pc = p]
    BY <1>5 DEF Advance
  <2> HIDE DEF p
  <2>3. run' \in Run /\ run'.phase = run.phase /\ run'.pc = p /\ run'.ok = run.ok
        /\ run'.moved = run.moved /\ run'.survivor = run.survivor
    BY <1>1, <2>1, <2>2 DEF Run
  <2> QED BY <1>5, <2>1, <2>3 DEF p
<1>6. ASSUME NEW op, At(op)
      PROVE  run.phase = "stage" /\ run.pc \in 1..L /\ Op = op
  BY <1>2, <1>4, <1>6 DEF At
<1> HIDE DEF L
<1>7. CASE Claim
  <2>1. run' = [phase |-> "stage", pc |-> 1, ok |-> FALSE, supervised |-> TRUE,
                survivor |-> "none", moved |-> {}]
    BY <1>7 DEF Claim, Stopped
  <2>2. run' \in Run
    BY <2>1 DEF Run
  <2> QED BY <1>7, <2>1, <2>2 DEF Started
<1>8. CASE Check
  <2>1. run.phase = "stage" /\ run.pc <= L /\ Passes(Op) /\ Advance
    BY <1>2, <1>8 DEF Check, L
  <2>2. Op # "survivor" /\ Op # "save_drain"
    BY <2>1 DEF Passes
  <2> QED BY <1>4, <1>5, <1>8, <2>1, <2>2 DEF Check, Forward, L, tasks
<1>9. CASE Die
  BY <1>1, <1>4, <1>9 DEF Die, Ends, Run, tasks
<1>10. CASE StageSucceeds
  BY <1>1, <1>2, <1>4, <1>10 DEF StageSucceeds, Ends, Run, tasks
<1>11. CASE Bind \/ SaveDrain
  BY SMTT(60), <1>4, <1>5, <1>6, <1>11 DEF Bind, SaveDrain, Forward, L, tasks, Checked
<1>12. CASE Mark
  BY SMTT(60), <1>4, <1>5, <1>6, <1>12 DEF Mark, Forward, L, tasks, Checked
<1>13. CASE FindSurvivor
  <2>1. run.phase = "stage" /\ run.pc \in 1..L /\ Op = "survivor" /\ Survivors # {}
        /\ run' = [run EXCEPT !.pc = @ + 1, !.survivor = Survivor]
    BY <1>6, <1>13 DEF FindSurvivor
  <2>2. Survivor \in Node
    BY <1>13, SurvivorIsOther
  <2>3. run' \in Run /\ run'.phase = "stage" /\ run'.pc = run.pc + 1 /\ ~run'.ok
        /\ run'.moved = run.moved
    <3> DEFINE p == run.pc + 1
               v == Survivor
    <3>1. p \in 0..12 /\ ~run.ok /\ v \in Node
      BY SMTT(60), <1>3, <1>4, <2>1, <2>2
    <3>2. run' = [run EXCEPT !.pc = p, !.survivor = v]
      BY <2>1
    <3> HIDE DEF p, v
    <3>3. run' \in Run /\ run'.phase = run.phase /\ run'.pc = p /\ run'.ok = run.ok
          /\ run'.moved = run.moved
      BY <1>1, <3>1, <3>2 DEF Run
    <3> QED BY <2>1, <3>1, <3>3 DEF p
  <2> QED BY <1>4, <1>13, <2>1, <2>3 DEF Forward, L, FindSurvivor, tasks, Checked
<1>14. CASE \E s \in Services : DrainService(s)
  <2>1. PICK s \in Services : DrainService(s)
    BY <1>14
  <2>2. /\ run.phase = "stage" /\ run.pc \in 1..L /\ Op = "drain"
        /\ run' = [run EXCEPT !.moved = @ \cup {s}]
    BY <1>6, <2>1 DEF DrainService
  <2>3. KindOf(q) = "drain" /\ run.pc = 4
    BY ZenonT(60), <1>2, <1>4, <2>2, ProgramSteps DEF L
  <2>4. run' \in Run /\ run'.phase = "stage" /\ run'.pc = run.pc /\ ~run'.ok
        /\ run'.survivor = run.survivor /\ run'.moved = run.moved \cup {s}
    BY SMTT(60), <1>1, <1>4, <2>2 DEF Run
  <2> QED BY <2>1, <2>2, <2>3, <2>4 DEF Drains
<1>15. CASE \E s \in Services : RestoreService(s)
  BY <1>1, <1>15 DEF RestoreService, Stays
<1>16. CASE DrainDone \/ RestoreDone
  BY SMTT(60), <1>4, <1>5, <1>6, <1>16 DEF DrainDone, RestoreDone, Forward, L, tasks, Checked
<1>17. CASE StopInstance \/ StartInstance \/ OPatch \/ Datapatch
  BY SMTT(60), <1>4, <1>5, <1>6, <1>17
     DEF StopInstance, StartInstance, OPatch, Datapatch, Forward, L, tasks, Checked
<1>18. CASE OPatchFails
  BY <1>1, <1>4, <1>6, <1>18 DEF OPatchFails, Ends, Run, tasks
<1>19. CASE HeartbeatFails \/ LeaseExpires \/ Retry
  BY <1>1, <1>19 DEF HeartbeatFails, LeaseExpires, Retry, Stays
<1>20. CASE SupervisorDies
  BY <1>1, <1>20 DEF SupervisorDies, Stays, Run
<1>21. CASE Report \/ Abandon
  BY <1>21, StoppedIs DEF Report, Abandon
<1> QED BY <1>7, <1>8, <1>9, <1>10, <1>11, <1>12, <1>13, <1>14, <1>15, <1>16, <1>17, <1>18,
           <1>19, <1>20, <1>21, NextCases
-----------------------------------------------------------------------------
(* Types *)

LEMMA ClassTypes ==
  ASSUME NEW q \in 1..Count, Stage = Tasks[q].stage
  PROVE  /\ FailureClass \in {"no_mutation", "database_down", "binary_state_known",
                              "binary_state_unknown"}
         /\ SuccessClass(Stage) \in {"no_mutation", "service_state_known", "database_down",
                                     "binary_state_known"}
<1>1. Stage \in DOMAIN Kind
  BY TaskKinds
<1> QED BY <1>1 DEF FailureClass, SuccessClass, Kind

LEMMA TypeStep ==
  ASSUME TypeOK, ExecutorInv, NEW q \in 1..Count, Current(q), TaskInv(q), ServeInv(q), Next
  PROVE  TypeOK'
<1>1. Pos = q /\ Stage = Tasks[q].stage /\ LocalNode \in Node /\ q \in 1..Len(Tasks)
  BY TaskAtHand, TaskKinds DEF Count
<1>2. inst' \in [Node -> {"running", "stopped"}]
  BY ZenonT(60), <1>1, Frames DEF TypeOK, StopInstance, StartInstance
<1>3. home' \in [Node -> {"old", "new", "torn"}]
  BY <1>1, Frames DEF TypeOK, OPatch, OPatchFails
<1>4. run \in Run /\ run' \in Run
  BY ExecutorStep DEF TypeOK, Run
<1>5. drain' \in [Node -> Drained]
  <2>1. drain \in [Node -> Drained]
    BY DEF TypeOK, Drained
  <2>2. CASE SaveDrain
    <3> DEFINE d == [moved |-> run.moved, survivor |-> run.survivor]
    <3>1. d \in Drained
      BY <1>4 DEF Run, Drained
    <3>2. drain' = [drain EXCEPT ![LocalNode] = d]
      BY <2>2 DEF SaveDrain
    <3> HIDE DEF d
    <3> QED BY <1>1, <2>1, <3>1, <3>2
  <2> QED BY <2>1, <2>2, Frames
<1>6. svc' \in [Services -> SUBSET Node]
  <2>1. svc \in [Services -> SUBSET Node]
    BY DEF TypeOK
  <2>2. CASE StopInstance
    BY <2>1, <2>2 DEF StopInstance
  <2>3. ASSUME NEW s \in Services, DrainService(s)
        PROVE  svc' \in [Services -> SUBSET Node]
    <3>1. run.survivor \in Node
      <4>1. KindOf(q) = "drain" /\ run.phase = "stage" /\ run.pc = 4
        <5>1. KindOf(q) \in Kinds /\ Kind[Stage] = KindOf(q) /\ At("drain")
          BY <2>3, TaskAtHand, TaskKinds DEF DrainService
        <5>2. run.phase = "stage" /\ run.pc \in 1..Len(Program[KindOf(q)])
              /\ Program[KindOf(q)][run.pc] = "drain"
          BY <5>1 DEF At, Op, TaskInv
        <5> QED BY <5>1, <5>2, ProgramSteps
      <4> QED BY <4>1 DEF ServeInv, Past
    <3> QED BY <1>1, <2>1, <2>3, <3>1 DEF DrainService, Move
  <2>4. ASSUME NEW s \in Services, RestoreService(s)
        PROVE  svc' \in [Services -> SUBSET Node]
    BY <1>1, <2>1, <2>4 DEF RestoreService, Move
  <2> QED BY <2>1, <2>2, <2>3, <2>4, Frames
<1>7. sql' \in BOOLEAN /\ bound' \subseteq Node
  BY <1>1, Frames DEF TypeOK, Datapatch, Bind
<1>8. /\ status' \in [1..Len(Tasks) -> Statuses] /\ retries' \in 0..MaxRetries
      /\ plan' \in {"running", "paused", "succeeded"}
  <2>1. status \in [1..Len(Tasks) -> Statuses] /\ retries \in 0..MaxRetries
        /\ plan \in {"running", "paused", "succeeded"}
    BY DEF TypeOK, Statuses
  <2>2. retries' \in 0..MaxRetries
    BY <2>1, Frames DEF Retry
  <2>3. CASE Report
    BY SMTT(60), <1>1, <2>1, <2>2, <2>3 DEF Report, Succeed, Fail, Statuses
  <2>4. CASE Claim \/ LeaseExpires \/ Retry
    BY <1>1, <2>1, <2>2, <2>4 DEF Claim, LeaseExpires, Retry, Statuses, tasks
  <2> QED BY <2>1, <2>2, <2>3, <2>4, Frames
<1>9. marks' \subseteq {"instance-down", "binary-state-unknown", "binary-state-known",
                        "heartbeat-failed"}
  BY Frames DEF TypeOK, Claim, Die, Mark, OPatchFails, HeartbeatFails
<1>10. evidence' = NoEvidence \/ evidence' \in Evidence
  <2>1. CASE Claim
    BY <2>1 DEF Claim
  <2>2. CASE Report
    BY <1>1, <2>2, ClassTypes DEF Report, Evidence
  <2> QED BY <2>1, <2>2, Frames DEF TypeOK, Evidence
<1> QED BY <1>2, <1>3, <1>4, <1>5, <1>6, <1>7, <1>8, <1>9, <1>10
        DEF TypeOK, Run, Drained, Statuses, Evidence
-----------------------------------------------------------------------------
(* The plan's tasks *)

(* A report of success.                                                    *)
Passing == Report /\ "heartbeat-failed" \notin marks /\ run.ok

(* What a step that is no success does to the task at hand.                *)
LEMMA StatusStep ==
  ASSUME TypeOK, ExecutorInv, NEW q \in 1..Count, Current(q), TaskInv(q), Next
  PROVE  /\ \A i \in 1..Count : i # q => status'[i] = status[i]
         /\ (Passing => status'[q] = "succeeded" /\ status[q] = "running")
         /\ (Report => status'[q] \in {"succeeded", "failed"})
         /\ (~Passing =>
               \/ ~Claim /\ ~Report /\ status' = status /\ plan' = plan /\ evidence' = evidence
               \/ Claim /\ status'[q] = "running" /\ plan = "running" /\ plan' = "running"
                        /\ evidence' = NoEvidence
               \/ Report /\ status[q] = "running" /\ status'[q] = "failed" /\ plan' = "paused"
                         /\ run' = Stopped
                         /\ ("heartbeat-failed" \in marks => evidence'.post = "unknown")
               \/ LeaseExpires /\ status[q] = "running" /\ status'[q] = "unknown"
                               /\ plan' = "paused" /\ evidence' = evidence
               \/ Retry /\ status[q] = "failed" /\ status'[q] = "pending" /\ plan' = "running"
                        /\ evidence' = evidence)
<1>1. Pos = q /\ q \in 1..Len(Tasks)
  BY TaskAtHand DEF Count
<1>2. status \in [1..Count -> Statuses]
  BY DEF TypeOK, Count, Statuses
<1>3. CASE Report
  <2>1. CASE Passing
    BY <1>1, <1>2, <1>3, <2>1 DEF Report, Passing, Succeed
  <2>2. CASE ~Passing
    <3>1. /\ status[q] = "running" /\ run' = Stopped
          /\ status' = [status EXCEPT ![q] = "failed"] /\ plan' = "paused"
      BY <1>1, <1>3, <2>2 DEF Report, Passing, Fail
    <3>2. "heartbeat-failed" \in marks => evidence'.post = "unknown"
      BY <1>3 DEF Report
    <3> QED BY <1>2, <1>3, <2>2, <3>1, <3>2
  <2> QED BY <2>1, <2>2
<1>4. CASE Claim
  <2>1. ~Report /\ ~Passing
    BY <1>4, StoppedIs DEF Claim, Report, Passing
  <2>2. /\ status' = [status EXCEPT ![q] = "running"] /\ evidence' = NoEvidence
        /\ plan = "running" /\ plan' = plan
    BY <1>1, <1>4 DEF Claim
  <2> QED BY <1>2, <1>4, <2>1, <2>2
<1>5. CASE LeaseExpires \/ Retry
  <2>1. CASE LeaseExpires
    <3>1. /\ status[q] = "running" /\ status' = [status EXCEPT ![q] = "unknown"]
          /\ plan' = "paused" /\ evidence' = evidence
      BY <1>1, <2>1 DEF LeaseExpires
    <3>2. ~Passing /\ ~Report
      BY <1>2, <1>3, <3>1 DEF Passing
    <3> QED BY <1>2, <2>1, <3>1, <3>2
  <2>2. CASE Retry
    <3>1. /\ status[q] = "failed" /\ status' = [status EXCEPT ![q] = "pending"]
          /\ plan' = "running" /\ evidence' = evidence
      BY <1>1, <2>2 DEF Retry
    <3>2. ~Passing /\ ~Report
      BY <1>2, <1>3, <3>1 DEF Passing
    <3> QED BY <1>2, <2>2, <3>1, <3>2
  <2> QED BY <1>5, <2>1, <2>2
<1>6. CASE ~(Report \/ Claim \/ LeaseExpires \/ Retry)
  BY <1>6, Frames DEF Passing
<1> QED BY <1>3, <1>4, <1>5, <1>6

LEMMA CurrentStep ==
  ASSUME TypeOK, ExecutorInv, NEW q \in 1..Count, Current(q), TaskInv(q), Next, ~Passing
  PROVE  Current(q)'
<1>1. /\ plan # "succeeded" /\ status[q] # "succeeded"
      /\ \A i \in 1..(q - 1) : status[i] = "succeeded"
  BY DEF Current
<1>2. plan' # "succeeded" /\ status'[q] # "succeeded"
  BY <1>1, StatusStep
<1>3. \A i \in 1..(q - 1) : status'[i] = "succeeded"
  <2> TAKE i \in 1..(q - 1)
  <2>1. i \in 1..Count /\ i # q
    BY FirstKind
  <2> QED BY <1>1, <2>1, StatusStep
<1> QED BY <1>2, <1>3 DEF Current

LEMMA TaskStep ==
  ASSUME TypeOK, ExecutorInv, NEW q \in 1..Count, Current(q), TaskInv(q), Next, ~Passing
  PROVE  TaskInv(q)'
<1> DEFINE L == Len(Program[KindOf(q)])
<1>1. L \in 4..11
  BY TaskKinds, ProgramLengths
<1>2. run \in Run /\ run' \in Run
  BY ExecutorStep DEF TypeOK, Run
<1>3. run.phase = "none" => run = Stopped
  BY DEF ExecutorInv
<1>4. \A i \in (q + 1)..Count : status'[i] = "pending"
  <2> TAKE i \in (q + 1)..Count
  <2>1. i \in 1..Count /\ i # q
    BY FirstKind
  <2> QED BY <2>1, StatusStep DEF TaskInv
<1>5. plan' = "running" <=> status'[q] \in {"pending", "running"}
  BY StatusStep DEF TaskInv
<1>6. run' # Stopped => status'[q] \in {"running", "unknown"} /\ evidence' = NoEvidence
  <2>1. CASE run # Stopped
    <3>1. status[q] \in {"running", "unknown"} /\ evidence = NoEvidence
      BY <2>1 DEF TaskInv
    <3> QED BY <3>1, StatusStep
  <2>2. CASE run = Stopped
    <3>1. Claim \/ run' = run
      BY <2>2, ExecutorStep, StoppedIs DEF Forward, Drains, Ends, SupervisorDies
    <3>2. CASE Claim
      <4>1. status \in [1..Count -> Statuses] /\ Pos = q
        BY TaskAtHand DEF TypeOK, Count, Statuses
      <4>2. status' = [status EXCEPT ![q] = "running"] /\ evidence' = NoEvidence
        BY <3>2, <4>1 DEF Claim
      <4> QED BY <4>1, <4>2
    <3> QED BY <2>2, <3>1, <3>2
  <2> QED BY <2>1, <2>2
<1>7. status'[q] = "running" => run' # Stopped
  <2> SUFFICES ASSUME status'[q] = "running" PROVE run' # Stopped
    OBVIOUS
  <2>1. CASE status[q] = "running"
    <3>1. run # Stopped /\ ~Report /\ ~Abandon
      <4>1. run # Stopped
        BY <2>1 DEF TaskInv
      <4>2. ~Report
        BY StatusStep
      <4>3. ~Abandon
        BY <2>1, TaskAtHand DEF Abandon
      <4> QED BY <4>1, <4>2, <4>3
    <3>2. run.phase # "none"
      BY <1>3, <3>1
    <3>3. run'.phase # "none"
      BY <3>1, <3>2, ExecutorStep DEF Started, Forward, Drains, Ends, Stays
    <3> QED BY <3>3, StoppedIs
  <2>2. CASE status[q] # "running"
    <3>1. Claim
      BY <2>2, StatusStep
    <3>2. run'.phase = "stage"
      BY <3>1 DEF Claim, Stopped
    <3> QED BY <3>2, StoppedIs
  <2> QED BY <2>1, <2>2
<1>8. /\ (run'.phase = "stage" => run'.pc \in 1..(L + 1))
      /\ (run'.ok => run'.pc > L)
  <2>1. (run.phase = "stage" => run.pc \in 1..(L + 1)) /\ (run.ok => run.pc > L)
    BY DEF TaskInv
  <2>2. CASE Started
    BY <1>1, <2>2 DEF Started
  <2>3. CASE Forward(q)
    BY SMTT(60), <1>1, <2>3 DEF Forward
  <2>4. CASE Drains(q) \/ Ends(q) \/ Stays
    BY <1>1, <2>1, <2>4 DEF Drains, Ends, Stays
  <2>5. CASE run' = Stopped
    BY <2>5, StoppedIs
  <2> QED BY <2>2, <2>3, <2>4, <2>5, ExecutorStep
<1> QED BY <1>4, <1>5, <1>6, <1>7, <1>8 DEF TaskInv

LEMMA ExecutorInvStep ==
  ASSUME TypeOK, ExecutorInv, NEW q \in 1..Count, Current(q), TaskInv(q), Next
  PROVE  ExecutorInv'
<1>1. run'.phase = "none" => run' = Stopped
  BY ExecutorStep DEF ExecutorInv, Started, Forward, Drains, Ends, Stays, SupervisorDies
<1>2. run'.ok => run'.phase = "ended"
  BY ExecutorStep, StoppedIs DEF ExecutorInv, Started, Forward, Drains, Ends, Stays
<1>3. ASSUME "heartbeat-failed" \in marks', evidence' # NoEvidence
      PROVE  evidence'.post = "unknown"
  <2>1. CASE Report
    <3>1. marks' = marks
      BY <2>1 DEF Report
    <3>2. ~Passing
      BY <1>3, <3>1 DEF Passing
    <3> QED BY <1>3, <2>1, <3>1, <3>2 DEF Report
  <2>2. CASE ~Report
    <3>1. ~Claim
      BY <1>3 DEF Claim
    <3>2. evidence' = evidence
      BY <2>2, <3>1, Frames
    <3>3. run = Stopped
      BY <1>3, <3>2 DEF TaskInv
    <3>4. ~Die /\ ~Mark /\ ~OPatchFails /\ ~HeartbeatFails
      BY <3>3, StoppedIs DEF Die, Mark, OPatchFails, HeartbeatFails, At
    <3>5. marks' = marks
      BY <3>1, <3>4, Frames
    <3> QED BY <1>3, <3>2, <3>5 DEF ExecutorInv
  <2> QED BY <2>1, <2>2
<1> QED BY <1>1, <1>2, <1>3 DEF ExecutorInv
-----------------------------------------------------------------------------
(* The cluster, while the plan stays at its task *)

LEMMA PastStep ==
  ASSUME TypeOK, ExecutorInv, NEW q \in 1..Count, Current(q), TaskInv(q), Next,
         NEW k \in 1..12, Past(k)'
  PROVE  Past(k) \/ (Forward(q) /\ run.pc = k)
<1>1. run \in Run /\ run'.pc > k /\ (run'.phase = "stage" \/ run'.ok)
  BY DEF TypeOK, Run, Past
<1>2. run.pc \in Nat
  BY SMTT(60), <1>1 DEF Run
<1>3. CASE Started \/ run' = Stopped
  BY <1>1, <1>3, StoppedIs DEF Started
<1>4. CASE Forward(q)
  BY <1>1, <1>2, <1>4 DEF Forward, Past
<1>5. CASE Drains(q) \/ Ends(q) \/ Stays
  BY <1>1, <1>5 DEF Drains, Ends, Stays, Past
<1> QED BY <1>3, <1>4, <1>5, ExecutorStep

(* Where in the plan the actions on the cluster are, and how they go on.   *)
LEMMA ActsAt ==
  ASSUME TypeOK, ExecutorInv, NEW q \in 1..Count, Current(q), TaskInv(q), Next
  PROVE  /\ (StopInstance => KindOf(q) = "stop" /\ run.phase = "stage" /\ run.pc = 6
                             /\ run'.phase = "stage" /\ run'.pc = 7)
         /\ (StartInstance => KindOf(q) = "start" /\ run.phase = "stage" /\ run.pc = 5)
         /\ (OPatch => KindOf(q) = "opatch" /\ run.phase = "stage" /\ run.pc = 9
                       /\ run'.phase = "stage" /\ run'.pc = 10 /\ ~run'.ok)
         /\ (OPatchFails => KindOf(q) = "opatch" /\ run.phase = "stage" /\ run.pc = 9
                            /\ run'.phase = "ended" /\ ~run'.ok)
         /\ (Datapatch => KindOf(q) = "datapatch")
         /\ (SaveDrain => KindOf(q) = "drain" /\ run.phase = "stage" /\ run.pc = 6
                          /\ run'.phase = "stage" /\ run'.pc = 7
                          /\ run'.moved = run.moved /\ run'.survivor = run.survivor)
         /\ \A s \in Services :
              /\ (DrainService(s) => KindOf(q) = "drain" /\ run.phase = "stage" /\ run.pc = 4
                                     /\ run'.phase = "stage" /\ run'.pc = 4
                                     /\ run'.moved = run.moved \cup {s}
                                     /\ run'.survivor = run.survivor)
              /\ (RestoreService(s) => KindOf(q) = "start" /\ run.phase = "stage"
                                       /\ run.pc = 8 /\ run' = run)
<1>1. run \in Run /\ KindOf(q) \in Kinds /\ Kind[Stage] = KindOf(q)
  BY TaskAtHand, TaskKinds DEF TypeOK, Run
<1>2. ASSUME NEW op, At(op)
      PROVE  run.phase = "stage" /\ run.pc \in 1..Len(Program[KindOf(q)])
             /\ Program[KindOf(q)][run.pc] = op /\ ~run.ok
  BY <1>1, <1>2 DEF At, Op, TaskInv, ExecutorInv
<1>3. \A v \in 0..12 : /\ [run EXCEPT !.pc = v].phase = run.phase
                       /\ [run EXCEPT !.pc = v].pc = v
                       /\ [run EXCEPT !.pc = v].ok = run.ok
                       /\ [run EXCEPT !.pc = v].moved = run.moved
                       /\ [run EXCEPT !.pc = v].survivor = run.survivor
  BY <1>1 DEF Run
<1>4. ASSUME StopInstance
      PROVE  KindOf(q) = "stop" /\ run.phase = "stage" /\ run.pc = 6
             /\ run'.phase = "stage" /\ run'.pc = 7
  <2>1. At("stop") /\ run' = [run EXCEPT !.pc = run.pc + 1]
    BY <1>4 DEF StopInstance, Advance
  <2>2. KindOf(q) = "stop" /\ run.phase = "stage" /\ run.pc = 6
    BY SMTT(60), <1>1, <1>2, <2>1, ProgramSteps
  <2> QED BY <1>3, <2>1, <2>2
<1>5. ASSUME StartInstance
      PROVE  KindOf(q) = "start" /\ run.phase = "stage" /\ run.pc = 5
  <2>1. At("start")
    BY <1>5 DEF StartInstance
  <2> QED BY <1>1, <1>2, <2>1, ProgramSteps
<1>6. ASSUME OPatch
      PROVE  KindOf(q) = "opatch" /\ run.phase = "stage" /\ run.pc = 9
             /\ run'.phase = "stage" /\ run'.pc = 10 /\ ~run'.ok
  <2>1. At("opatch") /\ run' = [run EXCEPT !.pc = run.pc + 1]
    BY <1>6 DEF OPatch, Advance
  <2>2. KindOf(q) = "opatch" /\ run.phase = "stage" /\ run.pc = 9 /\ ~run.ok
    BY SMTT(60), <1>1, <1>2, <2>1, ProgramSteps
  <2> QED BY <1>3, <2>1, <2>2
<1>7. ASSUME OPatchFails
      PROVE  KindOf(q) = "opatch" /\ run.phase = "stage" /\ run.pc = 9
             /\ run'.phase = "ended" /\ ~run'.ok
  <2>1. At("opatch") /\ run' = [run EXCEPT !.phase = "ended"]
    BY <1>7 DEF OPatchFails
  <2>2. KindOf(q) = "opatch" /\ run.phase = "stage" /\ run.pc = 9 /\ ~run.ok
    BY SMTT(60), <1>1, <1>2, <2>1, ProgramSteps
  <2> QED BY <1>1, <2>1, <2>2 DEF Run
<1>8. ASSUME Datapatch PROVE KindOf(q) = "datapatch"
  <2>1. At("datapatch")
    BY <1>8 DEF Datapatch
  <2> QED BY <1>1, <1>2, <2>1, ProgramSteps
<1>9. ASSUME SaveDrain
      PROVE  KindOf(q) = "drain" /\ run.phase = "stage" /\ run.pc = 6
             /\ run'.phase = "stage" /\ run'.pc = 7
             /\ run'.moved = run.moved /\ run'.survivor = run.survivor
  <2>1. At("save_drain") /\ run' = [run EXCEPT !.pc = run.pc + 1]
    BY <1>9 DEF SaveDrain, Advance
  <2>2. KindOf(q) = "drain" /\ run.phase = "stage" /\ run.pc = 6
    BY SMTT(60), <1>1, <1>2, <2>1, ProgramSteps
  <2> QED BY <1>3, <2>1, <2>2
<1>10. ASSUME NEW s \in Services, DrainService(s)
       PROVE  KindOf(q) = "drain" /\ run.phase = "stage" /\ run.pc = 4
              /\ run'.phase = "stage" /\ run'.pc = 4
              /\ run'.moved = run.moved \cup {s} /\ run'.survivor = run.survivor
  <2>1. At("drain") /\ run' = [run EXCEPT !.moved = @ \cup {s}]
    BY <1>10 DEF DrainService
  <2>2. KindOf(q) = "drain" /\ run.phase = "stage" /\ run.pc = 4
    BY SMTT(60), <1>1, <1>2, <2>1, ProgramSteps
  <2> QED BY <1>1, <2>1, <2>2 DEF Run
<1>11. ASSUME NEW s \in Services, RestoreService(s)
       PROVE  KindOf(q) = "start" /\ run.phase = "stage" /\ run.pc = 8 /\ run' = run
  <2>1. At("restore") /\ run' = run
    BY <1>11 DEF RestoreService
  <2> QED BY <1>1, <1>2, <2>1, ProgramSteps
<1> QED BY <1>4, <1>5, <1>6, <1>7, <1>8, <1>9, <1>10, <1>11

LEMMA UpStep ==
  ASSUME TypeOK, ExecutorInv, NEW q \in 1..Count, Current(q), TaskInv(q), Next, UpInv(q)
  PROVE  UpInv(q)'
<1>1. LocalNode = NodeOf(q) /\ NodeOf(q) \in Node /\ inst \in [Node -> {"running", "stopped"}]
  BY TaskAtHand, TaskKinds DEF TypeOK
<1>2. \A m \in Node : \/ inst'[m] = "running"
                      \/ /\ m = NodeOf(q)
                         /\ KindOf(q) \in {"stop", "opatch", "start", "validate"}
  <2>1. CASE StopInstance
    BY <1>1, <2>1, ActsAt DEF UpInv, StopInstance
  <2>2. CASE StartInstance
    BY ZenonT(60), <1>1, <2>2, ActsAt DEF UpInv, StartInstance
  <2> QED BY <2>1, <2>2, Frames DEF UpInv
<1>3. ASSUME KindOf(q) = "validate", Past(3)'
      PROVE  inst'[NodeOf(q)] = "running"
  <2>1. inst' = inst
    BY <1>3, Frames, ActsAt
  <2>2. CASE Past(3)
    BY <1>3, <2>1, <2>2 DEF UpInv
  <2>3. CASE Forward(q) /\ run.pc = 3
    <3>1. Op = "running"
      BY <1>3, <2>3, ProgramChecks DEF Forward
    <3>2. Passes("running")
      BY <2>3, <3>1 DEF Forward, Checked
    <3>3. inst[LocalNode] = "running"
      BY <3>2 DEF Passes, InstanceIs
    <3> QED BY <1>1, <2>1, <3>3
  <2> QED BY <1>3, <2>2, <2>3, PastStep
<1> QED BY <1>2, <1>3 DEF UpInv
LEMMA HomeStep ==
  ASSUME TypeOK, ExecutorInv, NEW q \in 1..Count, Current(q), TaskInv(q), Next, ~Passing,
         HomeInv(q)
  PROVE  HomeInv(q)'
<1>1. /\ LocalNode = NodeOf(q) /\ NodeOf(q) \in Node /\ Kind[Stage] = KindOf(q) /\ Pos = q
      /\ home \in [Node -> {"old", "new", "torn"}]
  BY TaskAtHand, TaskKinds DEF TypeOK
<1>2. \A m \in Node : m # NodeOf(q) => home'[m] = home[m]
  BY <1>1, Frames DEF OPatch, OPatchFails
<1>3. \A j \in 1..(q - 1) : KindOf(j) = "opatch" => home'[NodeOf(j)] = "new"
  <2> SUFFICES ASSUME NEW j \in 1..(q - 1), KindOf(j) = "opatch"
               PROVE  home'[NodeOf(j)] = "new"
    OBVIOUS
  <2>1. home[NodeOf(j)] = "new"
    BY DEF HomeInv
  <2>2. j \in 1..Count /\ j # q
    BY FirstKind
  <2>3. CASE home' = home
    BY <2>1, <2>3
  <2>4. CASE OPatch \/ OPatchFails
    <3>1. KindOf(q) = "opatch"
      BY <2>4, ActsAt
    <3>2. NodeOf(j) # NodeOf(q)
      BY <2>2, <3>1, OneOPatchPerNode
    <3>3. NodeOf(j) \in Node
      BY <2>2, TaskKinds
    <3> QED BY <1>2, <2>1, <3>2, <3>3
  <2> QED BY <2>3, <2>4, Frames
<1>4. ASSUME KindOf(q) = "opatch", Past(11)'
      PROVE  home'[NodeOf(q)] = "new"
  <2>1. home' = home
    BY <1>4, Frames, ActsAt DEF Past
  <2>2. CASE Past(11)
    BY <1>4, <2>1, <2>2 DEF HomeInv
  <2>3. CASE Forward(q) /\ run.pc = 11
    <3>1. Op = "new" /\ run.phase = "stage"
      BY <1>4, <2>3, ProgramChecks DEF Forward
    <3>2. Passes("new")
      BY <2>3, <3>1 DEF Forward, Checked
    <3>3. home[LocalNode] = "new" \/ home[LocalNode] = "torn"
      BY <3>2 DEF Passes, Inventory
    <3>4. home[NodeOf(q)] # "torn"
      BY <1>1, <3>1 DEF HomeInv, TornInv
    <3> QED BY <1>1, <2>1, <3>3, <3>4
  <2> QED BY <1>4, <2>2, <2>3, PastStep
<1>5. ASSUME NEW m \in Node, home'[m] = "torn"
      PROVE  m = NodeOf(q) /\ KindOf(q) = "opatch" /\ TornInv(q)'
  <2>1. CASE OPatchFails
    <3>1. KindOf(q) = "opatch" /\ run.phase = "stage" /\ run'.phase = "ended" /\ ~run'.ok
      BY <2>1, ActsAt
    <3>2. m = NodeOf(q)
      BY <1>2, <1>5, <3>1 DEF HomeInv, TornInv
    <3>3. "binary-state-unknown" \in marks'
      BY <2>1 DEF OPatchFails
    <3> QED BY <3>1, <3>2, <3>3 DEF TornInv
  <2>2. CASE OPatch
    <3>1. home'[NodeOf(q)] # "torn" /\ run.phase = "stage"
      BY <1>1, <2>2, ActsAt DEF OPatch
    <3> QED BY <1>2, <1>5, <3>1 DEF HomeInv, TornInv
  <2>3. CASE home' = home
    <3>1. m = NodeOf(q) /\ KindOf(q) = "opatch" /\ TornInv(q)
      BY <1>5, <2>3 DEF HomeInv
    <3>2. run.phase # "stage" /\ run \in Run
      BY <3>1 DEF TornInv, TypeOK, Run
    <3>3. ~Die /\ ~Mark /\ ~OPatchFails /\ ~HeartbeatFails /\ ~Forward(q) /\ ~Drains(q)
          /\ ~Ends(q)
      BY <3>2 DEF Die, Mark, OPatchFails, HeartbeatFails, At, Forward, Drains, Ends
    <3>4. CASE run.phase = "ended"
      <4>1. ~run.ok /\ "binary-state-unknown" \in marks
        BY <3>1, <3>4 DEF TornInv
      <4>2. run # Stopped
        BY <3>4, StoppedIs
      <4>3. ~Claim
        BY <4>2 DEF Claim
      <4>4. marks' = marks
        BY <3>3, <4>3, Frames
      <4>5. CASE Report
        <5>1. FailureClass = "binary_state_unknown"
          BY <4>1 DEF FailureClass
        <5>2. evidence' = [post |-> "unknown", class |-> "binary_state_unknown"]
          BY <4>1, <4>5, <5>1 DEF Report
        <5>3. status'[q] = "failed" /\ run' = Stopped
          <6>1. status' = [status EXCEPT ![q] = "failed"]
            BY <1>1, <4>1, <4>5 DEF Report, Fail
          <6>2. status \in [1..Count -> Statuses]
            BY DEF TypeOK, Count, Statuses
          <6> QED BY <4>5, <6>1, <6>2 DEF Report
        <5> QED BY <3>1, <5>2, <5>3, StoppedIs DEF TornInv
      <4>6. CASE Abandon
        <5>1. status[q] # "running" /\ run' = Stopped /\ status' = status
          BY <1>1, <4>6 DEF Abandon, tasks
        <5>2. status'[q] = "unknown"
          BY <4>2, <5>1 DEF TaskInv
        <5> QED BY <3>1, <5>1, <5>2, StoppedIs DEF TornInv
      <4>7. CASE Stays
        BY <3>1, <3>4, <4>1, <4>4, <4>7 DEF TornInv, Stays
      <4> QED BY <3>3, <4>3, <4>5, <4>6, <4>7, ExecutorStep
    <3>5. CASE run.phase = "none"
      <4>1. run = Stopped
        BY <3>5 DEF ExecutorInv
      <4>2. \/ status[q] = "unknown"
            \/ /\ status[q] = "failed"
               /\ evidence = [post |-> "unknown", class |-> "binary_state_unknown"]
        BY <3>1, <3>5 DEF TornInv
      <4>3. ~Claim
        BY <1>1, <4>2 DEF Claim
      <4>4. ~Report /\ ~LeaseExpires
        BY <1>1, <4>2 DEF Report, LeaseExpires
      <4>5. ~Retry
        BY <1>1, <4>2 DEF Retry, MayRetry, SafeToRetry
      <4>6. status' = status /\ evidence' = evidence
        BY <4>3, <4>4, <4>5, StatusStep
      <4>7. run' = run
        BY <3>3, <3>5, <4>1, <4>3, <4>4, ExecutorStep DEF SupervisorDies, Abandon
      <4> QED BY <3>1, <3>5, <4>2, <4>6, <4>7 DEF TornInv
    <3> QED BY <3>2, <3>4, <3>5 DEF Run
  <2> QED BY <2>1, <2>2, <2>3, Frames
<1>6. sql' => KindOf(q) \in {"datapatch", "final"}
  BY Frames, ActsAt DEF HomeInv
<1> QED BY <1>3, <1>4, <1>5, <1>6 DEF HomeInv

LEMMA AheadStep ==
  ASSUME TypeOK, ExecutorInv, NEW q \in 1..Count, Current(q), TaskInv(q), Next,
         HomeInv(q), AheadInv(q)
  PROVE  AheadInv(q)'
<1>1. /\ LocalNode = NodeOf(q) /\ NodeOf(q) \in Node /\ run \in Run
      /\ home \in [Node -> {"old", "new", "torn"}] /\ inst \in [Node -> {"running", "stopped"}]
  BY TaskAtHand, TaskKinds DEF TypeOK, Run
<1>2. ASSUME NEW j \in (q + 1)..Count, KindOf(j) = "opatch"
      PROVE  home'[NodeOf(j)] = "old"
  <2>1. home[NodeOf(j)] = "old"
    BY <1>2 DEF AheadInv
  <2>2. j \in 1..Count /\ j # q
    BY FirstKind
  <2>3. CASE OPatch \/ OPatchFails
    <3>1. KindOf(q) = "opatch"
      BY <2>3, ActsAt
    <3>2. NodeOf(j) # NodeOf(q) /\ NodeOf(j) \in Node
      BY <1>2, <2>2, <3>1, OneOPatchPerNode, TaskKinds
    <3>3. home'[NodeOf(j)] = home[NodeOf(j)]
      BY <1>1, <2>3, <3>2 DEF OPatch, OPatchFails
    <3> QED BY <2>1, <3>3
  <2> QED BY <2>1, <2>3, Frames
<1>3. ASSUME KindOf(q) = "opatch", Past(3)'
      PROVE  inst'[NodeOf(q)] = "stopped"
  <2>1. inst' = inst
    BY <1>3, Frames, ActsAt
  <2>2. CASE Past(3)
    BY <1>3, <2>1, <2>2 DEF AheadInv
  <2>3. CASE Forward(q) /\ run.pc = 3
    <3>1. Op = "stopped"
      BY <1>3, <2>3, ProgramChecks DEF Forward
    <3>2. Passes("stopped")
      BY <2>3, <3>1 DEF Forward, Checked
    <3> QED BY <1>1, <2>1, <3>2 DEF Passes, InstanceIs
  <2> QED BY <1>3, <2>2, <2>3, PastStep
<1>4. ASSUME NEW k \in 1..12, Past(k)'
      PROVE  run.pc <= run'.pc /\ run.pc \in Nat /\ run'.pc \in Nat
  <2> run.pc \in Nat /\ run'.pc \in Nat
    <3>1. run' \in Run
      BY ExecutorStep
    <3> QED BY SMTT(60), <1>1, <3>1 DEF Run
  <2>1. CASE Forward(q)
    BY <1>1, <2>1 DEF Forward, Run
  <2>2. CASE Past(k)
    BY SMTT(60), <1>1, <1>4, <2>2, StoppedIs, ExecutorStep
       DEF Past, Run, Started, Forward, Drains, Ends, Stays, Claim
  <2> QED BY <1>4, <2>1, <2>2, PastStep
<1>5. ASSUME KindOf(q) = "opatch", Past(7)', run'.pc <= 9
      PROVE  home'[NodeOf(q)] = "old"
  <2>1. home' = home
    BY <1>5, Frames, ActsAt DEF Past
  <2>2. run.pc <= 9
    <3>1. run.pc <= run'.pc /\ run.pc \in Nat /\ run'.pc \in Nat
      BY <1>4, <1>5
    <3> QED BY <1>5, <3>1
  <2>3. CASE Past(7)
    BY <1>5, <2>1, <2>2, <2>3 DEF AheadInv
  <2>4. CASE Forward(q) /\ run.pc = 7
    <3>1. Op = "old" /\ run.phase = "stage"
      BY <1>5, <2>4, ProgramChecks DEF Forward
    <3>2. Passes("old")
      BY <2>4, <3>1 DEF Forward, Checked
    <3>3. home[LocalNode] = "old" \/ home[LocalNode] = "torn"
      BY <3>2 DEF Passes, Inventory
    <3>4. home[NodeOf(q)] # "torn"
      BY <1>1, <3>1 DEF HomeInv, TornInv
    <3> QED BY <1>1, <2>1, <3>3, <3>4
  <2> QED BY <1>5, <2>3, <2>4, PastStep
<1>6. ASSUME KindOf(q) = "start", Past(4)', run'.pc <= 5
      PROVE  inst'[NodeOf(q)] = "stopped"
  <2>1. run.pc <= 5
    <3>1. run.pc <= run'.pc /\ run.pc \in Nat /\ run'.pc \in Nat
      BY <1>4, <1>6
    <3> QED BY <1>6, <3>1
  <2>2. CASE Forward(q) /\ run.pc = 4
    <3>1. Op = "stopped"
      BY <1>6, <2>2, ProgramChecks DEF Forward
    <3>2. Passes("stopped")
      BY <2>2, <3>1 DEF Forward, Checked
    <3>3. inst' = inst
      BY <1>6, <2>2, Frames, ActsAt
    <3> QED BY <1>1, <3>2, <3>3 DEF Passes, InstanceIs
  <2>3. CASE Past(4)
    <3>1. inst[NodeOf(q)] = "stopped"
      BY <1>6, <2>1, <2>3 DEF AheadInv
    <3>2. ~StartInstance
      <4> SUFFICES ASSUME StartInstance PROVE FALSE
        OBVIOUS
      <4>1. run.pc = 5 /\ run' = [run EXCEPT !.pc = run.pc + 1]
        BY ActsAt DEF StartInstance, Advance
      <4>2. run'.pc = 6
        BY <1>1, <4>1 DEF Run
      <4> QED BY <1>6, <4>2
    <3>3. inst' = inst
      BY <1>6, <3>2, Frames, ActsAt
    <3> QED BY <3>1, <3>3
  <2> QED BY <1>6, <2>2, <2>3, PastStep
<1> QED BY <1>2, <1>3, <1>5, <1>6 DEF AheadInv

LEMMA ServeStep ==
  ASSUME TypeOK, ExecutorInv, NEW q \in 1..Count, Current(q), TaskInv(q), Next, ServeInv(q)
  PROVE  ServeInv(q)'
<1>1. /\ LocalNode = NodeOf(q) /\ NodeOf(q) \in Node /\ KindOf(q) \in Kinds
      /\ run \in Run /\ run' \in Run
  BY TaskAtHand, TaskKinds, ExecutorStep DEF TypeOK, Run
<1>2. ASSUME NEW k \in 1..12, Past(k)', run'.survivor # run.survivor
      PROVE  run'.survivor \in Node \ {NodeOf(q)}
  <2>1. Forward(q)
    BY <1>2, ExecutorStep, StoppedIs DEF Started, Drains, Ends, Stays, Past
  <2>2. FindSurvivor
    BY <1>2, <2>1 DEF Forward
  <2>3. run' = [run EXCEPT !.pc = @ + 1, !.survivor = Survivor]
    BY <2>2 DEF FindSurvivor
  <2>4. run'.survivor = Survivor
    BY <1>1, <2>3 DEF Run
  <2> QED BY <1>1, <2>2, <2>4, SurvivorIsOther
<1>3. ASSUME KindOf(q) = "drain", Past(3)'
      PROVE  run'.survivor \in Node \ {NodeOf(q)}
  <2>1. CASE Past(3)
    BY <1>2, <1>3, <2>1 DEF ServeInv
  <2>2. CASE Forward(q) /\ run.pc = 3
    <3>1. FindSurvivor
      BY <1>3, <2>2, ProgramChecks DEF Forward
    <3>2. run' = [run EXCEPT !.pc = @ + 1, !.survivor = Survivor]
      BY <3>1 DEF FindSurvivor
    <3>3. run'.survivor = Survivor
      BY <1>1, <3>2 DEF Run
    <3> QED BY <1>1, <3>1, <3>3, SurvivorIsOther
  <2> QED BY <1>3, <2>1, <2>2, PastStep
<1>4. ASSUME KindOf(q) = "stop", Past(4)'
      PROVE  run'.survivor \in Node \ {NodeOf(q)}
  <2>1. CASE Past(4)
    BY <1>2, <1>4, <2>1 DEF ServeInv
  <2>2. CASE Forward(q) /\ run.pc = 4
    <3>1. FindSurvivor
      BY <1>4, <2>2, ProgramChecks DEF Forward
    <3>2. run' = [run EXCEPT !.pc = @ + 1, !.survivor = Survivor]
      BY <3>1 DEF FindSurvivor
    <3>3. run'.survivor = Survivor
      BY <1>1, <3>2 DEF Run
    <3> QED BY <1>1, <3>1, <3>3, SurvivorIsOther
  <2> QED BY <1>4, <2>1, <2>2, PastStep
<1>5. ASSUME KindOf(q) = "stop", Past(5)', run'.pc = 6, NEW s \in Services,
             NodeOf(q) \in svc'[s]
      PROVE  run'.survivor \in svc'[s]
  <2>1. svc' = svc
    BY <1>5, Frames, ActsAt
  <2>2. CASE Past(5)
    <3>1. ~Forward(q)
      BY <1>1, <1>5, <2>2 DEF Forward, Past, Run
    <3>2. run'.survivor = run.survivor /\ run'.pc = run.pc
      BY <1>5, <3>1, ExecutorStep, StoppedIs DEF Started, Drains, Ends, Stays
    <3> QED BY <1>5, <2>1, <2>2, <3>2 DEF ServeInv
  <2>3. CASE Forward(q) /\ run.pc = 5
    <3>1. Op = "services_away" /\ run'.survivor = run.survivor
      BY <1>5, <2>3, ProgramChecks DEF Forward
    <3>2. Passes("services_away")
      BY <2>3, <3>1 DEF Forward, Checked
    <3>3. ~OnlyHere(s)
      BY <3>2 DEF Passes
    <3> QED BY <1>1, <1>5, <2>1, <3>1, <3>3 DEF OnlyHere
  <2> QED BY <1>5, <2>2, <2>3, PastStep
<1> QED BY <1>3, <1>4, <1>5 DEF ServeInv

LEMMA ServicesUpStep ==
  ASSUME TypeOK, ExecutorInv, NEW q \in 1..Count, Current(q), TaskInv(q), Next, ServeInv(q),
         ServiceAlwaysUp
  PROVE  ServiceAlwaysUp'
<1>1. LocalNode = NodeOf(q) /\ svc \in [Services -> SUBSET Node]
  BY TaskAtHand DEF TypeOK
<1> SUFFICES ASSUME NEW t \in Services PROVE svc'[t] # {}
  BY DEF ServiceAlwaysUp
<1>2. svc[t] # {}
  BY DEF ServiceAlwaysUp
<1>3. CASE StopInstance
  <2>1. KindOf(q) = "stop" /\ Past(5) /\ Past(4) /\ run.pc = 6
    BY <1>3, ActsAt DEF Past
  <2>2. run.survivor # NodeOf(q) /\ (NodeOf(q) \in svc[t] => run.survivor \in svc[t])
    BY <2>1 DEF ServeInv
  <2> QED BY <1>1, <1>2, <1>3, <2>2 DEF StopInstance
<1>4. ASSUME NEW s \in Services, DrainService(s) \/ RestoreService(s)
      PROVE  svc'[t] # {}
  BY ZenonT(60), <1>1, <1>2, <1>4 DEF DrainService, RestoreService, Move
<1> QED BY <1>2, <1>3, <1>4, Frames
-----------------------------------------------------------------------------
(* Services, while the plan stays at its task *)

LEMMA DrainRecordStep ==
  ASSUME TypeOK, ExecutorInv, NEW q \in 1..Count, Current(q), TaskInv(q), Next, RestoreInv(q),
         KindOf(q) = "drain", Past(6)'
  PROVE  drain'[NodeOf(q)] = [moved |-> run'.moved, survivor |-> run'.survivor]
<1>1. LocalNode = NodeOf(q) /\ NodeOf(q) \in Node /\ run \in Run /\ drain \in [Node -> Drained]
  BY TaskAtHand, TaskKinds DEF TypeOK, Run, Drained
<1>2. CASE Past(6)
  <2>1. ~Forward(q) /\ ~SaveDrain
    BY <1>1, <1>2, ProgramLengths, ActsAt DEF Forward, Past, Run
  <2>2. ~Drains(q)
    BY <1>2 DEF Drains, Past
  <2>3. run'.moved = run.moved /\ run'.survivor = run.survivor
    BY <2>1, <2>2, ExecutorStep, StoppedIs DEF Started, Ends, Stays, Past
  <2>4. drain' = drain
    BY <2>1, Frames
  <2> QED BY <1>2, <2>3, <2>4 DEF RestoreInv
<1>3. CASE Forward(q) /\ run.pc = 6
  <2>1. SaveDrain
    BY <1>3, ProgramChecks DEF Forward
  <2>2. run'.moved = run.moved /\ run'.survivor = run.survivor
    BY <2>1, ActsAt
  <2>3. drain' = [drain EXCEPT ![NodeOf(q)] = [moved |-> run.moved, survivor |-> run.survivor]]
    BY <1>1, <2>1 DEF SaveDrain
  <2> QED BY <1>1, <2>2, <2>3
<1> QED BY <1>2, <1>3, PastStep

(* A plan without failures has had none before, and none just now.         *)
LEMMA SmoothStep ==
  ASSUME TypeOK, ExecutorInv, NEW q \in 1..Count, Current(q), TaskInv(q), Next, ~Passing, Smooth'
  PROVE  Smooth /\ (run' # Stopped \/ run' = run)
<1>1. retries' = 0 /\ plan' # "paused" /\ (run'.phase = "ended" => run'.ok)
  BY DEF Smooth
<1>2. retries \in Nat /\ plan \in {"running", "paused", "succeeded"} /\ plan # "succeeded"
      /\ Pos = q
  BY TaskAtHand DEF TypeOK, Current
<1>3. ~Retry /\ retries = 0
  BY <1>1, <1>2, Frames DEF Retry
<1>4. ~Report /\ ~LeaseExpires
  BY <1>1, <1>2, StatusStep DEF Report, Passing, Fail, LeaseExpires
<1>5. plan # "paused"
  BY <1>1, <1>3, <1>4, StatusStep
<1>6. ~Abandon
  <2> SUFFICES ASSUME Abandon PROVE FALSE
    OBVIOUS
  <2>1. status[q] # "running" /\ run # Stopped
    BY <1>2, StoppedIs DEF Abandon
  <2> QED BY <1>2, <1>5, <2>1 DEF TaskInv
<1>7. run.phase = "ended" => run.ok
  BY <1>1, <1>4, <1>6, ExecutorStep DEF Started, Claim, Forward, Drains, Ends, Stays, Stopped
<1>8. run' # Stopped \/ run' = run
  BY <1>4, <1>6, ExecutorStep, StoppedIs
     DEF Started, Forward, Drains, Ends, Stays, SupervisorDies, ExecutorInv
<1> QED BY <1>3, <1>5, <1>7, <1>8 DEF Smooth

LEMMA PlaceStep ==
  ASSUME TypeOK, ExecutorInv, NEW q \in 1..Count, Current(q), TaskInv(q), Next, ~Passing,
         ServeInv(q), Smooth, run' # Stopped \/ run' = run, Smooth',
         NEW s \in Services, NEW p \in Node, PlaceInv(s, p, q)
  PROVE  PlaceInv(s, p, q)'
<1> DEFINE n == NodeOf(q)
           k == KindOf(q)
<1>1. /\ LocalNode = n /\ n \in Node /\ k \in Kinds /\ run \in Run /\ run' \in Run
      /\ svc \in [Services -> SUBSET Node] /\ drain \in [Node -> Drained]
  BY SMTT(60), TaskAtHand, TaskKinds, ExecutorStep DEF TypeOK, Run, Drained
<1>2. /\ (n # p \/ k \in {"precheck", "validate", "datapatch", "final"} => svc[s] = {p})
      /\ (n # p /\ k = "drain" => s \notin run.moved)
      /\ (n # p /\ k \in {"stop", "opatch", "start"} => s \notin drain[n].moved)
      /\ (n = p /\ k = "drain" => \/ svc[s] = {p} /\ ~Past(5)
                                  \/ svc[s] = {run.survivor} /\ s \in run.moved /\ Past(3))
      /\ (n = p /\ k \in {"stop", "opatch", "start"} =>
            s \in drain[n].moved /\ drain[n].survivor # p)
      /\ (n = p /\ k \in {"stop", "opatch"} => svc[s] = {drain[n].survivor})
      /\ (n = p /\ k = "start" => \/ svc[s] = {p}
                                  \/ svc[s] = {drain[n].survivor} /\ ~Past(9))
  BY DEF PlaceInv
<1>3. SUFFICES
      /\ (n # p \/ k \in {"precheck", "validate", "datapatch", "final"} => svc'[s] = {p})
      /\ (n # p /\ k = "drain" => s \notin run'.moved)
      /\ (n # p /\ k \in {"stop", "opatch", "start"} => s \notin drain'[n].moved)
      /\ (n = p /\ k = "drain" => \/ svc'[s] = {p} /\ ~Past(5)'
                                  \/ svc'[s] = {run'.survivor} /\ s \in run'.moved /\ Past(3)')
      /\ (n = p /\ k \in {"stop", "opatch", "start"} =>
            s \in drain'[n].moved /\ drain'[n].survivor # p)
      /\ (n = p /\ k \in {"stop", "opatch"} => svc'[s] = {drain'[n].survivor})
      /\ (n = p /\ k = "start" => \/ svc'[s] = {p}
                                  \/ svc'[s] = {drain'[n].survivor} /\ ~Past(9)')
  BY DEF PlaceInv
<1> HIDE DEF n, k
<1>4. k = "drain" \/ drain' = drain
  BY Frames, ActsAt DEF k
(* The services. *)
<1>5. k \notin {"drain", "start"} => svc'[s] = svc[s]
  <2> SUFFICES ASSUME k \notin {"drain", "start"} PROVE svc'[s] = svc[s]
    OBVIOUS
  <2>1. CASE StopInstance
    <3>1. k = "stop"
      BY <2>1, ActsAt DEF k
    <3>2. n \notin svc[s]
      BY <1>2, <3>1
    <3>3. svc'[s] = svc[s] \ {n} \/ svc'[s] = svc[s]
      BY <1>1, <2>1 DEF StopInstance
    <3>4. svc[s] \ {n} = svc[s]
      BY <3>2
    <3> QED BY <3>3, <3>4
  <2>2. CASE ~StopInstance
    <3>1. svc' = svc
      BY <2>2, Frames, ActsAt DEF k
    <3> QED BY <3>1
  <2> QED BY <2>1, <2>2
<1>6. CASE k \notin {"drain", "start"}
  BY <1>2, <1>4, <1>5, <1>6
<1>7. CASE k = "drain"
  <2>1. CASE \E t \in Services : DrainService(t)
    <3>1. PICK t \in Services : DrainService(t)
      BY <2>1
    <3>2. /\ run.phase = "stage" /\ run.pc = 4 /\ run'.phase = "stage" /\ run'.pc = 4
          /\ run'.moved = run.moved \cup {t} /\ run'.survivor = run.survivor
      BY <3>1, ActsAt
    <3>3. Past(3) /\ Past(3)' /\ ~Past(5)' /\ run.survivor \in Node \ {n}
      BY <1>7, <3>2 DEF Past, ServeInv, n, k
    <3>4. /\ n \in svc[t] /\ run.survivor \notin svc[t]
          /\ svc' = [svc EXCEPT ![t] = (@ \ {n}) \cup {run.survivor}]
      BY <1>1, <3>1 DEF DrainService, ToMove, OnlyHere, Move, n
    <3>5. CASE t = s
      <4>1. n = p
        BY <1>2, <3>4, <3>5
      <4>2. svc[s] = {p}
        BY <1>2, <1>7, <3>4, <3>5, <4>1
      <4>3. svc'[s] = {run.survivor}
        BY <1>1, <3>3, <3>4, <3>5, <4>1, <4>2
      <4> QED BY <1>7, <3>2, <3>3, <3>5, <4>1, <4>3
    <3>6. CASE t # s
      <4>1. svc'[s] = svc[s] /\ (s \in run'.moved <=> s \in run.moved)
        BY <1>1, <3>2, <3>4, <3>6
      <4> QED BY <1>2, <1>7, <3>2, <3>3, <4>1
    <3> QED BY <3>5, <3>6
  <2>2. CASE ~\E t \in Services : DrainService(t)
    <3>1. svc' = svc
      BY <1>7, <2>2, Frames, ActsAt DEF k
    <3>2. ~Drains(q)
      BY <2>2 DEF Drains
    <3>3. CASE Claim /\ Started
      <4>1. run = Stopped
        BY <3>3 DEF Claim
      <4>2. svc[s] = {p}
        BY <1>2, <1>7, <4>1, StoppedIs
      <4>3. ~Past(5)' /\ s \notin run'.moved
        BY <3>3 DEF Started, Past
      <4> QED BY <1>7, <3>1, <4>2, <4>3
    <3>4. CASE ~(Claim /\ Started)
      <4>1. run'.moved = run.moved
        BY <3>2, <3>4, ExecutorStep DEF Forward, Ends, Stays
      <4>2. Past(3) => Past(3)' /\ run'.survivor = run.survivor
        <5> SUFFICES ASSUME Past(3) PROVE Past(3)' /\ run'.survivor = run.survivor
          OBVIOUS
        <5>1. run # Stopped
          BY StoppedIs DEF Past
        <5>2. CASE Forward(q)
          <6>1. Op # "survivor"
            <7>1. /\ run.pc \in 1..Len(Program[KindOf(q)])
                  /\ Op = Program[KindOf(q)][run.pc] /\ run.pc > 3
              BY <5>2 DEF Forward, Past
            <7>2. KindOf(q) = "drain" /\ KindOf(q) \in Kinds
              BY <1>1, <1>7 DEF k
            <7> QED BY SMTT(60), <7>1, <7>2, ProgramSteps
          <6> QED BY <5>2, <6>1 DEF Forward, Past
        <5>3. CASE Ends(q)
          BY <5>3 DEF Ends, Past, Smooth
        <5>4. CASE Stays
          BY <5>4 DEF Stays, Past
        <5> QED BY <3>2, <3>4, <5>1, <5>2, <5>3, <5>4, ExecutorStep
      <4>3. ASSUME svc[s] = {p}, n = p, ~Past(5), Past(5)' PROVE FALSE
        <5>1. Forward(q) /\ run.pc = 5
          BY <4>3, PastStep
        <5>2. Op = "services_away" /\ Past(3)
          BY <1>7, <5>1, ProgramChecks DEF Forward, Past, k
        <5>3. Passes("services_away")
          BY <5>1, <5>2 DEF Forward, Checked
        <5>4. ~OnlyHere(s)
          BY <5>3 DEF Passes
        <5>5. run.survivor # n
          BY <1>7, <5>2 DEF ServeInv, n, k
        <5> QED BY <1>1, <4>3, <5>4, <5>5 DEF OnlyHere
      <4> QED BY <1>2, <1>7, <3>1, <4>1, <4>2, <4>3
    <3> QED BY <3>3, <3>4
  <2> QED BY <2>1, <2>2
<1>8. CASE k = "start"
  <2>1. drain' = drain
    BY <1>4, <1>8
  <2>2. CASE \E t \in Services : RestoreService(t)
    <3>1. PICK t \in Services : RestoreService(t)
      BY <2>2
    <3>2. run' = run
      BY <3>1, ActsAt
    <3>3. /\ t \in drain[n].moved /\ n \notin svc[t]
          /\ svc' = [svc EXCEPT ![t] = (@ \ {drain[n].survivor}) \cup {n}]
      BY <1>1, <3>1 DEF RestoreService, ToRestore, Move, n
    <3>4. CASE t = s
      <4>1. n = p
        BY <1>2, <1>8, <3>3, <3>4
      <4>2. svc[s] = {drain[n].survivor}
        BY <1>2, <1>8, <3>3, <3>4, <4>1
      <4>3. svc'[s] = {p}
        BY <1>1, <3>3, <3>4, <4>1, <4>2
      <4> QED BY <1>2, <1>8, <2>1, <4>1, <4>3
    <3>5. CASE t # s
      <4>1. svc'[s] = svc[s] /\ (Past(9)' <=> Past(9))
        BY <1>1, <3>2, <3>3, <3>5 DEF Past
      <4> QED BY <1>2, <1>8, <2>1, <4>1
    <3> QED BY <3>4, <3>5
  <2>3. CASE ~\E t \in Services : RestoreService(t)
    <3>1. svc' = svc
      BY <1>8, <2>3, Frames, ActsAt DEF k
    <3>2. ASSUME svc[s] = {drain[n].survivor}, n = p, ~Past(9), Past(9)' PROVE FALSE
      <4>1. Forward(q) /\ run.pc = 9
        BY <3>2, PastStep
      <4>2. Op = "restored"
        BY <1>8, <4>1, ProgramChecks DEF Forward, k
      <4>3. Passes("restored")
        BY <4>1, <4>2 DEF Forward, Checked
      <4>4. LocalNode \in svc[s]
        BY <1>1, <1>2, <1>8, <3>2, <4>3 DEF Passes
      <4> QED BY <1>1, <1>2, <1>8, <3>2, <4>4
    <3> QED BY <1>2, <1>8, <2>1, <3>1, <3>2
  <2> QED BY <2>2, <2>3
<1> QED BY <1>6, <1>7, <1>8

LEMMA RestoreStep ==
  ASSUME TypeOK, ExecutorInv, NEW q \in 1..Count, Current(q), TaskInv(q), Next, ~Passing,
         ServeInv(q), RestoreInv(q)
  PROVE  RestoreInv(q)'
<1>1. ASSUME Smooth', NEW s \in Services, NEW p \in Node, Placement[s] = {p}
      PROVE  PlaceInv(s, p, q)'
  <2>1. Smooth /\ (run' # Stopped \/ run' = run)
    BY <1>1, SmoothStep
  <2>2. PlaceInv(s, p, q)
    BY <1>1, <2>1 DEF RestoreInv
  <2> QED BY <1>1, <2>1, <2>2, PlaceStep
<1> QED BY <1>1, DrainRecordStep DEF RestoreInv
-----------------------------------------------------------------------------
(* The plan goes on to its next task, or ends *)

LEMMA PassingIs ==
  ASSUME TypeOK, ExecutorInv, NEW q \in 1..Count, Current(q), TaskInv(q), Passing
  PROVE  /\ run.phase = "ended" /\ run.ok /\ run.pc > Len(Program[KindOf(q)]) /\ run' = Stopped
         /\ status[q] = "running" /\ status' = [status EXCEPT ![q] = "succeeded"]
         /\ plan = "running" /\ (q < Count => plan' = plan) /\ (q = Count => plan' = "succeeded")
         /\ UNCHANGED <<inst, home, svc, sql, drain, retries, marks>>
<1>1. Pos = q /\ status \in [1..Count -> Statuses]
  BY TaskAtHand DEF TypeOK, Count, Statuses
<1>2. /\ run.phase = "ended" /\ run.ok /\ run' = Stopped /\ status[q] = "running"
      /\ Succeed /\ UNCHANGED <<inst, home, svc, sql, drain, marks>>
  BY <1>1 DEF Passing, Report, oracle, files
<1>3. plan = "running" /\ run.pc > Len(Program[KindOf(q)])
  BY <1>2 DEF TaskInv
<1>4. CASE q < Count
  <2>1. status[Count] = "pending" /\ Count \in 1..Len(Tasks)
    BY <1>4, FirstKind DEF TaskInv, Count
  <2>2. Count \in Unfinished /\ Count # q
    BY <1>4, <2>1, FirstKind DEF Unfinished
  <2>3. Unfinished # {q}
    BY <2>2
  <2> QED BY <1>1, <1>2, <1>3, <1>4, <2>3, FirstKind DEF Succeed
<1>5. CASE q = Count
  <2>1. \A i \in 1..Len(Tasks) : i # q => status[i] = "succeeded"
    BY <1>5, FirstKind DEF Current, Count
  <2>2. Unfinished = {q}
    BY <1>2, <2>1 DEF Unfinished, Count
  <2> QED BY <1>1, <1>2, <1>3, <1>5, <2>2, FirstKind DEF Succeed
<1> QED BY <1>4, <1>5, FirstKind

(* Nothing is left of the attempt.                                         *)
LEMMA NothingPast == run' = Stopped => \A k \in 1..12 : ~Past(k)'
BY StoppedIs DEF Past

LEMMA PlaceMovesOn ==
  ASSUME TypeOK, ExecutorInv, NEW q \in 1..(Count - 1), Current(q), TaskInv(q), Passing,
         ServeInv(q), RestoreInv(q),
         NEW s \in Services, NEW p \in Node, PlaceInv(s, p, q)
  PROVE  PlaceInv(s, p, q + 1)'
<1> DEFINE n == NodeOf(q)
           k == KindOf(q)
           m == NodeOf(q + 1)
           l == KindOf(q + 1)
<1>1. q \in 1..Count /\ q < Count
  BY FirstKind
<1>2. /\ run.phase = "ended" /\ run.ok /\ run.pc > Len(Program[k]) /\ run' = Stopped
      /\ svc' = svc /\ drain' = drain
  BY <1>1, PassingIs
<1>3. /\ (n # p \/ k \in {"precheck", "validate", "datapatch", "final"} => svc[s] = {p})
      /\ (n # p /\ k = "drain" => s \notin run.moved)
      /\ (n # p /\ k \in {"stop", "opatch", "start"} => s \notin drain[n].moved)
      /\ (n = p /\ k = "drain" => \/ svc[s] = {p} /\ ~Past(5)
                                  \/ svc[s] = {run.survivor} /\ s \in run.moved /\ Past(3))
      /\ (n = p /\ k \in {"stop", "opatch", "start"} =>
            s \in drain[n].moved /\ drain[n].survivor # p)
      /\ (n = p /\ k \in {"stop", "opatch"} => svc[s] = {drain[n].survivor})
      /\ (n = p /\ k = "start" => \/ svc[s] = {p}
                                  \/ svc[s] = {drain[n].survivor} /\ ~Past(9))
  BY DEF PlaceInv
<1>4. /\ k \in Kinds
      /\ (k = "precheck" => l = "drain" /\ m = n) /\ (k = "drain" => l = "stop" /\ m = n)
      /\ (k = "stop" => l = "opatch" /\ m = n) /\ (k = "opatch" => l = "start" /\ m = n)
      /\ (k = "start" => l = "validate" /\ m = n)
      /\ (k = "validate" => l \in {"precheck", "datapatch"}) /\ (k = "datapatch" => l = "final")
      /\ k # "final"
  BY <1>1, TaskKinds
<1>5. SUFFICES
      /\ (m # p \/ l \in {"precheck", "validate", "datapatch", "final"} => svc[s] = {p})
      /\ (m = p /\ l = "drain" => svc[s] = {p})
      /\ (m # p /\ l \in {"stop", "opatch", "start"} => s \notin drain[m].moved)
      /\ (m = p /\ l \in {"stop", "opatch", "start"} =>
            s \in drain[m].moved /\ drain[m].survivor # p)
      /\ (m = p /\ l \in {"stop", "opatch"} => svc[s] = {drain[m].survivor})
      /\ (m = p /\ l = "start" => svc[s] = {drain[m].survivor})
  <2>1. run'.moved = {} /\ ~Past(3)' /\ ~Past(5)' /\ ~Past(9)'
    BY <1>2, StoppedIs, NothingPast
  <2> QED BY <1>2, <2>1 DEF PlaceInv
<1>6. /\ (k = "drain" => Past(3) /\ Past(5) /\ Past(6))
      /\ (k = "start" => Past(9))
  <2>1. run.pc \in 0..12
    BY DEF TypeOK
  <2>2. k = "drain" => run.pc > 6
    BY <1>2, ProgramLengths
  <2>3. k = "start" => run.pc > 10
    BY <1>2, ProgramLengths
  <2> HIDE DEF k
  <2> QED BY SMTT(60), <1>2, <2>1, <2>2, <2>3 DEF Past
<1>7. k = "drain" => /\ drain[n].moved = run.moved /\ drain[n].survivor = run.survivor
                     /\ run.survivor # n
  BY <1>6 DEF RestoreInv, ServeInv
<1> HIDE DEF n, k, m, l
<1>8. CASE k \in {"precheck", "validate", "datapatch"}
  BY <1>3, <1>4, <1>8
<1>9. CASE k = "drain"
  BY <1>3, <1>4, <1>6, <1>7, <1>9
<1>10. CASE k \in {"stop", "opatch"}
  BY <1>3, <1>4, <1>10
<1>11. CASE k = "start"
  BY <1>3, <1>4, <1>6, <1>11
<1> QED BY <1>4, <1>8, <1>9, <1>10, <1>11 DEF Kinds

LEMMA MovesOn ==
  ASSUME TypeOK, ExecutorInv, NEW q \in 1..(Count - 1), AtTask(q), Passing
  PROVE  AtTask(q + 1)'
<1> USE DEF AtTask
<1> DEFINE r == q + 1
<1>1. /\ q \in 1..Count /\ q < Count /\ r \in 1..Count /\ r - 1 = q
      /\ status \in [1..Count -> Statuses]
  BY FirstKind DEF TypeOK, Count, Statuses
<1>2. /\ run.phase = "ended" /\ run.ok /\ run.pc > Len(Program[KindOf(q)]) /\ run' = Stopped
      /\ status[q] = "running" /\ status' = [status EXCEPT ![q] = "succeeded"]
      /\ plan = "running" /\ plan' = "running"
      /\ UNCHANGED <<inst, home, svc, sql, drain, retries, marks>>
  BY <1>1, PassingIs
<1>3. \A k \in 1..12 : ~Past(k)'
  BY <1>2, NothingPast
<1>4. status'[r] = "pending"
  BY <1>1, <1>2 DEF TaskInv
<1>5. Current(r)'
  <2>1. ASSUME NEW i \in 1..(r - 1) PROVE status'[i] = "succeeded"
    BY <1>1, <1>2, <2>1 DEF Current
  <2> QED BY <1>2, <1>4, <2>1 DEF Current
<1>6. TaskInv(r)'
  <2>1. ASSUME NEW i \in (r + 1)..Count PROVE status'[i] = "pending"
    <3>1. i \in (q + 1)..Count /\ i # q /\ i \in 1..Count
      BY <1>1
    <3> QED BY <1>1, <1>2, <3>1 DEF TaskInv
  <2> QED BY <1>2, <1>4, <2>1, StoppedIs DEF TaskInv
<1>7. UpInv(r)'
  <2> SUFFICES ASSUME NEW m \in Node
               PROVE  \/ inst[m] = "running"
                      \/ m = NodeOf(r) /\ KindOf(r) \in {"stop", "opatch", "start", "validate"}
    BY <1>2, <1>3 DEF UpInv
  <2>1. CASE KindOf(q) = "validate"
    <3>1. Past(3)
      BY SMTT(60), <1>2, <2>1, ProgramLengths DEF Past, TypeOK
    <3> QED BY <2>1, <3>1 DEF UpInv
  <2>2. CASE KindOf(q) # "validate"
    BY <1>1, <2>2, TaskKinds DEF UpInv
  <2> QED BY <2>1, <2>2
<1>8. HomeInv(r)'
  <2>1. ASSUME NEW j \in 1..(r - 1), KindOf(j) = "opatch"
        PROVE  home[NodeOf(j)] = "new"
    <3>1. CASE j = q
      <4>1. Past(11)
        <5>1. KindOf(q) = "opatch"
          BY <2>1, <3>1
        <5>2. run.pc > 11
          BY <1>2, <5>1, ProgramLengths
        <5> QED BY <1>2, <5>2 DEF Past
      <4> QED BY <2>1, <3>1, <4>1 DEF HomeInv
    <3>2. CASE j # q
      <4>1. j \in 1..(q - 1)
        BY <1>1, <3>2
      <4> QED BY <2>1, <4>1 DEF HomeInv
    <3> QED BY <3>1, <3>2
  <2>2. \A m \in Node : home[m] # "torn"
    BY <1>2 DEF HomeInv, TornInv
  <2>3. sql => KindOf(r) \in {"datapatch", "final"}
    BY <1>1, TaskKinds DEF HomeInv
  <2> QED BY SMTT(60), <1>2, <1>3, <2>1, <2>2, <2>3 DEF HomeInv
<1>9. AheadInv(r)'
  <2>1. \A j \in (r + 1)..Count : j \in (q + 1)..Count
    BY <1>1
  <2>2. \A j \in (r + 1)..Count : KindOf(j) = "opatch" => home'[NodeOf(j)] = "old"
    BY <1>2, <2>1 DEF AheadInv
  <2> HIDE DEF r
  <2>3. ~Past(3)' /\ ~Past(7)' /\ ~Past(4)'
    BY <1>3
  <2> QED BY <2>2, <2>3 DEF AheadInv
<1>10. ServeInv(r)'
  BY <1>3 DEF ServeInv
<1>11. RestoreInv(r)'
  <2>1. ASSUME Smooth', NEW s \in Services, NEW p \in Node, Placement[s] = {p}
        PROVE  PlaceInv(s, p, r)'
    <3>1. Smooth
      BY <1>2, <2>1 DEF Smooth
    <3>2. PlaceInv(s, p, q)
      BY <2>1, <3>1 DEF RestoreInv
    <3> QED BY <1>1, <3>2, PlaceMovesOn
  <2> QED BY SMTT(60), <1>3, <2>1 DEF RestoreInv
<1> QED BY <1>5, <1>6, <1>7, <1>8, <1>9, <1>10, <1>11

LEMMA Finishes ==
  ASSUME TypeOK, ExecutorInv, AtTask(Count), Passing
  PROVE  plan' = "succeeded" /\ AtEnd'
<1> USE DEF AtTask
<1>1. Count \in 1..Count /\ KindOf(Count) = "final"
  BY FirstKind
<1>2. /\ run' = Stopped /\ run.ok /\ run.phase = "ended" /\ plan = "running"
      /\ plan' = "succeeded" /\ UNCHANGED <<inst, home, svc, retries>>
  BY <1>1, PassingIs
<1>3. ASSUME NEW m \in Node PROVE inst[m] = "running" /\ home[m] = "new"
  <2>1. PICK j \in 1..(Count - 2) : KindOf(j) = "opatch" /\ NodeOf(j) = m
    BY OPatchBeforeCluster
  <2>2. j \in 1..(Count - 1)
    BY FirstKind
  <2> QED BY <1>1, <2>1, <2>2 DEF UpInv, HomeInv
<1>4. ASSUME retries = 0, NEW s \in Services, NEW p \in Node, Placement[s] = {p}
      PROVE  svc[s] = {p}
  <2>1. Smooth
    BY <1>2, <1>4 DEF Smooth
  <2>2. PlaceInv(s, p, Count)
    BY <1>4, <2>1 DEF RestoreInv
  <2> QED BY <1>1, <2>2 DEF PlaceInv
<1> QED BY <1>2, <1>3, <1>4 DEF AtEnd
-----------------------------------------------------------------------------
(* The invariant *)

LEMMA RollingInit == Init => RollingInv
<1> SUFFICES ASSUME Init PROVE RollingInv
  OBVIOUS
<1>1. 1 \in 1..Count /\ Count \in Nat /\ KindOf(1) = "precheck"
  BY FirstKind
<1>2. TypeOK
  <2>1. drain \in [Node -> Drained]
    BY StoppedIs DEF Init
  <2>2. run \in Run
    BY StoppedIs DEF Init
  <2>3. svc \in [Services -> SUBSET Node]
    BY DEF Init
  <2>4. /\ inst \in [Node -> {"running", "stopped"}] /\ home \in [Node -> {"old", "new", "torn"}]
        /\ sql \in BOOLEAN /\ bound \subseteq Node /\ marks = {} /\ evidence = NoEvidence
    BY DEF Init
  <2>5. retries = 0 /\ plan = "running"
    BY DEF Init
  <2>6. retries \in 0..MaxRetries
    BY <2>5
  <2>7. status \in [1..Len(Tasks) -> Statuses]
    BY DEF Init, Statuses
  <2> QED BY <2>1, <2>2, <2>3, <2>4, <2>5, <2>6, <2>7 DEF TypeOK, Drained, Run, Statuses
<1>3. ExecutorInv /\ ServiceAlwaysUp
  BY StoppedIs DEF Init, ExecutorInv, ServiceAlwaysUp
<1>4. \A k \in 1..12 : ~Past(k)
  BY StoppedIs DEF Init, Past
<1>5. Current(1)
  BY <1>1 DEF Init, Current, Count
<1>6. TaskInv(1)
  BY <1>1, StoppedIs DEF Init, TaskInv, Count
<1>7. UpInv(1) /\ HomeInv(1) /\ AheadInv(1) /\ ServeInv(1)
  <2>1. \A j \in 2..Count : NodeOf(j) \in Node
    BY <1>1, TaskKinds
  <2> QED BY <1>1, <1>4, <2>1 DEF Init, UpInv, HomeInv, AheadInv, ServeInv
<1>8. RestoreInv(1)
  BY SMTT(60), <1>1, <1>4 DEF Init, RestoreInv, PlaceInv
<1>9. plan # "succeeded"
  BY DEF Init
<1> QED BY <1>1, <1>2, <1>3, <1>5, <1>6, <1>7, <1>8, <1>9 DEF RollingInv, AtTask

LEMMA RollingStep == RollingInv /\ [Next]_vars => RollingInv'
<1> SUFFICES ASSUME RollingInv, [Next]_vars PROVE RollingInv'
  OBVIOUS
<1>1. CASE Next
  <2>1. plan # "succeeded" /\ TypeOK /\ ExecutorInv /\ ServiceAlwaysUp
    BY <1>1, NextCases DEF RollingInv
  <2>2. PICK q \in 1..Count : AtTask(q)
    BY <2>1 DEF RollingInv
  <2>3. /\ Current(q) /\ TaskInv(q) /\ UpInv(q) /\ HomeInv(q) /\ AheadInv(q)
        /\ ServeInv(q) /\ RestoreInv(q)
    BY <2>2 DEF AtTask
  <2>4. TypeOK' /\ ExecutorInv' /\ ServiceAlwaysUp'
    BY <1>1, <2>1, <2>3, TypeStep, ExecutorInvStep, ServicesUpStep
  <2>5. CASE ~Passing
    <3>1. AtTask(q)'
      BY <1>1, <2>1, <2>3, <2>5, CurrentStep, TaskStep, UpStep, HomeStep, AheadStep, ServeStep,
         RestoreStep
         DEF AtTask
    <3>2. plan' # "succeeded"
      BY <3>1 DEF AtTask, Current
    <3> QED BY <2>4, <3>1, <3>2 DEF RollingInv
  <2>6. CASE Passing /\ q # Count
    <3>1. q \in 1..(Count - 1) /\ q + 1 \in 1..Count
      BY <2>6, FirstKind
    <3>2. AtTask(q + 1)'
      BY <2>1, <2>2, <2>6, <3>1, MovesOn
    <3>3. plan' # "succeeded"
      BY <3>2 DEF AtTask, Current
    <3> QED BY <2>4, <3>1, <3>2, <3>3 DEF RollingInv
  <2>7. CASE Passing /\ q = Count
    <3>1. plan' = "succeeded" /\ AtEnd'
      BY <2>1, <2>2, <2>7, Finishes
    <3> QED BY <2>4, <3>1 DEF RollingInv
  <2> QED BY <2>5, <2>6, <2>7
<1>2. CASE UNCHANGED vars
  <2>1. UNCHANGED <<inst, home, svc, sql, bound, drain, status, retries, plan, run, marks, evidence>>
    BY <1>2 DEF vars, oracle, files, tasks
  <2>2. TypeOK' /\ ExecutorInv' /\ ServiceAlwaysUp' /\ (AtEnd => AtEnd')
    BY SMTT(60), <2>1 DEF RollingInv, TypeOK, ExecutorInv, ServiceAlwaysUp, AtEnd
  <2>3. ASSUME NEW q \in 1..Count, AtTask(q) PROVE AtTask(q)'
    <3>1. \A k \in 1..12 : Past(k)' = Past(k)
      BY <2>1 DEF Past
    <3>2. Current(q)' /\ TaskInv(q)'
      BY <2>1, <2>3 DEF AtTask, Current, TaskInv
    <3>3. UpInv(q)' /\ HomeInv(q)' /\ ServeInv(q)'
      BY <2>1, <2>3 DEF AtTask, UpInv, HomeInv, TornInv, ServeInv, Past
    <3>4. Smooth' = Smooth
      BY <2>1 DEF Smooth
    <3>5. \A s \in Services, p \in Node : PlaceInv(s, p, q)' = PlaceInv(s, p, q)
      BY <2>1 DEF PlaceInv, Past
    <3>6. RestoreInv(q)'
      BY SMTT(60), <2>1, <2>3, <3>1, <3>4, <3>5 DEF AtTask, RestoreInv
    <3>7. AheadInv(q)'
      BY <2>1, <2>3 DEF AtTask, AheadInv, Past
    <3> QED BY <3>2, <3>3, <3>6, <3>7 DEF AtTask
  <2> QED BY <2>1, <2>2, <2>3 DEF RollingInv
<1> QED BY <1>1, <1>2

LEMMA RollingInvariant == Spec => []RollingInv
BY RollingInit, RollingStep, PTL DEF Spec

-----------------------------------------------------------------------------
(* The properties *)

(* The cluster serves throughout: whatever stages fail, lose their         *)
(* supervisor or run on after their lease, at most one instance is out and *)
(* every service has an instance (rac_drain, rac_stop, claim).             *)
THEOREM RollingServes == Spec => []ClusterServes
<1>1. RollingInv => ClusterServes
  <2> SUFFICES ASSUME RollingInv PROVE OneNodeOut
    BY DEF RollingInv, ClusterServes
  <2> DEFINE Out == {n \in Node : inst[n] = "stopped"}
  <2>1. \E m \in Node : Out \subseteq {m}
    <3>1. CASE plan = "succeeded"
      <4>1. Out = {}
        BY <3>1 DEF RollingInv, AtEnd
      <4>2. Nodes[1] \in Node
        BY NodesAreNodes
      <4> QED BY <4>1, <4>2
    <3>2. CASE plan # "succeeded"
      <4>1. PICK q \in 1..Count : AtTask(q)
        BY <3>2 DEF RollingInv
      <4>2. Out \subseteq {NodeOf(q)} /\ NodeOf(q) \in Node
        BY <4>1, TaskKinds DEF AtTask, UpInv
      <4> QED BY <4>2
    <3> QED BY <3>1, <3>2
  <2>2. PICK m \in Node : Out \subseteq {m}
    BY <2>1
  <2>3. IsFiniteSet({m}) /\ Cardinality({m}) = 1
    BY FS_Singleton
  <2> HIDE DEF Out
  <2>4. Cardinality(Out) <= Cardinality({m})
    BY <2>2, <2>3, FS_Subset
  <2> QED BY <2>3, <2>4 DEF OneNodeOut, Out
<1> QED BY <1>1, RollingInvariant, PTL

(* SQL changes are applied to a whole patched cluster only                 *)
(* (verify_prior_node_validations, verify_all_nodes_running).              *)
THEOREM RollingPatchesSqlLast == Spec => []DatapatchLast
<1>1. RollingInv => DatapatchLast
  <2> SUFFICES ASSUME RollingInv, sql, NEW n \in Node
               PROVE  home[n] = "new" /\ inst[n] = "running"
    BY DEF DatapatchLast
  <2>1. CASE plan = "succeeded"
    BY <2>1 DEF RollingInv, AtEnd
  <2>2. CASE plan # "succeeded"
    <3>1. PICK q \in 1..Count : AtTask(q)
      BY <2>2 DEF RollingInv
    <3>2. KindOf(q) \in {"datapatch", "final"}
      BY <3>1 DEF AtTask, HomeInv
    <3>3. PICK j \in 1..(Count - 2) : KindOf(j) = "opatch" /\ NodeOf(j) = n
      BY OPatchBeforeCluster
    <3>4. j \in 1..(q - 1)
      BY <3>2, TaskKinds, FirstKind
    <3> QED BY <3>1, <3>2, <3>3, <3>4 DEF AtTask, HomeInv, UpInv
  <2> QED BY <2>1, <2>2
<1> QED BY <1>1, RollingInvariant, PTL

(* An instance starts only from a home whose patch state is proven         *)
(* (mutation_exit_guard, rac_start).                                       *)
THEOREM RollingStartsFromNewHome == Spec => StartsFromNewHome
<1>1. RollingInv /\ [Next]_vars =>
        [\A n \in Node : inst[n] = "stopped" /\ inst'[n] = "running" => home[n] = "new"]_vars
  <2> SUFFICES ASSUME RollingInv, Next, NEW n \in Node, inst[n] = "stopped", inst'[n] = "running"
               PROVE  home[n] = "new"
    BY DEF vars
  <2>1. PICK q \in 1..Count : AtTask(q)
    BY NextCases DEF RollingInv
  <2>2. TypeOK /\ ExecutorInv /\ Current(q) /\ TaskInv(q) /\ HomeInv(q)
    BY <2>1 DEF RollingInv, AtTask
  <2>3. LocalNode = NodeOf(q) /\ NodeOf(q) \in Node /\ inst \in [Node -> {"running", "stopped"}]
    BY <2>2, TaskAtHand, TaskKinds DEF TypeOK
  <2>4. inst' # inst
    OBVIOUS
  <2>5. ~StopInstance
    BY <2>3 DEF StopInstance
  <2>6. StartInstance
    BY <2>4, <2>5, Frames
  <2>7. n = NodeOf(q) /\ KindOf(q) = "start"
    BY ZenonT(60), <2>2, <2>3, <2>6, ActsAt DEF StartInstance
  <2>8. q - 1 \in 1..(q - 1) /\ KindOf(q - 1) = "opatch" /\ NodeOf(q - 1) = NodeOf(q)
    BY <2>7, TaskKinds, FirstKind
  <2> QED BY <2>2, <2>7, <2>8 DEF HomeInv
<1> QED BY <1>1, RollingInvariant, PTL DEF Spec, StartsFromNewHome

(* The abstract cluster is the plan's.                                     *)
LEMMA UpgradeCluster == Upgrade!Places = 1..Len(Nodes) /\ Upgrade!Cluster = Node
BY ZenonT(60) DEF Upgrade!Places, Upgrade!Cluster, Node

(* A node's stop stands behind the patches of the nodes before it, and     *)
(* ahead of its own and of those after it.                                 *)
LEMMA StopInOrder ==
  ASSUME NEW q \in 1..Count, KindOf(q) = "stop"
  PROVE  \E k \in 1..Len(Nodes) :
           /\ NodeOf(q) = Nodes[k]
           /\ \A j \in 1..(k - 1) :
                \E i \in 1..(q - 1) : KindOf(i) = "opatch" /\ NodeOf(i) = Nodes[j]
           /\ \A j \in k..Len(Nodes) :
                \E i \in (q + 1)..Count : KindOf(i) = "opatch" /\ NodeOf(i) = Nodes[j]
<1>1. PICK g \in 0..(Len(Nodes) - 1), x \in 1..6 : q = 6 * g + x
  BY TaskPlaces, TasksAre
<1>2. NodeKinds[x] = "stop" /\ NodeOf(q) = Nodes[g + 1]
  BY <1>1, GroupTask
<1>3. x = 3
  BY SMTT(60), <1>2 DEF NodeKinds
<1>4. Len(Nodes) \in Nat /\ Count = 6 * Len(Nodes) + 2 /\ q = 6 * g + 3
  BY <1>1, <1>3, NodesAreNodes, TasksAre
<1>5. ASSUME NEW j \in 1..Len(Nodes)
      PROVE  \E i \in 1..Count : i = 6 * (j - 1) + 4 /\ KindOf(i) = "opatch" /\ NodeOf(i) = Nodes[j]
  <2> DEFINE h == j - 1
             i == 6 * h + 4
  <2>1. h \in 0..(Len(Nodes) - 1) /\ h + 1 = j /\ i \in 1..Count /\ 4 \in 1..6
    BY <1>4
  <2> HIDE DEF h
  <2>2. i = 6 * h + 4
    OBVIOUS
  <2> HIDE DEF i
  <2>3. KindOf(i) = NodeKinds[4] /\ NodeOf(i) = Nodes[h + 1]
    BY <2>1, <2>2, GroupTask
  <2>4. NodeKinds[4] = "opatch"
    BY DEF NodeKinds
  <2> QED BY <2>1, <2>2, <2>3, <2>4 DEF h
<1>6. ASSUME NEW j \in 1..g
      PROVE  \E i \in 1..(q - 1) : KindOf(i) = "opatch" /\ NodeOf(i) = Nodes[j]
  <2>0. j \in 1..Len(Nodes)
    BY <1>4
  <2>1. PICK i \in 1..Count : i = 6 * (j - 1) + 4 /\ KindOf(i) = "opatch" /\ NodeOf(i) = Nodes[j]
    BY ZenonT(60), <1>5, <2>0
  <2>2. i \in 1..(q - 1)
    BY <1>4, <2>1
  <2> QED BY <2>1, <2>2
<1>7. ASSUME NEW j \in (g + 1)..Len(Nodes)
      PROVE  \E i \in (q + 1)..Count : KindOf(i) = "opatch" /\ NodeOf(i) = Nodes[j]
  <2>0. j \in 1..Len(Nodes)
    BY <1>4
  <2>1. PICK i \in 1..Count : i = 6 * (j - 1) + 4 /\ KindOf(i) = "opatch" /\ NodeOf(i) = Nodes[j]
    BY ZenonT(60), <1>5, <2>0
  <2>2. i \in (q + 1)..Count
    BY <1>4, <2>1
  <2> QED BY <2>1, <2>2
<1>8. g + 1 \in 1..Len(Nodes) /\ (g + 1) - 1 = g
  BY <1>4
<1> QED BY <1>2, <1>6, <1>7, <1>8

LEMMA UpgradeStep ==
  ASSUME RollingInv, Next
  PROVE  Upgrade!Next \/ UNCHANGED <<inst, home, sql>>
<1>1. PICK q \in 1..Count : AtTask(q)
  BY NextCases DEF RollingInv
<1>2. /\ TypeOK /\ ExecutorInv /\ Current(q) /\ TaskInv(q)
      /\ UpInv(q) /\ HomeInv(q) /\ AheadInv(q)
  BY <1>1 DEF RollingInv, AtTask
<1> DEFINE n == NodeOf(q)
<1>3. /\ LocalNode = n /\ n \in Node
      /\ inst \in [Node -> {"running", "stopped"}] /\ home \in [Node -> {"old", "new", "torn"}]
      /\ sql \in BOOLEAN
  <2>1. LocalNode = n /\ n \in Node
    BY SMTT(60), <1>2, TaskAtHand, TaskKinds
  <2> QED BY <1>2, <2>1 DEF TypeOK
<1>4. PICK k \in 1..Len(Nodes) : n = Nodes[k]
  BY ZenonT(60), <1>3 DEF Node
<1> HIDE DEF n
<1>5. CASE StopInstance
  <2>1. KindOf(q) = "stop"
    BY <1>2, <1>5, ActsAt
  <2>2. UNCHANGED <<home, sql>> /\ (inst' = inst \/ inst' = [inst EXCEPT ![n] = "stopped"])
    BY <1>3, <1>5 DEF StopInstance
  <2>3. CASE inst[n] = "stopped"
    <3>1. [inst EXCEPT ![n] = "stopped"] = inst
      BY <1>3, <2>3
    <3> QED BY <2>2, <3>1
  <2>4. CASE inst[n] = "running" /\ inst' # inst
    <3>1. \A m \in Node : inst[m] = "running"
      BY <1>2, <2>4 DEF UpInv, n
    <3>2. PICK g \in 1..Len(Nodes) :
            /\ n = Nodes[g]
            /\ \A j \in 1..(g - 1) :
                 \E i \in 1..(q - 1) : KindOf(i) = "opatch" /\ NodeOf(i) = Nodes[j]
            /\ \A j \in g..Len(Nodes) :
                 \E i \in (q + 1)..Count : KindOf(i) = "opatch" /\ NodeOf(i) = Nodes[j]
      BY <2>1, StopInOrder DEF n
    <3>3. ASSUME NEW j \in 1..(g - 1) PROVE home[Nodes[j]] = "new"
      BY <1>2, <3>2 DEF HomeInv
    <3>4. ASSUME NEW j \in g..Len(Nodes) PROVE home[Nodes[j]] = "old"
      BY SMTT(60), <1>2, <3>2 DEF AheadInv
    <3>5. Upgrade!TakeDown(g)
      BY <2>2, <2>4, <3>1, <3>2, <3>3, <3>4, UpgradeCluster DEF Upgrade!TakeDown, Upgrade!AllUp
    <3> QED BY <3>5, UpgradeCluster DEF Upgrade!Next
  <2> QED BY <1>3, <2>2, <2>3, <2>4
<1>6. CASE StartInstance
  <2>1. KindOf(q) = "start" /\ run.phase = "stage" /\ run.pc = 5
    BY <1>2, <1>6, ActsAt
  <2>2. inst[n] = "stopped"
    BY <1>2, <2>1 DEF AheadInv, Past, n
  <2>3. home[n] = "new"
    <3>1. q - 1 \in 1..(q - 1) /\ KindOf(q - 1) = "opatch" /\ NodeOf(q - 1) = n
      BY <2>1, TaskKinds, FirstKind DEF n
    <3> QED BY <1>2, <3>1 DEF HomeInv
  <2>4. /\ UNCHANGED <<home, sql>>
        /\ inst' = [inst EXCEPT ![n] = "running"] \/ inst' = [inst EXCEPT ![n] = "stopped"]
    BY <1>3, <1>6 DEF StartInstance
  <2>5. [inst EXCEPT ![n] = "stopped"] = inst
    BY <1>3, <2>2
  <2>6. CASE inst' = [inst EXCEPT ![n] = "running"]
    <3>1. Upgrade!BringUp(k)
      BY <1>4, <2>2, <2>3, <2>4, <2>6 DEF Upgrade!BringUp
    <3> QED BY <3>1, UpgradeCluster DEF Upgrade!Next
  <2> QED BY <2>4, <2>5, <2>6
<1>7. CASE OPatch \/ OPatchFails
  <2>1. KindOf(q) = "opatch" /\ run.phase = "stage" /\ run.pc = 9
    BY <1>2, <1>7, ActsAt
  <2>2. inst[n] = "stopped" /\ home[n] = "old"
    BY <1>2, <2>1 DEF AheadInv, Past, n
  <2>3. PICK h \in {"old", "new", "torn"} : home' = [home EXCEPT ![n] = h]
    BY <1>3, <1>7 DEF OPatch, OPatchFails
  <2>4. UNCHANGED <<inst, sql>>
    BY <1>7 DEF OPatch, OPatchFails
  <2>5. CASE h = "old"
    <3>1. [home EXCEPT ![n] = "old"] = home
      BY <1>3, <2>2
    <3> QED BY <2>3, <2>4, <2>5, <3>1
  <2>6. CASE h \in {"new", "torn"}
    <3>1. Upgrade!Patch(k)
      BY <1>4, <2>2, <2>3, <2>4, <2>6 DEF Upgrade!Patch
    <3> QED BY <3>1, UpgradeCluster DEF Upgrade!Next
  <2> QED BY <2>5, <2>6
<1>8. CASE Datapatch
  <2>1. KindOf(q) = "datapatch" /\ UNCHANGED <<inst, home>> /\ sql' \in BOOLEAN /\ (sql => sql')
    BY <1>2, <1>3, <1>8, ActsAt DEF Datapatch
  <2>2. ASSUME NEW m \in Node PROVE inst[m] = "running" /\ home[m] = "new"
    <3>1. PICK j \in 1..(Count - 2) : KindOf(j) = "opatch" /\ NodeOf(j) = m
      BY OPatchBeforeCluster
    <3>2. j \in 1..(q - 1)
      BY <2>1, TaskKinds, FirstKind
    <3> QED BY <1>2, <2>1, <3>1, <3>2 DEF HomeInv, UpInv
  <2>3. CASE sql' = TRUE
    <3>1. Upgrade!PatchSql
      BY <2>1, <2>2, <2>3, UpgradeCluster DEF Upgrade!PatchSql, Upgrade!AllUp
    <3> QED BY <3>1 DEF Upgrade!Next
  <2>4. CASE sql' = FALSE
    BY <1>3, <2>1, <2>4
  <2> QED BY <2>1, <2>3, <2>4
<1> QED BY <1>5, <1>6, <1>7, <1>8, Frames

(* The rolling patch is what it promises to be: the cluster is patched     *)
(* node by node in the plan's order, each home while its instance is down  *)
(* and all others serve, and SQL when all are done (dispatch, rac_stop,    *)
(* rac_opatch_apply, rac_start, cluster_datapatch).                        *)
THEOREM RollingPatchesNodeByNode == Spec => PatchesNodeByNode
<1>1. Init => Upgrade!Init
  BY UpgradeCluster DEF Init, Upgrade!Init
<1>2. RollingInv /\ [Next]_vars => [Upgrade!Next]_<<inst, home, sql>>
  BY UpgradeStep DEF vars, oracle
<1> QED BY <1>1, <1>2, RollingInvariant, PTL DEF Spec, Upgrade!Spec, PatchesNodeByNode

(* A report is never better than the truth: a torn home freezes the plan   *)
(* at its task and is reported as an unknown binary state, and an attempt  *)
(* that lost its heartbeat is no success (derive_outcome, emit_evidence,   *)
(* retry_task).                                                            *)
THEOREM RollingReportsAreHonest == Spec => []ReportsAreHonest
<1>1. RollingInv => ReportsAreHonest
  <2> SUFFICES ASSUME RollingInv PROVE ReportsAreHonest
    OBVIOUS
  <2>1. HeartbeatLossBlocks
    BY DEF RollingInv, ExecutorInv, HeartbeatLossBlocks
  <2>2. ASSUME Settled, NEW n \in Node, home[n] = "torn"
        PROVE  /\ plan = "paused" /\ Kind[Stage] = "opatch" /\ n = LocalNode
               /\ \/ status[Pos] = "unknown"
                  \/ /\ status[Pos] = "failed"
                     /\ evidence = [post |-> "unknown", class |-> "binary_state_unknown"]
    <3>1. PICK q \in 1..Count : AtTask(q)
      BY <2>2 DEF RollingInv, Settled
    <3>2. TypeOK /\ Current(q) /\ TaskInv(q) /\ HomeInv(q)
      BY <3>1 DEF RollingInv, AtTask
    <3>3. Pos = q /\ LocalNode = NodeOf(q) /\ Kind[Stage] = KindOf(q)
      BY <3>2, TaskAtHand
    <3>4. n = NodeOf(q) /\ KindOf(q) = "opatch" /\ TornInv(q)
      BY <2>2, <3>2 DEF HomeInv
    <3>5. \/ status[q] = "unknown"
          \/ /\ status[q] = "failed"
             /\ evidence = [post |-> "unknown", class |-> "binary_state_unknown"]
      BY <2>2, <3>4, StoppedIs DEF TornInv, Settled
    <3>6. plan = "paused"
      BY <3>2, <3>5 DEF TaskInv, TypeOK, Current
    <3> QED BY <3>3, <3>4, <3>5, <3>6
  <2>3. TornHomeFreezes
    BY <2>2 DEF TornHomeFreezes, MayRetry, SafeToRetry
  <2>4. TornHomeIsReported
    <3>1. SUFFICES ASSUME Settled, status[Pos] = "failed", home[LocalNode] = "torn"
                   PROVE  evidence = [post |-> "unknown", class |-> "binary_state_unknown"]
      BY DEF TornHomeIsReported
    <3>2. PICK q \in 1..Count : AtTask(q)
      BY <3>1 DEF RollingInv, Settled
    <3>3. LocalNode \in Node
      BY <3>2, TaskAtHand, TaskKinds DEF RollingInv, AtTask
    <3> QED BY <2>2, <3>1, <3>3
  <2> QED BY <2>1, <2>3, <2>4 DEF ReportsAreHonest
<1> QED BY <1>1, RollingInvariant, PTL

(* Services that ran on one node run there again when a plan that needed   *)
(* no retry succeeds (drain_services, restore_drained_services).           *)
THEOREM RollingRestoresServices == Spec => []ServicesRestored
<1>1. RollingInv => ServicesRestored
  <2> SUFFICES ASSUME RollingInv, plan = "succeeded", retries = 0,
                      NEW s \in Services, Cardinality(Placement[s]) = 1
               PROVE  svc[s] = Placement[s]
    BY DEF ServicesRestored
  <2>1. Placement[s] \in SUBSET Node
    OBVIOUS
  <2>2. IsFiniteSet(Placement[s])
    BY <2>1, NodesAreDistinct, FS_Subset
  <2>3. PICK p : Placement[s] = {p}
    BY <2>2, FS_Singleton
  <2>4. p \in Node
    BY <2>1, <2>3
  <2> QED BY <2>3, <2>4 DEF RollingInv, AtEnd
<1> QED BY <1>1, RollingInvariant, PTL

=============================================================================
