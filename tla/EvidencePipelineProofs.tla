----------------------- MODULE EvidencePipelineProofs -----------------------
(***************************************************************************)
(* Proofs about the evidence of a host, for any nodes, versions of the     *)
(* media, policies and snapshots, and any number of runs and visits.       *)
(*                                                                         *)
(* The argument has three parts: what holds of every program of a step,    *)
(* and of what is left of one; what each operation does to it; and         *)
(* EvidenceInv, which relates what an actor has still to do to the files.  *)
(***************************************************************************)
EXTENDS EvidencePipelineProperties, SequenceTheorems, TLAPS

-----------------------------------------------------------------------------
(* Programs *)

Kinds == {"collect", "index", "clear", "reconcile", "write", "inspect", "draft", "redraft", "validate",
          "opatch", "combine", "policy", "gates", "emit", "ok", "done", "replace", "fill"}

(* The operations there are.                                               *)
Ops ==
  {o \in [kind : Kinds, arg : Node \cup Names \cup Versions \cup Policies \cup {None},
          ends : {None, "snapshots", "media"}] :
     /\ (o.kind \in {"collect", "opatch", "replace", "fill"} => o.arg \in Node)
     /\ (o.kind = "write" => o.arg \in Media \cup {"reconciliation", "readiness"})
     /\ (o.kind = "clear" => o.arg \in Media \cup {"reconciliation", "readiness"})
     /\ (o.kind = "draft" => o.arg \in Versions)
     /\ (o.kind = "policy" => o.arg \in Policies)
     /\ (o.ends # None => o.kind = "clear")}

(* What a step may do that is neither a discovery nor the end of one.      *)
Work ==
  {o \in Ops : /\ o.ends = None /\ o.kind \notin {"collect", "index", "done"}
               /\ (o.kind = "clear" => o.arg # "reconciliation")}

Pairs(t) == \A i \in 1..(Len(t) - 1) : Follows(t[i], t[i + 1])
Drafts(t) ==
  \A i \in 1..Len(t) : t[i].kind = "validate" =>
    \E j \in 1..(i - 1) : t[j].kind \in {"draft", "redraft"}

(* A part of a program, which begins with nothing that needs a result.     *)
Fragment(t) ==
  /\ t \in Seq(Work) /\ t # <<>>
  /\ t[1].kind \notin {"write", "emit"} /\ Pairs(t) /\ Drafts(t)

(* A program, and one that a chain may go on from.                         *)
Program(t) ==
  /\ t \in Seq(Ops) /\ t # <<>> /\ Shape(t) /\ Drafts(t)
  /\ t[1].kind \notin {"write", "emit", "ok", "done"}
  /\ \A i \in 1..Len(t) : t[i].ends = "snapshots" => t[1].kind = "collect"
  /\ \A i \in 1..Len(t) : t[i].ends = "media" =>
       \A name \in Media : \E j \in 1..i : t[j].kind = "clear" /\ t[j].arg = name

Continues(t) == Program(t) /\ \A i \in 1..Len(t) : t[i].kind # "done" /\ t[i].ends # "media"

(* An absent document is none that a tool makes.                           *)
LEMMA NoneIs == None \notin Versions /\ None \notin Readiness /\ None # "snapshots" /\ None # "media"
BY EvidenceAssumption

LEMMA NodesAre == NodeList \in Seq(Node) /\ Primary \in Node /\ Len(NodeList) \in Nat \ {0}
<1>1. NodeList \in Seq(Node) /\ NodeList # <<>>
  BY EvidenceAssumption
<1>2. Len(NodeList) \in Nat \ {0}
  BY <1>1, EmptySeq
<1>3. Primary \in Node
  BY <1>1, HeadTailProperties DEF Primary
<1> QED BY <1>1, <1>2, <1>3

(* An operation for each node.                                             *)
LEMMA PerNodeIs ==
  ASSUME NEW kind \in {"collect", "opatch", "replace", "fill"}
  PROVE  /\ PerNode(kind) \in Seq(Ops) /\ Len(PerNode(kind)) = Len(NodeList)
         /\ \A i \in 1..Len(NodeList) : PerNode(kind)[i] = Op(kind, NodeList[i])
         /\ (kind # "collect" => PerNode(kind) \in Seq(Work))
<1>1. Len(NodeList) \in Nat /\ DOMAIN NodeList = 1..Len(NodeList)
  BY NodesAre, LenProperties
<1>2. ASSUME NEW i \in 1..Len(NodeList) PROVE Op(kind, NodeList[i]) \in Ops /\ (kind # "collect" => Op(kind, NodeList[i]) \in Work)
  <2>1. NodeList[i] \in Node
    BY NodesAre, ElementOfSeq
  <2> QED BY <2>1 DEF Op, Ops, Work, Kinds
<1>3. /\ PerNode(kind) \in [1..Len(NodeList) -> Ops]
      /\ (kind # "collect" => PerNode(kind) \in [1..Len(NodeList) -> Work])
      /\ \A i \in 1..Len(NodeList) : PerNode(kind)[i] = Op(kind, NodeList[i])
  BY <1>1, <1>2 DEF PerNode
<1>4. /\ PerNode(kind) \in Seq(Ops)
      /\ (kind # "collect" => PerNode(kind) \in Seq(Work))
  BY <1>1, <1>3, SeqDef
<1>5. Len(PerNode(kind)) = Len(NodeList)
  BY <1>1, <1>3, <1>4, LenProperties
<1> QED BY <1>3, <1>4, <1>5

LEMMA ConcatIs ==
  ASSUME NEW S, NEW s \in Seq(S), NEW t \in Seq(S)
  PROVE  /\ s \o t \in Seq(S) /\ Len(s \o t) = Len(s) + Len(t)
         /\ Len(s) \in Nat /\ Len(t) \in Nat
         /\ \A i \in 1..Len(s) : (s \o t)[i] = s[i]
         /\ \A i \in 1..Len(t) : (s \o t)[Len(s) + i] = t[i]
<1>1. Len(s) \in Nat /\ Len(t) \in Nat
  BY LenProperties
<1>2. /\ s \o t \in Seq(S) /\ Len(s \o t) = Len(s) + Len(t)
      /\ \A i \in 1..Len(s) + Len(t) : (s \o t)[i] = IF i <= Len(s) THEN s[i] ELSE t[i - Len(s)]
  BY ConcatProperties
<1>3. \A i \in 1..Len(s) : (s \o t)[i] = s[i]
  BY <1>1, <1>2
<1>4. ASSUME NEW i \in 1..Len(t) PROVE (s \o t)[Len(s) + i] = t[i]
  <2>1. Len(s) + i \in 1..Len(s) + Len(t) /\ ~(Len(s) + i <= Len(s)) /\ (Len(s) + i) - Len(s) = i
    BY <1>1
  <2> QED BY <1>2, <2>1
<1> QED BY <1>1, <1>2, <1>3, <1>4

LEMMA NotEmpty ==
  ASSUME NEW S, NEW t \in Seq(S)
  PROVE  t # <<>> <=> Len(t) \in Nat \ {0}
BY EmptySeq

(* A program goes on with a part that begins with nothing that needs a     *)
(* result.                                                                 *)
LEMMA Extended ==
  ASSUME NEW s, Continues(s), NEW t, Fragment(t)
  PROVE  Continues(s \o t)
<1> DEFINE u == s \o t
           m == Len(s)
           n == Len(t)
<1>1. s \in Seq(Ops) /\ t \in Seq(Work) /\ t \in Seq(Ops)
  BY SeqMonotonic DEF Continues, Program, Fragment, Work
<1>2. /\ u \in Seq(Ops) /\ Len(u) = m + n /\ m \in Nat /\ n \in Nat
      /\ \A i \in 1..m : u[i] = s[i]
      /\ \A i \in 1..n : u[m + i] = t[i]
  BY <1>1, ConcatIs
<1>3. m > 0 /\ n > 0
  BY <1>1, EmptySeq DEF Continues, Program, Fragment
<1>4. \A i \in 1..n : t[i] \in Work
  BY <1>1, ElementOfSeq
<1>5. \A k \in 1..(m + n) : k \in 1..m \/ \E i \in 1..n : k = m + i
  <2> SUFFICES ASSUME NEW k \in 1..(m + n), k \notin 1..m PROVE \E i \in 1..n : k = m + i
    OBVIOUS
  <2>1. k - m \in 1..n /\ k = m + (k - m)
    BY <1>2
  <2> QED BY <2>1
<1> HIDE DEF u
<1>6. u[1] = s[1] /\ u # <<>>
  BY <1>2, <1>3, EmptySeq
<1>a. ASSUME NEW i \in 1..Len(u) PROVE (i \in 1..m /\ u[i] = s[i]) \/ u[i] \in Work
  <2>1. CASE i \in 1..m
    BY <1>2, <2>1
  <2>2. ASSUME NEW k \in 1..n, i = m + k PROVE u[i] \in Work
    BY <1>2, <1>4, <2>2
  <2> QED BY <1>2, <1>5, <2>1, <2>2
<1>b. \A o \in Work : /\ o.ends # "snapshots" /\ o.ends # "media" /\ o.kind # "done"
                      /\ ~(o.kind = "clear" /\ o.arg = "reconciliation")
  BY NoneIs DEF Work
<1>7. \A i \in 1..Len(u) : u[i].kind # "done" /\ u[i].ends # "media"
  BY <1>a, <1>b DEF Continues
<1>8. \A i \in 1..Len(u) : u[i].ends = "snapshots" => i \in 1..m /\ u[i] = s[i]
  BY <1>a, <1>b
<1>9. Pairs(u)
  <2> SUFFICES ASSUME NEW i \in 1..(Len(u) - 1) PROVE Follows(u[i], u[i + 1])
    BY DEF Pairs
  <2>1. CASE i + 1 <= m
    <3>1. i \in 1..(m - 1) /\ i \in 1..m /\ i + 1 \in 1..m
      BY <1>2, <2>1
    <3>2. u[i] = s[i] /\ u[i + 1] = s[i + 1]
      BY <1>2, <3>1
    <3> QED BY <3>1, <3>2 DEF Continues, Program, Shape
  <2>2. CASE i = m
    <3>1. u[i + 1] = t[1]
      BY <1>2, <1>3, <2>2
    <3> QED BY <3>1 DEF Fragment, Follows
  <2>3. CASE i > m
    <3> DEFINE k == i - m
    <3>1. /\ k \in 1..(n - 1) /\ k \in 1..n /\ k + 1 \in 1..n
          /\ i = m + k /\ i + 1 = m + (k + 1)
      BY <1>2, <2>3
    <3> HIDE DEF k
    <3>2. u[i] = t[k] /\ u[i + 1] = t[k + 1]
      BY <1>2, <3>1
    <3> QED BY <3>1, <3>2 DEF Fragment, Pairs
  <2> QED BY <1>2, <2>1, <2>2, <2>3
<1>10. Drafts(u)
  <2> SUFFICES ASSUME NEW i \in 1..Len(u), u[i].kind = "validate"
               PROVE \E j \in 1..(i - 1) : u[j].kind \in {"draft", "redraft"}
    BY DEF Drafts
  <2>1. CASE i \in 1..m
    <3>1. PICK j \in 1..(i - 1) : s[j].kind \in {"draft", "redraft"}
      BY <1>2, <2>1 DEF Continues, Program, Drafts
    <3>2. u[j] = s[j]
      BY <1>2, <2>1
    <3> QED BY <3>1, <3>2
  <2>2. ASSUME NEW k \in 1..n, i = m + k PROVE \E j \in 1..(i - 1) : u[j].kind \in {"draft", "redraft"}
    <3>1. PICK j \in 1..(k - 1) : t[j].kind \in {"draft", "redraft"}
      BY <1>2, <2>2 DEF Fragment, Drafts
    <3>2. m + j \in 1..(i - 1) /\ j \in 1..n
      BY <1>2, <2>2
    <3> QED BY <1>2, <3>1, <3>2
  <2> QED BY <1>2, <1>5, <2>1, <2>2
<1>11. Shape(u)
  <2>1. \A i \in 1..Len(u) : u[i].ends = "snapshots" =>
          /\ u[i].kind = "clear" /\ u[i].arg = "readiness"
          /\ \A j \in 1..Len(u) : j # i => u[j].ends # "snapshots"
    <3>1. \A i \in 1..m : s[i].ends = "snapshots" =>
            /\ s[i].kind = "clear" /\ s[i].arg = "readiness"
            /\ \A j \in 1..m : j # i => s[j].ends # "snapshots"
      BY DEF Continues, Program, Shape
    <3> QED BY SMTT(60), <1>8, <3>1
  <2>2. \A i \in 1..Len(u) : u[i].kind = "clear" /\ u[i].arg = "reconciliation" =>
          \E j \in (i + 1)..Len(u) : u[j].ends = "snapshots"
    <3> SUFFICES ASSUME NEW i \in 1..Len(u), u[i].kind = "clear", u[i].arg = "reconciliation"
                 PROVE \E j \in (i + 1)..Len(u) : u[j].ends = "snapshots"
      OBVIOUS
    <3>1. i \in 1..m
      BY <1>a, <1>b
    <3>2. PICK j \in (i + 1)..m : s[j].ends = "snapshots"
      BY <1>2, <3>1 DEF Continues, Program, Shape
    <3>3. j \in (i + 1)..Len(u) /\ u[j] = s[j]
      BY <1>2, <3>1
    <3> QED BY <3>2, <3>3
  <2> QED BY <1>7, <1>9, <2>1, <2>2 DEF Shape, Pairs
<1>12. \A i \in 1..Len(u) : u[i].ends = "snapshots" => u[1].kind = "collect"
  BY <1>2, <1>6, <1>8 DEF Continues, Program
<1>13. u[1].kind \notin {"write", "emit", "ok", "done"}
  BY <1>6 DEF Continues, Program
<1>14. Program(u)
  BY <1>2, <1>6, <1>7, <1>10, <1>11, <1>12, <1>13 DEF Program
<1> QED BY <1>7, <1>14 DEF Continues, u

(* A part that begins with nothing that asks for more is a program itself. *)
LEMMA FragmentIsProgram ==
  ASSUME NEW t, Fragment(t), t[1].kind # "ok"
  PROVE  Continues(t)
<1>1. t \in Seq(Ops)
  BY SeqMonotonic DEF Fragment, Work
<1>2. \A i \in 1..Len(t) : t[i] \in Work
  BY ElementOfSeq DEF Fragment
<1>3. \A i \in 1..Len(t) : /\ t[i].ends = None /\ t[i].kind # "done"
                           /\ ~(t[i].kind = "clear" /\ t[i].arg = "reconciliation")
  BY <1>2 DEF Work
<1>5. Shape(t)
  BY <1>3, NoneIs DEF Shape, Fragment, Pairs
<1>6. t[1].kind # "done"
  <2>1. 1 \in 1..Len(t)
    BY <1>1, EmptySeq DEF Fragment
  <2> QED BY <2>1, <1>3
<1> QED BY <1>1, <1>3, <1>5, <1>6, NoneIs DEF Continues, Program, Fragment

-----------------------------------------------------------------------------
(* The programs of the steps *)

Cleared == Media \cup {"reconciliation", "readiness"}

LEMMA ClearsIs ==
  ASSUME NEW names \in Seq(Cleared)
  PROVE  /\ Clears(names) \in Seq(Ops) /\ Len(Clears(names)) = Len(names)
         /\ \A i \in 1..Len(names) : Clears(names)[i] = Op("clear", names[i])
<1>1. Len(names) \in Nat /\ DOMAIN names = 1..Len(names)
  BY LenProperties
<1>2. ASSUME NEW i \in 1..Len(names) PROVE Op("clear", names[i]) \in Ops
  <2>1. names[i] \in Cleared
    BY ElementOfSeq
  <2> QED BY <2>1 DEF Op, Ops, Kinds, Cleared, Media, Names
<1>3. /\ Clears(names) \in [1..Len(names) -> Ops]
      /\ \A i \in 1..Len(names) : Clears(names)[i] = Op("clear", names[i])
  BY <1>1, <1>2 DEF Clears
<1>4. Clears(names) \in Seq(Ops)
  BY <1>1, <1>3, SeqDef
<1>5. Len(Clears(names)) = Len(names)
  BY <1>1, <1>3, <1>4, LenProperties
<1> QED BY <1>3, <1>4, <1>5

LEMMA EndingIs ==
  ASSUME NEW ops \in Seq(Ops), Len(ops) \in Nat \ {0}, ops[Len(ops)].kind = "clear",
         NEW what \in {"snapshots", "media"}
  PROVE  /\ Ending(ops, what) \in Seq(Ops) /\ Len(Ending(ops, what)) = Len(ops)
         /\ \A i \in 1..(Len(ops) - 1) : Ending(ops, what)[i] = ops[i]
         /\ Ending(ops, what)[Len(ops)] = [ops[Len(ops)] EXCEPT !.ends = what]
<1> DEFINE n == Len(ops)
<1>1. DOMAIN ops = 1..n /\ n \in 1..n /\ ops \in [1..n -> Ops]
  BY LenProperties
<1>2. ops[n] \in Ops
  BY <1>1
<1>3. [ops[n] EXCEPT !.ends = what] \in Ops
  BY <1>2 DEF Ops
<1>4. Ending(ops, what) = [ops EXCEPT ![n] = [ops[n] EXCEPT !.ends = what]]
  BY <1>1 DEF Ending
<1> QED BY <1>1, <1>3, <1>4, ExceptSeq

(* A fragment is made of one operation, ...                                *)
LEMMA OkIs == Fragment(<<Op("ok", None)>>)
BY DEF Fragment, Pairs, Drafts, Op, Ops, Work, Kinds

(* ... or of some, ...                                                     *)
LEMMA InspectIs == Fragment(Inspect)
BY DEF Inspect, Fragment, Pairs, Drafts, Follows, Producer, Op, Ops, Work, Kinds, Media, Names

LEMMA CombineIs == Fragment(Combine)
BY DEF Combine, Fragment, Pairs, Drafts, Follows, Producer, Op, Ops, Work, Kinds, Media, Names

LEMMA EvaluateIs ==
  ASSUME NEW p \in Policies
  PROVE  Fragment(Evaluate(p)) /\ Len(Evaluate(p)) = 4 /\ Evaluate(p)[4] = Op("write", "readiness")
BY DEF Evaluate, Fragment, Pairs, Drafts, Follows, Producer, Op, Ops, Work, Kinds, Names

LEMMA InSeq ==
  ASSUME NEW S, NEW T, NEW t \in Seq(T), \A i \in 1..Len(t) : t[i] \in S
  PROVE  t \in Seq(S)
<1>1. Len(t) \in Nat /\ t \in [1..Len(t) -> T]
  BY LenProperties
<1>2. t \in [1..Len(t) -> S]
  BY <1>1
<1> QED BY <1>1, <1>2, SeqDef
(* ... with the documents that it clears, ...                              *)
LEMMA ReconcileIs == Fragment(Reconcile) /\ Reconcile[1].kind # "ok"
<1> DEFINE s == <<Op("reconcile", None), Op("write", "reconciliation")>>
           c == <<"compatibility_reconciliation", "readiness">>
           t == Reconcile
<1>1. c \in Seq(Cleared) /\ Len(c) = 2
  BY DEF Cleared, Media
<1>2. /\ Clears(c) \in Seq(Ops) /\ Len(Clears(c)) = 2
      /\ Clears(c)[1] = Op("clear", "compatibility_reconciliation") /\ Clears(c)[2] = Op("clear", "readiness")
  <2>1. c[1] = "compatibility_reconciliation" /\ c[2] = "readiness"
    OBVIOUS
  <2> HIDE DEF c
  <2>2. /\ Clears(c) \in Seq(Ops) /\ Len(Clears(c)) = 2
        /\ \A i \in 1..2 : Clears(c)[i] = Op("clear", c[i])
    BY <1>1, ClearsIs
  <2> QED BY <2>1, <2>2
<1>3. s \in Seq(Ops) /\ Len(s) = 2
  BY DEF Op, Ops, Kinds, Names
<1>4. t = s \o Clears(c)
  BY DEF Reconcile
<1>5. /\ t \in Seq(Ops) /\ Len(t) = 4
      /\ t[1] = Op("reconcile", None) /\ t[2] = Op("write", "reconciliation")
      /\ t[3] = Op("clear", "compatibility_reconciliation") /\ t[4] = Op("clear", "readiness")
  <2>1. s[1] = Op("reconcile", None) /\ s[2] = Op("write", "reconciliation")
    OBVIOUS
  <2> HIDE DEF c, s, t
  <2>2. /\ t \in Seq(Ops) /\ Len(t) = 2 + 2
        /\ \A i \in 1..2 : t[i] = s[i]
        /\ \A i \in 1..2 : t[2 + i] = Clears(c)[i]
    <3>1. s \in Seq(Ops) /\ Clears(c) \in Seq(Ops)
      BY <1>2, <1>3
    <3>2. /\ s \o Clears(c) \in Seq(Ops) /\ Len(s \o Clears(c)) = Len(s) + Len(Clears(c))
          /\ \A i \in 1..Len(s) : (s \o Clears(c))[i] = s[i]
          /\ \A i \in 1..Len(Clears(c)) : (s \o Clears(c))[Len(s) + i] = Clears(c)[i]
      BY <3>1, ConcatIs
    <3> QED BY <1>2, <1>3, <1>4, <3>2
  <2>3. t[1] = s[1] /\ t[2] = s[2] /\ t[2 + 1] = Clears(c)[1] /\ t[2 + 2] = Clears(c)[2]
    BY <2>2
  <2> QED BY <1>2, <2>1, <2>2, <2>3
<1> HIDE DEF t
<1>6. t \in Seq(Work)
  <2>1. \A i \in 1..4 : t[i] \in Work
    BY <1>5 DEF Op, Ops, Work, Kinds, Media, Names
  <2> QED BY <1>5, <2>1, InSeq
<1>7. Pairs(t) /\ Drafts(t)
  BY <1>5 DEF Pairs, Drafts, Follows, Producer, Op
<1>8. t # <<>> /\ t[1].kind = "reconcile"
  <2>1. t # <<>> <=> Len(t) \in Nat \ {0}
    BY <1>5, NotEmpty
  <2> QED BY <1>5, <2>1 DEF Op
<1> QED BY <1>6, <1>7, <1>8 DEF Fragment, t

LEMMA ValidateIs ==
  ASSUME NEW d \in {Op("redraft", None)} \cup {Op("draft", v) : v \in Versions}
  PROVE  Fragment(Validate(d)) /\ Validate(d)[1].kind # "ok"
<1> DEFINE s == <<d>>
           c == <<"procedure", "compatibility", "compatibility_reconciliation", "readiness">>
           e == <<Op("validate", None), Op("write", "procedure")>>
           t == Validate(d)
<1>1. c \in Seq(Cleared) /\ Len(c) = 4
  BY DEF Cleared, Media
<1>2. /\ Clears(c) \in Seq(Ops) /\ Len(Clears(c)) = 4
      /\ Clears(c)[1] = Op("clear", "procedure") /\ Clears(c)[2] = Op("clear", "compatibility")
      /\ Clears(c)[3] = Op("clear", "compatibility_reconciliation") /\ Clears(c)[4] = Op("clear", "readiness")
  <2>1. /\ c[1] = "procedure" /\ c[2] = "compatibility" /\ c[3] = "compatibility_reconciliation"
        /\ c[4] = "readiness"
    OBVIOUS
  <2> HIDE DEF c
  <2>2. /\ Clears(c) \in Seq(Ops) /\ Len(Clears(c)) = 4
        /\ \A i \in 1..4 : Clears(c)[i] = Op("clear", c[i])
    BY <1>1, ClearsIs
  <2> QED BY <2>1, <2>2
<1>3. /\ s \in Seq(Ops) /\ Len(s) = 1 /\ s[1] = d /\ d \in Ops
      /\ d.kind \in {"draft", "redraft"} /\ d.ends = None
  BY DEF Op, Ops, Kinds, Names
<1>4. e \in Seq(Ops) /\ Len(e) = 2
  BY DEF Op, Ops, Kinds, Names, Media
<1>5. t = (s \o Clears(c)) \o e
  BY DEF Validate
<1> DEFINE u == s \o Clears(c)
<1>6. /\ u \in Seq(Ops) /\ Len(u) = 5
      /\ u[1] = d /\ u[2] = Op("clear", "procedure") /\ u[3] = Op("clear", "compatibility")
      /\ u[4] = Op("clear", "compatibility_reconciliation") /\ u[5] = Op("clear", "readiness")
  <2> HIDE DEF s, c
  <2>1. /\ u \in Seq(Ops) /\ Len(u) = 1 + 4
        /\ \A i \in 1..1 : u[i] = s[i]
        /\ \A i \in 1..4 : u[1 + i] = Clears(c)[i]
    <3>1. s \in Seq(Ops) /\ Clears(c) \in Seq(Ops)
      BY <1>2, <1>3
    <3>2. /\ u \in Seq(Ops) /\ Len(u) = Len(s) + Len(Clears(c))
          /\ \A i \in 1..Len(s) : u[i] = s[i]
          /\ \A i \in 1..Len(Clears(c)) : u[Len(s) + i] = Clears(c)[i]
      BY <3>1, ConcatIs
    <3> QED BY <1>2, <1>3, <3>2
  <2> HIDE DEF u
  <2>2. /\ u[1] = s[1] /\ u[1 + 1] = Clears(c)[1] /\ u[1 + 2] = Clears(c)[2] /\ u[1 + 3] = Clears(c)[3]
        /\ u[1 + 4] = Clears(c)[4]
    BY <2>1
  <2> QED BY <1>2, <1>3, <2>1, <2>2
<1> HIDE DEF u
<1>7. /\ t \in Seq(Ops) /\ Len(t) = 7 /\ \A i \in 1..5 : t[i] = u[i]
      /\ t[6] = Op("validate", None) /\ t[7] = Op("write", "procedure")
  <2>1. (\A i \in 1..5 : t[i] = u[i]) /\ t[5 + 1] = e[1] /\ t[5 + 2] = e[2]
    BY <1>4, <1>5, <1>6, ConcatIs DEF u
  <2>2. t \in Seq(Ops) /\ Len(t) = 5 + 2
    BY <1>4, <1>5, <1>6, ConcatIs DEF u
  <2> QED BY <2>1, <2>2
<1> HIDE DEF t
<1>8. \A i \in 1..7 : i = 6 \/ i = 7 \/ i \in 1..5
  OBVIOUS
<1>9. t \in Seq(Work)
  <2>1. \A i \in 1..7 : t[i] \in Work
    BY <1>3, <1>6, <1>7, <1>8 DEF Op, Ops, Work, Kinds, Media, Names
  <2> QED BY <1>7, <2>1, InSeq
<1>10. Drafts(t)
  <2>1. t[1].kind \in {"draft", "redraft"} /\ \A i \in 1..1 : t[i].kind # "validate"
    BY <1>3, <1>6, <1>7
  <2>2. \A i \in 2..7 : 1 \in 1..(i - 1)
    OBVIOUS
  <2> QED BY <1>7, <2>1, <2>2 DEF Drafts
<1>11. Pairs(t)
  BY <1>3, <1>6, <1>7 DEF Pairs, Follows, Producer, Op
<1>12. t[1].kind \in {"draft", "redraft"} /\ t # <<>>
  <2>1. t[1] = d
    BY <1>6, <1>7
  <2>2. t # <<>> <=> Len(t) \in Nat \ {0}
    BY SMTT(60), <1>7, NotEmpty
  <2> QED BY <1>3, <1>7, <2>1, <2>2
<1> QED BY <1>9, <1>10, <1>11, <1>12 DEF Fragment, t

(* ... or with one for each node.                                          *)
LEMMA CollectIs == Fragment(Collect) /\ Collect[1].kind # "ok"
<1> DEFINE s == PerNode("opatch")
           n == Len(NodeList)
           e == <<Op("write", "compatibility")>>
           t == Collect
<1>1. /\ s \in Seq(Work) /\ s \in Seq(Ops) /\ Len(s) = n
      /\ \A i \in 1..n : s[i] = Op("opatch", NodeList[i])
  BY PerNodeIs
<1>2. e \in Seq(Work) /\ Len(e) = 1 /\ e[1] = Op("write", "compatibility")
  BY DEF Op, Ops, Work, Kinds, Names, Media
<1>3. t = s \o e
  BY DEF Collect
<1>4. /\ t \in Seq(Work) /\ Len(t) = n + 1
      /\ \A i \in 1..n : t[i] = Op("opatch", NodeList[i])
      /\ t[n + 1] = Op("write", "compatibility")
  <2> HIDE DEF e, s, t, n
  <2>1. /\ t \in Seq(Work) /\ Len(t) = n + 1
        /\ \A i \in 1..n : t[i] = s[i]
        /\ \A i \in 1..1 : t[n + i] = e[i]
    <3>1. s \in Seq(Work) /\ e \in Seq(Work)
      BY <1>1, <1>2
    <3>2. /\ s \o e \in Seq(Work) /\ Len(s \o e) = Len(s) + Len(e)
          /\ \A i \in 1..Len(s) : (s \o e)[i] = s[i]
          /\ \A i \in 1..Len(e) : (s \o e)[Len(s) + i] = e[i]
      BY <3>1, ConcatIs
    <3> QED BY <1>1, <1>2, <1>3, <3>2
  <2>2. t[n + 1] = e[1]
    BY <2>1
  <2> QED BY <1>1, <1>2, <2>1, <2>2
<1>5. n \in Nat \ {0} /\ 1 \in 1..n
  BY NodesAre
<1> HIDE DEF t, n
<1>a. (\A i \in 1..n : t[i].kind = "opatch") /\ t[n + 1].kind = "write" /\ t[n + 1].arg = "compatibility"
  <2>1. ASSUME NEW i \in 1..n PROVE t[i].kind = "opatch"
    <3>1. t[i] = Op("opatch", NodeList[i])
      BY <1>4
    <3> QED BY <3>1 DEF Op
  <2>2. t[n + 1].kind = "write" /\ t[n + 1].arg = "compatibility"
    BY <1>4 DEF Op
  <2> QED BY <2>1, <2>2
<1>6. Pairs(t)
  <2> SUFFICES ASSUME NEW i \in 1..n PROVE Follows(t[i], t[i + 1])
    BY <1>4, <1>5 DEF Pairs
  <2>1. CASE i + 1 \in 1..n
    BY <1>a, <2>1 DEF Follows
  <2>2. CASE i + 1 = n + 1
    BY <1>a, <2>2 DEF Follows, Producer
  <2> QED BY <1>5, <2>1, <2>2
<1>7. Drafts(t)
  <2>1. ASSUME NEW i \in 1..Len(t) PROVE t[i].kind # "validate"
    <3>1. i \in 1..n \/ i = n + 1
      BY <1>4, <1>5
    <3> QED BY <1>a, <3>1
  <2> QED BY <2>1 DEF Drafts
<1>8. t[1].kind = "opatch" /\ t # <<>>
  <2>1. t[1] = Op("opatch", NodeList[1])
    BY <1>4, <1>5
  <2>2. t # <<>> <=> Len(t) \in Nat \ {0}
    BY <1>4, NotEmpty
  <2> QED BY <1>4, <1>5, <2>1, <2>2 DEF Op
<1> QED BY <1>4, <1>6, <1>7, <1>8 DEF Fragment, t

LEMMA EndedIs ==
  ASSUME NEW names \in Seq(Cleared), Len(names) \in Nat \ {0}, NEW what \in {"snapshots", "media"}
  PROVE  LET t == Ending(Clears(names), what)
         IN /\ t \in Seq(Ops) /\ Len(t) = Len(names)
            /\ \A i \in 1..(Len(names) - 1) : t[i] = Op("clear", names[i])
            /\ t[Len(names)] = [kind |-> "clear", arg |-> names[Len(names)], ends |-> what]
<1> DEFINE c == Clears(names)
           n == Len(names)
<1>1. c \in Seq(Ops) /\ Len(c) = n /\ \A i \in 1..n : c[i] = Op("clear", names[i])
  BY ClearsIs
<1> HIDE DEF c
<1>2. c[n] = Op("clear", names[n])
  BY <1>1
<1>3. c[n].kind = "clear" /\ [c[n] EXCEPT !.ends = what] = [kind |-> "clear", arg |-> names[n], ends |-> what]
  BY <1>2 DEF Op
<1>4. /\ Ending(c, what) \in Seq(Ops) /\ Len(Ending(c, what)) = Len(c)
      /\ \A i \in 1..(Len(c) - 1) : Ending(c, what)[i] = c[i]
      /\ Ending(c, what)[Len(c)] = [c[Len(c)] EXCEPT !.ends = what]
  <2>1. Len(c) \in Nat \ {0} /\ c[Len(c)].kind = "clear" /\ c \in Seq(Ops)
    BY <1>1, <1>3
  <2> QED BY <2>1, EndingIs
<1>5. \A i \in 1..(n - 1) : i \in 1..n
  OBVIOUS
<1> QED BY <1>1, <1>3, <1>4, <1>5 DEF c

(* A discovery is one operation for each node and ends by dropping the     *)
(* card.                                                                   *)
LEMMA DiscoveryIs == Continues(Discovery) /\ Visiting(Discovery)
<1> DEFINE s == PerNode("collect")
           n == Len(NodeList)
           x == <<Op("index", None)>>
           c == <<"reconciliation", "compatibility", "compatibility_reconciliation", "readiness">>
           e == Ending(Clears(c), "snapshots")
           t == Discovery
<1>1. s \in Seq(Ops) /\ Len(s) = n /\ \A i \in 1..n : s[i] = Op("collect", NodeList[i])
  BY PerNodeIs
<1>2. x \in Seq(Ops) /\ Len(x) = 1 /\ x[1] = Op("index", None)
  BY DEF Op, Ops, Kinds
<1>3. c \in Seq(Cleared) /\ Len(c) = 4
  BY DEF Cleared, Media
<1>4. c[1] = "reconciliation" /\ c[2] = "compatibility" /\ c[3] = "compatibility_reconciliation" /\ c[4] = "readiness"
  OBVIOUS
<1>5. t = (s \o x) \o e
  BY DEF Discovery
<1> HIDE DEF c, s, x
<1>6. /\ e \in Seq(Ops) /\ Len(e) = 4
      /\ \A i \in 1..3 : e[i] = Op("clear", c[i])
      /\ e[4] = [kind |-> "clear", arg |-> c[4], ends |-> "snapshots"]
  <2>1. /\ e \in Seq(Ops) /\ Len(e) = 4
        /\ \A i \in 1..(4 - 1) : e[i] = Op("clear", c[i])
        /\ e[4] = [kind |-> "clear", arg |-> c[4], ends |-> "snapshots"]
    <3>1. c \in Seq(Cleared) /\ Len(c) \in Nat \ {0}
      BY <1>3
    <3>2. LET q == Ending(Clears(c), "snapshots")
          IN /\ q \in Seq(Ops) /\ Len(q) = Len(c)
             /\ \A i \in 1..(Len(c) - 1) : q[i] = Op("clear", c[i])
             /\ q[Len(c)] = [kind |-> "clear", arg |-> c[Len(c)], ends |-> "snapshots"]
      BY <3>1, EndedIs
    <3> QED BY <1>3, <3>2
  <2> QED BY <2>1
<1> HIDE DEF e, t, n
<1>7. n \in Nat \ {0} /\ 1 \in 1..n
  BY NodesAre DEF n
<1>8. /\ s \o x \in Seq(Ops) /\ Len(s \o x) = n + 1
      /\ \A i \in 1..n : (s \o x)[i] = s[i]
      /\ (s \o x)[n + 1] = x[1]
  <2>1. s \in Seq(Ops) /\ x \in Seq(Ops)
    BY <1>1, <1>2
  <2>2. /\ s \o x \in Seq(Ops) /\ Len(s \o x) = Len(s) + Len(x)
        /\ \A i \in 1..Len(s) : (s \o x)[i] = s[i]
        /\ \A i \in 1..Len(x) : (s \o x)[Len(s) + i] = x[i]
    BY <2>1, ConcatIs
  <2> QED BY <1>1, <1>2, <2>2
<1>9. /\ t \in Seq(Ops) /\ Len(t) = n + 5
      /\ \A i \in 1..(n + 1) : t[i] = (s \o x)[i]
      /\ t[n + 2] = e[1] /\ t[n + 3] = e[2] /\ t[n + 4] = e[3] /\ t[n + 5] = e[4]
  <2>1. s \o x \in Seq(Ops) /\ e \in Seq(Ops)
    BY <1>6, <1>8
  <2>2. /\ t \in Seq(Ops) /\ Len(t) = Len(s \o x) + Len(e)
        /\ \A i \in 1..Len(s \o x) : t[i] = (s \o x)[i]
        /\ \A i \in 1..Len(e) : t[Len(s \o x) + i] = e[i]
    BY <1>5, <2>1, ConcatIs
  <2>3. /\ t \in Seq(Ops) /\ Len(t) = (n + 1) + 4
        /\ \A i \in 1..(n + 1) : t[i] = (s \o x)[i]
        /\ t[(n + 1) + 1] = e[1] /\ t[(n + 1) + 2] = e[2] /\ t[(n + 1) + 3] = e[3] /\ t[(n + 1) + 4] = e[4]
    BY SMTT(60), <1>6, <1>8, <2>2
  <2>4. (n + 1) + 4 = n + 5 /\ (n + 1) + 1 = n + 2 /\ (n + 1) + 2 = n + 3 /\ (n + 1) + 3 = n + 4
    BY <1>7
  <2> QED BY <2>3, <2>4
<1>10. /\ \A i \in 1..n : t[i].kind = "collect" /\ t[i].ends = None
       /\ t[n + 1].kind = "index" /\ t[n + 1].ends = None
       /\ t[n + 2].kind = "clear" /\ t[n + 2].arg = "reconciliation" /\ t[n + 2].ends = None
       /\ t[n + 3].kind = "clear" /\ t[n + 3].arg = "compatibility" /\ t[n + 3].ends = None
       /\ t[n + 4].kind = "clear" /\ t[n + 4].arg = "compatibility_reconciliation" /\ t[n + 4].ends = None
       /\ t[n + 5].kind = "clear" /\ t[n + 5].arg = "readiness" /\ t[n + 5].ends = "snapshots"
  <2>1. ASSUME NEW i \in 1..n PROVE t[i].kind = "collect" /\ t[i].ends = None
    <3>1. i \in 1..(n + 1)
      BY <1>7
    <3>2. t[i] = Op("collect", NodeList[i])
      BY <1>1, <1>8, <1>9, <3>1
    <3> QED BY <3>2 DEF Op
  <2>2. n + 1 \in 1..(n + 1)
    BY <1>7
  <2>3. t[n + 1] = Op("index", None)
    BY <1>2, <1>8, <1>9, <2>2
  <2>4. /\ t[n + 2] = Op("clear", "reconciliation") /\ t[n + 3] = Op("clear", "compatibility")
        /\ t[n + 4] = Op("clear", "compatibility_reconciliation")
        /\ t[n + 5] = [kind |-> "clear", arg |-> "readiness", ends |-> "snapshots"]
    <3>1. e[1] = Op("clear", c[1]) /\ e[2] = Op("clear", c[2]) /\ e[3] = Op("clear", c[3])
      BY <1>6
    <3> QED BY <1>4, <1>6, <1>9, <3>1
  <2> QED BY <2>1, <2>3, <2>4 DEF Op
<1>11. \A i \in 1..Len(t) : i \in 1..n \/ i = n + 1 \/ i = n + 2 \/ i = n + 3 \/ i = n + 4 \/ i = n + 5
  BY <1>7, <1>9
<1>12. \A i \in 1..Len(t) : /\ t[i].kind \in {"collect", "index", "clear"} /\ t[i].ends # "media"
                             /\ (t[i].ends = "snapshots" <=> i = n + 5)
                             /\ (t[i].kind = "clear" /\ t[i].arg = "reconciliation" <=> i = n + 2)
                             /\ (t[i].kind = "clear" => t[i].arg # "artifact")
  <2> SUFFICES ASSUME NEW i \in 1..Len(t)
               PROVE /\ t[i].kind \in {"collect", "index", "clear"} /\ t[i].ends # "media"
                     /\ (t[i].ends = "snapshots" <=> i = n + 5)
                     /\ (t[i].kind = "clear" /\ t[i].arg = "reconciliation" <=> i = n + 2)
                     /\ (t[i].kind = "clear" => t[i].arg # "artifact")
    OBVIOUS
  <2>1. CASE i \in 1..n
    <3>1. i # n + 5 /\ i # n + 2
      BY <1>7, <2>1
    <3> QED BY SMTT(60), <1>10, <2>1, <3>1, NoneIs
  <2>2. n + 1 # n + 5 /\ n + 2 # n + 5 /\ n + 3 # n + 5 /\ n + 4 # n + 5
        /\ n + 1 # n + 2 /\ n + 3 # n + 2 /\ n + 4 # n + 2
    BY <1>7
  <2>3. CASE i \in {n + 1, n + 2, n + 3, n + 4, n + 5}
    BY SMTT(60), <1>10, <2>2, <2>3, NoneIs
  <2> QED BY <1>11, <2>1, <2>3
<1>13. Shape(t)
  <2>1. n + 5 \in ((n + 2) + 1)..Len(t)
    BY <1>7, <1>9
  <2>2. Pairs(t)
    <3>1. \A i \in 1..(Len(t) - 1) : i \in 1..Len(t) /\ i + 1 \in 1..Len(t)
      BY <1>7, <1>9
    <3> QED BY <1>12, <3>1 DEF Pairs, Follows
  <2> QED BY ZenonT(60), <1>10, <1>12, <2>1, <2>2 DEF Shape, Pairs
<1>14. Drafts(t)
  BY <1>12 DEF Drafts
<1>15. t # <<>> /\ t[1].kind = "collect"
  <2>1. t # <<>> <=> Len(t) \in Nat \ {0}
    BY <1>9, NotEmpty
  <2> QED BY <1>7, <1>9, <1>10, <2>1
<1>16. Visiting(t)
  <2>1. \A i \in 1..Len(t) : n + 5 \in i..Len(t)
    BY <1>7, <1>9
  <2> QED BY <1>10, <1>12, <2>1 DEF Visiting
<1> QED BY <1>9, <1>12, <1>13, <1>14, <1>15, <1>16 DEF Continues, Program, t

(* A staging drops every verdict after the last node.                      *)
LEMMA StageIs == Program(Stage(TRUE)) /\ Program(Stage(FALSE))
<1> DEFINE c == <<"artifact", "procedure", "compatibility", "compatibility_reconciliation", "readiness">>
           e == Ending(Clears(c), "media")
           n == Len(NodeList)
<1>1. c \in Seq(Cleared) /\ Len(c) = 5
  BY DEF Cleared, Media
<1>2. /\ c[1] = "artifact" /\ c[2] = "procedure" /\ c[3] = "compatibility"
      /\ c[4] = "compatibility_reconciliation" /\ c[5] = "readiness"
  OBVIOUS
<1>a. Stage(TRUE) = PerNode("replace") \o e /\ Stage(FALSE) = PerNode("fill") \o e
  BY DEF Stage
<1> HIDE DEF c
<1>3. /\ e \in Seq(Ops) /\ Len(e) = 5
      /\ \A i \in 1..4 : e[i] = Op("clear", c[i])
      /\ e[5] = [kind |-> "clear", arg |-> c[5], ends |-> "media"]
  <2>1. c \in Seq(Cleared) /\ Len(c) \in Nat \ {0}
    BY <1>1
  <2>2. LET q == Ending(Clears(c), "media")
        IN /\ q \in Seq(Ops) /\ Len(q) = Len(c)
           /\ \A i \in 1..(Len(c) - 1) : q[i] = Op("clear", c[i])
           /\ q[Len(c)] = [kind |-> "clear", arg |-> c[Len(c)], ends |-> "media"]
    BY <2>1, EndedIs
  <2> QED BY <1>1, <2>2
<1> HIDE DEF e, n
<1>4. n \in Nat \ {0} /\ 1 \in 1..n
  BY NodesAre DEF n
<1>5. ASSUME NEW k \in {"replace", "fill"} PROVE Program(PerNode(k) \o e)
  <2> DEFINE s == PerNode(k)
             t == s \o e
  <2>1. s \in Seq(Ops) /\ Len(s) = n /\ \A i \in 1..n : s[i] = Op(k, NodeList[i])
    BY PerNodeIs DEF n
  <2> HIDE DEF s
  <2>2. /\ t \in Seq(Ops) /\ Len(t) = n + 5 /\ \A i \in 1..n : t[i] = s[i]
        /\ t[n + 1] = e[1] /\ t[n + 2] = e[2] /\ t[n + 3] = e[3] /\ t[n + 4] = e[4] /\ t[n + 5] = e[5]
    <3>1. s \in Seq(Ops) /\ e \in Seq(Ops)
      BY <1>3, <2>1
    <3>2. /\ t \in Seq(Ops) /\ Len(t) = Len(s) + Len(e)
          /\ \A i \in 1..Len(s) : t[i] = s[i]
          /\ \A i \in 1..Len(e) : t[Len(s) + i] = e[i]
      BY <3>1, ConcatIs
    <3> QED BY SMTT(60), <1>3, <2>1, <3>2
  <2> HIDE DEF t
  <2>3. /\ \A i \in 1..n : t[i].kind = k /\ t[i].ends = None
        /\ t[n + 1].kind = "clear" /\ t[n + 1].arg = "artifact" /\ t[n + 1].ends = None
        /\ t[n + 2].kind = "clear" /\ t[n + 2].arg = "procedure" /\ t[n + 2].ends = None
        /\ t[n + 3].kind = "clear" /\ t[n + 3].arg = "compatibility" /\ t[n + 3].ends = None
        /\ t[n + 4].kind = "clear" /\ t[n + 4].arg = "compatibility_reconciliation" /\ t[n + 4].ends = None
        /\ t[n + 5].kind = "clear" /\ t[n + 5].arg = "readiness" /\ t[n + 5].ends = "media"
    <3>1. ASSUME NEW i \in 1..n PROVE t[i].kind = k /\ t[i].ends = None
      <4>1. t[i] = Op(k, NodeList[i])
        BY <2>1, <2>2
      <4> QED BY <4>1 DEF Op
    <3>2. /\ e[1] = Op("clear", c[1]) /\ e[2] = Op("clear", c[2]) /\ e[3] = Op("clear", c[3])
          /\ e[4] = Op("clear", c[4])
      BY <1>3
    <3> QED BY <1>2, <1>3, <2>2, <3>1, <3>2 DEF Op
  <2>4. \A i \in 1..Len(t) : i \in 1..n \/ i \in {n + 1, n + 2, n + 3, n + 4, n + 5}
    BY <1>4, <2>2
  <2>5. ASSUME NEW i \in 1..Len(t)
        PROVE  /\ t[i].kind \in {"replace", "fill", "clear"} /\ t[i].ends # "snapshots"
               /\ (t[i].ends = "media" <=> i = n + 5)
               /\ ~(t[i].kind = "clear" /\ t[i].arg = "reconciliation")
    <3>1. CASE i \in 1..n
      <4>1. i # n + 5
        BY <1>4, <3>1
      <4> QED BY SMTT(60), <2>3, <3>1, <4>1, NoneIs
    <3>2. n + 1 # n + 5 /\ n + 2 # n + 5 /\ n + 3 # n + 5 /\ n + 4 # n + 5
      BY <1>4
    <3>3. CASE i \in {n + 1, n + 2, n + 3, n + 4, n + 5}
      BY SMTT(60), <2>3, <3>2, <3>3, NoneIs
    <3> QED BY <2>4, <3>1, <3>3
  <2>6. Shape(t)
    <3>1. Pairs(t)
      <4>1. \A i \in 1..(Len(t) - 1) : i \in 1..Len(t) /\ i + 1 \in 1..Len(t)
        BY <1>4, <2>2
      <4> QED BY <2>5, <4>1 DEF Pairs, Follows
    <3>2. ASSUME NEW i \in 1..Len(t) PROVE \A j \in 1..i : t[j].kind \in {"replace", "fill", "clear"}
      <4>1. \A j \in 1..i : j \in 1..Len(t)
        BY <1>4, <2>2
      <4> QED BY <2>5, <4>1
    <3> QED BY <2>3, <2>5, <3>1, <3>2 DEF Shape, Pairs
  <2>7. Drafts(t)
    BY <2>5 DEF Drafts
  <2>8. t # <<>> /\ t[1].kind \in {"replace", "fill"}
    <3>1. t # <<>> <=> Len(t) \in Nat \ {0}
      BY <2>2, NotEmpty
    <3> QED BY <1>4, <2>2, <2>3, <3>1
  <2>9. ASSUME NEW i \in 1..Len(t), t[i].ends = "media", NEW name \in Media
        PROVE  \E j \in 1..i : t[j].kind = "clear" /\ t[j].arg = name
    <3>1. n + 1 \in 1..i /\ n + 2 \in 1..i /\ n + 3 \in 1..i /\ n + 4 \in 1..i
      BY SMTT(60), <1>4, <2>5, <2>9
    <3> QED BY <2>3, <3>1 DEF Media
  <2>10. \A i \in 1..Len(t) : t[i].ends # "snapshots"
    BY <2>5
  <2>11. Program(t)
    BY <2>2, <2>6, <2>7, <2>8, <2>9, <2>10 DEF Program
  <2> QED BY <2>11 DEF s, t
<1> QED BY <1>a, <1>5

(* A chain ends by writing the card, looking at it, and being done.        *)
LEMMA DoneIs ==
  ASSUME NEW s, Continues(s), Len(s) > 1,
         s[Len(s)].kind = "ok", s[Len(s) - 1] = Op("write", "readiness")
  PROVE  Program(s \o <<Op("done", None)>>)
<1> DEFINE d == <<Op("done", None)>>
           u == s \o d
           m == Len(s)
<1>1. s \in Seq(Ops) /\ d \in Seq(Ops) /\ Len(d) = 1 /\ d[1] = Op("done", None)
  BY DEF Continues, Program, Op, Ops, Kinds
<1> HIDE DEF d
<1>2. /\ u \in Seq(Ops) /\ Len(u) = m + 1 /\ m \in Nat /\ m > 1
      /\ \A i \in 1..m : u[i] = s[i]
      /\ u[m + 1] = Op("done", None)
  <2>1. /\ u \in Seq(Ops) /\ Len(u) = Len(s) + Len(d) /\ Len(s) \in Nat
        /\ \A i \in 1..Len(s) : u[i] = s[i]
        /\ \A i \in 1..Len(d) : u[Len(s) + i] = d[i]
    <3>1. s \in Seq(Ops) /\ d \in Seq(Ops)
      BY <1>1
    <3> QED BY <3>1, ConcatIs
  <2> QED BY <1>1, <2>1
<1> HIDE DEF u, m
<1>3. u[m + 1].kind = "done" /\ u[m + 1].ends = None /\ u[1] = s[1]
      /\ u[m].kind = "ok" /\ u[m - 1].kind = "write" /\ u[m - 1].arg = "readiness"
  <2>1. s[m].kind = "ok" /\ s[m - 1] = Op("write", "readiness")
    BY DEF m
  <2>2. m \in 1..m /\ m - 1 \in 1..m /\ 1 \in 1..m
    BY <1>2
  <2> QED BY <1>2, <2>1, <2>2 DEF Op
<1>4. \A i \in 1..Len(u) : (i \in 1..m /\ u[i] = s[i]) \/ i = m + 1
  BY <1>2
<1>5. \A i \in 1..m : s[i].kind # "done" /\ s[i].ends # "media"
  BY DEF Continues, m
<1>6. Pairs(u)
  <2>1. \A i \in 1..(m - 1) : Follows(s[i], s[i + 1])
    BY DEF Continues, Program, Shape, m
  <2> SUFFICES ASSUME NEW i \in 1..(Len(u) - 1) PROVE Follows(u[i], u[i + 1])
    BY DEF Pairs
  <2>2. CASE i = m
    BY <1>3, <2>2 DEF Follows
  <2>3. CASE i # m
    <3>1. i \in 1..(m - 1) /\ i \in 1..m /\ i + 1 \in 1..m
      BY <1>2, <2>3
    <3>2. u[i] = s[i] /\ u[i + 1] = s[i + 1]
      BY <1>2, <3>1
    <3> QED BY <2>1, <3>1, <3>2
  <2> QED BY <2>2, <2>3
<1>7. \A i \in 1..Len(u) : u[i].ends = "snapshots" => i \in 1..m /\ u[i] = s[i]
  BY <1>3, <1>4, NoneIs
<1>8. \A i \in 1..Len(u) : u[i].ends = "snapshots" =>
        /\ u[i].kind = "clear" /\ u[i].arg = "readiness"
        /\ \A j \in 1..Len(u) : j # i => u[j].ends # "snapshots"
  <2>1. \A i \in 1..m : s[i].ends = "snapshots" =>
          /\ s[i].kind = "clear" /\ s[i].arg = "readiness"
          /\ \A j \in 1..m : j # i => s[j].ends # "snapshots"
    BY DEF Continues, Program, Shape, m
  <2> QED BY SMTT(60), <1>7, <2>1
<1>9. \A i \in 1..Len(u) : u[i].kind = "clear" /\ u[i].arg = "reconciliation" =>
        \E j \in (i + 1)..Len(u) : u[j].ends = "snapshots"
  <2> SUFFICES ASSUME NEW i \in 1..Len(u), u[i].kind = "clear", u[i].arg = "reconciliation"
               PROVE \E j \in (i + 1)..Len(u) : u[j].ends = "snapshots"
    OBVIOUS
  <2>1. i \in 1..m /\ u[i] = s[i]
    BY <1>3, <1>4
  <2>2. PICK j \in (i + 1)..m : s[j].ends = "snapshots"
    BY <2>1 DEF Continues, Program, Shape, m
  <2>3. j \in (i + 1)..Len(u) /\ u[j] = s[j]
    BY <1>2, <2>1
  <2> QED BY <2>2, <2>3
<1>10. \A i \in 1..Len(u) : u[i].ends # "media"
  BY SMTT(60), <1>3, <1>4, <1>5, NoneIs
<1>11. \A i \in 1..Len(u) : u[i].kind = "done" =>
         /\ i = Len(u) /\ (i > 1 => u[i - 1].kind = "ok")
         /\ (i > 2 => u[i - 2].kind = "write" /\ u[i - 2].arg = "readiness")
  <2>1. (m + 1) - 1 = m /\ (m + 1) - 2 = m - 1
    BY <1>2
  <2> QED BY <1>2, <1>3, <1>4, <1>5, <2>1
<1>12. Shape(u)
  BY <1>6, <1>8, <1>9, <1>10, <1>11 DEF Shape, Pairs
<1>13. Drafts(u)
  <2> SUFFICES ASSUME NEW i \in 1..Len(u), u[i].kind = "validate"
               PROVE \E j \in 1..(i - 1) : u[j].kind \in {"draft", "redraft"}
    BY DEF Drafts
  <2>1. i \in 1..m /\ u[i] = s[i]
    BY SMTT(60), <1>3, <1>4
  <2>2. PICK j \in 1..(i - 1) : s[j].kind \in {"draft", "redraft"}
    BY <2>1 DEF Continues, Program, Drafts, m
  <2>3. j \in 1..m
    BY <1>2, <2>1
  <2> QED BY <1>2, <2>2, <2>3
<1>14. u # <<>>
  <2>1. u # <<>> <=> Len(u) \in Nat \ {0}
    BY <1>2, NotEmpty
  <2> QED BY <1>2, <2>1
<1>15. u[1].kind \notin {"write", "emit", "ok", "done"}
  BY <1>3 DEF Continues, Program
<1>16. \A i \in 1..Len(u) : u[i].ends = "snapshots" => u[1].kind = "collect"
  BY <1>3, <1>7 DEF Continues, Program, m
<1> QED BY <1>2, <1>10, <1>12, <1>13, <1>14, <1>15, <1>16 DEF Program, u, d

LEMMA ChainIs ==
  ASSUME NEW p \in Policies
  PROVE  Program(Chain(p))
<1> DEFINE ok == <<Op("ok", None)>>
           s == Discovery \o Reconcile \o ok \o Inspect \o ok \o Validate(Op("redraft", None)) \o ok
                  \o Collect \o ok \o Combine \o ok
           u == s \o Evaluate(p)
           v == u \o ok
<1>1. Continues(s)
  <2> HIDE DEF ok
  <2>1. Fragment(ok)
    BY OkIs DEF ok
  <2>2. Continues(Discovery \o Reconcile \o ok)
    BY <2>1, DiscoveryIs, ReconcileIs, Extended
  <2>3. Continues(Discovery \o Reconcile \o ok \o Inspect \o ok)
    BY <2>1, <2>2, InspectIs, Extended
  <2>4. Continues(Discovery \o Reconcile \o ok \o Inspect \o ok \o Validate(Op("redraft", None)) \o ok)
    BY <2>1, <2>3, ValidateIs, Extended
  <2>5. Continues(Discovery \o Reconcile \o ok \o Inspect \o ok \o Validate(Op("redraft", None)) \o ok
                    \o Collect \o ok)
    BY <2>1, <2>4, CollectIs, Extended
  <2> QED BY <2>1, <2>5, CombineIs, Extended
<1>2. Fragment(Evaluate(p)) /\ Len(Evaluate(p)) = 4 /\ Evaluate(p)[4] = Op("write", "readiness")
  BY EvaluateIs
<1>3. Fragment(ok) /\ Len(ok) = 1 /\ ok[1] = Op("ok", None)
  BY OkIs
<1>4. Chain(p) = v \o <<Op("done", None)>>
  BY DEF Chain
<1> HIDE DEF ok, s
<1>5. Continues(u)
  BY <1>1, <1>2, Extended
<1>6. Len(u) \in Nat /\ Len(u) > 3 /\ u[Len(u)] = Op("write", "readiness") /\ u \in Seq(Ops)
  <2>1. s \in Seq(Ops) /\ Evaluate(p) \in Seq(Ops)
    BY <1>1, <1>2, SeqMonotonic DEF Continues, Program, Fragment, Work
  <2>2. /\ u \in Seq(Ops) /\ Len(u) = Len(s) + Len(Evaluate(p)) /\ Len(s) \in Nat
        /\ \A i \in 1..Len(Evaluate(p)) : u[Len(s) + i] = Evaluate(p)[i]
    BY <2>1, ConcatIs
  <2> QED BY <1>2, <2>2
<1> HIDE DEF u
<1>7. Continues(v)
  BY <1>3, <1>5, Extended
<1>8. Len(v) = Len(u) + 1 /\ v[Len(v)].kind = "ok" /\ v[Len(v) - 1] = Op("write", "readiness")
  <2>1. u \in Seq(Ops) /\ ok \in Seq(Ops)
    BY <1>3, <1>6, SeqMonotonic DEF Fragment, Work
  <2>2. /\ Len(v) = Len(u) + Len(ok)
        /\ \A i \in 1..Len(u) : v[i] = u[i]
        /\ \A i \in 1..Len(ok) : v[Len(u) + i] = ok[i]
    BY <2>1, ConcatIs
  <2>3. v[Len(v)] = Op("ok", None)
    BY <1>3, <2>2
  <2>4. Len(v) - 1 = Len(u) /\ Len(u) \in 1..Len(u)
    BY <1>3, <1>6, <2>2
  <2> QED BY <1>3, <1>6, <2>2, <2>3, <2>4 DEF Op
<1>9. Len(v) > 1
  BY <1>6, <1>8
<1> HIDE DEF v
<1> QED BY <1>4, <1>7, <1>8, <1>9, DoneIs

(* Every program of a run is one; the visit's is a discovery.              *)
LEMMA ProgramsAre ==
  ASSUME NEW program \in Programs
  PROVE  Program(program)
<1>1. \A v \in Versions : Program(Validate(Op("draft", v)))
  BY ValidateIs, FragmentIsProgram DEF Continues
<1>2. \A p \in Policies : Program(Evaluate(p))
  BY EvaluateIs, FragmentIsProgram DEF Continues, Evaluate, Op
<1>3. Program(Reconcile) /\ Program(Collect)
  BY ReconcileIs, CollectIs, FragmentIsProgram DEF Continues
<1>4. Program(Inspect) /\ Program(Combine)
  BY InspectIs, CombineIs, FragmentIsProgram DEF Continues, Inspect, Combine, Op
<1> QED BY <1>1, <1>2, <1>3, <1>4, DiscoveryIs, StageIs, ChainIs DEF Programs, Continues

-----------------------------------------------------------------------------
(* What is left of a program *)

LEMMA TailIs ==
  ASSUME NEW t \in Seq(Ops), t # <<>>
  PROVE  /\ Tail(t) \in Seq(Ops) /\ Head(t) = t[1] /\ t[1] \in Ops
         /\ Len(t) \in Nat \ {0} /\ Len(Tail(t)) = Len(t) - 1
         /\ (Tail(t) = <<>> <=> Len(t) = 1)
         /\ \A i \in 1..Len(Tail(t)) : Tail(t)[i] = t[i + 1] /\ i + 1 \in 1..Len(t) /\ i \in 1..Len(t)
<1>1. Len(t) \in Nat \ {0}
  BY NotEmpty
<1>2. /\ Tail(t) \in Seq(Ops) /\ Head(t) = t[1] /\ t[1] \in Ops /\ Len(Tail(t)) = Len(t) - 1
      /\ \A i \in 1..Len(Tail(t)) : Tail(t)[i] = t[i + 1]
  BY <1>1, HeadTailProperties, ElementOfSeq
<1>3. Tail(t) # <<>> <=> Len(Tail(t)) \in Nat \ {0}
  BY <1>2, NotEmpty
<1> QED BY <1>1, <1>2, <1>3

LEMMA ShapeOfTail ==
  ASSUME NEW t \in Seq(Ops), t # <<>>, Shape(t)
  PROVE  Shape(Tail(t))
<1> DEFINE r == Tail(t)
<1>1. /\ Len(t) \in Nat \ {0} /\ Len(r) = Len(t) - 1
      /\ \A i \in 1..Len(r) : r[i] = t[i + 1] /\ i + 1 \in 1..Len(t)
  BY TailIs
<1> HIDE DEF r
<1>2. ASSUME NEW i \in 1..(Len(r) - 1) PROVE Follows(r[i], r[i + 1])
  <2>1. /\ i \in 1..Len(r) /\ i + 1 \in 1..Len(r) /\ i + 1 \in 1..(Len(t) - 1)
        /\ r[i] = t[i + 1] /\ r[i + 1] = t[(i + 1) + 1]
    BY <1>1
  <2> QED BY <2>1 DEF Shape
<1>3. ASSUME NEW i \in 1..Len(r), r[i].ends = "snapshots"
      PROVE  /\ r[i].kind = "clear" /\ r[i].arg = "readiness"
             /\ \A j \in 1..Len(r) : j # i => r[j].ends # "snapshots"
  <2>1. r[i] = t[i + 1] /\ i + 1 \in 1..Len(t)
    BY <1>1
  <2>2. ASSUME NEW j \in 1..Len(r), j # i PROVE r[j].ends # "snapshots"
    <3>1. r[j] = t[j + 1] /\ j + 1 \in 1..Len(t) /\ j + 1 # i + 1
      BY <1>1, <2>2
    <3> QED BY <1>3, <2>1, <3>1 DEF Shape
  <2> QED BY <1>3, <2>1, <2>2 DEF Shape
<1>4. ASSUME NEW i \in 1..Len(r), r[i].ends = "media"
      PROVE  r[i].kind = "clear" /\ \A j \in 1..i : r[j].kind \in {"replace", "fill", "clear"}
  <2>1. r[i] = t[i + 1] /\ i + 1 \in 1..Len(t)
    BY <1>1
  <2>2. \A j \in 1..i : r[j] = t[j + 1] /\ j + 1 \in 1..(i + 1)
    BY <1>1
  <2> QED BY ZenonT(60), <1>4, <2>1, <2>2 DEF Shape
<1>5. ASSUME NEW i \in 1..Len(r), r[i].kind = "clear", r[i].arg = "reconciliation"
      PROVE  \E j \in (i + 1)..Len(r) : r[j].ends = "snapshots"
  <2>1. r[i] = t[i + 1] /\ i + 1 \in 1..Len(t)
    BY <1>1
  <2>2. PICK j \in ((i + 1) + 1)..Len(t) : t[j].ends = "snapshots"
    BY <1>5, <2>1 DEF Shape
  <2>3. j - 1 \in (i + 1)..Len(r) /\ j - 1 \in 1..Len(r) /\ (j - 1) + 1 = j
    BY <1>1
  <2>4. r[j - 1] = t[j]
    BY <1>1, <2>3
  <2> QED BY <2>2, <2>3, <2>4
<1>6. ASSUME NEW i \in 1..Len(r), r[i].kind = "done"
      PROVE  /\ i = Len(r) /\ (i > 1 => r[i - 1].kind = "ok")
             /\ (i > 2 => r[i - 2].kind = "write" /\ r[i - 2].arg = "readiness")
  <2>1. r[i] = t[i + 1] /\ i + 1 \in 1..Len(t) /\ i + 1 > 1
    BY <1>1
  <2>2. i + 1 = Len(t) /\ t[(i + 1) - 1].kind = "ok"
        /\ (i + 1 > 2 => t[(i + 1) - 2].kind = "write" /\ t[(i + 1) - 2].arg = "readiness")
    BY <1>6, <2>1 DEF Shape
  <2>3. (i + 1) - 1 = i /\ (i + 1) - 2 = i - 1 /\ i = Len(r)
    BY <1>1, <2>2
  <2>4. i > 1 => i - 1 \in 1..Len(r) /\ (i - 1) + 1 = i
    BY <1>1
  <2>5. i > 1 => r[i - 1] = t[i]
    BY <1>1, <2>4
  <2>6. i > 2 => i - 2 \in 1..Len(r) /\ (i - 2) + 1 = i - 1 /\ i + 1 > 2
    BY <1>1
  <2>7. i > 2 => r[i - 2] = t[i - 1]
    BY <1>1, <2>6
  <2> QED BY <2>2, <2>3, <2>5, <2>6, <2>7
<1>7. Shape(r)
  BY <1>2, <1>3, <1>4, <1>5, <1>6 DEF Shape
<1> QED BY <1>7 DEF r

LEMMA VisitingOfTail ==
  ASSUME NEW t \in Seq(Ops), t # <<>>, Visiting(t)
  PROVE  Visiting(Tail(t))
<1> DEFINE r == Tail(t)
<1>1. /\ Len(t) \in Nat \ {0} /\ Len(r) = Len(t) - 1
      /\ \A i \in 1..Len(r) : r[i] = t[i + 1] /\ i + 1 \in 1..Len(t)
  BY TailIs
<1> HIDE DEF r
<1>2. ASSUME NEW i \in 1..Len(r), r[i].kind = "clear" PROVE \E j \in i..Len(r) : r[j].ends = "snapshots"
  <2>1. r[i] = t[i + 1] /\ i + 1 \in 1..Len(t)
    BY <1>1
  <2>2. PICK j \in (i + 1)..Len(t) : t[j].ends = "snapshots"
    BY <1>2, <2>1 DEF Visiting
  <2>3. j - 1 \in i..Len(r) /\ j - 1 \in 1..Len(r) /\ (j - 1) + 1 = j
    BY <1>1
  <2>4. r[j - 1] = t[j]
    BY <1>1, <2>3
  <2> QED BY <2>2, <2>3, <2>4
<1>3. Visiting(r)
  BY SMTT(60), <1>1, <1>2 DEF Visiting
<1> QED BY <1>3 DEF r

(* An actor that has nothing to do breaks nothing.                         *)
LEMMA NothingLeft == Shape(<<>>) /\ Visiting(<<>>) /\ <<>> \in Seq(Ops)
BY DEF Shape, Visiting

-----------------------------------------------------------------------------
(* What an operation does to the files *)

Typed == todo \in [Actor -> Seq(Ops)] /\ DOMAIN carry = Actor /\ DOMAIN begun = Actor

Inv == Typed /\ EvidenceInv

(* An actor gives up, ...                                                  *)
GivesUp(a) ==
  /\ todo' = [todo EXCEPT ![a] = <<>>] /\ carry' = [carry EXCEPT ![a] = None]
  /\ UNCHANGED <<snapshot, doc, media, torn, chained>>

(* ... or does an operation, which changes no more than its kind says.     *)
GoesOn(a) ==
  LET o == todo[a][1] IN
  /\ todo' = [todo EXCEPT ![a] = Tail(todo[a])]
  /\ (o.kind # "collect" => snapshot' = snapshot)
  /\ (o.kind \notin {"replace", "fill"} => media' = media)
  /\ (o.kind # "done" => chained' = chained)
  /\ (o.kind = "write" => doc' = [doc EXCEPT ![o.arg] = carry[a]])
  /\ (o.kind = "clear" => doc' = [doc EXCEPT ![o.arg] = None])
  /\ (o.kind \in {"draft", "redraft"} => \E v \in Versions : doc' = [doc EXCEPT !["procedure_input"] = v])
  /\ (o.kind = "policy" => \E p \in Policies : doc' = [doc EXCEPT !["policy"] = p])
  /\ (o.kind \notin {"write", "clear", "draft", "redraft", "policy"} => doc' = doc)
  /\ (o.kind = "collect" => torn' = torn \cup {"snapshots"})
  /\ (o.kind \in {"replace", "fill"} => torn' = torn \cup {"media"})
  /\ (o.kind = "clear" =>
        torn' = torn \ (IF o.ends = "snapshots" /\ ~Idle(Other(a)) THEN {} ELSE {o.ends}))
  /\ (o.kind \notin {"collect", "replace", "fill", "clear"} => torn' = torn)

LEMMA HeadIs ==
  ASSUME Typed, NEW a \in Actor, todo[a] # <<>>
  PROVE  todo[a] \in Seq(Ops) /\ Head(todo[a]) = todo[a][1] /\ todo[a][1] \in Ops
<1>1. todo[a] \in Seq(Ops)
  BY DEF Typed
<1> QED BY <1>1, TailIs

LEMMA Effects ==
  ASSUME Inv, NEW a \in Actor, Operation(a)
  PROVE  /\ todo[a] # <<>> /\ todo[a] \in Seq(Ops) /\ todo[a][1] \in Ops
         /\ plan' = plan /\ begun' = begun
         /\ DOMAIN carry' = DOMAIN carry /\ (\A b \in Actor \ {a} : carry'[b] = carry[b])
         /\ GivesUp(a) \/ GoesOn(a)
<1>1. todo[a] # <<>>
  BY DEF Operation, Stops, Write, Clear, CollectNode, Index, Reconciled, Inspected, Draft, Validated,
         CheckedNode, Combined, PolicySaved, Gates, Emitted, StepOk, ChainDone, Staged, Does, Idle
<1>2. todo[a] \in Seq(Ops) /\ Head(todo[a]) = todo[a][1] /\ todo[a][1] \in Ops
  BY <1>1, HeadIs DEF Inv
<1> DEFINE o == todo[a][1]
<1>3. \A kind : Does(a, kind) <=> o.kind = kind
  BY <1>1, <1>2 DEF Does, Idle
<1>4. Arg(a) = o.arg
  BY <1>2 DEF Arg
<1>a. DOMAIN carry = Actor
  BY DEF Inv, Typed
<1>b. DOMAIN carry' = DOMAIN carry /\ \A b \in Actor \ {a} : carry'[b] = carry[b]
  BY <1>a DEF Operation, Stops, Write, Clear, CollectNode, Index, Reconciled, Inspected, Draft, Validated,
         CheckedNode, Combined, PolicySaved, Gates, Emitted, StepOk, ChainDone, Staged, Advance, Yields
<1> SUFFICES plan' = plan /\ begun' = begun /\ (GivesUp(a) \/ GoesOn(a))
  BY <1>1, <1>2, <1>b
<1>5. CASE Stops(a)
  BY <1>5 DEF Stops, GivesUp, evidence, history
<1>6. CASE Write(a)
  BY <1>3, <1>4, <1>6 DEF Write, Put, Advance, Step, GoesOn, history
<1>7. CASE Clear(a)
  BY <1>2, <1>3, <1>4, <1>7 DEF Clear, Put, Advance, Step, GoesOn
<1>8. CASE CollectNode(a)
  BY <1>3, <1>8 DEF CollectNode, Advance, Step, GoesOn
<1>9. CASE Index(a)
  BY <1>3, <1>9 DEF Index, Advance, Step, GoesOn, history
<1>10. CASE Reconciled(a)
  BY <1>3, <1>10 DEF Reconciled, Yields, Step, GoesOn, evidence, history
<1>11. CASE Inspected(a)
  BY <1>3, <1>11 DEF Inspected, Yields, Step, GoesOn, evidence, history
<1>12. CASE Draft(a)
  <2>1. doc["artifact"] # None => doc["artifact"] \in Verdicts
    BY DEF Inv, EvidenceInv, EvidenceTypeOK
  <2>2. \E v \in Versions : doc' = [doc EXCEPT !["procedure_input"] = v]
    <3>1. CASE Does(a, "draft")
      <4>1. Arg(a) \in Versions
        BY <1>2, <1>3, <1>4, <3>1 DEF Ops
      <4> QED BY <1>12, <3>1, <4>1 DEF Draft, Put
    <3>2. CASE ~Does(a, "draft")
      <4>1. doc["artifact"].media \in Versions
        BY <1>12, <2>1 DEF Draft, Verdicts
      <4> QED BY <1>12, <3>2, <4>1 DEF Draft, Put
    <3> QED BY <3>1, <3>2
  <2> QED BY <1>3, <1>12, <2>2 DEF Draft, Advance, Step, GoesOn, history
<1>13. CASE Validated(a)
  BY <1>3, <1>13 DEF Validated, Yields, Step, GoesOn, evidence, history
<1>14. CASE CheckedNode(a)
  <2>1. o.kind = "opatch" /\ Step(a) /\ UNCHANGED <<evidence, media, begun, plan, history>>
    BY <1>3, <1>14 DEF CheckedNode, Yields
  <2> QED BY <1>1, <1>2, <2>1 DEF Step, GoesOn, evidence, history
<1>15. CASE Combined(a)
  BY <1>3, <1>15 DEF Combined, Yields, Step, GoesOn, evidence, history
<1>16. CASE PolicySaved(a)
  <2>1. o.kind = "policy" /\ o.arg \in Policies
    BY <1>2, <1>3, <1>16 DEF PolicySaved, Ops
  <2> QED BY <1>3, <1>4, <1>16, <2>1 DEF PolicySaved, Put, Advance, Step, GoesOn, history
<1>17. CASE Gates(a)
  <2>1. o.kind = "gates" /\ Step(a) /\ UNCHANGED <<evidence, media, begun, plan, history>>
    BY <1>3, <1>17 DEF Gates, Yields
  <2> QED BY <1>1, <1>2, <2>1 DEF Step, GoesOn, evidence, history
<1>18. CASE Emitted(a)
  BY <1>3, <1>18 DEF Emitted, Yields, Step, GoesOn, evidence, history
<1>19. CASE StepOk(a)
  <2>1. CASE carry[a].ok
    BY <1>3, <1>19, <2>1 DEF StepOk, Advance, Step, GoesOn, evidence, history
  <2>2. CASE ~carry[a].ok
    BY <1>19, <2>2 DEF StepOk, GivesUp, evidence, history
  <2> QED BY <2>1, <2>2
<1>20. CASE ChainDone(a)
  BY <1>3, <1>20 DEF ChainDone, Advance, Step, GoesOn, evidence
<1>21. CASE Staged(a)
  BY <1>3, <1>21 DEF Staged, Advance, Step, GoesOn, evidence
<1> QED
  BY <1>5, <1>6, <1>7, <1>8, <1>9, <1>10, <1>11, <1>12, <1>13, <1>14, <1>15, <1>16, <1>17, <1>18, <1>19,
     <1>20, <1>21 DEF Operation

-----------------------------------------------------------------------------
(* What is left to do *)

LEMMA TodoKept ==
  ASSUME Inv, NEW a \in Actor, Operation(a)
  PROVE  todo' \in [Actor -> Seq(Ops)] /\ TodoInv'
<1> DEFINE t == todo[a]
           o == t[1]
           u == todo'[a]
<1>1. /\ t # <<>> /\ t \in Seq(Ops) /\ o \in Ops
      /\ GivesUp(a) \/ GoesOn(a)
  BY Effects
<1>2. todo \in [Actor -> Seq(Ops)]
  BY DEF Inv, Typed
<1>3. /\ Tail(t) \in Seq(Ops) /\ Len(t) \in Nat \ {0} /\ Len(Tail(t)) = Len(t) - 1
      /\ \A i \in 1..Len(Tail(t)) : Tail(t)[i] = t[i + 1] /\ i + 1 \in 1..Len(t)
  BY <1>1, TailIs
<1>4. /\ \A b \in Actor : Shape(todo[b]) /\ Unsettled(todo[b])
      /\ Visiting(todo["visit"]) /\ Dropping(todo["run"]) /\ Drafting(todo["run"])
      /\ (Settled("snapshots") => \E b \in Actor : Idle(b))
  BY DEF Inv, EvidenceInv, TodoInv
<1>5. /\ todo' \in [Actor -> Seq(Ops)] /\ (\A b \in Actor \ {a} : todo'[b] = todo[b])
      /\ (GivesUp(a) => u = <<>>) /\ (GoesOn(a) => u = Tail(t))
  <2>1. ASSUME GivesUp(a)
        PROVE  todo' \in [Actor -> Seq(Ops)] /\ (\A b \in Actor \ {a} : todo'[b] = todo[b]) /\ u = <<>>
    BY <1>2, <2>1, NothingLeft DEF GivesUp
  <2>2. ASSUME GoesOn(a)
        PROVE  todo' \in [Actor -> Seq(Ops)] /\ (\A b \in Actor \ {a} : todo'[b] = todo[b]) /\ u = Tail(t)
    <3>1. todo' = [todo EXCEPT ![a] = Tail(t)]
      BY <2>2 DEF GoesOn
    <3> QED BY <1>2, <1>3, <3>1
  <2> QED BY <1>1, <2>1, <2>2
<1> HIDE DEF u, o
<1>6. Shape(u)
  BY <1>1, <1>4, <1>5, NothingLeft, ShapeOfTail
<1>7. a = "visit" => Visiting(u)
  BY <1>1, <1>4, <1>5, NothingLeft, VisitingOfTail
<1>8. (\A b \in Actor : Shape(todo'[b])) /\ Visiting(todo'["visit"])
  BY <1>4, <1>5, <1>6, <1>7 DEF Actor, u
<1>9. ~Settled("snapshots") => ~Settled("snapshots")' \/ (o.kind = "clear" /\ o.ends = "snapshots" /\ Idle(Other(a)))
  <2>1. CASE GivesUp(a)
    BY <2>1 DEF GivesUp, Settled
  <2>2. CASE GoesOn(a)
    <3>1. CASE o.kind = "clear"
      BY <2>2, <3>1 DEF GoesOn, Settled, o
    <3>2. CASE o.kind # "clear"
      BY <2>2, <3>2 DEF GoesOn, Settled, o
    <3> QED BY <3>1, <3>2
  <2> QED BY <1>1, <2>1, <2>2
<1>10. ASSUME NEW b \in Actor PROVE Unsettled(todo[b])'
  <2> SUFFICES ASSUME NEW i \in 1..Len(todo'[b]), todo'[b][i].ends = "snapshots"
               PROVE ~Settled("snapshots")' \/ todo'[b][1].kind = "collect"
    BY DEF Unsettled
  <2>1. CASE b # a
    <3>1. todo'[b] = todo[b] /\ b = Other(a)
      BY <1>5, <2>1 DEF Actor, Other
    <3>2. ~Idle(Other(a))
      <4>1. todo[b] # <<>>
        BY <3>1
      <4> QED BY <3>1, <4>1 DEF Idle
    <3>3. ~Settled("snapshots") \/ todo[b][1].kind = "collect"
      BY <1>4, <3>1 DEF Unsettled
    <3> QED BY <1>9, <3>1, <3>2, <3>3
  <2>2. CASE b = a
    <3>1. GoesOn(a) /\ u = Tail(t)
      BY <1>1, <1>5, <2>2 DEF u
    <3>2. t[i + 1].ends = "snapshots" /\ i + 1 \in 1..Len(t) /\ i + 1 # 1 /\ 1 \in 1..Len(t)
      BY <1>3, <2>2, <3>1 DEF u
    <3>3. t[1].ends # "snapshots"
      BY <1>4, <3>2 DEF Shape
    <3>4. ~Settled("snapshots") \/ o.kind = "collect"
      BY <1>4, <3>2 DEF Unsettled, o
    <3>5. CASE o.kind = "collect"
      BY <3>1, <3>5 DEF GoesOn, Settled, o
    <3> QED BY <1>9, <3>3, <3>4, <3>5 DEF o
  <2> QED BY <2>1, <2>2
<1>11. (Settled("snapshots") => \E b \in Actor : Idle(b))'
  <2> SUFFICES ASSUME Settled("snapshots")' PROVE \E b \in Actor : todo'[b] = <<>>
    BY DEF Idle
  <2>1. Idle(Other(a)) => \E b \in Actor : todo'[b] = <<>>
    <3>1. Other(a) \in Actor \ {a}
      BY DEF Other, Actor
    <3> QED BY <1>5, <3>1 DEF Idle
  <2>2. CASE Settled("snapshots")
    <3>1. PICK b \in Actor : Idle(b)
      BY <1>4, <2>2
    <3>2. b # a
      BY <1>1, <3>1 DEF Idle
    <3> QED BY <1>5, <3>1, <3>2 DEF Idle
  <2>3. CASE ~Settled("snapshots")
    BY <1>9, <2>1, <2>3
  <2> QED BY <2>2, <2>3
<1>12. Dropping(todo["run"])'
  <2> SUFFICES ASSUME NEW i \in 1..Len(todo'["run"]), todo'["run"][i].ends = "media", NEW name \in Media
               PROVE doc'[name] = None \/ \E j \in 1..i : todo'["run"][j].kind = "clear" /\ todo'["run"][j].arg = name
    BY DEF Dropping
  <2>1. DOMAIN doc = Names /\ name \in Names
    BY DEF Inv, EvidenceInv, EvidenceTypeOK, Media, Names
  <2>2. CASE GivesUp(a)
    <3>1. a # "run" /\ todo'["run"] = todo["run"] /\ doc' = doc
      BY <1>1, <1>5, <2>2 DEF GivesUp, Actor, u
    <3> QED BY <1>4, <3>1 DEF Dropping
  <2>3. CASE GoesOn(a) /\ a = "visit"
    <3>1. todo'["run"] = todo["run"]
      BY <1>5, <2>3 DEF Actor
    <3>2. o.kind \in {"collect", "index", "clear"}
      BY <1>3, <1>4, <2>3 DEF Visiting, o
    <3>3. doc[name] = None => doc'[name] = None
      BY <2>1, <2>3, <3>2 DEF GoesOn, o
    <3> QED BY <1>4, <3>1, <3>3 DEF Dropping
  <2>4. CASE GoesOn(a) /\ a = "run"
    <3>1. /\ todo'["run"] = Tail(t) /\ t[i + 1].ends = "media" /\ i + 1 \in 1..Len(t) /\ t = todo["run"]
          /\ 1 \in 1..(i + 1)
      <4>1. todo'["run"] = Tail(t) /\ t = todo["run"]
        BY <1>5, <2>4 DEF u
      <4>2. i \in 1..Len(Tail(t))
        BY <4>1
      <4>3. 1 \in 1..(i + 1)
        BY <1>3, <4>2
      <4> QED BY <1>3, <4>1, <4>2, <4>3
    <3>2. o.kind \in {"replace", "fill", "clear"}
      BY <1>4, <3>1 DEF Shape, o
    <3>3. doc[name] = None => doc'[name] = None
      BY <2>1, <2>4, <3>2 DEF GoesOn, o
    <3>4. doc[name] = None \/ \E j \in 1..(i + 1) : t[j].kind = "clear" /\ t[j].arg = name
      BY <1>4, <3>1 DEF Dropping
    <3>5. ASSUME NEW j \in 1..(i + 1), t[j].kind = "clear", t[j].arg = name
          PROVE doc'[name] = None \/ \E k \in 1..i : todo'["run"][k].kind = "clear" /\ todo'["run"][k].arg = name
      <4>1. CASE j = 1
        BY <2>1, <2>4, <3>5, <4>1 DEF GoesOn, o
      <4>2. CASE j # 1
        <5>1. j - 1 \in 1..i /\ j - 1 \in 1..Len(Tail(t)) /\ (j - 1) + 1 = j
          BY <1>3, <3>1, <4>2
        <5>2. Tail(t)[j - 1] = t[j]
          BY <1>3, <5>1
        <5> QED BY <3>1, <3>5, <5>1, <5>2
      <4> QED BY <4>1, <4>2
    <3> QED BY <3>3, <3>4, <3>5
  <2> QED BY <1>1, <2>2, <2>3, <2>4 DEF Actor
<1>13. Drafting(todo["run"])'
  <2> SUFFICES ASSUME NEW i \in 1..Len(todo'["run"]), todo'["run"][i].kind = "validate"
               PROVE \/ doc'["procedure_input"] # None
                     \/ \E j \in 1..(i - 1) : todo'["run"][j].kind \in {"draft", "redraft"}
    BY DEF Drafting
  <2>1. DOMAIN doc = Names /\ "procedure_input" \in Names
    BY DEF Inv, EvidenceInv, EvidenceTypeOK, Names
  <2>2. doc["procedure_input"] # None => doc'["procedure_input"] # None
    <3>1. CASE GivesUp(a)
      BY <3>1 DEF GivesUp
    <3>2. CASE GoesOn(a)
      <4>1. o.kind \in {"write", "clear"} => o.arg # "procedure_input"
        BY <1>1 DEF Ops, Media
      <4>2. CASE o.kind \in {"write", "clear"}
        BY <2>1, <3>2, <4>1, <4>2 DEF GoesOn, o
      <4>3. CASE o.kind \in {"draft", "redraft"}
        BY <2>1, <3>2, <4>3, NoneIs DEF GoesOn, o
      <4>4. CASE o.kind = "policy"
        BY <2>1, <3>2, <4>4 DEF GoesOn, o
      <4>5. CASE o.kind \notin {"write", "clear", "draft", "redraft", "policy"}
        BY <3>2, <4>5 DEF GoesOn, o
      <4> QED BY <4>2, <4>3, <4>4, <4>5
    <3> QED BY <1>1, <3>1, <3>2
  <2>3. CASE a = "visit"
    <3>1. todo'["run"] = todo["run"]
      BY <1>5, <2>3 DEF Actor
    <3> QED BY <1>4, <2>2, <3>1 DEF Drafting
  <2>4. CASE a = "run"
    <3>1. GoesOn(a) /\ todo'["run"] = Tail(t) /\ t = todo["run"]
      BY <1>1, <1>5, <2>4 DEF u
    <3>2. t[i + 1].kind = "validate" /\ i + 1 \in 1..Len(t)
      BY <1>3, <3>1
    <3>3. doc["procedure_input"] # None \/ \E j \in 1..((i + 1) - 1) : t[j].kind \in {"draft", "redraft"}
      BY <1>4, <3>1, <3>2 DEF Drafting
    <3>4. ASSUME NEW j \in 1..((i + 1) - 1), t[j].kind \in {"draft", "redraft"}
          PROVE  \/ doc'["procedure_input"] # None
                 \/ \E k \in 1..(i - 1) : todo'["run"][k].kind \in {"draft", "redraft"}
      <4>1. CASE j = 1
        BY <2>1, <3>1, <3>4, <4>1, NoneIs DEF GoesOn, o
      <4>2. CASE j # 1
        <5>1. j - 1 \in 1..(i - 1) /\ j - 1 \in 1..Len(Tail(t)) /\ (j - 1) + 1 = j
          BY <1>3, <3>1, <4>2
        <5>2. Tail(t)[j - 1] = t[j]
          BY <1>3, <5>1
        <5> QED BY <3>1, <3>4, <5>1, <5>2
      <4> QED BY <4>1, <4>2
    <3> QED BY <2>2, <3>3, <3>4
  <2> QED BY <2>3, <2>4 DEF Actor
<1> QED BY <1>5, <1>8, <1>10, <1>11, <1>12, <1>13 DEF TodoInv

-----------------------------------------------------------------------------
(* What the run holds *)

(* Which operation was the last before the one that is next.               *)
LEMMA NextIs ==
  ASSUME NEW t \in Seq(Ops), t # <<>>, Shape(t), Tail(t) # <<>>
  PROVE  LET o == t[1]
             n == Tail(t)[1]
         IN /\ (n.kind = "write" => n.arg \in Media \cup {"reconciliation", "readiness"})
            /\ (n.kind = "write" => o.kind = Producer[n.arg])
            /\ (n.kind = "emit" => o.kind = "gates")
            /\ (n.kind = "done" => o.kind = "ok" /\ Len(t) = 2 /\ t[2].kind = "done")
            /\ (n.kind = "ok" /\ Len(Tail(t)) = 2 /\ Tail(t)[2].kind = "done" =>
                  o.kind = "write" /\ o.arg = "readiness")
<1> DEFINE q == Tail(t)
<1>1. /\ q \in Seq(Ops) /\ Len(t) \in Nat \ {0} /\ Len(q) = Len(t) - 1 /\ Len(t) # 1
      /\ \A i \in 1..Len(q) : q[i] = t[i + 1]
  BY TailIs
<1> HIDE DEF q
<1>2. 1 \in 1..(Len(t) - 1) /\ 1 \in 1..Len(q) /\ 2 \in 1..Len(t) /\ 1 + 1 = 2
  BY <1>1
<1>3. q[1] = t[2] /\ q[1] \in Ops
  <2>1. q[1] = t[1 + 1]
    BY <1>1, <1>2
  <2>2. q[1] \in Ops
    BY <1>1, <1>2, ElementOfSeq
  <2> QED BY <1>2, <2>1, <2>2
<1>4. q[1].kind = "write" => q[1].arg \in Media \cup {"reconciliation", "readiness"}
  BY <1>3 DEF Ops
<1>5. Follows(t[1], t[1 + 1])
  BY <1>2 DEF Shape
<1>6. (q[1].kind = "write" => t[1].kind = Producer[q[1].arg]) /\ (q[1].kind = "emit" => t[1].kind = "gates")
  BY <1>2, <1>3, <1>5 DEF Follows
<1>7. q[1].kind = "done" => t[1].kind = "ok" /\ Len(t) = 2 /\ t[2].kind = "done"
  <2>1. t[2].kind = "done" => 2 = Len(t) /\ t[2 - 1].kind = "ok"
    <3>1. \A i \in 1..Len(t) : t[i].kind = "done" => i = Len(t) /\ (i > 1 => t[i - 1].kind = "ok")
      BY DEF Shape
    <3>2. 2 \in 1..Len(t) /\ 2 > 1
      BY <1>2
    <3> QED BY <3>1, <3>2
  <2> QED BY <1>3, <2>1
<1>8. q[1].kind = "ok" /\ Len(q) = 2 /\ q[2].kind = "done" => t[1].kind = "write" /\ t[1].arg = "readiness"
  <2> SUFFICES ASSUME Len(q) = 2, q[2].kind = "done" PROVE t[1].kind = "write" /\ t[1].arg = "readiness"
    OBVIOUS
  <2>1. 2 \in 1..Len(q) /\ 3 \in 1..Len(t) /\ 2 + 1 = 3
    BY <1>1
  <2>2. t[3].kind = "done"
    BY <1>1, <2>1
  <2>3. t[3 - 2].kind = "write" /\ t[3 - 2].arg = "readiness"
    BY <2>1, <2>2 DEF Shape
  <2> QED BY <2>3
<1> QED BY <1>4, <1>6, <1>7, <1>8 DEF q

(* What the run holds is nothing the visit changes.                        *)
LEMMA HeldBeside ==
  ASSUME Inv, Operation("visit")
  PROVE  CarryInv'
<1> DEFINE t == todo["visit"]
           o == t[1]
<1>1. /\ t # <<>> /\ t \in Seq(Ops) /\ o \in Ops /\ carry'["run"] = carry["run"]
      /\ GivesUp("visit") \/ GoesOn("visit")
  BY Effects DEF Actor
<1>2. CarryInv /\ Visiting(t) /\ Unsettled(t) /\ Shape(t)
  BY DEF Inv, EvidenceInv, TodoInv, Actor
<1>3. todo'["run"] = todo["run"]
  BY <1>1 DEF GivesUp, GoesOn, Actor, Inv, Typed
<1>4. CASE GivesUp("visit")
  BY <1>1, <1>2, <1>3, <1>4 DEF GivesUp, CarryInv, Holding, Settled, Open, Plannable, Current
<1>5. CASE GoesOn("visit")
  <2>1. 1 \in 1..Len(t)
    BY <1>1, TailIs
  <2>2. /\ o.kind \in {"collect", "index", "clear"} /\ o.ends # "media"
        /\ (o.kind = "clear" => \E j \in 1..Len(t) : t[j].ends = "snapshots")
    BY <1>2, <2>1 DEF Visiting
  <2>3. media' = media /\ (Settled("media")' <=> Settled("media"))
    <3> HIDE DEF o
    <3>1. GoesOn("visit") /\ o = todo["visit"][1]
      BY <1>5 DEF o
    <3> QED BY <2>2, <3>1 DEF GoesOn, Settled
  <2>4. CASE o.kind = "index"
    BY <1>1, <1>2, <1>3, <1>5, <2>4 DEF GoesOn, CarryInv, Holding, Settled, Open, Plannable, Current
  <2>5. CASE todo["run"] # <<>> /\ o.kind # "index"
    <3>1. ~Settled("snapshots")'
      <4>1. CASE o.kind = "collect"
        BY <1>5, <4>1 DEF GoesOn, Settled
      <4>2. CASE o.kind = "clear"
        <5>1. ~Settled("snapshots")
          BY <1>2, <2>2, <4>2 DEF Unsettled
        <5>2. ~Idle(Other("visit"))
          BY <2>5 DEF Idle, Other
        <5> QED BY <1>5, <4>2, <5>1, <5>2 DEF GoesOn, Settled
      <4> QED BY <2>2, <2>5, <4>1, <4>2
    <3> HIDE DEF o, t
    <3> QED BY <1>1, <1>2, <1>3, <2>3, <3>1 DEF CarryInv, Holding
  <2>6. CASE todo["run"] = <<>>
    BY <1>3, <2>6 DEF CarryInv, Holding
  <2> QED BY <2>4, <2>5, <2>6
<1> QED BY <1>1, <1>4, <1>5

LEMMA Making ==
  /\ Producer["reconciliation"] = "reconcile" /\ Producer["artifact"] = "inspect"
  /\ Producer["procedure"] = "validate" /\ Producer["compatibility"] = "opatch"
  /\ Producer["compatibility_reconciliation"] = "combine" /\ Producer["readiness"] = "emit"
BY DEF Producer

(* What a tool leaves with the run is what its next operation needs.       *)
LEMMA HeldAfter ==
  ASSUME Inv, Operation("run")
  PROVE  CarryInv'
<1> DEFINE t == todo["run"]
           o == t[1]
           q == Tail(t)
           n == q[1]
           c == carry["run"]
           d == carry'["run"]
<1>1. /\ t # <<>> /\ t \in Seq(Ops) /\ o \in Ops /\ Head(t) = o
      /\ GivesUp("run") \/ GoesOn("run")
  BY Effects, HeadIs DEF Actor, Inv
<1>2. /\ Holding(c, t) /\ Shape(t) /\ Drafting(t) /\ MediaInv /\ EvidenceTypeOK
      /\ todo \in [Actor -> Seq(Ops)] /\ DOMAIN carry = Actor
  BY DEF Inv, EvidenceInv, TodoInv, CarryInv, Typed, Actor
<1>3. \A kind : Does("run", kind) <=> o.kind = kind
  BY <1>1 DEF Does, Idle
<1>4. Arg("run") = o.arg
  BY <1>1 DEF Arg
<1>5. CASE todo'["run"] = <<>>
  BY <1>5 DEF CarryInv, Holding
<1> SUFFICES ASSUME todo'["run"] # <<>> PROVE CarryInv'
  BY <1>5
<1>6. GoesOn("run") /\ todo'["run"] = q /\ q # <<>>
  <2>1. GoesOn("run")
    BY <1>1, <1>2 DEF GivesUp, Actor
  <2>2. todo'["run"] = q
    BY <1>2, <2>1 DEF GoesOn, Actor
  <2> QED BY <2>1, <2>2
<1>7. /\ (n.kind = "write" => n.arg \in Media \cup {"reconciliation", "readiness"})
      /\ (n.kind = "write" => o.kind = Producer[n.arg])
      /\ (n.kind = "emit" => o.kind = "gates")
      /\ (n.kind = "done" => o.kind = "ok" /\ Len(t) = 2 /\ t[2].kind = "done")
      /\ (n.kind = "ok" /\ Len(q) = 2 /\ q[2].kind = "done" => o.kind = "write" /\ o.arg = "readiness")
  BY <1>1, <1>2, <1>6, NextIs
<1> HIDE DEF t, o, q, n, c, d
<1>8. /\ (o.kind = "reconcile" => Reconciled("run")) /\ (o.kind = "inspect" => Inspected("run"))
      /\ (o.kind = "validate" => Validated("run")) /\ (o.kind = "opatch" => CheckedNode("run"))
      /\ (o.kind = "combine" => Combined("run")) /\ (o.kind = "emit" => Emitted("run"))
      /\ (o.kind = "gates" => Gates("run")) /\ (o.kind = "ok" => StepOk("run"))
      /\ (o.kind = "write" => Write("run"))
  <2>1. ~Stops("run")
    BY <1>2, <1>6 DEF Stops, Actor
  <2> QED BY <1>3, <2>1 DEF Operation, Write, Clear, CollectNode, Index, Reconciled, Inspected, Draft, Validated,
         CheckedNode, Combined, PolicySaved, Gates, Emitted, StepOk, ChainDone, Staged
<1>9. ASSUME n.kind = "write", n.arg = "reconciliation"
      PROVE  d \in Agreements /\ (Settled("snapshots")' => d = Agreement(snapshot'))
  <2>1. Reconciled("run")
    BY <1>7, <1>8, <1>9, Making
  <2>2. d = Agreement(snapshot) /\ snapshot' = snapshot
    BY <1>2, <2>1 DEF Reconciled, Yields, evidence, Actor, d
  <2>3. snapshot \in Snapshots
    BY <1>2 DEF EvidenceTypeOK
  <2> QED BY <2>2, <2>3 DEF Agreements
<1>10. ASSUME n.kind = "write", n.arg \in Media
       PROVE  /\ d \in Verdicts
              /\ (n.arg = "artifact" => d.media = media'[Primary])
              /\ (Settled("media")' /\ d.ok => d.media = media'[Primary])
  <2>1. /\ \A name \in Media : doc[name] # None => doc[name] \in Verdicts
        /\ Settled("media") => \A name \in Media : doc[name] # None /\ doc[name].ok => doc[name].media = media[Primary]
        /\ Settled("media") => (doc["artifact"] # None => doc["artifact"].media = media[Primary])
        /\ media \in [Node -> Versions \cup {0}] /\ Primary \in Node
    BY <1>2, NodesAre DEF EvidenceTypeOK, MediaInv, Media
  <2>2. CASE n.arg = "artifact"
    <3>1. Inspected("run")
      BY <1>7, <1>8, <1>10, <2>2, Making
    <3>2. d = [ok |-> media[Primary] \in Catalogued, media |-> media[Primary]] /\ media' = media /\ media[Primary] # 0
      BY <1>2, <3>1 DEF Inspected, Yields, Actor, d
    <3>3. media[Primary] \in Versions
      BY <2>1, <3>2
    <3> QED BY <3>2, <3>3 DEF Verdicts
  <2>3. CASE n.arg = "procedure"
    <3>1. o.kind = "validate" /\ Validated("run")
      BY <1>7, <1>8, <1>10, <2>3, Making
    <3>2. /\ d = [ok |-> doc["artifact"].ok /\ doc["artifact"].media = doc["procedure_input"],
                  media |-> doc["procedure_input"]]
          /\ media' = media /\ torn' = torn /\ doc["artifact"] # None
      BY <1>2, <3>1 DEF Validated, Yields, history, Actor, d
    <3>3. doc["procedure_input"] \in Versions
      <4>1. doc["procedure_input"] # None
        <5>1. 1 \in 1..Len(t)
          BY <1>1, TailIs
        <5> QED BY <1>2, <3>1, <5>1 DEF Drafting, o
      <4> QED BY <1>2, <4>1 DEF EvidenceTypeOK
    <3>4. doc["artifact"] \in Verdicts
      BY <2>1, <3>2 DEF Media
    <3> QED BY <2>1, <2>3, <3>2, <3>3, <3>4 DEF Verdicts, Settled
  <2>4. CASE n.arg = "compatibility"
    <3>1. CheckedNode("run")
      BY <1>7, <1>8, <1>10, <2>4, Making
    <3>2. PICK passed \in BOOLEAN :
            d = [ok |-> passed /\ (Arg("run") = Primary \/ carry["run"].ok), media |-> doc["artifact"].media]
      BY <1>2, <3>1 DEF CheckedNode, Yields, Actor, d
    <3>3. media' = media /\ torn' = torn /\ doc["artifact"] # None
      BY <1>2, <3>1 DEF CheckedNode, Yields, history
    <3>4. doc["artifact"] \in Verdicts
      BY <2>1, <3>3 DEF Media
    <3> QED BY <2>1, <2>4, <3>2, <3>3, <3>4 DEF Verdicts, Settled
  <2>5. CASE n.arg = "compatibility_reconciliation"
    <3>1. Combined("run")
      BY <1>7, <1>8, <1>10, <2>5, Making
    <3>2. /\ d = [ok |-> doc["compatibility"].ok /\ doc["compatibility"].media = doc["procedure"].media,
                  media |-> doc["procedure"].media]
          /\ media' = media /\ torn' = torn /\ doc["procedure"] # None /\ doc["procedure"].ok
          /\ doc["compatibility"] # None
      BY <1>2, <3>1 DEF Combined, Yields, history, Actor, d
    <3>3. doc["procedure"] \in Verdicts /\ doc["compatibility"] \in Verdicts
      BY <2>1, <3>2 DEF Media
    <3> QED BY <2>1, <2>5, <3>2, <3>3 DEF Verdicts, Settled, Media
  <2> QED BY <1>10, <2>2, <2>3, <2>4, <2>5 DEF Media
<1>11. ASSUME n.kind = "emit"
       PROVE  d.ok \in BOOLEAN /\ (Settled("snapshots")' /\ d.ok => Open')
  <2>1. Gates("run")
    BY <1>7, <1>8, <1>11
  <2> DEFINE open == /\ doc["artifact"].ok /\ doc["artifact"].media = doc["procedure"].media
                     /\ doc["reconciliation"].ok /\ doc["reconciliation"].snaps = snapshot
                     /\ doc["compatibility_reconciliation"].ok
                     /\ doc["compatibility_reconciliation"].media = doc["procedure"].media
  <2>2. PICK pass \in {open, FALSE} : Yields("run", [ok |-> pass])
    BY <2>1 DEF Gates
  <2>3. d = [ok |-> pass] /\ pass \in BOOLEAN /\ (pass => open)
    BY <1>2, <2>2 DEF Yields, Actor, d
  <2>4. doc' = doc /\ snapshot' = snapshot
    BY <2>2 DEF Yields, evidence
  <2>5. open => Open
    BY <2>1 DEF Gates, Open, Judged
  <2> QED BY <2>3, <2>4, <2>5 DEF Open
<1>12. ASSUME n.kind = "write", n.arg = "readiness"
       PROVE  /\ d \in Readiness
              /\ Settled("snapshots")' /\ d.ok =>
                   /\ Open' /\ d.snaps = snapshot'
                   /\ \A name \in Judged : doc'[name] # None /\ d.of[name] = doc'[name]
  <2>1. o.kind = "emit" /\ Emitted("run")
    BY <1>7, <1>8, <1>12, Making
  <2>2. /\ d = [ok |-> c.ok, snaps |-> snapshot, of |-> [name \in Judged |-> doc[name]]]
        /\ doc' = doc /\ snapshot' = snapshot /\ torn' = torn
        /\ \A name \in Judged : doc[name] # None
    BY <1>2, <2>1 DEF Emitted, Yields, evidence, history, Actor, d, c
  <2>3. c.ok \in BOOLEAN /\ (Settled("snapshots") /\ c.ok => Open)
    BY <1>1, <1>2, <2>1 DEF Holding, o
  <2>4. ASSUME NEW name \in Judged PROVE doc[name] \in Verdicts \cup Agreements \cup Policies
    BY <1>2, <2>2 DEF EvidenceTypeOK, Judged
  <2>5. [name \in Judged |-> doc[name]] \in [Judged -> Verdicts \cup Agreements \cup Policies]
    BY <2>4
  <2>6. d \in Readiness
    BY <1>2, <2>2, <2>3, <2>5 DEF Readiness, EvidenceTypeOK
  <2>7. \A name \in Judged : d.of[name] = doc[name]
    BY <2>2
  <2>8. (Settled("snapshots")' <=> Settled("snapshots")) /\ d.ok = c.ok /\ d.snaps = snapshot /\ (Open' <=> Open)
    BY <2>2 DEF Settled, Open
  <2> QED BY <2>2, <2>3, <2>6, <2>7, <2>8
<1>13. ASSUME n.kind = "ok", Len(q) = 2, q[2].kind = "done", Settled("snapshots")', d.ok
       PROVE  Plannable(doc)'
  <2>1. o.kind = "write" /\ o.arg = "readiness" /\ Write("run")
    BY <1>7, <1>8, <1>13
  <2>2. Len(t) # 1
    BY <1>1, <1>6, TailIs DEF q
  <2>3. /\ doc' = [doc EXCEPT !["readiness"] = c] /\ snapshot' = snapshot /\ torn' = torn /\ carry' = carry
    BY <1>4, <2>1, <2>2 DEF Write, Put, Advance, history, t, c
  <2>4. /\ c \in Readiness
        /\ (Settled("snapshots") /\ c.ok =>
              Open /\ c.snaps = snapshot /\ \A name \in Judged : doc[name] # None /\ c.of[name] = doc[name])
    BY <1>1, <1>2, <2>1 DEF Holding, o
  <2>5. c.ok /\ Settled("snapshots")
    BY <1>13, <2>3 DEF Settled, c, d
  <2>6. DOMAIN doc = Names
    BY <1>2 DEF EvidenceTypeOK
  <2>7. doc'["readiness"] = c /\ \A name \in Judged : doc'[name] = doc[name]
    BY <2>3, <2>6 DEF Names, Judged
  <2>8. c # None
    BY <2>4, NoneIs
  <2> QED BY <2>3, <2>4, <2>5, <2>7, <2>8 DEF Plannable, Current, Sources, Open, Judged
<1>14. ASSUME n.kind = "done", Settled("snapshots")'
       PROVE  Plannable(doc)'
  <2>1. o.kind = "ok" /\ Len(t) = 2 /\ t[2].kind = "done" /\ StepOk("run")
    BY <1>7, <1>8, <1>14
  <2>2. c.ok
    <3>1. ~c.ok => todo' = [todo EXCEPT !["run"] = <<>>]
      BY <2>1 DEF StepOk, c
    <3> QED BY <1>2, <1>6, <3>1 DEF Actor
  <2>3. doc' = doc /\ snapshot' = snapshot /\ torn' = torn
    BY <2>1 DEF StepOk, evidence, history
  <2>4. Settled("snapshots") /\ c.ok => Plannable(doc)
    BY <1>1, <1>2, <2>1 DEF Holding, o
  <2> QED BY <1>14, <2>2, <2>3, <2>4 DEF Settled, Plannable, Current
<1> QED BY SMTT(60), <1>6, <1>9, <1>10, <1>11, <1>12, <1>13, <1>14 DEF CarryInv, Holding, d, n, q

-----------------------------------------------------------------------------
(* The files *)

(* Only the run writes, and what it writes is what it holds.               *)
LEMMA WritesAre ==
  ASSUME Inv, NEW a \in Actor, Operation(a), GoesOn(a), todo[a][1].kind = "write"
  PROVE  /\ a = "run" /\ Holding(carry["run"], todo["run"])
         /\ doc' = [doc EXCEPT ![todo["run"][1].arg] = carry["run"]]
         /\ todo["run"][1].arg \in Media \cup {"reconciliation", "readiness"}
         /\ snapshot' = snapshot /\ media' = media /\ torn' = torn
<1>1. todo[a] # <<>> /\ todo[a] \in Seq(Ops) /\ todo[a][1] \in Ops
  BY Effects
<1>2. a = "run"
  <2>1. 1 \in 1..Len(todo[a])
    BY <1>1, TailIs
  <2>2. a = "visit" => todo[a][1].kind \in {"collect", "index", "clear"}
    BY <2>1 DEF Inv, EvidenceInv, TodoInv, Visiting
  <2> QED BY <2>2 DEF Actor
<1>3. Holding(carry["run"], todo["run"])
  BY DEF Inv, EvidenceInv, CarryInv
<1>4. todo["run"][1].arg \in Media \cup {"reconciliation", "readiness"}
  BY <1>1, <1>2 DEF Ops
<1> QED BY <1>2, <1>3, <1>4 DEF GoesOn

LEMMA TypesKept ==
  ASSUME Inv, NEW a \in Actor, Operation(a)
  PROVE  Typed' /\ EvidenceTypeOK'
<1> DEFINE o == todo[a][1]
<1>1. /\ todo[a] # <<>> /\ o \in Ops /\ plan' = plan /\ begun' = begun
      /\ DOMAIN carry' = DOMAIN carry /\ (GivesUp(a) \/ GoesOn(a))
  BY Effects
<1>2. Typed /\ EvidenceTypeOK
  BY DEF Inv, EvidenceInv
<1>3. Head(todo[a]) = o
  BY <1>1, <1>2, HeadIs
<1>4. \A kind : Does(a, kind) <=> o.kind = kind
  BY <1>1, <1>3 DEF Does, Idle
<1>5. Arg(a) = o.arg
  BY <1>3 DEF Arg
<1>6. Typed'
  BY <1>1, <1>2, TodoKept DEF Typed
<1>7. snapshot' \in Snapshots
  <2>1. CASE CollectNode(a)
    <3>1. o.arg \in Node /\ snapshot[o.arg] < MaxTaken /\ snapshot' = [snapshot EXCEPT ![o.arg] = @ + 1]
      BY <1>1, <1>4, <1>5, <2>1 DEF CollectNode, Ops
    <3>2. snapshot[o.arg] + 1 \in 0..MaxTaken
      BY SMTT(60), <1>2, <3>1, EvidenceAssumption DEF EvidenceTypeOK, Snapshots
    <3> QED BY <1>2, <3>1, <3>2 DEF EvidenceTypeOK, Snapshots
  <2>2. CASE ~CollectNode(a)
    <3>1. snapshot' = snapshot
      BY <2>2 DEF Operation, Stops, Write, Clear, Index, Reconciled, Inspected, Draft, Validated, CheckedNode,
           Combined, PolicySaved, Gates, Emitted, StepOk, ChainDone, Staged, Yields, evidence
    <3> QED BY <1>2, <3>1 DEF EvidenceTypeOK
  <2> QED BY <2>1, <2>2
<1>8. indexed' \in BOOLEAN
  <2>1. indexed' = indexed \/ indexed' = TRUE
    BY DEF Operation, Stops, Write, Clear, CollectNode, Index, Reconciled, Inspected, Draft, Validated,
           CheckedNode, Combined, PolicySaved, Gates, Emitted, StepOk, ChainDone, Staged, Yields, evidence
  <2> QED BY <1>2, <2>1 DEF EvidenceTypeOK
<1>9. media' \in [Node -> Versions \cup {0}]
  <2>1. CASE Staged(a)
    <3>1. PICK v \in Versions :
            media' = [media EXCEPT ![Arg(a)] = IF Does(a, "fill") /\ @ # 0 THEN @ ELSE v]
      BY <2>1 DEF Staged
    <3> QED BY <1>2, <3>1 DEF EvidenceTypeOK
  <2>2. CASE ~Staged(a)
    <3>1. media' = media
      BY <2>2 DEF Operation, Stops, Write, Clear, CollectNode, Index, Reconciled, Inspected, Draft, Validated,
           CheckedNode, Combined, PolicySaved, Gates, Emitted, StepOk, ChainDone, Yields
    <3> QED BY <1>2, <3>1 DEF EvidenceTypeOK
  <2> QED BY <2>1, <2>2
<1>10. torn' \subseteq {"snapshots", "media"}
  BY <1>1, <1>2 DEF GivesUp, GoesOn, EvidenceTypeOK
<1>11. chained' \in BOOLEAN
  <2>1. chained' = chained \/ chained' = ("snapshots" \notin torn)
    BY DEF Operation, Stops, Write, Clear, CollectNode, Index, Reconciled, Inspected, Draft, Validated,
           CheckedNode, Combined, PolicySaved, Gates, Emitted, StepOk, ChainDone, Staged, Yields, history
  <2> QED BY <1>2, <2>1 DEF EvidenceTypeOK
<1>12. /\ DOMAIN doc' = Names /\ doc'["procedure_input"] \in {None} \cup Versions
       /\ \A name \in {"artifact", "procedure", "compatibility", "compatibility_reconciliation"} :
            doc'[name] \in Verdicts \cup {None}
       /\ doc'["reconciliation"] \in Agreements \cup {None} /\ doc'["readiness"] \in Readiness \cup {None}
       /\ doc'["policy"] \in Policies \cup {None}
  <2>1. /\ DOMAIN doc = Names /\ doc["procedure_input"] \in {None} \cup Versions
        /\ \A name \in {"artifact", "procedure", "compatibility", "compatibility_reconciliation"} :
             doc[name] \in Verdicts \cup {None}
        /\ doc["reconciliation"] \in Agreements \cup {None} /\ doc["readiness"] \in Readiness \cup {None}
        /\ doc["policy"] \in Policies \cup {None}
    BY <1>2 DEF EvidenceTypeOK
  <2>2. CASE doc' = doc
    BY <2>1, <2>2
  <2>3. CASE GoesOn(a) /\ o.kind = "write"
    <3> DEFINE name == todo["run"][1].arg
    <3>1. /\ a = "run" /\ Holding(carry["run"], todo["run"]) /\ doc' = [doc EXCEPT ![name] = carry["run"]]
          /\ name \in Media \cup {"reconciliation", "readiness"}
      BY <2>3, WritesAre
    <3>2. todo["run"] # <<>> /\ todo["run"][1].kind = "write"
      BY <1>1, <2>3, <3>1
    <3>3. /\ (name = "reconciliation" => carry["run"] \in Agreements)
          /\ (name \in Media => carry["run"] \in Verdicts)
          /\ (name = "readiness" => carry["run"] \in Readiness)
      BY <3>1, <3>2 DEF Holding
    <3> HIDE DEF name
    <3> QED BY <2>1, <3>1, <3>3 DEF Names, Media
  <2>4. CASE GoesOn(a) /\ o.kind = "clear"
    <3>1. doc' = [doc EXCEPT ![o.arg] = None] /\ o.arg \in Names
      BY <1>1, <2>4 DEF GoesOn, Ops, Names, Media
    <3> HIDE DEF o
    <3> QED BY <2>1, <3>1 DEF Names
  <2>5. CASE GoesOn(a) /\ o.kind \in {"draft", "redraft"}
    BY <2>1, <2>5 DEF GoesOn, Names
  <2>6. CASE GoesOn(a) /\ o.kind = "policy"
    BY <2>1, <2>6 DEF GoesOn, Names
  <2> QED BY <1>1, <2>2, <2>3, <2>4, <2>5, <2>6 DEF GivesUp, GoesOn
<1>13. /\ begun'["run"] \in 0..MaxRuns /\ begun'["visit"] \in 0..MaxVisits
       /\ plan'.phase \in {"none", "verified", "sealed", "approved", "prechecked"}
  BY <1>1, <1>2 DEF EvidenceTypeOK
<1> QED BY <1>6, <1>7, <1>8, <1>9, <1>10, <1>11, <1>12, <1>13 DEF EvidenceTypeOK

(* The card says what the snapshots say.                                   *)
LEMMA CardKept ==
  ASSUME Inv, NEW a \in Actor, Operation(a)
  PROVE  CardInv'
<1> DEFINE t == todo[a]
           o == t[1]
<1>1. t # <<>> /\ t \in Seq(Ops) /\ o \in Ops /\ (GivesUp(a) \/ GoesOn(a))
  BY Effects
<1>2. /\ CardInv /\ DOMAIN doc = Names /\ Shape(t) /\ Unsettled(t)
      /\ doc["reconciliation"] \in Agreements \cup {None}
  BY DEF Inv, EvidenceInv, EvidenceTypeOK, TodoInv
<1>3. CASE GivesUp(a)
  BY <1>2, <1>3 DEF GivesUp, CardInv, IsReady, Settled
<1>4. CASE GoesOn(a) /\ o.kind = "collect"
  BY <1>4 DEF GoesOn, CardInv, Settled
<1>5. CASE GoesOn(a) /\ o.kind = "write"
  <2> DEFINE r == todo["run"]
             c == carry["run"]
             name == r[1].arg
  <2>1. /\ a = "run" /\ Holding(c, r) /\ doc' = [doc EXCEPT ![name] = c]
        /\ name \in Media \cup {"reconciliation", "readiness"}
        /\ snapshot' = snapshot /\ torn' = torn
    BY <1>5, WritesAre
  <2>2. r # <<>> /\ r[1].kind = "write"
    BY <1>1, <1>5, <2>1
  <2> SUFFICES ASSUME IsReady', Settled("snapshots")
               PROVE  /\ doc'["readiness"].snaps = snapshot
                      /\ doc'["readiness"].of["reconciliation"] = doc'["reconciliation"]
                      /\ doc'["reconciliation"] = Agreement(snapshot)
    BY <2>1 DEF CardInv, Settled
  <2>3. CASE name = "readiness"
    <3>1. doc'["readiness"] = c /\ doc'["reconciliation"] = doc["reconciliation"]
      BY <1>2, <2>1, <2>3 DEF Names
    <3>2. c.ok
      BY <3>1 DEF IsReady
    <3>3. Open /\ c.snaps = snapshot /\ c.of["reconciliation"] = doc["reconciliation"]
      BY <2>1, <2>2, <2>3, <3>2 DEF Holding, Judged
    <3>4. doc["reconciliation"] # None /\ doc["reconciliation"].snaps = snapshot
      BY <3>3 DEF Open, Judged
    <3>5. PICK s \in Snapshots : doc["reconciliation"] = Agreement(s)
      BY <1>2, <3>4 DEF Agreements
    <3>6. s = snapshot
      BY <3>4, <3>5 DEF Agreement
    <3> QED BY <3>1, <3>3, <3>5, <3>6
  <2>4. CASE name = "reconciliation"
    <3>1. doc'["readiness"] = doc["readiness"] /\ doc'["reconciliation"] = c
      BY <1>2, <2>1, <2>4 DEF Names
    <3>2. c = Agreement(snapshot)
      BY <2>1, <2>2, <2>4 DEF Holding
    <3> QED BY <1>2, <3>1, <3>2 DEF CardInv, IsReady
  <2>5. CASE name \in Media
    <3>1. doc'["readiness"] = doc["readiness"] /\ doc'["reconciliation"] = doc["reconciliation"]
      BY <1>2, <2>1, <2>5 DEF Names, Media
    <3> QED BY <1>2, <3>1 DEF CardInv, IsReady
  <2> QED BY <2>1, <2>3, <2>4, <2>5
<1>6. CASE GoesOn(a) /\ o.kind = "clear"
  <2>1. o.arg \in Names /\ 1 \in 1..Len(t)
    BY <1>1, <1>6, TailIs DEF Ops, Names, Media
  <2>2. snapshot' = snapshot /\ doc' = [doc EXCEPT ![o.arg] = None]
        /\ torn' = torn \ (IF o.ends = "snapshots" /\ ~Idle(Other(a)) THEN {} ELSE {o.ends})
    BY <1>6 DEF GoesOn
  <2>3. CASE o.arg = "readiness"
    <3>1. doc'["readiness"] = None
      BY <1>2, <2>1, <2>2, <2>3
    <3> QED BY <3>1 DEF CardInv, IsReady
  <2>4. CASE o.arg = "reconciliation"
    <3>1. PICK j \in (1 + 1)..Len(t) : t[j].ends = "snapshots"
      BY <1>2, <1>6, <2>1, <2>4 DEF Shape
    <3>2. j \in 1..Len(t) /\ j # 1
      BY <1>1, <3>1, TailIs
    <3>3. ~Settled("snapshots")
      BY <1>2, <1>6, <3>1, <3>2 DEF Unsettled
    <3>4. o.ends # "snapshots"
      BY <1>2, <2>1, <3>1, <3>2 DEF Shape
    <3>5. ~Settled("snapshots")'
      BY <2>2, <3>3, <3>4 DEF Settled
    <3> QED BY <3>5 DEF CardInv
  <2>5. CASE o.arg \notin {"readiness", "reconciliation"}
    <3>1. o.ends # "snapshots"
      BY <1>2, <2>1, <2>5 DEF Shape
    <3>2. Settled("snapshots")' => Settled("snapshots")
      BY <2>2, <3>1 DEF Settled
    <3>3. doc'["readiness"] = doc["readiness"] /\ doc'["reconciliation"] = doc["reconciliation"]
      BY <1>2, <2>1, <2>2, <2>5 DEF Names
    <3> QED BY <1>2, <2>2, <3>2, <3>3 DEF CardInv, IsReady
  <2> QED BY <2>3, <2>4, <2>5
<1>7. CASE GoesOn(a) /\ o.kind \notin {"collect", "write", "clear"}
  <2>1. snapshot' = snapshot /\ (Settled("snapshots")' => Settled("snapshots"))
    BY <1>7 DEF GoesOn, Settled
  <2>2. doc'["readiness"] = doc["readiness"] /\ doc'["reconciliation"] = doc["reconciliation"]
    <3>1. CASE o.kind \in {"draft", "redraft"}
      BY <1>2, <1>7, <3>1 DEF GoesOn, Names
    <3>2. CASE o.kind = "policy"
      BY <1>2, <1>7, <3>2 DEF GoesOn, Names
    <3> QED BY SMTT(60), <1>7, <3>1, <3>2 DEF GoesOn
  <2> QED BY <1>2, <2>1, <2>2 DEF CardInv, IsReady
<1> QED BY <1>1, <1>3, <1>4, <1>5, <1>6, <1>7

(* The verdicts are about the media.                                       *)
LEMMA MediaKept ==
  ASSUME Inv, NEW a \in Actor, Operation(a)
  PROVE  MediaInv'
<1> DEFINE t == todo[a]
           o == t[1]
<1>1. t # <<>> /\ t \in Seq(Ops) /\ o \in Ops /\ (GivesUp(a) \/ GoesOn(a)) /\ 1 \in 1..Len(t)
  BY Effects, TailIs
<1>2. MediaInv /\ DOMAIN doc = Names
  BY DEF Inv, EvidenceInv, EvidenceTypeOK
<1>3. CASE GivesUp(a)
  BY <1>2, <1>3 DEF GivesUp, MediaInv, Settled
<1>4. CASE GoesOn(a) /\ o.kind \in {"replace", "fill"}
  BY <1>4 DEF GoesOn, MediaInv, Settled
<1>5. CASE GoesOn(a) /\ o.kind = "write"
  <2> DEFINE r == todo["run"]
             c == carry["run"]
             name == r[1].arg
  <2>1. /\ a = "run" /\ Holding(c, r) /\ doc' = [doc EXCEPT ![name] = c]
        /\ name \in Media \cup {"reconciliation", "readiness"}
        /\ media' = media /\ torn' = torn
    BY <1>5, WritesAre
  <2>2. r # <<>> /\ r[1].kind = "write"
    BY <1>1, <1>5, <2>1
  <2>3. name \in Media =>
          /\ (name = "artifact" => c.media = media[Primary])
          /\ (Settled("media") /\ c.ok => c.media = media[Primary])
    BY <2>1, <2>2 DEF Holding
  <2>4. \A other \in Media : doc'[other] = IF other = name THEN c ELSE doc[other]
    <3> HIDE DEF name
    <3> QED BY <1>2, <2>1 DEF Names, Media
  <2> HIDE DEF name
  <2> QED BY <1>2, <2>1, <2>3, <2>4 DEF MediaInv, Settled, Media
<1>6. CASE GoesOn(a) /\ o.kind = "clear"
  <2>1. /\ o.arg \in Names /\ doc' = [doc EXCEPT ![o.arg] = None] /\ media' = media
        /\ torn' = torn \ (IF o.ends = "snapshots" /\ ~Idle(Other(a)) THEN {} ELSE {o.ends})
    BY <1>1, <1>6 DEF GoesOn, Ops, Names, Media
  <2>2. CASE o.ends = "media"
    <3>1. a = "run"
      BY <1>1, <2>2 DEF Inv, EvidenceInv, TodoInv, Visiting, Actor
    <3>2. \A name \in Media : doc[name] = None \/ \E j \in 1..1 : t[j].kind = "clear" /\ t[j].arg = name
      BY <1>1, <2>2, <3>1 DEF Inv, EvidenceInv, TodoInv, Dropping
    <3>3. \A name \in Media : doc[name] = None \/ o.arg = name
      BY <3>2
    <3>4. \A name \in Media : doc'[name] = None
      BY <1>2, <2>1, <3>3 DEF Names, Media
    <3> QED BY <3>4 DEF MediaInv, Media
  <2>3. CASE o.ends # "media"
    <3>1. Settled("media")' => Settled("media")
      BY <2>1, <2>3 DEF Settled
    <3>2. \A name \in Media : doc'[name] = None \/ doc'[name] = doc[name]
      BY <1>2, <2>1 DEF Names, Media
    <3> QED BY <1>2, <2>1, <3>1, <3>2 DEF MediaInv, Media
  <2> QED BY SMTT(60), <2>2, <2>3
<1>7. CASE GoesOn(a) /\ o.kind \notin {"replace", "fill", "write", "clear"}
  <2>1. media' = media /\ (Settled("media")' => Settled("media"))
    BY <1>7 DEF GoesOn, Settled
  <2>2. \A name \in Media : doc'[name] = doc[name]
    <3>1. CASE o.kind \in {"draft", "redraft"}
      BY <1>2, <1>7, <3>1 DEF GoesOn, Names, Media
    <3>2. CASE o.kind = "policy"
      BY <1>2, <1>7, <3>2 DEF GoesOn, Names, Media
    <3> QED BY <1>7, <3>1, <3>2 DEF GoesOn
  <2> QED BY <1>2, <2>1, <2>2 DEF MediaInv, Media
<1> QED BY <1>1, <1>3, <1>4, <1>5, <1>6, <1>7

(* A chain is done only when a plan can be sealed from what it left.       *)
LEMMA ChainKept ==
  ASSUME Inv, NEW a \in Actor, Operation(a)
  PROVE  ChainInv'
<1> DEFINE t == todo[a]
           o == t[1]
<1>1. t # <<>> /\ t \in Seq(Ops) /\ o \in Ops /\ (GivesUp(a) \/ GoesOn(a)) /\ 1 \in 1..Len(t)
  BY Effects, TailIs
<1>2. ~chained
  BY <1>1 DEF Inv, EvidenceInv, ChainInv, Idle
<1>3. CASE chained' = chained
  BY <1>2, <1>3 DEF ChainInv
<1>4. CASE ChainDone(a) /\ chained'
  <2>1. o.kind = "done"
    BY <1>1, <1>4, HeadIs DEF ChainDone, Does, Inv
  <2>2. a = "run"
    BY <1>1, <2>1 DEF Inv, EvidenceInv, TodoInv, Visiting, Actor
  <2>3. Settled("snapshots") /\ doc' = doc /\ snapshot' = snapshot
    BY <1>4 DEF ChainDone, Settled, evidence
  <2>4. Plannable(doc)
    <3>1. Holding(carry["run"], todo["run"])
      BY DEF Inv, EvidenceInv, CarryInv
    <3> QED BY <1>1, <2>1, <2>2, <2>3, <3>1 DEF Holding
  <2>5. todo' = [todo EXCEPT !["run"] = Tail(t)] /\ todo \in [Actor -> Seq(Ops)]
    BY <1>4, <2>2 DEF ChainDone, Advance, Step, Inv, Typed
  <2>6. Tail(t) = <<>>
    <3>1. Len(t) = 1
      BY ZenonT(60), <1>1, <2>1 DEF Inv, EvidenceInv, TodoInv, Shape
    <3> QED BY <1>1, <3>1, TailIs
  <2>7. todo["visit"] = <<>>
    BY <1>1, <2>2, <2>3 DEF Inv, EvidenceInv, TodoInv, Idle, Actor
  <2>8. \A b \in Actor : todo'[b] = <<>>
    BY <2>5, <2>6, <2>7 DEF Actor
  <2> QED BY <2>3, <2>4, <2>8 DEF ChainInv, Idle, Plannable, Current
<1>5. chained' = chained \/ ChainDone(a)
  BY DEF Operation, Stops, Write, Clear, CollectNode, Index, Reconciled, Inspected, Draft, Validated, CheckedNode,
         Combined, PolicySaved, Gates, Emitted, StepOk, Staged, Yields, history
<1>6. CASE ~chained'
  BY <1>6 DEF ChainInv
<1> QED BY <1>3, <1>4, <1>5, <1>6

LEMMA OperationKeeps ==
  ASSUME Inv, NEW a \in Actor, Operation(a)
  PROVE  Inv'
<1>1. CarryInv'
  BY HeldBeside, HeldAfter DEF Actor
<1>2. PlanInv'
  <2>1. plan' = plan
    BY Effects
  <2> QED BY <2>1 DEF Inv, EvidenceInv, PlanInv
<1> QED BY <1>1, <1>2, TodoKept, TypesKept, CardKept, MediaKept, ChainKept DEF Inv, EvidenceInv

LEMMA BeginKeeps ==
  ASSUME Inv, NEW a \in Actor, NEW program, Begin(a, program), Program(program),
         a = "visit" => Visiting(program)
  PROVE  Inv'
<1>1. /\ Typed /\ EvidenceTypeOK /\ TodoInv /\ CarryInv /\ CardInv /\ MediaInv /\ PlanInv
      /\ program \in Seq(Ops)
  BY DEF Inv, EvidenceInv, Program
<1>2. /\ todo' = [todo EXCEPT ![a] = program] /\ todo' \in [Actor -> Seq(Ops)]
      /\ todo'[a] = program /\ (\A b \in Actor \ {a} : todo'[b] = todo[b])
      /\ todo[a] = <<>>
  BY <1>1 DEF Begin, Typed, Idle
<1>3. /\ UNCHANGED <<snapshot, indexed, doc, media, carry, plan>> /\ chained' = FALSE
      /\ torn' = IF Idle(Other(a)) THEN torn ELSE torn \cup {"snapshots"}
  BY DEF Begin, evidence
<1>4. ~Settled("snapshots") => ~Settled("snapshots")'
  BY <1>3 DEF Settled
<1>5. Settled("media")' <=> Settled("media")
  BY <1>3 DEF Settled
<1>6. Typed'
  BY <1>1, <1>2, <1>3 DEF Typed, Begin
<1>7. EvidenceTypeOK'
  <2>1. begun'["run"] \in 0..MaxRuns /\ begun'["visit"] \in 0..MaxVisits
    <3>1. begun' = [begun EXCEPT ![a] = @ + 1] /\ begun[a] < (IF a = "run" THEN MaxRuns ELSE MaxVisits)
      BY DEF Begin
    <3> QED BY SMTT(60), <1>1, <3>1, EvidenceAssumption DEF EvidenceTypeOK, Typed, Actor
  <2>2. torn' \subseteq {"snapshots", "media"}
    BY <1>1, <1>3 DEF EvidenceTypeOK
  <2> QED BY ZenonT(60), <1>1, <1>3, <2>1, <2>2 DEF EvidenceTypeOK
<1>8. TodoInv'
  <2>1. \A b \in Actor : Shape(todo'[b])
    BY <1>1, <1>2 DEF TodoInv, Program
  <2>2. ASSUME NEW b \in Actor PROVE Unsettled(todo[b])'
    <3>1. CASE b = a
      BY <1>2, <3>1 DEF Unsettled, Program
    <3>2. CASE b # a
      BY <1>1, <1>2, <1>4, <3>2 DEF Unsettled, TodoInv
    <3> QED BY <3>1, <3>2
  <2>3. Visiting(todo'["visit"])
    BY <1>1, <1>2 DEF TodoInv, Actor
  <2>4. Dropping(todo["run"])'
    <3>1. CASE a = "run"
      BY <1>2, <3>1 DEF Dropping, Program
    <3>2. CASE a # "run"
      BY <1>1, <1>2, <1>3, <3>2 DEF Dropping, TodoInv, Actor
    <3> QED BY <3>1, <3>2
  <2>5. Drafting(todo["run"])'
    <3>1. CASE a = "run"
      BY <1>2, <3>1 DEF Drafting, Program, Drafts
    <3>2. CASE a # "run"
      BY <1>1, <1>2, <1>3, <3>2 DEF Drafting, TodoInv, Actor
    <3> QED BY <3>1, <3>2
  <2>6. (Settled("snapshots") => \E b \in Actor : Idle(b))'
    <3> SUFFICES ASSUME Settled("snapshots")' PROVE \E b \in Actor : todo'[b] = <<>>
      BY DEF Idle
    <3>1. Idle(Other(a))
      BY <1>3 DEF Settled
    <3>2. Other(a) \in Actor \ {a}
      BY DEF Other, Actor
    <3> QED BY <1>2, <3>1, <3>2 DEF Idle
  <2> QED BY <2>1, <2>2, <2>3, <2>4, <2>5, <2>6 DEF TodoInv
<1>9. CarryInv'
  <2>1. CASE a = "run"
    <3>1. program[1].kind \notin {"write", "emit", "ok", "done"}
      BY DEF Program
    <3> QED BY <1>2, <2>1, <3>1 DEF CarryInv, Holding
  <2>2. CASE a = "visit"
    <3>1. todo'["run"] = todo["run"]
      BY <1>2, <2>2 DEF Actor
    <3>2. todo["run"] # <<>> => ~Settled("snapshots")'
      BY <1>3, <2>2 DEF Idle, Other, Settled
    <3> QED BY <1>1, <1>3, <1>5, <3>1, <3>2 DEF CarryInv, Holding
  <2> QED BY <2>1, <2>2 DEF Actor
<1>10. CardInv' /\ MediaInv' /\ PlanInv' /\ ChainInv'
  BY <1>1, <1>3, <1>4, <1>5 DEF CardInv, MediaInv, PlanInv, ChainInv, IsReady
<1> QED BY <1>6, <1>7, <1>8, <1>9, <1>10 DEF Inv, EvidenceInv

LEMMA PlannerKeeps ==
  ASSUME Inv, Planner
  PROVE  Inv'
<1>1. UNCHANGED <<snapshot, indexed, doc, media, todo, carry, begun, torn, chained>>
  BY DEF Planner, Verify, Seal, Reverify, Precheck, evidence, actors, history
<1>2. /\ Typed /\ EvidenceTypeOK /\ TodoInv /\ CarryInv /\ CardInv /\ MediaInv /\ ChainInv /\ PlanInv
  BY DEF Inv, EvidenceInv
<1>3. plan'.phase \in {"none", "verified", "sealed", "approved", "prechecked"} /\ PlanInv'
  <2>1. CASE Verify
    BY <1>2, <2>1 DEF Verify, PlanInv
  <2>2. CASE Seal
    BY <2>2 DEF Seal, PlanInv
  <2>3. CASE Reverify
    <3>1. /\ plan' = [plan EXCEPT !.phase = "approved"]
          /\ doc["readiness"] = plan.docs["readiness"] /\ doc["reconciliation"] = plan.docs["reconciliation"]
          /\ doc["readiness"].ok /\ doc["readiness"].snaps = doc["reconciliation"].snaps
      BY <2>3 DEF Reverify, Current
    <3> QED BY <1>2, <3>1 DEF PlanInv
  <2>4. CASE Precheck
    BY <1>2, <2>4 DEF Precheck, PlanInv
  <2> QED BY <2>1, <2>2, <2>3, <2>4 DEF Planner
<1>4. Typed' /\ EvidenceTypeOK'
  BY <1>1, <1>2, <1>3 DEF Typed, EvidenceTypeOK
<1>5. TodoInv'
  BY <1>1, <1>2 DEF TodoInv, Unsettled, Dropping, Drafting, Settled, Idle
<1>6. CarryInv'
  BY <1>1, <1>2 DEF CarryInv, Holding, Settled, Open, Plannable, Current
<1>7. CardInv' /\ MediaInv' /\ ChainInv'
  BY <1>1, <1>2 DEF CardInv, MediaInv, ChainInv, IsReady, Settled, Idle, Plannable, Current
<1> QED BY <1>3, <1>4, <1>5, <1>6, <1>7 DEF Inv, EvidenceInv

LEMMA InitHas == Init => Inv
<1> SUFFICES ASSUME Init PROVE Inv
  OBVIOUS
<1>1. Typed
  BY NothingLeft DEF Init, Typed, Actor
<1>2. EvidenceTypeOK
  <2>1. snapshot \in Snapshots /\ media \in [Node -> Versions \cup {0}]
    BY EvidenceAssumption DEF Init, Snapshots
  <2>2. begun["run"] \in 0..MaxRuns /\ begun["visit"] \in 0..MaxVisits
    BY EvidenceAssumption DEF Init, Actor
  <2>3. DOMAIN doc = Names /\ \A name \in Names : doc[name] = None
    BY DEF Init
  <2>4. plan.phase = "none"
    BY DEF Init, NoPlan
  <2>5. indexed \in BOOLEAN /\ torn \subseteq {"snapshots", "media"} /\ chained \in BOOLEAN
    BY DEF Init
  <2> QED BY <2>1, <2>2, <2>3, <2>4, <2>5 DEF EvidenceTypeOK, Names
<1>3. TodoInv
  BY NothingLeft DEF Init, TodoInv, Unsettled, Dropping, Drafting, Idle, Actor
<1>4. CarryInv
  BY DEF Init, CarryInv, Holding, Actor
<1>5. CardInv /\ ChainInv /\ PlanInv
  BY DEF Init, CardInv, ChainInv, PlanInv, IsReady, Names, NoPlan
<1>6. MediaInv
  BY DEF Init, MediaInv, Media, Names
<1> QED BY <1>1, <1>2, <1>3, <1>4, <1>5, <1>6 DEF Inv, EvidenceInv

LEMMA NextKeeps == Inv /\ [Next]_vars => Inv'
<1> SUFFICES ASSUME Inv, [Next]_vars PROVE Inv'
  OBVIOUS
<1>1. ASSUME NEW program \in Programs, Begin("run", program) PROVE Inv'
  BY <1>1, ProgramsAre, BeginKeeps DEF Actor
<1>2. CASE Begin("visit", Discovery)
  BY <1>2, DiscoveryIs, BeginKeeps DEF Actor, Continues
<1>3. ASSUME NEW a \in Actor, Operation(a) PROVE Inv'
  BY <1>3, OperationKeeps
<1>4. CASE Planner
  BY SMTT(60), <1>4, PlannerKeeps
<1>5. CASE UNCHANGED vars
  <2>1. UNCHANGED <<snapshot, indexed, doc, media, todo, carry, begun, plan, torn, chained>>
    BY <1>5 DEF vars, evidence, actors, history
  <2> QED BY <2>1 DEF Inv, Typed, EvidenceInv, EvidenceTypeOK, TodoInv, CarryInv, CardInv, MediaInv, ChainInv, PlanInv,
         Unsettled, Dropping, Drafting, Holding, Open, Settled, Idle, IsReady, Plannable, Current
<1> QED BY <1>1, <1>2, <1>3, <1>4, <1>5 DEF Next

-----------------------------------------------------------------------------
(* The theorems *)

(* The types, the shape of what is left to do, and what it relies on hold  *)
(* of every state, whichever visits overlap a run and whichever operation  *)
(* of a step fails (the step_ functions, run_discovery).                   *)
THEOREM EvidenceAlways == Spec => []Inv
<1>1. Init => Inv
  BY InitHas
<1>2. Inv /\ [Next]_vars => Inv'
  BY NextKeeps
<1> QED BY <1>1, <1>2, PTL DEF Spec

(* When nobody is at work and no step broke off, a card that says ready is *)
(* about the snapshots and the reconciliation on file, and every verdict   *)
(* about the media of the primary: _chain_ok and build_estate may rely on  *)
(* what they find.                                                         *)
THEOREM EvidenceStaysCurrent == Spec => []EvidenceIsCurrent
<1>1. Inv => EvidenceIsCurrent
  BY DEF Inv, EvidenceInv, CardInv, MediaInv, EvidenceIsCurrent, ReadyRestsOnSnapshots, VerdictsNameTheMedia,
         Settled, Media
<1> QED BY <1>1, EvidenceAlways, PTL

(* A readiness chain that ended well, with no discovery beside it, left    *)
(* documents that create accepts (step_readiness_chain, verify_inputs).    *)
THEOREM ChainsArePlannable == Spec => []ChainIsPlannable
<1>1. Inv => ChainIsPlannable
  BY DEF Inv, EvidenceInv, ChainInv, ChainIsPlannable
<1> QED BY <1>1, EvidenceAlways, PTL

(* A plan past its first precheck rests on one set of snapshots and one    *)
(* version of the media (verify_apply_plan_readiness_current and the       *)
(* executor's precheck), whatever changed between verification and seal.   *)
THEOREM PrecheckedPlansBind == Spec => []PrecheckedPlanBinds
<1>1. Inv => PrecheckedPlanBinds
  BY DEF Inv, EvidenceInv, PlanInv, PrecheckedPlanBinds
<1> QED BY <1>1, EvidenceAlways, PTL
=============================================================================
