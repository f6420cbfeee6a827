--------------------- MODULE EvidencePipelineProperties ---------------------
(***************************************************************************)
(* What the evidence of a host and the plan sealed from it promise.        *)
(***************************************************************************)
EXTENDS EvidencePipeline

IsReady == doc["readiness"] # None /\ doc["readiness"].ok

(* The variables have their types; a verdict is about some media.          *)
EvidenceTypeOK ==
  /\ snapshot \in Snapshots /\ indexed \in BOOLEAN
  /\ DOMAIN doc = Names /\ doc["procedure_input"] \in {None} \cup Versions
  /\ \A name \in {"artifact", "procedure", "compatibility", "compatibility_reconciliation"} :
       doc[name] \in Verdicts \cup {None}
  /\ doc["reconciliation"] \in Agreements \cup {None} /\ doc["readiness"] \in Readiness \cup {None}
  /\ doc["policy"] \in Policies \cup {None}
  /\ media \in [Node -> Versions \cup {0}]
  /\ begun["run"] \in 0..MaxRuns /\ begun["visit"] \in 0..MaxVisits
  /\ plan.phase \in {"none", "verified", "sealed", "approved", "prechecked"}
  /\ torn \subseteq {"snapshots", "media"} /\ chained \in BOOLEAN

(* Once a discovery has run to its end with nobody else at work, a card    *)
(* that says ready rests on the snapshots on file and on the               *)
(* reconciliation on file, through every step that fails halfway after it. *)
ReadyRestsOnSnapshots ==
  IsReady /\ "snapshots" \notin torn /\ (\A a \in Actor : Idle(a)) =>
    /\ doc["readiness"].snaps = snapshot
    /\ doc["readiness"].of["reconciliation"] = doc["reconciliation"]

(* Unless a staging broke off, no artifact-bound verdict names other media *)
(* than the primary holds.                                                 *)
VerdictsNameTheMedia ==
  "media" \notin torn /\ Idle("run") =>
    /\ doc["artifact"] # None => doc["artifact"].media = media[Primary]
    /\ \A name \in {"procedure", "compatibility", "compatibility_reconciliation"} :
         doc[name] # None /\ doc[name].ok => doc[name].media = media[Primary]

(* Evidence is about the host as it is: what later steps find there may be *)
(* used by them (_chain_ok, build_estate).                                 *)
EvidenceIsCurrent == EvidenceTypeOK /\ ReadyRestsOnSnapshots /\ VerdictsNameTheMedia

(* A chain that ended ready, undisturbed, left evidence a plan can be      *)
(* sealed from, whatever earlier steps and failures had left behind.       *)
ChainIsPlannable ==
  chained => Plannable(doc)

(* A plan whose first task got past its precheck rests on one set of       *)
(* snapshots and one version of the media, however runs and visits raced   *)
(* its verification and its seal.                                          *)
PrecheckedPlanBinds ==
  plan.phase = "prechecked" =>
    /\ plan.docs["readiness"].ok
    /\ plan.docs["readiness"].snaps = plan.docs["reconciliation"].snaps
    /\ plan.docs["procedure"].media = plan.docs["artifact"].media

-----------------------------------------------------------------------------
(* Inductive strengthenings *)

(* What an actor has still to do: an operation that uses a result comes    *)
(* right after the one that makes it, ...                                  *)
Producer ==
  [reconciliation |-> "reconcile", artifact |-> "inspect", procedure |-> "validate",
   compatibility |-> "opatch", compatibility_reconciliation |-> "combine", readiness |-> "emit"]

Follows(x, y) ==
  /\ y.kind = "write" => x.kind = Producer[y.arg]
  /\ y.kind = "emit" => x.kind = "gates"

(* ... a discovery ends by dropping the card, a staging by dropping the    *)
(* verdicts, and a chain by writing the card.                              *)
Shape(t) ==
  /\ \A i \in 1..(Len(t) - 1) : Follows(t[i], t[i + 1])
  /\ \A i \in 1..Len(t) : t[i].ends = "snapshots" =>
       /\ t[i].kind = "clear" /\ t[i].arg = "readiness"
       /\ \A j \in 1..Len(t) : j # i => t[j].ends # "snapshots"
  /\ \A i \in 1..Len(t) : t[i].ends = "media" =>
       t[i].kind = "clear" /\ \A j \in 1..i : t[j].kind \in {"replace", "fill", "clear"}
  /\ \A i \in 1..Len(t) : t[i].kind = "clear" /\ t[i].arg = "reconciliation" =>
       \E j \in (i + 1)..Len(t) : t[j].ends = "snapshots"
  /\ \A i \in 1..Len(t) : t[i].kind = "done" =>
       /\ i = Len(t) /\ (i > 1 => t[i - 1].kind = "ok")
       /\ (i > 2 => t[i - 2].kind = "write" /\ t[i - 2].arg = "readiness")

(* The visit does nothing but a discovery: what it drops, it drops before  *)
(* it settles the snapshots.                                               *)
Visiting(t) ==
  \A i \in 1..Len(t) :
    /\ t[i].kind \in {"collect", "index", "clear"} /\ t[i].ends # "media"
    /\ t[i].kind = "clear" =>
         t[i].arg # "artifact" /\ \E j \in i..Len(t) : t[j].ends = "snapshots"

Settled(what) == what \notin torn
Media == {"artifact", "procedure", "compatibility", "compatibility_reconciliation"}

(* A discovery that has begun to collect leaves the snapshots unsettled.   *)
Unsettled(t) ==
  \A i \in 1..Len(t) : t[i].ends = "snapshots" => ~Settled("snapshots") \/ t[1].kind = "collect"

(* A staging has dropped, or is still going to drop, each verdict.         *)
Dropping(t) ==
  \A i \in 1..Len(t) : t[i].ends = "media" =>
    \A name \in Media : doc[name] = None \/ \E j \in 1..i : t[j].kind = "clear" /\ t[j].arg = name

(* A draft is there, or comes, before it is validated.                     *)
Drafting(t) ==
  \A i \in 1..Len(t) : t[i].kind = "validate" =>
    doc["procedure_input"] # None \/ \E j \in 1..(i - 1) : t[j].kind \in {"draft", "redraft"}

TodoInv ==
  /\ \A a \in Actor : Shape(todo[a]) /\ Unsettled(todo[a])
  /\ Visiting(todo["visit"]) /\ Dropping(todo["run"]) /\ Drafting(todo["run"])
  /\ (Settled("snapshots") => \E a \in Actor : Idle(a))

(* The gates that a passing result went through.                           *)
Open ==
  /\ \A name \in Judged \ {"policy"} : doc[name] # None
  /\ \A name \in Judged \ {"policy"} : doc[name].ok
  /\ doc["reconciliation"].snaps = snapshot
  /\ doc["artifact"].media = doc["procedure"].media

(* What the run holds for its next operation, and what it knows of it as   *)
(* long as snapshots or media are settled.                                 *)
Holding(c, t) ==
  LET op == t[1] IN
  t # <<>> =>
    /\ (op.kind = "write" /\ op.arg = "reconciliation" =>
          c \in Agreements /\ (Settled("snapshots") => c = Agreement(snapshot)))
    /\ (op.kind = "write" /\ op.arg \in Media =>
          /\ c \in Verdicts
          /\ (op.arg = "artifact" => c.media = media[Primary])
          /\ (Settled("media") /\ c.ok => c.media = media[Primary]))
    /\ (op.kind = "emit" => c.ok \in BOOLEAN /\ (Settled("snapshots") /\ c.ok => Open))
    /\ (op.kind = "write" /\ op.arg = "readiness" =>
          /\ c \in Readiness
          /\ (Settled("snapshots") /\ c.ok =>
                Open /\ c.snaps = snapshot /\ \A name \in Judged : doc[name] # None /\ c.of[name] = doc[name]))
    /\ (op.kind = "ok" /\ Len(t) = 2 /\ t[2].kind = "done" =>
          (Settled("snapshots") /\ c.ok => Plannable(doc)))
    /\ (op.kind = "done" => (Settled("snapshots") => Plannable(doc)))

CarryInv == Holding(carry["run"], todo["run"])

(* A card that says ready is about the snapshots, at every moment at which *)
(* they are settled.                                                       *)
CardInv ==
  IsReady /\ Settled("snapshots") =>
    /\ doc["readiness"].snaps = snapshot
    /\ doc["readiness"].of["reconciliation"] = doc["reconciliation"]
    /\ doc["reconciliation"] = Agreement(snapshot)

MediaInv ==
  Settled("media") =>
    /\ doc["artifact"] # None => doc["artifact"].media = media[Primary]
    /\ \A name \in Media : doc[name] # None /\ doc[name].ok => doc[name].media = media[Primary]

ChainInv == chained => (\A a \in Actor : Idle(a)) /\ Plannable(doc)

(* Approval compared the seals with the documents it looked at.            *)
PlanInv ==
  /\ plan = [phase |-> plan.phase, docs |-> plan.docs]
  /\ plan.phase \in {"approved", "prechecked"} =>
       plan.docs["readiness"].ok /\ plan.docs["readiness"].snaps = plan.docs["reconciliation"].snaps
  /\ plan.phase = "prechecked" => plan.docs["procedure"].media = plan.docs["artifact"].media

EvidenceInv ==
  EvidenceTypeOK /\ TodoInv /\ CarryInv /\ CardInv /\ MediaInv /\ ChainInv /\ PlanInv
=============================================================================
