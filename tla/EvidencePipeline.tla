-------------------------- MODULE EvidencePipeline --------------------------
(***************************************************************************)
(* The evidence of one host and the plan that is sealed from it:           *)
(* webapp/pipeline_steps.py, webapp/evidence.py and the plan's use of the  *)
(* documents (create, its later re-verifications and the executors').      *)
(*                                                                         *)
(* Three actors share the files of the evidence directory.  The run holds  *)
(* the operation key host:H:pipeline (RunRegistry) and does one step or    *)
(* the readiness chain; the visit is GET /api/hosts/H/discovery, which     *)
(* does the discovery step without the key; the planner seals a plan.      *)
(* An actor's program is a sequence of operations, each one read or write  *)
(* of shared files or one call of a tool, and it may stop before any.      *)
(*                                                                         *)
(* A digest is the content it is taken of.  A snapshot is its number, new  *)
(* at every collection; media is its version.                              *)
(***************************************************************************)
EXTENDS Naturals, Sequences, Functions

CONSTANTS
  NodeList,     \* the configured nodes, the primary first
  Versions,     \* versions of the patch media
  Catalogued,   \* those artifact-inspect finds ready for the catalog
  Policies,
  Unfit,        \* the snapshots <<node, number>> that disagree with the others
  InitialMedia, \* what is staged on the nodes at the start
  MaxTaken,     \* bound of the model: snapshots taken of a node
  MaxRuns,      \* bound of the model: runs that hold the key
  MaxVisits,    \* bound of the model: visits
  None

Node    == Range(NodeList)
Primary == Head(NodeList)

Names == {"reconciliation", "artifact", "procedure_input", "procedure", "compatibility",
          "compatibility_reconciliation", "policy", "readiness"}

(* The documents a readiness result is about, and what it may hold.        *)
Judged == {"reconciliation", "artifact", "procedure", "compatibility_reconciliation", "policy"}

Snapshots  == [Node -> 0..MaxTaken]
Verdicts   == [ok : BOOLEAN, media : Versions]
Agreement(snaps) == [ok |-> \A n \in Node : <<n, snaps[n]>> \notin Unfit, snaps |-> snaps]
Agreements == {Agreement(snaps) : snaps \in Snapshots}
Readiness  == [ok : BOOLEAN, snaps : Snapshots, of : [Judged -> Verdicts \cup Agreements \cup Policies]]

ASSUME EvidenceAssumption ==
  /\ NodeList \in Seq(Node) \ {<<>>} /\ Catalogued \subseteq Versions
  /\ 0 \notin Versions /\ None \notin Versions \cup Readiness \cup {"snapshots", "media"}
  /\ InitialMedia \in [Node -> Versions \cup {0}]
  /\ MaxTaken \in Nat /\ MaxRuns \in Nat /\ MaxVisits \in Nat

VARIABLES
  snapshot,  \* snapshot_<node>: its number, 0 when absent
  indexed,   \* snapshot.json and snapshot_nodes.json are there
  doc,       \* the other documents, None when absent
  media,     \* the version staged on a node, 0 when incomplete
  todo,      \* what the run and the visit still have to do
  carry,     \* the result they hold and have not written yet
  begun,     \* requests accepted so far
  plan,      \* the sealed plan
  torn,      \* history: evidence an unfinished or overlapped step left behind
  chained    \* history: the last request was a chain, undisturbed, that said ready

evidence == <<snapshot, indexed, doc>>
actors   == <<todo, carry, begun>>
history  == <<torn, chained>>
vars     == <<evidence, media, actors, plan, history>>

Actor == {"run", "visit"}
NoPlan == [phase |-> "none", docs |-> None]

Op(kind, arg)   == [kind |-> kind, arg |-> arg, ends |-> None]
PerNode(kind)   == [i \in DOMAIN NodeList |-> Op(kind, NodeList[i])]
Clears(names)   == [i \in DOMAIN names |-> Op("clear", names[i])]

(* The last operation settles what the step has been changing.             *)
Ending(ops, what) == [ops EXCEPT ![Len(ops)].ends = what]

-----------------------------------------------------------------------------
(* The programs of the steps *)

(* Mutant: the readiness of the old topology is kept.                      *)
DiscoveryKeepsReadiness ==
  PerNode("collect") \o <<Op("index", None)>>
    \o Ending(Clears(<<"reconciliation", "compatibility", "compatibility_reconciliation">>), "snapshots")

Discovery ==
  PerNode("collect") \o <<Op("index", None)>>
    \o Ending(Clears(<<"reconciliation", "compatibility", "compatibility_reconciliation", "readiness">>),
              "snapshots")

Reconcile ==
  <<Op("reconcile", None), Op("write", "reconciliation")>>
    \o Clears(<<"compatibility_reconciliation", "readiness">>)

Inspect == <<Op("inspect", None), Op("write", "artifact")>>

Validate(draft) ==
  <<draft>> \o Clears(<<"procedure", "compatibility", "compatibility_reconciliation", "readiness">>)
    \o <<Op("validate", None), Op("write", "procedure")>>

Collect  == PerNode("opatch") \o <<Op("write", "compatibility")>>
Combine  == <<Op("combine", None), Op("write", "compatibility_reconciliation")>>
Evaluate(p) == <<Op("policy", p), Op("gates", None), Op("emit", None), Op("write", "readiness")>>

(* Mutant: only the inspection of the old media is dropped.                *)
StageKeepsVerdicts(replace) ==
  PerNode(IF replace THEN "replace" ELSE "fill") \o Ending(Clears(<<"artifact">>), "media")

(* Every document of _ARTIFACT_BOUND_EVIDENCE goes, after the last node.   *)
Stage(replace) ==
  PerNode(IF replace THEN "replace" ELSE "fill")
    \o Ending(Clears(<<"artifact", "procedure", "compatibility", "compatibility_reconciliation",
                       "readiness">>), "media")

(* Mutant: the chain goes on whatever a step found.                        *)
ChainRegardless(p) ==
  Discovery \o Reconcile \o Inspect \o Validate(Op("redraft", None)) \o Collect \o Combine
    \o Evaluate(p) \o <<Op("done", None)>>

(* step_readiness_chain: every step, and _CHAIN_OK of what it returned.    *)
Chain(p) ==
  LET ok == <<Op("ok", None)>>
  IN Discovery \o Reconcile \o ok \o Inspect \o ok \o Validate(Op("redraft", None)) \o ok
       \o Collect \o ok \o Combine \o ok \o Evaluate(p) \o ok \o <<Op("done", None)>>

Programs ==
  {Discovery, Reconcile, Inspect, Collect, Combine, Stage(TRUE), Stage(FALSE)}
    \cup {Validate(Op("draft", v)) : v \in Versions}
    \cup {Evaluate(p) : p \in Policies} \cup {Chain(p) : p \in Policies}

-----------------------------------------------------------------------------
(* One operation of an actor *)

Idle(a)       == todo[a] = <<>>
Does(a, kind) == ~Idle(a) /\ Head(todo[a]).kind = kind
Arg(a)        == Head(todo[a]).arg
Other(a)      == IF a = "run" THEN "visit" ELSE "run"

Step(a) == todo' = [todo EXCEPT ![a] = Tail(@)]

(* The next operation; what is held is dropped with the last.              *)
Advance(a) == Step(a) /\ carry' = IF Len(todo[a]) = 1 THEN [carry EXCEPT ![a] = None] ELSE carry

Put(name, content) == doc' = [doc EXCEPT ![name] = content]

(* A tool leaves its result with the one who ran it.                       *)
Yields(a, result) ==
  /\ Step(a) /\ carry' = [carry EXCEPT ![a] = result]
  /\ UNCHANGED <<evidence, media, begun, plan, history>>

Begin(a, program) ==
  /\ Idle(a) /\ begun[a] < (IF a = "run" THEN MaxRuns ELSE MaxVisits)
  /\ begun' = [begun EXCEPT ![a] = @ + 1]
  /\ todo' = [todo EXCEPT ![a] = program]
  /\ torn' = IF Idle(Other(a)) THEN torn ELSE torn \cup {"snapshots"}
  /\ chained' = FALSE /\ UNCHANGED <<evidence, media, carry, plan>>

(* A host or a tool fails, a document is missing, or the controller dies.  *)
Stops(a) ==
  /\ ~Idle(a)
  /\ todo' = [todo EXCEPT ![a] = <<>>] /\ carry' = [carry EXCEPT ![a] = None]
  /\ UNCHANGED <<evidence, media, begun, plan, history>>

Write(a) ==
  /\ Does(a, "write") /\ Put(Arg(a), carry[a]) /\ Advance(a)
  /\ UNCHANGED <<snapshot, indexed, media, begun, plan, history>>

Clear(a) ==
  /\ Does(a, "clear") /\ Put(Arg(a), None) /\ Advance(a)
  /\ torn' = torn \ (IF Head(todo[a]).ends = "snapshots" /\ ~Idle(Other(a)) THEN {} ELSE {Head(todo[a]).ends})
  /\ UNCHANGED <<snapshot, indexed, media, begun, plan, chained>>

-----------------------------------------------------------------------------
(* The operations *)

(* opu-topology-discover on a node, and its snapshot_<node>.               *)
CollectNode(a) ==
  /\ Does(a, "collect") /\ snapshot[Arg(a)] < MaxTaken
  /\ snapshot' = [snapshot EXCEPT ![Arg(a)] = @ + 1]
  /\ Advance(a) /\ torn' = torn \cup {"snapshots"}
  /\ UNCHANGED <<indexed, doc, media, begun, plan, chained>>

Index(a) ==
  /\ Does(a, "index") /\ indexed' = TRUE /\ Advance(a)
  /\ UNCHANGED <<snapshot, doc, media, begun, plan, history>>

Reconciled(a) ==
  /\ Does(a, "reconcile") /\ indexed
  /\ Yields(a, Agreement(snapshot))

(* opu-artifact-inspect, on the primary only.                              *)
Inspected(a) ==
  /\ Does(a, "inspect") /\ media[Primary] # 0
  /\ Yields(a, [ok |-> media[Primary] \in Catalogued, media |-> media[Primary]])

(* The draft of the operator, or the saved one bound to the new artifact.  *)
Draft(a) ==
  /\ Does(a, "draft") \/ Does(a, "redraft")
  /\ doc["artifact"] # None
  /\ Put("procedure_input", IF Does(a, "draft") THEN Arg(a) ELSE doc["artifact"].media)
  /\ Advance(a) /\ UNCHANGED <<snapshot, indexed, media, begun, plan, history>>

Validated(a) ==
  /\ Does(a, "validate") /\ doc["artifact"] # None
  /\ Yields(a, [ok |-> doc["artifact"].ok /\ doc["artifact"].media = doc["procedure_input"],
                media |-> doc["procedure_input"]])

(* OPatch on one node, with the documents as they are; results are merged. *)
CheckedNode(a) ==
  /\ Does(a, "opatch") /\ indexed
  /\ doc["artifact"] # None /\ doc["procedure"] # None
  /\ doc["artifact"].ok /\ doc["procedure"].ok /\ doc["artifact"].media = doc["procedure"].media
  /\ \E passed \in BOOLEAN :
       Yields(a, [ok |-> passed /\ (Arg(a) = Primary \/ carry[a].ok), media |-> doc["artifact"].media])

Combined(a) ==
  /\ Does(a, "combine")
  /\ doc["reconciliation"] # None /\ doc["procedure"] # None /\ doc["compatibility"] # None
  /\ doc["reconciliation"].ok /\ doc["procedure"].ok
  /\ Yields(a, [ok |-> doc["compatibility"].ok /\ doc["compatibility"].media = doc["procedure"].media,
                media |-> doc["procedure"].media])

PolicySaved(a) ==
  /\ Does(a, "policy") /\ Put("policy", Arg(a)) /\ Advance(a)
  /\ \A name \in Judged \ {"policy"} : doc[name] # None
  /\ UNCHANGED <<snapshot, indexed, media, begun, plan, history>>

(* The gates of opu-readiness-evaluate; a policy may block besides.  It    *)
(* refuses a procedure that is not ready, and nothing else.                *)
Gates(a) ==
  /\ Does(a, "gates") /\ indexed
  /\ \A name \in Judged \ {"policy"} : doc[name] # None
  /\ doc["procedure"].ok
  /\ LET open == /\ doc["artifact"].ok /\ doc["artifact"].media = doc["procedure"].media
                 /\ doc["reconciliation"].ok /\ doc["reconciliation"].snaps = snapshot
                 /\ doc["compatibility_reconciliation"].ok
                 /\ doc["compatibility_reconciliation"].media = doc["procedure"].media
     IN \E pass \in {open, FALSE} : Yields(a, [ok |-> pass])

(* Its digests are taken of the files once more.                           *)
Emitted(a) ==
  /\ Does(a, "emit")
  /\ \A name \in Judged : doc[name] # None
  /\ Yields(a, [ok |-> carry[a].ok, snaps |-> snapshot, of |-> [name \in Judged |-> doc[name]]])

(* A blocked result ends the chain.                                        *)
StepOk(a) ==
  /\ Does(a, "ok")
  /\ IF carry[a].ok THEN Advance(a)
     ELSE todo' = [todo EXCEPT ![a] = <<>>] /\ carry' = [carry EXCEPT ![a] = None]
  /\ UNCHANGED <<evidence, media, begun, plan, history>>

ChainDone(a) ==
  /\ Does(a, "done") /\ Advance(a) /\ chained' = ("snapshots" \notin torn)
  /\ UNCHANGED <<evidence, media, begun, plan, torn>>

(* opu-artifact-stage on a node; complete media stays unless replaced.     *)
Staged(a) ==
  /\ Does(a, "replace") \/ Does(a, "fill")
  /\ \E v \in Versions :
       media' = [media EXCEPT ![Arg(a)] = IF Does(a, "fill") /\ @ # 0 THEN @ ELSE v]
  /\ Advance(a) /\ torn' = torn \cup {"media"}
  /\ UNCHANGED <<evidence, begun, plan, chained>>

-----------------------------------------------------------------------------
(* The plan *)

Sources == Judged \cup {"readiness"}

(* verify_readiness_current *)
Current(r, reconciliation) ==
  r.ok /\ r.snaps = reconciliation.snaps /\ r.snaps = snapshot

(* verify_inputs *)
Plannable(d) ==
  /\ \A name \in Sources : d[name] # None
  /\ \A name \in Sources \ {"policy"} : d[name].ok
  /\ \A name \in Judged : d["readiness"].of[name] = d[name]
  /\ Current(d["readiness"], d["reconciliation"])
  /\ d["procedure"].media = d["artifact"].media

Verify ==
  /\ plan.phase = "none" /\ Plannable(doc)
  /\ plan' = [plan EXCEPT !.phase = "verified"]
  /\ UNCHANGED <<evidence, media, actors, history>>

(* The documents are hashed again for the seal.                            *)
Seal ==
  /\ plan.phase = "verified"
  /\ \A name \in Sources : doc[name] # None
  /\ plan' = [phase |-> "sealed", docs |-> [name \in Sources |-> doc[name]]]
  /\ UNCHANGED <<evidence, media, actors, history>>

(* Mutant: the seals are compared, the freshness contract is not read.     *)
ReverifySealsOnly ==
  /\ plan.phase \in {"sealed", "approved"}
  /\ \A name \in {"readiness", "reconciliation", "policy"} : doc[name] = plan.docs[name]
  /\ plan' = [plan EXCEPT !.phase = "approved"]
  /\ UNCHANGED <<evidence, media, actors, history>>

(* verify_apply_plan_readiness_current: approve, authorize and dispatch.   *)
Reverify ==
  /\ plan.phase \in {"sealed", "approved"}
  /\ \A name \in {"readiness", "reconciliation", "policy"} : doc[name] = plan.docs[name]
  /\ Current(doc["readiness"], doc["reconciliation"])
  /\ plan' = [plan EXCEPT !.phase = "approved"]
  /\ UNCHANGED <<evidence, media, actors, history>>

(* verify_source_documents, verify_artifact and verify_readme_procedure of *)
(* the executor's precheck, on the node it runs on.                        *)
Precheck ==
  /\ plan.phase = "approved"
  /\ \A name \in Sources : doc[name] = plan.docs[name]
  /\ \E n \in Node : media[n] = plan.docs["artifact"].media
  /\ plan.docs["procedure"].media = plan.docs["artifact"].media
  /\ plan' = [plan EXCEPT !.phase = "prechecked"]
  /\ UNCHANGED <<evidence, media, actors, history>>

Init ==
  /\ snapshot = [n \in Node |-> 0] /\ indexed = FALSE
  /\ doc = [name \in Names |-> None]
  /\ media = InitialMedia
  /\ todo = [a \in Actor |-> <<>>] /\ carry = [a \in Actor |-> None]
  /\ begun = [a \in Actor |-> 0]
  /\ plan = NoPlan /\ torn = {} /\ chained = FALSE

Operation(a) ==
  \/ Stops(a) \/ Write(a) \/ Clear(a) \/ CollectNode(a) \/ Index(a) \/ Reconciled(a)
  \/ Inspected(a) \/ Draft(a) \/ Validated(a) \/ CheckedNode(a) \/ Combined(a)
  \/ PolicySaved(a) \/ Gates(a) \/ Emitted(a) \/ StepOk(a) \/ ChainDone(a) \/ Staged(a)

Planner == Verify \/ Seal \/ Reverify \/ Precheck

Next ==
  \/ \E program \in Programs : Begin("run", program)
  \/ Begin("visit", Discovery)
  \/ \E a \in Actor : Operation(a)
  \/ Planner

Spec == Init /\ [][Next]_vars
=============================================================================
