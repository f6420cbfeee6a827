--------------------------- MODULE MCControlPlane ---------------------------
(***************************************************************************)
(* Three people with a role each, an administrator of roles who promotes   *)
(* the requester or loses the registry; seven scenes, one of them with two *)
(* servers that overlap.                                                   *)
(***************************************************************************)
EXTENDS ControlPlaneProperties, TLC

CONSTANTS ann, bob, cyd, c1, c2

Usual    == (ann :> {"requester"}) @@ (bob :> {"approver"}) @@ (cyd :> {"operator"})
Promoted == [Usual EXCEPT ![ann] = {"admin"}, ![bob] = {"viewer"}]
Lost     == [p \in Principals |-> {}]
TheRoleMaps == {Usual, Promoted, Lost}

Of(on, verbs) == {Route(verb, on) : verb \in verbs}
Old(p) == [NoGrant EXCEPT !.actor = p, !.by = p, !.entitled = TRUE, !.vouched = TRUE]
Asked == [NoSubject EXCEPT !.state = "awaiting_approval", !.requester = Old(ann)]
Approved == [Asked EXCEPT !.state = "approved", !.approver = Old(bob)]
Authorized == [Approved EXCEPT !.state = "authorized", !.operator = Old(cyd)]

Scene(found, routes, servers) ==
  [found |-> found, routes |-> routes, servers |-> servers, edits |-> servers = {c1}]

TheScenes ==
  {Scene(NoSubject, Of("plan", {"create", "approve"}), {c1}),
   Scene(Asked, Of("plan", {"approve", "authorize"}), {c1}),
   Scene(Authorized, Of("plan", {"dispatch", "execute", "execute-remaining", "retry-task"}) \cup {RollbackRoute}, {c1}),
   Scene(NoSubject, Of("recovery", {"create", "approve", "analyze"}), {c1}),
   Scene(Approved, Of("recovery", {"authorize", "execute", "reconcile"}), {c1}),
   Scene(Authorized, {Route("dispatch", "plan"), ReconcileRun}, {c1, c2}),
   Scene(NoSubject, Of("queue", {"claim", "complete"}), {c1})}

AllKeys == {KeyOf(route) : route \in AllRoutes}

Alike == Permutations(Runs) \cup Permutations(Tokens) \cup Permutations(Admins)
=============================================================================
