---------------------------- MODULE ControlPlane ----------------------------
(***************************************************************************)
(* What a POST goes through in the web control plane, webapp/server.py:    *)
(* the credential, the role of the path, the body, the role of the actor   *)
(* and the change ticket, each read from a file an administrator may       *)
(* replace in between; then a run of the registry whose thread starts a    *)
(* native tool, waits for it and tells the event log and a webhook.        *)
(*                                                                         *)
(* The registry is the one of RunRegistry, with runs that launch nothing   *)
(* detached.  The tools (bin/opu-patch-plan, bin/opu-database-recovery-    *)
(* prepare) are reduced to the state they move and the actors they compare *)
(* (their inside is PatchPlan).  A tool is a process: it outlives the      *)
(* server that started it.  Identities come from principals.json and a     *)
(* change ticket and an agent token are required, as in production mode.   *)
(***************************************************************************)
EXTENDS RunRegistry

CONSTANTS
  Principals,   \* people and agents with a credential of their own
  RoleMaps,     \* the contents principals.json takes: roles of a principal,
                \* none of anyone when the file is missing or malformed
  UsualRoles,   \* the one of them it starts with
  Tickets,      \* change tickets
  Tokens,       \* enrolment tokens of agents
  Agents,       \* the principals that enrol as agents
  Admins,       \* processes of opu-agent-enroll
  Handlers,     \* request threads of the server
  Scenes,       \* what a behaviour may be about: the routes in use, the state
                \* of the plan or recovery request found, the servers started
                \* and whether an administrator is at work
  Impostors,    \* names a body may give its author besides the caller's own
  Subscribed    \* events the webhook is subscribed to

VARIABLES
  principals,   \* principals.json
  tickets,      \* change-tickets.json: the approved tickets, none when the
                \* file is missing or malformed
  agents,       \* agent-registry/agents.json: the digest of each agent
  edit,         \* what an enrolment process has loaded and will save
  scene,        \* the scene of the behaviour, which never changes
  request,      \* the request each handler is serving
  subject,      \* the plan, its rollback plan and the recovery request
  job,          \* a job of the agent queue
  at,           \* position of the thread of a run in its function
  asked,        \* the route a run was accepted for
  tool,         \* the native tool a run started
  grant,        \* history: on whose behalf a run was accepted
  audit,        \* events.jsonl
  delivered,    \* what the webhook received
  dead          \* notifications-deadletter.jsonl

files == <<principals, tickets, agents, edit, scene>>
state == <<subject, job>>
origin == <<asked, grant>>
thread == <<at, tool, origin>>
log == <<audit, delivered, dead>>
vars == <<registryVars, files, request, state, thread, log>>

-----------------------------------------------------------------------------
(* Identities, roles and routes *)

ActionRoles ==
  [read      |-> {"viewer", "requester", "approver", "operator", "admin"},
   create    |-> {"requester", "admin"}, approve   |-> {"approver", "admin"},
   authorize |-> {"operator", "admin"},  dispatch  |-> {"operator", "admin"},
   execute   |-> {"operator", "admin"},  agent     |-> {"operator", "admin"}]

RoleNames == UNION {ActionRoles[action] : action \in DOMAIN ActionRoles}

HasRole(p, action) == principals[p] \cap ActionRoles[action] # {}

Route(verb, on) == [verb |-> verb, on |-> on]

(* execute-next and execute-remaining share an operation key; every other  *)
(* route has one of its own.                                               *)
Executions == {"execute", "execute-remaining"}
KeyOf(route) == IF route.verb \in Executions THEN Route("execute", route.on) ELSE route

RollbackRoute == Route("create", "rollback")
ReconcileRun  == Route("reconcile", "run")

(* Mutant: the routes of recovery requests all count as execution.         *)
PathRoleOfPlansOnly(route) ==
  CASE route.on = "queue" -> "agent"
    [] route.on # "recovery" /\ route.verb \in {"create", "approve", "authorize", "dispatch"} -> route.verb
    [] route.verb = "analyze" -> "read"
    [] OTHER -> "execute"

(* The role a path asks for, whatever the handler asks later.              *)
PathRole(route) ==
  CASE route.on = "queue" -> "agent"
    [] route.verb \in {"create", "approve", "authorize", "dispatch"} -> route.verb
    [] route.verb = "analyze" -> "read"
    [] OTHER -> "execute"

(* The handlers that ask for the role again, now of the actor in the body. *)
AsksAgain(route) == route.on \in {"plan", "rollback", "queue"}

(* The digest of p in a registry of agents.                                *)
Digest(registry, p) == IF p \in Agents THEN registry[p] ELSE None

Gated(route) == route.on # "recovery" /\ route.verb = "approve"

(* Mutant: the ticket of the body is not looked up.                        *)
TicketPresented(t) == t # None

TicketValid(t) == t # None /\ t \in tickets

-----------------------------------------------------------------------------
(* Plans and recovery requests *)

(* What a tool seals of its author: the run that brought it, the author,   *)
(* the caller and what held during the request.                            *)
NoGrant == [run |-> None, actor |-> None, by |-> None, entitled |-> FALSE, vouched |-> FALSE]
Grants == [run : Runs \cup {None}, actor : Principals \cup {None}, by : Principals \cup {None},
           entitled : BOOLEAN, vouched : BOOLEAN]

(* How a recovery preparation ends that does not complete; the first of    *)
(* them stands for blocked and validation_failed as well.                  *)
RecoveryFailed == {"failed_services_restored", "recovery_required"}

SubjectStates == {"none", "awaiting_approval", "approved", "authorized", "running", "paused",
                  "succeeded", "completed"} \cup RecoveryFailed

NoSubject == [state |-> "none", requester |-> NoGrant, approver |-> NoGrant, operator |-> NoGrant]
SubjectRecords == [state : SubjectStates, requester : Grants, approver : Grants, operator : Grants]

SealsOf(s) == {s.requester, s.approver, s.operator}

(* What the tools can have left: the state says how many seals there are,  *)
(* each names the caller, and no two the same.                             *)
Lawful(s) ==
  /\ s.state = "none" => s = NoSubject
  /\ s.state = "awaiting_approval" => s.approver = NoGrant
  /\ s.state \in {"awaiting_approval", "approved"} => s.operator = NoGrant
  /\ \A g \in SealsOf(s) : g.actor = g.by
  /\ s.approver.by # None => s.approver.by # s.requester.by
  /\ s.operator.by # None => s.operator.by \notin {s.requester.by, s.approver.by}

AllRoutes == UNION {s.routes : s \in Scenes}

(* A scene finds what earlier runs have left, and a route is one of a plan *)
(* or a recovery request, or a call of the queue's agents.                 *)
ASSUME ControlAssumption ==
  /\ None \notin Principals \cup Tickets \cup Tokens
  /\ UsualRoles \in RoleMaps /\ RoleMaps \subseteq [Principals -> SUBSET RoleNames]
  /\ {KeyOf(route) : route \in AllRoutes} \subseteq Keys /\ None \notin AllRoutes
  /\ \A route \in AllRoutes : route.on = "queue" <=> route.verb \in {"claim", "complete"}
  /\ \A s \in Scenes : /\ s.found \in SubjectRecords /\ Lawful(s.found)
                       /\ \A g \in SealsOf(s.found) : g.run = None

-----------------------------------------------------------------------------
(* A request *)

NoRequest == [stage |-> "idle"]

Goto(h, stage) == request' = [request EXCEPT ![h].stage = stage]
Respond(h) == request' = [request EXCEPT ![h] = NoRequest]
Gate(h, passes, next) == IF passes THEN Goto(h, next) ELSE Respond(h)

(* A request whose credential is in principals.json (require_api_auth).    *)
(* held and good are history: the roles the caller had and the tickets and *)
(* tokens that were good at some moment of the request.                    *)
Authenticate(h, c, route, p, claim, ticket, token) ==
  /\ request[h] = NoRequest /\ up[c] = "up" /\ principals[p] # {}
  /\ request' = [request EXCEPT ![h] =
       [stage |-> "authenticated", route |-> route, on |-> c, by |-> p, claim |-> claim, actor |-> None,
        ticket |-> ticket, token |-> token, held |-> principals[p], good |-> tickets \cup {Digest(agents, p)}]]
  /\ UNCHANGED <<registryVars, files, state, thread, log>>

AuthorizePath(h) ==
  /\ request[h].stage = "authenticated"
  /\ Gate(h, HasRole(request[h].by, PathRole(request[h].route)), "authorized")
  /\ UNCHANGED <<registryVars, files, state, thread, log>>

(* Mutant: what the body says of its author is believed.                   *)
AuthorBelieved(q) == IF q.claim = None THEN q.by ELSE q.claim

(* The actor of the body must be the caller, and is when it is left out.   *)
Author(q) == IF q.claim \in {None, q.by} THEN q.by ELSE None

(* do_POST refuses a body of another author; a handler of a plan asks for  *)
(* the fields it needs, then for the role of the author.                   *)
ReadBody(h) ==
  /\ request[h].stage = "authorized"
  /\ LET q == [request[h] EXCEPT !.actor = Author(request[h]),
                                 !.stage = IF Gated(request[h].route) THEN "ticket" ELSE "clear"]
         accepted == /\ q.actor # None
                     /\ Gated(q.route) => q.ticket # None
                     /\ AsksAgain(q.route) => q.actor = q.by /\ HasRole(q.actor, PathRole(q.route))
     IN request' = [request EXCEPT ![h] = IF accepted THEN q ELSE NoRequest]
  /\ UNCHANGED <<registryVars, files, state, thread, log>>

ValidateTicket(h) ==
  /\ request[h].stage = "ticket"
  /\ Gate(h, TicketValid(request[h].ticket), "clear")
  /\ UNCHANGED <<registryVars, files, state, thread, log>>

(* The roles an operation needs, for the history (ACTION_ROLES).           *)
Needed(verb) == CASE verb = "create" -> {"requester", "admin"}
                  [] verb = "approve" -> {"approver", "admin"}
                  [] OTHER -> {"operator", "admin"}

(* History: the author, the caller, and what held during the request.      *)
Granted(q, r, proof) ==
  [run |-> r, actor |-> q.actor, by |-> q.by, entitled |-> q.held \cap Needed(q.route.verb) # {},
   vouched |-> proof \in q.good]

Clear(h, on) == request[h].stage = "clear" /\ request[h].route.on \in on

Accept(h, r) ==
  /\ Clear(h, {"plan", "rollback", "recovery"})
  /\ StartRun(request[h].on, KeyOf(request[h].route), r)
  /\ asked' = [asked EXCEPT ![r] = request[h].route]
  /\ grant' = [grant EXCEPT ![r] = Granted(request[h], r, request[h].ticket)]
  /\ Respond(h)
  /\ UNCHANGED <<files, state, at, tool, log>>

(* 409: the key is taken.                                                  *)
Conflict(h) ==
  /\ Clear(h, {"plan", "rollback", "recovery"}) /\ Claimed(request[h].on, KeyOf(request[h].route))
  /\ Respond(h)
  /\ UNCHANGED <<registryVars, files, state, thread, log>>

(* POST /api/runs/R/reconcile, with the operator's confirmation.           *)
CloseRun(h, r) ==
  /\ Clear(h, {"run"})
  /\ CloseByHand(request[h].on, r)
  /\ Respond(h)
  /\ UNCHANGED <<files, state, thread, log>>

(* 409, or 400 without the confirmation; the run may have been loaded.     *)
CloseRefused(h) ==
  /\ Clear(h, {"run"})
  /\ UNCHANGED registryVars \/ \E r \in Runs : GetRun(request[h].on, r)
  /\ Respond(h)
  /\ UNCHANGED <<files, state, thread, log>>

(* What a request in flight could still find good, after a file changed.   *)
Notes ==
  request' = [h \in Handlers |->
    IF request[h] = NoRequest THEN NoRequest
    ELSE LET q == request[h]
         IN [q EXCEPT !.held = @ \cup principals'[q.by],
                      !.good = @ \cup tickets' \cup {Digest(agents', q.by)}]]

(* An administrator replaces principals.json or change-tickets.json.       *)
RolesChange(roles) ==
  /\ principals # roles /\ principals' = roles
  /\ UNCHANGED <<registryVars, tickets, agents, edit, scene, state, thread, log>>
  /\ Notes

TicketsChange(approved) ==
  /\ tickets # approved /\ tickets' = approved
  /\ UNCHANGED <<registryVars, principals, agents, edit, scene, state, thread, log>>
  /\ Notes

-----------------------------------------------------------------------------
(* Agents *)

(* Mutant: a process loads the registry without waiting for another.       *)
EditFree == TRUE

RegistryFree == \A a \in Admins : edit[a] = None

(* enroll with a fresh token, or revoke: load, change and save under the   *)
(* lock of the registry.                                                   *)
EditLoads(a, p, token) ==
  /\ edit[a] = None /\ RegistryFree
  /\ agents[p] # token
  /\ token = None => agents[p] # None
  /\ edit' = [edit EXCEPT ![a] = [agent |-> p, content |-> [agents EXCEPT ![p] = token]]]
  /\ UNCHANGED <<registryVars, principals, tickets, agents, scene, request, state, thread, log>>

EditSaves(a) ==
  /\ edit[a] # None
  /\ agents' = edit[a].content
  /\ edit' = [edit EXCEPT ![a] = None]
  /\ UNCHANGED <<registryVars, principals, tickets, scene, state, thread, log>>
  /\ Notes

(* Mutant: an agent once enrolled is trusted.                              *)
EnrolledOnce(q) == Digest(agents, q.by) # None

Enrolled(q) == q.token # None /\ Digest(agents, q.by) = q.token

(* claim and complete verify the token before the lock of the queue, and   *)
(* complete does so again after the wait for the native task.              *)
VerifyAgent(h) ==
  /\ Clear(h, {"queue"})
  /\ Gate(h, Enrolled(request[h]), "verified")
  /\ UNCHANGED <<registryVars, files, state, thread, log>>

ClaimJob(h) ==
  /\ request[h].stage = "verified" /\ request[h].route.verb = "claim"
  /\ job' = IF job.status = "queued" THEN [status |-> "claimed", grant |-> Granted(request[h], None, request[h].token)] ELSE job
  /\ Respond(h)
  /\ UNCHANGED <<registryVars, files, subject, thread, log>>

CompleteJob(h) ==
  /\ request[h].stage = "verified" /\ request[h].route.verb = "complete"
  /\ job' = IF job.status = "claimed" /\ job.grant.by = request[h].by /\ Enrolled(request[h])
            THEN [status |-> "completed", grant |-> Granted(request[h], None, request[h].token)] ELSE job
  /\ Respond(h)
  /\ UNCHANGED <<registryVars, files, subject, thread, log>>

-----------------------------------------------------------------------------
(* The native tools *)

(* The sealed actors of a subject are three.                               *)
Distinct(s, g) == g.actor \notin {s.requester.actor, s.approver.actor}

When(condition, records) == IF condition THEN records ELSE {}

(* What a tool does: the record it leaves, and where it stands then.  It   *)
(* is done, or looks for more tasks (going), or found nothing to execute   *)
(* and returns (idle), or ends badly (failed).                             *)
Ends(s, end, states) == {[left |-> [s EXCEPT !.state = st], tool |-> end] : st \in states}

(* Mutant: execute-next takes any plan for one without a pending task.     *)
RunsOutOnAnyPlan(r, s) == s.state # "none"

(* Nothing is left to execute: execute-next finds a plan that is over, or  *)
(* running without a pending task; execute-remaining any other plan as     *)
(* well, and a running one that reached its number of tasks.               *)
RunsOut(r, s) ==
  s.state \in {"running", "succeeded"} \/ (asked[r].verb = "execute-remaining" /\ s.state # "none")

(* A task of a running plan; a failed one pauses the plan and raises.      *)
Rounds(r, s) ==
  When(s.state = "running",
       Ends(s, IF asked[r].verb = "execute" THEN "done" ELSE "going", {"running", "succeeded"})
         \cup Ends(s, "failed", {"paused"}))
  \cup When(RunsOut(r, s), Ends(s, IF tool[r] = "going" THEN "done" ELSE "idle", {s.state}))

(* A recovery preparation that does not complete ends badly, also by the   *)
(* kill that leaves it running; one that is still running when it is       *)
(* reconciled goes on.                                                     *)
Moves(r) ==
  LET route == asked[r]
      g == grant[r]
      s == subject[route.on]
      does(verb, from) == route.verb = verb /\ s.state = from
      leaves(sealed) == {[left |-> sealed, tool |-> "done"]}
      recovery == route.on = "recovery"
  IN When(does("create", "none") /\ (route.on = "rollback" => subject["plan"].state = "succeeded"),
          leaves([NoSubject EXCEPT !.state = "awaiting_approval", !.requester = g]))
     \cup When(does("approve", "awaiting_approval") /\ Distinct(s, g),
               leaves([s EXCEPT !.state = "approved", !.approver = g]))
     \cup When(does("authorize", "approved") /\ Distinct(s, g),
               leaves([s EXCEPT !.state = "authorized", !.operator = g]))
     \cup When(does("dispatch", "authorized") /\ g.actor = s.operator.actor, Ends(s, "done", {"running"}))
     \cup When(does("retry-task", "paused"), Ends(s, "done", {"running"}))
     \cup When(~recovery /\ route.verb \in Executions, Rounds(r, s))
     \cup When(route.verb = "analyze" /\ s.state # "none", leaves(s))
     \cup When(recovery /\ does("execute", "completed"), leaves(s))
     \cup When(recovery /\ does("execute", "authorized") /\ g.actor = s.operator.actor,
               Ends(s, "done", {"completed"}) \cup Ends(s, "failed", {"running"} \cup RecoveryFailed))
     \cup When(recovery /\ does("reconcile", "running") /\ g.actor = s.operator.actor,
               Ends(s, "done", {"running"} \cup RecoveryFailed))

StartTool(r) ==
  /\ worker[r] = "running" /\ at[r] = "idle"
  /\ tool' = [tool EXCEPT ![r] = "running"] /\ at' = [at EXCEPT ![r] = "waiting"]
  /\ UNCHANGED <<registryVars, files, request, state, origin, log>>

(* The tool does its work, whether or not the server still runs, or        *)
(* refuses for what is left out here, such as the window or the disk.      *)
ToolActs(r) ==
  /\ tool[r] \in {"running", "going"}
  /\ \/ \E m \in Moves(r) :
          /\ subject' = [subject EXCEPT ![asked[r].on] = m.left]
          /\ tool' = [tool EXCEPT ![r] = m.tool]
     \/ tool' = [tool EXCEPT ![r] = "failed"] /\ UNCHANGED subject
  /\ UNCHANGED <<registryVars, files, request, job, at, origin, log>>

(* The timeout kills the tool, or its exit code was lost with it.          *)
ToolKilled(r) ==
  /\ at[r] = "waiting" /\ worker[r] = "running" /\ tool[r] # "failed"
  /\ tool' = [tool EXCEPT ![r] = "failed"]
  /\ UNCHANGED <<registryVars, files, request, state, at, origin, log>>

-----------------------------------------------------------------------------
(* What the thread tells *)

Event(route, ok) ==
  IF route.on = "recovery" \/ (~ok /\ route.verb \notin Executions) THEN None
  ELSE CASE route.verb \in Executions -> IF ok THEN "plan.execute.succeeded" ELSE "plan.execute.failed"
         [] route.verb = "create" -> "plan.created"
         [] route.verb = "approve" -> "plan.approved"
         [] route.verb = "authorize" -> "plan.authorized"
         [] route.verb = "dispatch" -> "plan.dispatched"
         [] OTHER -> None

Note(r, name) == [event |-> name, on |-> asked[r].on, run |-> r]

(* Mutant: the event is told whatever the tool answered.                   *)
EventRegardless(r) == Event(asked[r], TRUE)

Returned(r) == tool[r] \in {"done", "idle"}

EventOf(r) == Event(asked[r], Returned(r))

ToolReturns(r) ==
  /\ at[r] = "waiting" /\ worker[r] = "running" /\ tool[r] \in {"done", "idle", "failed"}
  /\ at' = [at EXCEPT ![r] = IF EventOf(r) = None THEN "end" ELSE "emit"]
  /\ UNCHANGED <<registryVars, files, request, state, tool, origin, log>>

(* emit: append to the audit log, then to the webhook; no failure is ever  *)
(* raised, and a failed append skips the webhook.                          *)
Append(r, name, posting, after) ==
  /\ \/ /\ audit' = audit \cup {Note(r, name)}
        /\ at' = [at EXCEPT ![r] = IF name \in Subscribed THEN posting ELSE after]
     \/ /\ DiskMayFail /\ at' = [at EXCEPT ![r] = after]
        /\ UNCHANGED audit
  /\ UNCHANGED <<registryVars, files, request, state, tool, origin, delivered, dead>>

Post(r, name, after) ==
  /\ \/ delivered' = delivered \cup {Note(r, name)} /\ UNCHANGED dead
     \/ dead' = dead \cup {Note(r, name)} /\ UNCHANGED delivered
     \/ DiskMayFail /\ UNCHANGED <<delivered, dead>>
  /\ at' = [at EXCEPT ![r] = after]
  /\ UNCHANGED <<registryVars, files, request, state, tool, origin, audit>>

Emit(r) == at[r] = "emit" /\ worker[r] = "running" /\ Append(r, EventOf(r), "post", "end")
EmitPosts(r) == at[r] = "post" /\ worker[r] = "running" /\ Post(r, EventOf(r), "end")

(* Mutant: the exit code of the tool is not looked at.                     *)
FunctionEndsWell(r) ==
  /\ at[r] = "end" /\ WorkerEnds(r, TRUE)
  /\ UNCHANGED <<files, request, state, thread, log>>

FunctionEnds(r) ==
  /\ at[r] = "end" /\ WorkerEnds(r, Returned(r))
  /\ UNCHANGED <<files, request, state, thread, log>>

(* Mutant: the alarm is raised for what the memory says.                   *)
AlarmInMemory(r) == cache[Owner(r)][r].status \in {"failed", "unknown"}

Alarmed(r) == cache[Owner(r)][r].status = "failed"

Settles(r) ==
  /\ Settle(r) \/ SettleFails(r)
  /\ at' = [at EXCEPT ![r] = "settled"]
  /\ UNCHANGED <<files, request, state, tool, origin, log>>

(* run.failed, after the outcome is on file.                               *)
Alarm(r) ==
  /\ at[r] = "settled" /\ up[Owner(r)] = "up" /\ Alarmed(r)
  /\ Append(r, "run.failed", "alarm", "over")

AlarmPosts(r) == at[r] = "alarm" /\ up[Owner(r)] = "up" /\ Post(r, "run.failed", "over")

-----------------------------------------------------------------------------
(* The processes *)

Unmoved == UNCHANGED <<files, request, state, thread, log>>

ServerDies(c) ==
  /\ ControllerDies(c)
  /\ request' = [h \in Handlers |-> IF request[h] # NoRequest /\ request[h].on = c THEN NoRequest ELSE request[h]]
  /\ UNCHANGED <<files, state, thread, log>>

Init ==
  /\ RegistryInit
  /\ principals = UsualRoles /\ tickets = Tickets
  /\ agents = [p \in Agents |-> None] /\ edit = [a \in Admins |-> None]
  /\ scene \in Scenes
  /\ request = [h \in Handlers |-> NoRequest]
  /\ subject = [on \in {"plan", "rollback", "recovery"} |-> IF on = "rollback" THEN NoSubject ELSE scene.found]
  /\ job = [status |-> "queued", grant |-> NoGrant]
  /\ at = [r \in Runs |-> "idle"] /\ tool = [r \in Runs |-> "none"]
  /\ asked = [r \in Runs |-> None] /\ grant = [r \in Runs |-> NoGrant]
  /\ audit = {} /\ delivered = {} /\ dead = {}

(* The bound on requests: those that want a run come while one is left.    *)
RunsLeft == \E r \in Runs : disk[r] = NoRecord

Client(h) ==
  \E c \in Controllers, route \in scene.routes, p \in Principals, claim \in Impostors \cup {None},
     ticket \in Tickets \cup {None}, token \in Tokens \cup {None} :
    /\ claim # p
    /\ RunsLeft \/ route.on \in {"run", "queue"}
    /\ (ticket # None => Gated(route)) /\ (token # None => route.on = "queue")
    /\ Authenticate(h, c, route, p, claim, ticket, token)

Handler(h) ==
  \/ AuthorizePath(h) \/ ReadBody(h) \/ ValidateTicket(h)
  \/ Conflict(h) \/ CloseRefused(h) \/ VerifyAgent(h) \/ ClaimJob(h) \/ CompleteJob(h)
  \/ \E r \in Runs : Accept(h, r) \/ CloseRun(h, r)

Thread(r) ==
  \/ ThreadFails(r) /\ Unmoved
  \/ WorkerBegins(r) /\ Unmoved
  \/ StartTool(r) \/ ToolReturns(r) \/ Emit(r) \/ EmitPosts(r) \/ FunctionEnds(r)
  \/ Settles(r) \/ Alarm(r) \/ AlarmPosts(r)

(* Files that no route in use reads are left as they are, and so are all   *)
(* files in a scene that is not about them.                                *)
Administrator ==
  \/ \E roles \in RoleMaps : RolesChange(roles)
  \/ \E approved \in SUBSET Tickets : (\E route \in scene.routes : Gated(route)) /\ TicketsChange(approved)
  \/ \E a \in Admins :
       \/ EditSaves(a)
       \/ \E p \in Agents, token \in Tokens \cup {None} :
            (\E route \in scene.routes : route.on = "queue") /\ EditLoads(a, p, token)

Next ==
  \/ \E h \in Handlers : Client(h) \/ Handler(h)
  \/ \E r \in Runs : Thread(r) \/ ToolActs(r) \/ ToolKilled(r)
  \/ \E c \in Controllers :
       \/ c \in scene.servers /\ ControllerStarts(c) /\ Unmoved
       \/ ServerDies(c)
  \/ scene.edits /\ Administrator

Spec == Init /\ [][Next]_vars
=============================================================================
