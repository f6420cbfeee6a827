------------------------- MODULE ControlPlaneProofs -------------------------
(***************************************************************************)
(* Proofs about the web control plane, for any principals, role files,     *)
(* tickets, tokens, handlers, servers and runs, whether or not servers     *)
(* overlap and the disk fails.                                             *)
(***************************************************************************)
EXTENDS ControlPlaneProperties, RunRegistryProofs

(* The inductive invariant *)

Requests ==
  [stage : Stages \ {"idle"}, route : AllRoutes, on : Controllers, by : Principals,
   claim : Impostors \cup {None}, actor : Principals \cup {None}, ticket : Tickets \cup {None},
   token : Tokens \cup {None}, held : SUBSET RoleNames, good : SUBSET (Tickets \cup Tokens \cup {None})]

FileTypes ==
  /\ principals \in RoleMaps /\ tickets \subseteq Tickets
  /\ agents \in [Agents -> Tokens \cup {None}]
  /\ edit \in [Admins -> [agent : Agents, content : [Agents -> Tokens \cup {None}]] \cup {None}]
  /\ scene \in Scenes

RequestTypes ==
  /\ request \in [Handlers -> Requests \cup {NoRequest}]
  /\ \A h \in Handlers : request[h] # NoRequest => up[request[h].on] = "up"

ThreadPlaces == {"idle", "waiting", "emit", "post", "end", "settled", "alarm", "over"}

ThreadTypes ==
  /\ at \in [Runs -> ThreadPlaces]
  /\ tool \in [Runs -> {"none", "running", "going", "done", "idle", "failed"}]
  /\ asked \in [Runs -> AllRoutes \cup {None}] /\ grant \in [Runs -> Grants]

JobTypes == job \in [status : {"queued", "claimed", "completed"}, grant : Grants]

(* A request that has passed a lookup still has what the lookup found, for *)
(* the history only grows; past the body its author is the caller.         *)
Passed(q) ==
  /\ principals[q.by] \subseteq q.held /\ tickets \cup {Digest(agents, q.by)} \subseteq q.good
  /\ q.stage # "authenticated" => q.held \cap ActionRoles[PathRole(q.route)] # {}
  /\ q.stage \in {"ticket", "clear", "verified"} => q.actor = q.by
  /\ q.stage \in {"clear", "verified"} /\ Gated(q.route) => q.ticket \in q.good
  /\ q.stage = "verified" => q.route.on = "queue" /\ q.token \in q.good

RequestsInv == \A h \in Handlers : request[h] # NoRequest => Passed(request[h])

(* A run that was accepted says on whose behalf, and that is the caller.   *)
Deeds == {"create", "approve", "authorize"}
GrantInv(r) ==
  /\ asked[r] \in AllRoutes /\ asked[r].on \in Subjects
  /\ grant[r].run = r /\ grant[r].actor = grant[r].by /\ grant[r].by # None
  /\ asked[r].verb \in Deeds => grant[r].entitled
  /\ Gated(asked[r]) => grant[r].vouched

GrantsInv == \A r \in Runs : disk[r] # NoRecord => GrantInv(r)

(* What is sealed is lawful, and what a run sealed its caller was entitled *)
(* to.                                                                     *)
SubjectInv(on) ==
  /\ Lawful(subject[on])
  /\ \A g \in SealsOf(subject[on]) : g.run # None => g.entitled
  /\ on # "recovery" /\ subject[on].approver.run # None => subject[on].approver.vouched

SubjectsInv == \A on \in Subjects : SubjectInv(on)

(* The place of a thread tells what its tool may have done ...             *)
PlaceInv(r) ==
  /\ disk[r] = NoRecord => worker[r] = "none"
  /\ worker[r] \in {"none", "queued"} => at[r] = "idle"
  /\ worker[r] = "running" => at[r] \in {"idle", "waiting", "emit", "post", "end"}
  /\ worker[r] = "ended" => at[r] = "end"
  /\ at[r] = "idle" <=> tool[r] = "none"
  /\ tool[r] \in {"running", "going"} => at[r] = "waiting"
  /\ at[r] \in {"emit", "post"} => EventOf(r) # None

PlacesInv == \A r \in Runs : PlaceInv(r)

(* ... what its tool has done ...                                          *)
Early == {"none", "awaiting_approval", "approved"}
Late == SubjectStates \ Early

Shows(r, s) ==
  LET verb == asked[r].verb
      recovery == asked[r].on = "recovery"
  IN /\ verb = "create" => s.requester.run = r
     /\ verb = "approve" => s.approver.run = r
     /\ verb = "authorize" => s.operator.run = r
     /\ verb = "dispatch" => s.operator.actor = grant[r].actor /\ s.state \in Late
     /\ verb \in {"dispatch", "retry-task"} \cup Executions /\ ~recovery => s.state \in Dispatched
     /\ verb = "execute" /\ recovery => s.state = "completed"

DeedDone(r) == Shows(r, subject[asked[r].on])

DeedInv(r) ==
  /\ tool[r] \in {"done", "going"} => DeedDone(r)
  /\ tool[r] = "idle" => DeedDone(r) \/ FoundNothing(r)

DeedsInv == \A r \in Runs : DeedInv(r)

(* ... and what has been told of it.                                       *)
Told(e) ==
  /\ e.run \in Runs /\ disk[e.run] # NoRecord /\ at[e.run] \notin {"idle", "waiting"}
  /\ e.event \notin {"plan.execute.failed", "run.failed"} =>
       /\ e.event = Event(asked[e.run], TRUE) /\ e.on = asked[e.run].on
       /\ DeedDone(e.run) \/ FoundNothing(e.run)
  /\ e.event = "plan.execute.failed" => tool[e.run] = "failed"
  /\ e.event = "run.failed" => disk[e.run].status = "failed"

NotesInv ==
  /\ delivered \cup dead \subseteq audit
  /\ \A r \in Runs : /\ at[r] = "post" => Note(r, EventOf(r)) \in audit
                     /\ at[r] = "alarm" => Note(r, "run.failed") \in audit

LogInv == NotesInv /\ \A e \in audit : Told(e)

(* Nothing is launched detached; a run at work is the same in memory and   *)
(* on file, and open there.                                                *)
RunInv(r) ==
  /\ disk[r].context = NoContext /\ \A c \in Controllers : cache[c][r].context = NoContext
  /\ Running(r) => cache[Owner(r)][r] = disk[r] /\ disk[r].status = worker[r]
  /\ worker[r] = "ended" => /\ disk[r].status = "running"
                            /\ cache[Owner(r)][r].status \in Resolved
                            /\ cache[Owner(r)][r].status = "succeeded" => Returned(r)
  /\ disk[r].status = "succeeded" => Returned(r) /\ at[r] # "waiting"
  /\ at[r] \in {"settled", "alarm", "over"} /\ up[Owner(r)] = "up" /\ Alarmed(r) => disk[r].status = "failed"
  /\ disk[r] # NoRecord => up[Owner(r)] # "new"

RunsInv == inspection = NoInspection /\ \A r \in Runs : RunInv(r)

(* One process edits the registry of agents, and what it will save differs *)
(* from the registry in the agent it is about.                             *)
EditsInv ==
  /\ \A a, b \in Admins : edit[a] # None /\ edit[b] # None => a = b
  /\ \A a \in Admins : edit[a] # None =>
       \A p \in Agents : p # edit[a].agent => edit[a].content[p] = agents[p]

(* What happens to plans, runs and the log, apart from requests and files. *)
CoreVars == <<registryVars, subject, thread, log>>

Core ==
  /\ ThreadTypes /\ subject \in [Subjects -> SubjectRecords]
  /\ GrantsInv /\ SubjectsInv /\ PlacesInv /\ DeedsInv /\ LogInv /\ RunsInv /\ KeyExclusive

ControlInv ==
  /\ RegistryTypes /\ FileTypes /\ RequestTypes /\ RequestsInv
  /\ JobTypes /\ AgentWasEnrolled /\ Core /\ EditsInv

(* The run registry *)

(* No request is in progress in NoRequest, and none is a record of one.    *)
LEMMA RequestRecords ==
  /\ NoRequest.stage = "idle"
  /\ \A q \in Requests : q # NoRequest /\ q.stage # "idle"
BY DEF NoRequest, Requests

(* A request past its beginning is a record of one.                        *)
LEMMA InProgress ==
  ASSUME RequestTypes, NEW h \in Handlers, request[h].stage # "idle"
  PROVE  request[h] \in Requests /\ request[h] # NoRequest
BY RequestRecords DEF RequestTypes

RegistryStep == [RegistryNext]_registryVars

LEMMA HandlerSteps ==
  ASSUME RequestTypes, NEW h \in Handlers, Client(h) \/ Handler(h)
  PROVE  RegistryStep
<1>1. ASSUME NEW r \in Runs, Accept(h, r) PROVE RegistryStep
  <2>1. request[h] \in Requests
    BY <1>1, InProgress DEF Accept, Clear
  <2>2. request[h].on \in Controllers /\ KeyOf(request[h].route) \in Keys
    BY <2>1, ControlAssumption DEF Requests
  <2> QED BY <1>1, <2>2 DEF Accept, RegistryStep, RegistryNext
<1>2. ASSUME NEW r \in Runs, CloseRun(h, r) PROVE RegistryStep
  <2>1. request[h] \in Requests
    BY <1>2, InProgress DEF CloseRun, Clear
  <2> QED BY <1>2, <2>1 DEF Requests, CloseRun, RegistryStep, RegistryNext
<1>3. CASE CloseRefused(h)
  <2>1. request[h] \in Requests
    BY <1>3, InProgress DEF CloseRefused, Clear
  <2> QED BY <1>3, <2>1 DEF Requests, CloseRefused, RegistryStep, RegistryNext
<1>4. CASE Client(h)
  BY <1>4 DEF Client, Authenticate, RegistryStep
<1>5. CASE AuthorizePath(h) \/ ReadBody(h) \/ ValidateTicket(h) \/ Conflict(h) \/ VerifyAgent(h)
           \/ ClaimJob(h) \/ CompleteJob(h)
  BY <1>5 DEF AuthorizePath, ReadBody, ValidateTicket, Conflict, VerifyAgent, ClaimJob, CompleteJob,
              RegistryStep
<1> QED BY <1>1, <1>2, <1>3, <1>4, <1>5 DEF Handler

LEMMA ThreadSteps ==
  ASSUME NEW r \in Runs, Thread(r) \/ ToolActs(r) \/ ToolKilled(r)
  PROVE  RegistryStep
<1>1. CASE ThreadFails(r) \/ WorkerBegins(r) \/ Settles(r)
  BY <1>1 DEF Settles, RegistryStep, RegistryNext
<1>2. CASE FunctionEnds(r)
  <2>1. Returned(r) \in BOOLEAN
    BY DEF Returned
  <2>2. \E returns \in BOOLEAN : WorkerEnds(r, returns)
    BY <1>2, <2>1 DEF FunctionEnds
  <2> QED BY <2>2 DEF RegistryStep, RegistryNext
<1>3. CASE StartTool(r) \/ ToolReturns(r) \/ Emit(r) \/ EmitPosts(r) \/ Alarm(r) \/ AlarmPosts(r)
  BY <1>3 DEF StartTool, ToolReturns, Emit, EmitPosts, Alarm, AlarmPosts, Append, Post, RegistryStep
<1>4. CASE ToolActs(r) \/ ToolKilled(r)
  BY <1>4 DEF ToolActs, ToolKilled, RegistryStep
<1> QED BY <1>1, <1>2, <1>3, <1>4 DEF Thread

(* Every step of the control plane is a step of the registry, or none of   *)
(* it.                                                                     *)
LEMMA StepImplements ==
  ASSUME RequestTypes, [Next]_vars
  PROVE  RegistryStep
<1>1. ASSUME NEW h \in Handlers, Client(h) \/ Handler(h) PROVE RegistryStep
  BY <1>1, HandlerSteps
<1>2. ASSUME NEW r \in Runs, Thread(r) \/ ToolActs(r) \/ ToolKilled(r) PROVE RegistryStep
  BY <1>2, ThreadSteps
<1>3. ASSUME NEW c \in Controllers, ControllerStarts(c) \/ ServerDies(c) PROVE RegistryStep
  BY <1>3 DEF ServerDies, RegistryStep, RegistryNext
<1>4. CASE Administrator
  BY <1>4 DEF Administrator, RolesChange, TicketsChange, EditSaves, EditLoads, RegistryStep
<1>5. CASE UNCHANGED vars
  BY <1>5 DEF vars, RegistryStep
<1> QED BY <1>1, <1>2, <1>3, <1>4, <1>5 DEF Next

(* Requests *)

(* Every lookup a request passes is one of the current files.              *)
Served(h, q) ==
  /\ request' = [request EXCEPT ![h] = q] /\ q \in Requests \cup {NoRequest}
  /\ q # NoRequest => Passed(q) /\ up[q.on] = "up"

LEMMA GotoServes ==
  ASSUME RequestTypes, RequestsInv, NEW h \in Handlers, request[h].stage # "idle",
         NEW stage \in Stages \ {"idle"}, NEW passes \in BOOLEAN, Gate(h, passes, stage),
         passes => Passed([request[h] EXCEPT !.stage = stage])
  PROVE  \E q : Served(h, q)
<1>1. request[h] \in Requests /\ up[request[h].on] = "up"
  BY InProgress DEF RequestTypes
<1>2. CASE passes
  <2> DEFINE q == [request[h] EXCEPT !.stage = stage]
  <2>1. q \in Requests /\ up[q.on] = "up"
    BY <1>1 DEF Requests
  <2>2. request' = [request EXCEPT ![h] = q]
    BY <1>2 DEF Gate, Goto
  <2>3. Served(h, q)
    BY <1>2, <2>1, <2>2 DEF Served
  <2> QED BY <2>3
<1>3. CASE ~passes
  BY <1>3 DEF Gate, Respond, Served
<1> QED BY <1>2, <1>3

(* The roles asked of a path are those its operation needs.                *)
LEMMA NeededRoles ==
  ASSUME NEW route \in AllRoutes, route.on = "queue" \/ route.verb \in Deeds
  PROVE  ActionRoles[PathRole(route)] = Needed(route.verb)
<1>1. CASE route.on = "queue"
  <2>1. route.verb \in {"claim", "complete"} /\ PathRole(route) = "agent"
    BY <1>1, ControlAssumption DEF PathRole
  <2> QED BY <2>1 DEF ActionRoles, Needed
<1>2. CASE route.on # "queue" /\ route.verb \in Deeds
  <2>1. PathRole(route) = route.verb
    BY <1>2 DEF PathRole, Deeds
  <2> QED BY <1>2, <2>1 DEF ActionRoles, Needed, Deeds
<1> QED BY <1>1, <1>2

LEMMA AuthorizeServes ==
  ASSUME RequestTypes, RequestsInv, NEW h \in Handlers, AuthorizePath(h)
  PROVE  \E q : Served(h, q)
<1> DEFINE q == [request[h] EXCEPT !.stage = "authorized"]
           passes == HasRole(request[h].by, PathRole(request[h].route))
<1>1. request[h].stage = "authenticated" /\ request[h] \in Requests
  BY InProgress DEF AuthorizePath
<1>2. Passed(request[h])
  BY <1>1, RequestRecords DEF RequestsInv
<1>3. passes => Passed(q)
  BY <1>1, <1>2 DEF Passed, HasRole, Requests
<1>4. Gate(h, passes, "authorized") /\ passes \in BOOLEAN
  BY DEF AuthorizePath, HasRole
<1> QED BY <1>1, <1>3, <1>4, GotoServes DEF Stages

LEMMA ReadBodyServes ==
  ASSUME RequestTypes, RequestsInv, NEW h \in Handlers, ReadBody(h)
  PROVE  \E q : Served(h, q)
<1> DEFINE next == IF Gated(request[h].route) THEN "ticket" ELSE "clear"
           q == [request[h] EXCEPT !.actor = Author(request[h]), !.stage = next]
<1>1. request[h].stage = "authorized" /\ request[h] \in Requests /\ up[request[h].on] = "up"
  BY InProgress DEF ReadBody, RequestTypes
<1>2. Passed(request[h])
  BY <1>1, RequestRecords DEF RequestsInv
<1>3. CASE request' = [request EXCEPT ![h] = q] /\ q.actor # None
  <2>1. Author(request[h]) = request[h].by /\ q.actor = q.by
    BY <1>1, <1>3 DEF Author, Requests
  <2>2. q \in Requests /\ up[q.on] = "up"
    BY ZenonT(60), <1>1, <2>1 DEF Requests, Stages
  <2>3. /\ q.by = request[h].by /\ q.held = request[h].held /\ q.good = request[h].good
        /\ q.route = request[h].route /\ q.stage \in {"ticket", "clear"}
        /\ q.stage = "clear" => ~Gated(q.route)
    BY <1>1 DEF Requests
  <2>4. Passed(q)
    BY <1>1, <1>2, <2>1, <2>3 DEF Passed
  <2> QED BY <1>3, <2>2, <2>4 DEF Served
<1>4. CASE request' = [request EXCEPT ![h] = NoRequest]
  BY <1>4 DEF Served
<1> QED BY <1>3, <1>4 DEF ReadBody

LEMMA LookupServes ==
  ASSUME RequestTypes, RequestsInv, NEW h \in Handlers, ValidateTicket(h) \/ VerifyAgent(h)
  PROVE  \E q : Served(h, q)
<1>1. CASE ValidateTicket(h)
  <2> DEFINE q == [request[h] EXCEPT !.stage = "clear"]
  <2>1. request[h].stage = "ticket" /\ request[h] \in Requests
    BY <1>1, InProgress DEF ValidateTicket
  <2>2. Passed(request[h])
    BY <2>1, RequestRecords DEF RequestsInv
  <2>3. TicketValid(request[h].ticket) => Passed(q)
    BY <2>1, <2>2 DEF Passed, TicketValid, Requests
  <2>4. Gate(h, TicketValid(request[h].ticket), "clear") /\ TicketValid(request[h].ticket) \in BOOLEAN
    BY <1>1 DEF ValidateTicket, TicketValid
  <2> QED BY <2>1, <2>3, <2>4, GotoServes DEF Stages
<1>2. CASE VerifyAgent(h)
  <2> DEFINE q == [request[h] EXCEPT !.stage = "verified"]
  <2>1. request[h].stage = "clear" /\ request[h].route.on = "queue" /\ request[h] \in Requests
    BY <1>2, InProgress DEF VerifyAgent, Clear
  <2>2. Passed(request[h])
    BY <2>1, RequestRecords DEF RequestsInv
  <2>3. Enrolled(request[h]) => Passed(q)
    BY <2>1, <2>2 DEF Passed, Enrolled, Requests
  <2>4. Gate(h, Enrolled(request[h]), "verified") /\ Enrolled(request[h]) \in BOOLEAN
    BY <1>2 DEF VerifyAgent, Enrolled
  <2> QED BY <2>1, <2>3, <2>4, GotoServes DEF Stages
<1> QED BY <1>1, <1>2

LEMMA AuthenticateServes ==
  ASSUME FileTypes, NEW h \in Handlers, Client(h)
  PROVE  \E q : Served(h, q)
<1>1. PICK c \in Controllers, route \in scene.routes, p \in Principals, claim \in Impostors \cup {None},
           ticket \in Tickets \cup {None}, token \in Tokens \cup {None} :
             Authenticate(h, c, route, p, claim, ticket, token)
  BY ZenonT(60) DEF Client
<1> DEFINE good == tickets \cup {Digest(agents, p)}
           q == [stage |-> "authenticated", route |-> route, on |-> c, by |-> p, claim |-> claim, actor |-> None,
                 ticket |-> ticket, token |-> token, held |-> principals[p], good |-> good]
<1>2. route \in AllRoutes
  BY DEF AllRoutes, FileTypes
<1>3. principals[p] \in SUBSET RoleNames
  BY ControlAssumption DEF FileTypes
<1>4. good \in SUBSET (Tickets \cup Tokens \cup {None})
  BY DEF FileTypes, Digest
<1>5. q \in Requests
  BY <1>2, <1>3, <1>4 DEF Requests, Stages
<1>6. Passed(q)
  BY DEF Passed
<1>7. request' = [request EXCEPT ![h] = q] /\ up[q.on] = "up"
  BY <1>1 DEF Authenticate
<1> QED BY <1>5, <1>6, <1>7 DEF Served

(* A handler's step is about its own request.                              *)
LEMMA HandlerServes ==
  ASSUME FileTypes, RequestTypes, RequestsInv, NEW h \in Handlers, Client(h) \/ Handler(h)
  PROVE  /\ \E q : Served(h, q)
         /\ UNCHANGED <<files, up, at, tool, log, subject>>
<1>1. UNCHANGED <<files, up, at, tool, log, subject>>
  <2>1. ASSUME NEW r \in Runs, Accept(h, r) \/ CloseRun(h, r) PROVE UNCHANGED <<files, up, at, tool, log, subject>>
    BY <2>1 DEF Accept, CloseRun, StartRun, CloseByHand, state, thread
  <2>2. CASE CloseRefused(h)
    BY <2>2 DEF CloseRefused, GetRun, registryVars, state, thread
  <2>3. CASE Client(h)
    BY <2>3 DEF Client, Authenticate, registryVars, state, thread
  <2>4. CASE AuthorizePath(h) \/ ReadBody(h) \/ ValidateTicket(h) \/ Conflict(h) \/ VerifyAgent(h)
             \/ ClaimJob(h) \/ CompleteJob(h)
    BY <2>4 DEF AuthorizePath, ReadBody, ValidateTicket, Conflict, VerifyAgent, ClaimJob, CompleteJob,
                registryVars, state, thread
  <2> QED BY <2>1, <2>2, <2>3, <2>4 DEF Handler
<1>2. \E q : Served(h, q)
  <2>1. CASE Respond(h)
    BY <2>1 DEF Respond, Served
  <2>2. CASE Client(h)
    BY <2>2, AuthenticateServes
  <2>3. CASE AuthorizePath(h)
    BY <2>3, AuthorizeServes
  <2>4. CASE ReadBody(h)
    BY <2>4, ReadBodyServes
  <2>5. CASE ValidateTicket(h) \/ VerifyAgent(h)
    BY <2>5, LookupServes
  <2>6. CASE Conflict(h) \/ CloseRefused(h) \/ ClaimJob(h) \/ CompleteJob(h)
    BY <2>1, <2>6 DEF Conflict, CloseRefused, ClaimJob, CompleteJob
  <2>7. ASSUME NEW r \in Runs, Accept(h, r) \/ CloseRun(h, r) PROVE \E q : Served(h, q)
    BY <2>1, <2>7 DEF Accept, CloseRun
  <2> QED BY <2>2, <2>3, <2>4, <2>5, <2>6, <2>7 DEF Handler
<1> QED BY <1>1, <1>2

(* A file changes under requests in flight, whose history grows with it.   *)
LEMMA NotesServe ==
  ASSUME FileTypes, RequestTypes, RequestsInv, Notes, FileTypes',
         UNCHANGED up
  PROVE  RequestTypes' /\ RequestsInv'
<1> DEFINE new(q) == [q EXCEPT !.held = @ \cup principals'[q.by],
                               !.good = @ \cup tickets' \cup {Digest(agents', q.by)}]
<1>1. ASSUME NEW h \in Handlers, request[h] # NoRequest
      PROVE  /\ request'[h] = new(request[h]) /\ new(request[h]) \in Requests
             /\ up[request'[h].on] = "up" /\ Passed(request[h])'
  <2>1. request[h] \in Requests /\ Passed(request[h]) /\ up[request[h].on] = "up"
    BY <1>1 DEF RequestTypes, RequestsInv
  <2>2. request'[h] = new(request[h])
    BY ZenonT(60), <1>1 DEF Notes
  <2>3. principals'[request[h].by] \in SUBSET RoleNames
    BY <2>1, ControlAssumption DEF FileTypes, Requests
  <2>4. tickets' \cup {Digest(agents', request[h].by)} \in SUBSET (Tickets \cup Tokens \cup {None})
    BY DEF FileTypes, Digest
  <2>5. new(request[h]) \in Requests
    BY <2>1, <2>3, <2>4 DEF Requests
  <2> DEFINE q == request[h]
             r == request'[h]
  <2>6. /\ r.by = q.by /\ r.route = q.route /\ r.stage = q.stage /\ r.actor = q.actor /\ r.on = q.on
        /\ r.ticket = q.ticket /\ r.token = q.token
        /\ r.held = q.held \cup principals'[q.by]
        /\ r.good = q.good \cup tickets' \cup {Digest(agents', q.by)}
    BY <2>1, <2>2 DEF Requests
  <2>7. Passed(request[h])'
    <3>1. principals'[r.by] \subseteq r.held /\ tickets' \cup {Digest(agents', r.by)} \subseteq r.good
      BY <2>6
    <3>2. r.stage # "authenticated" => r.held \cap ActionRoles[PathRole(r.route)] # {}
      <4>1. q.stage # "authenticated" => q.held \cap ActionRoles[PathRole(q.route)] # {}
        BY <2>1 DEF Passed
      <4> QED BY <2>6, <4>1
    <3>3. /\ r.stage \in {"ticket", "clear", "verified"} => r.actor = r.by
          /\ r.stage \in {"clear", "verified"} /\ Gated(r.route) => r.ticket \in r.good
          /\ r.stage = "verified" => r.route.on = "queue" /\ r.token \in r.good
      <4>1. /\ q.stage \in {"ticket", "clear", "verified"} => q.actor = q.by
            /\ q.stage \in {"clear", "verified"} /\ Gated(q.route) => q.ticket \in q.good
            /\ q.stage = "verified" => q.route.on = "queue" /\ q.token \in q.good
        BY <2>1 DEF Passed
      <4> QED BY <2>6, <4>1
    <3>4. (Digest(agents, request[h].by))' = Digest(agents', r.by)
      BY DEF Digest
    <3> QED BY <3>1, <3>2, <3>3, <3>4 DEF Passed
  <2> QED BY <2>1, <2>2, <2>5, <2>6, <2>7
<1>2. ASSUME NEW h \in Handlers, request[h] = NoRequest PROVE request'[h] = NoRequest
  BY ZenonT(60), <1>2 DEF Notes
<1>3. RequestTypes'
  <2>1. request' \in [Handlers -> Requests \cup {NoRequest}]
    <3>1. \A h \in Handlers : request'[h] \in Requests \cup {NoRequest}
      BY ZenonT(60), <1>1, <1>2
    <3>2. request' = [h \in Handlers |-> request'[h]]
      BY ZenonT(60) DEF Notes
    <3> QED BY <3>1, <3>2
  <2> QED BY ZenonT(60), <1>1, <1>2, <2>1 DEF RequestTypes
<1>4. RequestsInv'
  BY ZenonT(60), <1>1, <1>2 DEF RequestsInv
<1> QED BY <1>3, <1>4

LEMMA EditTypes ==
  ASSUME FileTypes, NEW a \in Admins,
         \/ EditSaves(a)
         \/ \E p \in Agents, token \in Tokens \cup {None} : EditLoads(a, p, token)
  PROVE  FileTypes'
<1>1. CASE EditSaves(a)
  <2>1. edit[a] \in [agent : Agents, content : [Agents -> Tokens \cup {None}]]
    BY <1>1 DEF EditSaves, FileTypes
  <2>2. edit[a].content \in [Agents -> Tokens \cup {None}]
    BY <2>1
  <2> QED BY <1>1, <2>2 DEF EditSaves, FileTypes
<1>2. ASSUME NEW p \in Agents, NEW token \in Tokens \cup {None}, EditLoads(a, p, token)
      PROVE  FileTypes'
  <2>1. [agents EXCEPT ![p] = token] \in [Agents -> Tokens \cup {None}]
    BY DEF FileTypes
  <2>2. edit' \in [Admins -> [agent : Agents, content : [Agents -> Tokens \cup {None}]] \cup {None}]
    BY <1>2, <2>1 DEF EditLoads, FileTypes
  <2> QED BY <1>2, <2>2 DEF EditLoads, FileTypes
<1> QED BY <1>1, <1>2

(* Whoever is served and whatever is edited, a request keeps what it       *)
(* passed.                                                                 *)
LEMMA RequestStep ==
  ASSUME RegistryTypes, FileTypes, RequestTypes, RequestsInv, [Next]_vars
  PROVE  FileTypes' /\ RequestTypes' /\ RequestsInv'
<1>1. CASE UNCHANGED <<files, request>> /\ \A c \in Controllers : up[c] = "up" => up'[c] = "up"
  <2>1. FileTypes'
    BY <1>1 DEF FileTypes, files
  <2>2. \A h \in Handlers : request[h] # NoRequest => request[h].on \in Controllers
    BY DEF RequestTypes, Requests
  <2>3. RequestTypes'
    BY <1>1, <2>2 DEF RequestTypes
  <2>4. \A q : Passed(q) => Passed(q)'
    BY <1>1 DEF Passed, files
  <2> QED BY <1>1, <2>1, <2>3, <2>4 DEF RequestsInv
<1>2. ASSUME NEW h \in Handlers, Client(h) \/ Handler(h) PROVE FileTypes' /\ RequestTypes' /\ RequestsInv'
  <2>1. PICK q : Served(h, q)
    BY <1>2, HandlerServes
  <2>2. UNCHANGED <<files, up>>
    BY <1>2, HandlerServes
  <2>3. \A r : Passed(r) => Passed(r)'
    BY <2>2 DEF Passed, files
  <2>4. FileTypes'
    BY <2>2 DEF FileTypes, files
  <2>5. RequestTypes'
    BY <2>1, <2>2 DEF Served, RequestTypes
  <2>6. RequestsInv'
    BY <2>1, <2>3 DEF Served, RequestTypes, RequestsInv
  <2> QED BY <2>4, <2>5, <2>6
<1>3. ASSUME NEW r \in Runs, Thread(r) \/ ToolActs(r) \/ ToolKilled(r) PROVE UNCHANGED <<files, request, up>>
  <2>1. CASE ToolActs(r) \/ ToolKilled(r) \/ StartTool(r) \/ ToolReturns(r)
    BY <2>1 DEF ToolActs, ToolKilled, StartTool, ToolReturns, registryVars
  <2>2. CASE Emit(r) \/ EmitPosts(r) \/ Alarm(r) \/ AlarmPosts(r)
    BY <2>2 DEF Emit, EmitPosts, Alarm, AlarmPosts, Append, Post, registryVars
  <2>3. CASE FunctionEnds(r) \/ Settles(r)
    BY <2>3 DEF FunctionEnds, Settles, WorkerEnds, Settle, SettleFails
  <2>4. CASE (ThreadFails(r) \/ WorkerBegins(r)) /\ Unmoved
    BY <2>4 DEF ThreadFails, WorkerBegins, Unmoved
  <2> QED BY <1>3, <2>1, <2>2, <2>3, <2>4 DEF Thread
<1>4. ASSUME NEW c \in Controllers, ControllerStarts(c) /\ Unmoved
      PROVE  FileTypes' /\ RequestTypes' /\ RequestsInv'
  <2>1. \A d \in Controllers : up[d] = "up" => up'[d] = "up"
    BY <1>4 DEF ControllerStarts, RegistryTypes, RegistryTypeOK
  <2> QED BY <1>1, <1>4, <2>1 DEF Unmoved
<1>5. ASSUME NEW c \in Controllers, ServerDies(c) PROVE FileTypes' /\ RequestTypes' /\ RequestsInv'
  <2>1. FileTypes' /\ \A q : Passed(q) => Passed(q)'
    BY <1>5 DEF ServerDies, FileTypes, files, Passed
  <2>2. ASSUME NEW h \in Handlers
        PROVE  \/ request'[h] = NoRequest
               \/ request'[h] = request[h] /\ request[h].on # c
    BY <1>5 DEF ServerDies
  <2>3. \A d \in Controllers : d # c => up'[d] = up[d]
    BY <1>5 DEF ServerDies, ControllerDies
  <2>4. request' \in [Handlers -> Requests \cup {NoRequest}]
    BY <1>5 DEF ServerDies, RequestTypes
  <2>5. \A h \in Handlers : request[h] # NoRequest => request[h].on \in Controllers
    BY DEF RequestTypes, Requests
  <2> QED BY <2>1, <2>2, <2>3, <2>4, <2>5 DEF RequestTypes, RequestsInv
<1>6. CASE Administrator
  <2>1. ASSUME NEW roles \in RoleMaps, RolesChange(roles) PROVE FileTypes' /\ Notes /\ UNCHANGED up
    BY <2>1 DEF RolesChange, FileTypes, registryVars
  <2>2. ASSUME NEW approved \in SUBSET Tickets, TicketsChange(approved) PROVE FileTypes' /\ Notes /\ UNCHANGED up
    BY <2>2 DEF TicketsChange, FileTypes, registryVars
  <2>3. ASSUME NEW a \in Admins, EditSaves(a) PROVE FileTypes' /\ Notes /\ UNCHANGED up
    BY <2>3, EditTypes DEF EditSaves, registryVars
  <2>4. ASSUME NEW a \in Admins, NEW p \in Agents, NEW token \in Tokens \cup {None}, EditLoads(a, p, token)
        PROVE  FileTypes' /\ RequestTypes' /\ RequestsInv'
    <3>1. FileTypes'
      BY <2>4, EditTypes
    <3>2. UNCHANGED <<request, up, principals, tickets, agents>>
      BY <2>4 DEF EditLoads, registryVars
    <3>3. \A q : Passed(q) => Passed(q)'
      BY <3>2 DEF Passed
    <3> QED BY <3>1, <3>2, <3>3 DEF RequestTypes, RequestsInv
  <2> QED BY <1>6, <2>1, <2>2, <2>3, <2>4, NotesServe DEF Administrator
<1>7. CASE UNCHANGED vars
  BY <1>1, <1>7 DEF vars, registryVars
<1> QED BY <1>1, <1>2, <1>3, <1>4, <1>5, <1>6, <1>7 DEF Next

(* Deeds *)

LEMMA NoGrantType == NoGrant \in Grants /\ NoGrant.run = None /\ NoGrant.by = None /\ NoGrant.actor = None
BY DEF NoGrant, Grants

(* A seal stays, or is put where nobody's was.                             *)
SealMoves(old, new, g, its) ==
  \/ new = old
  \/ old.run = None /\ new = NoGrant
  \/ old.run = None /\ new = g /\ its

(* What a tool leaves keeps what others did: past the authorization the    *)
(* operator stays, and a plan once dispatched stays so.                    *)
Keeps(on, old, new) ==
  /\ old.state \in Late => new.state \in Late /\ new.operator = old.operator
  /\ on # "recovery" /\ old.state \in Dispatched => new.state \in Dispatched
  /\ old.state = "completed" => new.state = "completed"

LEMMA StateMoves ==
  ASSUME NEW on, NEW old \in SubjectRecords, Lawful(old), old.state \in Late,
         NEW st \in Late, NEW new, new = [old EXCEPT !.state = st],
         on # "recovery" /\ old.state \in Dispatched => st \in Dispatched,
         old.state = "completed" => st = "completed"
  PROVE  /\ new \in SubjectRecords /\ Lawful(new) /\ Keeps(on, old, new) /\ new.state = st
         /\ new.requester = old.requester /\ new.approver = old.approver /\ new.operator = old.operator
<1>1. new = [state |-> st, requester |-> old.requester, approver |-> old.approver, operator |-> old.operator]
  BY DEF SubjectRecords
<1>2. st \in SubjectStates /\ st \notin {"none", "awaiting_approval", "approved"}
  BY DEF Late, Early
<1>3. new \in SubjectRecords
  BY <1>1, <1>2 DEF SubjectRecords
<1>4. Lawful(new)
  BY <1>1, <1>2 DEF Lawful, SealsOf
<1> QED BY <1>1, <1>3, <1>4 DEF Keeps

LEMMA StateNames ==
  /\ {"authorized", "completed"} \cup Dispatched \cup RecoveryFailed \subseteq Late
  /\ Late \subseteq SubjectStates
  /\ ({"completed"} \cup RecoveryFailed) \cap Dispatched = {} /\ "completed" \notin RecoveryFailed
BY SMTT(60) DEF Late, Early, SubjectStates, RecoveryFailed, Dispatched

(* What a tool leaves is lawful, seals its author in the place of its deed *)
(* alone, and shows the deed if the tool returns.                          *)
LEMMA MovesSeal ==
  ASSUME subject \in [Subjects -> SubjectRecords], NEW r \in Runs, asked[r].on \in Subjects,
         Lawful(subject[asked[r].on]), grant[r] \in Grants, grant[r].run = r,
         grant[r].actor = grant[r].by, grant[r].by # None, NEW m \in Moves(r), DeedInv(r)
  PROVE  LET old == subject[asked[r].on]
             verb == asked[r].verb
         IN /\ m.left \in SubjectRecords /\ Lawful(m.left) /\ Keeps(asked[r].on, old, m.left)
            /\ m.tool \in {"going", "done", "idle", "failed"}
            /\ SealMoves(old.requester, m.left.requester, grant[r], verb = "create")
            /\ SealMoves(old.approver, m.left.approver, grant[r], verb = "approve")
            /\ SealMoves(old.operator, m.left.operator, grant[r], verb = "authorize")
            /\ m.tool \in {"done", "going"} => Shows(r, m.left)
            /\ m.tool = "idle" => Shows(r, m.left) \/ verb = "execute-remaining"
<1> DEFINE on == asked[r].on
           old == subject[on]
           verb == asked[r].verb
           g == grant[r]
           Goal == /\ m.left \in SubjectRecords /\ Lawful(m.left) /\ Keeps(on, old, m.left)
                   /\ m.tool \in {"going", "done", "idle", "failed"}
                   /\ SealMoves(old.requester, m.left.requester, g, verb = "create")
                   /\ SealMoves(old.approver, m.left.approver, g, verb = "approve")
                   /\ SealMoves(old.operator, m.left.operator, g, verb = "authorize")
                   /\ m.tool \in {"done", "going"} => Shows(r, m.left)
                   /\ m.tool = "idle" => Shows(r, m.left) \/ verb = "execute-remaining"
<1>1. old \in SubjectRecords /\ Lawful(old)
  OBVIOUS
<1>2. CASE verb = "create"
  <2>1. /\ old.state = "none"
        /\ m = [left |-> [NoSubject EXCEPT !.state = "awaiting_approval", !.requester = g], tool |-> "done"]
    BY SMTT(60), <1>2 DEF Moves, When, Executions
  <2>2. old = NoSubject
    BY <1>1, <2>1 DEF Lawful
  <2>3. m.left = [state |-> "awaiting_approval", requester |-> g, approver |-> NoGrant, operator |-> NoGrant]
    BY <2>1 DEF NoSubject
  <2>4. m.left \in SubjectRecords /\ Lawful(m.left)
    BY <2>3, NoGrantType DEF SubjectRecords, SubjectStates, Lawful, SealsOf
  <2>5. Keeps(on, old, m.left)
    BY <2>1 DEF Keeps, Late, Early, Dispatched
  <2>6. Shows(r, m.left)
    BY SMTT(60), <1>2, <2>3 DEF Shows, Executions
  <2> QED BY <1>2, <2>1, <2>2, <2>3, <2>4, <2>5, <2>6, NoGrantType DEF SealMoves, NoSubject
<1>3. CASE verb = "approve"
  <2>1. /\ old.state = "awaiting_approval" /\ Distinct(old, g)
        /\ m = [left |-> [old EXCEPT !.state = "approved", !.approver = g], tool |-> "done"]
    BY <1>3 DEF Moves, When, Executions
  <2>2. m.left = [state |-> "approved", requester |-> old.requester, approver |-> g, operator |-> old.operator]
    BY <1>1, <2>1 DEF SubjectRecords
  <2>3. old.approver = NoGrant /\ old.operator = NoGrant /\ old.requester \in Grants
        /\ old.requester.actor = old.requester.by
    BY <1>1, <2>1 DEF Lawful, SubjectRecords, SealsOf
  <2>4. m.left \in SubjectRecords
    BY SMTT(60), <2>2, <2>3, NoGrantType DEF SubjectRecords, SubjectStates
  <2>5. Lawful(m.left)
    BY ZenonT(60), <2>1, <2>2, <2>3, NoGrantType DEF Lawful, SealsOf, Distinct
  <2>6. Keeps(on, old, m.left)
    BY <2>1 DEF Keeps, Late, Early, Dispatched
  <2>7. Shows(r, m.left)
    BY <1>3, <2>2 DEF Shows, Executions
  <2> QED BY <1>3, <2>1, <2>2, <2>3, <2>4, <2>5, <2>6, <2>7, NoGrantType DEF SealMoves
<1>4. CASE verb = "authorize"
  <2>1. /\ old.state = "approved" /\ Distinct(old, g)
        /\ m = [left |-> [old EXCEPT !.state = "authorized", !.operator = g], tool |-> "done"]
    BY <1>4 DEF Moves, When, Executions
  <2>2. m.left = [state |-> "authorized", requester |-> old.requester, approver |-> old.approver, operator |-> g]
    BY <1>1, <2>1 DEF SubjectRecords
  <2>3. /\ old.operator = NoGrant /\ old.requester \in Grants /\ old.approver \in Grants
        /\ old.requester.actor = old.requester.by /\ old.approver.actor = old.approver.by
        /\ old.approver.by # None => old.approver.by # old.requester.by
    BY <1>1, <2>1 DEF Lawful, SubjectRecords, SealsOf
  <2>4. m.left \in SubjectRecords
    BY SMTT(60), <2>2, <2>3 DEF SubjectRecords, SubjectStates
  <2>5. Lawful(m.left)
    BY ZenonT(60), <2>1, <2>2, <2>3 DEF Lawful, SealsOf, Distinct
  <2>6. Keeps(on, old, m.left)
    BY <2>1 DEF Keeps, Late, Early, Dispatched
  <2>7. Shows(r, m.left)
    BY <1>4, <2>2 DEF Shows, Executions
  <2> QED BY <1>4, <2>1, <2>2, <2>3, <2>4, <2>5, <2>6, <2>7, NoGrantType DEF SealMoves
<1>5. CASE verb = "analyze"
  <2>1. m = [left |-> old, tool |-> "done"]
    BY <1>5 DEF Moves, When, Executions
  <2>2. Shows(r, m.left)
    BY <1>5 DEF Shows, Executions
  <2> QED BY <1>1, <1>5, <2>1, <2>2 DEF SealMoves, Keeps
<1>6. CASE verb \in {"dispatch", "retry-task"}
  <2>1. /\ old.state \in {"authorized", "paused"}
        /\ m = [left |-> [old EXCEPT !.state = "running"], tool |-> "done"]
        /\ verb = "dispatch" => g.actor = old.operator.actor
    BY <1>6 DEF Moves, When, Ends, Executions
  <2>2. "running" \in Late /\ "running" \in Dispatched /\ old.state \in Late /\ old.state # "completed"
    BY <2>1, StateNames DEF Dispatched
  <2>3. /\ m.left \in SubjectRecords /\ Lawful(m.left) /\ Keeps(on, old, m.left) /\ m.left.state = "running"
        /\ m.left.requester = old.requester /\ m.left.approver = old.approver /\ m.left.operator = old.operator
    BY SMTT(60), <1>1, <2>1, <2>2, StateMoves
  <2>4. Shows(r, m.left)
    BY SMTT(60), <1>6, <2>1, <2>2, <2>3 DEF Shows, Executions
  <2> QED BY SMTT(60), <1>6, <2>1, <2>3, <2>4 DEF SealMoves
<1>7. CASE verb \in Executions /\ on # "recovery"
  <2>1. m \in Rounds(r, old)
    BY <1>7 DEF Moves, When, Executions
  <2>2. CASE m.left = old /\ m.tool \in {"done", "idle"} /\ RunsOut(r, old) /\ (m.tool = "done" => tool[r] = "going")
    <3>1. m.tool = "done" => Shows(r, old)
      BY <2>2 DEF DeedInv, DeedDone
    <3>2. m.tool = "idle" => Shows(r, old) \/ verb = "execute-remaining"
      BY <1>7, <2>2 DEF RunsOut, Shows, Executions, Dispatched
    <3> QED BY <1>1, <1>7, <2>2, <3>1, <3>2 DEF SealMoves, Keeps, Executions
  <2>3. ASSUME NEW st \in Dispatched, old.state = "running", m.left = [old EXCEPT !.state = st],
               m.tool \in {"done", "going", "failed"}
        PROVE  Goal
    <3>1. st \in Late /\ old.state \in Late /\ old.state # "completed"
      BY <2>3, StateNames DEF Dispatched
    <3>2. /\ m.left \in SubjectRecords /\ Lawful(m.left) /\ Keeps(on, old, m.left) /\ m.left.state = st
          /\ m.left.requester = old.requester /\ m.left.approver = old.approver /\ m.left.operator = old.operator
      BY SMTT(60), <1>1, <2>3, <3>1, StateMoves
    <3>3. Shows(r, m.left)
      BY <1>7, <3>2 DEF Shows, Executions
    <3> QED BY <1>7, <2>3, <3>2, <3>3 DEF SealMoves
  <2>4. \/ /\ m.left = [old EXCEPT !.state = old.state] /\ m.tool \in {"done", "idle"} /\ RunsOut(r, old)
           /\ m.tool = "done" => tool[r] = "going"
        \/ /\ old.state = "running" /\ m.tool \in {"done", "going", "failed"}
           /\ \E st \in Dispatched : m.left = [old EXCEPT !.state = st]
    <3>1. CASE m \in When(RunsOut(r, old), Ends(old, IF tool[r] = "going" THEN "done" ELSE "idle", {old.state}))
      BY <3>1 DEF When, Ends
    <3>2. CASE m \in When(old.state = "running",
                          Ends(old, IF verb = "execute" THEN "done" ELSE "going", {"running", "succeeded"})
                            \cup Ends(old, "failed", {"paused"}))
      BY <3>2 DEF When, Ends, Dispatched
    <3> QED BY <2>1, <3>1, <3>2 DEF Rounds
  <2>5. [old EXCEPT !.state = old.state] = old
    BY SMTT(60), <1>1 DEF SubjectRecords
  <2> QED BY <2>2, <2>3, <2>4, <2>5
<1>8. CASE verb \in {"execute", "reconcile"} /\ on = "recovery"
  <2>1. \/ m = [left |-> old, tool |-> "done"] /\ old.state = "completed" /\ verb = "execute"
        \/ /\ old.state \in {"authorized", "running"} /\ m.tool \in {"done", "failed"}
           /\ \E st \in {"running", "completed"} \cup RecoveryFailed :
                /\ m.left = [old EXCEPT !.state = st]
                /\ m.tool = "done" /\ verb = "execute" => st = "completed"
    BY <1>8 DEF Moves, When, Ends, Executions
  <2>2. CASE m = [left |-> old, tool |-> "done"] /\ old.state = "completed" /\ verb = "execute"
    <3>1. Shows(r, m.left)
      BY <1>8, <2>2 DEF Shows, Executions
    <3> QED BY <1>1, <1>8, <2>2, <3>1 DEF SealMoves, Keeps
  <2>3. ASSUME NEW st \in {"running", "completed"} \cup RecoveryFailed, old.state \in {"authorized", "running"},
               m.left = [old EXCEPT !.state = st], m.tool \in {"done", "failed"},
               m.tool = "done" /\ verb = "execute" => st = "completed"
        PROVE  Goal
    <3>1. st \in Late /\ old.state \in Late /\ old.state # "completed"
      BY <2>3, StateNames DEF Dispatched
    <3>2. /\ m.left \in SubjectRecords /\ Lawful(m.left) /\ Keeps(on, old, m.left) /\ m.left.state = st
          /\ m.left.requester = old.requester /\ m.left.approver = old.approver /\ m.left.operator = old.operator
      BY <1>1, <1>8, <2>3, <3>1, StateMoves
    <3>3. m.tool = "done" => Shows(r, m.left)
      BY <1>8, <2>3, <3>2 DEF Shows, Executions
    <3> QED BY <1>8, <2>3, <3>2, <3>3 DEF SealMoves
  <2> QED BY <2>1, <2>2, <2>3
<1>9. ASSUME verb \notin {"create", "approve", "authorize", "analyze", "dispatch", "retry-task"},
             ~(verb \in Executions /\ on # "recovery"), ~(verb \in {"execute", "reconcile"} /\ on = "recovery")
      PROVE  FALSE
  <2>1. verb \in Executions => on = "recovery" /\ verb # "execute"
    BY ZenonT(60), <1>9 DEF Executions
  <2>2. Moves(r) = {}
    BY ZenonT(60), <1>9, <2>1 DEF Moves, When
  <2> QED BY <2>2
<1> HIDE DEF Goal
<1> QED BY <1>2, <1>3, <1>4, <1>5, <1>6, <1>7, <1>8, <1>9 DEF Goal

LEMMA CoreFrame == Core /\ UNCHANGED CoreVars => Core'
<1> SUFFICES ASSUME Core, UNCHANGED CoreVars PROVE Core'
  OBVIOUS
<1> USE DEF CoreVars, Core, registryVars, thread, origin, log
<1>1. ThreadTypes' /\ (subject \in [Subjects -> SubjectRecords])'
  BY DEF ThreadTypes
<1>2. \A r \in Runs : /\ EventOf(r)' = EventOf(r) /\ Returned(r)' = Returned(r)
                      /\ Owner(r)' = Owner(r) /\ Running(r)' = Running(r)
  BY DEF EventOf, Returned, Owner, Running
<1>3. GrantsInv' /\ KeyExclusive'
  BY <1>2 DEF GrantsInv, GrantInv, KeyExclusive
<1>4. SubjectsInv'
  BY DEF SubjectsInv, SubjectInv
<1>5. PlacesInv'
  BY SMTT(60), <1>2 DEF PlacesInv, PlaceInv
<1>6. DeedsInv'
  BY DEF DeedsInv, DeedInv, DeedDone, Shows, FoundNothing
<1>7. LogInv'
  <2>1. \A e \in audit : Told(e)'
    BY ZenonT(60) DEF LogInv, Told, DeedDone, Shows, FoundNothing
  <2> QED BY SMTT(60), <1>2, <2>1 DEF LogInv, NotesInv, Note
<1>8. RunsInv'
  BY <1>2 DEF RunsInv, RunInv, Alarmed
<1> QED BY <1>1, <1>3, <1>4, <1>5, <1>6, <1>7, <1>8

(* The tools and the log *)

(* What has been told stays true while its run is where it was.            *)
LEMMA ToldStays ==
  ASSUME NEW e, Told(e), asked'[e.run] = asked[e.run], tool'[e.run] = tool[e.run],
         at'[e.run] \notin {"idle", "waiting"}, disk'[e.run] # NoRecord,
         disk[e.run].status = "failed" => disk'[e.run].status = "failed",
         DeedDone(e.run) => DeedDone(e.run)'
  PROVE  Told(e)'
BY DEF Told, FoundNothing

(* A step of a thread or a tool that leaves run files and seals alone.     *)
LEMMA ThreadCore ==
  ASSUME Core, UNCHANGED <<registryVars, subject, origin>>, ThreadTypes', PlacesInv', NotesInv',
         \A e \in audit' : e \in audit \/ Told(e),
         \A r \in Runs : /\ tool'[r] = tool[r] \/ (tool'[r] \in {"running", "failed"} /\ at[r] \in {"idle", "waiting"})
                         /\ at'[r] \in {"settled", "alarm", "over"} => at[r] \in {"settled", "alarm", "over"}
                         /\ at'[r] \in {"idle", "waiting"} => at[r] \in {"idle", "waiting"}
  PROVE  Core'
<1> USE DEF Core, registryVars, origin
<1>1. \A r \in Runs : Owner(r)' = Owner(r) /\ Running(r)' = Running(r)
  BY DEF Owner, Running
<1>2. GrantsInv' /\ KeyExclusive' /\ SubjectsInv'
  BY <1>1 DEF GrantsInv, GrantInv, KeyExclusive, SubjectsInv, SubjectInv
<1>3. \A r \in Runs : DeedDone(r)' = DeedDone(r)
  BY DEF DeedDone, Shows
<1>4. DeedsInv'
  <2>1. SUFFICES ASSUME NEW r \in Runs PROVE DeedInv(r)'
    BY DEF DeedsInv
  <2>2. DeedInv(r) /\ DeedDone(r)' = DeedDone(r)
    BY <1>3 DEF DeedsInv
  <2>3. tool'[r] = tool[r] \/ tool'[r] \in {"running", "failed"}
    OBVIOUS
  <2> QED BY <2>2, <2>3 DEF DeedInv, FoundNothing
<1>5. LogInv'
  <2>1. SUFFICES ASSUME NEW e \in audit' PROVE Told(e)'
    BY DEF LogInv
  <2>2. Told(e)
    BY DEF LogInv
  <2>3. e.run \in Runs /\ disk[e.run] # NoRecord /\ at[e.run] \notin {"idle", "waiting"}
    BY <2>2 DEF Told
  <2>4. at'[e.run] \notin {"idle", "waiting"} /\ tool'[e.run] = tool[e.run]
    BY <2>3
  <2> QED BY <1>3, <2>2, <2>3, <2>4, ToldStays
<1>6. RunsInv'
  <2>1. SUFFICES ASSUME NEW r \in Runs PROVE RunInv(r)'
    BY DEF RunsInv
  <2>2. RunInv(r) /\ PlaceInv(r) /\ Alarmed(r)' = Alarmed(r)
    BY <1>1 DEF RunsInv, PlacesInv, Alarmed
  <2>3. Returned(r) /\ at[r] # "waiting" => at[r] \notin {"idle", "waiting"}
    BY <2>2 DEF PlaceInv, Returned
  <2>4. disk[r].status = "succeeded" => Returned(r)' /\ at'[r] # "waiting"
    BY <2>2, <2>3 DEF RunInv, Returned
  <2>5. worker[r] = "ended" /\ cache[Owner(r)][r].status = "succeeded" => Returned(r)'
    BY <2>2 DEF RunInv, PlaceInv, Returned
  <2> QED BY <1>1, <2>2, <2>4, <2>5 DEF RunInv
<1> QED BY <1>2, <1>4, <1>5, <1>6

LEMMA StartToolCore == ASSUME Core, NEW r \in Runs, StartTool(r) PROVE Core'
<1>1. ThreadTypes'
  BY DEF StartTool, Core, ThreadTypes, ThreadPlaces, origin
<1>2. \A q \in Runs : q # r => at'[q] = at[q] /\ tool'[q] = tool[q]
  BY DEF StartTool
<1>3. /\ worker[r] = "running" /\ at[r] = "idle" /\ at'[r] = "waiting" /\ tool'[r] = "running" /\ tool[r] = "none"
      /\ UNCHANGED <<registryVars, subject, origin, log>>
  BY DEF StartTool, Core, ThreadTypes, PlacesInv, PlaceInv, state
<1>4. \A q \in Runs : q # r => EventOf(q)' = EventOf(q)
  BY <1>2, <1>3 DEF EventOf, Returned, origin
<1>5. PlacesInv'
  BY <1>2, <1>3, <1>4 DEF Core, PlacesInv, PlaceInv, registryVars
<1>6. NotesInv' /\ audit' = audit
  BY <1>2, <1>3, <1>4 DEF Core, LogInv, NotesInv, Note, origin, log
<1> QED BY <1>1, <1>2, <1>3, <1>5, <1>6, ThreadCore

LEMMA ToolKilledCore == ASSUME Core, NEW r \in Runs, ToolKilled(r) PROVE Core'
<1>1. ThreadTypes'
  BY DEF ToolKilled, Core, ThreadTypes, origin
<1>2. \A q \in Runs : at'[q] = at[q] /\ (q # r => tool'[q] = tool[q])
  BY DEF ToolKilled
<1>3. /\ at[r] = "waiting" /\ tool'[r] = "failed"
      /\ UNCHANGED <<registryVars, subject, origin, log>>
  BY DEF ToolKilled, Core, ThreadTypes, state
<1>4. \A q \in Runs : q # r => EventOf(q)' = EventOf(q)
  BY <1>2, <1>3 DEF EventOf, Returned, origin
<1>5. PlacesInv'
  BY <1>2, <1>3, <1>4 DEF Core, PlacesInv, PlaceInv, registryVars
<1>6. NotesInv' /\ audit' = audit
  BY <1>2, <1>3, <1>4 DEF Core, LogInv, NotesInv, Note, origin, log
<1> QED BY <1>1, <1>2, <1>3, <1>5, <1>6, ThreadCore

LEMMA ToolReturnsCore == ASSUME Core, NEW r \in Runs, ToolReturns(r) PROVE Core'
<1>1. ThreadTypes'
  BY DEF ToolReturns, Core, ThreadTypes, ThreadPlaces, origin
<1>2. \A q \in Runs : q # r => at'[q] = at[q]
  BY DEF ToolReturns
<1>3. /\ at[r] = "waiting" /\ worker[r] = "running" /\ tool[r] \in {"done", "idle", "failed"}
      /\ at'[r] = IF EventOf(r) = None THEN "end" ELSE "emit"
      /\ UNCHANGED <<registryVars, subject, origin, tool, log>>
  BY DEF ToolReturns, Core, ThreadTypes, state
<1>4. \A q \in Runs : EventOf(q)' = EventOf(q)
  BY <1>3 DEF EventOf, Returned, origin
<1>5. PlacesInv'
  BY <1>2, <1>3, <1>4 DEF Core, PlacesInv, PlaceInv, registryVars
<1>6. NotesInv' /\ audit' = audit
  BY <1>2, <1>3, <1>4 DEF Core, LogInv, NotesInv, Note, origin, log
<1> QED BY <1>1, <1>2, <1>3, <1>5, <1>6, ThreadCore

(* What a thread is about to tell is true.                                 *)
LEMMA EventIsTrue ==
  ASSUME Core, NEW r \in Runs, at[r] = "emit"
  PROVE  Told(Note(r, EventOf(r)))
<1> DEFINE e == Note(r, EventOf(r))
<1>1. disk[r] # NoRecord /\ tool[r] \in {"done", "idle", "failed"} /\ EventOf(r) # None
  BY DEF Core, PlacesInv, PlaceInv, ThreadTypes
<1>2. e.run = r /\ e.on = asked[r].on /\ e.event = EventOf(r)
  BY DEF Note
<1>3. CASE Returned(r)
  <2>1. EventOf(r) = Event(asked[r], TRUE)
    BY <1>3 DEF EventOf
  <2>2. EventOf(r) \notin {"plan.execute.failed", "run.failed"}
    BY <1>1, <2>1 DEF Event
  <2>3. DeedDone(r) \/ FoundNothing(r)
    BY <1>3 DEF Core, DeedsInv, DeedInv, Returned
  <2> HIDE DEF e
  <2>4. Told(e)
    BY <1>1, <1>2, <2>1, <2>2, <2>3 DEF Told
  <2> QED BY <2>4 DEF e
<1>4. CASE ~Returned(r)
  <2>1. EventOf(r) = Event(asked[r], FALSE)
    <3>1. Returned(r) = FALSE
      BY <1>4 DEF Returned
    <3> QED BY <3>1 DEF EventOf
  <2>2. EventOf(r) = "plan.execute.failed"
    BY <1>1, <2>1 DEF Event, Executions
  <2>3. tool[r] = "failed"
    BY <1>1, <1>4 DEF Returned
  <2> HIDE DEF e
  <2>4. Told(e)
    BY <1>1, <1>2, <2>2, <2>3 DEF Told
  <2> QED BY <2>4 DEF e
<1> QED BY <1>3, <1>4

(* Telling moves the thread and adds to the log.                           *)
LEMMA AppendCore ==
  ASSUME Core, NEW r \in Runs, NEW name, NEW posting, NEW after, Append(r, name, posting, after),
         Told(Note(r, name)),
         \/ /\ at[r] = "emit" /\ posting = "post" /\ after = "end" /\ worker[r] = "running"
            /\ name = EventOf(r)
         \/ at[r] = "settled" /\ posting = "alarm" /\ after = "over" /\ name = "run.failed"
  PROVE  Core'
<1>0. UNCHANGED <<registryVars, subject, origin, tool, delivered, dead>>
  BY DEF Append, state
<1>1. at' \in [Runs -> ThreadPlaces] /\ \A q \in Runs : q # r => at'[q] = at[q]
  BY DEF Append, Core, ThreadTypes, ThreadPlaces
<1>2. \A q \in Runs : EventOf(q)' = EventOf(q)
  BY <1>0 DEF EventOf, Returned, origin
<1>3. /\ at'[r] \in {posting, after} /\ audit \subseteq audit' /\ audit' \subseteq audit \cup {Note(r, name)}
      /\ at'[r] = posting => Note(r, name) \in audit'
  BY DEF Append, Core, ThreadTypes
<1>4. ThreadTypes'
  BY <1>0, <1>1 DEF Core, ThreadTypes, origin
<1>5. PlaceInv(r)'
  BY <1>0, <1>2, <1>3 DEF Core, PlacesInv, PlaceInv, registryVars
<1>6. PlacesInv'
  BY <1>0, <1>1, <1>2, <1>5 DEF Core, PlacesInv, PlaceInv, registryVars
<1>7. \A n : \A q \in Runs : Note(q, n)' = Note(q, n)
  BY <1>0 DEF Note, origin
<1>8. NotesInv'
  <2>1. ASSUME NEW q \in Runs, q # r
        PROVE  /\ at'[q] = "post" => Note(q, EventOf(q)) \in audit
               /\ at'[q] = "alarm" => Note(q, "run.failed") \in audit
    BY <1>1, <2>1 DEF Core, LogInv, NotesInv
  <2>2. /\ at'[r] = "post" => Note(r, EventOf(r)) \in audit'
        /\ at'[r] = "alarm" => Note(r, "run.failed") \in audit'
    BY <1>3
  <2> QED BY <1>0, <1>2, <1>3, <1>7, <2>1, <2>2 DEF Core, LogInv, NotesInv
<1>9. \A e \in audit' : e \in audit \/ Told(e)
  BY <1>3
<1> QED BY <1>0, <1>1, <1>3, <1>4, <1>6, <1>8, <1>9, ThreadCore

LEMMA PostCore ==
  ASSUME Core, NEW r \in Runs, NEW name, NEW after, Post(r, name, after), Note(r, name) \in audit,
         \/ at[r] = "post" /\ after = "end" /\ worker[r] = "running"
         \/ at[r] = "alarm" /\ after = "over"
  PROVE  Core'
<1>0. UNCHANGED <<registryVars, subject, origin, tool, audit>>
  BY DEF Post, state
<1>1. /\ at' \in [Runs -> ThreadPlaces] /\ at'[r] = after /\ \A q \in Runs : q # r => at'[q] = at[q]
      /\ delivered' \cup dead' \subseteq audit'
  BY <1>0 DEF Post, Core, ThreadTypes, ThreadPlaces, LogInv, NotesInv
<1>2. \A q \in Runs : EventOf(q)' = EventOf(q)
  BY <1>0 DEF EventOf, Returned, origin
<1>4. ThreadTypes'
  BY <1>0, <1>1 DEF Core, ThreadTypes, origin
<1>5. PlaceInv(r)'
  BY <1>0, <1>1, <1>2 DEF Core, PlacesInv, PlaceInv, registryVars
<1>6. PlacesInv'
  BY <1>0, <1>1, <1>2, <1>5 DEF Core, PlacesInv, PlaceInv, registryVars
<1>7. \A n : \A q \in Runs : Note(q, n)' = Note(q, n)
  BY <1>0 DEF Note, origin
<1>8. NotesInv'
  BY <1>0, <1>1, <1>2, <1>7 DEF Core, LogInv, NotesInv
<1> QED BY <1>0, <1>1, <1>4, <1>6, <1>8, ThreadCore

LEMMA TellingCore ==
  ASSUME Core, NEW r \in Runs, Emit(r) \/ EmitPosts(r) \/ Alarm(r) \/ AlarmPosts(r)
  PROVE  Core'
<1>1. at[r] # "idle" => disk[r] # NoRecord
  BY DEF Core, PlacesInv, PlaceInv
<1>2. CASE Emit(r)
  BY <1>2, EventIsTrue, AppendCore DEF Emit
<1>3. CASE EmitPosts(r)
  BY <1>3, PostCore DEF EmitPosts, Core, LogInv, NotesInv
<1>4. CASE Alarm(r)
  <2>1. disk[r].status = "failed" /\ disk[r] # NoRecord /\ at[r] = "settled"
    BY <1>1, <1>4 DEF Alarm, Core, RunsInv, RunInv
  <2>2. Told(Note(r, "run.failed"))
    BY <2>1 DEF Told, Note
  <2> QED BY <1>4, <2>1, <2>2, AppendCore DEF Alarm
<1>5. CASE AlarmPosts(r)
  BY <1>5, PostCore DEF AlarmPosts, Core, LogInv, NotesInv
<1> QED BY <1>2, <1>3, <1>4, <1>5

LEMMA SealStays ==
  ASSUME NEW old, NEW new, NEW g, NEW its, SealMoves(old, new, g, its), old.run # None
  PROVE  new = old
BY DEF SealMoves

(* What a subject shows of a run stays when the tool of another one acts.  *)
LEMMA ShowsStays ==
  ASSUME NEW q \in Runs, NEW on, NEW old, NEW new, asked[q].on = on, Shows(q, old), Keeps(on, old, new),
         old.requester.run # None => new.requester = old.requester,
         old.approver.run # None => new.approver = old.approver,
         old.operator.run # None => new.operator = old.operator
  PROVE  Shows(q, new)
<1>1. q # None
  BY RegistryAssumption
<1> QED BY <1>1 DEF Shows, Keeps

(* A tool that acts seals its author and shows its deed; what others       *)
(* sealed and did stays.                                                   *)
LEMMA ToolActsCore == ASSUME Core, NEW r \in Runs, ToolActs(r) PROVE Core'
<1>0. UNCHANGED <<registryVars, origin, at, log>>
  BY DEF ToolActs, state
<1>1. /\ tool[r] \in {"running", "going"} /\ at[r] = "waiting" /\ disk[r] # NoRecord
      /\ GrantInv(r) /\ DeedInv(r)
  BY DEF ToolActs, Core, PlacesInv, PlaceInv, GrantsInv, DeedsInv
<1>2. ASSUME NEW end \in {"going", "done", "idle", "failed"}, tool' = [tool EXCEPT ![r] = end]
      PROVE  /\ ThreadTypes' /\ PlacesInv' /\ NotesInv' /\ tool'[r] = end
             /\ \A q \in Runs : q # r => tool'[q] = tool[q]
  <2>1. tool'[r] = end /\ \A q \in Runs : q # r => tool'[q] = tool[q]
    BY <1>2 DEF Core, ThreadTypes
  <2>2. ThreadTypes'
    BY <1>0, <1>2 DEF Core, ThreadTypes, origin
  <2>3. \A q \in Runs : q # r => EventOf(q)' = EventOf(q)
    BY <1>0, <2>1 DEF EventOf, Returned, origin
  <2>4. PlacesInv'
    BY <1>0, <1>1, <2>1, <2>3 DEF Core, PlacesInv, PlaceInv, registryVars
  <2>5. NotesInv'
    BY <1>0, <1>1, <2>3 DEF Core, LogInv, NotesInv, Note, origin, log
  <2> QED BY <2>1, <2>2, <2>4, <2>5
<1>3. CASE tool' = [tool EXCEPT ![r] = "failed"] /\ UNCHANGED subject
  BY <1>0, <1>1, <1>2, <1>3, ThreadCore DEF log
<1>4. ASSUME NEW m \in Moves(r), subject' = [subject EXCEPT ![asked[r].on] = m.left],
             tool' = [tool EXCEPT ![r] = m.tool]
      PROVE  Core'
  <2> DEFINE on == asked[r].on
             old == subject[on]
             g == grant[r]
  <2>1. /\ on \in Subjects /\ g \in Grants /\ g.run = r /\ g.actor = g.by /\ g.by # None
        /\ asked[r].verb \in Deeds => g.entitled
        /\ Gated(asked[r]) => g.vouched
    BY <1>1 DEF GrantInv, Core, ThreadTypes
  <2>2. SubjectInv(on) /\ old \in SubjectRecords
    BY <2>1 DEF Core, SubjectsInv
  <2>3. /\ m.left \in SubjectRecords /\ Lawful(m.left) /\ Keeps(on, old, m.left)
        /\ m.tool \in {"going", "done", "idle", "failed"}
        /\ SealMoves(old.requester, m.left.requester, g, asked[r].verb = "create")
        /\ SealMoves(old.approver, m.left.approver, g, asked[r].verb = "approve")
        /\ SealMoves(old.operator, m.left.operator, g, asked[r].verb = "authorize")
        /\ m.tool \in {"done", "going"} => Shows(r, m.left)
        /\ m.tool = "idle" => Shows(r, m.left) \/ asked[r].verb = "execute-remaining"
    BY <1>1, <2>1, <2>2, MovesSeal DEF Core, SubjectInv
  <2>4. /\ subject' \in [Subjects -> SubjectRecords]
        /\ subject'[on] = m.left /\ \A o \in Subjects : o # on => subject'[o] = subject[o]
    BY SMTT(60), <1>4, <2>1, <2>3 DEF Core
  <2>5. /\ ThreadTypes' /\ PlacesInv' /\ NotesInv' /\ tool'[r] = m.tool
        /\ \A q \in Runs : q # r => tool'[q] = tool[q]
    BY <1>2, <1>4, <2>3
  <2>6. SubjectsInv'
    <3>1. \A x \in SealsOf(m.left) : x.run # None => x.entitled
      BY SMTT(60), <2>1, <2>2, <2>3, NoGrantType DEF SealsOf, SealMoves, SubjectInv, Deeds
    <3>2. on # "recovery" /\ m.left.approver.run # None => m.left.approver.vouched
      BY SMTT(60), <2>1, <2>2, <2>3, NoGrantType DEF SealMoves, SubjectInv, Gated
    <3>3. \A o \in Subjects : o = on => SubjectInv(o)'
      BY <2>3, <2>4, <3>1, <3>2 DEF SubjectInv
    <3>4. \A o \in Subjects : o # on => SubjectInv(o)'
      BY <2>4 DEF Core, SubjectsInv, SubjectInv
    <3> QED BY <3>3, <3>4 DEF SubjectsInv
  <2>7. ASSUME NEW q \in Runs, asked[q].on \in Subjects, DeedDone(q) PROVE DeedDone(q)'
    <3>1. Shows(q, subject'[asked[q].on])
      <4>1. CASE asked[q].on = on
        <5>1. /\ old.requester.run # None => m.left.requester = old.requester
              /\ old.approver.run # None => m.left.approver = old.approver
              /\ old.operator.run # None => m.left.operator = old.operator
          BY SMTT(60), <2>3, SealStays
        <5>2. Shows(q, m.left)
          BY <2>3, <2>7, <4>1, <5>1, ShowsStays DEF DeedDone
        <5> QED BY SMTT(60), <2>4, <4>1, <5>2
      <4>2. CASE asked[q].on # on
        BY <2>4, <2>7, <4>2 DEF DeedDone
      <4> QED BY <4>1, <4>2
    <3> QED BY <1>0, <3>1 DEF DeedDone, Shows, origin
  <2>8. \A q \in Runs : disk[q] # NoRecord => asked[q].on \in Subjects
    BY DEF Core, GrantsInv, GrantInv
  <2>9. DeedsInv'
    <3>1. ASSUME NEW q \in Runs, q # r PROVE DeedInv(q)'
      <4>1. DeedInv(q) /\ (tool[q] # "none" => disk[q] # NoRecord) /\ tool'[q] = tool[q]
        BY <2>5, <3>1 DEF Core, DeedsInv, PlacesInv, PlaceInv
      <4> QED BY <1>0, <2>7, <2>8, <4>1 DEF DeedInv, FoundNothing, origin
    <3>2. DeedInv(r)'
      <4>1. Shows(r, m.left) => DeedDone(r)'
        BY <1>0, <2>4 DEF DeedDone, Shows, origin
      <4> QED BY <1>0, <2>3, <2>5, <4>1 DEF DeedInv, FoundNothing, origin
    <3> QED BY <3>1, <3>2 DEF DeedsInv
  <2>10. LogInv'
    <3>1. ASSUME NEW e \in audit PROVE Told(e)'
      <4>1. Told(e)
        BY DEF Core, LogInv
      <4>2. e.run \in Runs /\ e.run # r /\ disk[e.run] # NoRecord /\ at[e.run] \notin {"idle", "waiting"}
        BY <1>1, <4>1 DEF Told
      <4>3. tool'[e.run] = tool[e.run] /\ (DeedDone(e.run) => DeedDone(e.run)')
        BY <2>5, <2>7, <2>8, <4>2
      <4> QED BY <1>0, <4>1, <4>2, <4>3, ToldStays DEF origin, registryVars
    <3> QED BY <1>0, <2>5, <3>1 DEF LogInv, log
  <2>11. \A q \in Runs : Owner(q)' = Owner(q) /\ Running(q)' = Running(q)
    BY <1>0 DEF Owner, Running, registryVars
  <2>12. GrantsInv' /\ KeyExclusive'
    BY <1>0, <2>11 DEF Core, GrantsInv, GrantInv, KeyExclusive, origin, registryVars
  <2>13. RunsInv'
    <3>1. SUFFICES ASSUME NEW q \in Runs PROVE RunInv(q)'
      BY <1>0 DEF Core, RunsInv, registryVars
    <3>2. RunInv(q) /\ PlaceInv(q) /\ Alarmed(q)' = Alarmed(q)
      BY <1>0, <2>11 DEF Core, RunsInv, PlacesInv, Alarmed, registryVars
    <3>3. Returned(q) => Returned(q)'
      BY <1>1, <2>5 DEF Returned
    <3> QED BY <1>0, <2>11, <3>2, <3>3 DEF RunInv, registryVars
  <2> QED BY <2>4, <2>5, <2>6, <2>9, <2>10, <2>12, <2>13 DEF Core
<1> QED BY <1>3, <1>4 DEF ToolActs

(* The runs *)

LEMMA AbsentRecord == NoRecord.status = "absent" /\ NoRecord.context = NoContext
BY DEF NoRecord

(* A step of one run.                                                      *)
OneRun(r) ==
  \A q \in Runs : q # r => /\ disk'[q] = disk[q] /\ worker'[q] = worker[q]
                           /\ at'[q] = at[q] /\ asked'[q] = asked[q] /\ grant'[q] = grant[q]
                           /\ \A c \in Controllers : cache'[c][q] = cache[c][q]

LEMMA OneRunCore ==
  ASSUME RegistryTypes, Core, NEW r \in Runs, OneRun(r),
         UNCHANGED <<up, inspection, subject, tool, log>>,
         at' \in [Runs -> ThreadPlaces], asked' \in [Runs -> AllRoutes \cup {None}], grant' \in [Runs -> Grants],
         RunInv(r)', PlaceInv(r)', disk'[r] # NoRecord => GrantInv(r)',
         at'[r] \in {"post", "alarm"} => at'[r] = at[r], at'[r] \in {"idle", "waiting"} => at'[r] = at[r],
         disk[r] # NoRecord => disk'[r] # NoRecord /\ asked'[r] = asked[r] /\ grant'[r] = grant[r],
         disk[r].status = "failed" => disk'[r].status = "failed",
         Running(r)' => \A q \in Runs : q # r /\ Running(q) => disk[q].key # disk'[r].key
  PROVE  Core'
<1> USE DEF Core
<1>1. \A q \in Runs : q # r => Owner(q)' = Owner(q) /\ Running(q)' = Running(q)
  BY DEF OneRun, Owner, Running
<1>2. \A q \in Runs : disk[q] # NoRecord => /\ asked'[q] = asked[q] /\ EventOf(q)' = EventOf(q)
                                           /\ DeedDone(q)' = DeedDone(q)
  BY SMTT(60) DEF OneRun, EventOf, Returned, DeedDone, Shows
<1>3. ThreadTypes' /\ (subject \in [Subjects -> SubjectRecords])' /\ SubjectsInv'
  BY DEF ThreadTypes, SubjectsInv, SubjectInv
<1>4. GrantsInv'
  BY DEF OneRun, GrantsInv, GrantInv
<1>5. PlacesInv'
  <2>1. ASSUME NEW q \in Runs, q # r PROVE PlaceInv(q)'
    <3>1. PlaceInv(q) /\ EventOf(q)' = EventOf(q)
      BY <2>1 DEF PlacesInv, OneRun, EventOf, Returned
    <3> QED BY <2>1, <3>1 DEF OneRun, PlaceInv
  <2> QED BY <2>1 DEF PlacesInv
<1>6. \A q \in Runs : at[q] # "idle" \/ tool[q] # "none" => disk[q] # NoRecord
  BY DEF PlacesInv, PlaceInv
<1>7. DeedsInv'
  <2>1. SUFFICES ASSUME NEW q \in Runs PROVE DeedInv(q)'
    BY DEF DeedsInv
  <2>2. DeedInv(q) /\ (tool[q] # "none" => disk[q] # NoRecord)
    BY <1>6 DEF DeedsInv
  <2> QED BY <1>2, <2>2 DEF DeedInv, FoundNothing
<1>8. LogInv'
  <2>1. ASSUME NEW e \in audit PROVE Told(e)'
    <3>1. Told(e) /\ e.run \in Runs /\ disk[e.run] # NoRecord /\ at[e.run] \notin {"idle", "waiting"}
      BY DEF LogInv, Told
    <3>2. /\ disk'[e.run] # NoRecord /\ at'[e.run] \notin {"idle", "waiting"}
          /\ disk[e.run].status = "failed" => disk'[e.run].status = "failed"
      BY <3>1 DEF OneRun
    <3> QED BY <1>2, <3>1, <3>2, ToldStays
  <2>2. ASSUME NEW q \in Runs
        PROVE  /\ at'[q] = "post" => Note(q, EventOf(q))' \in audit
               /\ at'[q] = "alarm" => Note(q, "run.failed")' \in audit
    <3>1. at'[q] \in {"post", "alarm"} => at'[q] = at[q] /\ disk[q] # NoRecord
      BY <1>6 DEF OneRun
    <3> QED BY <1>2, <3>1 DEF LogInv, NotesInv, Note
  <2> QED BY <2>1, <2>2 DEF LogInv, NotesInv, log
<1>9. RunsInv'
  <2>1. ASSUME NEW q \in Runs, q # r PROVE RunInv(q)'
    <3>1. RunInv(q) /\ \A c \in Controllers : cache'[c][q] = cache[c][q]
      BY <2>1 DEF RunsInv, OneRun
    <3>2. disk[q] # NoRecord => Alarmed(q)' = Alarmed(q) /\ cache'[Owner(q)][q] = cache[Owner(q)][q]
      BY <1>1, <2>1, <3>1 DEF Alarmed, Owner, RegistryTypes, RegistryTypeOK
    <3>3. disk[q] = NoRecord => worker[q] = "none" /\ at[q] = "idle"
      BY DEF PlacesInv, PlaceInv
    <3> QED BY <1>1, <2>1, <3>1, <3>2, <3>3, AbsentRecord DEF RunInv, OneRun, Running, Executing, Returned
  <2> QED BY <2>1 DEF RunsInv
<1>10. KeyExclusive'
  <2>1. \A q \in Runs : q # r => disk'[q] = disk[q]
    BY DEF OneRun
  <2> QED BY <1>1, <2>1 DEF KeyExclusive
<1> QED BY <1>3, <1>4, <1>5, <1>7, <1>8, <1>9, <1>10

(* The types a step of the registry needs of a run on file.                *)
LEMMA RunTypes ==
  ASSUME RegistryTypes, NEW r \in Runs
  PROVE  /\ disk[r] \in Record /\ \A c \in Controllers : cache[c][r] \in Record
         /\ disk[r] # NoRecord => /\ disk[r].key \in Keys /\ Owner(r) \in Controllers
                                  /\ disk[r].status # "absent"
         /\ \A c \in Controllers : cache[c][r] # NoRecord =>
              /\ disk[r] # NoRecord /\ cache[c][r].status # "absent"
              /\ cache[c][r].key = disk[r].key /\ cache[c][r].owner = disk[r].owner
         /\ worker[r] \in Places
         /\ disk \in [Runs -> Record] /\ cache \in [Controllers -> [Runs -> Record]]
         /\ worker \in [Runs -> Places]
BY DEF RegistryTypes, RegistryTypeOK, Owner

(* Saving a run changes nothing of the others.                             *)
LEMMA SaveOne ==
  ASSUME RegistryTypes, NEW c \in Controllers, NEW r \in Runs, NEW rec, Save(c, r, rec)
  PROVE  /\ disk'[r] = rec /\ cache'[c][r] = rec
         /\ \A q \in Runs : q # r => disk'[q] = disk[q]
         /\ \A d \in Controllers, q \in Runs : d # c \/ q # r => cache'[d][q] = cache[d][q]
BY RunTypes DEF Save

LEMMA ThreadFailsCore ==
  ASSUME RegistryTypes, Core, NEW r \in Runs, ThreadFails(r), UNCHANGED <<subject, thread, log>>
  PROVE  Core'
<1> DEFINE c == Owner(r)
           rec == [cache[c][r] EXCEPT !.status = "failed"]
<1>1. worker[r] = "queued" /\ worker' = [worker EXCEPT ![r] = "done"] /\ Save(c, r, rec) /\ UNCHANGED <<up, inspection>>
  BY DEF ThreadFails
<1>2. c \in Controllers /\ disk[r] # NoRecord /\ cache[c][r] = disk[r] /\ disk[r] \in Record
  BY <1>1, WorkerRecord, RunTypes DEF Core, RunsInv, RunInv, Running, Executing
<1>3. /\ disk'[r] = rec /\ cache'[c][r] = rec
      /\ \A q \in Runs : q # r => disk'[q] = disk[q]
      /\ \A d \in Controllers, q \in Runs : d # c \/ q # r => cache'[d][q] = cache[d][q]
  BY <1>1, <1>2, SaveOne
<1>4. rec.status = "failed" /\ rec.key = disk[r].key /\ rec.owner = c /\ rec.context = disk[r].context /\ rec # NoRecord
  BY <1>2, AbsentRecord DEF Record, Owner
<1>5. worker'[r] = "done" /\ \A q \in Runs : q # r => worker'[q] = worker[q]
  BY <1>1, RunTypes
<1>6. OneRun(r)
  BY <1>3, <1>5 DEF OneRun, thread, origin
<1>7. RunInv(r) /\ PlaceInv(r) /\ at[r] = "idle" /\ tool[r] = "none"
  BY <1>1 DEF Core, RunsInv, PlacesInv, PlaceInv
<1>8. RunInv(r)'
  <2> HIDE DEF rec
  <2>1. Owner(r)' = c /\ up' = up /\ tool' = tool /\ at' = at
    BY <1>1, <1>3, <1>4 DEF Owner, thread
  <2>2. (disk[r].context = NoContext /\ \A d \in Controllers : cache[d][r].context = NoContext)'
    BY <1>2, <1>3, <1>4, <1>7 DEF RunInv
  <2>3. cache'[c][r] = rec \/ ~Running(r)'
    BY <1>1, <1>2, <1>3, <1>5 DEF Running, Executing
  <2> QED BY <1>1, <1>2, <1>3, <1>4, <1>5, <1>7, <2>1, <2>2, <2>3 DEF RunInv, Returned, Running, Executing, Alarmed, Owner
<1>9. PlaceInv(r)'
  BY <1>3, <1>4, <1>5, <1>7 DEF PlaceInv, thread
<1>10. GrantInv(r)'
  BY <1>2, <1>3, <1>4 DEF Core, GrantsInv, GrantInv, thread, origin
<1>11. ~Running(r)'
  BY <1>5 DEF Running, Executing
<1>12. at' \in [Runs -> ThreadPlaces] /\ asked' \in [Runs -> AllRoutes \cup {None}] /\ grant' \in [Runs -> Grants]
  BY DEF Core, ThreadTypes, thread, origin
<1> QED BY <1>1, <1>3, <1>4, <1>6, <1>7, <1>8, <1>9, <1>10, <1>11, <1>12, OneRunCore DEF thread, origin

LEMMA WorkerBeginsCore ==
  ASSUME RegistryTypes, Core, NEW r \in Runs, WorkerBegins(r), UNCHANGED <<subject, thread, log>>
  PROVE  Core'
<1> DEFINE c == Owner(r)
           rec == [cache[c][r] EXCEPT !.status = "running"]
<1>1. worker[r] = "queued" /\ worker' = [worker EXCEPT ![r] = "running"] /\ Save(c, r, rec) /\ UNCHANGED <<up, inspection>>
  BY DEF WorkerBegins
<1>2. c \in Controllers /\ disk[r] # NoRecord /\ cache[c][r] = disk[r] /\ disk[r] \in Record /\ disk[r].status = "queued"
  BY <1>1, WorkerRecord, RunTypes DEF Core, RunsInv, RunInv, Running, Executing
<1>3. /\ disk'[r] = rec /\ cache'[c][r] = rec
      /\ \A q \in Runs : q # r => disk'[q] = disk[q]
      /\ \A d \in Controllers, q \in Runs : d # c \/ q # r => cache'[d][q] = cache[d][q]
  BY <1>1, <1>2, SaveOne
<1>4. rec.status = "running" /\ rec.key = disk[r].key /\ rec.owner = c /\ rec.context = disk[r].context /\ rec # NoRecord
  BY <1>2, AbsentRecord DEF Record, Owner
<1>5. worker'[r] = "running" /\ \A q \in Runs : q # r => worker'[q] = worker[q]
  BY <1>1, RunTypes
<1>6. OneRun(r)
  BY <1>3, <1>5 DEF OneRun, thread, origin
<1>7. RunInv(r) /\ PlaceInv(r) /\ at[r] = "idle" /\ tool[r] = "none"
  BY <1>1 DEF Core, RunsInv, PlacesInv, PlaceInv
<1>8. RunInv(r)'
  <2> HIDE DEF rec
  <2>1. Owner(r)' = c /\ up' = up /\ tool' = tool /\ at' = at
    BY <1>1, <1>3, <1>4 DEF Owner, thread
  <2>2. (disk[r].context = NoContext /\ \A d \in Controllers : cache[d][r].context = NoContext)'
    BY <1>2, <1>3, <1>4, <1>7 DEF RunInv
  <2>3. cache'[c][r] = rec \/ ~Running(r)'
    BY <1>1, <1>2, <1>3, <1>5 DEF Running, Executing
  <2> QED BY <1>1, <1>2, <1>3, <1>4, <1>5, <1>7, <2>1, <2>2, <2>3 DEF RunInv, Returned, Running, Executing, Alarmed, Owner
<1>9. PlaceInv(r)'
  BY <1>3, <1>4, <1>5, <1>7 DEF PlaceInv, thread
<1>10. GrantInv(r)'
  BY <1>2, <1>3, <1>4 DEF Core, GrantsInv, GrantInv, thread, origin
<1>11. \A q \in Runs : q # r /\ Running(q) => disk[q].key # disk'[r].key
  BY <1>1, <1>3, <1>4 DEF Running, Executing, Core, KeyExclusive
<1>12. at' \in [Runs -> ThreadPlaces] /\ asked' \in [Runs -> AllRoutes \cup {None}] /\ grant' \in [Runs -> Grants]
  BY DEF Core, ThreadTypes, thread, origin
<1> QED BY <1>1, <1>2, <1>3, <1>4, <1>6, <1>7, <1>8, <1>9, <1>10, <1>11, <1>12, OneRunCore DEF thread, origin

LEMMA AcceptCore == ASSUME RegistryTypes, RequestTypes, RequestsInv, Core, NEW h \in Handlers, NEW r \in Runs, Accept(h, r)
                    PROVE  Core'
<1> DEFINE q == request[h]
           rec == [key |-> KeyOf(q.route), status |-> "queued", owner |-> q.on, context |-> NoContext]
<1>1. /\ q.stage = "clear" /\ q.route.on \in Subjects /\ StartRun(q.on, KeyOf(q.route), r)
      /\ asked' = [asked EXCEPT ![r] = q.route]
      /\ grant' = [grant EXCEPT ![r] = Granted(q, r, q.ticket)]
      /\ UNCHANGED <<subject, at, tool, log>>
  BY DEF Accept, Clear, Subjects, state
<1>2. q \in Requests /\ Passed(q)
  BY <1>1, InProgress DEF RequestsInv
<1>3. q.on \in Controllers /\ q.route \in AllRoutes /\ q.by \in Principals /\ q.by # None
  BY <1>2, ControlAssumption DEF Requests
<1>4. /\ disk[r] = NoRecord /\ up[q.on] = "up" /\ Save(q.on, r, rec) /\ UNCHANGED <<up, inspection>>
      /\ worker' = [worker EXCEPT ![r] = "queued"]
      /\ \A p \in Runs : disk[p].key = KeyOf(q.route) => disk[p].status \notin Unresolved
  BY <1>1 DEF StartRun, Claimed
<1>5. /\ disk'[r] = rec /\ cache'[q.on][r] = rec
      /\ \A p \in Runs : p # r => disk'[p] = disk[p]
      /\ \A d \in Controllers, p \in Runs : d # q.on \/ p # r => cache'[d][p] = cache[d][p]
  BY <1>3, <1>4, SaveOne
<1>6. rec.status = "queued" /\ rec.key = KeyOf(q.route) /\ rec.owner = q.on /\ rec.context = NoContext /\ rec # NoRecord
  BY AbsentRecord
<1>7. worker'[r] = "queued" /\ \A p \in Runs : p # r => worker'[p] = worker[p]
  BY <1>4, RunTypes
<1> DEFINE g == Granted(q, r, q.ticket)
<1>8. /\ g \in Grants /\ g.run = r /\ g.actor = g.by /\ g.by = q.by
      /\ g.entitled = (q.held \cap Needed(q.route.verb) # {}) /\ g.vouched = (q.ticket \in q.good)
  BY <1>1, <1>2, <1>3 DEF Granted, Grants, Passed
<1>9. /\ grant' \in [Runs -> Grants] /\ grant'[r] = g
      /\ asked' \in [Runs -> AllRoutes \cup {None}] /\ asked'[r] = q.route
      /\ \A p \in Runs : p # r => grant'[p] = grant[p] /\ asked'[p] = asked[p]
  BY <1>1, <1>3, <1>8 DEF Core, ThreadTypes
<1>10. OneRun(r)
  BY <1>1, <1>5, <1>7, <1>9 DEF OneRun
<1>11. worker[r] = "none" /\ at[r] = "idle" /\ tool[r] = "none" /\ RunInv(r)
  BY <1>4 DEF Core, PlacesInv, PlaceInv, RunsInv
<1>12. RunInv(r)'
  BY <1>1, <1>4, <1>5, <1>6, <1>7, <1>11 DEF RunInv, Running, Executing, Owner
<1>13. PlaceInv(r)'
  BY <1>1, <1>5, <1>6, <1>7, <1>11 DEF PlaceInv
<1>14. GrantInv(r)'
  <2>1. asked'[r] = q.route
    BY <1>9
  <2>2. q.route.verb \in Deeds => g.entitled
    BY <1>1, <1>2, <1>3, <1>8, NeededRoles DEF Passed
  <2>3. Gated(q.route) => g.vouched
    BY <1>1, <1>2, <1>8 DEF Passed
  <2> QED BY <1>1, <1>3, <1>8, <1>9, <2>1, <2>2, <2>3 DEF GrantInv
<1>15. \A p \in Runs : p # r /\ Running(p) => disk[p].key # disk'[r].key
  <2>1. \A p \in Runs : Running(p) => disk[p].status \in Unresolved
    BY DEF Core, RunsInv, RunInv, Running, Executing, Unresolved
  <2> QED BY <1>4, <1>5, <1>6, <2>1
<1>16. at' \in [Runs -> ThreadPlaces] /\ disk[r].status # "failed"
  BY <1>1, <1>4, AbsentRecord DEF Core, ThreadTypes
<1> QED BY <1>1, <1>4, <1>9, <1>10, <1>12, <1>13, <1>14, <1>15, <1>16, OneRunCore

LEMMA FunctionEndsCore == ASSUME RegistryTypes, Core, NEW r \in Runs, FunctionEnds(r) PROVE Core'
<1> DEFINE c == Owner(r)
<1>1. /\ at[r] = "end" /\ worker[r] = "running" /\ WorkerEnds(r, Returned(r))
      /\ UNCHANGED <<up, disk, inspection, subject, thread, log>>
  BY DEF FunctionEnds, WorkerEnds, state
<1>2. c \in Controllers /\ disk[r] # NoRecord /\ cache[c][r] = disk[r] /\ disk[r] \in Record /\ disk[r].status = "running"
  BY <1>1, WorkerRecord, RunTypes DEF Core, RunsInv, RunInv, Running, Executing
<1>3. disk[r].context = NoContext
  BY DEF Core, RunsInv, RunInv
<1>4. Raised(cache[c][r]) = "failed"
  BY <1>2, <1>3 DEF Raised, InDoubt, Detached, NoContext
<1>5. PICK status \in {"succeeded", "failed"} :
        /\ cache' = [cache EXCEPT ![c][r].status = status]
        /\ status = "succeeded" => Returned(r)
  <2>1. CASE Returned(r)
    <3>1. WorkerEnds(r, TRUE)
      BY <1>1, <2>1
    <3> QED BY <2>1, <3>1 DEF WorkerEnds
  <2>2. CASE ~Returned(r)
    <3>1. WorkerEnds(r, FALSE)
      <4>1. Returned(r) = FALSE
        BY <2>2 DEF Returned
      <4> QED BY <1>1, <4>1
    <3> QED BY <1>4, <3>1 DEF WorkerEnds
  <2> QED BY <2>1, <2>2
<1>6. worker'[r] = "ended" /\ \A q \in Runs : q # r => worker'[q] = worker[q]
  BY <1>1, RunTypes DEF WorkerEnds
<1>7. /\ cache'[c][r] = [cache[c][r] EXCEPT !.status = status]
      /\ \A d \in Controllers, q \in Runs : d # c \/ q # r => cache'[d][q] = cache[d][q]
  BY <1>2, <1>5, RunTypes
<1>8. cache'[c][r].status = status /\ cache'[c][r].context = cache[c][r].context
  BY <1>2, <1>7 DEF Record
<1>9. OneRun(r)
  BY <1>1, <1>6, <1>7 DEF OneRun, thread, origin
<1>10. RunInv(r) /\ PlaceInv(r)
  BY SMTT(60) DEF Core, RunsInv, PlacesInv
<1>11. RunInv(r)'
  BY <1>1, <1>2, <1>3, <1>5, <1>6, <1>7, <1>8, <1>10
     DEF RunInv, Running, Executing, Owner, Alarmed, Resolved, Returned, thread, origin
<1>12. PlaceInv(r)'
  BY <1>1, <1>6, <1>10 DEF PlaceInv, EventOf, Returned, thread, origin
<1>13. GrantInv(r)'
  BY <1>1, <1>2 DEF Core, GrantsInv, GrantInv, thread, origin
<1>14. ~Running(r)'
  BY <1>6 DEF Running, Executing
<1>15. at' \in [Runs -> ThreadPlaces] /\ asked' \in [Runs -> AllRoutes \cup {None}] /\ grant' \in [Runs -> Grants]
  BY <1>1 DEF Core, ThreadTypes, thread, origin
<1> QED BY <1>1, <1>9, <1>11, <1>12, <1>13, <1>14, <1>15, OneRunCore DEF thread, origin

(* The outcome is filed, or is not.                                        *)
LEMMA SettlesCore == ASSUME RegistryTypes, Core, NEW r \in Runs, Settles(r) PROVE Core'
<1> DEFINE c == Owner(r)
<1>1. /\ worker[r] = "ended" /\ worker' = [worker EXCEPT ![r] = "done"]
      /\ at' = [at EXCEPT ![r] = "settled"]
      /\ UNCHANGED <<up, inspection, subject, tool, origin, log>>
  BY DEF Settles, Settle, SettleFails, state
<1>2. /\ c \in Controllers /\ disk[r] # NoRecord /\ up[c] = "up" /\ cache[c][r] \in Record /\ disk[r] \in Record
      /\ cache[c][r].key = disk[r].key /\ cache[c][r].owner = c /\ cache[c][r].status # "absent"
  BY <1>1, WorkerRecord, RunTypes DEF Owner
<1>3. /\ worker'[r] = "done" /\ \A q \in Runs : q # r => worker'[q] = worker[q]
      /\ at'[r] = "settled" /\ \A q \in Runs : q # r => at'[q] = at[q]
      /\ at' \in [Runs -> ThreadPlaces]
      /\ asked' \in [Runs -> AllRoutes \cup {None}] /\ grant' \in [Runs -> Grants]
  BY <1>1, RunTypes DEF Core, ThreadTypes, ThreadPlaces, origin
<1>4. /\ disk[r].status = "running" /\ cache[c][r].status \in Resolved /\ at[r] = "end"
      /\ tool[r] \notin {"none", "running", "going"}
      /\ cache[c][r].status = "succeeded" => Returned(r)
      /\ disk[r].context = NoContext /\ \A d \in Controllers : cache[d][r].context = NoContext
  BY <1>1 DEF Core, RunsInv, RunInv, PlacesInv, PlaceInv
<1>5. CASE Settle(r)
  <2>1. /\ disk'[r] = cache[c][r] /\ cache' = cache /\ \A q \in Runs : q # r => disk'[q] = disk[q]
    BY <1>5, RunTypes DEF Settle
  <2>2. OneRun(r)
    BY SMTT(60), <1>1, <1>3, <2>1 DEF OneRun, origin
  <2>3. RunInv(r)'
    <3>1. Owner(r)' = c /\ up' = up /\ tool' = tool /\ worker'[r] = "done" /\ at'[r] = "settled"
      BY <1>1, <1>2, <1>3, <2>1 DEF Owner
    <3>2. (disk[r].context = NoContext /\ \A d \in Controllers : cache[d][r].context = NoContext)'
      BY <1>2, <1>4, <2>1
    <3>3. disk'[r].status = "succeeded" => Returned(r)
      BY <1>4, <2>1
    <3>4. Alarmed(r)' => disk'[r].status = "failed"
      BY <2>1, <3>1 DEF Alarmed
    <3> QED BY <1>1, <1>2, <3>1, <3>2, <3>3, <3>4 DEF RunInv, Returned, Running, Executing
  <2>4. PlaceInv(r)' /\ ~Running(r)'
    BY <1>1, <1>2, <1>3, <1>4, <2>1, AbsentRecord DEF PlaceInv, Running, Executing
  <2>5. GrantInv(r)' /\ disk'[r] # NoRecord /\ disk'[r].key = disk[r].key
    BY <1>1, <1>2, <2>1, AbsentRecord DEF Core, GrantsInv, GrantInv, origin
  <2> QED BY <1>1, <1>3, <1>4, <2>2, <2>3, <2>4, <2>5, OneRunCore DEF origin
<1>6. CASE SettleFails(r)
  <2>1. /\ disk' = disk /\ cache' = [cache EXCEPT ![c][r].status = "unknown"]
    BY <1>6 DEF SettleFails
  <2>2. /\ cache'[c][r] = [cache[c][r] EXCEPT !.status = "unknown"]
        /\ \A d \in Controllers, q \in Runs : d # c \/ q # r => cache'[d][q] = cache[d][q]
    BY <1>2, <2>1, RunTypes
  <2>3. cache'[c][r].status = "unknown" /\ cache'[c][r].context = cache[c][r].context
    BY <1>2, <2>2 DEF Record
  <2>4. OneRun(r)
    BY SMTT(60), <1>1, <1>3, <2>1, <2>2 DEF OneRun, origin
  <2>5. RunInv(r)'
    <3>1. Owner(r)' = c /\ up' = up /\ tool' = tool /\ worker'[r] = "done" /\ at'[r] = "settled"
      BY <1>1, <1>2, <1>3, <2>1 DEF Owner
    <3>2. (disk[r].context = NoContext /\ \A d \in Controllers : cache[d][r].context = NoContext)'
      BY <1>2, <1>4, <2>1, <2>2, <2>3
    <3>3. ~ Alarmed(r)'
      BY <2>3, <3>1 DEF Alarmed
    <3> QED BY <1>2, <1>4, <2>1, <3>1, <3>2, <3>3 DEF RunInv, Running, Executing
  <2>6. PlaceInv(r)' /\ ~Running(r)'
    BY <1>1, <1>2, <1>3, <1>4, <2>1 DEF PlaceInv, Running, Executing
  <2>7. GrantInv(r)'
    BY <1>1, <1>2, <2>1 DEF Core, GrantsInv, GrantInv, origin
  <2> QED BY <1>1, <1>3, <1>4, <2>1, <2>4, <2>5, <2>6, <2>7, OneRunCore DEF origin
<1> QED BY <1>5, <1>6 DEF Settles

(* A run is closed by hand after its process is gone.                      *)
LEMMA CloseCore ==
  ASSUME RegistryTypes, Core, NEW c \in Controllers, NEW r \in Runs, CloseByHand(c, r),
         UNCHANGED <<subject, thread, log>>
  PROVE  Core'
<1> DEFINE rec == [Known(c, r) EXCEPT !.status = "failed"]
<1>1. /\ up[c] = "up" /\ Save(c, r, rec) /\ UNCHANGED <<up, worker, inspection>>
      /\ Known(c, r).status = "unknown" /\ up[Known(c, r).owner] # "up"
  BY DEF CloseByHand, Reconcilable, OwnerGone
<1>2. /\ Known(c, r) \in Record /\ disk[r] # NoRecord /\ Owner(r) \in Controllers
      /\ Known(c, r).key = disk[r].key /\ Known(c, r).owner = Owner(r)
      /\ Known(c, r).context = NoContext
  <2>1. CASE cache[c][r] # NoRecord
    BY <2>1, RunTypes DEF Known, Owner, Core, RunsInv, RunInv
  <2>2. CASE cache[c][r] = NoRecord
    <3>1. Known(c, r) = IF disk[r].status \in Unresolved /\ Owner(r) # c
                        THEN [disk[r] EXCEPT !.status = "unknown"] ELSE disk[r]
      BY <2>2 DEF Known, Loaded
    <3>2. disk[r] # NoRecord
      <4>1. NoRecord.status \notin Unresolved \cup {"unknown"}
        BY AbsentRecord DEF Unresolved
      <4> QED BY <1>1, <3>1, <4>1
    <3>3. disk[r] \in Record /\ disk[r].context = NoContext
      BY RunTypes DEF Core, RunsInv, RunInv
    <3>4. Known(c, r) = disk[r] \/ Known(c, r) = [disk[r] EXCEPT !.status = "unknown"]
      BY <3>1
    <3>5. \A known \in {disk[r], [disk[r] EXCEPT !.status = "unknown"]} :
            /\ known \in Record /\ known.key = disk[r].key /\ known.owner = disk[r].owner
            /\ known.context = disk[r].context
      BY <3>3 DEF Record, Unresolved
    <3>6. Owner(r) \in Controllers
      BY <3>2, RunTypes DEF Owner
    <3> QED BY <3>2, <3>3, <3>4, <3>5, <3>6 DEF Owner
  <2> QED BY <2>1, <2>2
<1>3. rec.status = "failed" /\ rec.key = disk[r].key /\ rec.owner = Owner(r) /\ rec.context = NoContext /\ rec # NoRecord
  BY <1>2, AbsentRecord DEF Record
<1>4. /\ disk'[r] = rec /\ cache'[c][r] = rec
      /\ \A q \in Runs : q # r => disk'[q] = disk[q]
      /\ \A d \in Controllers, q \in Runs : d # c \/ q # r => cache'[d][q] = cache[d][q]
  BY <1>1, SaveOne
<1>5. worker[r] \notin Executing \cup {"ended"}
  BY <1>1, <1>2, WorkerRecord
<1>6. OneRun(r)
  BY <1>1, <1>4 DEF OneRun, thread, origin
<1>7. RunInv(r) /\ PlaceInv(r)
  BY DEF Core, RunsInv, PlacesInv
<1>8. RunInv(r)'
  <2> HIDE DEF rec
  <2>1. Owner(r)' = Owner(r) /\ up' = up /\ tool' = tool /\ at' = at
    BY <1>1, <1>3, <1>4 DEF Owner, thread
  <2>2. (disk[r].context = NoContext /\ \A d \in Controllers : cache[d][r].context = NoContext)'
    BY <1>2, <1>3, <1>4, <1>7 DEF RunInv
  <2>3. cache'[Owner(r)][r] = rec \/ ~Running(r)'
    BY <1>1, <1>2, <1>3, <1>5 DEF Running, Executing
  <2> QED BY <1>1, <1>2, <1>3, <1>4, <1>5, <1>7, <2>1, <2>2, <2>3 DEF RunInv, Returned, Running, Executing, Alarmed, Owner
<1>9. PlaceInv(r)'
  BY <1>1, <1>2, <1>3, <1>4, <1>7 DEF PlaceInv, EventOf, Returned, thread, origin
<1>10. GrantInv(r)'
  BY <1>2, <1>3, <1>4 DEF Core, GrantsInv, GrantInv, thread, origin
<1>11. ~Running(r)'
  BY <1>1, <1>5 DEF Running
<1>12. at' \in [Runs -> ThreadPlaces] /\ asked' \in [Runs -> AllRoutes \cup {None}] /\ grant' \in [Runs -> Grants]
  BY DEF Core, ThreadTypes, thread, origin
<1> QED BY <1>1, <1>2, <1>3, <1>4, <1>6, <1>8, <1>9, <1>10, <1>11, <1>12, OneRunCore DEF thread, origin

LEMMA GetRunCore ==
  ASSUME RegistryTypes, Core, NEW c \in Controllers, NEW r \in Runs, GetRun(c, r),
         UNCHANGED <<subject, thread, log>>
  PROVE  Core'
<1>1. /\ up[c] = "up" /\ cache[c][r] = NoRecord /\ disk[r] # NoRecord
      /\ cache' = [cache EXCEPT ![c][r] = Loaded(c, r)]
      /\ UNCHANGED <<up, disk, active, worker, inspection>>
  BY DEF GetRun
<1>2. /\ cache'[c][r] = Loaded(c, r)
      /\ \A d \in Controllers, q \in Runs : d # c \/ q # r => cache'[d][q] = cache[d][q]
  BY <1>1, RunTypes
<1>3. disk[r] \in Record /\ disk[r].context = NoContext
  BY RunTypes DEF Core, RunsInv, RunInv
<1>4. Loaded(c, r).context = NoContext /\ (Owner(r) = c => Loaded(c, r) = disk[r])
  BY <1>3 DEF Loaded, Record
<1>5. Owner(r) = c => worker[r] \notin Executing \cup {"ended"}
  BY <1>1 DEF RegistryTypes, WorkersCached
<1>6. OneRun(r)
  BY <1>1, <1>2 DEF OneRun, thread, origin
<1>7. RunInv(r) /\ PlaceInv(r) /\ Owner(r) \in Controllers
  BY <1>1, RunTypes DEF Core, RunsInv, PlacesInv
<1>8. RunInv(r)'
  <2>1. CASE Owner(r) = c
    BY <1>1, <1>2, <1>4, <1>5, <1>7, <2>1 DEF RunInv, Returned, Running, Executing, Owner, Alarmed, thread, origin
  <2>2. CASE Owner(r) # c
    BY <1>1, <1>2, <1>4, <1>7, <2>2 DEF RunInv, Returned, Running, Owner, Alarmed, thread, origin
  <2> QED BY <2>1, <2>2
<1>9. PlaceInv(r)'
  BY <1>1, <1>7 DEF PlaceInv, EventOf, Returned, thread, origin
<1>10. GrantInv(r)'
  BY <1>1 DEF Core, GrantsInv, GrantInv, thread, origin
<1>11. Running(r)' => \A q \in Runs : q # r /\ Running(q) => disk[q].key # disk'[r].key
  BY <1>1 DEF Core, KeyExclusive, Running
<1>12. at' \in [Runs -> ThreadPlaces] /\ asked' \in [Runs -> AllRoutes \cup {None}] /\ grant' \in [Runs -> Grants]
  BY DEF Core, ThreadTypes, thread, origin
<1> QED BY <1>1, <1>6, <1>8, <1>9, <1>10, <1>11, <1>12, OneRunCore DEF thread, origin

(* A process comes up or goes with its threads; files and tools stay.      *)
LEMMA ProcessCore ==
  ASSUME RegistryTypes, Core, NEW c \in Controllers, ControllerStarts(c) \/ ControllerDies(c),
         UNCHANGED <<subject, thread, log>>
  PROVE  Core'
<1>1. /\ disk' = disk /\ up \in [Controllers -> {"new", "up", "dead"}]
      /\ \A d \in Controllers : d # c => up'[d] = up[d] /\ \A r \in Runs : cache'[d][r] = cache[d][r]
  BY RunTypes DEF ControllerStarts, ControllerDies, RegistryTypes, RegistryTypeOK
<1>2. \A r \in Runs : /\ Owner(r)' = Owner(r) /\ EventOf(r)' = EventOf(r) /\ Returned(r)' = Returned(r)
                      /\ DeedDone(r)' = DeedDone(r)
  BY <1>1 DEF Owner, EventOf, Returned, DeedDone, Shows, thread, origin
<1>3. \A r \in Runs : worker'[r] = worker[r] \/ worker'[r] = "done"
  BY DEF ControllerStarts, ControllerDies
<1>4. \A r \in Runs : Running(r)' => Running(r)
  BY <1>3 DEF Running, Executing
<1>5. GrantsInv' /\ KeyExclusive' /\ SubjectsInv' /\ DeedsInv'
  BY <1>1, <1>2, <1>4 DEF Core, GrantsInv, GrantInv, KeyExclusive, SubjectsInv, SubjectInv, DeedsInv, DeedInv,
                                FoundNothing, thread, origin
<1>6. LogInv' /\ ThreadTypes' /\ (subject \in [Subjects -> SubjectRecords])'
  <2>1. ASSUME NEW e \in audit PROVE Told(e)'
    <3>1. Told(e) /\ e.run \in Runs
      BY DEF Core, LogInv, Told
    <3> QED BY <1>1, <1>2, <3>1 DEF Told, FoundNothing, thread, origin
  <2> QED BY <1>1, <1>2, <2>1 DEF Core, LogInv, NotesInv, Note, log, thread, origin, ThreadTypes
<1>7. PlacesInv'
  <2>1. \A r \in Runs : disk[r] = NoRecord => worker'[r] = worker[r]
    <3>1. \A r \in Runs : disk[r] = NoRecord => Owner(r) # c
      BY RegistryAssumption DEF Owner, NoRecord
    <3> QED BY <3>1 DEF ControllerStarts, ControllerDies
  <2> QED BY <1>1, <1>2, <1>3, <2>1 DEF Core, PlacesInv, PlaceInv, thread
<1>8. RunsInv'
  <2>1. inspection' = NoInspection
    <3>1. NoInspection.by = None
      BY DEF NoInspection
    <3> QED BY <3>1, RegistryAssumption DEF Core, RunsInv, ControllerStarts, ControllerDies
  <2>2. ASSUME NEW r \in Runs PROVE RunInv(r)'
    <3>1. RunInv(r)
      BY DEF Core, RunsInv
    <3>2. CASE disk[r] = NoRecord
      <4>1. worker'[r] = "none" /\ at[r] = "idle"
        BY <1>1, <1>7, <3>2 DEF PlacesInv, PlaceInv, thread
      <4>2. \A d \in Controllers : cache'[d][r].context = NoContext
        <5>1. \A d \in Controllers : cache'[d][r] \in {cache[d][r], NoRecord}
          <6>1. CASE ControllerStarts(c)
            BY <6>1 DEF ControllerStarts
          <6>2. CASE ControllerDies(c)
            BY <1>1, <6>2 DEF ControllerDies, RegistryTypes, RegistryTypeOK
          <6> QED BY <6>1, <6>2
        <5> QED BY <3>1, <5>1, AbsentRecord DEF RunInv
      <4> QED BY <1>1, <3>1, <3>2, <4>1, <4>2, AbsentRecord DEF RunInv, Running, Executing, thread
    <3>3. CASE disk[r] # NoRecord
      <4>1. Owner(r) \in Controllers
        BY <3>3, RunTypes
      <4>2. CASE ControllerStarts(c)
        <5>1. cache' = cache /\ worker' = worker /\ up[c] = "new" /\ up'[c] = "up"
          BY <1>1, <4>2 DEF ControllerStarts
        <5>2. \A d \in Controllers : up'[d] # "up" => up[d] # "up"
          BY <1>1, <5>1
        <5>3. Owner(r) # c
          BY <3>1, <3>3, <5>1 DEF RunInv
        <5> QED BY <1>1, <1>2, <3>1, <3>3, <4>1, <5>1, <5>2, <5>3 DEF RunInv, Running, Alarmed, thread
      <4>3. CASE ControllerDies(c) /\ Owner(r) = c
        <5>1. worker'[r] = "done" /\ up'[c] = "dead" /\ \A d \in Controllers : cache'[d][r] \in {cache[d][r], NoRecord}
          BY <1>1, <4>3 DEF ControllerDies, RegistryTypes, RegistryTypeOK
        <5> QED BY <1>1, <1>2, <3>1, <4>3, <5>1, AbsentRecord DEF RunInv, Running, Executing, Alarmed, thread
      <4>4. CASE ControllerDies(c) /\ Owner(r) # c
        <5>1. worker'[r] = worker[r] /\ \A d \in Controllers : cache'[d][r] \in {cache[d][r], NoRecord}
          BY <1>1, <4>4 DEF ControllerDies, RegistryTypes, RegistryTypeOK
        <5>2. cache'[Owner(r)][r] = cache[Owner(r)][r] /\ up'[Owner(r)] = up[Owner(r)]
          BY <1>1, <4>1, <4>4
        <5> QED BY <1>1, <1>2, <3>1, <4>4, <5>1, <5>2, AbsentRecord DEF RunInv, Running, Alarmed, thread
      <4> QED BY <4>2, <4>3, <4>4
    <3> QED BY <3>2, <3>3
  <2> QED BY <2>1, <2>2 DEF RunsInv
<1> QED BY <1>5, <1>6, <1>7, <1>8 DEF Core

LEMMA CoreStep ==
  ASSUME RegistryTypes, RequestTypes, RequestsInv, Core, [Next]_vars
  PROVE  Core'
<1>1. ASSUME NEW h \in Handlers, Client(h) \/ Handler(h) PROVE Core'
  <2>1. ASSUME NEW r \in Runs, Accept(h, r) PROVE Core'
    BY <2>1, AcceptCore
  <2>2. ASSUME NEW r \in Runs, CloseRun(h, r) PROVE Core'
    <3>1. request[h].on \in Controllers
      BY <2>2, InProgress DEF CloseRun, Clear, Requests
    <3> QED BY <2>2, <3>1, CloseCore DEF CloseRun, state
  <2>3. CASE CloseRefused(h)
    <3>1. request[h].on \in Controllers
      BY <2>3, InProgress DEF CloseRefused, Clear, Requests
    <3>2. CASE UNCHANGED registryVars
      BY <2>3, <3>2, CoreFrame DEF CloseRefused, CoreVars, state
    <3> QED BY <2>3, <3>1, <3>2, GetRunCore DEF CloseRefused, state
  <2>4. CASE Client(h)
    BY <2>4, CoreFrame DEF Client, Authenticate, CoreVars, state
  <2>5. CASE AuthorizePath(h) \/ ReadBody(h) \/ ValidateTicket(h) \/ Conflict(h) \/ VerifyAgent(h)
             \/ ClaimJob(h) \/ CompleteJob(h)
    BY <2>5, CoreFrame DEF AuthorizePath, ReadBody, ValidateTicket, Conflict, VerifyAgent, ClaimJob, CompleteJob,
                           CoreVars, state
  <2> QED BY <1>1, <2>1, <2>2, <2>3, <2>4, <2>5 DEF Handler
<1>2. ASSUME NEW r \in Runs, Thread(r) \/ ToolActs(r) \/ ToolKilled(r) PROVE Core'
  <2>1. CASE Unmoved /\ (ThreadFails(r) \/ WorkerBegins(r))
    BY <2>1, ThreadFailsCore, WorkerBeginsCore DEF Unmoved, state
  <2>2. CASE StartTool(r) \/ ToolReturns(r) \/ ToolActs(r) \/ ToolKilled(r)
    BY <2>2, StartToolCore, ToolReturnsCore, ToolActsCore, ToolKilledCore
  <2>3. CASE Emit(r) \/ EmitPosts(r) \/ Alarm(r) \/ AlarmPosts(r)
    BY <2>3, TellingCore
  <2>4. CASE FunctionEnds(r) \/ Settles(r)
    BY <2>4, FunctionEndsCore, SettlesCore
  <2> QED BY <1>2, <2>1, <2>2, <2>3, <2>4 DEF Thread
<1>3. ASSUME NEW c \in Controllers, (ControllerStarts(c) /\ Unmoved) \/ ServerDies(c) PROVE Core'
  BY <1>3, ProcessCore DEF ServerDies, Unmoved, state
<1>4. CASE Administrator
  BY <1>4, CoreFrame DEF Administrator, RolesChange, TicketsChange, EditSaves, EditLoads, CoreVars, state
<1>5. CASE UNCHANGED vars
  BY <1>5, CoreFrame DEF vars, CoreVars, state
<1> QED BY <1>1, <1>2, <1>3, <1>4, <1>5 DEF Next

(* The queue and the registry of agents *)

(* A job is claimed and completed by agents whose token was looked up.     *)
LEMMA JobStep ==
  ASSUME RequestTypes, RequestsInv, JobTypes, AgentWasEnrolled, [Next]_vars
  PROVE  JobTypes' /\ AgentWasEnrolled'
<1>1. CASE UNCHANGED job
  BY <1>1 DEF JobTypes, AgentWasEnrolled
<1>2. ASSUME NEW h \in Handlers, ClaimJob(h) \/ CompleteJob(h) PROVE JobTypes' /\ AgentWasEnrolled'
  <2> DEFINE q == request[h]
             g == Granted(q, None, q.token)
  <2>1. q.stage = "verified" /\ q \in Requests /\ Passed(q)
    BY <1>2, InProgress DEF ClaimJob, CompleteJob, RequestsInv
  <2>2. q.route \in AllRoutes /\ q.route.on = "queue" /\ q.actor = q.by /\ q.token \in q.good
    BY <2>1 DEF Requests, Passed
  <2>3. q.held \cap Needed(q.route.verb) # {}
    BY <2>1, <2>2, NeededRoles DEF Passed
  <2>4. g \in Grants /\ g.actor = g.by /\ g.vouched /\ g.entitled
    BY <2>1, <2>2, <2>3 DEF Granted, Grants, Requests
  <2>5. \/ UNCHANGED job
        \/ \E status \in {"claimed", "completed"} : job' = [status |-> status, grant |-> g]
    BY <1>2 DEF ClaimJob, CompleteJob
  <2> HIDE DEF g
  <2> QED BY <1>1, <2>4, <2>5 DEF JobTypes, AgentWasEnrolled
<1>3. ASSUME NEW h \in Handlers, Client(h) \/ Handler(h), ~ClaimJob(h), ~CompleteJob(h) PROVE UNCHANGED job
  <2>1. ASSUME NEW r \in Runs, Accept(h, r) \/ CloseRun(h, r) PROVE UNCHANGED job
    BY <2>1 DEF Accept, CloseRun, state
  <2>2. CASE Client(h) \/ CloseRefused(h) \/ AuthorizePath(h) \/ ReadBody(h) \/ ValidateTicket(h) \/ Conflict(h) \/ VerifyAgent(h)
    BY <2>2 DEF Client, Authenticate, CloseRefused, AuthorizePath, ReadBody, ValidateTicket, Conflict, VerifyAgent, state
  <2> QED BY <1>3, <2>1, <2>2 DEF Handler
<1>4. ASSUME NEW r \in Runs, Thread(r) \/ ToolActs(r) \/ ToolKilled(r) PROVE UNCHANGED job
  BY <1>4 DEF Thread, ToolActs, ToolKilled, Unmoved, StartTool, ToolReturns, Emit, EmitPosts, Alarm, AlarmPosts,
              Append, Post, FunctionEnds, Settles, state
<1>5. ASSUME NEW c \in Controllers, (ControllerStarts(c) /\ Unmoved) \/ ServerDies(c) PROVE UNCHANGED job
  BY <1>5 DEF ServerDies, Unmoved, state
<1>6. CASE Administrator
  BY <1>1, <1>6 DEF Administrator, RolesChange, TicketsChange, EditSaves, EditLoads, state
<1>7. CASE UNCHANGED vars
  BY <1>1, <1>7 DEF vars, state
<1> QED BY <1>1, <1>2, <1>3, <1>4, <1>5, <1>6, <1>7 DEF Next

(* Only an enrolment that saves changes the registry of agents, in the     *)
(* agent it is about.                                                      *)
LEMMA EditStep ==
  ASSUME FileTypes, EditsInv, [Next]_vars
  PROVE  /\ EditsInv'
         /\ \A p \in Agents : agents'[p] # agents[p] => \E a \in Admins : edit[a] # None /\ edit[a].agent = p
<1> DEFINE Goal == /\ EditsInv'
                   /\ \A p \in Agents : agents'[p] # agents[p] =>
                        \E a \in Admins : edit[a] # None /\ edit[a].agent = p
<1>1. CASE UNCHANGED <<agents, edit>>
  BY <1>1 DEF EditsInv
<1>2. ASSUME NEW a \in Admins, EditSaves(a) PROVE Goal
  <2>1. edit[a] # None /\ agents' = edit[a].content /\ edit' = [edit EXCEPT ![a] = None]
    BY <1>2 DEF EditSaves
  <2>2. \A b \in Admins : edit'[b] = None
    BY <2>1 DEF EditsInv, FileTypes
  <2>3. EditsInv'
    BY <2>2 DEF EditsInv
  <2>4. ASSUME NEW p \in Agents, agents'[p] # agents[p] PROVE edit[a].agent = p
    BY <2>1, <2>4 DEF EditsInv
  <2> QED BY <2>1, <2>3, <2>4
<1>3. ASSUME NEW a \in Admins, NEW p \in Agents, NEW token \in Tokens \cup {None}, EditLoads(a, p, token)
      PROVE  Goal
  <2> DEFINE new == [agent |-> p, content |-> [agents EXCEPT ![p] = token]]
  <2>1. /\ \A b \in Admins : edit[b] = None
        /\ edit' = [edit EXCEPT ![a] = new] /\ agents' = agents
    BY <1>3 DEF EditLoads, RegistryFree
  <2>2. edit'[a] = new /\ \A b \in Admins : b # a => edit'[b] = None
    BY <2>1 DEF FileTypes
  <2>3. \A q \in Agents : q # p => new.content[q] = agents[q]
    BY DEF FileTypes
  <2>4. EditsInv'
    BY <2>1, <2>2, <2>3 DEF EditsInv
  <2> QED BY <2>1, <2>4
<1>4. ASSUME NEW h \in Handlers, Client(h) \/ Handler(h) PROVE UNCHANGED <<agents, edit>>
  <2>1. ASSUME NEW r \in Runs, Accept(h, r) \/ CloseRun(h, r) PROVE UNCHANGED files
    BY <2>1 DEF Accept, CloseRun
  <2>2. CASE Client(h)
    BY <2>2 DEF Client, Authenticate, files
  <2>3. CASE CloseRefused(h) \/ AuthorizePath(h) \/ ReadBody(h) \/ ValidateTicket(h) \/ Conflict(h)
             \/ VerifyAgent(h) \/ ClaimJob(h) \/ CompleteJob(h)
    BY <2>3 DEF CloseRefused, AuthorizePath, ReadBody, ValidateTicket, Conflict, VerifyAgent, ClaimJob, CompleteJob, files
  <2> QED BY <1>4, <2>1, <2>2, <2>3 DEF Handler, files
<1>5. ASSUME NEW r \in Runs, Thread(r) \/ ToolActs(r) \/ ToolKilled(r) PROVE UNCHANGED <<agents, edit>>
  BY <1>5 DEF Thread, ToolActs, ToolKilled, Unmoved, StartTool, ToolReturns, Emit, EmitPosts, Alarm, AlarmPosts,
              Append, Post, FunctionEnds, Settles, files
<1>6. ASSUME NEW c \in Controllers, (ControllerStarts(c) /\ Unmoved) \/ ServerDies(c) PROVE UNCHANGED <<agents, edit>>
  BY <1>6 DEF ServerDies, Unmoved, files
<1>7. CASE Administrator
  <2>1. ASSUME NEW roles \in RoleMaps, RolesChange(roles) PROVE UNCHANGED <<agents, edit>>
    BY <2>1 DEF RolesChange
  <2>2. ASSUME NEW approved \in SUBSET Tickets, TicketsChange(approved) PROVE UNCHANGED <<agents, edit>>
    BY <2>2 DEF TicketsChange
  <2> QED BY <1>1, <1>2, <1>3, <1>7, <2>1, <2>2 DEF Administrator
<1>8. CASE UNCHANGED vars
  BY <1>1, <1>8 DEF vars, files
<1> QED BY <1>1, <1>2, <1>3, <1>4, <1>5, <1>6, <1>7, <1>8 DEF Next

(* The invariant holds *)

LEMMA ControlInit == Init => ControlInv
<1> SUFFICES ASSUME Init PROVE ControlInv
  OBVIOUS
<1>1. RegistryTypes /\ \A r \in Runs : disk[r] = NoRecord /\ worker[r] = "none"
  BY TypesInit DEF Init, RegistryInit
<1>2. FileTypes
  BY ControlAssumption DEF Init, FileTypes
<1>3. RequestTypes /\ RequestsInv
  BY DEF Init, RequestTypes, RequestsInv
<1>4. JobTypes /\ AgentWasEnrolled
  BY NoGrantType DEF Init, JobTypes, AgentWasEnrolled
<1>5. EditsInv
  BY DEF Init, EditsInv
<1>6. NoSubject \in SubjectRecords /\ Lawful(NoSubject) /\ \A g \in SealsOf(NoSubject) : g.run = None
  BY NoGrantType DEF NoSubject, SubjectRecords, SubjectStates, Lawful, SealsOf
<1>7. \A on \in Subjects : /\ subject[on] \in SubjectRecords /\ Lawful(subject[on])
                           /\ \A g \in SealsOf(subject[on]) : g.run = None
  <2>1. scene.found \in SubjectRecords /\ Lawful(scene.found) /\ \A g \in SealsOf(scene.found) : g.run = None
    BY ControlAssumption DEF Init
  <2> QED BY <1>6, <2>1 DEF Init, Subjects
<1>8. SubjectsInv /\ subject \in [Subjects -> SubjectRecords]
  <2>1. subject = [on \in Subjects |-> subject[on]]
    BY DEF Init, Subjects
  <2> QED BY <1>7, <2>1 DEF SubjectsInv, SubjectInv, SealsOf
<1>9. ThreadTypes
  BY NoGrantType DEF Init, ThreadTypes, ThreadPlaces
<1>10. GrantsInv /\ KeyExclusive /\ DeedsInv /\ LogInv
  BY <1>1 DEF Init, GrantsInv, KeyExclusive, Running, Executing, DeedsInv, DeedInv, LogInv, NotesInv
<1>11. PlacesInv
  BY <1>1 DEF Init, PlacesInv, PlaceInv
<1>12. RunsInv
  <2>1. inspection = NoInspection /\ \A c \in Controllers, r \in Runs : cache[c][r] = NoRecord
    BY DEF Init, RegistryInit
  <2> QED BY <1>1, <2>1, AbsentRecord DEF Init, RunsInv, RunInv, Running, Executing
<1> QED BY <1>1, <1>2, <1>3, <1>4, <1>5, <1>8, <1>9, <1>10, <1>11, <1>12 DEF ControlInv, Core

LEMMA ControlStep ==
  ControlInv /\ [Next]_vars =>
    /\ ControlInv' /\ RegistryStep
    /\ \A p \in Agents : agents'[p] # agents[p] => \E a \in Admins : edit[a] # None /\ edit[a].agent = p
<1> SUFFICES ASSUME ControlInv, [Next]_vars
             PROVE  /\ ControlInv' /\ RegistryStep
                    /\ \A p \in Agents : agents'[p] # agents[p] =>
                         \E a \in Admins : edit[a] # None /\ edit[a].agent = p
  OBVIOUS
<1> USE DEF ControlInv
<1>1. RegistryStep
  BY StepImplements
<1>2. RegistryTypes'
  BY <1>1, TypeStep DEF RegistryStep
<1>3. FileTypes' /\ RequestTypes' /\ RequestsInv'
  BY RequestStep
<1>4. Core' /\ JobTypes' /\ AgentWasEnrolled'
  BY CoreStep, JobStep
<1> QED BY <1>1, <1>2, <1>3, <1>4, EditStep

LEMMA ControlInvariant == Spec => []ControlInv
BY ControlInit, ControlStep, PTL DEF Spec

(* The control plane runs its tools as the registry runs its threads:      *)
(* every step is one of the registry, or leaves it alone (do_POST,         *)
(* start_run).                                                             *)
THEOREM ControlImplementsRegistry == Spec => RegistrySpec
<1>1. Init => RegistryInit
  BY DEF Init
<1> QED BY <1>1, ControlInit, ControlStep, PTL DEF Spec, RegistrySpec, RegistryStep

(* Whatever a seal, an approval's ticket or a job says of its author was   *)
(* so, of the caller, at some moment of the request, however the files     *)
(* changed meanwhile (do_POST, _authorize_path, _require_role).            *)
THEOREM CallersStayEntitled == Spec => []CallersAreEntitled
<1>1. ControlInv => CallersAreEntitled
  <2> SUFFICES ASSUME ControlInv PROVE CallersAreEntitled
    OBVIOUS
  <2> USE DEF ControlInv, Core
  <2>1. \A h \in Handlers : /\ request[h].stage \in Stages
                            /\ request[h] # NoRequest => up[request[h].on] = "up"
    <3>1. NoRequest.stage \in Stages
      BY RequestRecords DEF Stages
    <3> QED BY <3>1 DEF RequestTypes, Requests
  <2>2. \A r \in Runs : at[r] \in {"idle", "waiting", "emit", "post", "end"} \/ ~Running(r)
    BY DEF PlacesInv, PlaceInv, Running, Executing
  <2>3. ControlTypeOK
    BY <2>1, <2>2 DEF ControlTypeOK, RegistryTypes, FileTypes, JobTypes, ThreadTypes
  <2>4. SealedByEntitledCaller
    BY DEF SealedByEntitledCaller, Seals, SubjectsInv, SubjectInv, Lawful, SealsOf
  <2>5. TicketWasApproved
    BY DEF TicketWasApproved, SubjectsInv, SubjectInv, Subjects
  <2> QED BY <2>3, <2>4, <2>5 DEF CallersAreEntitled
<1> QED BY <1>1, ControlInvariant, PTL

(* No caller puts two of the three seals of a plan, a rollback plan or a   *)
(* recovery request (the tools compare authors; do_POST makes them the     *)
(* callers).                                                               *)
THEOREM CredentialsStayThree == Spec => []ThreeCredentials
<1>1. ControlInv => ThreeCredentials
  <2> SUFFICES ASSUME ControlInv, NEW on \in Subjects,
                      NEW i \in 1..3, NEW j \in 1..3, i # j
               PROVE  LET s == subject[on]
                          behind == <<s.requester.by, s.approver.by, s.operator.by>>
                      IN behind[i] # None => behind[i] # behind[j]
    BY DEF ThreeCredentials
  <2>1. Lawful(subject[on])
    BY DEF ControlInv, Core, SubjectsInv, SubjectInv
  <2>2. i \in {1, 2, 3} /\ j \in {1, 2, 3}
    OBVIOUS
  <2> QED BY <2>1, <2>2 DEF Lawful
<1> QED BY <1>1, ControlInvariant, PTL

(* One run at a time works on a key, with servers that overlap as well;    *)
(* what is filed as succeeded or told of a plan did what its route asks,   *)
(* or is an execute-remaining that found nothing to execute, and no        *)
(* failure is told of it (start_run, worker, emit).                        *)
THEOREM DeedsAreTold == Spec => []RunsTellDeeds
<1>1. ControlInv => RunsTellDeeds
  <2> SUFFICES ASSUME ControlInv PROVE RunsTellDeeds
    OBVIOUS
  <2> USE DEF ControlInv, Core
  <2>1. \A r \in Runs : DeedDone(r) => Did(r)
    BY DEF DeedDone, Shows, Did
  <2>2. EventsTellDeeds
    BY <2>1 DEF LogInv, NotesInv, Told, EventsTellDeeds
  <2>3. FailureIsOnFile
    BY DEF LogInv, Told, FailureIsOnFile
  <2>4. SucceededRunsDid
    <3>1. SUFFICES ASSUME NEW r \in Runs, disk[r].status = "succeeded"
                   PROVE  /\ Did(r) \/ FoundNothing(r)
                          /\ \A e \in audit : e.run = r => e.event \notin {"plan.execute.failed", "run.failed"}
      BY DEF SucceededRunsDid
    <3>2. tool[r] \in {"done", "idle"}
      BY <3>1 DEF RunsInv, RunInv, Returned
    <3>3. Did(r) \/ FoundNothing(r)
      BY <2>1, <3>2 DEF DeedsInv, DeedInv
    <3>4. \A e \in audit : e.run = r => e.event \notin {"plan.execute.failed", "run.failed"}
      BY <3>1, <3>2 DEF LogInv, Told
    <3> QED BY <3>3, <3>4
  <2> QED BY <2>2, <2>3, <2>4 DEF RunsTellDeeds
<1> QED BY <1>1, ControlInvariant, PTL

(* No enrolment undoes the revocation of another agent (opu-agent-enroll). *)
THEOREM RevocationsHold == Spec => RevocationHolds
<1>1. ControlInv /\ [Next]_vars =>
        [\A p \in Agents : agents'[p] # agents[p] =>
           \E a \in Admins : edit[a] # None /\ edit[a].agent = p]_agents
  BY ControlStep
<1> QED BY <1>1, ControlInvariant, PTL DEF Spec, RevocationHolds
=============================================================================
