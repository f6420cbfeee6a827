# Oracle Patching Utility: TLA+ models, checks and proofs

The Oracle Patching Utility drives patches of Oracle databases and Grid
Infrastructure through *sealed plans*: a plan is created from evidence about its
hosts, approved, authorised and dispatched as a list of typed tasks; each task
is leased to a worker, run by a typed executor on its host, and its evidence is
verified and taken into custody before the next task may run. A web control
plane starts all of this on behalf of people and agents, over SSH or through a
pull queue. This directory models the part of the program that decides who may
change what, and in which order, while processes die between any two writes.

Source paths are relative to the repository's root (`src/` in PROJECT.json).

## 1. The system

| Part | State it keeps | Operations | Interacts with |
|---|---|---|---|
| Plan controller, `bin/opu-patch-plan` | per plan: state, approval, authorization, task files, custody, attempts, audit log; for all plans: the host reservation registry | create(-rollback), approve, authorize, dispatch, next, claim, renew, complete, reconcile, retry-task | executors call claim, renew, complete; the web plane calls the rest |
| Plan lock, `lock`/`unlock` there | `.task-lock/`, `.task-lock/pid` | mkdir, write the PID, reclaim, remove | every controller command that writes a plan |
| RAC executors, `bin/opu-database-rac-node-patch`, `-rollback` | target binding, drain state, marker files, evidence | nine stages each: precheck, drain, stop, opatch, start, validate, datapatch, final validation | Clusterware, OPatch, datapatch; the controller through claim/renew/complete |
| Pull queue, `webapp/agent_queue.py` | a job file per sealed task, its history | publish, claim, renew, defer, complete, reconcile | reads the sealed task through `task-status` |
| Worker, `webapp/agent_worker.py` | none but its process | claim a job, launch the executor, renew, settle | queue and executor |
| Run registry, `webapp/pipeline_runner.py` | `runs/<id>/run.json`; per server: table of runs, table of active keys, threads | start_run, thread, set_execution_context, get_run, reconcile_run | every handler that works in the background |
| Live execution, `webapp/planctl.py` and handlers | the controller's and each host's copy of a plan; launch directories on hosts | push, record, launch, poll, import, verify; execute-next, execute-remaining, retry-task, reconcile | registry, SSH, executors |
| Evidence pipeline, `webapp/pipeline_steps.py`, `evidence.py` | one directory of documents per host: snapshots, reconciliation, artifact, procedure, compatibility, readiness | one function per step, the readiness chain, media staging, the discovery request | native tools on hosts; a plan's `create`, `approve`, `authorize`, `dispatch` read the documents |
| Host tools, `webapp/tools_sync.py` | the runtime, its stamp and its install lock on each node; per server what it saw in the last 30 s | ensure_host_tools, the installer script | every remote step and launch |
| Server gate, `webapp/server.py`, `auth.py`, `itsm.py`, `agent_enroll.py`, `notifications.py`, `recoveryctl.py` | `principals.json`, `change-tickets.json`, agent registry, `events.jsonl`, dead letters | a POST: credential, role, body, ticket, run, native tool, event | registry, native tools, queue |
| Single-instance, Grid, OPatchAuto, OJVM and out-of-place executors | as the RAC executors | their stages | as the RAC executors |
| Detached jobs, journal, Data Guard tools, collectors, user interface | see PROJECT.json `components` | | |

Behaviours that are hard here:

* **Crashes between durable writes.** No command has a transaction. `complete`
  alone copies evidence, replaces the task file, seals it, moves the plan's
  state, appends to the audit log and releases hosts. Every later command runs
  over whatever a dead one left. The same holds of a step of the pipeline, of a
  run's last write and of an installer that is killed between two moves.
* **Work that outlives its starter.** A stage outlives its supervisor, an
  executor the session that launched it, an installer its timeout, a native tool
  the server. Whoever comes next must not take it for ended.
* **Several copies, several authorities.** A plan is on the controller and on
  each host, and each copy replaces another whole. A run is in the memory of
  several servers and on file. The queue's job and the sealed task change under
  different locks.
* **Reads and uses apart.** Roles, tickets, tokens, snapshots and media are read,
  and used later; an administrator, another request or another caller may have
  replaced them meanwhile.
* **Time.** Leases, the maintenance window, readiness, late evidence, and a
  cache of 30 seconds.
* **Retries.** What may be repeated depends on what a failed attempt reported,
  which depends on the moment at which it failed.

What makes each part correct:

* controller: no two unfinished plans share a host; a success is backed by a
  custodied, sealed success of every task; recorded outcomes are final; a
  failure stops the run; no attempt is repeated unless its failure was safe;
  requester, approver, operator and the workers of a rolled-back plan differ;
  leases stay inside the window; every command ends;
* lock: two commands never work on one plan at the same time;
* RAC executors: one instance out at a time, no service lost, datapatch on a
  whole patched cluster only, never a start from a torn home, reports that are
  never better than the truth, services restored;
* queue: one executor per node and plan, no second delivery of launched work,
  results taken from the sealed task, attempts without gaps, no job claimed
  for ever;
* registry and live execution: one piece of work per key, no attempt done twice,
  no copy pushed over work in progress, no success lost, a run closed only on
  what has ended and is verified, every run's function returns;
* evidence: a card that says ready rests on the snapshots that are there, a
  verdict is about the media that is there, a plan binds documents that agree;
* host tools: a stamp is never a lie, the tool that runs is one of its caller's
  version, a torn runtime becomes whole;
* gate: nothing is on file that its caller was not entitled to, a plan takes
  three credentials, revocations hold, runs and events tell what was done.

## 2. Modules

| Module | Models |
|---|---|
| `PlanStages` | task lists that `dispatch` writes for each adapter, success classes, stages that may be retried |
| `PatchPlan` | the controller, one action per durable write |
| `HostExclusion` | abstract: what the reservation registry promises |
| `PlanLock` | the lock, one action per system call |
| `RacRolling` | the RAC executors on a cluster |
| `RollingUpgrade` | abstract: what a rolling patch promises the cluster |
| `AgentQueue` | queue and worker |
| `RunRegistry` | the run registry: memory of each server, run files, threads, reconciles |
| `LiveExecute` | live execution over SSH; extends `RunRegistry` and implements it |
| `EvidencePipeline` | the documents of one host, the steps that write them, the plan that is sealed from them |
| `ControlPlane` | a POST from its credential to its event; extends `RunRegistry` |
| `HostTools` | ensure_host_tools and the installer script |
| `*Properties` | what is promised of each |
| `*Proofs` | the proofs about `PatchPlan` (with `PlanLock`), `RacRolling`, `AgentQueue`, `RunRegistry`, `LiveExecute`, `EvidencePipeline`, `ControlPlane`, `HostTools` |
| `MC*` | constants of the instances for TLC |

How they compose:

* `PatchPlan` and `RacRolling` both use `PlanStages`, so that the list the
  controller writes and the list the executors act on is the same list.
* `LiveExecute` and `ControlPlane` are `RunRegistry` with the functions that its
  threads run filled in: each of their actions is one of the registry's actions
  together with steps of its own, or leaves the registry alone. Both are proved
  to implement `RegistrySpec`, and `LiveExecute` is checked to as well.
* `RacRolling` keeps of the controller the serial claim, completion, lease
  expiry and retry. `AgentQueue` keeps of it the status and generation of each
  sealed task, and of an executor whether it holds one. `LiveExecute` keeps of a
  copy of the plan status and generation of each task, and `ControlPlane` of a
  plan its state and the three actors it seals.
* `RacRolling` implements `RollingUpgrade`, `PatchPlan` with its reservations
  `HostExclusion`.
* `PatchPlan` takes for granted that the plan lock excludes. `PlanLock` says when
  it does (`ExclusiveUnlessReclaimed`) and when it does not (section 5).

Definitions under a comment "Mutant" are wrong variants of the definition that
follows them; nothing uses them. They are kept to show which mistake each
property detects (PROJECT.json `mutants`).

### PatchPlan

A plan's files are variables indexed by plan: `state`, `approver`, `operator`,
`sourceActors` (the actors a rollback sealed), `dispatched`, `tasks` (status,
generation, claimant, expiry, lateness, seal), `custody`, `archive`,
`lastPause` and `successLogged` (what commands read back from the audit log),
and `owner`, the reservation of each host.

`at[p]` is the place of the command that holds the lock of plan `p` and
`req[p]` its arguments and what it read. A command begins with an action that
makes its checks (`BeginClaim`, `BeginComplete`, ...) and goes on with one
action per write (`TakeCustody`, `RecordResult`, `SealResult`, `PauseRun`,
`LogPause`, ...). `Crash` forgets the place and keeps the files, and may strike
in front of every write. `create-rollback` and `dispatch`'s reservation read and
write other plans' files, so they interleave with those plans' commands.

The clock is a bounded counter; `Bounded` clips a lease to the window as
`bounded_lease_expiry` does. A report is a postcondition and an outcome class;
a document digest decides a branch or is left out.

### RacRolling

Instances, homes, services and the SQL registry belong to Oracle; they change
by `srvctl`, `opatch` and `datapatch` steps, which may fail with or without
their effect. A stage is a program of steps (`Program`); each check may fail
because its query does. `SupervisorDies`, `HeartbeatFails` and `LeaseExpires`
may happen at any step, and a stage without supervisor goes on. The markers
(`instance-down`, `binary-state-unknown`, ...) are written by the steps that
write them in the code, and `Report` derives the outcome from them as
`derive_outcome` and `emit_evidence` do.

### AgentQueue

A critical section under `.queue.lock` is one action. `complete`,
`defer_pending` and `reconcile` leave the lock to ask the controller and take it
again: they are three actions each (`...Check`, `...Read`, `...Write`), and
anything may happen in between. Agents die anywhere; executors go on without
them, are refused or end without a report.

### PlanLock

`Mkdir`, `Look` (read the PID, ask `kill -0`, take the age), `RemovePid`,
`RemoveDir`, `Record`, `Wait`, `Unlock`, `Die`. `Age` makes a directory older
than 60 seconds.

### RunRegistry

`disk` is the run files, `cache` and `active` the tables RUNS and _ACTIVE_KEYS
of each server process, `worker` the thread of a run. `start_run` asks both its
memory and the files, under the file lock of the registry: `StartRun`. A thread
keeps memory and file together until its function ends (`Save`); then memory
changes first (`WorkerEnds`) and the file later (`Settle`), or never
(`SettleFails`). `reconcile_run` of a detached run holds the file lock while it
inspects the host: `inspection` is who holds it, and what the inspection does is
left to the module that extends. `get_run` keeps what it has loaded once
(`GetRun`). A restart is another controller; `Overlap` says whether it may come
up before the old one is gone.

### LiveExecute

`local` and `host[n]` are the copies of the plan, `launch[j]` a launch: where
its command and process are, what it did and its exit record. `at[r]` is the
place of a run's function: `Select`, `Push`, `RecordLaunch`, `Launch`, the poll,
`Import`, `Verify`, `Return`, each with a failure. A session that fails may have
had its effect, and a launch command that was sent may arrive later (`Arrive`). `look` is
the place of a reconcile, which goes through poll, import and verdict as well.
Executors claim and complete on their host's copy, refuse, are killed, or are
lost with the host. `RetryTask` changes the controller's copy at any time.

### EvidencePipeline

A step is a sequence of operations, each of which reads or writes one document,
calls one tool, or works on one node; `Discovery`, `Reconcile`, `Inspect`,
`Validate`, `Collect`, `Combine`, `Evaluate`, `Stage` and `Chain` are the
sequences of the code, in its order. Two actors execute such sequences on the
same files: the run that holds the host's key, and the visit, which is the
discovery request and holds none. Either may stop before any operation. A third,
the planner, verifies the documents (`Verify`), hashes them again for the seal
(`Seal`), verifies them at approval (`Reverify`) and on the host (`Precheck`).
The readiness tool refuses a procedure that is not ready; everything else it
finds wrong, other media than the procedure's included, closes a gate of the
document it writes (`Gates`). A digest is modelled by what it is taken of: the
number of a snapshot, the version of the media, the document itself.

### ControlPlane

`Authenticate`, `AuthorizePath`, `ReadBody`, `ValidateTicket`, `Accept` are the
lookups of a POST in their order, each at a moment of its own; `RolesChange` and
`TicketsChange` may come between any two. A run's thread starts the native tool,
waits, emits, ends, settles and raises the alarm; the tool acts by itself, also
when the server is gone, and may be killed after it acted. `Moves` is what it
may do: the decisions of the controller (only the authorizing operator
dispatches), the recovery tool, and the two executions. execute-next and
execute-remaining share an operation key (`KeyOf`) and differ in two ways.
execute-next does one task, while execute-remaining goes on, round by round
(`Rounds`, `tool` "going"), and other actors may move the plan between two
rounds. And execute-next raises on a plan that is neither running nor succeeded,
while execute-remaining stops there and returns normally (`RunsOut`); `tool` is
"idle" when nothing was executed at all. A failed task pauses the plan and
raises in both. Every seal keeps, as history, the caller and what held of it
during the request, and `asked` the route of a run. Enrolment is two steps under
the registry's lock (`EditLoads`, `EditSaves`). A behaviour is about one scene:
the routes in use and the state of the plan found; scenes cut the product of
routes that do not meet.

### HostTools

A thread asks node by node: known by the cache (`Enter`), by the stamp
(`PullMatches`), or by an installation (`Push`, `Return`). The installer is a
process with its commands as actions: `TakeLock`, `Install` (the stamp is
removed), `MoveAside`, `MoveIn`, `WriteStamp`; it stops between any two, loses
its session, or puts back what it moved. `Upgrade` changes the files of a
server, which recomputes its fingerprint at every request.

## 3. Runs

`host_tools` is checked for deadlock: its threads ask for ever. All other
configurations set `CHECK_DEADLOCK FALSE`, because those systems do stop: a plan
that succeeded has no further command, a paused plan whose failure may not be
repeated waits for a human, processes of the lock are done, and the bounds on
clock, retries, runs, snapshots and crashes end behaviours too.

| Run | Instance | Distinct states | Shows |
|---|---|---|---|
| `plan_exclusion` | 3 plans, 2 hosts, the middle one overlapping both, 1 crash | 289k | reservations are held, hosts and leases are exclusive, `HostExclusion` is implemented |
| `plan_run` | the last three tasks of a standalone plan, clock to 4, 3 kinds of failure, 1 retry, 1 crash | 583k | failures stop the run, leases end with the window, success is earned, outcomes are final, custody is written once, no blind retry, separated duties, every command ends |
| `plan_lineage` | an apply plan and its rollback, 4 actors, 1 crash | 54k | a cluster rollback seals everyone its source rests on |
| `rac_rolling` | 3 nodes, a service on each of two, 2 retries | 25k | one node out, services up and back, datapatch last, honest reports, `RollingUpgrade` is implemented, an outcome for every task whose supervisor lives |
| `queue_exclusion` | 3 jobs, 2 plans, 2 nodes, 2 agents, 1 operator | 1.8M | one executor per node and plan, no second delivery |
| `queue_outcome` | 1 job, 2 operators, 2 retries, manual runs, publisher dies | 132k | results are the sealed task's, attempts chain, no job stays claimed |
| `lock_reclaim` | 3 processes, 2 tries | 64.6k | exclusion without reclaim, every call returns |
| `live_execute` | 2 servers one after the other, 2 runs, 3 launches, a task on each of 2 hosts, 1 retry | 90k | one executor and one execution per attempt, closed runs are true, no push under an executor, no success lost, the registry is implemented, every run's function returns |
| `evidence_pipeline` | 2 nodes, 2 versions of the media, 3 snapshots of a node, 3 runs, 1 visit | 1.06M | evidence is current, a finished chain can be planned, a prechecked plan binds |
| `control_plane` | 3 people, 7 scenes, 2 runs, 2 servers that overlap in one scene, 2 administrators, writes that fail | 728k | entitled callers, three credentials, runs and events tell deeds, revocations hold |
| `host_tools` | 2 servers, 3 threads, 1 node, 2 parts, 2 installers, 2 versions, 1 fault | 984k | stamps tell the runtime, tools are their caller's, torn runtimes are repaired |

One more run, `rac_rollback_datapatch`, expects a violation (section 5).

Some properties are conjunctions of named parts that one mistake or another
would break, each stated with its own comment in the module:

* `ClusterServes`: one node out, no service without an instance.
* `ReportsAreHonest`: a torn home freezes the plan, is never reported as less
  than unknown, and a lost heartbeat never counts as success.
* `DeliveredOnce`: one executor per node and plan, nothing launched is queued.
* `ExecutedOnce`: one run per key, work in progress is on file, one executor of
  the plan alive, and no attempt of a task done twice.
* `ClosedRunsAreTrue`: a resolved run's launches are over, on the verdict that
  exit record and sealed task agree on, and a success has no failed launch.
* `EvidenceIsCurrent`: a ready card rests on the snapshots and the
  reconciliation on file; verdicts name the media that is there. Both exclude
  the states of `torn`: a discovery that was overlapped or broke off, and a
  staging that broke off, leave old cards on file, as the code clears them
  last. `PrecheckedPlanBinds` excludes nothing: what those states can do to a
  plan is caught before its first task.
* `CallersAreEntitled`: seals name their caller, who had the role, and the
  ticket and token were good, at some moment of the request. They are read at
  several, so no one moment at which all held is promised.
* `RunsTellDeeds`: one run per key; the plan or recovery request shows the deed
  of every run that the audit log tells of or its file has as succeeded (`Did`:
  its seal for create, approve and authorize, a plan that has been dispatched for
  dispatch, retry and executions); `plan.execute.failed` is told only when the
  execution ended badly, an alarm only when the failure is on file, and nothing
  is delivered that the audit log does not hold. The one exception is in the
  code and named in the property (`FoundNothing`): execute-remaining that found
  nothing to execute returns normally, whatever the state of the plan, so its
  run is filed and told as a success. `docs/INTEGRATIONS.md:57` promises the
  event for a run that succeeded, which this is, so it contradicts no text.

`ToolsAreOurs` speaks of a node until another installer begins there. The
installer does not look at the stamp once it has the lock, so one that comes
late may put an older version back; nothing in the code promises that a tool
that is running keeps its neighbours.

**Why the bounds suffice.** Exclusion needs two plans that meet on a host and a
third that meets only one of them, so that a reservation freed too early for one
shows at the other. The rivals of `plan_exclusion` have one task each because
the registry does not look at tasks, and no retries: that a retry which died
leaves the exclusion intact is the theorem `OneLease`, not this run. Order
within a run needs a task, one that follows and one beyond it: `plan_run` takes
validation, datapatch and final validation, the three that differ in what may be
retried. Its one crash leaves every remainder of every command, and all later
commands run over each of them; a variant with two tasks and two crashes (197k
states), in which a command also dies over the remains of another, holds too.
One retry gives two generations, enough for custody, archive and report of one
to be confused with those of the other; the queue's runs allow two, since its
attempts chain. In `rac_rolling` three nodes let a survivor differ from the node
that is patched next, a service on each of two nodes makes one that is not moved
back visible, and two retries let two stages of one plan, or one stage twice,
fail. `MaxClaims = 2` lets a job be claimed again after its first claim was
deferred. Three lock processes are a holder, a reclaimer and a third that meets
both.

In `live_execute` two servers are one that dies and one that finds its files,
two runs a lost one and the next on its key, three launches a lost one, its
retry and one of the other host. Two nodes of `evidence_pipeline` let a step
fail between them, three snapshots let a plan's snapshots be overtaken by a
later reconciliation as well as by a discovery, two versions tell old verdicts
from new. `control_plane` needs one handler: requests meet in the registry, at
one action each (`Accept`), and two runs are at work at a time. Its overlapping
servers share one scene, with dispatch and reconcile, because overlap touches
the registry only. In `host_tools` two threads of one server share its cache and
its host locks, the third belongs to a server of another version, two installers
are one orphaned and one sent after it; a fault may tear the runtime, lose the
answer or restart a server. What nodes have to do with each other is their
order in `ensure_host_tools`; the theorem on stamps covers any number of them.

**Fairness.** All of it is weak fairness of actions that one running process
performs by itself. `PatchPlan`: a command in progress takes its next write
(`Proceed`) unless it dies; nobody is obliged to start one. `RacRolling`: a
running stage takes its next step, and its supervisor, while it lives, reports
the end of the stage. Nothing is owed by an operator: a lease that ran out is
noticed only by the manual `reconcile`, so `TasksEnd` promises an outcome for a
task whose supervisor lives, and none for one whose supervisor died.
`AgentQueue`: agents poll and go on until they die, every executor ends, leases
run out. `PlanLock`: each process takes its next step. `LiveExecute`: a run's
thread takes its next step, where every session returns or times out, and the
poll has a deadline and a limit of failures; hosts, executors, operators and
servers owe nothing. `HostTools`: threads go on asking, an installer that was
not stopped goes on, and 30 seconds pass. `TornIsRepaired` needs all three: a
torn node has no stamp, but a server that saw it whole less than 30 seconds ago
does not look.

## 4. Proofs

TLC checks instances; the theorems hold for every value of the constants that
satisfies the modules' assumptions: any plans, hosts, actors, task lists,
windows, servers, keys, runs, nodes, parts, and any number of crashes, retries
and faults.

`PatchPlanProofs`:

* `TypeCorrect`: `Spec => []TypeOK`. `TypeOK` is not inductive: `complete`
  writes into the task file what it was called with. `TypeInv == TypeOK /\
  RequestInv` adds that a command in progress is about a task of its plan and
  carries the kind of result its next write needs.
* `ReservationsHold`, `TargetsStayExclusive`: `Spec => []ReservationHeld`,
  `Spec => []TargetsExclusive`. Whether the release takes hosts from an
  unfinished plan depends on where the releasing command stands. `HostInv ==
  StateAgreement /\ ReservationHeld` adds that a command's place determines the
  plan's state, for instance that a plan at "logged" has succeeded. A host has
  one owner, so two unfinished plans that own their hosts share none.
* `OneLease`: `Spec => []OneLeasePerHost`. `LeaseInv` adds that leases exist in
  unfinished plans only, that a plan has one, and that a claim that has passed
  its checks finds no other lease when it writes.
* `Implements`: `Spec => ExclusionSpec`, under the refinement "unfinished is
  running or paused, finished is succeeded". A step that starts a plan is
  `StartRun`, whose hosts are its own by `HostInv`; one that finishes a plan is
  `FinishRun`; all others stutter.

On top of these:

* `DutiesAreSeparate`: `Spec => []SeparationOfDuties`. The decision is checked in
  one step and sealed in another, and a command that dies may leave it sealed.
  `DutyInv` adds that whoever is sealed or is about to be sealed may be, and that
  the plan's state says which decisions there are.
* `LeasesEndInWindow`: `Spec => []LeaseInsideWindow`, from the bound computed at
  the write (`Bounded`), not from the check that came before it.
* `SuccessIsAlwaysEarned`, `CustodyIsWriteOnce`, `RetriesAreNeverBlind` and the
  action property `OutcomesAreFinal`. `ResultInv` adds that a custodied success
  has the outcome class of its stage (`Graded`), and that a command in progress
  still finds of its task what it found when it began (`OfTask`): a claim a
  pending task, a completion a leased one without custody, a retry a failed one
  whose report is safe. That the safe report is the one of the failure follows
  from there being one record per attempt.
* `LineageIsIndependent`: `Spec => []LineageIndependence`. `LineageInv` adds that
  the source of a sealed lineage has succeeded and does not move any more, so
  what was read without its lock stays true.
* `FailureAlwaysStopsTheRun`: `Spec => []FailureStopsTheRun`. `OrderInv` adds, as
  long as no command has died, that at most one task has a bad result, that its
  plan is paused or about to be, and that a retry leaves none. With a crash the
  theorem says nothing, and section 5 shows why it cannot.

* `MkdirExcludes`, at the end of the module: `LockSpec => []ExclusiveUnlessReclaimed`
  of `PlanLock`. `LockInv`: as long as nobody reclaimed a lock, whoever is past
  `mkdir` made the directory that is there.

`RunRegistryProofs`:

* `RegistryTypesHold`: `RegistryTypes` adds to the types that the owner of a run
  at work has it in its memory, and the holder of the lock what it inspects.
* `RegistryExcludes`, `RegistryRemembers`: `~Overlap => (RegistrySpec =>
  []KeyExclusive)` and `[]WorkIsOnFile`. `RegistryInv` adds `OneUp` (one process
  is up, and one that is not up holds nothing) and `Held` (a run at work is the
  same in memory and on file, is open there and holds its key). `start_run`
  finds any such run on file, so it does not start another; a reconcile has an
  unknown run before it, which is at work nowhere.
* `OutcomesAreFinal`: `~Overlap /\ ~DiskMayFail => (RegistrySpec =>
  OutcomeIsFinal)`. `Recorded` adds that what memory holds to be open is open on
  file, and that a thread about to write an outcome finds the run open or its
  own outcome there. Both assumptions are needed: a second server may write an
  older copy, and a run whose last write failed may be open in memory alone.

`RacRollingProofs`, for any sequence of two or more nodes, services, placement
and retries, both adapters (`RollingAssumption`): `RollingServes`,
`RollingPatchesSqlLast`, `RollingStartsFromNewHome`, `RollingReportsAreHonest`,
`RollingRestoresServices`, and `RollingPatchesNodeByNode`, `Spec => Upgrade!Spec`.

* The task list comes first: task `6 * (n - 1) + k` is stage `k` of node `n`, the
  last two are the cluster's (`TasksAre`, `TaskKinds`). The list is a
  concatenation of blocks of one length, so a formula for its members is enough
  and no induction over nodes is needed.
* `RollingInv` says what holds while the plan is at task `q` (`AtTask`): all tasks
  before it succeeded and none after it was begun; every instance runs but that
  of the node at hand, between its stop and its validation; the homes behind are
  new, and a torn one is the node's at hand, with an attempt that failed and says
  so; an instance about to be stopped has a survivor with its services; and a
  service of one node is there or at the survivor that the drain's record names.
  A stage may fail, lose its supervisor or outlive its lease at every place of its
  program, so the parts speak of how far the attempt came (`Past`).
* For the refinement `RollingUpgrade` has the variables `inst`, `home` and `sql`
  as they are. `AheadInv` adds that the homes ahead are untouched, and that a home
  is patched and an instance started only past the check that the instance is
  down; `StopInOrder` places each node's stop behind the patches of the nodes
  before it and ahead of the others. A stop or start that changes nothing, an
  OPatch that leaves the inventory as it was and a repeated datapatch stutter.

`AgentQueueProofs`, for any tasks, plans, nodes, agents, operators and retries:

* `RecordsAreSound`: types and `RecordInv`: a completed job has the result that
  the controller sealed for its attempt, and so has every call that is about to
  write one; an agent that holds a job's token is about the job's attempt.
* `ResultSealed` and the action property `AttemptsAreChained` follow from it,
  whatever operators start by hand. That `claim` finds a first job at all is
  `FirstOf`, by the least natural number.
* `HandedOutOnce`: `ByHand = {} => (Spec => []DeliveredOnce)`. `DeliveryInv` adds
  where a job, its task and its executor stand to each other (`JobInv`), that an
  agent that may still launch has a task nobody has touched (`AgentInv`), and
  that jobs which are out are on different nodes and of different plans
  (`Apart`). The assumption is needed: the queue learns nothing of an executor
  that an operator starts over SSH, and hands its task to an agent as well.

`LiveExecuteProofs`: `ImplementsRegistry`, `Spec => RegistrySpec`: every step of
a function, an executor, a retry or a reconcile is one of the registry's or
leaves its variables alone. `LiveExcludes`, `LiveRemembers` and
`LiveOutcomesAreFinal` follow from it and the registry's theorems.

* `LiveExecutesOnce`, `LiveClosesTruly`, `LiveNeverPushesUnder`,
  `LiveKeepsSuccess`: `ExecutedOnce` and `ClosedRunsAreTrue` are invariants,
  `NoPushUnderExecutor` and `SuccessKept` hold of every step, if `~Overlap /\
  ~DiskMayFail`. `LiveInv` adds: one run is open at a time; a launch is over and
  what it did is on the controller's copy, or it is the last one of the open run,
  which is in doubt about it (`LaunchInv`); a host's copy that may replace the
  controller's knows every launch and has every success (`Ahead`); all memories
  and the file agree on a run's last launch (`ContextInv`); and the place of a
  function or an inspection says what it relies on there (`FunctionInv`,
  `LookInv`).
  Both assumptions are needed. With `Overlap = TRUE` TLC refutes all four: a second
  server closes by hand, from an older memory, a run whose executor works
  (`ResolvedMeansOver` in section 5). With `DiskMayFail = TRUE` it refutes all but
  `NoPushUnderExecutor`: a run whose last write was lost may be closed on file and
  still unknown in memory, and is then reconciled once more beside the next run. That
  `NoPushUnderExecutor` survives a lost write is checked on the instance only,
  for the invariant it is proved from does not.

`ControlPlaneProofs`, for any people, role files, tickets, tokens, handlers,
servers, runs and scenes, with no assumption but `ControlAssumption` (roles are
maps, routes are operation keys, a scene finds seals the tools can have left):

* `ControlImplementsRegistry`: `Spec => RegistrySpec`.
* `CallersStayEntitled`, `CredentialsStayThree`, `DeedsAreTold`:
  `CallersAreEntitled`, `ThreeCredentials`, `RunsTellDeeds`; `RevocationsHold`:
  the action property `RevocationHolds`.
* `ControlInv` adds that a request past a lookup keeps what the lookup found
  (`Passed`), that a run on file carries the route and the grant of the request
  that made it, that the plan shows the deed of a tool that is done or goes on
  (`DeedsInv`), that an event on file is borne out by its run and the plan
  (`Told`, `LogInv`), that a run at work is on file as its owner has it
  (`RunInv`), and that one administrator edits at a time.
* A deed once shown stays shown, whatever other tools do: a dispatched plan
  stays dispatched and a completed recovery completed (`StateMoves`), and a seal
  is written when its place is empty (`MovesSeal`); so what a plan shows of one
  run survives every move for another (`ShowsStays`).
* None of it needs one server at a time: a run of these routes launches nothing
  detached, so a run whose owner is gone is at work nowhere, and nobody closes
  one whose owner is alive. `RunInv` also holds that whoever owns a record has
  been started, or else a server that starts could come to own work.

`HostToolsProofs`: `ToolsTypesHold` and `StampsTellRuntime`. `ToolsInv` adds to
types and stamps `Waiting` (a thread waits for an installer of its own, which
nobody else waits for), `Progress` (an installer at work has removed the stamp
and replaced every part it has passed) and `AtFirst`. Two installers on one node
never are at work together, since the lock names the one that is; so the parts
that one has replaced are still its own when it writes the stamp.

* `ToolsRunAreOurs`: `ToolsAreOurs`. `ViewsInv` adds that what a thread, a
  server's cache or an installer has seen of a node is still so unless another
  installer began there since, and that while one is at work nobody else has seen
  the node since it began. Threads, servers and installers are told apart by
  their names, hence the disjointness in `ToolsAssumption`.

`EvidencePipelineProofs`, for any nodes, versions of the media, policies and
snapshots, and any number of runs and visits, with no assumption but
`EvidenceAssumption` (at least one node, 0 is no version, an absent document is
none that a tool makes):

* `EvidenceStaysCurrent`, `ChainsArePlannable`, `PrecheckedPlansBind`:
  `EvidenceIsCurrent`, `ChainIsPlannable`, `PrecheckedPlanBinds`, each from
  `EvidenceAlways`, which is `EvidenceInv` and the place of every operation.
* What an actor has still to do is a sequence of operations, so the invariant
  speaks of the suffixes of the programs (`Shape`, `Visiting`): an operation that
  uses a result comes right after the one that makes it, and a program that
  takes snapshots or stages media goes on to drop what rests on them. The lemmas
  about programs come first: every program is put together from fragments, a
  concatenation has the shape of its parts, and a tail keeps it.
* `Holding` says what the run holds for its next operation and what it knows of
  it as long as nobody has touched snapshots or media since; `CardInv` and
  `MediaInv` say it of the files; `PlanInv` says what approval and precheck have
  compared. A discovery and a run may overlap everywhere, and every operation
  may fail.
* The proof found two things that the invariant needed. A visit that is still to
  drop a document must be still to settle the snapshots, or else it could drop
  the card of a chain that ended well; and a reconciliation on file is the
  verdict on the snapshots it names (`Agreements`), or else the snapshots alone
  would not tell two cards apart.

The proofs have one step per action under the step lemma of each invariant;
`Spec => []Inv` follows by temporal logic. In `PatchPlanProofs` one lemma says what
all commands have in common at their start (`InvokeBegins`: only `create` writes
with its checks). A leaf that takes the provers longer than the others names the
one that finds it and the time it may take, so that a slow machine proves it too.

**Only model-checked:** all liveness (`CommandsEnd`, `TasksEnd`, `ClaimsEnd`,
`LockReturns`, `RunsReturn`, `TornIsRepaired`: fairness and ENABLED are out of the
prover's reach). Every safety property that a run checks has a theorem. The proofs
about `PatchPlan` treat the stages of a plan as a constant, so they hold of any list
that `PlanStages` or another release may write.

## 5. Where code and text disagree

`rac_rollback_datapatch` is a run that TLC refutes, and a finding in
PROJECT.json: the RAC rollback's datapatch stage has one name in dispatch and
another in the list of stages that retry-task may repeat
(`bin/opu-patch-plan:1650`), so that it can never be retried, although
`docs/IMMUTABLE_PLAN_CONTROL.md:124-125` permits "an explicitly repeatable
validation/datapatch stage with a known binary state".

Five more statements of the repository are written down as properties that the
configurations do not check, or not with these constants. TLC refutes each in
seconds when it takes the place of the properties of the configuration named,
with the changes named:

| Property | Text | What the code does | Configuration to change |
|---|---|---|---|
| `NoClaimPastFailure` (PROPERTY) | "Failed work pauses the plan." (`docs/IMMUTABLE_PLAN_CONTROL.md:110`) | `complete` seals a failed task (`bin/opu-patch-plan:1562-1571`) and only then pauses the plan (1572); if it dies in between, the next task can be claimed | `plan_run` with `Spec`, `Stages <- ShortStages`, `LeaseChoices = {1}` |
| `RollbackIndependence` (INVARIANT) | "rollback approver must differ from every source apply worker" (`bin/opu-patch-plan:997`) | a single-instance rollback seals the worker of the final task alone (979) | `plan_lineage` with `SealsLineage = {}`, `MaxCrashes = 0` |
| `DatabaseDownBlocked` (INVARIANT) | "a database left down [...] remain[s] blocked" (`docs/IMMUTABLE_PLAN_CONTROL.md:125-127`) | the marker is written (`bin/opu-database-rac-node-patch:742`) after the stop (740); a failure in between counts as no mutation | `rac_rollback_datapatch` with `Adapter = "database_rolling_opatch"` |
| `NeverStealLive` (PROPERTY) | "Never steal from a live complete()/claim() holder" (`bin/opu-patch-plan:235-236`) | a lock directory without a PID is removed at once (245), also when its holder has not written it yet (255) | `lock_reclaim` with `LockSpec` |
| `ResolvedMeansOver` (INVARIANT) | "It cannot clear a detached execution with an unknown outcome or work owned by a still-running controller." (`docs/WEBAPP_CONTROL_PLANE.md:89-90`) | `get_run` never reads a file again (`webapp/pipeline_runner.py:288-296`), so a server that saw a run before its launch, with the other server gone since, closes it by hand while the executor works | `live_execute` with `Spec`, `Overlap = TRUE` |

The hazards of PROJECT.json without a property are these and one more: the
states that a dead command of the controller leaves behind, from which no
command leads out, where no text promises one. Other things a reader should
know of, which no property covers:

* The retry of a drain that failed half-way forgets the services it had moved,
  so `ServicesRestored` speaks of plans without a retry.
* A task that is retried before the queue's job of its failed attempt was
  reconciled cannot be enqueued again; so can a task whose publisher died
  between archive and new job. `AttemptsChain` says how attempts follow one
  another and not that the next one comes.
* An executor that refuses, or is killed, leaves an exit record and a task that
  is not terminal. Import and reconcile find no verdict (`webapp/planctl.py:806-810`,
  `961-965`), and the run stays unknown with its key taken.
* A reconcile after `retry-task` imports the host's copy, in which the task has
  failed, and so undoes the retry. No attempt is done twice all the same
  (`ExecutedOnce`).
* `reconcile_run` holds the file lock of the registry through several SSH
  sessions; `start_run` of every key waits ten seconds for it and raises.
* With two servers at once an outcome on file may be replaced by an older copy
  (`webapp/pipeline_runner.py:250`).
* The tool of a run that was killed, or whose server died, may have acted: what
  succeeded runs and events say is promised, and not that a failed run did
  nothing.
* execute-remaining on a plan that waits for approval, authorization or dispatch,
  or is paused, executes nothing and returns normally (`webapp/planctl.py:1033-1035`);
  its run is filed as succeeded and `plan.execute.succeeded` is told
  (`webapp/server.py:718`). execute-next raises there (`planctl.py:1007-1008`).
  The result of the run says `executed_count` 0 and why; `FoundNothing` is the
  exception of `RunsTellDeeds`.
* The task of a supervisor that died keeps its lease, and the plan waits, until
  somebody calls `reconcile` after the lease has run out.
* The approval of a recovery request passes no ticket gate.

## 6. Not modelled

Inside modelled parts: the controller's read-only worker mode with its
reservation receipt, the Data Guard apply-order check, production
certification, digests that do not decide a branch; in the RAC executors the
verification of documents, recovery points and windows (folded into a failing
precheck) and instances that stop by themselves; in the web plane TEST_MODE and
its executor, lab mode without principals, the GET routes but discovery, the
handlers that renew, defer and publish jobs, the archived history of evidence,
the temporary key of a direct media transfer, the lock of `opu-artifact-stage`,
damaged run files and process numbers that are used again. A native tool of
`ControlPlane` moves its plan in one step (its inside is `PatchPlan`).

Parts left out are listed in PROJECT.json `components`: the executors other than
RAC share its supervisor and evidence protocol and are next in the plan; parsers,
fixtures, user interface and scripts keep no state that a decision here reads.

File replacement by `mv`, `ln` and `write_json_atomic`, `flock` and `file_lock`,
and one-line appends to logs are taken as atomic, as the code relies on them. A
copy of a plan that is sent to a host or back is whole.

## 7. Plan

Done: `PlanStages`, `PatchPlan` with `HostExclusion`, `PlanLock`, `RacRolling`
with `RollingUpgrade`, `AgentQueue`, `RunRegistry` with `LiveExecute` and `ControlPlane` on top of it,
`EvidencePipeline` and `HostTools`, each with its proofs.

Next, in this order:

1. `SingleInstance`: the standalone executors and their rollback, with the same
   supervisor and evidence protocol; shared steps move to a module of their own
   that `RacRolling` uses too.
2. `GridRolling`: manual Grid OPatch and OPatchAuto, the Clusterware stack of a
   node down and up, one node at a time; plans of Grid and database adapters
   that meet on hosts.
3. `OjvmShutdown`, `OutOfPlace`: full shutdown, and the switch of a home with
   its switchback.
4. `ExecutionHost`: the host's lock and attempt directories
   (`lib/opu/execution.sh`) with two executors on one host, composed with
   `LiveExecute`'s launches; the worker's snapshot and receipt.
5. `DetachedJobs` (`lib/opu/jobs.sh`): start, result and cancellation of long
   commands.
6. `RollingUpgrade` implemented by `GridRolling` as well, with the stack of a node
   in the place of its instance.

The proofs of each come with the module; the safety properties of the modules that
are there are proved.
