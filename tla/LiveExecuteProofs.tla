------------------------- MODULE LiveExecuteProofs -------------------------
(***************************************************************************)
(* Proofs about live execution: whatever hosts, sessions and executors do, *)
(* it works the run registry only in the registry's own ways, and keeps    *)
(* what that promises.                                                     *)
(***************************************************************************)
EXTENDS LiveExecuteProperties, RunRegistryProofs, FiniteSetTheorems

(* The run registry *)

(* A step outside the registry leaves it alone; every other is one of its  *)
(* own.                                                                    *)
RegistryStep == [RegistryNext]_registryVars

(* The key of plan execution is an operation key.                          *)
LEMMA KeyIsKey == Keys # {} => ExecuteKey \in Keys
BY DEF ExecuteKey

LEMMA FunctionSteps ==
  ASSUME RegistryTypes, NEW r \in Runs, Function(r)
  PROVE  RegistryStep
<1>1. ASSUME NEW returns \in BOOLEAN, WorkerEnds(r, returns) PROVE RegistryStep
  BY <1>1 DEF RegistryStep, RegistryNext
<1>2. ASSUME NEW context \in Contexts, SetContext(r, context) PROVE RegistryStep
  BY <1>2 DEF RegistryStep, RegistryNext
<1>3. CASE UNCHANGED registryVars
  BY <1>3 DEF RegistryStep
<1>4. CASE Select(r) \/ Push(r) \/ Launch(r) \/ PollFinds(r) \/ Import(r)
  BY <1>3, <1>4 DEF Select, Push, Launch, PollFinds, Import
<1>5. CASE NothingToDo(r)
  BY <1>1, <1>5 DEF NothingToDo
<1>6. CASE PushFails(r) \/ LaunchFails(r) \/ PollGivesUp(r) \/ ImportFails(r)
  BY <1>1, <1>6 DEF PushFails, LaunchFails, PollGivesUp, ImportFails, Raise
<1>7. CASE RecordLaunch(r)
  BY <1>2, <1>7 DEF RecordLaunch, Coordinates, Contexts
<1>8. CASE Verify(r)
  <2>1. [disk[r].context EXCEPT !.terminal = TRUE] \in Contexts
    <3>1. disk[r].context \in Contexts
      BY DEF RegistryTypes, RegistryTypeOK, Record
    <3> QED BY <3>1 DEF Contexts
  <2> QED BY <1>1, <1>2, <1>8, <2>1 DEF Verify, Raise
<1>9. CASE Return(r)
  BY <1>1, <1>3, <1>9 DEF Return, Raise
<1> QED BY <1>4, <1>5, <1>6, <1>7, <1>8, <1>9 DEF Function

(* Every step of live execution is a step of the registry, or none of it.  *)
LEMMA StepImplements ==
  ASSUME Keys # {}, RegistryTypes, [Next]_vars
  PROVE  RegistryStep
<1>1. CASE Registry /\ UNCHANGED liveVars
  BY <1>1 DEF Registry, RegistryStep, RegistryNext
<1>2. ASSUME NEW c \in Controllers, Dies(c) PROVE RegistryStep
  BY <1>2 DEF Dies, RegistryStep, RegistryNext
<1>3. ASSUME NEW c \in Controllers, NEW r \in Runs, NEW many \in BOOLEAN, Accept(c, r, many)
      PROVE  RegistryStep
  BY <1>3, KeyIsKey DEF Accept, RegistryStep, RegistryNext
<1>4. ASSUME NEW r \in Runs, Function(r) PROVE RegistryStep
  BY SMTT(60), <1>4, FunctionSteps
<1>5. ASSUME NEW j \in Jobs, Executor(j) PROVE RegistryStep
  BY <1>5 DEF Executor, Arrive, Claim, Refuse, WriteExit, Killed, Lost, Complete, RegistryStep
<1>6. ASSUME NEW t \in Task, RetryTask(t) PROVE RegistryStep
  BY <1>6 DEF RetryTask, RegistryStep
<1>7. CASE Reconcile
  <2>1. ASSUME NEW outcome \in Resolved \cup {"unknown"}, InspectionEnds(outcome) PROVE RegistryStep
    BY <2>1 DEF RegistryStep, RegistryNext
  <2>2. ASSUME NEW c \in Controllers, NEW r \in Runs, Inspect(c, r) PROVE RegistryStep
    BY <2>2 DEF Inspect, RegistryStep, RegistryNext
  <2>3. CASE LookPoll \/ LookImport \/ LookVerify
    BY <2>1, <2>3 DEF LookPoll, LookImport, LookVerify, Resolved, RegistryStep
  <2> QED BY <1>7, <2>2, <2>3 DEF Reconcile
<1>8. CASE UNCHANGED vars
  BY <1>8 DEF vars, RegistryStep
<1> QED BY <1>1, <1>2, <1>3, <1>4, <1>5, <1>6, <1>7, <1>8 DEF Next

(* Live execution implements the run registry, whatever the hosts do       *)
(* (_execute_live, reconcile_detached_run).                                *)
THEOREM ImplementsRegistry == Spec => RegistrySpec
<1>1. Keys # {}
  BY LiveAssumption, FS_EmptySet
<1>2. Init => RegistryInit /\ RegistryTypes
  <2>1. Init => RegistryInit
    BY DEF Init
  <2> QED BY <2>1, TypesInit
<1>3. RegistryTypes /\ [Next]_vars => RegistryStep /\ RegistryTypes'
  BY <1>1, StepImplements, TypeStep DEF RegistryStep
<1> QED BY <1>2, <1>3, PTL DEF Spec, RegistrySpec, RegistryStep

(* So whatever hosts and sessions do, one run executes the plan at a time  *)
(* (start_run, execute_next_task).                                         *)
THEOREM LiveExcludes == ~Overlap => (Spec => []KeyExclusive)
BY ImplementsRegistry, RegistryExcludes

(* ... a run in progress is found on file ...                              *)
THEOREM LiveRemembers == ~Overlap => (Spec => []WorkIsOnFile)
BY ImplementsRegistry, RegistryRemembers

(* ... and what was recorded of a run stays (reconcile_run).               *)
THEOREM LiveOutcomesAreFinal == ~Overlap /\ ~DiskMayFail => (Spec => OutcomeIsFinal)
BY ImplementsRegistry, OutcomesAreFinal

(* The inductive invariant *)

(* What holds throughout, where one controller runs at a time and every    *)
(* write succeeds.                                                         *)
Sound == RegistryInv /\ Recorded /\ LiveTypeOK /\ LiveInv

(* All runs of this module hold the one key of plan execution.             *)
LEMMA OneKey == Keys # {} /\ \A k \in Keys : k = ExecuteKey
<1>1. PICK k : Keys = {k}
  BY LiveAssumption, FS_Singleton
<1> QED BY <1>1 DEF ExecuteKey

(* The statuses of a record; one that has launched something is a record.  *)
LEMMA StatusCases ==
  ASSUME Sound, NEW r \in Runs
  PROVE  /\ disk[r] \in Record /\ Last(r) \in Jobs \cup {None} /\ disk[r].context.terminal \in BOOLEAN
         /\ (Open(r) => disk[r] # NoRecord /\ disk[r].status \notin Resolved)
         /\ (Last(r) # None => disk[r] # NoRecord)
         /\ (disk[r] # NoRecord => Open(r) \/ disk[r].status \in Resolved)
<1>1. disk[r] \in Record /\ (disk[r] # NoRecord => disk[r].status # "absent")
  BY DEF Sound, LiveTypeOK, RegistryTypeOK
<1>2. Last(r) \in Jobs \cup {None} /\ disk[r].context.terminal \in BOOLEAN
  BY <1>1 DEF Record, Contexts, Last
<1>3. Last(r) # None => disk[r] # NoRecord
  BY DEF Last, NoRecord, NoContext
<1>4. Open(r) => disk[r] # NoRecord /\ disk[r].status \notin Resolved
  BY RecordTypes DEF Open, Unresolved, Resolved
<1>5. disk[r] # NoRecord => Open(r) \/ disk[r].status \in Resolved
  BY <1>1 DEF Record, Open
<1> QED BY <1>1, <1>2, <1>3, <1>4, <1>5

(* While the thread of a run is at work, nothing else is open, and nobody  *)
(* reconciles.                                                             *)
LEMMA Alone ==
  ASSUME Sound, NEW r \in Runs, Running(r)
  PROVE  /\ Open(r) /\ disk[r].status \in Executing
         /\ cache[Owner(r)][r] = disk[r] /\ Owner(r) \in Controllers
         /\ \A q \in Runs : Open(q) \/ Running(q) => q = r
         /\ look = "none" /\ inspection = NoInspection
<1>1. \A q \in Runs : Running(q) => Open(q) /\ disk[q].status \in Executing
  BY DEF Sound, RegistryInv, Held, Open, Executing, Unresolved
<1>2. cache[Owner(r)][r] = disk[r] /\ Owner(r) \in Controllers
  BY WorkerRecord DEF Sound, RegistryInv, Held, Running
<1>3. \A q \in Runs : Open(q) \/ Running(q) => q = r
  BY <1>1 DEF Sound, LiveInv, OneOpen
<1>4. inspection = NoInspection
  <2> SUFFICES ASSUME inspection # NoInspection PROVE FALSE
    OBVIOUS
  <2>1. /\ inspection.by \in Controllers /\ inspection.run \in Runs /\ ~Running(inspection.run)
        /\ cache[inspection.by][inspection.run].status = "unknown"
    BY InspectedRests DEF Sound, RegistryInv, Held
  <2>2. Open(inspection.run)
    BY <2>1 DEF Sound, Recorded, Open
  <2> QED BY <1>3, <2>1, <2>2
<1>5. look = "none"
  BY <1>4 DEF Sound, LiveTypeOK
<1> QED BY <1>1, <1>2, <1>3, <1>4, <1>5

(* During a reconcile the run it inspects is the open one, and no thread   *)
(* is at work.                                                             *)
LEMMA Inspected ==
  ASSUME Sound, inspection # NoInspection
  PROVE  /\ inspection.by \in Controllers /\ inspection.run \in Runs /\ Open(inspection.run)
         /\ cache[inspection.by][inspection.run] # NoRecord
         /\ cache[inspection.by][inspection.run] \in Record
         /\ Seen = Last(inspection.run)
         /\ \A q \in Runs : ~Running(q)
<1>1. /\ inspection.by \in Controllers /\ inspection.run \in Runs /\ ~Running(inspection.run)
      /\ cache[inspection.by][inspection.run].status = "unknown"
      /\ cache[inspection.by][inspection.run] # NoRecord
      /\ cache[inspection.by][inspection.run] \in Record
  BY InspectedRests DEF Sound, RegistryInv, Held, RegistryTypes, InspectionCached, RegistryTypeOK
<1>2. Open(inspection.run)
  BY <1>1 DEF Sound, Recorded, Open
<1>3. Seen = Last(inspection.run)
  BY <1>1 DEF Sound, LiveInv, ContextsInv, ContextInv, Seen, Last
<1>4. \A q \in Runs : ~Running(q)
  BY Alone
<1> QED BY <1>1, <1>2, <1>3, <1>4

(* A run whose last launch is not in doubt leaves no launch in doubt.      *)
LEMMA NoDoubt ==
  ASSUME Sound, NEW r \in Runs, Open(r), ~InDoubt(disk[r])
  PROVE  /\ \A j \in Jobs : launch[j] # NotSent => Done(j) /\ Knows(local, j)
         /\ KnowsAll(local)
<1>1. \A j \in Jobs : ~Doubt(j)
  BY DEF Sound, LiveInv, OneOpen, Doubt
<1>2. \A j \in Jobs : launch[j] # NotSent => Done(j) /\ Knows(local, j)
  BY <1>1 DEF Sound, LiveInv, LaunchesInv, LaunchInv
<1>3. ASSUME NEW j \in Jobs, launch[j] = NotSent PROVE ~Did(j)
  BY <1>3 DEF Did, NotSent
<1>4. KnowsAll(local)
  BY <1>2, <1>3 DEF KnowsAll, Knows
<1> QED BY <1>2, <1>4

(* Whatever is not in doubt any more is over and known.                    *)
LEMMA NoDoubtOf ==
  ASSUME Sound, NEW r \in Runs, Last(r) # None, ~Open(r) \/ ~InDoubt(disk[r])
  PROVE  Done(Last(r)) /\ Knows(local, Last(r))
<1>1. Last(r) \in Jobs
  BY StatusCases
<1>2. launch[Last(r)].run = r /\ launch[Last(r)] # NotSent
  BY DEF Sound, LiveInv, ContextsInv, ContextInv, NotSent
<1>3. ~Doubt(Last(r))
  <2> SUFFICES ASSUME NEW q \in Runs, Open(q), InDoubt(disk[q]), Last(q) = Last(r) PROVE FALSE
    BY DEF Doubt
  <2>1. Last(q) # None
    OBVIOUS
  <2>2. launch[Last(q)].run = q
    BY <2>1 DEF Sound, LiveInv, ContextsInv, ContextInv
  <2> QED BY <1>2, <2>2
<1> QED BY <1>1, <1>2, <1>3 DEF Sound, LiveInv, LaunchesInv, LaunchInv

(* A launch that is not over, or did something its record does not say, is *)
(* the last one of the open run, whose function waits for it.              *)
LEMMA InDoubtIsLast ==
  ASSUME Sound, NEW j \in Jobs, launch[j] # NotSent, ~Done(j)
  PROVE  \E r \in Runs :
           /\ Open(r) /\ InDoubt(disk[r]) /\ Last(r) = j /\ launch[j].run = r /\ j # None
           /\ launch[j].task \in Task /\ Ahead(host[HostOf(j)], j)
           /\ \A q \in Runs : Open(q) => q = r
           /\ \A q \in Runs : ~In(q, "select") /\ ~In(q, "push") /\ ~In(q, "record") /\ ~In(q, "return")
           /\ \A i \in Jobs : launch[i] # NotSent /\ ~Done(i) => i = j
<1>1. Doubt(j) /\ launch[j].task \in Task
  BY DEF Sound, LiveInv, LaunchesInv, LaunchInv
<1>2. PICK r \in Runs : Open(r) /\ InDoubt(disk[r]) /\ Last(r) = j
  BY <1>1 DEF Doubt
<1>3. j # None /\ launch[j].run = r
  BY <1>2 DEF InDoubt, Detached, Last, Sound, LiveInv, ContextsInv, ContextInv
<1>4. \A q \in Runs : Open(q) => q = r
  BY <1>2 DEF Sound, LiveInv, OneOpen
<1>5. Ahead(host[HostOf(j)], j)
  BY <1>2, <1>3 DEF Sound, LiveInv, ContextsInv, ContextInv
<1>6. ASSUME NEW q \in Runs, In(q, "select") \/ In(q, "push") \/ In(q, "record") \/ In(q, "return")
      PROVE  FALSE
  <2>1. Running(q)
    BY <1>6 DEF In, Running, Executing
  <2>2. q = r
    BY <1>4, <2>1, Alone
  <2>3. Last(q) # None /\ FunctionInv(q)
    BY <1>2, <1>3, <2>2 DEF Sound, LiveInv, FunctionsInv
  <2>4. disk[q].context.terminal
    BY <1>6, <2>3 DEF FunctionInv
  <2> QED BY <1>2, <2>2, <2>4 DEF InDoubt
<1>7. ASSUME NEW i \in Jobs, launch[i] # NotSent, ~Done(i) PROVE i = j
  <2>1. Doubt(i)
    BY <1>7 DEF Sound, LiveInv, LaunchesInv, LaunchInv
  <2> QED BY <1>2, <1>4, <2>1 DEF Doubt
<1> QED BY <1>1, <1>2, <1>3, <1>4, <1>5, <1>6, <1>7

(* What is true of a run stays true of it.                                 *)
LEMMA SaysStep ==
  ASSUME NEW r \in Runs, NEW status, Says(r, status),
         disk'[r].context = disk[r].context,
         Done(Last(r)) /\ Knows(local, Last(r)) =>
           launch'[Last(r)] = launch[Last(r)] /\ Knows(local, Last(r))'
  PROVE  Says(r, status)'
<1>1. Last(r)' = Last(r)
  BY DEF Last
<1>2. Done(Last(r)) /\ launch'[Last(r)] = launch[Last(r)] => Done(Last(r))'
  BY <1>1 DEF Done, Over
<1> QED BY <1>1, <1>2 DEF Says, Resolved

(* A step of the registry that leaves copies and launches alone.           *)
LEMMA RegistryKeeps ==
  ASSUME Sound, RegistryTypes', UNCHANGED <<local, host, launch>>,
         \A r \in Runs : disk'[r].context = disk[r].context /\ (Open(r)' => Open(r)),
         \A r \in Runs : Says(r, disk'[r].status),
         \A c \in Controllers, r \in Runs : cache'[c][r] # NoRecord =>
           cache'[c][r].context = disk[r].context /\ Says(r, cache'[c][r].status)
  PROVE  (OneOpen /\ LaunchesInv /\ Once /\ ContextsInv)'
<1>1. OneOpen' /\ Once'
  BY DEF Sound, LiveInv, OneOpen, Once, Did
<1>2. \A r \in Runs : Last(r)' = Last(r) /\ (InDoubt(disk[r]) <=> InDoubt(disk[r])')
  BY DEF Last, InDoubt, Detached
<1>3. ASSUME NEW j \in Jobs PROVE LaunchInv(j)'
  <2>1. LaunchInv(j)
    BY DEF Sound, LiveInv, LaunchesInv
  <2>2. ASSUME Doubt(j), ~Doubt(j)' PROVE Done(j) /\ Knows(local, j)
    <3>1. PICK r \in Runs : Open(r) /\ InDoubt(disk[r]) /\ Last(r) = j
      BY <2>2 DEF Doubt
    <3>2. ~Open(r)' /\ Last(r) # None
      BY <1>2, <2>2, <3>1 DEF Doubt, InDoubt, Detached, Last
    <3>3. disk'[r] # NoRecord /\ disk'[r] \in Record /\ disk'[r].status # "absent"
      BY <1>2, <3>2 DEF Last, NoRecord, NoContext, RegistryTypes, RegistryTypeOK
    <3>4. disk'[r].status \in Resolved
      BY <3>2, <3>3 DEF Open, Record
    <3> QED BY <3>1, <3>2, <3>4 DEF Says
  <2>3. (Done(j) /\ Knows(local, j)) => (Done(j) /\ Knows(local, j))'
    BY DEF Done, Over, Knows, Did
  <2>4. launch[j].run \in Runs => Last(launch[j].run)' = Last(launch[j].run)
    BY <1>2
  <2> QED BY <2>1, <2>2, <2>3, <2>4 DEF LaunchInv, Did, HostOf
<1>4. ASSUME NEW r \in Runs PROVE ContextInv(r)'
  <2>1. ContextInv(r)
    BY DEF Sound, LiveInv, ContextsInv
  <2>2. \A status : Says(r, status) => Says(r, status)'
    BY <1>2 DEF Says, Done, Over, Knows, Did
  <2>3. Says(r, disk[r].status)'
    BY <2>2
  <2>4. ASSUME NEW c \in Controllers, cache'[c][r] # NoRecord
        PROVE  (cache[c][r].context = disk[r].context /\ Says(r, cache[c][r].status))'
    BY SMTT(60), <2>2, <2>4
  <2>5. Ahead(host[HostOf(Last(r))], Last(r)) => Ahead(host[HostOf(Last(r))], Last(r))'
    <3>1. HostOf(Last(r))' = HostOf(Last(r)) /\ Last(r)' = Last(r)
      BY <1>2 DEF HostOf
    <3>2. ASSUME NEW plan PROVE KnowsAll(plan) => KnowsAll(plan)'
      BY DEF KnowsAll, Knows, Did
    <3>3. ASSUME NEW plan, NEW j, Tells(plan, j) PROVE Tells(plan, j)'
      BY <3>3 DEF Tells
    <3>4. ASSUME NEW plan, KeepsSuccess(plan) PROVE KeepsSuccess(plan)'
      BY <3>4 DEF KeepsSuccess
    <3>5. ASSUME NEW plan, NEW j, Ahead(plan, j) PROVE Ahead(plan, j)'
      BY <3>2, <3>3, <3>4, <3>5 DEF Ahead
    <3> QED BY <3>1, <3>5
  <2>6. Tells(local, Last(r)) => Tells(local, Last(r))'
    BY <1>2 DEF Tells
  <2> QED BY <1>2, <2>1, <2>3, <2>4, <2>5, <2>6 DEF ContextInv
<1> QED BY <1>1, <1>3, <1>4 DEF LaunchesInv, ContextsInv

(* Types *)

LEMMA AtTypes ==
  ASSUME NEW r \in Runs, at \in [Runs -> Functions], NEW pc \in Steps, NEW t \in Task \cup {None},
         NEW j \in Jobs \cup {None}, NEW many \in BOOLEAN
  PROVE  /\ [at EXCEPT ![r].pc = pc] \in [Runs -> Functions]
         /\ [at EXCEPT ![r].pc = pc, ![r].task = t] \in [Runs -> Functions]
         /\ [at EXCEPT ![r].pc = pc, ![r].job = j] \in [Runs -> Functions]
         /\ [at EXCEPT ![r] = [Idle EXCEPT !.pc = pc, !.many = many]] \in [Runs -> Functions]
         /\ Idle \in Functions
<1> HIDE DEF Steps
<1>1. [at EXCEPT ![r].pc = pc] \in [Runs -> Functions]
  BY DEF Functions
<1>2. [at EXCEPT ![r].pc = pc, ![r].task = t] \in [Runs -> Functions]
  BY ZenonT(60) DEF Functions
<1>3. [at EXCEPT ![r].pc = pc, ![r].job = j] \in [Runs -> Functions]
  BY ZenonT(60) DEF Functions
<1>4. Idle \in Functions
  BY DEF Functions, Idle, Steps
<1>5. [Idle EXCEPT !.pc = pc, !.many = many] \in Functions
  BY <1>4 DEF Functions
<1>6. [at EXCEPT ![r] = [Idle EXCEPT !.pc = pc, !.many = many]] \in [Runs -> Functions]
  BY <1>5
<1> QED BY <1>1, <1>2, <1>3, <1>4, <1>6

(* A new record of a launch, field by field.                               *)
LEMMA LaunchTypes ==
  ASSUME NEW j \in Jobs, launch \in [Jobs -> Launches], NEW phase \in Phases
  PROVE  /\ [launch EXCEPT ![j].phase = phase] \in [Jobs -> Launches]
         /\ \A gen \in 0..MaxRetries : [launch EXCEPT ![j].phase = phase, ![j].gen = gen] \in [Jobs -> Launches]
         /\ \A did \in Terminal : [launch EXCEPT ![j].phase = phase, ![j].did = did] \in [Jobs -> Launches]
         /\ \A rc \in {0, 1} : [launch EXCEPT ![j].phase = phase, ![j].rc = rc] \in [Jobs -> Launches]
<1> HIDE DEF Phases
<1>1. [launch EXCEPT ![j].phase = phase] \in [Jobs -> Launches]
  BY DEF Launches
<1>2. ASSUME NEW gen \in 0..MaxRetries
      PROVE  [launch EXCEPT ![j].phase = phase, ![j].gen = gen] \in [Jobs -> Launches]
  BY ZenonT(60) DEF Launches
<1>3. ASSUME NEW did \in Terminal
      PROVE  [launch EXCEPT ![j].phase = phase, ![j].did = did] \in [Jobs -> Launches]
  BY ZenonT(60) DEF Launches
<1>4. ASSUME NEW rc \in {0, 1}
      PROVE  [launch EXCEPT ![j].phase = phase, ![j].rc = rc] \in [Jobs -> Launches]
  BY ZenonT(60) DEF Launches
<1> QED BY ZenonT(60), <1>1, <1>2, <1>3, <1>4

LEMMA NotSentTypes == NotSent \in Launches
BY LiveAssumption DEF NotSent, Launches, Phases

(* A new copy on a host, and a new status of a task in one.                *)
LEMMA HostTypes ==
  ASSUME local \in Plan, host \in [Node -> Plan], NEW n \in Node, NEW t \in Task,
         NEW status \in {"pending", "running"} \cup Terminal
  PROVE  /\ [host EXCEPT ![n] = local] \in [Node -> Plan]
         /\ [host EXCEPT ![n][t].status = status] \in [Node -> Plan]
<1>1. [host[n][t] EXCEPT !.status = status] \in [status : {"pending", "running"} \cup Terminal, gen : 0..MaxRetries]
  BY DEF Plan
<1>2. [host[n] EXCEPT ![t] = [host[n][t] EXCEPT !.status = status]] \in Plan
  BY <1>1 DEF Plan
<1> QED BY <1>2

(* The last launch of a run is on its way or was, and has a task and a host. *)
LEMMA LastLaunch ==
  ASSUME Sound, NEW r \in Runs, Last(r) # None
  PROVE  /\ Last(r) \in Jobs /\ launch[Last(r)] # NotSent /\ launch[Last(r)].run = r
         /\ launch[Last(r)].task \in Task /\ HostOf(Last(r)) \in Node
<1>1. Last(r) \in Jobs
  BY StatusCases
<1>2. launch[Last(r)].run = r /\ launch[Last(r)] # NotSent
  BY DEF Sound, LiveInv, ContextsInv, ContextInv, NotSent
<1>3. launch[Last(r)].task \in Task
  BY <1>1, <1>2 DEF Sound, LiveInv, LaunchesInv, LaunchInv
<1> QED BY <1>1, <1>2, <1>3 DEF HostOf, Node

(* A launch that was sent has a task and a host.                           *)
LEMMA SentLaunch ==
  ASSUME Sound, NEW j \in Jobs, launch[j].phase # "none"
  PROVE  launch[j] # NotSent /\ launch[j].task \in Task /\ HostOf(j) \in Node
<1>1. launch[j] # NotSent
  BY DEF NotSent
<1>2. launch[j].task \in Task
  BY <1>1 DEF Sound, LiveInv, LaunchesInv, LaunchInv
<1> QED BY <1>1, <1>2 DEF HostOf, Node

(* The function of a run works on its last launch.                         *)
LEMMA FunctionJob ==
  ASSUME Sound, NEW r \in Runs,
         In(r, "launch") \/ In(r, "poll") \/ In(r, "import") \/ In(r, "verify") \/ In(r, "return")
  PROVE  /\ at[r].job = Last(r) /\ Last(r) # None /\ Running(r)
         /\ (~In(r, "return") => disk[r].context = [job |-> at[r].job, terminal |-> FALSE])
         /\ (In(r, "return") => disk[r].context = [job |-> at[r].job, terminal |-> TRUE])
<1>1. FunctionInv(r)
  BY DEF Sound, LiveInv, FunctionsInv
<1>2. /\ at[r].job \in Jobs
      /\ (~In(r, "return") => disk[r].context = [job |-> at[r].job, terminal |-> FALSE])
      /\ (In(r, "return") => disk[r].context = [job |-> at[r].job, terminal |-> TRUE])
  BY <1>1 DEF FunctionInv
<1>3. disk[r].context.job = at[r].job
  BY <1>2
<1>4. at[r].job # None
  BY <1>2, RegistryAssumption
<1> QED BY <1>2, <1>3, <1>4 DEF Last, In, Running, Executing

LEMMA LiveTypesStep ==
  ASSUME Sound, RegistryTypeOK', [Next]_vars
  PROVE  LiveTypeOK'
<1> DEFINE Data == local' \in Plan /\ host' \in [Node -> Plan] /\ launch' \in [Jobs -> Launches]
           Control == /\ at' \in [Runs -> Functions] /\ look' \in {"none", "poll", "import", "verify"}
                      /\ (look' = "none" <=> inspection' = NoInspection)
<1>0. /\ local \in Plan /\ host \in [Node -> Plan] /\ launch \in [Jobs -> Launches]
      /\ at \in [Runs -> Functions] /\ look \in {"none", "poll", "import", "verify"}
      /\ (look = "none" <=> inspection = NoInspection)
      /\ inspection \in [by : Controllers, run : Runs] \cup {NoInspection}
  BY DEF Sound, LiveTypeOK, RegistryTypeOK
<1>1. CASE Registry /\ UNCHANGED liveVars
  <2>1. inspection' = inspection
    BY <1>1 DEF Registry, ControllerStarts, GetRun, CloseByHand, ThreadFails, WorkerBegins, Settle, SettleFails
  <2> QED BY <1>0, <1>1, <2>1 DEF LiveTypeOK, liveVars
<1>2. ASSUME NEW c \in Controllers, Dies(c) PROVE LiveTypeOK'
  <2>1. Idle \in Functions
    BY LiveAssumption DEF Functions, Idle, Steps
  <2>2. at' \in [Runs -> Functions]
    BY <1>0, <1>2, <2>1 DEF Dies
  <2>3. look' = "none" <=> inspection' = NoInspection
    BY <1>0, <1>2 DEF Dies, ControllerDies
  <2> QED BY <1>0, <1>2, <2>2, <2>3 DEF LiveTypeOK, Dies
<1>3. ASSUME NEW c \in Controllers, NEW r \in Runs, NEW many \in BOOLEAN, Accept(c, r, many)
      PROVE  LiveTypeOK'
  <2>1. at' = [at EXCEPT ![r] = [Idle EXCEPT !.pc = "select", !.many = many]]
    BY ZenonT(60), <1>3 DEF Accept
  <2>2. at' \in [Runs -> Functions]
    BY ZenonT(60), <1>0, <2>1, AtTypes DEF Steps
  <2> QED BY <1>0, <1>3, <2>2 DEF LiveTypeOK, Accept, StartRun
<1>4. ASSUME NEW r \in Runs, Function(r) PROVE LiveTypeOK'
  <2>1. inspection' = inspection /\ look' = look
    BY <1>4 DEF Function, Select, NothingToDo, Push, PushFails, RecordLaunch, Launch, LaunchFails, PollFinds,
       PollGivesUp, Import, ImportFails, Verify, Return, Raise, WorkerEnds, SetContext, registryVars
  <2>2. ASSUME NEW pc \in Steps, Go(r, pc) PROVE at' \in [Runs -> Functions]
    BY ZenonT(60), <1>0, <2>2, AtTypes DEF Go
  <2>3. Raise(r) => Go(r, "idle")
    BY DEF Raise
  <2>4. Data /\ at' \in [Runs -> Functions]
    <3>1. CASE Select(r)
      <4>1. PICK t \in Task : at' = [at EXCEPT ![r].pc = "push", ![r].task = t]
        BY ZenonT(60), <3>1 DEF Select
      <4>2. at' \in [Runs -> Functions]
        BY ZenonT(60), <1>0, <4>1, AtTypes DEF Steps
      <4> QED BY <1>0, <3>1, <4>2 DEF Select
    <3>2. CASE NothingToDo(r) \/ PollFinds(r) \/ PollGivesUp(r) \/ Verify(r) \/ Return(r)
      <4>1. at' \in [Runs -> Functions]
        BY <2>2, <2>3, <3>2 DEF NothingToDo, PollFinds, PollGivesUp, Verify, Return, Steps
      <4> QED BY <1>0, <3>2, <4>1 DEF NothingToDo, PollFinds, PollGivesUp, Verify, Return
    <3>3. CASE Push(r) \/ PushFails(r)
      <4>1. at[r].task \in Task
        BY <3>3 DEF Push, PushFails, Sound, LiveInv, FunctionsInv, FunctionInv
      <4>2. NodeOf[at[r].task] \in Node
        BY <4>1 DEF Node
      <4>3. host' \in [Node -> Plan]
        BY <1>0, <3>3, <4>2 DEF Push, PushFails
      <4>4. at' \in [Runs -> Functions]
        BY <2>2, <2>3, <3>3 DEF Push, PushFails, Steps
      <4> QED BY <1>0, <3>3, <4>3, <4>4 DEF Push, PushFails
    <3>4. CASE RecordLaunch(r)
      <4>1. PICK j \in Jobs :
              /\ launch' = [launch EXCEPT ![j] = [NotSent EXCEPT !.run = r, !.task = at[r].task, !.phase = "named"]]
              /\ at' = [at EXCEPT ![r].pc = "launch", ![r].job = j]
        BY <3>4 DEF RecordLaunch
      <4>2. at[r].task \in Task \cup {None}
        BY <1>0 DEF Functions
      <4>3. [NotSent EXCEPT !.run = r, !.task = at[r].task, !.phase = "named"] \in Launches
        <5>1. "named" \in Phases
          BY DEF Phases
        <5> QED BY <4>2, <5>1, NotSentTypes DEF Launches
      <4>4. launch' \in [Jobs -> Launches]
        BY <1>0, <4>1, <4>3
      <4>5. at' \in [Runs -> Functions]
        BY ZenonT(60), <1>0, <4>1, AtTypes DEF Steps
      <4> QED BY <1>0, <3>4, <4>4, <4>5 DEF RecordLaunch
    <3>5. CASE Launch(r) \/ LaunchFails(r)
      <4>1. at[r].job \in Jobs
        BY <3>5 DEF Launch, LaunchFails, Sound, LiveInv, FunctionsInv, FunctionInv
      <4>2. launch' \in [Jobs -> Launches]
        <5>1. PICK phase \in Phases : launch' = [launch EXCEPT ![at[r].job].phase = phase]
          BY <3>5 DEF Launch, LaunchFails, Phases
        <5> QED BY SMTT(60), <1>0, <4>1, <5>1 DEF Launches
      <4>3. at' \in [Runs -> Functions]
        BY <2>2, <2>3, <3>5 DEF Launch, LaunchFails, Steps
      <4> QED BY <1>0, <3>5, <4>2, <4>3 DEF Launch, LaunchFails
    <3>6. CASE Import(r) \/ ImportFails(r)
      <4>1. HostOf(at[r].job) \in Node
        BY <3>6, FunctionJob, LastLaunch DEF Import, ImportFails
      <4>2. host[HostOf(at[r].job)] \in Plan
        BY <1>0, <4>1
      <4>3. at' \in [Runs -> Functions]
        BY <2>2, <2>3, <3>6 DEF Import, ImportFails, Steps
      <4> QED BY <1>0, <3>6, <4>2, <4>3 DEF Import, ImportFails
    <3> QED BY <1>4, <3>1, <3>2, <3>3, <3>4, <3>5, <3>6 DEF Function
  <2> QED BY <1>0, <2>1, <2>4 DEF LiveTypeOK
<1>5. ASSUME NEW j \in Jobs, Executor(j) PROVE LiveTypeOK'
  <2>1. launch[j].phase # "none" /\ UNCHANGED <<registryVars, local, at, look>>
    BY <1>5 DEF Executor, Arrive, Claim, Refuse, WriteExit, Killed, Lost, Complete
  <2>2. launch[j].task \in Task /\ HostOf(j) \in Node
    BY <2>1, SentLaunch
  <2>3. CASE Claim(j)
    <3>1. host[HostOf(j)][launch[j].task].gen \in 0..MaxRetries
      BY <1>0, <2>2 DEF Plan
    <3>2. host' \in [Node -> Plan]
      BY ZenonT(60), <1>0, <2>2, <2>3, HostTypes DEF Claim
    <3>3. launch' \in [Jobs -> Launches]
      BY ZenonT(60), <1>0, <2>3, <3>1, LaunchTypes DEF Claim, Phases
    <3> QED BY <1>0, <2>1, <3>2, <3>3 DEF LiveTypeOK, registryVars
  <2>4. ASSUME NEW status \in Terminal, Complete(j, status) PROVE LiveTypeOK'
    <3>1. host' \in [Node -> Plan]
      BY ZenonT(60), <1>0, <2>2, <2>4, HostTypes DEF Complete
    <3>2. launch' \in [Jobs -> Launches]
      BY ZenonT(60), <1>0, <2>4, LaunchTypes DEF Complete, Phases
    <3> QED BY <1>0, <2>1, <3>1, <3>2 DEF LiveTypeOK, registryVars
  <2>5. CASE Arrive(j) \/ Refuse(j) \/ WriteExit(j) \/ Killed(j) \/ Lost(j)
    <3>1. launch' \in [Jobs -> Launches]
      <4>1. CASE Arrive(j) \/ Lost(j)
        <5>1. PICK phase \in Phases : launch' = [launch EXCEPT ![j].phase = phase]
          BY <4>1 DEF Arrive, Lost, Phases
        <5> QED BY ZenonT(60), <1>0, <5>1 DEF Launches
      <4>2. CASE Refuse(j) \/ WriteExit(j) \/ Killed(j)
        <5>1. PICK rc \in {0, 1} : launch' = [launch EXCEPT ![j].phase = "over", ![j].rc = rc]
          BY <4>2 DEF Refuse, WriteExit, Killed
        <5>2. "over" \in Phases
          BY DEF Phases
        <5> QED BY ZenonT(60), <1>0, <5>1, <5>2, LaunchTypes
      <4> QED BY <2>5, <4>1, <4>2
    <3>2. host' = host
      BY <2>5 DEF Arrive, Refuse, WriteExit, Killed, Lost
    <3> QED BY <1>0, <2>1, <3>1, <3>2 DEF LiveTypeOK, registryVars
  <2> QED BY <1>5, <2>3, <2>4, <2>5 DEF Executor
<1>6. ASSUME NEW t \in Task, RetryTask(t) PROVE LiveTypeOK'
  <2>1. local[t].gen + 1 \in 0..MaxRetries
    BY <1>0, <1>6, LiveAssumption DEF RetryTask, Plan
  <2>2. local' \in Plan
    BY <1>0, <1>6, <2>1 DEF RetryTask, Plan
  <2> QED BY <1>0, <1>6, <2>2 DEF LiveTypeOK, RetryTask, registryVars
<1>7. CASE Reconcile
  <2>1. ASSUME NEW c \in Controllers, NEW r \in Runs, Inspect(c, r) PROVE LiveTypeOK'
    <3>1. inspection' # NoInspection
      BY <2>1, RegistryAssumption DEF Inspect, InspectionBegins, NoInspection
    <3> QED BY <1>0, <2>1, <3>1 DEF LiveTypeOK, Inspect
  <2>2. ASSUME look # "none", UNCHANGED <<host, launch, at>>, local' \in Plan,
               \/ look' = "none" /\ \E outcome : InspectionEnds(outcome)
               \/ look' \in {"import", "verify"} /\ UNCHANGED registryVars
        PROVE  LiveTypeOK'
    BY <1>0, <2>2 DEF LiveTypeOK, InspectionEnds, registryVars
  <2>3. CASE LookPoll
    BY <1>0, <2>2, <2>3 DEF LookPoll
  <2>4. CASE LookImport
    <3>1. HostOf(Seen) \in Node
      <4>1. look # "none" /\ inspection # NoInspection
        BY <1>0, <2>4 DEF LookImport
      <4>2. Last(inspection.run) # None
        BY <4>1 DEF Sound, LiveInv, LookInv
      <4> QED BY <4>1, <4>2, Inspected, LastLaunch
    <3>2. host[HostOf(Seen)] \in Plan
      BY <1>0, <3>1
    <3> QED BY <1>0, <2>2, <2>4, <3>2 DEF LookImport
  <2>5. CASE LookVerify
    BY <1>0, <2>2, <2>5 DEF LookVerify
  <2> QED BY <1>7, <2>1, <2>3, <2>4, <2>5 DEF Reconcile
<1>8. CASE UNCHANGED vars
  BY <1>0, <1>8 DEF LiveTypeOK, vars, liveVars, registryVars
<1> QED BY <1>1, <1>2, <1>3, <1>4, <1>5, <1>6, <1>7, <1>8 DEF Next

(* What the registry says of a run *)

(* A step that keeps the contexts, opens nothing, and says of a run, on    *)
(* file and in memory, only what is true.                                  *)
Truthful ==
  /\ \A r \in Runs : disk'[r].context = disk[r].context /\ (Open(r)' => Open(r)) /\ Says(r, disk'[r].status)
  /\ \A c \in Controllers, r \in Runs : cache'[c][r] # NoRecord =>
       cache'[c][r].context = disk[r].context /\ Says(r, cache'[c][r].status)

LEMMA CacheTruthful ==
  ASSUME Sound, disk' = disk,
         \A c \in Controllers, r \in Runs :
           \/ cache'[c][r] \in {cache[c][r], NoRecord}
           \/ cache'[c][r].context = disk[r].context /\ Says(r, cache'[c][r].status)
  PROVE  Truthful
BY DEF Truthful, Sound, LiveInv, ContextsInv, ContextInv, Open

LEMMA SaveTruthful ==
  ASSUME Sound, NEW c \in Controllers, NEW r \in Runs, NEW rec, Save(c, r, rec),
         rec.context = disk[r].context, Says(r, rec.status), Open(r) \/ rec = disk[r]
  PROVE  Truthful
<1>1. /\ disk' = [disk EXCEPT ![r] = rec] /\ cache' = [cache EXCEPT ![c][r] = rec]
      /\ disk \in [Runs -> Record] /\ cache \in [Controllers -> [Runs -> Record]]
  BY DEF Save, Sound, LiveTypeOK, RegistryTypeOK
<1>2. \A q \in Runs : q # r => disk'[q] = disk[q]
  BY <1>1
<1>3. disk'[r] = rec
  BY <1>1
<1>4. \A d \in Controllers, q \in Runs : cache'[d][q] = cache[d][q] \/ (q = r /\ cache'[d][q] = rec)
  BY <1>1
<1>5. \A q \in Runs : ContextInv(q)
  BY DEF Sound, LiveInv, ContextsInv
<1>6. ASSUME NEW q \in Runs
      PROVE  disk'[q].context = disk[q].context /\ (Open(q)' => Open(q)) /\ Says(q, disk'[q].status)
  BY <1>2, <1>3, <1>5 DEF Open, ContextInv
<1>7. ASSUME NEW d \in Controllers, NEW q \in Runs, cache'[d][q] # NoRecord
      PROVE  cache'[d][q].context = disk[q].context /\ Says(q, cache'[d][q].status)
  BY <1>4, <1>5, <1>7 DEF ContextInv
<1> QED BY <1>6, <1>7 DEF Truthful

(* A function may return where its last launch is verified and succeeded,  *)
(* and raise anywhere.                                                     *)
LEMMA WorkerEndsTruthful ==
  ASSUME Sound, NEW r \in Runs, NEW returns \in BOOLEAN, WorkerEnds(r, returns),
         returns => Last(r) = None \/ (disk[r].context.terminal /\ launch[Last(r)].rc = 0)
  PROVE  Truthful
<1>1. Running(r)
  BY DEF WorkerEnds, Running, Executing
<1>2. Owner(r) \in Controllers /\ cache[Owner(r)][r] = disk[r] /\ disk[r] \in Record
  BY <1>1, Alone, StatusCases
<1> DEFINE status == IF returns THEN "succeeded" ELSE Raised(disk[r])
<1>3. Says(r, status)
  <2>1. Last(r) # None /\ ~InDoubt(disk[r]) => Done(Last(r)) /\ Knows(local, Last(r))
    BY NoDoubtOf
  <2>2. ~returns => status \in {"unknown", "failed"} /\ (InDoubt(disk[r]) => status = "unknown")
    BY DEF Raised
  <2>3. returns /\ Last(r) # None => ~InDoubt(disk[r]) /\ launch[Last(r)].rc = 0
    BY DEF InDoubt
  <2> QED BY <2>1, <2>2, <2>3 DEF Says, Resolved
<1>4. /\ disk' = disk
      /\ cache' = [cache EXCEPT ![Owner(r)] = [cache[Owner(r)] EXCEPT ![r] = [disk[r] EXCEPT !.status = status]]]
  BY <1>2 DEF WorkerEnds
<1> HIDE DEF status
<1>5. /\ [disk[r] EXCEPT !.status = status].context = disk[r].context
      /\ [disk[r] EXCEPT !.status = status].status = status
  BY <1>2 DEF Record
<1>6. \A d \in Controllers, q \in Runs :
        cache'[d][q] = cache[d][q] \/ (q = r /\ cache'[d][q] = [disk[r] EXCEPT !.status = status])
  BY <1>2, <1>4 DEF Sound, LiveTypeOK, RegistryTypeOK
<1> QED BY <1>3, <1>4, <1>5, <1>6, CacheTruthful

LEMMA RaiseTruthful ==
  ASSUME Sound, NEW r \in Runs, Raise(r)
  PROVE  Truthful /\ disk' = disk /\ inspection' = inspection /\ worker' = [worker EXCEPT ![r] = "ended"]
<1>1. WorkerEnds(r, FALSE)
  BY DEF Raise
<1> QED BY <1>1, WorkerEndsTruthful DEF WorkerEnds

(* What a controller knows of a run agrees with the file.                  *)
LEMMA KnownTruthful ==
  ASSUME Sound, NEW c \in Controllers, NEW r \in Runs, disk[r] # NoRecord
  PROVE  /\ Known(c, r).context = disk[r].context /\ Says(r, Known(c, r).status)
         /\ Loaded(c, r).context = disk[r].context /\ Says(r, Loaded(c, r).status)
<1>1. ContextInv(r) /\ disk[r] \in Record
  BY StatusCases DEF Sound, LiveInv, ContextsInv
<1>2. Says(r, "unknown")
  BY DEF Says, Resolved
<1>3. Loaded(c, r).context = disk[r].context /\ Says(r, Loaded(c, r).status)
  BY <1>1, <1>2 DEF Loaded, Record, ContextInv
<1> QED BY <1>1, <1>3 DEF Known, ContextInv

LEMMA SettleTruthful ==
  ASSUME Sound, NEW r \in Runs, Settle(r)
  PROVE  Truthful
<1>1. /\ worker[r] = "ended" /\ Owner(r) \in Controllers /\ cache[Owner(r)][r] # NoRecord
      /\ Save(Owner(r), r, cache[Owner(r)][r])
  BY WorkerRecord, RecordTypes DEF Settle, Save, Sound, RegistryInv, RegistryTypes, RegistryTypeOK
<1>2. cache[Owner(r)][r].context = disk[r].context /\ Says(r, cache[Owner(r)][r].status)
  BY <1>1 DEF Sound, LiveInv, ContextsInv, ContextInv
<1>3. disk[r] # NoRecord
  BY <1>1 DEF Sound, LiveTypeOK, RegistryTypeOK
<1>4. Open(r) \/ cache[Owner(r)][r] = disk[r]
  BY <1>1, <1>3, StatusCases DEF Sound, Recorded
<1> QED BY <1>1, <1>2, <1>4, SaveTruthful

(* The end of a reconcile that may say its outcome of the run.             *)
LEMMA InspectionTruthful ==
  ASSUME Sound, NEW outcome, InspectionEnds(outcome),
         Last(inspection.run) # None =>
           /\ outcome \in Resolved => Done(Last(inspection.run)) /\ Knows(local, Last(inspection.run))
           /\ outcome = "succeeded" => launch[Last(inspection.run)].rc = 0
  PROVE  Truthful
<1> DEFINE c == inspection.by
           r == inspection.run
           rec == [cache[c][r] EXCEPT !.status = outcome]
<1>1. /\ c \in Controllers /\ r \in Runs /\ Open(r) /\ cache[c][r] # NoRecord /\ cache[c][r] \in Record
  BY Inspected DEF InspectionEnds
<1>2. Save(c, r, rec)
  BY DEF InspectionEnds
<1>3. cache[c][r].context = disk[r].context
  BY <1>1 DEF Sound, LiveInv, ContextsInv, ContextInv
<1>4. rec.context = disk[r].context /\ rec.status = outcome
  BY <1>1, <1>3 DEF Record
<1>5. Says(r, outcome)
  BY DEF Says
<1> HIDE DEF rec, c, r
<1> QED BY <1>1, <1>2, <1>4, <1>5, SaveTruthful

LEMMA RegistryTruthful ==
  ASSUME Sound, ~DiskMayFail, Registry
  PROVE  Truthful
<1>1. ASSUME NEW c \in Controllers, ControllerStarts(c) PROVE Truthful
  BY <1>1, CacheTruthful DEF ControllerStarts
<1>2. ASSUME NEW c \in Controllers, NEW r \in Runs, GetRun(c, r) PROVE Truthful
  <2>1. /\ disk[r] # NoRecord /\ disk' = disk /\ cache' = [cache EXCEPT ![c][r] = Loaded(c, r)]
    BY <1>2 DEF GetRun
  <2>2. \A d \in Controllers, q \in Runs :
          cache'[d][q] = cache[d][q] \/ (q = r /\ cache'[d][q] = Loaded(c, r))
    BY <2>1 DEF Sound, LiveTypeOK, RegistryTypeOK
  <2> QED BY <2>1, <2>2, KnownTruthful, CacheTruthful
<1>3. ASSUME NEW c \in Controllers, NEW r \in Runs, CloseByHand(c, r) PROVE Truthful
  <2> DEFINE rec == [Known(c, r) EXCEPT !.status = "failed"]
  <2>1. Known(c, r).status = "unknown" /\ ~Detached(Known(c, r)) /\ Save(c, r, rec)
    BY <1>3 DEF CloseByHand, Reconcilable
  <2>2. Open(r)
    BY <2>1, KnownIsOpen DEF Sound, RegistryInv, Open
  <2>3. disk[r] # NoRecord
    BY <2>2, StatusCases
  <2>4. Known(c, r) \in Record /\ Known(c, r).context = disk[r].context
    BY <2>3, KnownTypes, KnownTruthful DEF Sound, LiveTypeOK
  <2>5. Last(r) = None
    BY <2>1, <2>4 DEF Detached, Last
  <2>6. rec.context = disk[r].context /\ Says(r, rec.status)
    BY <2>4, <2>5 DEF Record, Says
  <2> HIDE DEF rec
  <2> QED BY <2>1, <2>2, <2>6, SaveTruthful
<1>4. ASSUME NEW r \in Runs, ThreadFails(r) \/ WorkerBegins(r) PROVE Truthful
  <2>1. Running(r) /\ worker[r] = "queued"
    BY <1>4 DEF ThreadFails, WorkerBegins, Running, Executing
  <2>2. Open(r) /\ Owner(r) \in Controllers /\ cache[Owner(r)][r] = disk[r] /\ disk[r] \in Record
    BY <2>1, Alone, StatusCases
  <2>3. Last(r) = None
    BY <2>1 DEF Sound, LiveInv, FunctionsInv, FunctionInv
  <2>4. PICK status : Save(Owner(r), r, [disk[r] EXCEPT !.status = status])
    BY <1>4, <2>2 DEF ThreadFails, WorkerBegins
  <2>5. [disk[r] EXCEPT !.status = status].context = disk[r].context
    BY <2>2 DEF Record
  <2>6. \A s : Says(r, s)
    BY <2>3 DEF Says
  <2> QED BY <2>2, <2>4, <2>5, <2>6, SaveTruthful
<1>5. ASSUME NEW r \in Runs, Settle(r) PROVE Truthful
  BY <1>5, SettleTruthful
<1>6. \A r \in Runs : ~SettleFails(r)
  BY DEF SettleFails
<1> QED BY <1>1, <1>2, <1>3, <1>4, <1>5, <1>6 DEF Registry

(* Functions and reconciles that do not move while nothing they rely on    *)
(* does.                                                                   *)
LEMMA FunctionKeeps ==
  ASSUME Sound, NEW r \in Runs,
         \/ worker'[r] \notin Executing
         \/ /\ UNCHANGED <<local, host, launch>>
            /\ worker'[r] = worker[r] /\ at'[r] = at[r] /\ disk'[r].context = disk[r].context
  PROVE  FunctionInv(r)'
<1>1. CASE worker'[r] \notin Executing
  BY SMTT(60), <1>1 DEF FunctionInv, In, Executing
<1>2. CASE /\ UNCHANGED <<local, host, launch>>
           /\ worker'[r] = worker[r] /\ at'[r] = at[r] /\ disk'[r].context = disk[r].context
  <2>1. FunctionInv(r)
    BY DEF Sound, LiveInv, FunctionsInv
  <2>2. Last(r)' = Last(r) /\ \A pc : In(r, pc)' = In(r, pc)
    BY <1>2 DEF Last, In
  <2>3. \A p, j : KnowsAll(p)' = KnowsAll(p) /\ KeepsSuccess(p)' = KeepsSuccess(p) /\ Over(j)' = Over(j)
                  /\ Knows(p, j)' = Knows(p, j) /\ Tells(p, j)' = Tells(p, j)
    BY <1>2 DEF KnowsAll, KeepsSuccess, Over, Knows, Tells, Did
  <2> QED BY <1>2, <2>1, <2>2, <2>3 DEF FunctionInv
<1> QED BY <1>1, <1>2

LEMMA LookKeeps ==
  ASSUME Sound, UNCHANGED <<local, launch>>,
         \A r \in Runs : disk'[r].context = disk[r].context,
         look' = "none" \/ (look' = look /\ inspection' = inspection)
  PROVE  LookInv'
<1>1. CASE look = "none" \/ look' = "none"
  BY <1>1 DEF LookInv
<1>2. CASE look # "none" /\ look' # "none"
  <2>1. inspection # NoInspection
    BY <1>2 DEF Sound, LiveTypeOK
  <2>2. inspection.run \in Runs /\ inspection' = inspection /\ look' = look
    BY <1>2, <2>1, Inspected
  <2>3. Last(inspection.run)' = Last(inspection.run) /\ LookInv
    BY <2>2 DEF Last, Sound, LiveInv
  <2> QED BY <2>2, <2>3 DEF LookInv, Over, Knows, Tells, Did
<1> QED BY <1>1, <1>2

(* A step of the registry alone.                                           *)
LEMMA RegistryLive ==
  ASSUME Sound, ~DiskMayFail, RegistryTypes', Registry, UNCHANGED liveVars
  PROVE  LiveInv'
<1>1. Truthful /\ UNCHANGED <<local, host, launch, at, look>>
  BY RegistryTruthful DEF liveVars
<1>2. (OneOpen /\ LaunchesInv /\ Once /\ ContextsInv)'
  BY <1>1, RegistryKeeps DEF Truthful
<1>3. ASSUME NEW r \in Runs PROVE FunctionInv(r)'
  <2>1. CASE worker'[r] = worker[r] \/ worker'[r] \notin Executing
    BY <1>1, <2>1, FunctionKeeps DEF Truthful
  <2>2. CASE worker'[r] # worker[r] /\ worker'[r] \in Executing
    <3>1. worker[r] = "queued" /\ worker'[r] = "running"
      BY ZenonT(60), <2>2 DEF Registry, ControllerStarts, GetRun, CloseByHand, ThreadFails, WorkerBegins, Settle, SettleFails,
         Executing, Sound, LiveTypeOK, RegistryTypeOK
    <3>2. Last(r) = None /\ at[r].pc = "select"
      BY <3>1 DEF Sound, LiveInv, FunctionsInv, FunctionInv
    <3>3. Last(r)' = None /\ at'[r].pc = "select"
      BY <1>1, <3>2 DEF Truthful, Last
    <3> QED BY <3>1, <3>3 DEF FunctionInv, In
  <2> QED BY <2>1, <2>2
<1>4. inspection' = inspection
  BY DEF Registry, ControllerStarts, GetRun, CloseByHand, ThreadFails, WorkerBegins, Settle, SettleFails
<1>5. LookInv'
  BY <1>1, <1>4, LookKeeps DEF Truthful
<1> QED BY <1>2, <1>3, <1>5 DEF LiveInv, FunctionsInv

LEMMA DiesLive ==
  ASSUME Sound, RegistryTypes', NEW c \in Controllers, Dies(c)
  PROVE  LiveInv'
<1>1. /\ UNCHANGED <<disk, local, host, launch>> /\ ControllerDies(c)
      /\ at' = [r \in Runs |-> IF Owner(r) = c THEN Idle ELSE at[r]]
      /\ worker' = [r \in Runs |-> IF Owner(r) = c THEN "done" ELSE worker[r]]
      /\ cache' = [cache EXCEPT ![c] = [r \in Runs |-> NoRecord]]
  BY DEF Dies, ControllerDies
<1>2. \A d \in Controllers, r \in Runs : cache'[d][r] \in {cache[d][r], NoRecord}
  BY <1>1 DEF Sound, LiveTypeOK, RegistryTypeOK
<1>3. Truthful
  BY <1>1, <1>2, CacheTruthful
<1>4. (OneOpen /\ LaunchesInv /\ Once /\ ContextsInv)'
  BY <1>1, <1>3, RegistryKeeps DEF Truthful
<1>5. ASSUME NEW r \in Runs PROVE FunctionInv(r)'
  <2>1. worker'[r] \notin Executing \/ (worker'[r] = worker[r] /\ at'[r] = at[r])
    BY <1>1 DEF Executing
  <2> QED BY <1>1, <2>1, FunctionKeeps
<1>6. look' = "none" \/ (look' = look /\ inspection' = inspection)
  BY DEF Dies, ControllerDies
<1>7. LookInv'
  BY <1>1, <1>6, LookKeeps
<1> QED BY <1>4, <1>5, <1>7 DEF LiveInv, FunctionsInv

(* A new run is the only open one, and has launched nothing.               *)
LEMMA AcceptLive ==
  ASSUME Sound, RegistryTypes', NEW c \in Controllers, NEW r \in Runs, NEW many \in BOOLEAN, Accept(c, r, many)
  PROVE  LiveInv'
<1> DEFINE rec == [key |-> ExecuteKey, status |-> "queued", owner |-> c, context |-> NoContext]
<1>1. /\ disk[r] = NoRecord /\ ~Claimed(c, ExecuteKey) /\ inspection = NoInspection
      /\ disk' = [disk EXCEPT ![r] = rec] /\ cache' = [cache EXCEPT ![c][r] = rec]
      /\ worker' = [worker EXCEPT ![r] = "queued"] /\ UNCHANGED <<local, host, launch, look, inspection>>
      /\ at' = [at EXCEPT ![r] = [Idle EXCEPT !.pc = "select", !.many = many]]
  BY DEF Accept, StartRun, Save
<1>2. \A q \in Runs : ~Open(q)
  <2> SUFFICES ASSUME NEW q \in Runs, Open(q) PROVE FALSE
    OBVIOUS
  <2>1. disk[q].key \in Keys
    BY StatusCases DEF Sound, LiveTypeOK, RegistryTypeOK
  <2> QED BY <1>1, <2>1, OneKey DEF Claimed, Open
<1>3. /\ disk'[r] = rec /\ rec.context = NoContext /\ rec.status = "queued"
      /\ \A q \in Runs : q # r => disk'[q] = disk[q]
  BY <1>1 DEF Sound, LiveTypeOK, RegistryTypeOK
<1>4. disk[r].context = NoContext /\ Last(r) = None /\ Last(r)' = None
  BY <1>1, <1>3 DEF NoRecord, NoContext, Last
<1>5. \A q \in Runs : Last(q)' = Last(q) /\ disk'[q].context = disk[q].context /\ (q # r => ~Open(q)')
  BY <1>2, <1>3, <1>4 DEF Last, Open
<1>6. OneOpen' /\ Once'
  BY SMTT(60), <1>1, <1>5 DEF OneOpen, Sound, LiveInv, Once, Did
<1>7. ASSUME NEW j \in Jobs PROVE LaunchInv(j)'
  <2>1. LaunchInv(j) /\ ~Doubt(j)
    BY <1>2 DEF Sound, LiveInv, LaunchesInv, Doubt
  <2>2. (Done(j) /\ Knows(local, j)) => (Done(j) /\ Knows(local, j))'
    BY <1>1 DEF Done, Over, Knows, Did
  <2>3. launch[j].run \in Runs => Last(launch[j].run)' = Last(launch[j].run)
    BY <1>1, <1>5
  <2> QED BY <1>1, <2>1, <2>2, <2>3 DEF LaunchInv, Did, HostOf
<1>8. ASSUME NEW q \in Runs PROVE ContextInv(q)'
  <2>1. CASE q = r
    <3>1. ASSUME NEW d \in Controllers, cache'[d][r] # NoRecord PROVE cache'[d][r].context = disk'[r].context
      <4>1. cache[d][r] = NoRecord
        BY <1>1 DEF Sound, LiveTypeOK, RegistryTypeOK
      <4>2. cache'[d][r] \in {cache[d][r], rec}
        BY <1>1 DEF Sound, LiveTypeOK, RegistryTypeOK
      <4> QED BY <1>3, <3>1, <4>1, <4>2
    <3> QED BY <1>4, <2>1, <3>1 DEF ContextInv, Says
  <2>2. CASE q # r
    <3>1. ContextInv(q)
      BY DEF Sound, LiveInv, ContextsInv
    <3>2. \A status : Says(q, status) => Says(q, status)'
      BY <1>1, <1>5 DEF Says, Done, Over, Knows, Did
    <3>3. \A d \in Controllers : cache'[d][q] = cache[d][q]
      BY <1>1, <2>2 DEF Sound, LiveTypeOK, RegistryTypeOK
    <3>4. Says(q, disk[q].status)'
      BY <1>3, <2>2, <3>1, <3>2 DEF ContextInv
    <3>5. ASSUME NEW d \in Controllers, cache'[d][q] # NoRecord
          PROVE  (cache[d][q].context = disk[q].context /\ Says(q, cache[d][q].status))'
      BY <1>3, <2>2, <3>1, <3>2, <3>3, <3>5 DEF ContextInv
    <3> QED BY <1>1, <1>5, <2>2, <3>1, <3>4, <3>5 DEF ContextInv
  <2> QED BY <2>1, <2>2
<1>9. ASSUME NEW q \in Runs PROVE FunctionInv(q)'
  <2>1. CASE q = r
    <3>1. worker'[r] = "queued" /\ at'[r].pc = "select"
      BY <1>1 DEF Sound, LiveTypeOK, RegistryTypeOK, Functions, Idle
    <3> QED BY <1>4, <2>1, <3>1 DEF FunctionInv, In
  <2>2. CASE q # r
    <3>1. worker'[q] = worker[q] /\ at'[q] = at[q]
      BY <1>1, <2>2 DEF Sound, LiveTypeOK, RegistryTypeOK
    <3> QED BY <1>1, <1>5, <3>1, FunctionKeeps
  <2> QED BY <2>1, <2>2
<1>10. LookInv'
  BY <1>1, <1>5, LookKeeps
<1> QED BY <1>6, <1>7, <1>8, <1>9, <1>10 DEF LiveInv, LaunchesInv, ContextsInv, FunctionsInv

(* The function of a run moves, or ends, and nothing else changes.         *)
LEMMA FunctionMoves ==
  ASSUME Sound, RegistryTypes', NEW r \in Runs, Running(r), UNCHANGED <<local, host, launch, look>>,
         disk' = disk, inspection' = inspection, Truthful,
         \A q \in Runs : q # r => worker'[q] = worker[q] /\ at'[q] = at[q],
         FunctionInv(r)'
  PROVE  LiveInv'
<1>1. (OneOpen /\ LaunchesInv /\ Once /\ ContextsInv)'
  BY RegistryKeeps DEF Truthful
<1>2. ASSUME NEW q \in Runs PROVE FunctionInv(q)'
  BY FunctionKeeps
<1>3. LookInv'
  BY LookKeeps
<1> QED BY <1>1, <1>2, <1>3 DEF LiveInv, FunctionsInv

LEMMA GoMoves ==
  ASSUME Sound, NEW r \in Runs, NEW pc, Go(r, pc)
  PROVE  /\ at'[r].pc = pc /\ at'[r].task = at[r].task /\ at'[r].job = at[r].job
         /\ \A q \in Runs : q # r => at'[q] = at[q]
BY DEF Go, Sound, LiveTypeOK, Functions

LEMMA RaiseMoves ==
  ASSUME Sound, NEW r \in Runs, Raise(r)
  PROVE  /\ Running(r) /\ disk' = disk /\ inspection' = inspection /\ Truthful
         /\ \A q \in Runs : q # r => worker'[q] = worker[q] /\ at'[q] = at[q]
         /\ worker'[r] = "ended" /\ FunctionInv(r)'
<1>1. /\ Truthful /\ disk' = disk /\ inspection' = inspection /\ worker' = [worker EXCEPT ![r] = "ended"]
  BY RaiseTruthful
<1>2. Running(r) /\ Go(r, "idle")
  BY DEF Raise, WorkerEnds, Running, Executing
<1>3. \A q \in Runs : q # r => worker'[q] = worker[q] /\ at'[q] = at[q]
  BY <1>1, <1>2, GoMoves DEF Sound, LiveTypeOK, RegistryTypeOK
<1>4. worker'[r] = "ended"
  BY <1>1 DEF Sound, LiveTypeOK, RegistryTypeOK
<1> QED BY <1>1, <1>2, <1>3, <1>4, FunctionKeeps DEF Executing

LEMMA ReturnMoves ==
  ASSUME Sound, NEW r \in Runs, NEW returns \in BOOLEAN, WorkerEnds(r, returns), Go(r, "idle"),
         returns => Last(r) = None \/ (disk[r].context.terminal /\ launch[Last(r)].rc = 0)
  PROVE  /\ Running(r) /\ disk' = disk /\ inspection' = inspection /\ Truthful
         /\ \A q \in Runs : q # r => worker'[q] = worker[q] /\ at'[q] = at[q]
         /\ FunctionInv(r)'
<1>1. Truthful
  BY WorkerEndsTruthful
<1>2. /\ Running(r) /\ disk' = disk /\ inspection' = inspection /\ worker' = [worker EXCEPT ![r] = "ended"]
  BY DEF WorkerEnds, Running, Executing
<1>3. \A q \in Runs : q # r => worker'[q] = worker[q] /\ at'[q] = at[q]
  BY <1>2, GoMoves DEF Sound, LiveTypeOK, RegistryTypeOK
<1>4. worker'[r] = "ended"
  BY <1>2 DEF Sound, LiveTypeOK, RegistryTypeOK
<1> QED BY <1>1, <1>2, <1>3, <1>4, FunctionKeeps DEF Executing

(* A step of a function within its run.                                    *)
LEMMA StillTruthful == Sound /\ UNCHANGED registryVars => Truthful
<1>1. Sound /\ UNCHANGED registryVars => disk' = disk /\ cache' = cache
  BY DEF registryVars
<1> QED BY <1>1, CacheTruthful

LEMMA SelectLive ==
  ASSUME Sound, RegistryTypes', NEW r \in Runs, Select(r) \/ NothingToDo(r)
  PROVE  LiveInv'
<1>1. In(r, "select") /\ Running(r) /\ UNCHANGED <<local, host, launch, look>>
  BY DEF Select, NothingToDo, In, Running, Executing
<1>2. Last(r) # None => disk[r].context.terminal /\ launch[Last(r)].rc = 0
  BY <1>1 DEF Sound, LiveInv, FunctionsInv, FunctionInv
<1>3. CASE NothingToDo(r)
  <2>1. \E returns \in BOOLEAN : WorkerEnds(r, returns) /\ Go(r, "idle")
    BY <1>3, <1>1 DEF NothingToDo, Sound, LiveTypeOK, Functions
  <2> QED BY <1>1, <1>2, <2>1, ReturnMoves, FunctionMoves
<1>4. CASE Select(r)
  <2>1. PICK t \in Task : IsNext(local, t) /\ at' = [at EXCEPT ![r].pc = "push", ![r].task = t]
    BY <1>4 DEF Select
  <2>2. /\ UNCHANGED <<disk, worker, inspection>> /\ Truthful
        /\ at'[r].pc = "push" /\ at'[r].task = t /\ \A q \in Runs : q # r => at'[q] = at[q]
    <3>1. UNCHANGED <<disk, worker, inspection>> /\ Truthful
      BY <1>4, StillTruthful DEF Select, registryVars
    <3>2. at \in [Runs -> Functions]
      BY DEF Sound, LiveTypeOK
    <3>3. at'[r].pc = "push" /\ at'[r].task = t
      BY <2>1, <3>2 DEF Functions
    <3> QED BY <2>1, <3>1, <3>2, <3>3
  <2>3. local[t].status = "pending"
    BY <2>1 DEF IsNext
  <2>4. FunctionInv(r)'
    BY <1>1, <1>2, <2>2, <2>3 DEF FunctionInv, In, Last
  <2> QED BY <1>1, <2>2, <2>4, FunctionMoves
<1> QED BY <1>3, <1>4

LEMMA PollLive ==
  ASSUME Sound, RegistryTypes', NEW r \in Runs, PollFinds(r) \/ PollGivesUp(r)
  PROVE  LiveInv'
<1>1. In(r, "poll") /\ Running(r) /\ UNCHANGED <<local, host, launch, look>>
  BY DEF PollFinds, PollGivesUp, In, Running, Executing
<1>2. CASE PollGivesUp(r)
  BY <1>1, <1>2, RaiseMoves, FunctionMoves DEF PollGivesUp
<1>3. CASE PollFinds(r)
  <2>1. /\ UNCHANGED <<disk, worker, inspection>> /\ Truthful /\ Go(r, "import") /\ Over(at[r].job)
    BY SMTT(60), <1>3, StillTruthful DEF PollFinds, registryVars
  <2>2. at[r].job \in Jobs /\ disk[r].context = [job |-> at[r].job, terminal |-> FALSE]
    BY <1>1 DEF Sound, LiveInv, FunctionsInv, FunctionInv
  <2>3. FunctionInv(r)'
    <3>1. \A pc : In(r, pc)' <=> pc = "import"
      BY <1>1, <2>1, GoMoves DEF In
    <3>2. at'[r].job = at[r].job /\ worker'[r] = "running" /\ at'[r].pc = "import" /\ Over(at[r].job)'
      BY <1>1, <2>1, GoMoves DEF In, Over
    <3> QED BY <2>1, <2>2, <3>1, <3>2 DEF FunctionInv
  <2> QED BY <1>1, <2>1, <2>3, GoMoves, FunctionMoves
<1> QED BY <1>2, <1>3

LEMMA ReturnLive ==
  ASSUME Sound, RegistryTypes', NEW r \in Runs, Return(r)
  PROVE  LiveInv'
<1>1. In(r, "return") /\ UNCHANGED <<local, host, launch, look>>
  BY DEF Return
<1>2. /\ at[r].job = Last(r) /\ Last(r) # None /\ Running(r)
      /\ disk[r].context = [job |-> at[r].job, terminal |-> TRUE]
  BY <1>1, FunctionJob
<1>3. disk[r].context.terminal = TRUE
  BY <1>2
<1>4. CASE Raise(r)
  BY <1>1, <1>4, RaiseMoves, FunctionMoves
<1>5. CASE launch[at[r].job].rc = 0 /\ WorkerEnds(r, TRUE) /\ Go(r, "idle")
  BY <1>1, <1>2, <1>3, <1>5, ReturnMoves, FunctionMoves
<1>6. CASE launch[at[r].job].rc = 0 /\ Go(r, "select") /\ UNCHANGED registryVars
  <2>1. UNCHANGED <<disk, worker, inspection>> /\ Truthful
    BY <1>6, StillTruthful DEF registryVars
  <2>2. FunctionInv(r)'
    <3>1. \A pc : In(r, pc)' <=> pc = "select"
      BY <1>1, <1>6, <2>1, GoMoves DEF In
    <3>2. worker'[r] = "running" /\ at'[r].pc = "select"
      BY <1>1, <1>6, <2>1, GoMoves DEF In
    <3>3. disk'[r].context.terminal /\ launch'[Last(r)'].rc = 0
      BY <1>1, <1>2, <1>3, <1>6, <2>1 DEF Last
    <3> QED BY <3>1, <3>2, <3>3 DEF FunctionInv
  <2> QED BY <1>1, <1>2, <1>6, <2>1, <2>2, GoMoves, FunctionMoves
<1> QED BY <1>4, <1>5, <1>6 DEF Return

(* Beside a thread at work no other function and no reconcile is under way. *)
LEMMA OthersRest ==
  ASSUME Sound, NEW r \in Runs, Running(r), look' = look,
         \A q \in Runs : q # r => worker'[q] = worker[q],
         FunctionInv(r)'
  PROVE  FunctionsInv' /\ LookInv'
<1>1. \A q \in Runs : q # r => worker'[q] \notin Executing
  BY Alone DEF Running
<1>2. \A q \in Runs : FunctionInv(q)'
  BY <1>1, FunctionKeeps
<1>3. LookInv'
  BY Alone DEF LookInv
<1> QED BY <1>2, <1>3 DEF FunctionsInv

(* Copies change: what was known stays known, a claim stays on its host,   *)
(* and the copy where the last launch works stays ahead.                   *)
LEMMA CopiesKeep ==
  ASSUME Sound, Truthful, disk' = disk, launch' = launch,
         \A j \in Jobs : Done(j) /\ Knows(local, j) => Knows(local, j)',
         \A j \in Jobs : launch[j].phase = "working" =>
           host'[HostOf(j)][launch[j].task].gen = host[HostOf(j)][launch[j].task].gen,
         \A r \in Runs : Open(r) /\ Last(r) # None =>
           /\ Ahead(host[HostOf(Last(r))], Last(r))'
           /\ (disk[r].context.terminal => Tells(local, Last(r))')
  PROVE  (OneOpen /\ LaunchesInv /\ Once /\ ContextsInv)'
<1>1. OneOpen' /\ Once'
  BY DEF Sound, LiveInv, OneOpen, Open, Once, Did
<1>2. \A r : Last(r)' = Last(r) /\ Open(r)' = Open(r)
  BY DEF Last, Open
<1>3. \A j \in Jobs : Doubt(j)' = Doubt(j) /\ Done(j)' = Done(j) /\ Did(j)' = Did(j) /\ HostOf(j)' = HostOf(j)
  BY ZenonT(60) DEF Doubt, Last, Open, Done, Over, Did, HostOf
<1>4. ASSUME NEW j \in Jobs PROVE LaunchInv(j)'
  <2>1. LaunchInv(j)
    BY DEF Sound, LiveInv, LaunchesInv
  <2> QED BY <1>2, <1>3, <2>1 DEF LaunchInv
<1>5. ASSUME NEW r \in Runs PROVE ContextInv(r)'
  <2>1. ContextInv(r)
    BY DEF Sound, LiveInv, ContextsInv
  <2>2. Last(r) # None => Last(r) \in Jobs
    BY StatusCases
  <2>3. \A status : Says(r, status) => Says(r, status)'
    <3> SUFFICES ASSUME NEW status, Says(r, status) PROVE Says(r, status)'
      OBVIOUS
    <3>1. Last(r) # None /\ Done(Last(r)) /\ Knows(local, Last(r)) => Knows(local, Last(r))' /\ Done(Last(r))'
      BY <1>2, <1>3, <2>2
    <3> QED BY <1>2, <3>1 DEF Says
  <2>4. Says(r, disk[r].status)'
    BY <2>1, <2>3 DEF ContextInv
  <2>5. ASSUME NEW c \in Controllers, cache'[c][r] # NoRecord
        PROVE  (cache[c][r].context = disk[r].context /\ Says(r, cache[c][r].status))'
    BY <2>3, <2>5 DEF Truthful
  <2> QED BY <1>2, <2>1, <2>4, <2>5 DEF ContextInv
<1> QED BY <1>1, <1>4, <1>5 DEF LaunchesInv, ContextsInv

(* A push changes the copy of a host that nothing works on.                *)
LEMMA PushLive ==
  ASSUME Sound, NEW r \in Runs, Push(r) \/ PushFails(r)
  PROVE  LiveInv'
<1> DEFINE n == NodeOf[at[r].task]
<1>1. In(r, "push") /\ Running(r) /\ UNCHANGED <<local, launch, look>>
  BY SMTT(60) DEF Push, PushFails, In, Running, Executing
<1>2. /\ Last(r) # None => disk[r].context.terminal /\ launch[Last(r)].rc = 0
      /\ at[r].task \in Task /\ local[at[r].task].status = "pending"
  BY <1>1 DEF Sound, LiveInv, FunctionsInv, FunctionInv
<1>3. Open(r) /\ ~InDoubt(disk[r]) /\ \A q \in Runs : Open(q) => q = r
  BY <1>1, <1>2, Alone DEF InDoubt, Detached, Last
<1>4. KnowsAll(local) /\ \A j \in Jobs : launch[j] # NotSent => Done(j)
  BY <1>3, NoDoubt
<1>5. n \in Node
  BY <1>2 DEF Node
<1>6. host' \in {host, [host EXCEPT ![n] = local]}
  BY DEF Push, PushFails
<1>7. \A m \in Node : host'[m] = host[m] \/ host'[m] = local
  BY <1>5, <1>6 DEF Sound, LiveTypeOK
<1>8. Truthful /\ disk' = disk
  BY StillTruthful, RaiseMoves DEF Push, PushFails, registryVars
<1>9. \A p, j : KnowsAll(p)' = KnowsAll(p) /\ KeepsSuccess(p)' = KeepsSuccess(p)
                /\ Knows(p, j)' = Knows(p, j) /\ Tells(p, j)' = Tells(p, j)
  BY <1>1 DEF KnowsAll, KeepsSuccess, Knows, Tells, Did
<1>10. KeepsSuccess(local)
  BY DEF KeepsSuccess
<1>11. ASSUME NEW q \in Runs, Open(q), Last(q) # None
       PROVE  /\ Ahead(host[HostOf(Last(q))], Last(q))'
              /\ (disk[q].context.terminal => Tells(local, Last(q))')
  <2>1. q = r /\ HostOf(Last(q)) \in Node /\ disk[r].context.terminal
    BY <1>2, <1>3, <1>11, LastLaunch
  <2>2. Ahead(host[HostOf(Last(q))], Last(q)) /\ Tells(local, Last(q))
    BY <1>11, <2>1 DEF Sound, LiveInv, ContextsInv, ContextInv
  <2>3. host'[HostOf(Last(q))] \in {host[HostOf(Last(q))], local}
    BY <1>7, <2>1
  <2>4. Ahead(host'[HostOf(Last(q))], Last(q))
    BY <1>4, <1>10, <2>2, <2>3 DEF Ahead
  <2>5. Last(q)' = Last(q) /\ HostOf(Last(q))' = HostOf(Last(q))
    BY <1>1, <1>8 DEF Last, HostOf
  <2>6. Ahead(host[HostOf(Last(q))], Last(q))'
    BY <1>9, <2>4, <2>5 DEF Ahead
  <2>7. Tells(local, Last(q))'
    BY <1>1, <2>2, <2>5 DEF Tells
  <2> QED BY <2>6, <2>7
<1>12. \A j \in Jobs : launch[j].phase # "working"
  BY <1>4 DEF Done, Over, NotSent
<1>13. \A j \in Jobs : Done(j) /\ Knows(local, j) => Knows(local, j)'
  BY <1>1, <1>9
<1>14. (OneOpen /\ LaunchesInv /\ Once /\ ContextsInv)'
  BY <1>1, <1>8, <1>11, <1>12, <1>13, CopiesKeep
<1>15. FunctionInv(r)' /\ \A q \in Runs : q # r => worker'[q] = worker[q]
  <2>1. CASE PushFails(r)
    BY <2>1, RaiseMoves DEF PushFails
  <2>2. CASE Push(r)
    <3>1. UNCHANGED <<disk, worker>> /\ Go(r, "record") /\ host' = [host EXCEPT ![n] = local]
      BY <2>2 DEF Push, registryVars
    <3>2. host'[n] = local
      BY <1>5, <3>1 DEF Sound, LiveTypeOK
    <3>3. \A pc : In(r, pc)' <=> pc = "record"
      BY <1>1, <3>1, GoMoves DEF In
    <3>4. at'[r].task = at[r].task /\ worker'[r] = "running" /\ at'[r].pc = "record"
      BY <1>1, <3>1, GoMoves DEF In
    <3>5. ASSUME NEW m \in Node, m = n
          PROVE  KnowsAll(host[m])' /\ KeepsSuccess(host[m])' /\ host'[m][at[r].task].status = "pending"
      <4>1. host'[m] = local
        BY <3>2, <3>5
      <4> QED BY <1>1, <1>2, <1>4, <1>10, <4>1 DEF KnowsAll, KeepsSuccess, Knows, Did
    <3>6. Last(r)' # None => disk'[r].context.terminal /\ launch'[Last(r)'].rc = 0
      BY <1>1, <1>2, <3>1 DEF Last
    <3>7. at'[r].task \in Task /\ NodeOf[at'[r].task] = n
      BY <1>2, <3>4
    <3>8. at'[r].task = at[r].task /\ KnowsAll(host[NodeOf[at[r].task]])' /\ KeepsSuccess(host[NodeOf[at[r].task]])'
      <4> PICK m \in Node : m = n
        BY <1>5
      <4>1. KnowsAll(host[m])' /\ KeepsSuccess(host[m])' /\ m = NodeOf[at'[r].task]
        BY <3>5, <3>7
      <4> QED BY <3>4, <4>1
    <3>9. host'[NodeOf[at'[r].task]][at'[r].task].status = "pending"
      BY <1>5, <3>4, <3>5
    <3> HIDE DEF n
    <3> QED BY <3>1, <3>3, <3>4, <3>6, <3>7, <3>8, <3>9 DEF FunctionInv
  <2> QED BY <2>1, <2>2
<1>16. FunctionsInv' /\ LookInv'
  BY <1>1, <1>15, OthersRest
<1> QED BY <1>14, <1>16 DEF LiveInv

(* The controller's copy is replaced by that of the host where the last    *)
(* launch works, or not.                                                   *)
LEMMA ImportKeeps ==
  ASSUME Sound, Truthful, disk' = disk, launch' = launch, host' = host,
         NEW o \in Runs, Open(o), Last(o) # None, NEW j \in Jobs, j = Last(o),
         local' \in {local, host[HostOf(j)]}
  PROVE  /\ (OneOpen /\ LaunchesInv /\ Once /\ ContextsInv)'
         /\ (local' = host[HostOf(j)] => Knows(local, j)' /\ Tells(local, j)')
<1>1. Ahead(host[HostOf(j)], j) /\ (disk[o].context.terminal => Tells(local, j))
  BY DEF Sound, LiveInv, ContextsInv, ContextInv
<1>2. \A p, i : KnowsAll(p)' = KnowsAll(p) /\ Knows(p, i)' = Knows(p, i) /\ Tells(p, i)' = Tells(p, i)
                /\ HostOf(i)' = HostOf(i)
  BY DEF KnowsAll, Knows, Tells, Did, HostOf
<1>3. \A i \in Jobs : Knows(host[HostOf(j)], i)
  BY <1>1 DEF Ahead, KnowsAll
<1>4. ASSUME NEW i \in Jobs, Knows(local, i) PROVE Knows(local, i)'
  BY <1>3, <1>4 DEF Knows, Did
<1>5. (disk[o].context.terminal => Tells(local, j)') /\ (local' = host[HostOf(j)] => Tells(local, j)')
  BY SMTT(60), <1>1 DEF Ahead, Tells
<1>6. KeepsSuccess(host[HostOf(j)])'
  BY <1>1 DEF Ahead, KeepsSuccess, HostOf
<1>7. Ahead(host[HostOf(j)], j)'
  BY <1>1, <1>2, <1>6 DEF Ahead
<1>8. ASSUME NEW r \in Runs, Open(r), Last(r) # None
      PROVE  /\ Ahead(host[HostOf(Last(r))], Last(r))'
             /\ (disk[r].context.terminal => Tells(local, Last(r))')
  <2>1. r = o
    BY <1>8 DEF Sound, LiveInv, OneOpen
  <2>2. Last(r)' = j
    BY <2>1 DEF Last
  <2> QED BY <1>5, <1>7, <2>1, <2>2
<1>9. (OneOpen /\ LaunchesInv /\ Once /\ ContextsInv)'
  BY <1>4, <1>8, CopiesKeep
<1>10. local' = host[HostOf(j)] => Knows(local, j)'
  BY <1>3 DEF Knows, Did
<1> QED BY <1>5, <1>9, <1>10

LEMMA ImportLive ==
  ASSUME Sound, NEW r \in Runs, Import(r) \/ ImportFails(r)
  PROVE  LiveInv'
<1>1. In(r, "import") /\ UNCHANGED <<host, launch, look>>
  BY DEF Import, ImportFails
<1>2. /\ at[r].job = Last(r) /\ Last(r) # None /\ Running(r)
      /\ disk[r].context = [job |-> at[r].job, terminal |-> FALSE]
  BY <1>1, FunctionJob DEF In
<1>3. PICK j \in Jobs : j = Last(r)
  BY <1>2, StatusCases
<1>4. Open(r) /\ Over(j)
  BY <1>1, <1>2, <1>3, Alone DEF Sound, LiveInv, FunctionsInv, FunctionInv
<1>5. Truthful /\ disk' = disk
  BY StillTruthful, RaiseMoves DEF Import, ImportFails, registryVars
<1>6. local' \in {local, host[HostOf(j)]}
  BY <1>2, <1>3 DEF Import, ImportFails
<1>7. /\ (OneOpen /\ LaunchesInv /\ Once /\ ContextsInv)'
      /\ (local' = host[HostOf(j)] => Knows(local, j)' /\ Tells(local, j)')
  BY <1>1, <1>2, <1>3, <1>4, <1>5, <1>6, ImportKeeps
<1>8. FunctionInv(r)' /\ \A q \in Runs : q # r => worker'[q] = worker[q]
  <2>1. CASE ImportFails(r)
    BY <2>1, RaiseMoves DEF ImportFails
  <2>2. CASE Import(r)
    <3>1. worker' = worker /\ Go(r, "verify") /\ local' = host[HostOf(j)]
      BY <1>2, <1>3, <2>2 DEF Import, registryVars
    <3>2. \A pc : In(r, pc)' <=> pc = "verify"
      BY <1>1, <3>1, GoMoves DEF In
    <3>3. at'[r].job = j /\ worker'[r] = "running" /\ at'[r].pc = "verify"
      BY <1>1, <1>2, <1>3, <3>1, GoMoves DEF In
    <3>4. Over(j)' /\ Knows(local, j)' /\ Tells(local, j)'
      BY <1>1, <1>4, <1>7, <3>1 DEF Over
    <3>5. disk'[r].context = [job |-> j, terminal |-> FALSE]
      BY <1>2, <1>3, <1>5
    <3> QED BY <3>1, <3>2, <3>3, <3>4, <3>5 DEF FunctionInv
  <2> QED BY <2>1, <2>2
<1>9. FunctionsInv' /\ LookInv'
  BY <1>1, <1>2, <1>8, OthersRest
<1> QED BY <1>7, <1>9 DEF LiveInv

(* During a reconcile every function rests.                                *)
LEMMA FunctionsRest ==
  ASSUME Sound, inspection # NoInspection, worker' = worker
  PROVE  FunctionsInv'
<1>1. \A q \in Runs : worker'[q] \notin Executing
  BY Inspected DEF Running
<1> QED BY <1>1, FunctionKeeps DEF FunctionsInv

(* Where a reconcile is.                                                   *)
LEMMA LookSees ==
  ASSUME Sound, look # "none"
  PROVE  /\ inspection # NoInspection /\ inspection.run \in Runs /\ Open(inspection.run)
         /\ Last(inspection.run) # None /\ Seen = Last(inspection.run) /\ Seen \in Jobs
         /\ (look \in {"import", "verify"} => Over(Seen))
         /\ (look = "verify" => Knows(local, Seen) /\ Tells(local, Seen))
<1>1. inspection # NoInspection /\ LookInv
  BY DEF Sound, LiveTypeOK, LiveInv
<1>2. inspection.run \in Runs /\ Open(inspection.run) /\ Seen = Last(inspection.run)
  BY <1>1, Inspected
<1>3. Last(inspection.run) # None
  BY <1>1 DEF LookInv
<1>4. Last(inspection.run) \in Jobs
  BY <1>2, <1>3, StatusCases
<1> QED BY <1>1, <1>2, <1>3, <1>4 DEF LookInv

LEMMA InspectionEndLive ==
  ASSUME Sound, RegistryTypes', look # "none", look' = "none", UNCHANGED <<local, host, launch, at>>,
         NEW outcome, InspectionEnds(outcome), Truthful
  PROVE  LiveInv'
<1>1. (OneOpen /\ LaunchesInv /\ Once /\ ContextsInv)'
  BY RegistryKeeps DEF Truthful
<1>2. FunctionsInv'
  BY LookSees, FunctionsRest DEF InspectionEnds
<1>3. LookInv'
  BY DEF LookInv
<1> QED BY <1>1, <1>2, <1>3 DEF LiveInv

LEMMA LookLive ==
  ASSUME Sound, RegistryTypes', LookPoll \/ LookImport \/ LookVerify
  PROVE  LiveInv'
<1>1. look # "none" /\ UNCHANGED <<host, launch, at>>
  BY DEF LookPoll, LookImport, LookVerify
<1> DEFINE o == inspection.run
<1>2. PICK j \in Jobs : j = Seen
  BY <1>1, LookSees
<1>3. /\ inspection # NoInspection /\ o \in Runs /\ Open(o) /\ Last(o) # None /\ j = Last(o)
      /\ (look \in {"import", "verify"} => Over(j))
      /\ (look = "verify" => Knows(local, j) /\ Tells(local, j))
  BY <1>1, <1>2, LookSees
<1>4. ASSUME look' = "none", local' = local, InspectionEnds("unknown") PROVE LiveInv'
  <2>1. Truthful
    BY <1>4, InspectionTruthful DEF Resolved
  <2> QED BY <1>1, <1>4, <2>1, InspectionEndLive
<1>5. ASSUME UNCHANGED registryVars, look' \in {"import", "verify"}, local' \in {local, host[HostOf(j)]},
             Over(j), look' = "verify" => local' = host[HostOf(j)]
      PROVE  LiveInv'
  <2>1. Truthful /\ disk' = disk /\ inspection' = inspection /\ worker' = worker
    BY <1>5, StillTruthful DEF registryVars
  <2>2. /\ (OneOpen /\ LaunchesInv /\ Once /\ ContextsInv)'
        /\ (local' = host[HostOf(j)] => Knows(local, j)' /\ Tells(local, j)')
    BY <1>1, <1>3, <1>5, <2>1, ImportKeeps
  <2>3. FunctionsInv'
    BY <1>3, <2>1, FunctionsRest
  <2>4. Last(inspection.run)' = j /\ Over(j)'
    BY <1>1, <1>3, <1>5, <2>1 DEF Last, Over
  <2>5. LookInv'
    BY <1>3, <1>5, <2>2, <2>4, RegistryAssumption DEF LookInv
  <2> QED BY <2>2, <2>3, <2>5 DEF LiveInv
<1>6. CASE LookPoll
  BY <1>2, <1>4, <1>5, <1>6 DEF LookPoll
<1>7. CASE LookImport
  BY <1>2, <1>3, <1>4, <1>5, <1>7 DEF LookImport
<1>8. CASE LookVerify
  <2>1. CASE ~Verified(local, Seen)
    BY <1>4, <1>8, <2>1 DEF LookVerify
  <2>2. CASE Verified(local, Seen)
    <3>1. Done(j) /\ Knows(local, j)
      BY <1>2, <1>3, <1>8, <2>2 DEF LookVerify, Verified, Tells, Done, Terminal
    <3>2. ASSUME launch[j].rc = 0, InspectionEnds("succeeded") PROVE Truthful
      BY <1>3, <3>1, <3>2, InspectionTruthful
    <3>3. ASSUME InspectionEnds("failed") PROVE Truthful
      BY <1>3, <3>1, <3>3, InspectionTruthful
    <3> QED BY SMTT(60), <1>1, <1>2, <1>8, <2>2, <3>2, <3>3, InspectionEndLive DEF LookVerify
  <2> QED BY <2>1, <2>2
<1> QED BY <1>6, <1>7, <1>8

LEMMA InspectLive ==
  ASSUME Sound, RegistryTypes', NEW c \in Controllers, NEW r \in Runs, Inspect(c, r)
  PROVE  LiveInv'
<1>1. /\ disk' = disk /\ worker' = worker /\ UNCHANGED <<local, host, launch, at>> /\ look' = "poll"
      /\ cache' = [cache EXCEPT ![c][r] = Known(c, r)] /\ inspection' = [by |-> c, run |-> r]
      /\ Known(c, r).status = "unknown" /\ Detached(Known(c, r))
  BY DEF Inspect, InspectionBegins, Reconcilable
<1>2. disk[r] # NoRecord
  <2>1. disk[r].status \in Unresolved
    BY <1>1, KnownIsOpen DEF Sound, RegistryInv
  <2> QED BY <2>1, StatusCases DEF Open
<1>3. Known(c, r).context = disk[r].context /\ Says(r, Known(c, r).status)
  BY <1>2, KnownTruthful
<1>4. \A d \in Controllers, q \in Runs :
        cache'[d][q] = cache[d][q] \/ (q = r /\ cache'[d][q] = Known(c, r))
  BY <1>1 DEF Sound, LiveTypeOK, RegistryTypeOK
<1>5. Truthful
  BY <1>1, <1>3, <1>4, CacheTruthful
<1>6. (OneOpen /\ LaunchesInv /\ Once /\ ContextsInv)'
  BY <1>1, <1>5, RegistryKeeps DEF Truthful
<1>7. FunctionsInv'
  BY <1>1, FunctionKeeps DEF FunctionsInv
<1>8. LookInv'
  BY <1>1, <1>3 DEF LookInv, Last, Detached
<1> QED BY <1>6, <1>7, <1>8 DEF LiveInv

(* A retry makes the attempt of a failed task a new one.                   *)
LEMMA RetryLive ==
  ASSUME Sound, NEW t \in Task, RetryTask(t)
  PROVE  LiveInv'
<1>1. /\ UNCHANGED registryVars /\ UNCHANGED <<host, launch, at, look>>
      /\ local[t].status = "failed" /\ local[t].gen \in Nat
      /\ local'[t].status = "pending" /\ local'[t].gen = local[t].gen + 1
      /\ \A u \in Task : u # t => local'[u] = local[u]
  BY DEF RetryTask, Sound, LiveTypeOK, Plan
<1>2. disk' = disk /\ worker' = worker /\ inspection' = inspection /\ Truthful
  BY <1>1, StillTruthful DEF registryVars
<1>3. ASSUME NEW j, launch[j].task \in Task
      PROVE  /\ (Knows(local, j) /\ launch[j].gen \in Nat => Knows(local, j)')
             /\ (Tells(local, j) => Tells(local, j)')
  BY <1>1, <1>3 DEF Knows, Tells, Did, Terminal
<1>4. \A p, j : /\ KnowsAll(p)' = KnowsAll(p) /\ Knows(p, j)' = Knows(p, j) /\ Tells(p, j)' = Tells(p, j)
                /\ HostOf(j)' = HostOf(j) /\ Over(j)' = Over(j)
  BY <1>1 DEF KnowsAll, Knows, Tells, Did, HostOf, Over
<1>5. \A p : KeepsSuccess(p) => KeepsSuccess(p)'
  BY <1>1 DEF KeepsSuccess
<1>6. \A j \in Jobs : launch[j].gen \in Nat
  BY DEF Sound, LiveTypeOK, Launches
<1>7. \A r \in Runs : Last(r)' = Last(r)
  BY <1>2 DEF Last
<1>8. ASSUME NEW j \in Jobs, Done(j), Knows(local, j) PROVE Knows(local, j)'
  <2>1. launch[j].task \in Task
    BY <1>8, SentLaunch DEF Done, Over
  <2> QED BY <1>3, <1>6, <1>8, <2>1
<1>9. ASSUME NEW r \in Runs, Open(r), Last(r) # None
      PROVE  /\ Ahead(host[HostOf(Last(r))], Last(r))'
             /\ (disk[r].context.terminal => Tells(local, Last(r))')
  <2>1. PICK j \in Jobs : j = Last(r) /\ launch[j].task \in Task
    BY <1>9, LastLaunch
  <2>2. Ahead(host[HostOf(j)], j) /\ (disk[r].context.terminal => Tells(local, j))
    BY <1>9, <2>1 DEF Sound, LiveInv, ContextsInv, ContextInv
  <2>3. Ahead(host[HostOf(j)], j)'
    BY <1>1, <1>4, <1>5, <2>2 DEF Ahead
  <2>4. Tells(local, j) => Tells(local, j)'
    BY <1>3, <2>1
  <2> QED BY <1>7, <2>1, <2>2, <2>3, <2>4
<1>10. (OneOpen /\ LaunchesInv /\ Once /\ ContextsInv)'
  BY SMTT(60), <1>1, <1>2, <1>8, <1>9, CopiesKeep
<1>11. ASSUME NEW r \in Runs PROVE FunctionInv(r)'
  <2>1. FunctionInv(r)
    BY DEF Sound, LiveInv, FunctionsInv
  <2>2. \A pc : In(r, pc)' = In(r, pc)
    BY <1>1, <1>2 DEF In
  <2>3. ASSUME In(r, "verify") PROVE Knows(local, at[r].job)' /\ Tells(local, at[r].job)'
    <3>1. PICK j \in Jobs : j = at[r].job /\ launch[j].task \in Task
      BY <2>3, FunctionJob, LastLaunch
    <3>2. Knows(local, j)' /\ Tells(local, j)'
      BY <1>3, <1>6, <2>1, <2>3, <3>1 DEF FunctionInv
    <3> QED BY <1>1, <3>1, <3>2
  <2>4. ASSUME In(r, "record") PROVE KeepsSuccess(host[NodeOf[at[r].task]])' /\ KnowsAll(host[NodeOf[at[r].task]])'
    <3>1. KeepsSuccess(host[NodeOf[at[r].task]]) /\ KnowsAll(host[NodeOf[at[r].task]])
      BY <2>1, <2>4 DEF FunctionInv
    <3> QED BY <1>1, <1>4, <1>5, <3>1
  <2>5. In(r, "push") => local'[at[r].task].status = "pending"
    BY <1>1, <2>1 DEF FunctionInv
  <2>6. at' = at /\ worker' = worker /\ disk' = disk /\ host' = host /\ launch' = launch
    BY <1>1, <1>2
  <2> QED BY <1>4, <1>7, <2>1, <2>2, <2>3, <2>4, <2>5, <2>6 DEF FunctionInv
<1>12. LookInv'
  <2>1. CASE look = "none"
    BY <1>1, <2>1 DEF LookInv
  <2>2. CASE look # "none"
    <3>1. PICK j \in Jobs : /\ j = Last(inspection.run) /\ launch[j].task \in Task /\ inspection.run \in Runs
                            /\ j # None
                            /\ (look \in {"import", "verify"} => Over(j))
                            /\ (look = "verify" => Knows(local, j) /\ Tells(local, j))
      BY <2>2, LookSees, LastLaunch
    <3>2. Last(inspection.run)' = j
      BY <1>2, <1>7, <3>1
    <3>3. look = "verify" => Knows(local, j)' /\ Tells(local, j)'
      BY <1>3, <1>6, <3>1
    <3> QED BY <1>1, <1>4, <3>1, <3>2, <3>3 DEF LookInv
  <2> QED BY <2>1, <2>2
<1> QED BY <1>10, <1>11, <1>12 DEF LiveInv, FunctionsInv

(* The launch in doubt moves on, and its host's copy with it.              *)
LEMMA JobMoves ==
  ASSUME Sound, Truthful, disk' = disk, local' = local,
         NEW j \in Jobs, launch[j] # NotSent, ~Done(j), NEW g,
         launch' = [launch EXCEPT ![j] = g],
         g.run = launch[j].run, g.task = launch[j].task, g.phase # "none",
         g.phase \in {"named", "sent", "begun", "working"} => g.did = "nothing",
         g.phase = "working" =>
           /\ host'[HostOf(j)][launch[j].task].gen = g.gen
           /\ \A i \in Jobs : Did(i) /\ launch[i].task = launch[j].task => launch[i].gen < g.gen,
         g.did # "nothing" =>
           \A i \in Jobs : i # j /\ Did(i) /\ launch[i].task = launch[j].task => launch[i].gen # g.gen,
         Ahead(host[HostOf(j)], j)'
  PROVE  (OneOpen /\ LaunchesInv /\ Once /\ ContextsInv)'
<1>1. PICK r \in Runs :
        /\ Open(r) /\ InDoubt(disk[r]) /\ Last(r) = j /\ launch[j].run = r /\ j # None
        /\ launch[j].task \in Task
        /\ \A q \in Runs : Open(q) => q = r
        /\ \A i \in Jobs : launch[i] # NotSent /\ ~Done(i) => i = j
  BY InDoubtIsLast
<1>2. launch'[j] = g /\ \A i \in Jobs : i # j => launch'[i] = launch[i]
  BY DEF Sound, LiveTypeOK
<1>3. \A q : Last(q)' = Last(q) /\ Open(q)' = Open(q)
  BY DEF Last, Open
<1>4. \A i : Doubt(i)' = Doubt(i)
  BY DEF Doubt, Last, Open
<1>5. ASSUME NEW i \in Jobs, i # j
      PROVE  Done(i)' = Done(i) /\ Knows(local, i)' = Knows(local, i) /\ Did(i)' = Did(i)
  BY <1>2, <1>5 DEF Done, Over, Knows, Did
<1>6. OneOpen'
  BY <1>3 DEF OneOpen, Sound, LiveInv
<1>7. Once'
  BY <1>2, <1>5 DEF Once, Did, Sound, LiveInv
<1>8. ASSUME NEW i \in Jobs PROVE LaunchInv(i)'
  <2>1. CASE i = j
    <3>1. Doubt(j)' /\ launch'[j] = g
      BY <1>1, <1>2, <1>4 DEF Doubt
    <3>2. g.phase = "working" => ~Did(j)'
      BY <1>2 DEF Did
    <3>3. ASSUME g.phase = "working"
          PROVE  /\ host'[HostOf(j)'][launch'[j].task].gen = g.gen
                 /\ \A k \in Jobs : Did(k)' /\ launch'[k].task = launch'[j].task => launch'[k].gen < g.gen
      <4>1. HostOf(j)' = HostOf(j) /\ launch'[j].task = launch[j].task
        BY <1>2 DEF HostOf
      <4>2. \A k \in Jobs : Did(k)' => k # j /\ Did(k) /\ launch'[k] = launch[k]
        BY <1>2, <1>5, <3>2, <3>3
      <4> QED BY <3>3, <4>1, <4>2
    <3>4. Last(launch[j].run)' = j /\ launch'[j].run \in Runs /\ launch'[j].task \in Task
      BY <1>1, <1>2 DEF Last
    <3>5. g.phase \in {"named", "sent", "begun", "working"} => ~Did(j)'
      BY <1>2 DEF Did
    <3> QED BY <1>1, <2>1, <3>1, <3>3, <3>4, <3>5 DEF LaunchInv
  <2>2. CASE i # j
    <3>1. launch'[i] = launch[i] /\ LaunchInv(i)
      BY <1>2, <2>2 DEF Sound, LiveInv, LaunchesInv
    <3>2. launch[i] # NotSent => Done(i)
      BY <1>1, <2>2
    <3>3. launch[i] # NotSent => launch[i].phase = "over"
      BY <3>2 DEF Done, Over
    <3> QED BY <1>3, <1>4, <1>5, <2>2, <3>1, <3>3 DEF LaunchInv
  <2> QED BY <2>1, <2>2
<1>9. ASSUME NEW q \in Runs PROVE ContextInv(q)'
  <2>1. ContextInv(q)
    BY DEF Sound, LiveInv, ContextsInv
  <2>2. Last(q) # None => /\ launch'[Last(q)].phase # "none" /\ launch'[Last(q)].run = q
    BY <1>2, <2>1, StatusCases DEF ContextInv
  <2>3. \A status : Says(q, status) => Says(q, status)'
    <3> SUFFICES ASSUME NEW status, Says(q, status) PROVE Says(q, status)'
      OBVIOUS
    <3>1. ASSUME Last(q) # None, Done(Last(q)) /\ Knows(local, Last(q))
          PROVE  launch'[Last(q)] = launch[Last(q)] /\ Knows(local, Last(q))'
      <4>1. PICK i \in Jobs : i = Last(q) /\ i # j
        BY <3>1, StatusCases
      <4> QED BY <1>2, <1>3, <1>5, <3>1, <4>1
    <3>2. Last(q) = None => Says(q, status)'
      BY <1>3 DEF Says
    <3> QED BY <3>1, <3>2, SaysStep
  <2>4. Says(q, disk[q].status)'
    BY <2>1, <2>3 DEF ContextInv
  <2>5. ASSUME NEW c \in Controllers, cache'[c][q] # NoRecord
        PROVE  (cache[c][q].context = disk[q].context /\ Says(q, cache[c][q].status))'
    BY <2>3, <2>5 DEF Truthful
  <2>6. ASSUME Open(q), Last(q) # None
        PROVE  /\ Ahead(host[HostOf(Last(q))], Last(q))'
               /\ ~disk'[q].context.terminal
    <3>1. q = r /\ Last(q)' = j
      BY <1>1, <1>3, <2>6
    <3> QED BY <1>1, <3>1 DEF InDoubt
  <2> QED BY <1>3, <2>1, <2>2, <2>4, <2>5, <2>6 DEF ContextInv
<1> QED BY <1>6, <1>7, <1>8, <1>9 DEF LaunchesInv, ContextsInv

(* A new phase and exit code of a launch, on an unchanged copy.            *)
LEMMA PhaseMoves ==
  ASSUME Sound, Truthful, disk' = disk, local' = local, host' = host,
         NEW j \in Jobs, launch[j] # NotSent, ~Done(j), NEW g,
         launch' = [launch EXCEPT ![j] = g],
         g.run = launch[j].run, g.task = launch[j].task, g.did = launch[j].did, g.gen = launch[j].gen,
         g.phase \in {"named", "sent", "begun", "over", "dead"},
         g.phase \in {"named", "sent", "begun"} => launch[j].phase \in {"named", "sent"}
  PROVE  (OneOpen /\ LaunchesInv /\ Once /\ ContextsInv)'
<1>1. LaunchInv(j)
  BY DEF Sound, LiveInv, LaunchesInv
<1>2. g.phase \in {"named", "sent", "begun", "working"} => g.did = "nothing"
  BY <1>1 DEF LaunchInv, Did
<1>3. launch'[j] = g /\ \A i \in Jobs : i # j => launch'[i] = launch[i]
  BY DEF Sound, LiveTypeOK
<1>4. Ahead(host[HostOf(j)], j)
  BY InDoubtIsLast
<1>5. Ahead(host[HostOf(j)], j)'
  <2>1. HostOf(j)' = HostOf(j)
    BY <1>3 DEF HostOf
  <2>2. \A p, i : i \in Jobs => Knows(p, i)' = Knows(p, i) /\ Tells(p, i)' = Tells(p, i)
    BY <1>3 DEF Knows, Tells, Did
  <2> QED BY <1>4, <2>1, <2>2 DEF Ahead, KnowsAll, KeepsSuccess
<1>6. g.did # "nothing" =>
        \A i \in Jobs : i # j /\ Did(i) /\ launch[i].task = launch[j].task => launch[i].gen # g.gen
  BY DEF Sound, LiveInv, Once, Did
<1> QED BY <1>2, <1>5, <1>6, JobMoves

(* While an executor is alive the function of its run polls, if any, and   *)
(* so does a reconcile.                                                    *)
LEMMA ExecutorRest ==
  ASSUME Sound, UNCHANGED <<registryVars, local, at, look>>,
         NEW j \in Jobs, launch[j].phase \in {"sent", "begun", "working", "reported"}
  PROVE  FunctionsInv' /\ LookInv'
<1>1. launch[j] # NotSent /\ ~Done(j) /\ ~Over(j)
  BY DEF NotSent, Done, Over
<1>2. PICK r \in Runs :
        /\ Open(r) /\ Last(r) = j
        /\ \A q \in Runs : Open(q) => q = r
        /\ \A q \in Runs : ~In(q, "select") /\ ~In(q, "push") /\ ~In(q, "record") /\ ~In(q, "return")
  BY <1>1, InDoubtIsLast
<1>3. /\ disk' = disk /\ worker' = worker /\ inspection' = inspection /\ at' = at /\ look' = look
      /\ \A q : Last(q)' = Last(q) /\ \A pc : In(q, pc)' = In(q, pc)
  BY SMTT(60) DEF registryVars, Last, In
<1>4. ASSUME NEW q \in Runs PROVE FunctionInv(q)'
  <2>1. FunctionInv(q)
    BY DEF Sound, LiveInv, FunctionsInv
  <2>2. ASSUME In(q, "launch") \/ In(q, "import") \/ In(q, "verify") PROVE FALSE
    <3>1. Running(q) /\ at[q].job = Last(q)
      BY <2>2, FunctionJob
    <3>2. at[q].job = j
      BY <1>2, <3>1, Alone
    <3>3. Over(at[q].job) \/ launch[at[q].job].phase = "named"
      BY <2>1, <2>2 DEF FunctionInv
    <3> QED BY <1>1, <3>2, <3>3
  <2> QED BY <1>2, <1>3, <2>1, <2>2 DEF FunctionInv
<1>5. LookInv'
  <2>1. CASE look = "none"
    BY <1>3, <2>1 DEF LookInv
  <2>2. CASE look # "none"
    <3>1. inspection.run = r /\ Seen = Last(inspection.run) /\ (look \in {"import", "verify"} => Over(Seen))
          /\ Last(inspection.run) # None
      BY <1>2, <2>2, LookSees
    <3>2. look \notin {"import", "verify"}
      BY <1>1, <1>2, <3>1
    <3> QED BY <1>3, <3>1, <3>2 DEF LookInv
  <2> QED BY <2>1, <2>2
<1> QED BY <1>4, <1>5 DEF FunctionsInv

(* The attempt that is claimed is past every attempt worked on before.     *)
LEMMA ClaimLive ==
  ASSUME Sound, NEW j \in Jobs, Claim(j)
  PROVE  LiveInv'
<1>0. launch[j].phase = "begun"
  BY DEF Claim
<1>place. PICK n \in Node, t \in Task : n = HostOf(j) /\ t = launch[j].task
  BY SMTT(60), <1>0, SentLaunch
<1> DEFINE g == [launch[j] EXCEPT !.phase = "working", !.gen = host[n][t].gen]
<1>1. /\ launch[j].phase = "begun" /\ IsNext(host[n], t) /\ UNCHANGED <<registryVars, local, at, look>>
      /\ host' = [host EXCEPT ![n][t].status = "running"] /\ launch' = [launch EXCEPT ![j] = g]
  BY <1>place DEF Claim
<1>2. launch[j] # NotSent /\ ~Done(j) /\ Ahead(host[n], j)
  <2>1. launch[j] # NotSent /\ ~Done(j)
    BY <1>1, SentLaunch DEF Done, Over
  <2> QED BY <1>place, <2>1, InDoubtIsLast
<1>3. /\ g.run = launch[j].run /\ g.task = t /\ g.phase = "working" /\ g.did = launch[j].did
      /\ g.gen = host[n][t].gen
  BY <1>place DEF Sound, LiveTypeOK, Launches
<1>4. ~Did(j)
  BY <1>1, <1>2 DEF Sound, LiveInv, LaunchesInv, LaunchInv
<1> HIDE DEF g
<1>5. /\ host'[n][t].status = "running" /\ host'[n][t].gen = host[n][t].gen
      /\ \A u \in Task : u # t => host'[n][u] = host[n][u]
  BY <1>1, <1>2 DEF Sound, LiveTypeOK, Plan
<1>6. host[n][t].status = "pending"
  BY <1>1 DEF IsNext
<1>7. launch'[j] = g /\ \A i \in Jobs : i # j => launch'[i] = launch[i]
  BY <1>1 DEF Sound, LiveTypeOK
<1>8. ASSUME NEW i \in Jobs, Did(i), launch[i].task = t PROVE launch[i].gen < host[n][t].gen
  BY <1>2, <1>6, <1>8 DEF Ahead, KnowsAll, Knows, Terminal, Sound, LiveTypeOK, Launches, Plan
<1>9. Ahead(host[n], j)' /\ HostOf(j)' = n
  <2>1. HostOf(j)' = n
    BY <1>place, <1>3, <1>7 DEF HostOf
  <2>2. ASSUME NEW i \in Jobs PROVE Knows(host[n], i)'
    <3>1. CASE i = j
      BY <1>3, <1>4, <1>7, <3>1 DEF Knows, Did
    <3>2. CASE i # j
      <4>1. Did(i) => launch[i].task \in Task
        BY SentLaunch DEF Did, Sound, LiveInv, LaunchesInv, LaunchInv, NotSent
      <4>2. Knows(host[n], i)
        BY <1>2 DEF Ahead, KnowsAll
      <4> QED BY <1>5, <1>7, <1>8, <3>2, <4>1, <4>2 DEF Knows, Did
    <3> QED BY <3>1, <3>2
  <2>3. Tells(host[n], j)'
    BY <1>3, <1>5, <1>7 DEF Tells, Terminal
  <2>4. KeepsSuccess(host[n])'
    BY <1>1, <1>2, <1>5, <1>6 DEF Ahead, KeepsSuccess
  <2>5. KnowsAll(host[n])'
    BY <2>2 DEF KnowsAll
  <2> QED BY <2>1, <2>3, <2>4, <2>5 DEF Ahead
<1>10. disk' = disk /\ local' = local /\ Truthful
  BY SMTT(60), <1>1, StillTruthful DEF registryVars
<1>11. (OneOpen /\ LaunchesInv /\ Once /\ ContextsInv)'
  BY ZenonT(60), <1>place, <1>1, <1>2, <1>3, <1>4, <1>5, <1>8, <1>9, <1>10, JobMoves DEF Did
<1>12. FunctionsInv' /\ LookInv'
  BY <1>1, ExecutorRest
<1> QED BY <1>11, <1>12 DEF LiveInv

(* What an executor reports of its task, its copy is the first to know.    *)
LEMMA CompleteLive ==
  ASSUME Sound, NEW j \in Jobs, NEW status \in Terminal, Complete(j, status)
  PROVE  LiveInv'
<1>0. launch[j].phase = "working"
  BY DEF Complete
<1>place. PICK n \in Node, t \in Task : n = HostOf(j) /\ t = launch[j].task
  BY <1>0, SentLaunch
<1> DEFINE g == [launch[j] EXCEPT !.phase = "reported", !.did = status]
<1>1. /\ UNCHANGED <<registryVars, local, at, look>> /\ host[n][t].status = "running"
      /\ host' = [host EXCEPT ![n][t].status = status] /\ launch' = [launch EXCEPT ![j] = g]
  BY <1>place DEF Complete
<1>2. launch[j] # NotSent /\ ~Done(j) /\ Ahead(host[n], j)
  <2>1. launch[j] # NotSent /\ ~Done(j)
    BY <1>0, SentLaunch DEF Done, Over
  <2> QED BY <1>place, <2>1, InDoubtIsLast
<1>3. /\ g.run = launch[j].run /\ g.task = t /\ g.phase = "reported" /\ g.did = status
      /\ g.gen = launch[j].gen
  BY <1>place DEF Sound, LiveTypeOK, Launches
<1>4. /\ host[n][t].gen = launch[j].gen
      /\ \A i \in Jobs : Did(i) /\ launch[i].task = t => launch[i].gen < launch[j].gen
  BY <1>0, <1>2, <1>place DEF Sound, LiveInv, LaunchesInv, LaunchInv
<1> HIDE DEF g
<1>5. /\ host'[n][t].status = status /\ host'[n][t].gen = host[n][t].gen
      /\ \A u \in Task : u # t => host'[n][u] = host[n][u]
  BY <1>1 DEF Sound, LiveTypeOK, Plan
<1>6. launch'[j] = g /\ \A i \in Jobs : i # j => launch'[i] = launch[i]
  BY <1>1 DEF Sound, LiveTypeOK
<1>7. \A i \in Jobs : launch[i].gen \in Nat
  BY DEF Sound, LiveTypeOK, Launches
<1>8. Ahead(host[n], j)' /\ HostOf(j)' = n
  <2>1. HostOf(j)' = n
    BY <1>place, <1>3, <1>6 DEF HostOf
  <2>2. ASSUME NEW i \in Jobs PROVE Knows(host[n], i)'
    <3>1. CASE i = j
      BY <1>3, <1>4, <1>5, <1>6, <3>1 DEF Knows, Did
    <3>2. CASE i # j
      <4>1. Did(i) => launch[i].task \in Task
        BY SentLaunch DEF Did, Sound, LiveInv, LaunchesInv, LaunchInv, NotSent
      <4>2. Knows(host[n], i)
        BY <1>2 DEF Ahead, KnowsAll
      <4> QED BY <1>4, <1>5, <1>6, <1>7, <3>2, <4>1, <4>2 DEF Knows, Did
    <3> QED BY <3>1, <3>2
  <2>3. Tells(host[n], j)'
    BY <1>3, <1>5, <1>6 DEF Tells
  <2>4. KeepsSuccess(host[n])'
    BY <1>1, <1>2, <1>5 DEF Ahead, KeepsSuccess
  <2>5. KnowsAll(host[n])'
    BY <2>2 DEF KnowsAll
  <2> QED BY <2>1, <2>3, <2>4, <2>5 DEF Ahead
<1>9. disk' = disk /\ local' = local /\ Truthful
  BY <1>1, StillTruthful DEF registryVars
<1>10. \A i \in Jobs : i # j /\ Did(i) /\ launch[i].task = launch[j].task => launch[i].gen # g.gen
  BY SMTT(60), <1>3, <1>4, <1>7, <1>place
<1>11. (OneOpen /\ LaunchesInv /\ Once /\ ContextsInv)'
  BY <1>1, <1>2, <1>3, <1>8, <1>9, <1>10, <1>place, JobMoves
<1>12. FunctionsInv' /\ LookInv'
  BY <1>0, <1>1, ExecutorRest
<1> QED BY <1>11, <1>12 DEF LiveInv

LEMMA ExecutorLive ==
  ASSUME Sound, NEW j \in Jobs, Executor(j)
  PROVE  LiveInv'
<1>1. CASE Claim(j)
  BY <1>1, ClaimLive
<1>2. ASSUME NEW status \in Terminal, Complete(j, status) PROVE LiveInv'
  BY <1>2, CompleteLive
<1>3. CASE Arrive(j) \/ Refuse(j) \/ WriteExit(j) \/ Killed(j) \/ Lost(j)
  <2>1. /\ launch[j].phase \in {"sent", "begun", "working", "reported"}
        /\ UNCHANGED <<registryVars, local, host, at, look>>
    BY <1>3 DEF Arrive, Refuse, WriteExit, Killed, Lost
  <2>2. launch[j] # NotSent /\ ~Done(j)
    BY <2>1 DEF NotSent, Done, Over
  <2>3. disk' = disk /\ local' = local /\ host' = host /\ Truthful
    BY <2>1, StillTruthful DEF registryVars
  <2>4. PICK g : /\ launch' = [launch EXCEPT ![j] = g]
                 /\ g.run = launch[j].run /\ g.task = launch[j].task
                 /\ g.did = launch[j].did /\ g.gen = launch[j].gen
                 /\ g.phase \in {"named", "sent", "begun", "over", "dead"}
                 /\ (g.phase \in {"named", "sent", "begun"} => launch[j].phase \in {"named", "sent"})
    <3>1. CASE Arrive(j) \/ Lost(j)
      <4>1. PICK phase \in {"begun", "dead"} : /\ launch' = [launch EXCEPT ![j].phase = phase]
                                              /\ (phase = "begun" => launch[j].phase = "sent")
        BY <3>1 DEF Arrive, Lost
      <4> DEFINE g == [launch[j] EXCEPT !.phase = phase]
      <4>2. launch' = [launch EXCEPT ![j] = g]
        BY <4>1
      <4>3. g.run = launch[j].run /\ g.task = launch[j].task /\ g.did = launch[j].did /\ g.gen = launch[j].gen
            /\ g.phase = phase
        BY DEF Sound, LiveTypeOK, Launches
      <4> HIDE DEF g
      <4> QED BY <4>1, <4>2, <4>3
    <3>2. CASE Refuse(j) \/ WriteExit(j) \/ Killed(j)
      <4>1. PICK rc \in {0, 1} : launch' = [launch EXCEPT ![j].phase = "over", ![j].rc = rc]
        BY <3>2 DEF Refuse, WriteExit, Killed
      <4> DEFINE g == [launch[j] EXCEPT !.phase = "over", !.rc = rc]
      <4>2. launch' = [launch EXCEPT ![j] = g]
        BY <4>1
      <4>3. g.run = launch[j].run /\ g.task = launch[j].task /\ g.did = launch[j].did /\ g.gen = launch[j].gen
            /\ g.phase = "over"
        BY DEF Sound, LiveTypeOK, Launches
      <4> HIDE DEF g
      <4> QED BY <4>2, <4>3
    <3> QED BY <1>3, <3>1, <3>2
  <2>5. (OneOpen /\ LaunchesInv /\ Once /\ ContextsInv)'
    BY <2>2, <2>3, <2>4, PhaseMoves
  <2>6. FunctionsInv' /\ LookInv'
    BY <2>1, ExecutorRest
  <2> QED BY <2>5, <2>6 DEF LiveInv
<1> QED BY <1>1, <1>2, <1>3 DEF Executor

LEMMA LaunchLive ==
  ASSUME Sound, NEW r \in Runs, Launch(r) \/ LaunchFails(r)
  PROVE  LiveInv'
<1>1. In(r, "launch") /\ UNCHANGED <<local, host, look>>
  BY DEF Launch, LaunchFails
<1>2. /\ at[r].job = Last(r) /\ Last(r) # None /\ Running(r)
      /\ disk[r].context = [job |-> at[r].job, terminal |-> FALSE]
  BY <1>1, FunctionJob DEF In
<1>3. PICK j \in Jobs : j = Last(r) /\ launch[j] # NotSent
  BY <1>2, LastLaunch
<1>4. launch[j].phase = "named" /\ ~Done(j)
  BY <1>1, <1>2, <1>3 DEF Sound, LiveInv, FunctionsInv, FunctionInv, Done, Over
<1>5. PICK phase \in {"named", "sent", "begun"} : launch' = [launch EXCEPT ![j].phase = phase]
  BY <1>2, <1>3 DEF Launch, LaunchFails
<1> DEFINE g == [launch[j] EXCEPT !.phase = phase]
<1>6. launch' = [launch EXCEPT ![j] = g]
  BY <1>5
<1>7. g.run = launch[j].run /\ g.task = launch[j].task /\ g.did = launch[j].did /\ g.gen = launch[j].gen
      /\ g.phase = phase
  BY DEF Sound, LiveTypeOK, Launches
<1> HIDE DEF g
<1>8. disk' = disk /\ Truthful
  BY StillTruthful, RaiseMoves DEF Launch, LaunchFails, registryVars
<1>9. (OneOpen /\ LaunchesInv /\ Once /\ ContextsInv)'
  BY <1>1, <1>3, <1>4, <1>6, <1>7, <1>8, PhaseMoves
<1>10. FunctionInv(r)' /\ \A q \in Runs : q # r => worker'[q] = worker[q]
  <2>1. CASE LaunchFails(r)
    BY <2>1, RaiseMoves DEF LaunchFails
  <2>2. CASE Launch(r)
    <3>1. worker' = worker /\ Go(r, "poll")
      BY <2>2 DEF Launch, registryVars
    <3>2. \A pc : In(r, pc)' <=> pc = "poll"
      BY <1>1, <3>1, GoMoves DEF In
    <3>3. at'[r].job = j /\ worker'[r] = "running" /\ at'[r].pc = "poll"
      BY <1>1, <1>2, <1>3, <3>1, GoMoves DEF In
    <3>4. disk'[r].context = [job |-> j, terminal |-> FALSE]
      BY <1>2, <1>3, <1>8
    <3> QED BY <3>1, <3>2, <3>3, <3>4 DEF FunctionInv
  <2> QED BY <2>1, <2>2
<1>11. FunctionsInv' /\ LookInv'
  BY <1>1, <1>2, <1>10, OthersRest
<1> QED BY <1>9, <1>11 DEF LiveInv

(* A function that writes its context changes that alone, of its own run.  *)
LEMMA ContextSet ==
  ASSUME Sound, NEW r \in Runs, NEW context, SetContext(r, context)
  PROVE  /\ Running(r) /\ disk'[r].context = context /\ disk'[r].status = disk[r].status
         /\ worker' = worker /\ inspection' = inspection
         /\ \A q \in Runs : Open(q)' = Open(q) /\ (q # r => disk'[q] = disk[q])
         /\ \A c \in Controllers, q \in Runs : cache'[c][q] # NoRecord =>
              (q = r /\ cache'[c][q] = disk'[r]) \/ (q # r /\ cache'[c][q] = cache[c][q])
<1>1. Running(r) /\ worker' = worker /\ inspection' = inspection
  BY DEF SetContext, Running, Executing
<1>2. Owner(r) \in Controllers /\ cache[Owner(r)][r] = disk[r] /\ disk[r] \in Record
  BY <1>1, Alone, StatusCases
<1>3. up[Owner(r)] = "up"
  BY <1>1, WorkerRecord DEF Sound, RegistryInv, Running
<1> DEFINE rec == [disk[r] EXCEPT !.context = context]
<1>4. disk' = [disk EXCEPT ![r] = rec] /\ cache' = [cache EXCEPT ![Owner(r)][r] = rec]
  BY <1>2 DEF SetContext, Save
<1>5. rec.context = context /\ rec.status = disk[r].status
  BY <1>2 DEF Record
<1> HIDE DEF rec
<1>6. disk'[r] = rec /\ \A q \in Runs : q # r => disk'[q] = disk[q]
  BY <1>4 DEF Sound, LiveTypeOK, RegistryTypeOK
<1>7. \A q \in Runs : Open(q)' = Open(q)
  BY <1>5, <1>6 DEF Open
<1>8. ASSUME NEW c \in Controllers, NEW q \in Runs, cache'[c][q] # NoRecord
      PROVE  (q = r /\ cache'[c][q] = disk'[r]) \/ (q # r /\ cache'[c][q] = cache[c][q])
  <2>1. CASE c = Owner(r)
    BY <1>2, <1>4, <1>6, <2>1 DEF Sound, LiveTypeOK, RegistryTypeOK
  <2>2. CASE c # Owner(r)
    <3>1. cache'[c] = cache[c]
      BY <1>4, <2>2 DEF Sound, LiveTypeOK, RegistryTypeOK
    <3>2. up[c] # "up"
      BY <1>2, <1>3, <2>2 DEF Sound, RegistryInv, OneUp
    <3>3. cache[c][q] = NoRecord
      BY <3>2 DEF Sound, RegistryInv, OneUp
    <3> QED BY <1>8, <3>1, <3>3
  <2> QED BY <2>1, <2>2
<1> QED BY <1>1, <1>5, <1>6, <1>7, <1>8

(* The next launch is named: until it ends it is the one in doubt.         *)
LEMMA RecordLive ==
  ASSUME Sound, NEW r \in Runs, RecordLaunch(r)
  PROVE  LiveInv'
<1>1. In(r, "record") /\ Running(r) /\ UNCHANGED <<local, host, look>>
  BY SMTT(60) DEF RecordLaunch, In, Running, Executing
<1>2. PICK j \in Jobs, t \in Task :
        /\ launch[j] = NotSent /\ t = at[r].task /\ SetContext(r, [job |-> j, terminal |-> FALSE])
        /\ launch' = [launch EXCEPT ![j] = [NotSent EXCEPT !.run = r, !.task = t, !.phase = "named"]]
        /\ at' = [at EXCEPT ![r].pc = "launch", ![r].job = j]
  BY ZenonT(60), <1>1 DEF RecordLaunch, Fresh, Coordinates, Sound, LiveInv, FunctionsInv, FunctionInv
<1>3. /\ disk'[r].context = [job |-> j, terminal |-> FALSE] /\ disk'[r].status = disk[r].status
      /\ worker' = worker /\ inspection' = inspection
      /\ \A q \in Runs : Open(q)' = Open(q) /\ (q # r => disk'[q] = disk[q])
      /\ \A c \in Controllers, q \in Runs : cache'[c][q] # NoRecord =>
           (q = r /\ cache'[c][q] = disk'[r]) \/ (q # r /\ cache'[c][q] = cache[c][q])
  BY <1>2, ContextSet
<1>4. /\ disk'[r].context.job = j /\ disk'[r].context.terminal = FALSE /\ j # None
      /\ Last(r)' = j /\ InDoubt(disk[r])'
  BY SMTT(60), <1>3, RegistryAssumption DEF Last, InDoubt, Detached
<1>5. /\ (Last(r) # None => disk[r].context.terminal /\ launch[Last(r)].rc = 0)
      /\ KnowsAll(host[NodeOf[t]]) /\ KeepsSuccess(host[NodeOf[t]]) /\ host[NodeOf[t]][t].status = "pending"
  BY <1>1, <1>2 DEF Sound, LiveInv, FunctionsInv, FunctionInv
<1>6. Open(r) /\ ~InDoubt(disk[r]) /\ \A q \in Runs : Open(q) => q = r
  BY <1>1, <1>5, Alone DEF InDoubt, Detached, Last
<1>7. /\ launch'[j].run = r /\ launch'[j].task = t /\ launch'[j].phase = "named" /\ launch'[j].did = "nothing"
      /\ \A i \in Jobs : i # j => launch'[i] = launch[i]
  BY <1>2 DEF Sound, LiveTypeOK, NotSent
<1>8. \A i \in Jobs : launch[i] # NotSent => Done(i) /\ Knows(local, i)
  BY <1>6, NoDoubt
<1>9. \A i \in Jobs : i # j => Done(i)' = Done(i) /\ Did(i)' = Did(i) /\ \A p : Knows(p, i)' = Knows(p, i)
  BY <1>7 DEF Done, Over, Did, Knows
<1>10. ~Did(j) /\ ~Did(j)'
  BY <1>2, <1>7 DEF Did, NotSent
<1>11. \A q \in Runs : q # r => Last(q)' = Last(q)
  BY <1>3 DEF Last
<1>12. OneOpen' /\ Once'
  BY <1>3, <1>7, <1>9, <1>10 DEF OneOpen, Once, Sound, LiveInv
<1>13. ASSUME NEW i \in Jobs PROVE LaunchInv(i)'
  <2>1. CASE i = j
    <3>1. Doubt(j)'
      BY <1>3, <1>4, <1>6 DEF Doubt
    <3>2. Last(launch[j].run)' = j
      BY <1>4, <1>7 DEF Last
    <3> QED BY <1>4, <1>7, <1>10, <2>1, <3>1, <3>2 DEF LaunchInv
  <2>2. CASE i # j
    <3>1. launch'[i] = launch[i] /\ LaunchInv(i) /\ (launch[i] # NotSent => Done(i) /\ Knows(local, i))
      BY <1>7, <1>8, <2>2 DEF Sound, LiveInv, LaunchesInv
    <3>2. launch[i] # NotSent => (\/ Last(launch[i].run)' # None /\ launch[i].rc = 0
                                \/ launch[i].run # r)
      <4>1. CASE launch[i].run = r /\ Last(r) = i
        BY <1>4, <1>5, <1>7, <2>2, <4>1, RegistryAssumption DEF Last
      <4>2. CASE launch[i].run = r /\ Last(r) # i
        BY <1>4, <1>7, <2>2, <3>1, <4>2 DEF Last, LaunchInv
      <4> QED BY <4>1, <4>2
    <3>3. launch[i] # NotSent /\ launch[i].run # r => Last(launch[i].run)' = Last(launch[i].run)
      BY <1>11, <3>1 DEF LaunchInv, Last
    <3>4. launch[i] # NotSent => Done(i)' /\ Knows(local, i)' /\ launch[i].phase = "over"
      BY <1>1, <1>9, <2>2, <3>1 DEF Done, Over, Knows, Did
    <3> QED BY <1>9, <2>2, <3>1, <3>2, <3>3, <3>4 DEF LaunchInv
  <2> QED BY <2>1, <2>2
<1>14. ASSUME NEW q \in Runs PROVE ContextInv(q)'
  <2>1. CASE q = r
    <3>1. Ahead(host[NodeOf[t]], j)'
      <4>1. KnowsAll(host[NodeOf[t]])'
        BY <1>1, <1>5, <1>9, <1>10 DEF KnowsAll, Knows
      <4>2. Tells(host[NodeOf[t]], j)' /\ KeepsSuccess(host[NodeOf[t]])'
        BY <1>1, <1>5, <1>7 DEF Tells, KeepsSuccess, Terminal
      <4> QED BY SMTT(60), <4>1, <4>2 DEF Ahead
    <3>2. HostOf(j)' = NodeOf[t]
      BY <1>7 DEF HostOf
    <3>3. disk'[r].status \notin Resolved
      BY <1>3, <1>6, StatusCases
    <3>4. Says(r, disk[r].status)'
      BY <3>3 DEF Says, Resolved
    <3>5. ASSUME NEW c \in Controllers, cache'[c][r] # NoRecord
          PROVE  (cache[c][r].context = disk[r].context /\ Says(r, cache[c][r].status))'
      BY <1>3, <3>4, <3>5 DEF Says
    <3> QED BY <1>4, <1>7, <2>1, <3>1, <3>2, <3>4, <3>5 DEF ContextInv
  <2>2. CASE q # r
    <3>1. ContextInv(q) /\ ~Open(q)' /\ disk'[q] = disk[q] /\ Last(q)' = Last(q)
      BY <1>3, <1>6, <1>11, <2>2 DEF Sound, LiveInv, ContextsInv
    <3>2. Last(q) # None => Last(q) \in Jobs /\ Last(q) # j
      BY <1>2, LastLaunch
    <3>3. \A status : Says(q, status) => Says(q, status)'
      <4> SUFFICES ASSUME NEW status, Says(q, status) PROVE Says(q, status)'
        OBVIOUS
      <4>1. Last(q) # None /\ Knows(local, Last(q)) => launch'[Last(q)] = launch[Last(q)] /\ Knows(local, Last(q))'
        BY <1>1, <1>7, <3>1, <3>2 DEF Knows, Did
      <4>2. Last(q) = None => Says(q, status)'
        BY <3>1 DEF Says
      <4> QED BY <3>1, <4>1, <4>2, SaysStep
    <3>4. Last(q) # None => launch'[Last(q)].phase # "none" /\ launch'[Last(q)].run = q
      BY <1>7, <3>1, <3>2 DEF ContextInv
    <3>5. Says(q, disk[q].status)'
      BY <3>1, <3>3 DEF ContextInv
    <3>6. ASSUME NEW c \in Controllers, cache'[c][q] # NoRecord
          PROVE  (cache[c][q].context = disk[q].context /\ Says(q, cache[c][q].status))'
      BY SMTT(60), <1>3, <2>2, <3>1, <3>3, <3>6 DEF ContextInv
    <3> QED BY <3>1, <3>4, <3>5, <3>6 DEF ContextInv
  <2> QED BY <2>1, <2>2
<1>15. FunctionInv(r)'
  <2>1. worker'[r] = "running" /\ at'[r].pc = "launch" /\ at'[r].job = j
    BY <1>1, <1>2, <1>3 DEF In, Sound, LiveTypeOK, Functions
  <2>2. \A pc : In(r, pc)' <=> pc = "launch"
    BY <2>1 DEF In
  <2> QED BY <1>3, <1>7, <2>1, <2>2 DEF FunctionInv
<1>16. FunctionsInv' /\ LookInv'
  BY <1>1, <1>3, <1>15, OthersRest
<1> QED BY <1>12, <1>13, <1>14, <1>16 DEF LiveInv, LaunchesInv, ContextsInv

(* A verified end takes the launch out of doubt.                           *)
LEMMA VerifyLive ==
  ASSUME Sound, RegistryTypes', NEW r \in Runs, Verify(r)
  PROVE  LiveInv'
<1>1. In(r, "verify") /\ UNCHANGED <<local, host, launch, look>>
  BY DEF Verify
<1>2. /\ at[r].job = Last(r) /\ Last(r) # None /\ Running(r)
      /\ disk[r].context = [job |-> at[r].job, terminal |-> FALSE]
  BY <1>1, FunctionJob DEF In
<1>3. CASE Raise(r)
  BY <1>1, <1>2, <1>3, RaiseMoves, FunctionMoves
<1>4. CASE /\ Verified(local, at[r].job) /\ Go(r, "return")
           /\ SetContext(r, [disk[r].context EXCEPT !.terminal = TRUE])
  <2>1. PICK j \in Jobs : j = Last(r) /\ launch[j] # NotSent
    BY <1>2, LastLaunch
  <2>2. Over(j) /\ Knows(local, j) /\ Tells(local, j)
    BY <1>1, <1>2, <2>1 DEF Sound, LiveInv, FunctionsInv, FunctionInv
  <2>3. Done(j)
    BY <1>2, <1>4, <2>1, <2>2 DEF Verified, Tells, Done, Terminal
  <2>4. [disk[r].context EXCEPT !.terminal = TRUE] = [job |-> j, terminal |-> TRUE]
    <3> DEFINE y == [disk[r].context EXCEPT !.terminal = TRUE]
    <3>1. disk[r].context \in Contexts /\ disk[r].context.job = j
      BY <1>2, <2>1 DEF Contexts
    <3>2. y \in Contexts /\ y.job = j /\ y.terminal = TRUE
      BY <3>1 DEF Contexts
    <3> HIDE DEF y
    <3>3. y = [job |-> j, terminal |-> TRUE]
      BY <3>2 DEF Contexts
    <3> QED BY <3>3 DEF y
  <2>5. SetContext(r, [job |-> j, terminal |-> TRUE])
    BY <1>4, <2>4
  <2>6. /\ disk'[r].context = [job |-> j, terminal |-> TRUE] /\ disk'[r].status = disk[r].status
        /\ worker' = worker /\ inspection' = inspection
        /\ \A q \in Runs : Open(q)' = Open(q) /\ (q # r => disk'[q] = disk[q])
        /\ \A c \in Controllers, q \in Runs : cache'[c][q] # NoRecord =>
             (q = r /\ cache'[c][q] = disk'[r]) \/ (q # r /\ cache'[c][q] = cache[c][q])
    BY <2>5, ContextSet
  <2>7. \A q \in Runs : Last(q)' = Last(q)
    BY <2>1, <2>6 DEF Last
  <2>8. Open(r) /\ \A q \in Runs : Open(q) => q = r
    BY <1>2, Alone
  <2>9. \A i : /\ Done(i)' = Done(i) /\ Did(i)' = Did(i) /\ HostOf(i)' = HostOf(i)
               /\ \A p : Knows(p, i)' = Knows(p, i) /\ Tells(p, i)' = Tells(p, i)
    BY <1>1 DEF Done, Over, Did, Knows, Tells, HostOf
  <2>10. OneOpen' /\ Once'
    BY <1>1, <2>6, <2>9 DEF OneOpen, Once, Sound, LiveInv
  <2>11. ASSUME NEW i \in Jobs PROVE LaunchInv(i)'
    <3>1. LaunchInv(i)
      BY DEF Sound, LiveInv, LaunchesInv
    <3>2. i # j => ~Doubt(i)
      BY <2>1, <2>8 DEF Doubt
    <3>3. launch[i] # NotSent => Done(i) /\ Knows(local, i)
      BY <2>2, <2>3, <3>1, <3>2 DEF LaunchInv
    <3>4. launch[i] # NotSent => Done(i)' /\ Knows(local, i)' /\ launch[i].phase = "over"
      BY <1>1, <3>3 DEF Done, Over, Knows, Did
    <3>5. launch[i].run \in Runs => Last(launch[i].run)' = Last(launch[i].run)
      BY <1>1, <2>7
    <3> QED BY <1>1, <2>9, <3>1, <3>4, <3>5 DEF LaunchInv
  <2>12. ASSUME NEW q \in Runs PROVE ContextInv(q)'
    <3>1. ContextInv(q)
      BY DEF Sound, LiveInv, ContextsInv
    <3>2. \A status : Says(q, status) => Says(q, status)'
      BY <1>1, <2>7 DEF Says, Done, Over, Knows, Did
    <3>3. disk'[q].status = disk[q].status /\ Open(q)' = Open(q) /\ (q # r => disk'[q] = disk[q])
      BY <2>6
    <3>4. Says(q, disk[q].status)'
      BY <3>1, <3>2, <3>3 DEF ContextInv
    <3>5. ASSUME NEW c \in Controllers, cache'[c][q] # NoRecord
          PROVE  (cache[c][q].context = disk[q].context /\ Says(q, cache[c][q].status))'
      BY <2>6, <3>1, <3>2, <3>3, <3>4, <3>5 DEF ContextInv
    <3>6. ASSUME Open(q), Last(q) # None
          PROVE  Ahead(host[HostOf(Last(q))], Last(q))' /\ Tells(local, Last(q))'
      <4>1. q = r /\ Last(q) = j /\ Last(q)' = j
        BY <2>1, <2>7, <2>8, <3>6
      <4>2. Ahead(host[HostOf(j)], j)
        BY SMTT(60), <3>1, <3>6, <4>1 DEF ContextInv
      <4>3. Ahead(host[HostOf(j)], j)'
        BY <1>1, <4>2 DEF Ahead, KnowsAll, Knows, Tells, KeepsSuccess, HostOf, Did
      <4>4. Tells(local, j)'
        BY <1>1, <2>2 DEF Tells
      <4> QED BY <4>1, <4>3, <4>4
    <3>7. Last(q) # None => launch'[Last(q)].phase # "none" /\ launch'[Last(q)].run = q
      BY <1>1, <3>1 DEF ContextInv
    <3> QED BY <2>7, <3>3, <3>4, <3>5, <3>6, <3>7 DEF ContextInv
  <2>13. FunctionInv(r)'
    <3>1. worker'[r] = "running" /\ at'[r].pc = "return" /\ at'[r].job = j
      BY <1>1, <1>2, <1>4, <2>1, <2>6, GoMoves DEF In
    <3>2. \A pc : In(r, pc)' <=> pc = "return"
      BY <3>1 DEF In
    <3> QED BY <2>6, <3>1, <3>2 DEF FunctionInv
  <2>14. FunctionsInv' /\ LookInv'
    BY <1>1, <1>2, <2>6, <2>13, OthersRest
  <2> QED BY <2>10, <2>11, <2>12, <2>14 DEF LiveInv, LaunchesInv, ContextsInv
<1> QED BY <1>3, <1>4 DEF Verify

(* The whole of it *)

LEMMA SoundInit == Init => Sound
<1> SUFFICES ASSUME Init PROVE Sound
  OBVIOUS
<1>1. RegistryInv /\ RegistryInit
  BY RegistryInvInit DEF Init
<1>2. Recorded
  BY <1>1, RecordTypes DEF RegistryInit, Recorded
<1>3. /\ local = NewPlan /\ host = [n \in Node |-> NewPlan] /\ launch = [j \in Jobs |-> NotSent]
      /\ at = [r \in Runs |-> Idle] /\ look = "none"
  BY DEF Init
<1>4. LiveTypeOK
  <2>1. NewPlan \in Plan
    BY LiveAssumption DEF NewPlan, Plan
  <2>2. Idle \in Functions
    BY DEF Functions, Idle, Steps
  <2>3. RegistryTypeOK /\ inspection = NoInspection
    BY <1>1 DEF RegistryInv, RegistryTypes, RegistryInit
  <2> QED BY <1>3, <2>1, <2>2, <2>3, NotSentTypes DEF LiveTypeOK
<1>5. \A r \in Runs : disk[r] = NoRecord /\ ~Open(r) /\ Last(r) = None /\ worker[r] = "none"
  BY <1>1 DEF RegistryInit, Open, Unresolved, NoRecord, NoContext, Last
<1>6. LiveInv
  <2>1. OneOpen /\ LookInv
    BY <1>3, <1>5 DEF OneOpen, LookInv
  <2>2. LaunchesInv
    BY <1>3 DEF LaunchesInv, LaunchInv
  <2>3. Once
    BY <1>3 DEF Once, Did, NotSent
  <2>4. ContextsInv
    BY <1>1, <1>5 DEF ContextsInv, ContextInv, Says, RegistryInit
  <2>5. FunctionsInv
    BY <1>5 DEF FunctionsInv, FunctionInv, In
  <2> QED BY <2>1, <2>2, <2>3, <2>4, <2>5 DEF LiveInv
<1> QED BY <1>1, <1>2, <1>4, <1>6 DEF Sound

LEMMA FunctionLive ==
  ASSUME Sound, RegistryTypes', NEW r \in Runs, Function(r)
  PROVE  LiveInv'
BY SelectLive, PushLive, RecordLive, LaunchLive, PollLive, ImportLive, VerifyLive, ReturnLive DEF Function

LEMMA SoundStep ==
  ASSUME ~Overlap, ~DiskMayFail, Sound, [Next]_vars
  PROVE  Sound'
<1>1. RegistryStep
  BY OneKey, StepImplements DEF Sound, RegistryInv
<1>2. RegistryInv' /\ Recorded'
  BY <1>1, RegistryInvStep, RecordedStep DEF RegistryStep, Sound, RegistryInv
<1>3. RegistryTypes' /\ RegistryTypeOK'
  BY <1>2 DEF RegistryInv, RegistryTypes
<1>4. LiveTypeOK'
  BY <1>3, LiveTypesStep
<1>5. LiveInv'
  <2>1. CASE Registry /\ UNCHANGED liveVars
    BY <1>3, <2>1, RegistryLive
  <2>2. ASSUME NEW c \in Controllers, Dies(c) PROVE LiveInv'
    BY <1>3, <2>2, DiesLive
  <2>3. ASSUME NEW c \in Controllers, NEW r \in Runs, NEW many \in BOOLEAN, Accept(c, r, many) PROVE LiveInv'
    BY <1>3, <2>3, AcceptLive
  <2>4. ASSUME NEW r \in Runs, Function(r) PROVE LiveInv'
    BY <1>3, <2>4, FunctionLive
  <2>5. ASSUME NEW j \in Jobs, Executor(j) PROVE LiveInv'
    BY <2>5, ExecutorLive
  <2>6. ASSUME NEW t \in Task, RetryTask(t) PROVE LiveInv'
    BY <2>6, RetryLive
  <2>7. CASE Reconcile
    BY <1>3, <2>7, InspectLive, LookLive DEF Reconcile
  <2>8. CASE UNCHANGED vars
    <3>1. /\ UNCHANGED <<up, disk, cache, active, worker, inspection>>
          /\ UNCHANGED <<local, host, launch, at, look>> /\ Truthful
      BY <2>8, StillTruthful DEF vars, liveVars, registryVars
    <3>2. (OneOpen /\ LaunchesInv /\ Once /\ ContextsInv)'
      BY <1>3, <3>1, RegistryKeeps DEF Truthful
    <3>3. FunctionsInv' /\ LookInv'
      BY <3>1, FunctionKeeps, LookKeeps DEF FunctionsInv
    <3> QED BY <3>2, <3>3 DEF LiveInv
  <2> QED BY <2>1, <2>2, <2>3, <2>4, <2>5, <2>6, <2>7, <2>8 DEF Next
<1> QED BY <1>2, <1>4, <1>5 DEF Sound

(* Launches that are alive are one, and each of them is in doubt.          *)
LEMMA SoundExecutes == Sound => ExecutedOnce
<1> SUFFICES ASSUME Sound PROVE ExecutedOnce
  OBVIOUS
<1>1. KeyExclusive /\ WorkIsOnFile
  BY RegistryInvExcludes DEF Sound
<1>2. ASSUME NEW i \in Jobs, NEW j \in Jobs, Alive(i), Alive(j) PROVE i = j
  <2>1. /\ launch[i] # NotSent /\ ~Done(i) /\ launch[j] # NotSent /\ ~Done(j)
    BY <1>2 DEF Alive, NotSent, Done, Over
  <2> QED BY <2>1, InDoubtIsLast
<1>3. OncePerAttempt
  BY DEF OncePerAttempt, Sound, LiveInv, Once, Did
<1> QED BY <1>1, <1>2, <1>3 DEF ExecutedOnce, OneExecutor, Sound

LEMMA SoundCloses == Sound => ClosedRunsAreTrue
<1> SUFFICES ASSUME Sound PROVE ClosedRunsAreTrue
  OBVIOUS
<1>1. ASSUME NEW r \in Runs, NEW j \in Jobs, disk[r].status \in Resolved, launch[j].run = r
      PROVE  Done(j) /\ (disk[r].status = "succeeded" => launch[j].rc = 0)
  <2>1. launch[j] # NotSent
    BY <1>1, RegistryAssumption DEF NotSent
  <2>2. ~Open(r) /\ Last(r) # None
    BY <1>1, <2>1, StatusCases DEF Sound, LiveInv, LaunchesInv, LaunchInv
  <2>3. Done(j)
    BY <1>1, <2>1, <2>2, InDoubtIsLast
  <2>4. CASE Last(r) = j
    BY <1>1, <2>2, <2>3, <2>4 DEF Sound, LiveInv, ContextsInv, ContextInv, Says
  <2>5. CASE Last(r) # j
    BY <1>1, <2>1, <2>3, <2>5 DEF Sound, LiveInv, LaunchesInv, LaunchInv
  <2> QED BY <2>3, <2>4, <2>5
<1> QED BY <1>1 DEF ClosedRunsAreTrue, ResolvedMeansOver, ClosedOnVerifiedOutcome, SucceededRunsSucceed, Done,
           Resolved

-----------------------------------------------------------------------------
(* Steps *)

(* Only a push and the plan's executors write a host's copy.               *)
LEMMA HostWrites ==
  ASSUME Next, host' # host
  PROVE  \/ \E r \in Runs : Push(r) \/ PushFails(r)
         \/ \E j \in Jobs : Claim(j) \/ \E status \in Terminal : Complete(j, status)
<1>1. CASE Registry /\ UNCHANGED liveVars
  BY <1>1 DEF liveVars
<1>2. ASSUME NEW c \in Controllers, Dies(c) PROVE FALSE
  BY <1>2 DEF Dies
<1>3. ASSUME NEW c \in Controllers, NEW r \in Runs, NEW many \in BOOLEAN, Accept(c, r, many) PROVE FALSE
  BY SMTT(60), <1>3 DEF Accept
<1>4. ASSUME NEW r \in Runs, Function(r) PROVE Push(r) \/ PushFails(r)
  BY <1>4 DEF Function, Select, NothingToDo, RecordLaunch, Launch, LaunchFails, PollFinds, PollGivesUp,
              Import, ImportFails, Verify, Return
<1>5. ASSUME NEW j \in Jobs, Executor(j) PROVE Claim(j) \/ \E status \in Terminal : Complete(j, status)
  BY <1>5 DEF Executor, Arrive, Refuse, WriteExit, Killed, Lost
<1>6. ASSUME NEW t \in Task, RetryTask(t) PROVE FALSE
  BY <1>6 DEF RetryTask
<1>7. CASE Reconcile
  BY <1>7 DEF Reconcile, Inspect, LookPoll, LookImport, LookVerify
<1> QED BY <1>1, <1>2, <1>3, <1>4, <1>5, <1>6, <1>7 DEF Next

(* While an executor is alive its launch is the last, the run it is of is  *)
(* in doubt, and no run in doubt pushes.                                   *)
LEMMA NoPushStep ==
  ASSUME Sound, Next, NEW j \in Jobs, launch[j].phase \in {"begun", "working", "reported"},
         NEW t \in Task, host'[HostOf(j)][t] # host[HostOf(j)][t]
  PROVE  t = launch[j].task /\ host'[HostOf(j)][t].status # "pending"
<1>1. launch[j] # NotSent /\ ~Done(j)
  BY DEF NotSent, Done, Over
<1>2. /\ \A q \in Runs : ~In(q, "push")
      /\ \A i \in Jobs : launch[i] # NotSent /\ ~Done(i) => i = j
  BY <1>1, InDoubtIsLast
<1>3. PICK n \in Node, u \in Task : n = HostOf(j) /\ u = launch[j].task
  BY SentLaunch
<1>4. PICK i \in Jobs : Claim(i) \/ \E status \in Terminal : Complete(i, status)
  BY <1>2, HostWrites DEF Push, PushFails
<1>5. i = j
  <2>1. launch[i].phase \in {"begun", "working"}
    BY <1>4 DEF Claim, Complete
  <2>2. launch[i] # NotSent /\ ~Done(i)
    BY <2>1 DEF NotSent, Done, Over
  <2> QED BY SMTT(60), <1>2, <2>2
<1>6. PICK status \in {"running"} \cup Terminal : host' = [host EXCEPT ![n][u].status = status]
  BY <1>3, <1>4, <1>5 DEF Claim, Complete
<1>7. /\ host'[n][u].status = status /\ \A v \in Task : v # u => host'[n][v] = host[n][v]
  BY <1>6 DEF Sound, LiveTypeOK, Plan
<1> QED BY <1>3, <1>6, <1>7 DEF Terminal

(* Only an import and a retry write the controller's copy.                 *)
LEMMA LocalWrites ==
  ASSUME Next, local' # local
  PROVE  \/ \E r \in Runs : Import(r) \/ ImportFails(r)
         \/ LookImport
         \/ \E t \in Task : RetryTask(t)
<1>1. CASE Registry /\ UNCHANGED liveVars
  BY <1>1 DEF liveVars
<1>2. ASSUME NEW c \in Controllers, Dies(c) PROVE FALSE
  BY <1>2 DEF Dies
<1>3. ASSUME NEW c \in Controllers, NEW r \in Runs, NEW many \in BOOLEAN, Accept(c, r, many) PROVE FALSE
  BY SMTT(60), <1>3 DEF Accept
<1>4. ASSUME NEW r \in Runs, Function(r) PROVE Import(r) \/ ImportFails(r)
  BY <1>4 DEF Function, Select, NothingToDo, Push, PushFails, RecordLaunch, Launch, LaunchFails, PollFinds,
              PollGivesUp, Verify, Return
<1>5. ASSUME NEW j \in Jobs, Executor(j) PROVE FALSE
  BY <1>5 DEF Executor, Arrive, Claim, Refuse, Complete, WriteExit, Killed, Lost
<1>6. CASE Reconcile
  BY <1>6 DEF Reconcile, Inspect, LookPoll, LookVerify
<1> QED BY <1>1, <1>2, <1>3, <1>4, <1>5, <1>6 DEF Next

(* The host of the open run's last launch has every success.               *)
LEMMA LastKeeps ==
  ASSUME Sound, NEW r \in Runs, Open(r), Last(r) # None
  PROVE  KeepsSuccess(host[HostOf(Last(r))])
BY DEF Sound, LiveInv, ContextsInv, ContextInv, Ahead

LEMMA KeptStep ==
  ASSUME Sound, Next, NEW t \in Task, local[t].status = "succeeded"
  PROVE  local'[t].status = "succeeded"
<1>1. CASE local' = local
  BY <1>1
<1>2. ASSUME NEW r \in Runs, Import(r) \/ ImportFails(r) PROVE local'[t].status = "succeeded"
  <2>1. Running(r) /\ Last(r) # None /\ at[r].job = Last(r)
    BY <1>2, FunctionJob DEF Import, ImportFails
  <2>2. KeepsSuccess(host[HostOf(at[r].job)])
    BY <2>1, Alone, LastKeeps
  <2> QED BY <1>2, <2>2 DEF Import, ImportFails, KeepsSuccess
<1>3. CASE LookImport
  <2>1. KeepsSuccess(host[HostOf(Seen)])
    BY <1>3, LookSees, LastKeeps DEF LookImport
  <2> QED BY <1>3, <2>1 DEF LookImport, KeepsSuccess
<1>4. ASSUME NEW u \in Task, RetryTask(u) PROVE local'[t].status = "succeeded"
  BY <1>4 DEF RetryTask, Sound, LiveTypeOK, Plan
<1> QED BY <1>1, <1>2, <1>3, <1>4, LocalWrites

-----------------------------------------------------------------------------
(* Theorems *)

(* One controller at a time, on a disk that takes every write: whatever    *)
(* sessions, hosts and processes are lost, one executor of the plan is on  *)
(* its way or alive, and no attempt of a task is worked on twice           *)
(* (_run_detached_remote, reconcile_detached_run, retry_task).             *)
THEOREM LiveExecutesOnce == ~Overlap /\ ~DiskMayFail => (Spec => []ExecutedOnce)
<1> SUFFICES ASSUME ~Overlap, ~DiskMayFail PROVE Spec => []ExecutedOnce
  OBVIOUS
<1> QED BY SoundInit, SoundStep, SoundExecutes, PTL DEF Spec

(* ... what a closed run says of its launches is over and true, whoever    *)
(* closed it (Verify in _execute_live, reconcile_detached_run) ...         *)
THEOREM LiveClosesTruly == ~Overlap /\ ~DiskMayFail => (Spec => []ClosedRunsAreTrue)
<1> SUFFICES ASSUME ~Overlap, ~DiskMayFail PROVE Spec => []ClosedRunsAreTrue
  OBVIOUS
<1> QED BY SoundInit, SoundStep, SoundCloses, PTL DEF Spec

(* ... no push runs over the work of a live executor                       *)
(* (_sync_plan_to_host) ...                                                *)
THEOREM LiveNeverPushesUnder == ~Overlap /\ ~DiskMayFail => (Spec => NoPushUnderExecutor)
<1> SUFFICES ASSUME ~Overlap, ~DiskMayFail PROVE Spec => NoPushUnderExecutor
  OBVIOUS
<1>1. Sound /\ [Next]_vars =>
        [\A j \in Jobs : launch[j].phase \in {"begun", "working", "reported"} =>
           \A t \in Task : host'[HostOf(j)][t] # host[HostOf(j)][t] =>
             t = launch[j].task /\ host'[HostOf(j)][t].status # "pending"]_vars
  BY NoPushStep
<1> QED BY <1>1, SoundInit, SoundStep, PTL DEF Spec, NoPushUnderExecutor

(* ... and a success that reached the controller stays, although imports   *)
(* replace its copy by that of any host (_sync_plan_from_host).            *)
THEOREM LiveKeepsSuccess == ~Overlap /\ ~DiskMayFail => (Spec => SuccessKept)
<1> SUFFICES ASSUME ~Overlap, ~DiskMayFail PROVE Spec => SuccessKept
  OBVIOUS
<1>1. Sound /\ [Next]_vars =>
        [\A t \in Task : local[t].status = "succeeded" => local'[t].status = "succeeded"]_vars
  BY KeptStep
<1> QED BY <1>1, SoundInit, SoundStep, PTL DEF Spec, SuccessKept
=============================================================================
