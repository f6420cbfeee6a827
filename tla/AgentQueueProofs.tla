-------------------------- MODULE AgentQueueProofs --------------------------
(***************************************************************************)
(* Proofs about the pull queue, for any tasks, plans, nodes, agents and    *)
(* operators, and any number of claims and retries.                        *)
(***************************************************************************)
EXTENDS AgentQueueProperties, WellFoundedInduction, TLAPS

(* A nonempty set of naturals has a least element.                         *)
LEMMA LeastNatural ==
  ASSUME NEW T, T \subseteq Nat, T # {}
  PROVE  \E x \in T : \A y \in T : x <= y
<1>1. PICK x \in T : \A y \in T : ~ (<<y, x>> \in OpToRel(<, Nat))
  BY ZenonT(60), NatLessThanWellFounded, WFMin
<1>2. \A y \in T : ~ (y < x)
  BY <1>1 DEF OpToRel
<1> QED BY <1>2

(* The claim finds a first job among those it may take.                    *)
LEMMA FirstOf ==
  ASSUME NEW C \in SUBSET Job, C # {}
  PROVE  \E c \in C : \A d \in C : c = d \/ Earlier(c, d)
<1> DEFINE K == {k \in 1..Len(Jobs) : Jobs[k] \in C}
<1>1. K \subseteq Nat /\ K # {}
  BY QueueAssumption DEF Job
<1>2. PICK k \in K : \A m \in K : k <= m
  BY <1>1, LeastNatural
<1>3. ASSUME NEW d \in C PROVE Jobs[k] = d \/ Earlier(Jobs[k], d)
  <2>1. PICK m \in K : Jobs[m] = d
    BY DEF Job
  <2>2. m = k \/ k < m
    BY <1>1, <1>2
  <2> QED BY <2>1, <2>2 DEF Earlier
<1> QED BY <1>2, <1>3

-----------------------------------------------------------------------------
(* Types *)

LEMMA IdleTypes == IdleAgent \in RunOnce /\ IdleOp \in Call
BY QueueAssumption DEF IdleAgent, IdleOp, RunOnce, Call, AgentPcs, Job, Attempts, Results

LEMMA TypeInit == Init => TypeOK
BY IdleTypes, QueueAssumption DEF Init, TypeOK, Unpublished, JobFile, Attempts, Results, Terminal

(* Expiry changes the status of jobs at work, and nothing else.            *)
LEMMA ExpireEffect ==
  ASSUME TypeOK, NEW J
  PROVE  /\ Expire(J) \in [Job -> JobFile]
         /\ \A j \in Job :
              /\ Expire(J)[j].attempt = job[j].attempt /\ Expire(J)[j].gen = job[j].gen
              /\ Expire(J)[j].owner = job[j].owner /\ Expire(J)[j].token = job[j].token
              /\ Expire(J)[j].result = job[j].result
              /\ \/ Expire(J)[j].status = job[j].status
                 \/ /\ job[j].status \in Active
                    /\ Expire(J)[j].status = "reconciliation_required"
<1> SUFFICES ASSUME NEW j \in Job
             PROVE  /\ Expire(J)[j] \in JobFile
                    /\ Expire(J)[j].attempt = job[j].attempt /\ Expire(J)[j].gen = job[j].gen
                    /\ Expire(J)[j].owner = job[j].owner /\ Expire(J)[j].token = job[j].token
                    /\ Expire(J)[j].result = job[j].result
                    /\ \/ Expire(J)[j].status = job[j].status
                       \/ /\ job[j].status \in Active
                          /\ Expire(J)[j].status = "reconciliation_required"
  <2>1. Expire(J) = [j \in Job |-> Expire(J)[j]]
    BY DEF Expire
  <2> QED BY <2>1
<1>1. job[j] \in JobFile
  BY DEF TypeOK
<1> DEFINE r == [job[j] EXCEPT !.status = "reconciliation_required"]
<1>2. Expire(J)[j] = IF j \in J \cap due /\ job[j].status \in Active THEN r ELSE job[j]
  BY DEF Expire
<1>3. CASE j \in J \cap due /\ job[j].status \in Active
  <2>1. Expire(J)[j] = r
    BY <1>2, <1>3
  <2> HIDE DEF r
  <2>2. /\ r \in JobFile /\ r.attempt = job[j].attempt /\ r.gen = job[j].gen
        /\ r.owner = job[j].owner /\ r.token = job[j].token /\ r.result = job[j].result
        /\ r.status = "reconciliation_required"
    BY <1>1 DEF r, JobFile, Blocking
  <2> QED BY <1>3, <2>1, <2>2
<1>4. CASE ~(j \in J \cap due /\ job[j].status \in Active)
  <2>1. Expire(J)[j] = job[j]
    BY <1>2, <1>4
  <2> QED BY <1>1, <2>1
<1> QED BY <1>3, <1>4

(* Moving an agent.                                                        *)
LEMMA GoTypes ==
  ASSUME TypeOK, NEW a \in Agents, NEW pc \in AgentPcs, Go(a, pc)
  PROVE  agent' \in [Agents -> RunOnce]
BY ZenonT(60), IdleTypes DEF Go, TypeOK, RunOnce

(* A critical section that would write a well-formed record.               *)
LEMMA FencedTypes ==
  ASSUME TypeOK, NEW a \in Agents, NEW r \in JobFile, NEW to \in AgentPcs,
         NEW orelse \in AgentPcs, Fenced(a, r, to, orelse)
  PROVE  TypeOK'
<1>1. agent' \in [Agents -> RunOnce]
  BY GoTypes DEF Fenced
<1>2. job' \in [Job -> JobFile]
  BY ExpireEffect DEF Fenced, TypeOK, RunOnce
<1> QED BY <1>1, <1>2 DEF Fenced, TypeOK

(* The job that a poll takes.                                              *)
PollTakes(a, j) ==
  LET q == Expire(Job) IN
  /\ j \in Claimable(a, q) /\ q[j].gen < MaxClaims
  /\ job' = [q EXCEPT ![j] = [q[j] EXCEPT !.status = "claimed", !.owner = a,
                                           !.gen = @ + 1, !.token = q[j].gen + 1]]
  /\ due' = due \ {j}
  /\ agent' = [agent EXCEPT ![a] =
       [IdleAgent EXCEPT !.pc = "claimed", !.job = j, !.attempt = q[j].attempt,
                         !.token = q[j].gen + 1, !.orelse = "block"]]

LEMMA PollEffect ==
  ASSUME NEW a \in Agents, Poll(a)
  PROVE  /\ agent[a].pc = "idle" /\ UNCHANGED <<history, native, exec, op>>
         /\ \/ \E j \in Job : PollTakes(a, j)
            \/ job' = Expire(Job) /\ UNCHANGED <<due, agent>>
<1> DEFINE q == Expire(Job)
           C == Claimable(a, q)
           j == CHOOSE c \in C : \A d \in C : c = d \/ Earlier(c, d)
<1>1. C \in SUBSET Job
  BY DEF Claimable
<1>2. C # {} => j \in C
  BY <1>1, FirstOf
<1>3. CASE C # {} /\ q[j].gen < MaxClaims
  <2>1. PollTakes(a, j)
    BY <1>2, <1>3 DEF Poll, PollTakes
  <2> QED BY <1>1, <1>2, <1>3, <2>1 DEF Poll
<1>4. CASE ~(C # {} /\ q[j].gen < MaxClaims)
  BY <1>4 DEF Poll
<1> QED BY <1>3, <1>4

(* What a poll writes.                                                     *)
LEMMA TakeEffect ==
  ASSUME TypeOK, NEW a \in Agents, NEW j \in Job, PollTakes(a, j)
  PROVE  /\ job' \in [Job -> JobFile] /\ agent' \in [Agents -> RunOnce]
         /\ job[j].status = "queued"
         /\ job'[j].status = "claimed" /\ job'[j].attempt = job[j].attempt
         /\ job'[j].owner = a
         /\ agent'[a].pc = "claimed" /\ agent'[a].job = j /\ agent'[a].attempt = job[j].attempt
         /\ \A i \in Job \ {j} : job'[i] = Expire(Job)[i]
         /\ \A b \in Agents \ {a} : agent'[b] = agent[b]
<1> DEFINE q == Expire(Job)
           r == [q[j] EXCEPT !.status = "claimed", !.owner = a, !.gen = @ + 1,
                             !.token = q[j].gen + 1]
           g == [IdleAgent EXCEPT !.pc = "claimed", !.job = j, !.attempt = q[j].attempt,
                                  !.token = q[j].gen + 1, !.orelse = "block"]
<1>1. /\ q \in [Job -> JobFile] /\ q[j].attempt = job[j].attempt
      /\ q[j].status = "queued" => job[j].status = "queued"
  BY ExpireEffect DEF Active
<1>2. job' = [q EXCEPT ![j] = r] /\ agent' = [agent EXCEPT ![a] = g]
  BY DEF PollTakes
<1>3. q[j].status = "queued" /\ q[j].gen < MaxClaims
  BY DEF PollTakes, Claimable
<1>4. /\ r \in JobFile /\ r.status = "claimed" /\ r.attempt = q[j].attempt
      /\ r.owner = a
  <2>1. q[j] \in JobFile /\ q[j].gen + 1 \in 0..MaxClaims
    BY <1>1, <1>3, QueueAssumption DEF JobFile
  <2> HIDE DEF q
  <2> QED BY <2>1 DEF JobFile, Blocking, Active
<1>5. g \in RunOnce /\ g.pc = "claimed" /\ g.job = j /\ g.attempt = q[j].attempt
  <2>1. q[j].gen + 1 \in 0..MaxClaims /\ q[j].attempt \in Attempts
    BY <1>1, <1>3, QueueAssumption DEF JobFile
  <2> HIDE DEF q
  <2> QED BY <2>1, IdleTypes DEF RunOnce, AgentPcs
<1> HIDE DEF q, r, g
<1>6. /\ job' \in [Job -> JobFile] /\ job'[j] = r /\ \A i \in Job \ {j} : job'[i] = q[i]
      /\ agent' \in [Agents -> RunOnce] /\ agent'[a] = g
      /\ \A b \in Agents \ {a} : agent'[b] = agent[b]
  BY <1>1, <1>2, <1>4, <1>5 DEF TypeOK
<1> QED BY <1>1, <1>3, <1>4, <1>5, <1>6 DEF q

(* The records that an agent writes into the job it claimed.               *)
Unclaimed(a) == [Released(a, "queued") EXCEPT !.owner = "none"]
Completed(a) == [Mine(a) EXCEPT !.status = "completed", !.result = agent[a].result]

LEMMA RecordTypes ==
  ASSUME TypeOK, NEW a \in Agents
  PROVE  /\ Mine(a) \in JobFile
         /\ Renewed(a) \in JobFile
         /\ Unclaimed(a) \in JobFile
         /\ Released(a, "reconciliation_required") \in JobFile
         /\ Completed(a) \in JobFile
<1>1. Mine(a) \in JobFile /\ agent[a].result \in Results
  BY DEF TypeOK, RunOnce, Mine
<1> HIDE DEF TypeOK
<1>2. 0 \in 0..MaxClaims
  BY QueueAssumption
<1>3. Renewed(a) \in JobFile
  BY <1>1 DEF Renewed, JobFile, Blocking, Active
<1>4. \A s \in {"queued", "reconciliation_required"} : Released(a, s) \in JobFile
  BY <1>1, <1>2 DEF Released, JobFile, Blocking
<1>5. Unclaimed(a) \in JobFile
  BY <1>4 DEF Unclaimed, JobFile
<1>6. Completed(a) \in JobFile
  BY <1>1 DEF Completed, JobFile
<1> QED BY <1>1, <1>3, <1>4, <1>5, <1>6

LEMMA FreshTypes ==
  ASSUME NEW n \in Attempts, NEW gen \in 0..MaxClaims
  PROVE  /\ Fresh(n, gen) \in JobFile /\ Fresh(n, gen).status = "queued"
         /\ Fresh(n, gen).attempt = n /\ Fresh(n, gen).owner = "none"
<1>1. Unpublished \in JobFile /\ Unpublished.owner = "none"
  BY QueueAssumption DEF Unpublished, JobFile, Attempts, Results
<1> QED BY <1>1 DEF Fresh, JobFile

LEMMA PublishTypes ==
  ASSUME TypeOK, NEW j \in Job, NEW n \in Attempts, Publish(j, n) \/ PublishCrashes(j, n)
  PROVE  TypeOK'
<1>1. history' \in [Job -> SUBSET [attempt : Attempts, result : Results]]
  <2>1. [attempt |-> job[j].attempt, result |-> job[j].result]
          \in [attempt : Attempts, result : Results]
    BY DEF TypeOK, JobFile
  <2>2. CASE UNCHANGED history
    BY <2>2 DEF TypeOK
  <2>3. CASE Archive(j)
    BY <2>1, <2>3 DEF TypeOK, Archive
  <2> QED BY <2>2, <2>3 DEF Publish, PublishCrashes
<1>2. job' \in [Job -> JobFile]
  <2>1. job[j].gen \in 0..MaxClaims
    BY DEF TypeOK, JobFile
  <2>2. Fresh(n, job[j].gen) \in JobFile
    BY <2>1, FreshTypes
  <2> QED BY <2>2 DEF TypeOK, Publish, PublishCrashes
<1> QED BY <1>1, <1>2 DEF TypeOK, Publish, PublishCrashes

LEMMA NativeTypes ==
  ASSUME TypeOK, NEW j \in Job,
         \/ NativeExpires(j) \/ NativeRetry(j) \/ RunByHand(j)
         \/ \E b \in Launchers : ExecutorStep(b, j)
  PROVE  TypeOK'
<1>1. CASE NativeExpires(j)
  BY <1>1 DEF TypeOK, NativeExpires
<1>2. CASE NativeRetry(j)
  <2>1. native[j].retry + 1 \in Attempts
    BY <1>2, QueueAssumption DEF TypeOK, NativeRetry, Attempts
  <2> QED BY <1>2, <2>1 DEF TypeOK, NativeRetry
<1>3. CASE RunByHand(j)
  BY <1>3 DEF TypeOK, RunByHand, Executor
<1>4. CASE \E b \in Launchers : ExecutorStep(b, j)
  <2>1. PICK e \in exec : ExecutorClaims(e) \/ ExecutorRefused(e) \/ ExecutorEnds(e)
    BY <1>4 DEF ExecutorStep
  <2>2. e \in Executor /\ [e EXCEPT !.phase = "working"] \in Executor
    BY DEF TypeOK, Executor
  <2>3. CASE ExecutorClaims(e)
    <3>1. e.job \in Job
      BY <2>2 DEF Executor
    <3> HIDE DEF Executor
    <3> QED BY <2>2, <2>3, <3>1 DEF TypeOK, ExecutorClaims
  <2>4. CASE ExecutorRefused(e)
    BY <2>4 DEF TypeOK, ExecutorRefused
  <2>5. CASE ExecutorEnds(e)
    BY <2>2, <2>5 DEF TypeOK, ExecutorEnds, Executor, Terminal
  <2> QED BY <2>1, <2>3, <2>4, <2>5
<1> QED BY <1>1, <1>2, <1>3, <1>4

(* The steps in which an agent does no more than move on.                  *)
Ponders(a) ==
  \/ AskStatus(a) \/ AskNext(a) \/ CannotLaunch(a) \/ ExecutorSeen(a) \/ AskOutcome(a)
  \/ DeferRead(a) \/ CompleteRead(a) \/ Die(a)

LEMMA PonderTypes ==
  ASSUME TypeOK, NEW a \in Agents, Ponders(a)
  PROVE  TypeOK' /\ UNCHANGED <<job, due, history, native, exec, op>>
<1>1. \A pc \in AgentPcs : Go(a, pc) => agent' \in [Agents -> RunOnce]
  BY GoTypes
<1>2. agent[a].orelse \in AgentPcs
  BY DEF TypeOK, RunOnce, AgentPcs
<1>3. agent' \in [Agents -> RunOnce] /\ UNCHANGED <<job, due, history, native, exec, op>>
  <2>1. CASE AskStatus(a)
    BY <1>1, <2>1 DEF AskStatus, AgentPcs
  <2>2. CASE AskNext(a)
    <3>1. CASE agent' = [agent EXCEPT ![a].pc = "ready", ![a].orelse = "idle"]
      <4> DEFINE g == [agent[a] EXCEPT !.pc = "ready", !.orelse = "idle"]
      <4>1. agent' = [agent EXCEPT ![a] = g]
        BY <3>1 DEF TypeOK
      <4>2. g \in RunOnce
        BY ZenonT(60) DEF TypeOK, RunOnce, AgentPcs
      <4> QED BY <2>2, <4>1, <4>2 DEF AskNext, TypeOK
    <3> QED BY <1>1, <2>2, <3>1 DEF AskNext, AgentPcs
  <2>3. CASE CannotLaunch(a)
    BY <1>1, <2>3 DEF CannotLaunch, AgentPcs
  <2>4. CASE ExecutorSeen(a)
    BY <1>1, <2>4 DEF ExecutorSeen, AgentPcs
  <2>5. CASE AskOutcome(a)
    BY <1>1, <2>5 DEF AskOutcome, AgentPcs
  <2>6. CASE DeferRead(a)
    BY <1>1, <1>2, <2>6 DEF DeferRead, AgentPcs
  <2>7. CASE CompleteRead(a)
    <3>1. CASE /\ Matches(agent[a].job, agent[a].attempt, Terminal)
               /\ agent' = [agent EXCEPT ![a].pc = "complete_write",
                                         ![a].result = native[agent[a].job].status]
      <4> DEFINE r == native[agent[a].job].status
                 g == [agent[a] EXCEPT !.pc = "complete_write", !.result = r]
      <4>1. agent' = [agent EXCEPT ![a] = g]
        BY <3>1 DEF TypeOK
      <4>2. r \in Results
        BY <3>1 DEF Matches, Terminal, Results
      <4> HIDE DEF r
      <4>3. g \in RunOnce
        BY ZenonT(60), <4>2 DEF TypeOK, RunOnce, AgentPcs
      <4> QED BY <2>7, <4>1, <4>3 DEF CompleteRead, TypeOK
    <3> QED BY <1>1, <2>7, <3>1 DEF CompleteRead, AgentPcs
  <2>8. CASE Die(a)
    BY <1>1, <2>8 DEF Die, AgentPcs
  <2> QED BY <2>1, <2>2, <2>3, <2>4, <2>5, <2>6, <2>7, <2>8 DEF Ponders
<1> QED BY <1>3 DEF TypeOK

LEMMA FencedStepTypes ==
  ASSUME TypeOK, NEW a \in Agents,
         \/ ExtendLease(a) \/ DeferCheck(a) \/ DeferWrite(a) \/ Block(a)
         \/ CompleteCheck(a) \/ CompleteWrite(a)
  PROVE  TypeOK'
<1>1. agent[a].orelse \in AgentPcs
  BY DEF TypeOK, RunOnce, AgentPcs
<1>2. \A r \in JobFile, to, orelse \in AgentPcs : Fenced(a, r, to, orelse) => TypeOK'
  BY FencedTypes
<1>3. {"launch", "idle", "defer_read", "complete_read"} \subseteq AgentPcs
  BY DEF AgentPcs
<1>4. CASE ExtendLease(a)
  BY <1>2, <1>3, <1>4, RecordTypes DEF ExtendLease
<1>5. CASE DeferCheck(a)
  BY <1>1, <1>2, <1>3, <1>5, RecordTypes DEF DeferCheck
<1>6. CASE DeferWrite(a)
  BY <1>1, <1>2, <1>3, <1>6, RecordTypes DEF DeferWrite, Unclaimed
<1>7. CASE Block(a)
  BY <1>2, <1>3, <1>7, RecordTypes DEF Block
<1>8. CASE CompleteCheck(a)
  BY <1>2, <1>3, <1>8, RecordTypes DEF CompleteCheck
<1>9. CASE CompleteWrite(a)
  BY ZenonT(60), <1>2, <1>3, <1>9, RecordTypes DEF CompleteWrite, Completed
<1> QED BY <1>4, <1>5, <1>6, <1>7, <1>8, <1>9

LEMMA PollTypes ==
  ASSUME TypeOK, NEW a \in Agents, Poll(a)
  PROVE  TypeOK'
<1>1. CASE \E j \in Job : PollTakes(a, j)
  <2>1. PICK j \in Job : PollTakes(a, j)
    BY <1>1
  <2>2. job' \in [Job -> JobFile] /\ agent' \in [Agents -> RunOnce]
    BY <2>1, TakeEffect
  <2> QED BY ZenonT(60), <2>1, <2>2, PollEffect DEF TypeOK, PollTakes
<1>2. CASE job' = Expire(Job) /\ UNCHANGED <<due, agent>>
  BY <1>2, PollEffect, ExpireEffect DEF TypeOK
<1> QED BY <1>1, <1>2, PollEffect

LEMMA LaunchTypes ==
  ASSUME TypeOK, NEW a \in Agents, Launch(a) \/ RenewFails(a)
  PROVE  TypeOK'
<1>1. CASE Launch(a)
  <2>1. agent' \in [Agents -> RunOnce]
    <3> DEFINE g == [agent[a] EXCEPT !.pc = "waiting", !.orelse = "block"]
    <3>1. agent' = [agent EXCEPT ![a] = g]
      BY <1>1 DEF TypeOK, Launch
    <3>2. g \in RunOnce
      BY ZenonT(60) DEF TypeOK, RunOnce, AgentPcs
    <3> QED BY <3>1, <3>2 DEF TypeOK
  <2>2. exec' \subseteq Executor
    BY <1>1 DEF TypeOK, Launch, RunOnce, Executor
  <2> QED BY <1>1, <2>1, <2>2 DEF TypeOK, Launch
<1>2. CASE RenewFails(a)
  <2>1. agent' \in [Agents -> RunOnce]
    BY ZenonT(60), <1>2 DEF TypeOK, RenewFails, RunOnce
  <2>2. job' \in [Job -> JobFile]
    BY <1>2, ExpireEffect DEF RenewFails, TypeOK
  <2> QED BY <1>2, <2>1, <2>2 DEF TypeOK, RenewFails
<1> QED BY <1>1, <1>2

LEMMA ReconcileTypes ==
  ASSUME TypeOK, NEW o \in Operators, Reconcile(o)
  PROVE  TypeOK'
<1>1. CASE \E j \in Job : ReconcileCheck(o, j)
  <2>1. PICK j \in Job : ReconcileCheck(o, j)
    BY <1>1
  <2> DEFINE c == [IdleOp EXCEPT !.pc = "read", !.job = j, !.gen = job[j].gen,
                                 !.attempt = job[j].attempt]
  <2>2. job[j].gen \in 0..MaxClaims /\ job[j].attempt \in Attempts
    BY DEF TypeOK, JobFile
  <2>3. c \in Call
    BY <2>2, IdleTypes DEF Call
  <2>4. op' \in [Operators -> Call]
    BY <2>1, <2>3 DEF ReconcileCheck, TypeOK
  <2> QED BY <2>1, <2>4, ExpireEffect DEF ReconcileCheck, TypeOK
<1>2. CASE ReconcileRead(o)
  <2>1. CASE op' = [op EXCEPT ![o] = IdleOp]
    BY <1>2, <2>1, IdleTypes DEF ReconcileRead, TypeOK
  <2>2. CASE /\ Matches(op[o].job, op[o].attempt, Terminal)
             /\ op' = [op EXCEPT ![o].pc = "write", ![o].result = native[op[o].job].status]
    BY SMTT(60), <1>2, <2>2 DEF ReconcileRead, Matches, TypeOK, Call, Terminal, Results
  <2> QED BY <1>2, <2>1, <2>2 DEF ReconcileRead
<1>3. CASE ReconcileWrite(o)
  <2>1. op' \in [Operators -> Call]
    BY <1>3, IdleTypes DEF ReconcileWrite, TypeOK
  <2>2. job' \in [Job -> JobFile]
    <3> DEFINE j == op[o].job
               r == [job[j] EXCEPT !.status = "completed", !.result = op[o].result]
    <3>1. j \in Job /\ r \in JobFile
      <4>1. j \in Job /\ op[o].result \in Results /\ job[j] \in JobFile
        BY DEF TypeOK, Call
      <4> QED BY <4>1 DEF JobFile
    <3>2. job' = IF SameClaim(o) THEN [job EXCEPT ![j] = r] ELSE job
      BY <1>3 DEF ReconcileWrite
    <3> HIDE DEF r, j
    <3> QED BY <3>1, <3>2 DEF TypeOK
  <2> QED BY <1>3, <2>1, <2>2 DEF ReconcileWrite, TypeOK
<1> QED BY <1>1, <1>2, <1>3 DEF Reconcile

LEMMA TypeStep == TypeOK /\ [Next]_vars => TypeOK'
<1> SUFFICES ASSUME TypeOK, Next PROVE TypeOK'
  BY DEF vars, TypeOK
<1>1. CASE \E a \in Agents : AgentStep(a) \/ RenewFails(a) \/ Die(a)
  BY <1>1, PollTypes, PonderTypes, FencedStepTypes, LaunchTypes DEF AgentStep, Ponders
<1>2. CASE \E o \in Operators : Reconcile(o)
  BY <1>2, ReconcileTypes
<1>3. CASE \E j \in Job : LeaseRunsOut(j)
  BY <1>3 DEF LeaseRunsOut, TypeOK
<1>4. CASE \E j \in Job : NativeExpires(j) \/ NativeRetry(j) \/ RunByHand(j)
  BY <1>4, NativeTypes
<1>5. CASE \E j \in Job, n \in Attempts : Publish(j, n) \/ PublishCrashes(j, n)
  BY <1>5, PublishTypes
<1>6. CASE \E b \in Launchers, j \in Job : ExecutorStep(b, j)
  BY <1>6, NativeTypes
<1> QED BY <1>1, <1>2, <1>3, <1>4, <1>5, <1>6 DEF Next

-----------------------------------------------------------------------------
(* What the steps change *)

(* A job is left alone, or has expired.                                    *)
Kept(i) ==
  /\ job'[i].attempt = job[i].attempt /\ job'[i].gen = job[i].gen
  /\ job'[i].owner = job[i].owner /\ job'[i].token = job[i].token
  /\ job'[i].result = job[i].result
  /\ \/ job'[i].status = job[i].status
     \/ job[i].status \in Active /\ job'[i].status = "reconciliation_required"

(* An agent keeps what it knows of its job.                                *)
SameJob(a) ==
  /\ agent'[a].job = agent[a].job /\ agent'[a].attempt = agent[a].attempt
  /\ agent'[a].token = agent[a].token

LEMMA GoEffect ==
  ASSUME TypeOK, NEW a \in Agents, NEW pc \in AgentPcs, Go(a, pc)
  PROVE  /\ agent'[a].pc = pc
         /\ pc # "idle" => SameJob(a) /\ agent'[a].result = agent[a].result
         /\ \A b \in Agents \ {a} : agent'[b] = agent[b]
<1>1. agent \in [Agents -> RunOnce]
  BY DEF TypeOK
<1>2. CASE pc = "idle"
  BY <1>1, <1>2 DEF Go, IdleAgent
<1>3. CASE pc # "idle"
  BY <1>1, <1>3 DEF Go, RunOnce, SameJob
<1> QED BY <1>2, <1>3

LEMMA FencedEffect ==
  ASSUME TypeOK, NEW a \in Agents, NEW r \in JobFile, NEW to, NEW orelse,
         Fenced(a, r, to, orelse)
  PROVE  \/ /\ Owned(a) /\ Go(a, to)
            /\ job'[agent[a].job] = r /\ \A i \in Job \ {agent[a].job} : job'[i] = job[i]
         \/ Go(a, orelse) /\ \A i \in Job : Kept(i)
<1>1. CASE Owned(a)
  BY <1>1 DEF Fenced, TypeOK, RunOnce
<1>2. CASE ~Owned(a)
  BY <1>2, ExpireEffect DEF Fenced, Kept
<1> QED BY <1>1, <1>2

LEMMA RenewEffect ==
  ASSUME TypeOK, NEW a \in Agents, RenewFails(a)
  PROVE  /\ \A i \in Job : Kept(i)
         /\ agent[a].pc = "waiting" /\ agent'[a].pc = "waiting" /\ SameJob(a)
         /\ \A b \in Agents \ {a} : agent'[b] = agent[b]
<1>1. \A i \in Job : Kept(i)
  BY ExpireEffect DEF RenewFails, Kept
<1>2. agent \in [Agents -> RunOnce] /\ agent' = [agent EXCEPT ![a].beat = FALSE]
  BY DEF TypeOK, RenewFails
<1> QED BY <1>1, <1>2 DEF RenewFails, SameJob, RunOnce

(* An agent that only moves on knows no more of its job, except the        *)
(* outcome it has just read.                                               *)
LEMMA PonderEffect ==
  ASSUME TypeOK, NEW a \in Agents, Ponders(a)
  PROVE  /\ agent'[a].pc # "idle" => agent[a].pc # "idle" /\ SameJob(a)
         /\ agent'[a].pc = "complete_write" =>
              /\ Matches(agent[a].job, agent[a].attempt, Terminal)
              /\ agent'[a].result = native[agent[a].job].status
         /\ agent'[a].pc \in Launching =>
              /\ agent[a].pc \in Launching
              \/ Matches(agent[a].job, agent[a].attempt, {"pending"})
         /\ agent'[a].pc # "waiting"
         /\ agent[a].pc = "waiting" /\ agent'[a].pc # "idle" =>
              ~\E e \in exec : e.by = a /\ e.job = agent[a].job /\ e.attempt = agent[a].attempt
         /\ \A b \in Agents \ {a} : agent'[b] = agent[b]
<1> DEFINE Others == \A b \in Agents \ {a} : agent'[b] = agent[b]
<1>1. \A pc \in AgentPcs : Go(a, pc) =>
        /\ agent'[a].pc = pc /\ Others
        /\ pc # "idle" => SameJob(a) /\ agent'[a].result = agent[a].result
  BY GoEffect
<1>2. agent[a].orelse \in {"idle", "block"} /\ agent \in [Agents -> RunOnce]
  BY DEF TypeOK, RunOnce
<1>3. CASE AskStatus(a)
  BY <1>1, <1>3 DEF AskStatus, AgentPcs, Launching
<1>4. CASE AskNext(a)
  <2>1. CASE agent' = [agent EXCEPT ![a].pc = "ready", ![a].orelse = "idle"]
    <3> DEFINE g == [agent[a] EXCEPT !.pc = "ready", !.orelse = "idle"]
    <3>1. agent' = [agent EXCEPT ![a] = g]
      BY <1>2, <2>1
    <3>2. g.pc = "ready" /\ g.job = agent[a].job /\ g.attempt = agent[a].attempt
          /\ g.token = agent[a].token
      BY <1>2 DEF RunOnce
    <3> HIDE DEF g
    <3>3. agent'[a] = g /\ Others
      BY <1>2, <3>1
    <3> QED BY <1>4, <3>2, <3>3 DEF AskNext, SameJob, Launching
  <2>2. CASE Go(a, "defer")
    BY <1>1, <1>4, <2>2 DEF AskNext, AgentPcs, Launching
  <2> QED BY <1>4, <2>1, <2>2 DEF AskNext
<1>5. CASE CannotLaunch(a)
  BY <1>1, <1>5 DEF CannotLaunch, AgentPcs, Launching
<1>6. CASE ExecutorSeen(a)
  BY <1>1, <1>6 DEF ExecutorSeen, AgentPcs, Launching
<1>7. CASE AskOutcome(a)
  BY <1>1, <1>7 DEF AskOutcome, AgentPcs, Launching
<1>8. CASE DeferRead(a)
  BY <1>1, <1>2, <1>8 DEF DeferRead, AgentPcs, Launching
<1>9. CASE CompleteRead(a)
  <2>1. CASE Go(a, "idle")
    BY <1>1, <1>9, <2>1 DEF CompleteRead, AgentPcs, Launching
  <2>2. CASE /\ Matches(agent[a].job, agent[a].attempt, Terminal)
             /\ agent' = [agent EXCEPT ![a].pc = "complete_write",
                                       ![a].result = native[agent[a].job].status]
    <3> DEFINE r == native[agent[a].job].status
               g == [agent[a] EXCEPT !.pc = "complete_write", !.result = r]
    <3>1. agent' = [agent EXCEPT ![a] = g]
      BY <1>2, <2>2
    <3> HIDE DEF r
    <3>2. g.pc = "complete_write" /\ g.job = agent[a].job /\ g.attempt = agent[a].attempt
          /\ g.token = agent[a].token /\ g.result = r
      BY <1>2 DEF RunOnce
    <3> HIDE DEF g
    <3>3. agent'[a] = g /\ Others
      BY <1>2, <3>1
    <3> QED BY <1>9, <2>2, <3>2, <3>3 DEF CompleteRead, SameJob, Launching, r
  <2> QED BY <1>9, <2>1, <2>2 DEF CompleteRead
<1>10. CASE Die(a)
  BY <1>1, <1>10 DEF Die, AgentPcs, Launching
<1> QED BY <1>3, <1>4, <1>5, <1>6, <1>7, <1>8, <1>9, <1>10 DEF Ponders

LEMMA LaunchEffect ==
  ASSUME TypeOK, NEW a \in Agents, Launch(a)
  PROVE  /\ agent[a].pc = "launch" /\ agent'[a].pc = "waiting" /\ SameJob(a)
         /\ \A b \in Agents \ {a} : agent'[b] = agent[b]
<1> DEFINE g == [agent[a] EXCEPT !.pc = "waiting", !.orelse = "block"]
<1>1. agent \in [Agents -> RunOnce]
  BY DEF TypeOK
<1>2. agent' = [agent EXCEPT ![a] = g]
  BY <1>1 DEF Launch
<1>3. g.pc = "waiting" /\ g.job = agent[a].job /\ g.attempt = agent[a].attempt
      /\ g.token = agent[a].token
  BY <1>1 DEF RunOnce
<1> HIDE DEF g
<1>4. agent'[a] = g /\ \A b \in Agents \ {a} : agent'[b] = agent[b]
  BY <1>1, <1>2
<1> QED BY <1>3, <1>4 DEF Launch, SameJob

(* A sealed task moves from pending to running, from there to an outcome,  *)
(* and from a failure to its next attempt.                                 *)
TaskMoves(t, u) ==
  \/ u = t
  \/ t.status = "pending" /\ u.status = "running" /\ u.retry = t.retry
  \/ t.status = "running" /\ u.status \in {"succeeded", "failed", "unknown"} /\ u.retry = t.retry
  \/ t.status = "failed" /\ u.status = "pending" /\ u.retry = t.retry + 1

LEMMA NativeEffect ==
  ASSUME TypeOK, NEW k \in Job,
         \/ NativeExpires(k) \/ NativeRetry(k) \/ RunByHand(k)
         \/ \E b \in Launchers : ExecutorStep(b, k)
  PROVE  /\ UNCHANGED <<job, due, history, agent, op>>
         /\ \A j \in Job : TaskMoves(native[j], native'[j])
<1>0. native \in [Job -> [status : {"pending", "running", "unknown"} \cup Terminal,
                          retry : Attempts]]
  BY DEF TypeOK
<1>1. CASE NativeExpires(k)
  BY <1>0, <1>1 DEF NativeExpires, TaskMoves
<1>2. CASE NativeRetry(k)
  BY <1>0, <1>2 DEF NativeRetry, TaskMoves
<1>3. CASE RunByHand(k)
  BY <1>3 DEF RunByHand, TaskMoves
<1>4. CASE \E b \in Launchers : ExecutorStep(b, k)
  <2>1. PICK e \in exec : ExecutorClaims(e) \/ ExecutorRefused(e) \/ ExecutorEnds(e)
    BY <1>4 DEF ExecutorStep
  <2>2. e.job \in Job
    BY DEF TypeOK, Executor
  <2>3. CASE ExecutorClaims(e)
    BY <1>0, <2>2, <2>3 DEF ExecutorClaims, IsNext, TaskMoves
  <2>4. CASE ExecutorRefused(e)
    BY <2>4 DEF ExecutorRefused, TaskMoves
  <2>5. CASE ExecutorEnds(e)
    BY <1>0, <2>2, <2>5 DEF ExecutorEnds, TaskMoves, Terminal
  <2> QED BY <2>1, <2>3, <2>4, <2>5
<1> QED BY <1>1, <1>2, <1>3, <1>4

LEMMA ReconcileEffect ==
  ASSUME TypeOK, NEW o \in Operators, Reconcile(o)
  PROVE  /\ UNCHANGED <<due, history, native, exec, agent>>
         /\ \A p \in Operators \ {o} : op'[p] = op[p]
         /\ op'[o].pc = "write" =>
              /\ Matches(op'[o].job, op'[o].attempt, Terminal)
              /\ op'[o].result = native[op'[o].job].status
         /\ \/ \A i \in Job : Kept(i)
            \/ /\ op[o].pc = "write" /\ SameClaim(o)
               /\ \A i \in Job \ {op[o].job} : job'[i] = job[i]
               /\ job'[op[o].job] = [job[op[o].job] EXCEPT !.status = "completed",
                                                           !.result = op[o].result]
<1>0. op \in [Operators -> Call] /\ job \in [Job -> JobFile]
  BY DEF TypeOK
<1>1. CASE \E j \in Job : ReconcileCheck(o, j)
  <2>1. PICK j \in Job : ReconcileCheck(o, j)
    BY <1>1
  <2> DEFINE c == [IdleOp EXCEPT !.pc = "read", !.job = j, !.gen = job[j].gen,
                                 !.attempt = job[j].attempt]
  <2>2. c.pc = "read"
    BY DEF IdleOp
  <2>3. op' = [op EXCEPT ![o] = c] /\ UNCHANGED <<due, history, native, exec, agent>>
    BY <2>1 DEF ReconcileCheck
  <2> HIDE DEF c
  <2>4. op'[o].pc = "read" /\ \A p \in Operators \ {o} : op'[p] = op[p]
    BY <1>0, <2>2, <2>3
  <2>5. \A i \in Job : Kept(i)
    BY <2>1, ExpireEffect DEF ReconcileCheck, Kept
  <2> QED BY <2>3, <2>4, <2>5
<1>2. CASE ReconcileRead(o)
  <2>1. CASE op' = [op EXCEPT ![o] = IdleOp]
    BY <1>0, <1>2, <2>1 DEF ReconcileRead, IdleOp, Kept
  <2>2. CASE /\ Matches(op[o].job, op[o].attempt, Terminal)
             /\ op' = [op EXCEPT ![o].pc = "write", ![o].result = native[op[o].job].status]
    <3> DEFINE r == native[op[o].job].status
               c == [op[o] EXCEPT !.pc = "write", !.result = r]
    <3>1. op' = [op EXCEPT ![o] = c]
      BY <1>0, <2>2
    <3> HIDE DEF r
    <3>2. c.pc = "write" /\ c.job = op[o].job /\ c.attempt = op[o].attempt /\ c.result = r
      BY <1>0 DEF Call
    <3> HIDE DEF c
    <3>3. op'[o] = c /\ \A p \in Operators \ {o} : op'[p] = op[p]
      BY <1>0, <3>1
    <3>4. \A i \in Job : Kept(i)
      BY <1>2 DEF ReconcileRead, Kept
    <3> QED BY <1>2, <2>2, <3>2, <3>3, <3>4 DEF ReconcileRead, r
  <2> QED BY <1>2, <2>1, <2>2 DEF ReconcileRead
<1>3. CASE ReconcileWrite(o)
  <2>1. op'[o].pc = "idle" /\ \A p \in Operators \ {o} : op'[p] = op[p]
    BY <1>0, <1>3 DEF ReconcileWrite, IdleOp
  <2> DEFINE j == op[o].job
             r == [job[j] EXCEPT !.status = "completed", !.result = op[o].result]
  <2>2. j \in Job
    BY <1>0 DEF Call
  <2>3. job' = IF SameClaim(o) THEN [job EXCEPT ![j] = r] ELSE job
    BY <1>3 DEF ReconcileWrite
  <2> HIDE DEF r
  <2>4. CASE SameClaim(o)
    <3>1. job'[j] = r /\ \A i \in Job \ {j} : job'[i] = job[i]
      BY <1>0, <2>2, <2>3, <2>4
    <3> QED BY <1>3, <2>1, <2>4, <3>1 DEF ReconcileWrite, r
  <2>5. CASE ~SameClaim(o)
    BY <1>3, <2>1, <2>3, <2>5 DEF ReconcileWrite, Kept
  <2> QED BY <2>4, <2>5
<1> QED BY <1>1, <1>2, <1>3 DEF Reconcile

(* What a critical section writes into the job it owns.                    *)
LEMMA RecordEffect ==
  ASSUME TypeOK, NEW a \in Agents
  PROVE  /\ Renewed(a).attempt = Mine(a).attempt /\ Renewed(a).owner = Mine(a).owner
         /\ Renewed(a).token = Mine(a).token /\ Renewed(a).status = "running"
         /\ Unclaimed(a).attempt = Mine(a).attempt /\ Unclaimed(a).owner = "none"
         /\ Unclaimed(a).status = "queued"
         /\ Released(a, "reconciliation_required").attempt = Mine(a).attempt
         /\ Released(a, "reconciliation_required").owner = Mine(a).owner
         /\ Released(a, "reconciliation_required").status = "reconciliation_required"
         /\ Completed(a).attempt = Mine(a).attempt /\ Completed(a).owner = Mine(a).owner
         /\ Completed(a).token = Mine(a).token /\ Completed(a).status = "completed"
         /\ Completed(a).result = agent[a].result
<1>1. Mine(a) \in JobFile
  BY DEF TypeOK, RunOnce, Mine
<1> QED BY <1>1 DEF Renewed, Unclaimed, Released, Completed, JobFile

LEMMA PublishEffect ==
  ASSUME TypeOK, NEW j \in Job, NEW n \in Attempts, Publish(j, n) \/ PublishCrashes(j, n)
  PROVE  /\ UNCHANGED <<due, native, exec, agent, op>>
         /\ \/ UNCHANGED job
            \/ /\ Publish(j, n) /\ \A i \in Job \ {j} : job'[i] = job[i]
               /\ job'[j].status = "queued" /\ job'[j].attempt = n /\ job'[j].owner = "none"
<1>1. CASE Publish(j, n)
  <2>1. job[j].gen \in 0..MaxClaims /\ job \in [Job -> JobFile]
    BY DEF TypeOK, JobFile
  <2> DEFINE r == Fresh(n, job[j].gen)
  <2>2. r.status = "queued" /\ r.attempt = n /\ r.owner = "none"
    BY <2>1, FreshTypes
  <2>3. job' = [job EXCEPT ![j] = r]
    BY <1>1 DEF Publish
  <2> HIDE DEF r
  <2>4. job'[j] = r /\ \A i \in Job \ {j} : job'[i] = job[i]
    BY <2>1, <2>3
  <2> QED BY <1>1, <2>2, <2>4 DEF Publish
<1>2. CASE PublishCrashes(j, n)
  BY <1>2 DEF PublishCrashes
<1> QED BY <1>1, <1>2

-----------------------------------------------------------------------------
(* What the queue records *)

(* What a task tells of an attempt, it goes on telling.                    *)
LEMMA TellsStable ==
  ASSUME NEW t, NEW u, t.retry \in Nat, NEW n \in Nat, NEW r, TaskMoves(t, u), Tells(t, n, r)
  PROVE  Tells(u, n, r)
BY DEF TaskMoves, Tells, Terminal

LEMMA RecordInit == Init => RecordInv
BY DEF Init, RecordInv, Unpublished, IdleAgent, IdleOp

(* What is known of a completed job survives any step that keeps jobs,     *)
(* agents and calls as they are.                                           *)
LEMMA RecordNative ==
  ASSUME TypeOK, RecordInv, UNCHANGED <<job, agent, op>>,
         \A j \in Job : TaskMoves(native[j], native'[j])
  PROVE  RecordInv'
<1>1. \A j \in Job : native[j].retry \in Nat
  BY QueueAssumption DEF TypeOK, Attempts
<1>2. \A j \in Job : job[j].attempt \in Nat
  BY QueueAssumption DEF TypeOK, JobFile, Attempts
<1>3. \A a \in Agents : agent[a].job \in Job /\ agent[a].attempt \in Nat
  BY QueueAssumption DEF TypeOK, RunOnce, Attempts
<1>4. \A o \in Operators : op[o].job \in Job /\ op[o].attempt \in Nat
  BY QueueAssumption DEF TypeOK, Call, Attempts
<1>5. \A r : \A j \in Job, n \in Nat : Tells(native[j], n, r) => Tells(native'[j], n, r)
  BY <1>1, TellsStable
<1>6. \A j \in Job : job[j].status = "completed" => Sealed(j, job[j].attempt, job[j].result)'
  BY <1>2, <1>5 DEF RecordInv, Sealed
<1>7. \A a \in Agents : agent[a].pc = "complete_write" =>
        Sealed(agent[a].job, agent[a].attempt, agent[a].result)'
  BY <1>3, <1>5 DEF RecordInv, Sealed
<1>8. \A o \in Operators : op[o].pc = "write" =>
        Sealed(op[o].job, op[o].attempt, op[o].result)'
  BY <1>4, <1>5 DEF RecordInv, Sealed
<1>9. \A a \in Agents : agent[a].pc # "idle" /\ Holds(a)' => Mine(a)'.attempt = agent[a].attempt
  BY DEF RecordInv, Holds, Mine
<1> QED BY <1>6, <1>7, <1>8, <1>9 DEF RecordInv

(* An agent writes a record of the attempt it holds, completed only with   *)
(* a sealed outcome.                                                       *)
LEMMA RecordFenced ==
  ASSUME TypeOK, RecordInv, NEW a \in Agents, NEW r \in JobFile,
         NEW to \in AgentPcs \ {"complete_write"}, NEW orelse \in AgentPcs \ {"complete_write"},
         Fenced(a, r, to, orelse), agent[a].pc # "idle",
         r.attempt = Mine(a).attempt,
         r.owner = "none" \/ to = "idle" \/ (r.owner = Mine(a).owner /\ r.token = Mine(a).token),
         r.owner \in {"none", Mine(a).owner},
         r.status = "completed" => r = Mine(a) \/ Sealed(agent[a].job, agent[a].attempt, r.result)
  PROVE  RecordInv'
<1>0. agent[a].job \in Job /\ UNCHANGED <<native, exec, op>> /\ "none" \notin Agents
  BY QueueAssumption DEF TypeOK, RunOnce, Fenced
<1>1. \A pc \in AgentPcs : Go(a, pc) =>
        /\ agent'[a].pc = pc /\ (pc # "idle" => SameJob(a))
        /\ \A b \in Agents \ {a} : agent'[b] = agent[b]
  BY GoEffect
<1>2. CASE /\ Owned(a) /\ Go(a, to)
           /\ job'[agent[a].job] = r /\ \A i \in Job \ {agent[a].job} : job'[i] = job[i]
  <2>1. Mine(a).attempt = agent[a].attempt /\ Mine(a).owner = a
    BY <1>2 DEF RecordInv, Owned, Holds, Mine
  <2>2. ASSUME NEW j \in Job, job'[j].status = "completed"
        PROVE  Sealed(j, job[j].attempt, job[j].result)' 
    BY <1>0, <1>2, <2>1, <2>2 DEF RecordInv, Sealed, Mine
  <2>3. ASSUME NEW b \in Agents, agent'[b].pc = "complete_write"
        PROVE  Sealed(agent[b].job, agent[b].attempt, agent[b].result)'
    BY <1>0, <1>1, <1>2, <2>3 DEF RecordInv, Sealed
  <2>4. ASSUME NEW b \in Agents, agent'[b].pc # "idle", Holds(b)'
        PROVE  Mine(b)'.attempt = agent'[b].attempt
    <3>1. CASE b = a
      BY <1>0, <1>1, <1>2, <2>1, <2>4, <3>1 DEF SameJob, Mine, Holds
    <3>2. CASE b # a
      <4>1. agent'[b] = agent[b] /\ agent[b].job \in Job
        BY <1>1, <1>2, <3>2 DEF TypeOK, RunOnce
      <4>2. agent[b].job # agent[a].job
        BY <1>0, <1>2, <2>1, <2>4, <3>2, <4>1 DEF Holds
      <4> QED BY <1>2, <2>4, <4>1, <4>2 DEF RecordInv, Holds, Mine
    <3> QED BY <3>1, <3>2
  <2>5. \A o \in Operators : op[o].pc = "write" =>
          Sealed(op[o].job, op[o].attempt, op[o].result)'
    BY <1>0 DEF RecordInv, Sealed
  <2> QED BY <1>0, <2>2, <2>3, <2>4, <2>5 DEF RecordInv
<1>3. CASE Go(a, orelse) /\ \A i \in Job : Kept(i)
  <2>2. ASSUME NEW j \in Job, job'[j].status = "completed"
        PROVE  Sealed(j, job[j].attempt, job[j].result)' 
    BY <1>0, <1>3, <2>2 DEF RecordInv, Sealed, Kept
  <2>3. ASSUME NEW b \in Agents, agent'[b].pc = "complete_write"
        PROVE  Sealed(agent[b].job, agent[b].attempt, agent[b].result)'
    BY <1>0, <1>1, <1>3, <2>3 DEF RecordInv, Sealed
  <2>4. ASSUME NEW b \in Agents, agent'[b].pc # "idle", Holds(b)'
        PROVE  Mine(b)'.attempt = agent'[b].attempt
    <3>1. agent[b].pc # "idle" /\ SameJob(b) /\ agent[b].job \in Job
      BY <1>1, <1>3, <2>4 DEF TypeOK, RunOnce, SameJob
    <3> QED BY <1>3, <2>4, <3>1 DEF RecordInv, SameJob, Kept, Mine, Holds
  <2>5. \A o \in Operators : op[o].pc = "write" =>
          Sealed(op[o].job, op[o].attempt, op[o].result)'
    BY <1>0 DEF RecordInv, Sealed
  <2> QED BY <1>0, <2>2, <2>3, <2>4, <2>5 DEF RecordInv
<1> QED BY <1>2, <1>3, FencedEffect

(* An agent that moves on, or notes that its lease is lost, with jobs at   *)
(* most expired.                                                           *)
LEMMA RecordMoves ==
  ASSUME TypeOK, RecordInv, NEW a \in Agents, UNCHANGED <<native, op>>,
         \A i \in Job : Kept(i),
         agent'[a].pc # "idle" => agent[a].pc # "idle" /\ SameJob(a),
         agent'[a].pc = "complete_write" =>
           Sealed(agent[a].job, agent[a].attempt, agent'[a].result),
         \A b \in Agents \ {a} : agent'[b] = agent[b]
  PROVE  RecordInv'
<1>1. ASSUME NEW j \in Job, job'[j].status = "completed"
      PROVE  Sealed(j, job[j].attempt, job[j].result)'
  BY <1>1 DEF RecordInv, Sealed, Kept
<1>2. ASSUME NEW b \in Agents, agent'[b].pc = "complete_write"
      PROVE  Sealed(agent[b].job, agent[b].attempt, agent[b].result)'
  <2>1. CASE b = a
    BY <1>2, <2>1 DEF Sealed, SameJob
  <2>2. CASE b # a
    BY <1>2, <2>2 DEF RecordInv, Sealed
  <2> QED BY <2>1, <2>2
<1>3. ASSUME NEW b \in Agents, agent'[b].pc # "idle", Holds(b)'
      PROVE  Mine(b)'.attempt = agent'[b].attempt
  <2>1. agent[b].pc # "idle" /\ SameJob(b) /\ agent[b].job \in Job
    BY <1>3 DEF TypeOK, RunOnce, SameJob
  <2> QED BY <1>3, <2>1 DEF RecordInv, SameJob, Kept, Mine, Holds
<1>4. \A o \in Operators : op[o].pc = "write" =>
        Sealed(op[o].job, op[o].attempt, op[o].result)'
  BY DEF RecordInv, Sealed
<1> QED BY <1>1, <1>2, <1>3, <1>4 DEF RecordInv

LEMMA RecordPonder ==
  ASSUME TypeOK, RecordInv, NEW a \in Agents, Ponders(a)
  PROVE  RecordInv'
<1>1. UNCHANGED <<job, native, op>> /\ \A i \in Job : Kept(i)
  BY PonderTypes DEF Kept
<1>2. agent'[a].pc = "complete_write" => Sealed(agent[a].job, agent[a].attempt, agent'[a].result)
  BY PonderEffect DEF Sealed, Tells, Matches
<1> QED BY <1>1, <1>2, PonderEffect, RecordMoves

LEMMA RecordLaunch ==
  ASSUME TypeOK, RecordInv, NEW a \in Agents, Launch(a) \/ RenewFails(a)
  PROVE  RecordInv'
<1>1. CASE Launch(a)
  <2>1. UNCHANGED <<native, op>> /\ \A i \in Job : Kept(i)
    BY <1>1 DEF Launch, Kept
  <2> QED BY <1>1, <2>1, LaunchEffect, RecordMoves
<1>2. CASE RenewFails(a)
  <2>1. UNCHANGED <<native, op>>
    BY <1>2 DEF RenewFails
  <2> QED BY <1>2, <2>1, RenewEffect, RecordMoves
<1> QED BY <1>1, <1>2

LEMMA RecordFencedStep ==
  ASSUME TypeOK, RecordInv, NEW a \in Agents,
         \/ ExtendLease(a) \/ DeferCheck(a) \/ DeferWrite(a) \/ Block(a)
         \/ CompleteCheck(a) \/ CompleteWrite(a)
  PROVE  RecordInv'
<1>1. agent[a].orelse \in AgentPcs \ {"complete_write"}
  BY DEF TypeOK, RunOnce, AgentPcs
<1>2. {"launch", "idle", "defer_read", "complete_read"} \subseteq AgentPcs \ {"complete_write"}
  BY DEF AgentPcs
<1>3. CASE ExtendLease(a)
  <2>1. agent[a].pc # "idle" /\ Fenced(a, Renewed(a), "launch", "idle")
    BY <1>3 DEF ExtendLease
  <2> QED BY <1>2, <2>1, RecordTypes, RecordEffect, RecordFenced
<1>4. CASE DeferCheck(a)
  <2>1. agent[a].pc # "idle" /\ Fenced(a, Mine(a), "defer_read", agent[a].orelse)
    BY <1>4 DEF DeferCheck
  <2> QED BY <1>1, <1>2, <2>1, RecordTypes, RecordFenced
<1>5. CASE DeferWrite(a)
  <2>1. agent[a].pc # "idle" /\ Fenced(a, Unclaimed(a), "idle", agent[a].orelse)
    BY <1>5 DEF DeferWrite, Unclaimed
  <2> QED BY <1>1, <1>2, <2>1, RecordTypes, RecordEffect, RecordFenced
<1>6. CASE Block(a)
  <2>1. agent[a].pc # "idle"
        /\ Fenced(a, Released(a, "reconciliation_required"), "idle", "idle")
    BY <1>6 DEF Block
  <2> QED BY <1>2, <2>1, RecordTypes, RecordEffect, RecordFenced
<1>7. CASE CompleteCheck(a)
  <2>1. agent[a].pc # "idle" /\ Fenced(a, Mine(a), "complete_read", "idle")
    BY <1>7 DEF CompleteCheck
  <2> QED BY <1>2, <2>1, RecordTypes, RecordFenced
<1>8. CASE CompleteWrite(a)
  <2>1. agent[a].pc = "complete_write" /\ Fenced(a, Completed(a), "idle", "idle")
    BY <1>8 DEF CompleteWrite, Completed
  <2>2. Sealed(agent[a].job, agent[a].attempt, Completed(a).result)
    BY <2>1, RecordEffect DEF RecordInv
  <2> QED BY <1>2, <2>1, <2>2, RecordTypes, RecordEffect, RecordFenced
<1> QED BY <1>3, <1>4, <1>5, <1>6, <1>7, <1>8

LEMMA RecordPoll ==
  ASSUME TypeOK, RecordInv, NEW a \in Agents, Poll(a)
  PROVE  RecordInv'
<1>0. agent[a].pc = "idle" /\ UNCHANGED <<native, op>>
  BY PollEffect
<1>1. CASE job' = Expire(Job) /\ UNCHANGED <<due, agent>>
  <2>1. \A i \in Job : Kept(i)
    BY <1>1, ExpireEffect DEF Kept
  <2> QED BY <1>0, <1>1, <2>1, RecordMoves
<1>2. CASE \E j \in Job : PollTakes(a, j)
  <2>1. PICK j \in Job : PollTakes(a, j)
    BY <1>2
  <2>2. /\ job'[j].status = "claimed" /\ job'[j].attempt = job[j].attempt /\ job'[j].owner = a
        /\ agent'[a].pc = "claimed" /\ agent'[a].job = j /\ agent'[a].attempt = job[j].attempt
        /\ \A b \in Agents \ {a} : agent'[b] = agent[b]
    BY <2>1, TakeEffect
  <2>3. \A i \in Job \ {j} : Kept(i)
    BY <2>1, TakeEffect, ExpireEffect DEF Kept
  <2>4. ASSUME NEW i \in Job, job'[i].status = "completed"
        PROVE  Sealed(i, job[i].attempt, job[i].result)'
    BY <1>0, <2>2, <2>3, <2>4 DEF RecordInv, Sealed, Kept
  <2>5. ASSUME NEW b \in Agents, agent'[b].pc = "complete_write"
        PROVE  Sealed(agent[b].job, agent[b].attempt, agent[b].result)'
    BY <1>0, <2>2, <2>5 DEF RecordInv, Sealed
  <2>6. ASSUME NEW b \in Agents, agent'[b].pc # "idle", Holds(b)'
        PROVE  Mine(b)'.attempt = agent'[b].attempt
    <3>1. CASE b = a
      BY <2>2, <3>1 DEF Mine
    <3>2. CASE b # a
      <4>1. agent'[b] = agent[b] /\ agent[b].job \in Job \ {j}
        BY <2>2, <2>6, <3>2 DEF TypeOK, RunOnce, Holds
      <4> QED BY <2>3, <2>6, <4>1 DEF RecordInv, Kept, Mine, Holds
    <3> QED BY <3>1, <3>2
  <2>7. \A o \in Operators : op[o].pc = "write" =>
          Sealed(op[o].job, op[o].attempt, op[o].result)'
    BY <1>0 DEF RecordInv, Sealed
  <2> QED BY <1>0, <2>4, <2>5, <2>6, <2>7 DEF RecordInv
<1> QED BY <1>1, <1>2, PollEffect

LEMMA RecordReconcile ==
  ASSUME TypeOK, RecordInv, NEW o \in Operators, Reconcile(o)
  PROVE  RecordInv'
<1>1. /\ UNCHANGED <<native, agent>> /\ \A p \in Operators \ {o} : op'[p] = op[p]
      /\ op'[o].pc = "write" =>
           /\ Matches(op'[o].job, op'[o].attempt, Terminal)
           /\ op'[o].result = native[op'[o].job].status
  BY ZenonT(60), ReconcileEffect
<1>2. ASSUME NEW j \in Job
      PROVE  \/ Kept(j)
             \/ /\ op[o].pc = "write" /\ op[o].job = j /\ job[j].attempt = op[o].attempt
                /\ job'[j].attempt = job[j].attempt /\ job'[j].owner = job[j].owner
                /\ job'[j].token = job[j].token /\ job'[j].result = op[o].result
  <2>1. CASE \A i \in Job : Kept(i)
    BY <2>1
  <2>2. CASE /\ op[o].pc = "write" /\ SameClaim(o)
             /\ \A i \in Job \ {op[o].job} : job'[i] = job[i]
             /\ job'[op[o].job] = [job[op[o].job] EXCEPT !.status = "completed",
                                                         !.result = op[o].result]
    <3>1. CASE j # op[o].job
      BY <2>2, <3>1 DEF Kept
    <3>2. CASE j = op[o].job
      <4>1. job[j] \in JobFile
        BY DEF TypeOK
      <4>2. job'[j] = [job[j] EXCEPT !.status = "completed", !.result = op[o].result]
        BY <2>2, <3>2
      <4>3. /\ job'[j].attempt = job[j].attempt /\ job'[j].owner = job[j].owner
            /\ job'[j].token = job[j].token /\ job'[j].result = op[o].result
        BY <4>1, <4>2 DEF JobFile
      <4> QED BY <2>2, <3>2, <4>3 DEF SameClaim
    <3> QED BY <3>1, <3>2
  <2> QED BY ZenonT(60), <2>1, <2>2, ReconcileEffect
<1>3. ASSUME NEW j \in Job, job'[j].status = "completed"
      PROVE  Sealed(j, job[j].attempt, job[j].result)'
  BY <1>1, <1>2, <1>3 DEF RecordInv, Sealed, Kept
<1>4. ASSUME NEW b \in Agents, agent[b].pc = "complete_write"
      PROVE  Sealed(agent[b].job, agent[b].attempt, agent[b].result)'
  BY <1>1, <1>4 DEF RecordInv, Sealed
<1>5. ASSUME NEW b \in Agents, agent[b].pc # "idle", Holds(b)'
      PROVE  Mine(b)'.attempt = agent'[b].attempt
  <2>1. agent[b].job \in Job
    BY DEF TypeOK, RunOnce
  <2> QED BY <1>1, <1>2, <1>5, <2>1 DEF RecordInv, Kept, Mine, Holds
<1>6. ASSUME NEW p \in Operators, op'[p].pc = "write"
      PROVE  Sealed(op[p].job, op[p].attempt, op[p].result)'
  <2>1. CASE p = o
    BY <1>1, <1>6, <2>1 DEF Sealed, Tells, Matches
  <2>2. CASE p # o
    BY <1>1, <1>6, <2>2 DEF RecordInv, Sealed
  <2> QED BY <2>1, <2>2
<1> QED BY SMTT(60), <1>1, <1>3, <1>4, <1>5, <1>6 DEF RecordInv

LEMMA RecordPublish ==
  ASSUME TypeOK, RecordInv, NEW j \in Job, NEW n \in Attempts,
         Publish(j, n) \/ PublishCrashes(j, n)
  PROVE  RecordInv'
<1>1. UNCHANGED <<native, agent, op>>
  BY PublishEffect
<1>2. CASE UNCHANGED job
  BY <1>1, <1>2 DEF RecordInv, Sealed, Holds, Mine
<1>3. CASE /\ \A i \in Job \ {j} : job'[i] = job[i]
           /\ job'[j].status = "queued" /\ job'[j].attempt = n /\ job'[j].owner = "none"
  <2>1. ASSUME NEW i \in Job, job'[i].status = "completed"
        PROVE  Sealed(i, job[i].attempt, job[i].result)'
    BY <1>1, <1>3, <2>1 DEF RecordInv, Sealed
  <2>2. ASSUME NEW b \in Agents, agent[b].pc # "idle", Holds(b)'
        PROVE  Mine(b)'.attempt = agent'[b].attempt
    <3>1. agent[b].job \in Job \ {j}
      BY <1>1, <1>3, <2>2, QueueAssumption DEF TypeOK, RunOnce, Holds
    <3> QED BY <1>1, <1>3, <2>2, <3>1 DEF RecordInv, Mine, Holds
  <2> QED BY <1>1, <2>1, <2>2 DEF RecordInv, Sealed
<1> QED BY <1>2, <1>3, PublishEffect

LEMMA RecordStep == TypeOK /\ RecordInv /\ [Next]_vars => RecordInv'
<1>1. ASSUME TypeOK, RecordInv, UNCHANGED vars PROVE RecordInv'
  BY <1>1 DEF vars, RecordInv, Sealed, Holds, Mine
<1> SUFFICES ASSUME TypeOK, RecordInv, Next PROVE RecordInv'
  BY <1>1
<1>2. CASE \E a \in Agents : AgentStep(a) \/ RenewFails(a) \/ Die(a)
  BY <1>2, RecordPoll, RecordPonder, RecordFencedStep, RecordLaunch DEF AgentStep, Ponders
<1>3. CASE \E o \in Operators : Reconcile(o)
  BY <1>3, RecordReconcile
<1>4. CASE \E j \in Job : LeaseRunsOut(j)
  BY <1>4 DEF LeaseRunsOut, RecordInv, Sealed, Holds, Mine
<1>5. CASE \/ \E j \in Job : NativeExpires(j) \/ NativeRetry(j) \/ RunByHand(j)
           \/ \E b \in Launchers, j \in Job : ExecutorStep(b, j)
  BY <1>5, NativeEffect, RecordNative
<1>6. CASE \E j \in Job, n \in Attempts : Publish(j, n) \/ PublishCrashes(j, n)
  BY <1>6, RecordPublish
<1> QED BY <1>2, <1>3, <1>4, <1>5, <1>6 DEF Next

(* The queue's records, its agents and its calls are always well formed,   *)
(* and a completed attempt was recorded as the verified task tells it.     *)
THEOREM RecordsAreSound == Spec => [](TypeOK /\ RecordInv)
<1>1. Init => TypeOK /\ RecordInv
  BY TypeInit, RecordInit
<1>2. TypeOK /\ RecordInv /\ [Next]_vars => (TypeOK /\ RecordInv)'
  BY TypeStep, RecordStep
<1> QED BY <1>1, <1>2, PTL DEF Spec

(* What the queue records about an attempt is what the sealed plan says,   *)
(* whatever executors operators start by hand (complete, reconcile).       *)
THEOREM ResultSealed == Spec => []ResultIsSealed
<1>1. TypeOK /\ RecordInv => ResultIsSealed
  <2> SUFFICES ASSUME TypeOK, RecordInv, NEW j \in Job, job[j].status = "completed"
               PROVE  job[j].attempt < native[j].retry \/ native[j].status = job[j].result
    BY DEF ResultIsSealed
  <2>1. job[j].attempt \in Nat /\ native[j].retry \in Nat
    BY QueueAssumption DEF TypeOK, JobFile, Attempts
  <2> QED BY <2>1 DEF RecordInv, Sealed, Tells
<1> QED BY <1>1, RecordsAreSound, PTL

(* Only the publication of a job changes its attempt.                      *)
LEMMA AttemptStays ==
  ASSUME TypeOK, Next, ~\E j \in Job, n \in Attempts : Publish(j, n) \/ PublishCrashes(j, n)
  PROVE  \A i \in Job : job'[i].attempt = job[i].attempt
<1>1. ASSUME NEW a \in Agents, AgentStep(a) \/ RenewFails(a) \/ Die(a)
      PROVE  \A i \in Job : job'[i].attempt = job[i].attempt
  <2>1. CASE Poll(a)
    <3>1. ASSUME NEW j \in Job, PollTakes(a, j)
          PROVE  \A i \in Job : job'[i].attempt = job[i].attempt
      BY <3>1, TakeEffect, ExpireEffect
    <3>2. CASE job' = Expire(Job)
      BY <3>2, ExpireEffect
    <3> QED BY <2>1, <3>1, <3>2, PollEffect
  <2>2. CASE Ponders(a)
    BY <2>2, PonderTypes
  <2>3. CASE Launch(a) \/ RenewFails(a)
    BY <2>3, RenewEffect DEF Launch, Kept
  <2>4. ASSUME NEW r \in JobFile, NEW to, NEW orelse, Fenced(a, r, to, orelse),
               r.attempt = Mine(a).attempt
        PROVE  \A i \in Job : job'[i].attempt = job[i].attempt
    BY <2>4, FencedEffect DEF Kept, Mine
  <2>5. CASE ExtendLease(a)
    BY <2>4, <2>5, RecordTypes, RecordEffect DEF ExtendLease
  <2>6. CASE DeferCheck(a) \/ CompleteCheck(a)
    BY <2>4, <2>6, RecordTypes DEF DeferCheck, CompleteCheck
  <2>7. CASE DeferWrite(a)
    BY <2>4, <2>7, RecordTypes, RecordEffect DEF DeferWrite, Unclaimed
  <2>8. CASE Block(a)
    BY <2>4, <2>8, RecordTypes, RecordEffect DEF Block
  <2>9. CASE CompleteWrite(a)
    BY ZenonT(60), <2>4, <2>9, RecordTypes, RecordEffect DEF CompleteWrite, Completed
  <2> QED BY <1>1, <2>1, <2>2, <2>3, <2>5, <2>6, <2>7, <2>8, <2>9 DEF AgentStep, Ponders
<1>2. ASSUME NEW o \in Operators, Reconcile(o)
      PROVE  \A i \in Job : job'[i].attempt = job[i].attempt
  <2>1. CASE \A i \in Job : Kept(i)
    BY <2>1 DEF Kept
  <2> DEFINE k == op[o].job
             r == [job[k] EXCEPT !.status = "completed", !.result = op[o].result]
  <2>2. CASE /\ \A i \in Job \ {k} : job'[i] = job[i]
             /\ job'[k] = r
    <3>1. r.attempt = job[k].attempt
      BY DEF TypeOK, Call, JobFile
    <3> QED BY <2>2, <3>1
  <2> QED BY ZenonT(60), <1>2, <2>1, <2>2, ReconcileEffect
<1>3. CASE \E j \in Job : LeaseRunsOut(j)
  BY <1>3 DEF LeaseRunsOut
<1>4. CASE \/ \E j \in Job : NativeExpires(j) \/ NativeRetry(j) \/ RunByHand(j)
           \/ \E b \in Launchers, j \in Job : ExecutorStep(b, j)
  BY <1>4, NativeEffect
<1> QED BY <1>1, <1>2, <1>3, <1>4 DEF Next

(* A job moves on by one attempt at a time, and only from an attempt whose *)
(* sealed failure is in its history (publish_task).                        *)
THEOREM AttemptsAreChained == Spec => AttemptsChain
<1> DEFINE Moves == \A j \in Job : job[j].status # "absent" /\ job'[j].attempt # job[j].attempt =>
              /\ job'[j].attempt = job[j].attempt + 1
              /\ [attempt |-> job[j].attempt, result |-> "failed"] \in history'[j]
<1>1. ASSUME TypeOK, RecordInv, Next PROVE Moves
  <2> SUFFICES ASSUME NEW j \in Job, job[j].status # "absent",
                      job'[j].attempt # job[j].attempt
               PROVE  /\ job'[j].attempt = job[j].attempt + 1
                      /\ [attempt |-> job[j].attempt, result |-> "failed"] \in history'[j]
    OBVIOUS
  <2>1. PICK i \in Job, n \in Attempts : Publish(i, n) \/ PublishCrashes(i, n)
    BY <1>1, AttemptStays
  <2>2. i = j /\ Publish(j, n) /\ job'[j].attempt = n
    BY <1>1, <2>1, PublishEffect
  <2>3. MayReplace(j, n) /\ Archive(j) /\ n <= native[j].retry
    BY <2>2 DEF Publish
  <2>4. job[j].attempt \in Nat /\ native[j].retry \in Nat
    BY SMTT(60), <1>1, QueueAssumption DEF TypeOK, JobFile, Attempts
  <2>5. job[j].result = "failed"
    BY <1>1, <2>3, <2>4 DEF RecordInv, Sealed, Tells, MayReplace
  <2>6. [attempt |-> job[j].attempt, result |-> job[j].result] \in history'[j]
    BY <1>1, <2>3 DEF Archive, TypeOK
  <2> QED BY <2>2, <2>3, <2>5, <2>6 DEF MayReplace
<1>2. TypeOK /\ RecordInv /\ [Next]_vars => [Moves]_vars
  BY <1>1
<1> QED BY <1>2, RecordsAreSound, PTL DEF Spec, AttemptsChain

-----------------------------------------------------------------------------
(* What is handed out, when agents alone start executors *)

(* A job keeps its attempt, and stays out if it was.                       *)
Still(i) ==
  /\ job'[i].attempt = job[i].attempt
  /\ job'[i].status = job[i].status \/ {job[i].status, job'[i].status} \subseteq Blocking

(* An agent keeps its job; it may launch only what it could launch before  *)
(* or has just seen pending, and stops waiting only for an executor that   *)
(* is gone.                                                                *)
MovesOn(b) ==
  agent'[b].pc # "idle" =>
    /\ agent[b].pc # "idle" /\ SameJob(b)
    /\ agent'[b].pc \in Launching =>
         agent[b].pc \in Launching \/ Matches(agent[b].job, agent[b].attempt, {"pending"})
    /\ agent[b].pc = "waiting" /\ agent'[b].pc # "waiting" =>
         ~\E e \in exec : e.by = b /\ e.job = agent[b].job /\ e.attempt = agent[b].attempt

(* Attempts are numbers, whatever the job and the agent.                   *)
LEMMA AttemptTypes ==
  ASSUME TypeOK
  PROVE  /\ \A j \in Job : job[j].attempt \in Nat /\ native[j].retry \in Nat
         /\ \A a \in Agents : agent[a].job \in Job /\ agent[a].attempt \in Nat
         /\ \A e \in exec : e.job \in Job
BY SMTT(60), QueueAssumption DEF TypeOK, JobFile, RunOnce, Executor, Attempts

LEMMA ApartShrinks ==
  ASSUME Apart, \A i \in Job : job'[i].status \in Blocking => job[i].status \in Blocking
  PROVE  Apart'
BY DEF Apart, SamePlan

LEMMA JobFrame ==
  ASSUME NEW j \in Job, JobInv(j), Still(j), native'[j] = native[j], Out(j)' = Out(j)
  PROVE  JobInv(j)'
BY DEF JobInv, Still, Untouched, Retried, Blocking, Active

(* Among the steps of an agent that keeps its job.                         *)
LEMMA AgentFrame ==
  ASSUME TypeOK, NEW a \in Agents, NEW j \in Job, agent[a].job = j,
         AgentInv(a), JobInv(j), MovesOn(a),
         Still(j), native'[j] = native[j], Out(j)' = Out(j),
         \A b \in Agents \ {a} : agent'[b].pc # "idle" /\ agent'[b].job = j =>
           agent[b].pc # "idle" /\ SameJob(b)
  PROVE  AgentInv(a)'
<1> SUFFICES ASSUME agent'[a].pc # "idle" PROVE AgentInv(a)'
  BY DEF AgentInv
<1>1. agent[a].pc # "idle" /\ agent'[a].job = j /\ agent'[a].attempt = agent[a].attempt
  BY DEF MovesOn, SameJob
<1>2. /\ job'[j].attempt = job[j].attempt
      /\ job'[j].status = job[j].status \/ {job[j].status, job'[j].status} \subseteq Blocking
      /\ {"absent", "queued", "completed"} \cap Blocking = {}
  BY DEF Still, Blocking, Active
<1>3. job[j].status # "absent" /\ agent[a].attempt <= job[j].attempt
  BY <1>1 DEF AgentInv
<1>4. Working(a)' <=> Working(a)
  BY <1>1, <1>2 DEF Working, Mine
<1>5. Working(a) => /\ job[j].status # "queued"
                    /\ agent[a].pc # "waiting" => Out(j) = {}
                    /\ \A e \in Out(j) : e.by = a
                    /\ \A b \in Agents \ {a} : agent[b].job = j => ~Working(b)
  BY <1>1 DEF AgentInv
<1>6. ASSUME agent'[a].pc \in Launching
      PROVE  Working(a) /\ job[j].status \in Blocking /\ Untouched(j)
  <2>1. CASE agent[a].pc \in Launching
    BY <1>1, <2>1 DEF AgentInv
  <2>2. CASE Matches(j, agent[a].attempt, {"pending"})
    <3>1. native[j].status = "pending" /\ native[j].retry = agent[a].attempt
      BY <2>2 DEF Matches
    <3>2. agent[a].attempt = job[j].attempt
      BY <1>3, <3>1, AttemptTypes DEF JobInv, Retried
    <3>3. Working(a) /\ Untouched(j)
      BY <1>1, <3>1, <3>2 DEF Working, Mine, Untouched
    <3>4. job[j].status # "completed"
      BY <3>1, <3>2, AttemptTypes DEF JobInv, Retried, Terminal
    <3> QED BY <1>3, <1>5, <3>3, <3>4 DEF TypeOK, JobFile, RunOnce
  <2> QED BY <1>6, <1>1, <2>1, <2>2 DEF MovesOn
<1>7. Untouched(j)' <=> Untouched(j)
  BY <1>1, <1>2 DEF Untouched
<1>8. ASSUME Working(a), agent'[a].pc # "waiting" PROVE Out(j) = {}
  <2>1. CASE agent[a].pc = "waiting"
    <3>1. ~\E e \in exec : e.by = a /\ e.job = j /\ e.attempt = agent[a].attempt
      BY <1>8, <2>1 DEF MovesOn
    <3>2. \A e \in Out(j) : e \in exec /\ e.by = a /\ e.job = j /\ e.attempt = agent[a].attempt
      BY <1>5, <1>8 DEF JobInv, Working, Mine, Out
    <3> QED BY <3>1, <3>2
  <2> QED BY <1>5, <1>8, <2>1
<1>9. ASSUME Working(a), NEW b \in Agents \ {a}, agent'[b].job = j PROVE ~Working(b)'
  BY <1>2, <1>5, <1>9 DEF Working, Mine, SameJob
<1>10. job'[j].status # "absent" /\ agent'[a].attempt <= job'[j].attempt
  BY <1>1, <1>2, <1>3
<1>11. agent'[a].pc \in Launching =>
         Working(a)' /\ job'[j].status \in Blocking /\ Untouched(j)'
  BY <1>2, <1>4, <1>6, <1>7
<1>12. Working(a)' => /\ job'[j].status # "queued"
                      /\ agent'[a].pc # "waiting" => Out(j)' = {}
                      /\ \A e \in Out(j)' : e.by = a
                      /\ \A b \in Agents \ {a} : agent'[b].job = j => ~Working(b)'
  BY <1>2, <1>4, <1>5, <1>8, <1>9
<1> QED BY <1>1, <1>10, <1>11, <1>12 DEF AgentInv

LEMMA DeliveryMoves ==
  ASSUME TypeOK, DeliveryInv, UNCHANGED <<native, exec>>,
         \A i \in Job : Still(i), \A b \in Agents : MovesOn(b)
  PROVE  DeliveryInv'
<1>1. Apart'
  BY ApartShrinks DEF DeliveryInv, Still
<1>2. \A j \in Job : Out(j)' = Out(j)
  BY DEF Out
<1>3. \A j \in Job : JobInv(j)'
  BY <1>2, JobFrame DEF DeliveryInv
<1>4. \A a \in Agents : AgentInv(a)'
  <2> SUFFICES ASSUME NEW a \in Agents PROVE AgentInv(a)'
    OBVIOUS
  <2>1. PICK j \in Job : agent[a].job = j
    BY AttemptTypes
  <2>2. Out(j)' = Out(j) /\ Still(j) /\ native'[j] = native[j] /\ JobInv(j) /\ AgentInv(a)
    BY <1>2 DEF DeliveryInv
  <2>3. \A b \in Agents \ {a} : agent'[b].pc # "idle" => agent[b].pc # "idle" /\ SameJob(b)
    BY DEF MovesOn
  <2> QED BY <2>1, <2>2, <2>3, AgentFrame
<1> QED BY <1>1, <1>3, <1>4 DEF DeliveryInv

(* A step that changes one job, and the agents that work on it.            *)
LEMMA DeliveryAt ==
  ASSUME TypeOK, DeliveryInv, NEW j \in Job,
         \A i \in Job \ {j} : Still(i) /\ native'[i] = native[i] /\ Out(i)' = Out(i),
         \A b \in Agents : agent'[b].pc # "idle" /\ agent'[b].job # j => MovesOn(b),
         Apart', JobInv(j)',
         \A b \in Agents : agent'[b].pc # "idle" /\ agent'[b].job = j => AgentInv(b)'
  PROVE  DeliveryInv'
<1>1. \A i \in Job : JobInv(i)'
  BY JobFrame DEF DeliveryInv
<1>2. ASSUME NEW a \in Agents PROVE AgentInv(a)'
  <2>1. CASE agent'[a].pc = "idle"
    BY <2>1 DEF AgentInv
  <2>2. CASE agent'[a].pc # "idle" /\ agent'[a].job # j
    <3>1. MovesOn(a) /\ agent[a].job \in Job \ {j}
      BY <2>2, AttemptTypes DEF MovesOn, SameJob
    <3>2. PICK i \in Job \ {j} : agent[a].job = i
      BY <3>1
    <3>3. \A b \in Agents \ {a} : agent'[b].pc # "idle" /\ agent'[b].job = i =>
            agent[b].pc # "idle" /\ SameJob(b)
      BY <3>2 DEF MovesOn
    <3>4. AgentInv(a) /\ JobInv(i)
      BY DEF DeliveryInv
    <3> QED BY <3>1, <3>2, <3>3, <3>4, AgentFrame
  <2> QED BY <2>1, <2>2
<1> QED BY <1>1, <1>2 DEF DeliveryInv

LEMMA DeliveryNative ==
  ASSUME TypeOK, DeliveryInv, NEW j \in Job, ByHand = {},
         \/ NativeExpires(j) \/ NativeRetry(j) \/ RunByHand(j)
         \/ \E b \in Launchers : ExecutorStep(b, j)
  PROVE  DeliveryInv'
<1>0. UNCHANGED <<job, agent>> /\ Apart'
  BY NativeEffect, ApartShrinks DEF DeliveryInv
<1>1. native \in [Job -> [status : {"pending", "running", "unknown"} \cup Terminal,
                          retry : Attempts]]
  BY DEF TypeOK
<1>2. JobInv(j) /\ (\A b \in Agents : AgentInv(b))
  BY DEF DeliveryInv
<1>3. ASSUME \A i \in Job \ {j} : native'[i] = native[i] /\ Out(i)' = Out(i),
             JobInv(j)',
             \A b \in Agents : agent[b].pc # "idle" /\ agent[b].job = j =>
               /\ agent[b].pc \in Launching => Untouched(j)'
               /\ Working(b) => /\ agent[b].pc # "waiting" => Out(j)' = {}
                                /\ \A e \in Out(j)' : e.by = b
      PROVE  DeliveryInv'
  <2>1. \A b \in Agents : MovesOn(b)
    BY <1>0, <1>3 DEF MovesOn, SameJob
  <2>2. \A i \in Job : Still(i)
    BY <1>0 DEF Still
  <2>3. \A b \in Agents : agent'[b].pc # "idle" /\ agent'[b].job = j => AgentInv(b)'
    BY <1>0, <1>2, <1>3 DEF AgentInv, Working, Mine
  <2> QED BY <1>0, <1>3, <2>1, <2>2, <2>3, DeliveryAt
<1>4. CASE NativeExpires(j)
  <2>1. /\ \A i \in Job : Out(i)' = Out(i)
        /\ \A i \in Job \ {j} : native'[i] = native[i]
        /\ native[j].status = "running" /\ native'[j].status = "unknown"
        /\ native'[j].retry = native[j].retry
    BY <1>1, <1>4 DEF NativeExpires, Out
  <2>2. JobInv(j)'
    BY <1>0, <1>2, <2>1 DEF JobInv, Untouched, Retried, Terminal
  <2> QED BY <1>2, <1>3, <2>1, <2>2 DEF AgentInv, Untouched
<1>5. CASE NativeRetry(j)
  <2>1. /\ \A i \in Job : Out(i)' = Out(i)
        /\ \A i \in Job \ {j} : native'[i] = native[i]
        /\ native[j].status = "failed" /\ native'[j].status = "pending"
        /\ native'[j].retry = native[j].retry + 1
    BY <1>1, <1>5 DEF NativeRetry, Out
  <2>2. Out(j) = {} /\ native[j].retry = job[j].attempt
    BY <1>2, <2>1 DEF JobInv, Retried
  <2>3. JobInv(j)'
    BY <1>0, <1>2, <2>1, <2>2 DEF JobInv, Untouched, Retried, Terminal
  <2> QED BY <1>2, <1>3, <2>1, <2>3 DEF AgentInv, Untouched
<1>6. CASE RunByHand(j)
  BY <1>6 DEF RunByHand
<1>7. CASE \E b \in Launchers : ExecutorStep(b, j)
  <2>1. PICK e \in exec : e.job = j /\ (ExecutorClaims(e) \/ ExecutorRefused(e) \/ ExecutorEnds(e))
    BY <1>7 DEF ExecutorStep
  <2>2. Out(j) = {e} /\ e.attempt = job[j].attempt /\ native[j].retry = job[j].attempt
    BY <1>2, <2>1 DEF JobInv, Out
  <2>3. job[j].status \notin {"absent", "queued", "completed"}
    BY <1>2, <2>2 DEF JobInv
  <2>4. ASSUME NEW b \in Agents, agent[b].pc # "idle", agent[b].job = j
        PROVE  agent[b].pc \notin Launching /\ (Working(b) => agent[b].pc = "waiting" /\ e.by = b)
    BY <1>2, <2>2, <2>4 DEF AgentInv, Launching
  <2>5. CASE ExecutorClaims(e)
    <3> DEFINE f == [e EXCEPT !.phase = "working"]
    <3>1. e \in Executor /\ f.job = j /\ f.attempt = e.attempt /\ f.by = e.by /\ f.phase = "working"
      BY <2>1 DEF TypeOK, Executor
    <3>2. exec' = (exec \ {e}) \cup {f}
      BY <2>5 DEF ExecutorClaims
    <3> HIDE DEF f
    <3>3. Out(j)' = {f} /\ \A i \in Job \ {j} : Out(i)' = Out(i)
      BY <2>1, <2>2, <3>1, <3>2 DEF Out
    <3>4. /\ \A i \in Job \ {j} : native'[i] = native[i]
          /\ native'[j].status = "running" /\ native'[j].retry = native[j].retry
      BY <1>1, <2>1, <2>5 DEF ExecutorClaims
    <3>5. JobInv(j)'
      BY <1>0, <2>2, <2>3, <3>1, <3>3, <3>4 DEF JobInv
    <3> QED BY <1>3, <2>4, <3>1, <3>3, <3>4, <3>5
  <2>6. CASE ExecutorRefused(e) \/ ExecutorEnds(e)
    <3>1. exec' = exec \ {e}
      BY <2>6 DEF ExecutorRefused, ExecutorEnds
    <3>2. Out(j)' = {} /\ \A i \in Job \ {j} : Out(i)' = Out(i)
      BY <2>1, <2>2, <3>1 DEF Out
    <3>3. /\ \A i \in Job \ {j} : native'[i] = native[i]
          /\ native'[j].retry = native[j].retry
      BY <1>1, <2>1, <2>6 DEF ExecutorRefused, ExecutorEnds
    <3>4. JobInv(j)'
      BY <1>0, <2>2, <2>3, <3>2, <3>3 DEF JobInv
    <3> QED BY <1>3, <2>4, <3>2, <3>3, <3>4
  <2> QED BY <2>1, <2>5, <2>6
<1> QED BY <1>4, <1>5, <1>6, <1>7

LEMMA DeliveryLaunch ==
  ASSUME TypeOK, DeliveryInv, NEW a \in Agents, Launch(a)
  PROVE  DeliveryInv'
<1> DEFINE j == agent[a].job
           e == [by |-> a, job |-> j, attempt |-> agent[a].attempt, phase |-> "started"]
<1>1. j \in Job /\ UNCHANGED <<job, native>> /\ exec' = exec \cup {e}
  BY AttemptTypes DEF Launch
<1>2. PICK k \in Job : k = j
  BY <1>1
<1>3. /\ agent[a].pc = "launch" /\ agent'[a].pc = "waiting" /\ SameJob(a)
      /\ \A b \in Agents \ {a} : agent'[b] = agent[b]
  BY LaunchEffect
<1>4. JobInv(k) /\ \A b \in Agents : AgentInv(b)
  BY DEF DeliveryInv
<1>5. /\ agent[a].attempt = job[k].attempt /\ job[k].status \in Blocking /\ Untouched(k)
      /\ Working(a) /\ Out(k) = {}
      /\ \A b \in Agents \ {a} : agent[b].job = k => ~Working(b)
  BY <1>2, <1>3, <1>4 DEF AgentInv, Launching, Working, Mine
<1>6. Out(k)' = {e} /\ \A i \in Job \ {k} : Out(i)' = Out(i)
  BY <1>1, <1>2, <1>5 DEF Out
<1>7. JobInv(k)'
  BY <1>1, <1>2, <1>5, <1>6 DEF JobInv, Untouched, Blocking, Active
<1>8. Apart'
  BY <1>1, ApartShrinks DEF DeliveryInv
<1>9. \A i \in Job : Still(i)
  BY <1>1 DEF Still
<1>10. ASSUME NEW b \in Agents, agent'[b].pc # "idle", agent'[b].job # k PROVE MovesOn(b)
  BY <1>2, <1>3, <1>10 DEF MovesOn, SameJob
<1>11. ASSUME NEW b \in Agents, agent'[b].pc # "idle", agent'[b].job = k PROVE AgentInv(b)'
  <2>1. CASE b = a
    BY SMTT(60), <1>1, <1>2, <1>3, <1>4, <1>5, <1>6, <2>1 DEF AgentInv, Working, Mine, SameJob, Launching, Blocking, Active
  <2>2. CASE b # a
    BY <1>1, <1>2, <1>3, <1>4, <1>5, <1>6, <1>11, <2>2 DEF AgentInv, Working, Mine, SameJob
  <2> QED BY SMTT(60), <2>1, <2>2
<1> QED BY <1>1, <1>6, <1>7, <1>8, <1>9, <1>10, <1>11, DeliveryAt

(* A critical section in which the job stays out, or is refused.           *)
LEMMA DeliveryFenced ==
  ASSUME TypeOK, DeliveryInv, NEW a \in Agents, NEW r \in JobFile,
         NEW to \in AgentPcs, NEW orelse \in AgentPcs,
         Fenced(a, r, to, orelse), agent[a].pc \notin {"idle", "waiting"},
         to \in Launching => agent[a].pc \in Launching, orelse \notin Launching,
         ~Owned(a) \/ (r.attempt = Mine(a).attempt /\ r.status \in Blocking)
  PROVE  DeliveryInv'
<1>1. UNCHANGED <<native, exec>>
  BY DEF Fenced
<1>2. \A pc \in AgentPcs : Go(a, pc) =>
        /\ agent'[a].pc = pc /\ (pc # "idle" => SameJob(a))
        /\ \A b \in Agents \ {a} : agent'[b] = agent[b]
  BY GoEffect
<1>3. CASE /\ Owned(a) /\ Go(a, to)
           /\ job'[agent[a].job] = r /\ \A i \in Job \ {agent[a].job} : job'[i] = job[i]
  <2>1. \A i \in Job : Still(i)
    BY <1>3 DEF Still, Owned, Blocking, Mine
  <2>2. \A b \in Agents : MovesOn(b)
    BY <1>2, <1>3 DEF MovesOn, SameJob
  <2> QED BY <1>1, <2>1, <2>2, DeliveryMoves
<1>4. CASE Go(a, orelse) /\ \A i \in Job : Kept(i)
  <2>1. \A i \in Job : Still(i)
    BY <1>4 DEF Still, Kept, Blocking
  <2>2. \A b \in Agents : MovesOn(b)
    BY <1>2, <1>4 DEF MovesOn, SameJob
  <2> QED BY <1>1, <2>1, <2>2, DeliveryMoves
<1> QED BY <1>3, <1>4, FencedEffect

(* A critical section that settles the job: its agent turns idle.          *)
LEMMA DeliverySettles ==
  ASSUME TypeOK, DeliveryInv, NEW a \in Agents, NEW r \in JobFile, NEW orelse \in AgentPcs,
         Fenced(a, r, "idle", orelse), Owned(a), Working(a),
         agent[a].pc \notin {"idle", "waiting"},
         r.attempt = Mine(a).attempt, r.status \in {"queued", "completed"},
         r.status = "queued" => Untouched(agent[a].job),
         r.status = "completed" =>
           native[agent[a].job].status \in Terminal \/ Retried(agent[a].job)
  PROVE  DeliveryInv'
<1>1. PICK j \in Job : agent[a].job = j
  BY AttemptTypes
<1>2. /\ job'[j] = r /\ \A i \in Job \ {j} : job'[i] = job[i]
      /\ agent'[a].pc = "idle" /\ \A b \in Agents \ {a} : agent'[b] = agent[b]
      /\ UNCHANGED <<native, exec>>
  <2>1. job'[j] = r /\ \A i \in Job \ {j} : job'[i] = job[i]
    BY <1>1 DEF Fenced, TypeOK
  <2>2. Go(a, "idle") /\ "idle" \in AgentPcs
    BY DEF Fenced, AgentPcs
  <2> QED BY <2>1, <2>2, GoEffect DEF Fenced
<1>3. JobInv(j) /\ \A b \in Agents : AgentInv(b)
  BY DEF DeliveryInv
<1>4. \A i \in Job : Out(i)' = Out(i)
  BY <1>2 DEF Out
<1>5. /\ Out(j) = {} /\ r.attempt = job[j].attempt /\ job[j].status # "absent"
      /\ \A b \in Agents \ {a} : agent[b].job = j => ~Working(b)
  BY <1>1, <1>3 DEF AgentInv, Mine
<1>6. JobInv(j)'
  BY <1>1, <1>2, <1>3, <1>4, <1>5 DEF JobInv, Untouched, Retried
<1>7. Apart'
  BY <1>2, ApartShrinks DEF DeliveryInv, Blocking, Active
<1>8. \A i \in Job \ {j} : Still(i)
  BY <1>2 DEF Still
<1>9. ASSUME NEW b \in Agents, agent'[b].pc # "idle", agent'[b].job # j PROVE MovesOn(b)
  BY <1>2, <1>9 DEF MovesOn, SameJob
<1>10. ASSUME NEW b \in Agents, agent'[b].pc # "idle", agent'[b].job = j PROVE AgentInv(b)'
  <2>1. agent'[b] = agent[b] /\ ~Working(b) /\ job'[j].attempt = job[j].attempt
    BY <1>2, <1>5, <1>10
  <2>2. ~Working(b)' /\ agent[b].pc \notin Launching /\ agent[b].attempt <= job[j].attempt
    BY <1>3, <1>10, <2>1 DEF AgentInv, Working, Mine
  <2> QED BY <1>2, <1>10, <2>1, <2>2 DEF AgentInv
<1> QED BY <1>2, <1>4, <1>6, <1>7, <1>8, <1>9, <1>10, DeliveryAt

LEMMA DeliveryFencedStep ==
  ASSUME TypeOK, RecordInv, DeliveryInv, NEW a \in Agents,
         \/ ExtendLease(a) \/ DeferCheck(a) \/ DeferWrite(a) \/ Block(a)
         \/ CompleteCheck(a) \/ CompleteWrite(a)
  PROVE  DeliveryInv'
<1>1. agent[a].orelse \in AgentPcs \ Launching
  BY DEF TypeOK, RunOnce, AgentPcs, Launching
<1>2. /\ {"launch", "idle", "defer_read", "complete_read"} \subseteq AgentPcs
      /\ {"ready", "launch", "defer_write"} \subseteq Launching
      /\ {"idle", "defer_read", "complete_read"} \cap Launching = {}
  BY DEF AgentPcs, Launching
<1>3. Owned(a) => Mine(a).status \in Blocking
  BY DEF Owned, Mine, Blocking
<1>4. {"running", "reconciliation_required"} \subseteq Blocking
  BY DEF Blocking, Active
<1>5. AgentInv(a) /\ agent[a].job \in Job /\ JobInv(agent[a].job)
  BY AttemptTypes DEF DeliveryInv
<1>6. CASE ExtendLease(a)
  <2>1. agent[a].pc = "ready" /\ Fenced(a, Renewed(a), "launch", "idle")
    BY <1>6 DEF ExtendLease
  <2> QED BY <1>2, <1>4, <2>1, RecordTypes, RecordEffect, DeliveryFenced
<1>7. CASE DeferCheck(a)
  <2>1. agent[a].pc = "defer" /\ Fenced(a, Mine(a), "defer_read", agent[a].orelse)
    BY <1>7 DEF DeferCheck
  <2> QED BY <1>1, <1>2, <1>3, <2>1, RecordTypes, DeliveryFenced
<1>8. CASE DeferWrite(a)
  <2>1. agent[a].pc = "defer_write" /\ Fenced(a, Unclaimed(a), "idle", agent[a].orelse)
    BY <1>8 DEF DeferWrite, Unclaimed
  <2>2. CASE Owned(a)
    <3>1. Working(a) /\ Untouched(agent[a].job)
      BY <1>2, <1>5, <2>1 DEF AgentInv
    <3>2. /\ Unclaimed(a) \in JobFile /\ Unclaimed(a).attempt = Mine(a).attempt
          /\ Unclaimed(a).status = "queued"
      BY RecordTypes, RecordEffect
    <3> QED BY <1>1, <2>1, <2>2, <3>1, <3>2, DeliverySettles
  <2>3. CASE ~Owned(a)
    BY <1>1, <1>2, <2>1, <2>3, RecordTypes, DeliveryFenced
  <2> QED BY <2>2, <2>3
<1>9. CASE Block(a)
  <2>1. agent[a].pc = "block"
        /\ Fenced(a, Released(a, "reconciliation_required"), "idle", "idle")
    BY <1>9 DEF Block
  <2> QED BY <1>2, <1>4, <2>1, RecordTypes, RecordEffect, DeliveryFenced
<1>10. CASE CompleteCheck(a)
  <2>1. agent[a].pc = "complete" /\ Fenced(a, Mine(a), "complete_read", "idle")
    BY <1>10 DEF CompleteCheck
  <2> QED BY <1>2, <1>3, <2>1, RecordTypes, DeliveryFenced
<1>11. CASE CompleteWrite(a)
  <2>1. agent[a].pc = "complete_write" /\ Fenced(a, Completed(a), "idle", "idle")
    BY <1>11 DEF CompleteWrite, Completed
  <2>2. CASE Owned(a)
    <3>1. Mine(a).attempt = agent[a].attempt
      BY <2>1, <2>2 DEF RecordInv, Owned, Holds, Mine
    <3>2. Sealed(agent[a].job, agent[a].attempt, agent[a].result) /\ Working(a)
      BY <2>1, <3>1 DEF RecordInv, Working
    <3>3. native[agent[a].job].status \in Terminal \/ Retried(agent[a].job)
      BY <1>5, <3>1, <3>2, AttemptTypes DEF Sealed, Tells, JobInv, Mine
    <3>4. /\ Completed(a) \in JobFile /\ Completed(a).attempt = Mine(a).attempt
          /\ Completed(a).status = "completed"
      BY RecordTypes, RecordEffect
    <3> QED BY <1>2, <2>1, <2>2, <3>2, <3>3, <3>4, DeliverySettles
  <2>3. CASE ~Owned(a)
    BY <1>2, <2>1, <2>3, RecordTypes, DeliveryFenced
  <2> QED BY <2>2, <2>3
<1> QED BY <1>6, <1>7, <1>8, <1>9, <1>10, <1>11

LEMMA DeliveryPoll ==
  ASSUME TypeOK, DeliveryInv, NEW a \in Agents, Poll(a)
  PROVE  DeliveryInv'
<1>0. agent[a].pc = "idle" /\ UNCHANGED <<native, exec>>
  BY PollEffect
<1>1. CASE job' = Expire(Job) /\ UNCHANGED <<due, agent>>
  <2>1. \A i \in Job : Still(i)
    BY <1>1, ExpireEffect DEF Still, Blocking
  <2>2. \A b \in Agents : MovesOn(b)
    BY <1>1 DEF MovesOn, SameJob
  <2> QED BY <1>0, <2>1, <2>2, DeliveryMoves
<1>2. ASSUME NEW j \in Job, PollTakes(a, j)
      PROVE  DeliveryInv'
  <2>1. /\ job[j].status = "queued" /\ job'[j].status = "claimed"
        /\ job'[j].attempt = job[j].attempt
        /\ agent'[a].pc = "claimed" /\ agent'[a].job = j /\ agent'[a].attempt = job[j].attempt
        /\ \A b \in Agents \ {a} : agent'[b] = agent[b]
        /\ \A i \in Job \ {j} : job'[i] = Expire(Job)[i]
    BY <1>2, TakeEffect
  <2>2. \A i \in Job \ {j} : Still(i)
    BY <2>1, ExpireEffect DEF Still, Blocking
  <2>3. \A i \in Job : Out(i)' = Out(i)
    BY <1>0 DEF Out
  <2>4. JobInv(j) /\ \A b \in Agents : AgentInv(b)
    BY DEF DeliveryInv
  <2>5. Untouched(j) /\ Out(j) = {}
    BY <2>1, <2>4 DEF JobInv
  <2>6. JobInv(j)'
    BY <1>0, <2>1, <2>3, <2>5 DEF JobInv, Untouched
  <2>7. Apart'
    <3>1. \A i \in Job \ {j} : job'[i].status \in Blocking =>
            NodeOf[i] # NodeOf[j] /\ ~SamePlan(i, j)
      BY <1>2, <2>1 DEF PollTakes, Claimable, NodeBusy, PlanBusy
    <3>2. \A i \in Job \ {j} : job'[i].status \in Blocking => job[i].status \in Blocking
      BY <2>2 DEF Still
    <3> QED BY <3>1, <3>2 DEF DeliveryInv, Apart, SamePlan
  <2>8. ASSUME NEW b \in Agents, agent'[b].pc # "idle", agent'[b].job # j PROVE MovesOn(b)
    BY <2>1, <2>8 DEF MovesOn, SameJob
  <2>9. \A b \in Agents : agent[b].pc # "idle" /\ agent[b].job = j =>
          ~Working(b) /\ agent[b].pc \notin Launching /\ agent[b].attempt <= job[j].attempt
    BY <2>1, <2>4 DEF AgentInv
  <2>10. \A b \in Agents \ {a} : agent[b].job = j => ~Working(b)'
    BY <2>1, <2>9 DEF Working, Mine
  <2>11. ASSUME NEW b \in Agents, agent'[b].pc # "idle", agent'[b].job = j PROVE AgentInv(b)'
    <3>1. CASE b = a
      <4>1. job[j].attempt \in Nat
        BY AttemptTypes
      <4> QED BY <1>0, <2>1, <2>3, <2>5, <2>10, <3>1, <4>1
              DEF AgentInv, Working, Mine, Untouched, Blocking, Active
    <3>2. CASE b # a
      BY <2>1, <2>9, <2>10, <2>11, <3>2 DEF AgentInv
    <3> QED BY <3>1, <3>2
  <2> QED BY <1>0, <2>2, <2>3, <2>6, <2>7, <2>8, <2>11, DeliveryAt
<1> QED BY <1>1, <1>2, PollEffect

(* An attempt is settled by its verified outcome, or replaced by the next, *)
(* when nothing is at work for it.                                         *)
LEMMA DeliveryRewrites ==
  ASSUME TypeOK, DeliveryInv, NEW j \in Job, UNCHANGED <<native, exec, agent>>,
         \A i \in Job \ {j} : job'[i] = job[i], job'[j].status \in {"queued", "completed"},
         JobInv(j)',
         \A b \in Agents : agent[b].pc # "idle" /\ agent[b].job = j =>
           /\ agent[b].pc \notin Launching /\ agent[b].attempt <= job'[j].attempt
           /\ agent[b].attempt = job'[j].attempt =>
                Working(b) /\ job'[j].attempt = job[j].attempt /\ job'[j].status = "completed"
  PROVE  DeliveryInv'
<1>1. \A i \in Job : Out(i)' = Out(i)
  BY DEF Out
<1>2. \A i \in Job \ {j} : Still(i)
  BY DEF Still
<1>3. Apart'
  BY ApartShrinks DEF DeliveryInv, Blocking, Active
<1>4. \A b \in Agents : MovesOn(b)
  BY DEF MovesOn, SameJob
<1>5. ASSUME NEW b \in Agents, agent'[b].pc # "idle", agent'[b].job = j PROVE AgentInv(b)'
  <2>1. AgentInv(b)
    BY DEF DeliveryInv
  <2>2. CASE agent[b].attempt # job'[j].attempt
    BY <1>5, <2>2 DEF AgentInv, Working, Mine
  <2>3. CASE agent[b].attempt = job'[j].attempt
    BY SMTT(60), <1>1, <1>5, <2>1, <2>3 DEF AgentInv, Working, Mine
  <2> QED BY <2>2, <2>3
<1> QED BY <1>1, <1>2, <1>3, <1>4, <1>5, DeliveryAt

LEMMA DeliveryReconcile ==
  ASSUME TypeOK, RecordInv, DeliveryInv, NEW o \in Operators, Reconcile(o)
  PROVE  DeliveryInv'
<1>0. UNCHANGED <<native, exec, agent>>
  BY ZenonT(60), ReconcileEffect
<1>1. CASE \A i \in Job : Kept(i)
  <2>1. \A i \in Job : Still(i)
    BY <1>1 DEF Still, Kept, Blocking
  <2>2. \A b \in Agents : MovesOn(b)
    BY <1>0 DEF MovesOn, SameJob
  <2> QED BY <1>0, <2>1, <2>2, DeliveryMoves
<1>2. CASE /\ op[o].pc = "write" /\ SameClaim(o)
           /\ \A i \in Job \ {op[o].job} : job'[i] = job[i]
           /\ job'[op[o].job] = [job[op[o].job] EXCEPT !.status = "completed",
                                                       !.result = op[o].result]
  <2>1. PICK j \in Job : op[o].job = j
    BY DEF TypeOK, Call
  <2>2. job[j] \in JobFile
    BY DEF TypeOK
  <2>3. job'[j] = [job[j] EXCEPT !.status = "completed", !.result = op[o].result]
    BY <1>2, <2>1
  <2>4. job'[j].status = "completed" /\ job'[j].attempt = job[j].attempt
    BY <2>2, <2>3 DEF JobFile
  <2>5. job[j].status = "reconciliation_required" /\ job[j].attempt = op[o].attempt
    BY <1>2, <2>1 DEF SameClaim
  <2>6. Sealed(j, job[j].attempt, op[o].result)
    BY <1>2, <2>1, <2>5 DEF RecordInv
  <2>7. JobInv(j) /\ \A b \in Agents : AgentInv(b)
    BY DEF DeliveryInv
  <2>8. native[j].status \in Terminal \/ Retried(j)
    BY <2>6, <2>7, AttemptTypes DEF Sealed, Tells, JobInv
  <2>9. Out(j) = {}
    BY <2>7, <2>8, AttemptTypes DEF JobInv, Retried, Terminal
  <2>10. Out(j)' = {}
    BY <1>0, <2>9 DEF Out
  <2>11. JobInv(j)'
    BY <1>0, <2>4, <2>7, <2>8, <2>10 DEF JobInv, Retried
  <2>12. ~Untouched(j)
    BY <2>8, AttemptTypes DEF Untouched, Retried, Terminal
  <2>13. \A b \in Agents : agent[b].pc # "idle" /\ agent[b].job = j =>
           agent[b].pc \notin Launching /\ agent[b].attempt <= job'[j].attempt
    BY <2>4, <2>7, <2>12 DEF AgentInv
  <2>14. \A b \in Agents : agent[b].pc # "idle" /\ agent[b].job = j
                           /\ agent[b].attempt = job'[j].attempt => Working(b)
    BY <2>4 DEF Working, Mine
  <2> QED BY <1>0, <1>2, <2>1, <2>4, <2>11, <2>13, <2>14, DeliveryRewrites
<1> QED BY ZenonT(60), <1>1, <1>2, ReconcileEffect

LEMMA DeliveryPublish ==
  ASSUME TypeOK, DeliveryInv, NEW j \in Job, NEW n \in Attempts,
         Publish(j, n) \/ PublishCrashes(j, n)
  PROVE  DeliveryInv'
<1>0. UNCHANGED <<native, exec, agent>>
  BY PublishEffect
<1>1. CASE UNCHANGED job
  <2>1. \A i \in Job : Still(i)
    BY <1>1 DEF Still
  <2>2. \A b \in Agents : MovesOn(b)
    BY <1>0 DEF MovesOn, SameJob
  <2> QED BY <1>0, <2>1, <2>2, DeliveryMoves
<1>2. CASE /\ Publish(j, n) /\ \A i \in Job \ {j} : job'[i] = job[i]
           /\ job'[j].status = "queued" /\ job'[j].attempt = n /\ job'[j].owner = "none"
  <2>1. JobInv(j) /\ \A b \in Agents : AgentInv(b)
    BY DEF DeliveryInv
  <2>2. n \in Nat
    BY QueueAssumption DEF Attempts
  <2>3. /\ n = native[j].retry /\ native[j].status = "pending" /\ Out(j) = {}
        /\ job[j].status # "absent" => n = job[j].attempt + 1 /\ job[j].status = "completed"
    <3>1. CASE job[j].status = "absent"
      BY <1>2, <2>1, <2>2, <3>1, AttemptTypes DEF Publish, JobInv, Untouched
    <3>2. CASE MayReplace(j, n)
      <4>1. job[j].status = "completed" /\ n = job[j].attempt + 1 /\ n <= native[j].retry
        BY <1>2, <3>2 DEF Publish, MayReplace
      <4> QED BY <2>1, <4>1, AttemptTypes DEF JobInv, Retried
    <3> QED BY <1>2, <3>1, <3>2 DEF Publish
  <2>4. Out(j)' = {}
    BY <1>0, <2>3 DEF Out
  <2>5. JobInv(j)'
    BY <1>0, <1>2, <2>3, <2>4 DEF JobInv, Untouched
  <2>6. ASSUME NEW b \in Agents, agent[b].pc # "idle", agent[b].job = j
        PROVE  agent[b].pc \notin Launching /\ agent[b].attempt < job'[j].attempt
    BY <1>2, <2>1, <2>3, <2>6, AttemptTypes DEF AgentInv, Blocking, Active
  <2>7. ASSUME NEW b \in Agents, agent[b].pc # "idle", agent[b].job = j
        PROVE  agent[b].attempt <= job'[j].attempt /\ agent[b].attempt # job'[j].attempt
    BY <1>2, <2>2, <2>6, <2>7, AttemptTypes
  <2> QED BY <1>0, <1>2, <2>5, <2>6, <2>7, DeliveryRewrites
<1> QED BY <1>1, <1>2, PublishEffect

LEMMA DeliveryInit == Init => DeliveryInv
BY DEF Init, DeliveryInv, Apart, JobInv, AgentInv, Unpublished, IdleAgent, Untouched, Out,
       Blocking, Active

LEMMA DeliveryStep ==
  ASSUME ByHand = {}
  PROVE  TypeOK /\ RecordInv /\ DeliveryInv /\ [Next]_vars => DeliveryInv'
<1>1. ASSUME TypeOK, DeliveryInv, UNCHANGED <<job, native, exec, agent>> PROVE DeliveryInv'
  <2>1. \A i \in Job : Still(i)
    BY <1>1 DEF Still
  <2>2. \A b \in Agents : MovesOn(b)
    BY <1>1 DEF MovesOn, SameJob
  <2> QED BY <1>1, <2>1, <2>2, DeliveryMoves
<1> SUFFICES ASSUME TypeOK, RecordInv, DeliveryInv, Next PROVE DeliveryInv'
  BY <1>1 DEF vars
<1>2. ASSUME NEW a \in Agents, Ponders(a) \/ RenewFails(a) PROVE DeliveryInv'
  <2>1. UNCHANGED <<native, exec>> /\ \A i \in Job : Still(i)
    BY SMTT(60), <1>2, PonderTypes, RenewEffect DEF RenewFails, Still, Kept, Blocking
  <2>2. \A b \in Agents : MovesOn(b)
    <3>1. CASE Ponders(a)
      BY <3>1, PonderEffect DEF MovesOn, SameJob
    <3>2. CASE RenewFails(a)
      BY <3>2, RenewEffect DEF MovesOn, SameJob, Launching
    <3> QED BY <1>2, <3>1, <3>2
  <2> QED BY <2>1, <2>2, DeliveryMoves
<1>3. CASE \E a \in Agents : AgentStep(a) \/ RenewFails(a) \/ Die(a)
  BY <1>2, <1>3, DeliveryPoll, DeliveryFencedStep, DeliveryLaunch DEF AgentStep, Ponders
<1>4. CASE \E o \in Operators : Reconcile(o)
  BY <1>4, DeliveryReconcile
<1>5. CASE \E j \in Job : LeaseRunsOut(j)
  BY <1>1, <1>5 DEF LeaseRunsOut
<1>6. CASE \/ \E j \in Job : NativeExpires(j) \/ NativeRetry(j) \/ RunByHand(j)
           \/ \E b \in Launchers, j \in Job : ExecutorStep(b, j)
  BY <1>6, DeliveryNative
<1>7. CASE \E j \in Job, n \in Attempts : Publish(j, n) \/ PublishCrashes(j, n)
  BY <1>7, DeliveryPublish
<1> QED BY <1>3, <1>4, <1>5, <1>6, <1>7 DEF Next

LEMMA DeliveryImplies == TypeOK /\ DeliveryInv => DeliveredOnce
<1> SUFFICES ASSUME TypeOK, DeliveryInv PROVE OneAtATime /\ NeverRedelivered
  BY DEF DeliveredOnce
<1>1. ASSUME NEW e \in exec
      PROVE  /\ e.job \in Job /\ job[e.job].status \in Blocking /\ Out(e.job) = {e}
  <2>1. PICK j \in Job : j = e.job
    BY AttemptTypes
  <2>2. e \in Out(j) /\ JobInv(j)
    BY <2>1 DEF Out, DeliveryInv
  <2>3. job[j].status \notin {"absent", "queued", "completed"} /\ Out(j) = {e}
    BY <2>2 DEF JobInv
  <2> QED BY <2>1, <2>3 DEF TypeOK, JobFile
<1>2. OneAtATime
  <2> SUFFICES ASSUME NEW e \in exec, NEW f \in exec, e # f
               PROVE  NodeOf[e.job] # NodeOf[f.job] /\ ~SamePlan(e.job, f.job)
    BY DEF OneAtATime
  <2>1. e.job # f.job
    BY <1>1
  <2> QED BY <1>1, <2>1 DEF DeliveryInv, Apart
<1>3. NeverRedelivered
  BY <1>1 DEF NeverRedelivered
<1> QED BY <1>2, <1>3

(* While agents alone start executors, what is handed out is handed out    *)
(* once and to one at a time, on a node and in a plan, whatever agents and *)
(* executors die and whoever reconciles (claim, defer_pending, _expire).   *)
THEOREM HandedOutOnce ==
  ASSUME ByHand = {}
  PROVE  Spec => []DeliveredOnce
<1> DEFINE I == TypeOK /\ RecordInv /\ DeliveryInv
<1>1. Init => I
  BY TypeInit, RecordInit, DeliveryInit
<1>2. I /\ [Next]_vars => I'
  BY TypeStep, RecordStep, DeliveryStep
<1>3. I => DeliveredOnce
  BY DeliveryImplies
<1> QED BY <1>1, <1>2, <1>3, PTL DEF Spec

=============================================================================
