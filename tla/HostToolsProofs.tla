-------------------------- MODULE HostToolsProofs --------------------------
(***************************************************************************)
(* Proofs about the tools on the hosts, for any number of servers,         *)
(* threads, nodes, parts and versions, and any number of faults.           *)
(***************************************************************************)
EXTENDS HostToolsProperties, TLAPS

(* A thread that waits, waits for an installer of its own.                 *)
Waiting ==
  /\ \A t \in Threads : thread[t].pc = "wait" =>
       thread[t].job \in Jobs /\ job[thread[t].job].pc # "free" /\ job[thread[t].job].wanted
  /\ \A t, u \in Threads :
       thread[t].pc = "wait" /\ thread[u].pc = "wait" /\ thread[t].job = thread[u].job => t = u

(* While an installer is at it there is no stamp, and what it has passed   *)
(* is of its version.                                                      *)
Progress ==
  \A j \in Jobs : job[j].pc \in {"installing", "gap"} =>
    /\ stamp[On(j)] = 0
    /\ \A p \in 1..Len(Parts) : p < job[j].i => runtime[On(j)][p] = job[j].version
    /\ job[j].pc = "gap" => job[j].i < Len(Parts)

(* One that has not begun is at the first part.                            *)
AtFirst == \A j \in Jobs : job[j].pc \in {"waiting", "staged"} => job[j].i = 1

ToolsInv == ToolsTypeOK /\ Waiting /\ Progress /\ AtFirst /\ StampTellsRuntime

Job == [pc : Inside \cup {"free", "waiting", "done", "failed"}, node : Node,
        version : 0..Newest, i : 1..(Len(Parts) + 1), old : 0..Newest, wanted : BOOLEAN]
Thread == [pc : {"idle", "enter", "pull", "push", "wait", "ready"}, i : 1..Len(NodeList),
           want : [Node -> 0..Newest], job : Jobs \cup {None}]

LEMMA Constants ==
  /\ NodeList[1] \in Node /\ Len(Parts) \in Nat /\ Newest \in Nat /\ Len(NodeList) \in Nat
  /\ \A i \in 1..Len(NodeList) : NodeList[i] \in Node
  /\ NoJob \in Job /\ NoJob.pc = "free" /\ Away \in Thread /\ Away.pc = "idle"
BY ToolsAssumption DEF Node, NoJob, Job, Away, Thread, Inside

LEMMA ToolsInit == Init => ToolsInv
<1> SUFFICES ASSUME Init PROVE ToolsInv
  OBVIOUS
<1>1. ToolsTypeOK
  <2>1. /\ checkout \in [Controllers -> Version] /\ verified \in [Controllers -> [Node -> 0..Newest]]
        /\ runtime \in [Node -> [1..Len(Parts) -> 0..Newest]] /\ stamp \in [Node -> 0..Newest]
        /\ holder \in [Node -> Jobs \cup {None}] /\ faults \in 0..MaxFaults
        /\ clean \subseteq ((Threads \cup Controllers \cup Jobs) \X Node)
    BY ToolsAssumption DEF Init, Version
  <2>2. thread \in [Threads -> Thread] /\ job \in [Jobs -> Job]
    BY Constants DEF Init
  <2>3. \A n \in Node, j \in Jobs : holder[n] = j <=> job[j].pc \in Inside /\ On(j) = n
    BY Constants, ToolsAssumption DEF Init, Inside, On, NoJob
  <2> QED BY SMTT(60), <2>1, <2>2, <2>3 DEF ToolsTypeOK, Job, Thread
<1>2. Waiting /\ Progress /\ AtFirst /\ StampTellsRuntime
  BY Constants DEF Init, Waiting, Progress, AtFirst, StampTellsRuntime
<1> QED BY <1>1, <1>2 DEF ToolsInv

(* The part of the state that the threads and processes change.            *)
ThreadTypes ==
  /\ checkout \in [Controllers -> Version] /\ verified \in [Controllers -> [Node -> 0..Newest]]
  /\ thread \in [Threads -> Thread] /\ clean \subseteq ((Threads \cup Controllers \cup Jobs) \X Node)
  /\ faults \in 0..MaxFaults

(* The part that the installers change.                                    *)
NodeTypes ==
  /\ runtime \in [Node -> [1..Len(Parts) -> 0..Newest]] /\ stamp \in [Node -> 0..Newest]
  /\ job \in [Jobs -> Job] /\ holder \in [Node -> Jobs \cup {None}]
  /\ \A n \in Node, j \in Jobs : holder[n] = j <=> job[j].pc \in Inside /\ On(j) = n

LEMMA TypesSplit ==
  /\ ToolsTypeOK <=> ThreadTypes /\ NodeTypes
  /\ ToolsTypeOK' <=> ThreadTypes' /\ NodeTypes'
BY DEF ToolsTypeOK, ThreadTypes, NodeTypes, Job, Thread

(* Where a thread is, and in which process.                                *)
LEMMA Places ==
  ASSUME ToolsInv, NEW t \in Threads
  PROVE  /\ At(t) \in Node /\ Own(t) \in Controllers /\ thread[t] \in Thread
         /\ checkout[Own(t)] \in 0..Newest
<1>1. ThreadTypes
  BY TypesSplit DEF ToolsInv
<1>2. thread[t] \in Thread
  BY <1>1 DEF ThreadTypes
<1>3. At(t) \in Node
  BY <1>2, Constants DEF At, Thread
<1>4. Own(t) \in Controllers
  BY ToolsAssumption DEF Own
<1>5. checkout[Own(t)] \in 0..Newest
  BY <1>1, <1>4, Constants DEF ThreadTypes, Version
<1> QED BY <1>2, <1>3, <1>4, <1>5

LEMMA FaultTypes == ASSUME ToolsInv, Fault PROVE faults' \in 0..MaxFaults
BY ToolsAssumption DEF ToolsInv, ToolsTypeOK, Fault

LEMMA AdvanceTypes ==
  ASSUME ToolsInv, NEW t \in Threads, NEW rec \in Thread, Advance(t, rec)
  PROVE  /\ thread' \in [Threads -> Thread] /\ thread'[t].pc # "wait"
         /\ \A u \in Threads : u # t => thread'[u] = thread[u]
<1>1. \E new \in Thread : new.pc # "wait" /\ thread' = [thread EXCEPT ![t] = new]
  <2>1. CASE rec.i < Len(NodeList)
    <3> DEFINE new == [rec EXCEPT !.pc = "enter", !.i = @ + 1, !.job = None]
    <3>1. new \in Thread /\ new.pc # "wait"
      <4>1. rec.i + 1 \in 1..Len(NodeList)
        BY <2>1, Constants DEF Thread
      <4> QED BY <4>1 DEF Thread
    <3>2. thread' = [thread EXCEPT ![t] = new]
      BY <2>1 DEF Advance
    <3> QED BY <3>1, <3>2
  <2>2. CASE ~(rec.i < Len(NodeList))
    <3> DEFINE new == [rec EXCEPT !.pc = "ready", !.job = None]
    <3>1. new \in Thread /\ new.pc # "wait"
      BY DEF Thread
    <3>2. thread' = [thread EXCEPT ![t] = new]
      BY <2>2 DEF Advance
    <3> QED BY <3>1, <3>2
  <2> QED BY <2>1, <2>2
<1>2. thread \in [Threads -> Thread]
  BY TypesSplit DEF ToolsInv, ThreadTypes
<1> QED BY <1>1, <1>2

LEMMA RaisesTypes ==
  ASSUME ToolsInv, NEW t \in Threads, Raises(t)
  PROVE  /\ thread' \in [Threads -> Thread] /\ thread'[t].pc # "wait"
         /\ \A u \in Threads : u # t => thread'[u] = thread[u]
BY Constants, TypesSplit DEF ToolsInv, ThreadTypes, Raises

LEMMA KnowsTypes ==
  ASSUME ToolsInv, NEW from, NEW n \in Node,
         NEW who \in SUBSET (Threads \cup Controllers \cup Jobs), Knows(from, who, n) \/ Sees(who, n)
  PROVE  clean' \subseteq ((Threads \cup Controllers \cup Jobs) \X Node)
<1>1. /\ clean \subseteq ((Threads \cup Controllers \cup Jobs) \X Node)
      /\ (who \X {n}) \subseteq ((Threads \cup Controllers \cup Jobs) \X Node)
  BY TypesSplit DEF ToolsInv, ThreadTypes
<1>2. clean' = clean \cup (who \X {n}) \/ clean' = clean \ (who \X {n})
  BY DEF Knows, Sees
<1> QED BY <1>1, <1>2

(* A step that leaves the node and the installers alone.                   *)
LEMMA AwayFromNodes ==
  ASSUME ToolsInv, ThreadTypes', UNCHANGED <<runtime, stamp, holder, job>>,
         \A t \in Threads : thread'[t].pc = "wait" => thread'[t] = thread[t]
  PROVE  ToolsInv'
<1>1. ToolsTypeOK'
  BY TypesSplit DEF ToolsInv, NodeTypes, On
<1>2. Waiting'
  BY DEF ToolsInv, Waiting
<1>3. Progress' /\ AtFirst' /\ StampTellsRuntime'
  BY DEF ToolsInv, Progress, AtFirst, StampTellsRuntime, On, Whole
<1> QED BY <1>1, <1>2, <1>3 DEF ToolsInv

LEMMA ThreadSteps ==
  ASSUME ToolsInv, NEW t \in Threads,
         Begin(t) \/ Enter(t) \/ PullMatches(t) \/ PullDiffers(t) \/ PushFails(t) \/ Use(t)
  PROVE  ToolsInv'
<1>1. ThreadTypes
  BY TypesSplit DEF ToolsInv
<1>2. CASE Begin(t)
  BY <1>1, <1>2, Constants, AwayFromNodes DEF Begin, ThreadTypes, Thread
<1>3. CASE Enter(t)
  <2> DEFINE rec == [thread[t] EXCEPT !.want[At(t)] = checkout[Own(t)]]
  <2>1. rec \in Thread
    BY Places DEF Thread
  <2>2. UNCHANGED <<checkout, verified, runtime, stamp, holder, job, faults>>
    BY <1>3 DEF Enter
  <2>3. CASE Advance(t, rec) /\ Knows(Own(t), {t}, At(t))
    <3>1. thread' \in [Threads -> Thread] /\ \A u \in Threads : thread'[u].pc = "wait" => thread'[u] = thread[u]
      BY <2>1, <2>3, AdvanceTypes
    <3>2. clean' \subseteq ((Threads \cup Controllers \cup Jobs) \X Node)
      BY <2>3, Places, KnowsTypes
    <3> QED BY <1>1, <2>2, <3>1, <3>2, AwayFromNodes DEF ThreadTypes
  <2>4. CASE thread' = [thread EXCEPT ![t] = [rec EXCEPT !.pc = "pull"]] /\ UNCHANGED clean
    <3>1. [rec EXCEPT !.pc = "pull"] \in Thread /\ [rec EXCEPT !.pc = "pull"].pc = "pull"
      BY <2>1 DEF Thread
    <3> QED BY <1>1, <2>2, <2>4, <3>1, AwayFromNodes DEF ThreadTypes
  <2> QED BY <1>3, <2>3, <2>4 DEF Enter
<1>4. CASE PullMatches(t)
  <2>1. verified' \in [Controllers -> [Node -> 0..Newest]]
    BY SMTT(60), <1>1, <1>4, Places, TypesSplit DEF PullMatches, ThreadTypes, NodeTypes, ToolsInv
  <2>2. clean' \subseteq ((Threads \cup Controllers \cup Jobs) \X Node)
    BY <1>4, Places, KnowsTypes DEF PullMatches
  <2>3. thread' \in [Threads -> Thread] /\ \A u \in Threads : thread'[u].pc = "wait" => thread'[u] = thread[u]
    BY <1>4, Places, AdvanceTypes DEF PullMatches
  <2> QED BY <1>1, <1>4, <2>1, <2>2, <2>3, AwayFromNodes DEF PullMatches, ThreadTypes
<1>5. CASE PullDiffers(t)
  <2>1. faults' \in 0..MaxFaults
    BY <1>1, <1>5, FaultTypes DEF PullDiffers, ThreadTypes
  <2>2. thread' \in [Threads -> Thread] /\ \A u \in Threads : thread'[u].pc = "wait" => thread'[u] = thread[u]
    BY ZenonT(60), <1>1, <1>5 DEF PullDiffers, ThreadTypes, Thread
  <2> QED BY <1>1, <1>5, <2>1, <2>2, AwayFromNodes DEF PullDiffers, ThreadTypes
<1>6. CASE PushFails(t) \/ Use(t)
  <2>1. faults' \in 0..MaxFaults
    BY <1>1, <1>6, FaultTypes DEF PushFails, Use, ThreadTypes
  <2>2. thread' \in [Threads -> Thread] /\ \A u \in Threads : thread'[u].pc = "wait" => thread'[u] = thread[u]
    BY <1>6, RaisesTypes DEF PushFails, Use
  <2> QED BY <1>1, <1>6, <2>1, <2>2, AwayFromNodes DEF PushFails, Use, ThreadTypes
<1> QED BY <1>2, <1>3, <1>4, <1>5, <1>6

LEMMA ProcessSteps ==
  ASSUME ToolsInv, NEW c \in Controllers, Upgrade(c) \/ \E n \in Node : Expire(c, n)
  PROVE  ToolsInv'
<1>1. ThreadTypes
  BY TypesSplit DEF ToolsInv
<1>2. CASE Upgrade(c)
  BY <1>1, <1>2, Constants, AwayFromNodes DEF Upgrade, ThreadTypes, Version
<1>3. ASSUME NEW n \in Node, Expire(c, n) PROVE ToolsInv'
  BY <1>1, <1>3, Constants, AwayFromNodes DEF Expire, ThreadTypes
<1> QED BY <1>2, <1>3

(* A job taken up or let go by a thread; no installer was inside it.       *)
LEMMA PushStep ==
  ASSUME ToolsInv, NEW t \in Threads, Push(t)
  PROVE  ToolsInv'
<1>1. PICK j \in Jobs : /\ job[j].pc = "free"
                        /\ job' = [job EXCEPT ![j] =
                             [NoJob EXCEPT !.pc = "waiting", !.node = At(t), !.wanted = TRUE,
                                           !.version = thread[t].want[At(t)]]]
                        /\ thread' = [thread EXCEPT ![t].pc = "wait", ![t].job = j]
  BY DEF Push
<1>2. thread[t] \in Thread /\ thread[t].pc = "push"
  BY Places DEF Push
<1> DEFINE new == [NoJob EXCEPT !.pc = "waiting", !.node = At(t), !.wanted = TRUE,
                                !.version = thread[t].want[At(t)]]
           moved == [thread[t] EXCEPT !.pc = "wait", !.job = j]
<1>3. new \in Job /\ new.pc = "waiting" /\ new.wanted /\ new.i = 1
  BY <1>2, Places, Constants DEF Job, NoJob, Thread
<1>4. moved \in Thread /\ moved.pc = "wait" /\ moved.job = j
  BY <1>2 DEF Thread
<1>5. /\ job' = [job EXCEPT ![j] = new] /\ thread' = [thread EXCEPT ![t] = moved]
      /\ UNCHANGED <<checkout, verified, runtime, stamp, holder, faults, clean>>
  BY ZenonT(60), <1>1, <1>2, TypesSplit DEF Push, ToolsInv, ThreadTypes, Thread
<1>6. ThreadTypes /\ NodeTypes
  BY TypesSplit DEF ToolsInv
<1> HIDE DEF new, moved
<1>7. ThreadTypes' /\ NodeTypes'
  <2>1. ThreadTypes'
    BY <1>4, <1>5, <1>6 DEF ThreadTypes
  <2>2. job' \in [Jobs -> Job]
    BY <1>3, <1>5, <1>6 DEF NodeTypes
  <2>3. \A n \in Node : holder[n] # j
    BY <1>1, <1>6 DEF NodeTypes, Inside
  <2>4. \A n \in Node, k \in Jobs : holder'[n] = k <=> job'[k].pc \in Inside /\ On(k)' = n
    BY <1>1, <1>3, <1>5, <1>6, <2>3 DEF NodeTypes, On, Inside
  <2> QED BY <1>5, <1>6, <2>1, <2>2, <2>4 DEF NodeTypes
<1>8. Waiting'
  BY <1>1, <1>3, <1>4, <1>5, <1>6 DEF ToolsInv, Waiting, ThreadTypes, NodeTypes
<1>9. Progress' /\ AtFirst' /\ StampTellsRuntime'
  <2>1. \A k \in Jobs : job'[k] = IF k = j THEN new ELSE job[k]
    BY <1>5, <1>6 DEF NodeTypes
  <2>2. Progress'
    BY <1>3, <1>5, <2>1 DEF ToolsInv, Progress, On
  <2>3. AtFirst'
    BY <1>3, <2>1 DEF ToolsInv, AtFirst
  <2>4. StampTellsRuntime'
    BY <1>5 DEF ToolsInv, StampTellsRuntime, Whole
  <2> QED BY <2>2, <2>3, <2>4
<1> QED BY <1>7, <1>8, <1>9, TypesSplit DEF ToolsInv

(* Jobs are let go only by the thread that waits for them.                 *)
LEMMA LetGo ==
  ASSUME ToolsInv, ThreadTypes', UNCHANGED <<runtime, stamp, holder>>, job' \in [Jobs -> Job],
         \A j \in Jobs : \/ job'[j] = job[j]
                         \/ job'[j] = NoJob /\ job[j].pc \notin Inside
                         \/ job'[j] = [job[j] EXCEPT !.wanted = FALSE],
         \A t \in Threads : thread'[t].pc = "wait" =>
           thread'[t] = thread[t] /\ job'[thread[t].job] = job[thread[t].job]
  PROVE  ToolsInv'
<1>1. ThreadTypes /\ NodeTypes
  BY TypesSplit DEF ToolsInv
<1>2. ASSUME NEW j \in Jobs
      PROVE  /\ job'[j].pc \in Inside <=> job[j].pc \in Inside
             /\ job'[j].pc \in {"waiting", "staged"} => job'[j].pc = job[j].pc /\ job'[j].i = job[j].i
             /\ job'[j].pc \in Inside => /\ On(j)' = On(j) /\ job'[j].pc = job[j].pc
                                        /\ job'[j].i = job[j].i /\ job'[j].version = job[j].version
  <2>1. job[j] \in Job
    BY <1>1 DEF NodeTypes
  <2>2. CASE job'[j] = job[j]
    BY <2>2 DEF On
  <2>3. CASE job'[j] = NoJob /\ job[j].pc \notin Inside
    BY <2>3, Constants DEF Inside
  <2>4. CASE job'[j] = [job[j] EXCEPT !.wanted = FALSE]
    BY <2>1, <2>4 DEF Job, On
  <2> QED BY <2>2, <2>3, <2>4
<1>3. NodeTypes'
  BY <1>1, <1>2 DEF NodeTypes
<1>4. Waiting'
  BY DEF ToolsInv, Waiting
<1>5. Progress' /\ AtFirst'
  BY <1>2 DEF ToolsInv, Progress, AtFirst, Inside
<1>6. StampTellsRuntime'
  BY DEF ToolsInv, StampTellsRuntime, Whole
<1> QED BY <1>3, <1>4, <1>5, <1>6, TypesSplit DEF ToolsInv

LEMMA ReturnStep ==
  ASSUME ToolsInv, NEW t \in Threads, Return(t)
  PROVE  ToolsInv'
<1>1. ThreadTypes /\ NodeTypes
  BY TypesSplit DEF ToolsInv
<1>2. /\ thread[t].pc = "wait" /\ thread[t].job \in Jobs /\ job[thread[t].job].pc \notin Inside
      /\ job' = [job EXCEPT ![thread[t].job] = NoJob]
      /\ UNCHANGED <<checkout, runtime, stamp, holder, faults>>
  BY DEF Return, ToolsInv, Waiting, Inside
<1>3. /\ thread' \in [Threads -> Thread] /\ thread'[t].pc # "wait"
      /\ \A u \in Threads : u # t => thread'[u] = thread[u]
  BY Places, AdvanceTypes, RaisesTypes DEF Return
<1>4. verified' \in [Controllers -> [Node -> 0..Newest]]
  <2>1. thread[t].want[At(t)] \in 0..Newest
    BY Places DEF Thread
  <2>2. \/ verified' = [verified EXCEPT ![Own(t)][At(t)] = thread[t].want[At(t)]]
        \/ verified' = verified
    BY DEF Return
  <2>3. CASE verified' = [verified EXCEPT ![Own(t)][At(t)] = thread[t].want[At(t)]]
    BY <1>1, <2>1, <2>3, Places DEF ThreadTypes
  <2> QED BY <1>1, <2>2, <2>3 DEF ThreadTypes
<1>5. clean' \subseteq ((Threads \cup Controllers \cup Jobs) \X Node)
  <2>1. clean' = clean \/ Knows(thread[t].job, {t, Own(t)}, At(t))
    BY DEF Return
  <2>2. {t, Own(t)} \in SUBSET (Threads \cup Controllers \cup Jobs)
    BY Places
  <2>3. CASE Knows(thread[t].job, {t, Own(t)}, At(t))
    <3>1. At(t) \in Node
      BY Places
    <3> QED BY <2>2, <2>3, <3>1, KnowsTypes
  <2>4. CASE clean' = clean
    BY <1>1, <2>4 DEF ThreadTypes
  <2> QED BY <2>1, <2>3, <2>4
<1>6. ThreadTypes'
  BY <1>1, <1>2, <1>3, <1>4, <1>5 DEF ThreadTypes
<1>7. job' \in [Jobs -> Job]
  BY <1>1, <1>2, Constants DEF NodeTypes
<1>8. \A j \in Jobs : job'[j] = job[j] \/ (job'[j] = NoJob /\ job[j].pc \notin Inside)
  BY <1>1, <1>2 DEF NodeTypes
<1>9. ASSUME NEW u \in Threads, thread'[u].pc = "wait"
      PROVE  thread'[u] = thread[u] /\ job'[thread[u].job] = job[thread[u].job]
  <2>1. u # t /\ thread'[u] = thread[u]
    BY <1>3, <1>9
  <2>2. thread[u].job \in Jobs /\ thread[u].job # thread[t].job
    BY <1>2, <1>9, <2>1 DEF ToolsInv, Waiting
  <2> QED BY <1>1, <1>2, <2>1, <2>2 DEF NodeTypes
<1> QED BY <1>2, <1>6, <1>7, <1>8, <1>9, LetGo

(* What becomes of an installer that nobody waits for any more.            *)
LEMMA OrphanedTypes ==
  ASSUME ToolsInv, NEW j \in Jobs
  PROVE  /\ Orphaned(j) \in [Jobs -> Job] /\ \A k \in Jobs : k # j => Orphaned(j)[k] = job[k]
         /\ \/ Orphaned(j)[j] = NoJob /\ job[j].pc \notin Inside
            \/ Orphaned(j)[j] = [job[j] EXCEPT !.wanted = FALSE]
<1>1. job \in [Jobs -> Job]
  BY TypesSplit DEF ToolsInv, NodeTypes
<1>2. [job[j] EXCEPT !.wanted = FALSE] \in Job
  BY ZenonT(60), <1>1 DEF Job
<1> QED BY <1>1, <1>2, Constants DEF Orphaned, Inside

LEMMA TimesOutStep ==
  ASSUME ToolsInv, NEW t \in Threads, TimesOut(t)
  PROVE  ToolsInv'
<1>1. ThreadTypes /\ NodeTypes
  BY TypesSplit DEF ToolsInv
<1>2. /\ thread[t].pc = "wait" /\ thread[t].job \in Jobs /\ job' = Orphaned(thread[t].job)
      /\ UNCHANGED <<checkout, verified, runtime, stamp, holder, clean>>
  BY DEF TimesOut, ToolsInv, Waiting
<1>3. /\ thread' \in [Threads -> Thread] /\ thread'[t].pc # "wait"
      /\ \A u \in Threads : u # t => thread'[u] = thread[u]
  BY RaisesTypes DEF TimesOut
<1>4. ThreadTypes'
  BY <1>1, <1>2, <1>3, FaultTypes DEF TimesOut, ThreadTypes
<1>5. ASSUME NEW u \in Threads, thread'[u].pc = "wait"
      PROVE  thread'[u] = thread[u] /\ job'[thread[u].job] = job[thread[u].job]
  <2>1. u # t /\ thread'[u] = thread[u]
    BY <1>3, <1>5
  <2>2. thread[u].job \in Jobs /\ thread[u].job # thread[t].job
    BY <1>2, <1>5, <2>1 DEF ToolsInv, Waiting
  <2> QED BY <1>2, <2>1, <2>2, OrphanedTypes
<1> QED BY ZenonT(60), <1>2, <1>4, <1>5, OrphanedTypes, LetGo

LEMMA RestartStep ==
  ASSUME ToolsInv, NEW c \in Controllers, Restart(c)
  PROVE  ToolsInv'
<1> DEFINE lost == {thread[t].job : t \in {u \in Threads : Own(u) = c /\ thread[u].pc = "wait"}}
<1>1. ThreadTypes /\ NodeTypes
  BY TypesSplit DEF ToolsInv
<1>2. /\ thread' = [t \in Threads |-> IF Own(t) = c THEN Away ELSE thread[t]]
      /\ job' = [j \in Jobs |-> IF j \in lost THEN Orphaned(j)[j] ELSE job[j]]
      /\ verified' = [verified EXCEPT ![c] = [n \in Node |-> 0]]
      /\ UNCHANGED <<checkout, runtime, stamp, holder, clean>>
  BY DEF Restart
<1>3. ThreadTypes'
  <2>1. thread' \in [Threads -> Thread]
    BY <1>1, <1>2, Constants DEF ThreadTypes
  <2>2. verified' \in [Controllers -> [Node -> 0..Newest]]
    BY <1>1, <1>2, Constants DEF ThreadTypes
  <2>3. faults' \in 0..MaxFaults
    BY FaultTypes DEF Restart
  <2> QED BY <1>1, <1>2, <2>1, <2>2, <2>3 DEF ThreadTypes
<1>4. job' \in [Jobs -> Job]
  <2>1. \A j \in Jobs : Orphaned(j)[j] \in Job /\ job[j] \in Job
    BY ZenonT(60), <1>1, OrphanedTypes DEF NodeTypes
  <2>2. \A j \in Jobs : (IF j \in lost THEN Orphaned(j)[j] ELSE job[j]) \in Job
    BY <2>1
  <2> QED BY <1>2, <2>2
<1>5. \A j \in Jobs : \/ job'[j] = job[j]
                      \/ job'[j] = NoJob /\ job[j].pc \notin Inside
                      \/ job'[j] = [job[j] EXCEPT !.wanted = FALSE]
  BY <1>2, OrphanedTypes
<1>6. ASSUME NEW u \in Threads, thread'[u].pc = "wait"
      PROVE  thread'[u] = thread[u] /\ job'[thread[u].job] = job[thread[u].job]
  <2>1. Own(u) # c /\ thread'[u] = thread[u]
    BY <1>2, <1>6, Constants
  <2>2. thread[u].job \in Jobs /\ thread[u].job \notin lost
    BY <1>6, <2>1 DEF ToolsInv, Waiting
  <2> QED BY <1>2, <2>1, <2>2
<1> HIDE DEF lost
<1> QED BY <1>2, <1>3, <1>4, <1>5, <1>6, LetGo

(* The installer's steps on its node.                                      *)
LEMMA EndTypes ==
  ASSUME ToolsInv, NEW j \in Jobs, NEW pc \in {"done", "failed"}, End(j, pc)
  PROVE  \E new \in Job : /\ job' = [job EXCEPT ![j] = new] /\ new.pc \notin Inside
                          /\ job[j].wanted => new.pc # "free" /\ new.wanted
                          /\ new.pc # "waiting"
<1>1. job[j] \in Job
  BY TypesSplit DEF ToolsInv, NodeTypes
<1>2. CASE job[j].wanted
  <2>1. [job[j] EXCEPT !.pc = pc] \in Job
    BY <1>1 DEF Job
  <2>2. [job[j] EXCEPT !.pc = pc].pc = pc /\ [job[j] EXCEPT !.pc = pc].wanted
    BY <1>1, <1>2 DEF Job
  <2>3. job' = [job EXCEPT ![j] = [job[j] EXCEPT !.pc = pc]]
    BY <1>2 DEF End
  <2> QED BY <2>1, <2>2, <2>3 DEF Inside
<1>3. CASE ~job[j].wanted
  BY <1>3, Constants DEF End, Inside
<1> QED BY <1>2, <1>3

(* What an installer does at its node while it holds the lock, or to the   *)
(* lock and to itself alone.                                               *)
LEMMA InstallerStep ==
  ASSUME ToolsInv, ThreadTypes', UNCHANGED thread,
         NEW j \in Jobs, NEW new \in Job, job' = [job EXCEPT ![j] = new],
         job[j].wanted => new.wanted /\ new.pc # "free",
         runtime' \in [Node -> [1..Len(Parts) -> 0..Newest]], stamp' \in [Node -> 0..Newest],
         holder' \in [Node -> Jobs \cup {None}],
         \A m \in Node : m # On(j) => runtime'[m] = runtime[m] /\ stamp'[m] = stamp[m] /\ holder'[m] = holder[m],
         holder[On(j)] # j => runtime'[On(j)] = runtime[On(j)] /\ stamp'[On(j)] = stamp[On(j)],
         \/ holder'[On(j)] = holder[On(j)]
         \/ holder[On(j)] \in {j, None} /\ holder'[On(j)] \in {j, None},
         IF new.pc \in Inside THEN new.node = On(j) /\ holder'[On(j)] = j ELSE holder'[On(j)] # j,
         new.pc \in {"installing", "gap"} =>
           /\ stamp'[On(j)] = 0
           /\ \A p \in 1..Len(Parts) : p < new.i => runtime'[On(j)][p] = new.version
           /\ new.pc = "gap" => new.i < Len(Parts),
         new.pc \in {"waiting", "staged"} => new.i = 1,
         stamp'[On(j)] # 0 => \A p \in 1..Len(Parts) : runtime'[On(j)][p] = stamp'[On(j)]
  PROVE  ToolsInv'
<1>1. ThreadTypes /\ NodeTypes
  BY TypesSplit DEF ToolsInv
<1>2. job' \in [Jobs -> Job] /\ \A k \in Jobs : job'[k] = IF k = j THEN new ELSE job[k]
  BY <1>1 DEF NodeTypes
<1>3. None \notin Jobs
  BY ToolsAssumption
<1>4. ASSUME NEW m \in Node, NEW k \in Jobs
      PROVE  holder'[m] = k <=> job'[k].pc \in Inside /\ On(k)' = m
  <2>1. CASE k = j
    BY <1>1, <1>2, <1>3, <2>1 DEF NodeTypes, On
  <2>2. CASE k # j
    BY <1>1, <1>2, <1>3, <2>2 DEF NodeTypes, On
  <2> QED BY <2>1, <2>2
<1>5. NodeTypes'
  BY <1>2, <1>4 DEF NodeTypes
<1>6. Waiting'
  BY <1>2 DEF ToolsInv, Waiting
<1>7. ASSUME NEW k \in Jobs, job'[k].pc \in {"installing", "gap"}
      PROVE  /\ stamp'[On(k)'] = 0
             /\ \A p \in 1..Len(Parts) : p < job'[k].i => runtime'[On(k)'][p] = job'[k].version
             /\ job'[k].pc = "gap" => job'[k].i < Len(Parts)
  <2>1. CASE k = j
    BY <1>2, <1>7, <2>1 DEF On, Inside
  <2>2. CASE k # j
    <3>1. job'[k] = job[k] /\ On(k)' = On(k) /\ On(k) \in Node /\ holder[On(k)] = k
      BY SMTT(60), <1>1, <1>2, <1>7, <2>2 DEF NodeTypes, On, Inside, Job
    <3>2. runtime'[On(k)] = runtime[On(k)] /\ stamp'[On(k)] = stamp[On(k)]
      BY <2>2, <3>1
    <3> QED BY <1>7, <3>1, <3>2 DEF ToolsInv, Progress
  <2> QED BY <2>1, <2>2
<1>8. Progress' /\ AtFirst'
  BY <1>2, <1>7 DEF Progress, ToolsInv, AtFirst
<1>9. ASSUME NEW m \in Node, stamp'[m] # 0, NEW p \in 1..Len(Parts) PROVE runtime'[m][p] = stamp'[m]
  <2>1. CASE m = On(j)
    BY <1>9, <2>1
  <2>2. CASE m # On(j)
    <3>1. runtime'[m] = runtime[m] /\ stamp'[m] = stamp[m]
      BY <2>2
    <3>2. StampTellsRuntime
      BY DEF ToolsInv
    <3> QED BY <1>9, <3>1, <3>2 DEF StampTellsRuntime, Whole
  <2> QED BY <2>1, <2>2
<1>10. StampTellsRuntime'
  BY <1>9 DEF StampTellsRuntime, Whole
<1> QED BY <1>5, <1>6, <1>8, <1>10, TypesSplit DEF ToolsInv

(* What is known of an installer, and of the node it is on.                *)
LEMMA Holding ==
  ASSUME ToolsInv, NEW j \in Jobs
  PROVE  /\ ThreadTypes /\ NodeTypes /\ job[j] \in Job /\ On(j) \in Node /\ None \notin Jobs
         /\ job[j].pc \in Inside => holder[On(j)] = j
         /\ job[j].pc = "staged" => job[j].i = 1
         /\ stamp[On(j)] # 0 => \A p \in 1..Len(Parts) : runtime[On(j)][p] = stamp[On(j)]
         /\ job[j].pc \in {"installing", "gap"} =>
              /\ stamp[On(j)] = 0
              /\ \A p \in 1..Len(Parts) : p < job[j].i => runtime[On(j)][p] = job[j].version
<1>1. ThreadTypes /\ NodeTypes /\ job[j] \in Job /\ On(j) \in Node /\ None \notin Jobs
  BY SMTT(60), TypesSplit, ToolsAssumption DEF ToolsInv, NodeTypes, Job, On
<1>2. job[j].pc \in Inside => holder[On(j)] = j
  BY <1>1 DEF NodeTypes
<1> QED BY <1>1, <1>2 DEF ToolsInv, StampTellsRuntime, Whole, Progress, AtFirst

(* Taking the lock, and waiting for it in vain.                            *)
LEMMA LockSteps ==
  ASSUME ToolsInv, NEW j \in Jobs, TakeLock(j) \/ LockWaitEnds(j)
  PROVE  ToolsInv'
<1>1. ThreadTypes /\ NodeTypes /\ job[j] \in Job /\ On(j) \in Node /\ None \notin Jobs
  BY SMTT(60), TypesSplit, ToolsAssumption DEF ToolsInv, NodeTypes, Job, On
<1>2. job[j].pc = "waiting" /\ holder[On(j)] # j
  BY <1>1 DEF TakeLock, LockWaitEnds, NodeTypes, Inside
<1>3. UNCHANGED <<checkout, verified, thread, runtime, stamp, faults, clean>>
  BY DEF TakeLock, LockWaitEnds
<1>4. ThreadTypes'
  BY <1>1, <1>3 DEF ThreadTypes
<1>5. /\ runtime' \in [Node -> [1..Len(Parts) -> 0..Newest]] /\ stamp' \in [Node -> 0..Newest]
      /\ stamp'[On(j)] # 0 => \A p \in 1..Len(Parts) : runtime'[On(j)][p] = stamp'[On(j)]
  BY <1>1, <1>3 DEF NodeTypes, ToolsInv, StampTellsRuntime, Whole
<1>6. CASE TakeLock(j)
  <2> DEFINE new == [job[j] EXCEPT !.pc = "staged"]
  <2>1. new \in Job /\ new.pc = "staged" /\ new.node = On(j) /\ new.wanted = job[j].wanted /\ new.i = 1
    BY <1>1, <1>2 DEF Job, On, Inside, ToolsInv, AtFirst
  <2>2. job' = [job EXCEPT ![j] = new]
    BY <1>6 DEF TakeLock, Step
  <2>3. /\ holder' \in [Node -> Jobs \cup {None}] /\ holder[On(j)] = None /\ holder'[On(j)] = j
        /\ \A m \in Node : m # On(j) => holder'[m] = holder[m]
    BY <1>1, <1>6 DEF TakeLock, NodeTypes
  <2> HIDE DEF new
  <2>4. new.pc \in Inside /\ new.pc \notin {"free", "installing", "gap"}
    BY <2>1 DEF Inside
  <2>5. UNCHANGED thread /\ runtime' = runtime /\ stamp' = stamp
    BY <1>3
  <2> QED BY <1>1, <1>4, <1>5, <2>1, <2>2, <2>3, <2>4, <2>5, InstallerStep
<1>7. CASE LockWaitEnds(j)
  <2>1. PICK new \in Job : /\ job' = [job EXCEPT ![j] = new] /\ new.pc \notin Inside
                           /\ job[j].wanted => new.pc # "free" /\ new.wanted
                           /\ new.pc # "waiting"
    BY <1>7, EndTypes DEF LockWaitEnds
  <2>2. holder' = holder
    BY <1>7 DEF LockWaitEnds
  <2> QED BY <1>1, <1>2, <1>3, <1>4, <1>5, <2>1, <2>2, InstallerStep DEF Inside, NodeTypes
<1> QED BY <1>6, <1>7

LEMMA InstallStep == ASSUME ToolsInv, NEW j \in Jobs, Install(j) PROVE ToolsInv'
<1> DEFINE new == [job[j] EXCEPT !.pc = "installing"]
<1>1. UNCHANGED <<checkout, verified, thread, runtime, holder, faults>> /\ job[j].pc = "staged"
  BY DEF Install
<1>2. /\ new \in Job /\ new.pc = "installing" /\ new.node = On(j) /\ new.wanted = job[j].wanted
      /\ new.version = job[j].version /\ new.i = 1
  BY <1>1, Holding DEF Job, On, Inside
<1>3. job' = [job EXCEPT ![j] = new]
  BY DEF Install, Step
<1>4. /\ stamp' \in [Node -> 0..Newest] /\ stamp'[On(j)] = 0
      /\ \A m \in Node : m # On(j) => stamp'[m] = stamp[m]
  BY Holding, Constants DEF Install, NodeTypes
<1>5. clean' \subseteq ((Threads \cup Controllers \cup Jobs) \X Node)
  BY Holding DEF Install, ThreadTypes
<1>6. ThreadTypes'
  BY <1>1, <1>5, Holding DEF ThreadTypes
<1>7. \A p \in 1..Len(Parts) : ~(p < 1)
  BY Constants
<1>8. new.pc \in Inside /\ holder[On(j)] = j /\ new.pc # "gap"
  BY <1>1, <1>2, Holding DEF Inside
<1>9. runtime' \in [Node -> [1..Len(Parts) -> 0..Newest]] /\ holder' \in [Node -> Jobs \cup {None}]
  BY <1>1, Holding DEF NodeTypes
<1> HIDE DEF new
<1> QED BY ZenonT(60), <1>1, <1>2, <1>3, <1>4, <1>6, <1>7, <1>8, <1>9, Holding, InstallerStep

LEMMA MoveAsideStep == ASSUME ToolsInv, NEW j \in Jobs, MoveAside(j) PROVE ToolsInv'
<1> DEFINE new == [job[j] EXCEPT !.pc = "gap", !.old = runtime[On(j)][job[j].i]]
<1>1. /\ UNCHANGED <<checkout, verified, thread, stamp, holder, faults, clean>>
      /\ job[j].pc = "installing" /\ job[j].i < Len(Parts)
      /\ runtime' = [runtime EXCEPT ![On(j)][job[j].i] = 0]
  BY DEF MoveAside
<1>2. job[j].i \in 1..Len(Parts) /\ runtime[On(j)][job[j].i] \in 0..Newest /\ 0 \in 0..Newest
  BY SMTT(60), <1>1, Holding, Constants DEF Job, NodeTypes
<1>3. /\ new \in Job /\ new.pc = "gap" /\ new.node = On(j) /\ new.wanted = job[j].wanted
      /\ new.version = job[j].version /\ new.i = job[j].i
  BY ZenonT(60), <1>2, Holding DEF Job, On, Inside
<1>4. job' = [job EXCEPT ![j] = new]
  <2>1. job \in [Jobs -> Job]
    BY Holding DEF NodeTypes
  <2>2. job' = [job EXCEPT ![j].pc = "gap", ![j].old = runtime[On(j)][job[j].i]]
    BY DEF MoveAside
  <2> QED BY <2>1, <2>2 DEF Job
<1>5. /\ runtime' \in [Node -> [1..Len(Parts) -> 0..Newest]]
      /\ \A m \in Node : m # On(j) => runtime'[m] = runtime[m]
      /\ \A p \in 1..Len(Parts) : p # job[j].i => runtime'[On(j)][p] = runtime[On(j)][p]
  BY <1>1, <1>2, Holding DEF NodeTypes
<1>6. ThreadTypes'
  BY <1>1, Holding DEF ThreadTypes
<1>7. new.pc \in Inside /\ holder[On(j)] = j /\ stamp[On(j)] = 0
  BY <1>1, <1>3, Holding DEF Inside
<1>8. \A p \in 1..Len(Parts) : p < new.i => runtime'[On(j)][p] = new.version
  BY <1>1, <1>2, <1>3, <1>5, Holding
<1>9. stamp' \in [Node -> 0..Newest] /\ holder' \in [Node -> Jobs \cup {None}]
  BY <1>1, Holding DEF NodeTypes
<1> HIDE DEF new
<1> QED BY ZenonT(60), <1>1, <1>3, <1>4, <1>5, <1>6, <1>7, <1>8, <1>9, Holding, InstallerStep

LEMMA MoveInStep == ASSUME ToolsInv, NEW j \in Jobs, MoveIn(j) PROVE ToolsInv'
<1> DEFINE new == [job[j] EXCEPT !.pc = "installing", !.i = @ + 1]
<1>1. /\ UNCHANGED <<checkout, verified, thread, stamp, holder, faults, clean>>
      /\ job[j].pc \in {"installing", "gap"}
      /\ runtime' = [runtime EXCEPT ![On(j)][job[j].i] = job[j].version]
  BY DEF MoveIn
<1>2. job[j].i \in 1..Len(Parts) /\ job[j].i + 1 \in 1..(Len(Parts) + 1) /\ job[j].version \in 0..Newest
  <2>1. job[j].pc = "gap" => job[j].i < Len(Parts)
    BY DEF ToolsInv, Progress
  <2>2. job[j].i \in 1..(Len(Parts) + 1) /\ job[j].version \in 0..Newest
    BY Holding DEF Job
  <2>3. job[j].pc = "gap" \/ job[j].i = Len(Parts)
    BY DEF MoveIn
  <2> QED BY SMTT(60), <2>1, <2>2, <2>3, Constants
<1>3. /\ new \in Job /\ new.pc = "installing" /\ new.node = On(j) /\ new.wanted = job[j].wanted
      /\ new.version = job[j].version /\ new.i = job[j].i + 1
  BY ZenonT(60), <1>2, Holding DEF Job, On, Inside
<1>4. job' = [job EXCEPT ![j] = new]
  <2>1. job \in [Jobs -> Job]
    BY Holding DEF NodeTypes
  <2>2. job' = [job EXCEPT ![j].pc = "installing", ![j].i = @ + 1]
    BY DEF MoveIn
  <2> QED BY <2>1, <2>2 DEF Job
<1>5. /\ runtime' \in [Node -> [1..Len(Parts) -> 0..Newest]]
      /\ \A m \in Node : m # On(j) => runtime'[m] = runtime[m]
      /\ \A p \in 1..Len(Parts) :
           runtime'[On(j)][p] = IF p = job[j].i THEN job[j].version ELSE runtime[On(j)][p]
  BY <1>1, <1>2, Holding DEF NodeTypes
<1>6. ThreadTypes'
  BY <1>1, Holding DEF ThreadTypes
<1>7. new.pc \in Inside /\ new.pc # "gap" /\ holder[On(j)] = j /\ stamp[On(j)] = 0
  BY <1>1, <1>3, Holding DEF Inside
<1>8. \A p \in 1..Len(Parts) : p < new.i => runtime'[On(j)][p] = new.version
  BY SMTT(60), <1>1, <1>2, <1>3, <1>5, Holding
<1>9. stamp' \in [Node -> 0..Newest] /\ holder' \in [Node -> Jobs \cup {None}]
  BY <1>1, Holding DEF NodeTypes
<1> HIDE DEF new
<1> QED BY ZenonT(60), <1>1, <1>3, <1>4, <1>5, <1>6, <1>7, <1>8, <1>9, Holding, InstallerStep

(* The steps that end an installer, and give back the lock it holds.       *)
LEMMA MoveInFailsStep == ASSUME ToolsInv, NEW j \in Jobs, MoveInFails(j) PROVE ToolsInv'
<1>1. /\ UNCHANGED <<checkout, verified, thread, stamp, clean>> /\ job[j].pc = "gap"
      /\ runtime' = [runtime EXCEPT ![On(j)][job[j].i] = job[j].old]
      /\ holder' = [holder EXCEPT ![On(j)] = None]
  BY DEF MoveInFails
<1>2. PICK new \in Job : /\ job' = [job EXCEPT ![j] = new] /\ new.pc \notin Inside
                         /\ job[j].wanted => new.pc # "free" /\ new.wanted
                         /\ new.pc # "waiting"
  BY EndTypes DEF MoveInFails
<1>3. job[j].i \in 1..Len(Parts) /\ job[j].old \in 0..Newest
  <2>1. job[j].i < Len(Parts)
    BY <1>1 DEF ToolsInv, Progress
  <2> QED BY SMTT(60), <2>1, Holding, Constants DEF Job
<1>4. /\ runtime' \in [Node -> [1..Len(Parts) -> 0..Newest]]
      /\ \A m \in Node : m # On(j) => runtime'[m] = runtime[m]
  BY <1>1, <1>3, Holding DEF NodeTypes
<1>5. /\ holder' \in [Node -> Jobs \cup {None}] /\ holder'[On(j)] = None
      /\ \A m \in Node : m # On(j) => holder'[m] = holder[m]
  BY <1>1, Holding DEF NodeTypes
<1>6. ThreadTypes'
  BY <1>1, FaultTypes, Holding DEF MoveInFails, ThreadTypes
<1>7. holder[On(j)] = j /\ stamp[On(j)] = 0 /\ None # j
  BY <1>1, Holding DEF Inside
<1>8. stamp' \in [Node -> 0..Newest] /\ new.pc \notin {"waiting", "staged", "installing", "gap"}
  BY <1>1, <1>2, Holding DEF NodeTypes, Inside
<1> QED BY ZenonT(60), <1>1, <1>2, <1>4, <1>5, <1>6, <1>7, <1>8, Holding, InstallerStep

LEMMA WriteStampStep == ASSUME ToolsInv, NEW j \in Jobs, WriteStamp(j) PROVE ToolsInv'
<1>1. /\ UNCHANGED <<checkout, verified, thread, runtime, faults, clean>>
      /\ job[j].pc = "installing" /\ job[j].i > Len(Parts)
      /\ stamp' = [stamp EXCEPT ![On(j)] = job[j].version]
      /\ holder' = [holder EXCEPT ![On(j)] = None]
  BY DEF WriteStamp
<1>2. PICK new \in Job : /\ job' = [job EXCEPT ![j] = new] /\ new.pc \notin Inside
                         /\ job[j].wanted => new.pc # "free" /\ new.wanted
                         /\ new.pc # "waiting"
  BY EndTypes DEF WriteStamp
<1>3. /\ stamp' \in [Node -> 0..Newest] /\ stamp'[On(j)] = job[j].version
      /\ \A m \in Node : m # On(j) => stamp'[m] = stamp[m]
  BY <1>1, Holding DEF NodeTypes, Job
<1>4. \A p \in 1..Len(Parts) : runtime[On(j)][p] = job[j].version
  <2>1. job[j].i \in Nat /\ Len(Parts) \in Nat
    BY SMTT(60), Holding, Constants DEF Job
  <2>2. \A p \in 1..Len(Parts) : p < job[j].i
    BY <1>1, <2>1
  <2> QED BY <1>1, <2>2, Holding
<1>5. /\ holder' \in [Node -> Jobs \cup {None}] /\ holder'[On(j)] = None
      /\ \A m \in Node : m # On(j) => holder'[m] = holder[m]
  BY <1>1, Holding DEF NodeTypes
<1>6. ThreadTypes'
  BY <1>1, Holding DEF ThreadTypes
<1>7. holder[On(j)] = j /\ None # j
  BY <1>1, Holding DEF Inside
<1>8. /\ runtime' \in [Node -> [1..Len(Parts) -> 0..Newest]]
      /\ new.pc \notin {"waiting", "staged", "installing", "gap"}
  BY <1>1, <1>2, Holding DEF NodeTypes, Inside
<1> QED BY ZenonT(60), <1>1, <1>2, <1>3, <1>4, <1>5, <1>6, <1>7, <1>8, Holding, InstallerStep

LEMMA StopsStep == ASSUME ToolsInv, NEW j \in Jobs, Stops(j) PROVE ToolsInv'
<1>1. /\ UNCHANGED <<checkout, verified, thread, runtime, stamp, clean>>
      /\ holder' = IF holder[On(j)] = j THEN [holder EXCEPT ![On(j)] = None] ELSE holder
  BY DEF Stops
<1>2. PICK new \in Job : /\ job' = [job EXCEPT ![j] = new] /\ new.pc \notin Inside
                         /\ job[j].wanted => new.pc # "free" /\ new.wanted
                         /\ new.pc # "waiting"
  BY EndTypes DEF Stops
<1>3. /\ holder' \in [Node -> Jobs \cup {None}] /\ holder'[On(j)] # j
      /\ \A m \in Node : m # On(j) => holder'[m] = holder[m]
      /\ \/ holder'[On(j)] = holder[On(j)]
         \/ holder[On(j)] \in {j, None} /\ holder'[On(j)] \in {j, None}
  BY <1>1, Holding DEF NodeTypes
<1>4. ThreadTypes'
  BY <1>1, FaultTypes, Holding DEF Stops, ThreadTypes
<1>5. /\ stamp' \in [Node -> 0..Newest] /\ runtime' \in [Node -> [1..Len(Parts) -> 0..Newest]]
      /\ new.pc \notin {"waiting", "staged", "installing", "gap"}
      /\ stamp'[On(j)] # 0 => \A p \in 1..Len(Parts) : runtime'[On(j)][p] = stamp'[On(j)]
  BY <1>1, <1>2, Holding DEF NodeTypes, Inside
<1> QED BY ZenonT(60), <1>1, <1>2, <1>3, <1>4, <1>5, Holding, InstallerStep

LEMMA ToolsStep == ToolsInv /\ [Next]_vars => ToolsInv'
<1> SUFFICES ASSUME ToolsInv, [Next]_vars PROVE ToolsInv'
  OBVIOUS
<1>1. ASSUME NEW t \in Threads, Ensure(t) \/ PushFails(t) \/ TimesOut(t) PROVE ToolsInv'
  BY <1>1, ThreadSteps, PushStep, ReturnStep, TimesOutStep DEF Ensure
<1>2. ASSUME NEW j \in Jobs, Installer(j) \/ LockWaitEnds(j) \/ MoveInFails(j) \/ Stops(j) PROVE ToolsInv'
  BY <1>2, LockSteps, InstallStep, MoveAsideStep, MoveInStep, WriteStampStep, MoveInFailsStep, StopsStep
     DEF Installer
<1>3. ASSUME NEW c \in Controllers, Upgrade(c) \/ Restart(c) \/ \E n \in Node : Expire(c, n) PROVE ToolsInv'
  BY <1>3, ProcessSteps, RestartStep
<1>4. CASE UNCHANGED vars
  BY <1>4, Constants DEF vars, ToolsInv, ToolsTypeOK, Waiting, Progress, AtFirst, StampTellsRuntime, Whole, On, Inside
<1> QED BY <1>1, <1>2, <1>3, <1>4 DEF Next

-----------------------------------------------------------------------------
(* What was seen of a node *)

(* A thread has been at a node, and is at it.                              *)
Passed(t, n)  == thread[t].pc = "ready" \/ \E k \in 1..Len(NodeList) : k < thread[t].i /\ NodeList[k] = n
Working(t, n) == thread[t].pc \in {"pull", "push", "wait"} /\ At(t) = n

(* What is still seen of a node is so: by the threads that have been there *)
(* for themselves, ...                                                     *)
ThreadsSee ==
  \A t \in Threads, n \in Node :
    Passed(t, n) /\ ~Working(t, n) /\ <<t, n>> \in clean => Whole(n, thread[t].want[n])

(* ... by the servers for all their threads, ...                           *)
ControllersSee ==
  \A c \in Controllers, n \in Node :
    <<c, n>> \in clean /\ verified[c][n] # 0 => Whole(n, verified[c][n])

(* ... and by an installer for the thread that waits for it.               *)
InstallersSee ==
  \A j \in Jobs : job[j].pc = "done" /\ <<j, On(j)>> \in clean => Whole(On(j), job[j].version)

(* Nobody but an installer at work has seen its node since it began.       *)
WorkUnseen ==
  \A j \in Jobs : job[j].pc \in {"installing", "gap"} =>
    \A w \in Threads \cup Controllers \cup Jobs : w # j => <<w, On(j)>> \notin clean

(* An installer has been told what the thread that waits for it wants.     *)
Errands ==
  \A t \in Threads :
    /\ thread[t].pc \in {"pull", "push", "wait"} => thread[t].want[At(t)] # 0
    /\ thread[t].pc = "wait" => /\ job[thread[t].job].node = At(t)
                                /\ job[thread[t].job].version = thread[t].want[At(t)]

ViewsInv == ThreadsSee /\ ControllersSee /\ InstallersSee /\ WorkUnseen /\ Errands

LEMMA Disjoint ==
  /\ \A t \in Threads, c \in Controllers : t # c
  /\ \A j \in Jobs, t \in Threads : j # t
  /\ \A j \in Jobs, c \in Controllers : j # c
BY ToolsAssumption

LEMMA ViewsInit == Init => ViewsInv
BY Constants DEF Init, ViewsInv, ThreadsSee, ControllersSee, InstallersSee, WorkUnseen, Errands

(* A step that brings no news of a node.                                   *)
LEMMA NoNews ==
  ASSUME ViewsInv, UNCHANGED <<runtime, clean>>,
         \A t \in Threads, n \in Node : Passed(t, n)' /\ ~Working(t, n)' =>
           Passed(t, n) /\ ~Working(t, n) /\ thread'[t].want[n] = thread[t].want[n],
         \A c \in Controllers, n \in Node : verified'[c][n] \in {verified[c][n], 0},
         \A j \in Jobs : /\ (job'[j].pc = "done" => job'[j] = job[j])
                         /\ (job'[j].pc \in {"installing", "gap"} =>
                               job[j].pc \in {"installing", "gap"} /\ job'[j].node = job[j].node),
         Errands'
  PROVE  ViewsInv'
<1>1. ThreadsSee'
  BY DEF ViewsInv, ThreadsSee, Whole
<1>2. ControllersSee'
  BY DEF ViewsInv, ControllersSee, Whole
<1>3. InstallersSee'
  BY DEF ViewsInv, InstallersSee, Whole, On
<1>4. WorkUnseen'
  BY DEF ViewsInv, WorkUnseen, On
<1> QED BY <1>1, <1>2, <1>3, <1>4 DEF ViewsInv

(* A thread that does not move has been where it was.                      *)
LEMMA Rests ==
  ASSUME NEW t \in Threads, thread'[t] = thread[t], NEW n \in Node
  PROVE  /\ Passed(t, n)' = Passed(t, n) /\ Working(t, n)' = Working(t, n)
         /\ thread'[t].want[n] = thread[t].want[n] /\ At(t)' = At(t)
BY DEF Passed, Working, At

(* One that gives up has been nowhere.                                     *)
LEMMA Nowhere ==
  ASSUME NEW t \in Threads, thread'[t] = Away, NEW n \in Node
  PROVE  ~Passed(t, n)' /\ thread'[t].pc = "idle"
<1>1. thread'[t].pc = "idle" /\ thread'[t].i = 1
  BY DEF Away
<1> QED BY <1>1 DEF Passed

(* A thread that goes on to the next node has been to this one.            *)
LEMMA PassedMoves ==
  ASSUME ToolsInv, NEW t \in Threads, NEW rec \in Thread, rec.i = thread[t].i, Advance(t, rec)
  PROVE  /\ thread'[t].want = rec.want /\ thread'[t].pc \in {"enter", "ready"}
         /\ \A n \in Node : Passed(t, n)' => n = At(t) \/ Passed(t, n)
<1>1. thread \in [Threads -> Thread] /\ rec.i \in 1..Len(NodeList) /\ Len(NodeList) \in Nat
  BY TypesSplit, Constants DEF ToolsInv, ThreadTypes, Thread
<1>2. CASE rec.i < Len(NodeList)
  <2> DEFINE new == [rec EXCEPT !.pc = "enter", !.i = @ + 1, !.job = None]
  <2>1. new.pc = "enter" /\ new.i = rec.i + 1 /\ new.want = rec.want
    BY DEF Thread
  <2>2. thread' = [thread EXCEPT ![t] = new]
    BY <1>2 DEF Advance
  <2> HIDE DEF new
  <2>3. thread'[t] = new
    BY <1>1, <2>2
  <2>4. ASSUME NEW n \in Node, Passed(t, n)' PROVE n = At(t) \/ Passed(t, n)
    <3>1. PICK k \in 1..Len(NodeList) : k < rec.i + 1 /\ NodeList[k] = n
      BY <2>1, <2>3, <2>4 DEF Passed
    <3>2. k = rec.i \/ k < rec.i
      BY <1>1, <3>1
    <3> QED BY <3>1, <3>2 DEF Passed, At
  <2> QED BY <2>1, <2>3, <2>4
<1>3. CASE ~(rec.i < Len(NodeList))
  <2> DEFINE new == [rec EXCEPT !.pc = "ready", !.job = None]
  <2>1. new.pc = "ready" /\ new.want = rec.want
    BY DEF Thread
  <2>2. thread' = [thread EXCEPT ![t] = new]
    BY <1>3 DEF Advance
  <2> HIDE DEF new
  <2>3. thread'[t] = new
    BY <1>1, <2>2
  <2>4. ASSUME NEW n \in Node PROVE n = At(t) \/ Passed(t, n)
    <3>1. PICK k \in 1..Len(NodeList) : NodeList[k] = n
      BY DEF Node
    <3>2. k = rec.i \/ k < rec.i
      BY <1>1, <1>3, <3>1
    <3> QED BY <3>1, <3>2 DEF Passed, At
  <2> QED BY <2>1, <2>3, <2>4
<1> QED BY <1>2, <1>3

(* What a thread has seen of a node, it knows when it goes on, and with it *)
(* its server.                                                             *)
LEMMA AdvanceViews ==
  ASSUME ToolsInv, ViewsInv, NEW t \in Threads, NEW rec \in Thread,
         rec.i = thread[t].i, Advance(t, rec), runtime' = runtime,
         \A m \in Node : m # At(t) => rec.want[m] = thread[t].want[m],
         \A j \in Jobs : job'[j] = job[j] \/ job'[j] = NoJob,
         \A u \in Threads : u # t /\ thread[u].pc = "wait" => job'[thread[u].job] = job[thread[u].job],
         \A w, m : <<w, m>> \in clean' => <<w, m>> \in clean \/ (w \in {t, Own(t)} /\ m = At(t)),
         <<t, At(t)>> \in clean' => Whole(At(t), rec.want[At(t)]),
         <<Own(t), At(t)>> \in clean' /\ verified'[Own(t)][At(t)] # 0 =>
           Whole(At(t), verified'[Own(t)][At(t)]),
         \A c \in Controllers, m \in Node : c # Own(t) \/ m # At(t) => verified'[c][m] = verified[c][m],
         \A j \in Jobs : job[j].pc \in {"installing", "gap"} /\ On(j) = At(t) =>
           <<t, At(t)>> \notin clean' /\ <<Own(t), At(t)>> \notin clean'
  PROVE  ViewsInv'
<1>1. /\ thread'[t].want = rec.want /\ thread'[t].pc \in {"enter", "ready"}
      /\ \A n \in Node : Passed(t, n)' => n = At(t) \/ Passed(t, n)
      /\ \A u \in Threads : u # t => thread'[u] = thread[u]
  BY PassedMoves, AdvanceTypes
<1>2. At(t) \in Node /\ Own(t) \in Controllers
  BY Places
<1>3. ThreadsSee'
  <2>1. ASSUME NEW u \in Threads, NEW n \in Node, Passed(u, n)', ~Working(u, n)', <<u, n>> \in clean'
        PROVE  \A p \in 1..Len(Parts) : runtime'[n][p] = thread'[u].want[n]
    <3>1. CASE u = t /\ n = At(t)
      BY <1>1, <2>1, <3>1 DEF Whole
    <3>2. CASE u = t /\ n # At(t)
      <4>1. Passed(t, n) /\ ~Working(t, n) /\ <<t, n>> \in clean /\ thread'[t].want[n] = thread[t].want[n]
        BY <1>1, <2>1, <3>2 DEF Working
      <4> QED BY <3>2, <4>1 DEF ViewsInv, ThreadsSee, Whole
    <3>3. CASE u # t
      <4>1. Passed(u, n) /\ ~Working(u, n) /\ thread'[u] = thread[u] /\ <<u, n>> \in clean
        BY <1>1, <1>2, <2>1, <3>3, Rests, Disjoint
      <4> QED BY <4>1 DEF ViewsInv, ThreadsSee, Whole
    <3> QED BY <3>1, <3>2, <3>3
  <2> QED BY <2>1 DEF ThreadsSee, Whole
<1>4. ControllersSee'
  <2>1. ASSUME NEW c \in Controllers, NEW n \in Node, <<c, n>> \in clean', verified'[c][n] # 0
        PROVE  \A p \in 1..Len(Parts) : runtime'[n][p] = verified'[c][n]
    <3>1. CASE c = Own(t) /\ n = At(t)
      BY <2>1, <3>1 DEF Whole
    <3>2. CASE c # Own(t) \/ n # At(t)
      <4>1. <<c, n>> \in clean /\ verified'[c][n] = verified[c][n]
        BY <2>1, <3>2, Disjoint
      <4> QED BY <2>1, <4>1 DEF ViewsInv, ControllersSee, Whole
    <3> QED BY <3>1, <3>2
  <2> QED BY <2>1 DEF ControllersSee, Whole
<1>5. \A m : \A j \in Jobs : <<j, m>> \in clean' => <<j, m>> \in clean
  BY <1>2, Disjoint
<1>6. InstallersSee'
  BY <1>5, Constants DEF ViewsInv, InstallersSee, Whole, On
<1>7. ASSUME NEW j \in Jobs, job'[j].pc \in {"installing", "gap"},
             NEW w \in Threads \cup Controllers \cup Jobs, w # j
      PROVE  <<w, job'[j].node>> \notin clean'
  <2>1. job'[j] = job[j]
    BY <1>7, Constants
  <2>2. <<w, On(j)>> \notin clean
    BY <1>7, <2>1 DEF ViewsInv, WorkUnseen
  <2> QED BY <2>1, <2>2, <1>7 DEF On
<1>8. WorkUnseen'
  BY <1>7 DEF WorkUnseen, On
<1>9. ASSUME NEW u \in Threads
      PROVE  /\ (thread'[u].pc \in {"pull", "push", "wait"} => thread'[u].want[At(u)'] # 0)
             /\ (thread'[u].pc = "wait" => /\ job'[thread'[u].job].node = At(u)'
                                           /\ job'[thread'[u].job].version = thread'[u].want[At(u)'])
  <2>1. CASE u = t
    BY <1>1, <2>1
  <2>2. CASE u # t
    <3>1. thread'[u] = thread[u] /\ At(u)' = At(u)
      BY <1>1, <2>2 DEF At
    <3> QED BY <2>2, <3>1 DEF ViewsInv, Errands
  <2> QED BY <2>1, <2>2
<1>10. Errands'
  BY <1>9 DEF Errands
<1> QED BY <1>3, <1>4, <1>6, <1>8, <1>10 DEF ViewsInv

LEMMA Knowing ==
  ASSUME NEW from, NEW who, NEW n, Knows(from, who, n), NEW w, NEW m
  PROVE  /\ (<<w, m>> \in clean' => <<w, m>> \in clean \/ (w \in who /\ m = n))
         /\ (w \in who /\ <<w, n>> \in clean' => <<from, n>> \in clean)
BY DEF Knows

LEMMA EnterViews ==
  ASSUME ToolsInv, ViewsInv, NEW t \in Threads, Enter(t)
  PROVE  ViewsInv'
<1> DEFINE rec == [thread[t] EXCEPT !.want[At(t)] = checkout[Own(t)]]
<1>1. /\ At(t) \in Node /\ Own(t) \in Controllers /\ thread[t] \in Thread /\ checkout[Own(t)] \in 0..Newest
      /\ thread \in [Threads -> Thread]
  BY Places, TypesSplit DEF ToolsInv, ThreadTypes
<1>2. /\ rec \in Thread /\ rec.i = thread[t].i /\ rec.want[At(t)] = checkout[Own(t)]
      /\ \A m \in Node : m # At(t) => rec.want[m] = thread[t].want[m]
  BY <1>1 DEF Thread
<1>3. UNCHANGED <<checkout, verified, runtime, stamp, holder, job>> /\ thread[t].pc = "enter"
  BY DEF Enter
<1>4. CASE Fresh(Own(t), At(t)) /\ Advance(t, rec) /\ Knows(Own(t), {t}, At(t))
  <2>1. verified[Own(t)][At(t)] = checkout[Own(t)] /\ checkout[Own(t)] # 0
    BY <1>1, <1>4, TypesSplit DEF Fresh, ToolsInv, ThreadTypes, Version
  <2>2. <<Own(t), At(t)>> \in clean => Whole(At(t), checkout[Own(t)])
    BY <1>1, <2>1 DEF ViewsInv, ControllersSee
  <2>3. /\ \A w, m : <<w, m>> \in clean' => <<w, m>> \in clean \/ (w \in {t, Own(t)} /\ m = At(t))
        /\ (<<t, At(t)>> \in clean' => <<Own(t), At(t)>> \in clean)
        /\ (<<Own(t), At(t)>> \in clean' => <<Own(t), At(t)>> \in clean)
    <3>1. ASSUME NEW w, NEW m
          PROVE  /\ (<<w, m>> \in clean' => <<w, m>> \in clean \/ (w = t /\ m = At(t)))
                 /\ (w = t /\ <<w, At(t)>> \in clean' => <<Own(t), At(t)>> \in clean)
      BY <1>4, Knowing
    <3>2. Own(t) # t
      BY <1>1, Disjoint
    <3> QED BY <3>1, <3>2
  <2>4. \A j \in Jobs : job[j].pc \in {"installing", "gap"} /\ On(j) = At(t) => <<Own(t), At(t)>> \notin clean
    BY <1>1, Disjoint DEF ViewsInv, WorkUnseen
  <2> HIDE DEF rec
  <2> QED BY <1>2, <1>3, <1>4, <2>1, <2>2, <2>3, <2>4, AdvanceViews
<1>5. CASE thread' = [thread EXCEPT ![t] = [rec EXCEPT !.pc = "pull"]] /\ UNCHANGED clean
  <2>1. [rec EXCEPT !.pc = "pull"].pc = "pull" /\ [rec EXCEPT !.pc = "pull"].i = rec.i
        /\ [rec EXCEPT !.pc = "pull"].want = rec.want
    BY <1>2 DEF Thread
  <2> HIDE DEF rec
  <2>2. /\ thread'[t].pc = "pull" /\ thread'[t].i = thread[t].i /\ thread'[t].want = rec.want
        /\ \A u \in Threads : u # t => thread'[u] = thread[u]
    BY <1>1, <1>2, <1>5, <2>1
  <2>3. At(t)' = At(t)
    BY <2>2 DEF At
  <2>4. ASSUME NEW u \in Threads, NEW n \in Node, Passed(u, n)', ~Working(u, n)'
        PROVE  Passed(u, n) /\ ~Working(u, n) /\ thread'[u].want[n] = thread[u].want[n]
    <3>1. CASE u = t
      BY <1>2, <1>3, <2>2, <2>3, <2>4, <3>1 DEF Passed, Working
    <3>2. CASE u # t
      BY <2>2, <2>4, <3>2, Rests
    <3> QED BY <3>1, <3>2
  <2>5. Errands'
    <3>1. thread'[t].want[At(t)'] # 0
      BY <1>1, <1>2, <2>2, <2>3, TypesSplit DEF ToolsInv, ThreadTypes, Version
    <3>2. ASSUME NEW u \in Threads, u # t PROVE thread'[u] = thread[u] /\ At(u)' = At(u)
      BY <2>2, <3>2 DEF At
    <3> QED BY <1>3, <2>2, <3>1, <3>2 DEF ViewsInv, Errands
  <2> QED BY <1>3, <1>5, <2>4, <2>5, NoNews
<1> QED BY <1>4, <1>5 DEF Enter

LEMMA PullViews ==
  ASSUME ToolsInv, ViewsInv, NEW t \in Threads, PullMatches(t)
  PROVE  ViewsInv'
<1>1. /\ At(t) \in Node /\ Own(t) \in Controllers /\ thread[t] \in Thread
      /\ thread[t].pc = "pull" /\ stamp[At(t)] = thread[t].want[At(t)] /\ Advance(t, thread[t])
      /\ verified' = [verified EXCEPT ![Own(t)][At(t)] = stamp[At(t)]] /\ Sees({t, Own(t)}, At(t))
      /\ UNCHANGED <<runtime, job>> /\ verified \in [Controllers -> [Node -> 0..Newest]]
  BY Places, TypesSplit DEF PullMatches, ToolsInv, ThreadTypes
<1>2. stamp[At(t)] # 0
  BY <1>1 DEF ViewsInv, Errands
<1>3. Whole(At(t), stamp[At(t)])
  BY <1>1, <1>2 DEF ToolsInv, StampTellsRuntime
<1>4. \A j \in Jobs : job[j].pc \in {"installing", "gap"} => On(j) # At(t)
  BY <1>2 DEF ToolsInv, Progress
<1>5. \A w, m : <<w, m>> \in clean' => <<w, m>> \in clean \/ (w \in {t, Own(t)} /\ m = At(t))
  BY <1>1 DEF Sees
<1>6. /\ verified'[Own(t)][At(t)] = stamp[At(t)]
      /\ \A c \in Controllers, m \in Node : c # Own(t) \/ m # At(t) => verified'[c][m] = verified[c][m]
  BY <1>1
<1> QED BY <1>1, <1>3, <1>4, <1>5, <1>6, AdvanceViews

(* A thread that brings no news: it starts, finds a difference or gives up. *)
LEMMA IdleViews ==
  ASSUME ToolsInv, ViewsInv, NEW t \in Threads,
         Begin(t) \/ PullDiffers(t) \/ PushFails(t) \/ Use(t)
  PROVE  ViewsInv'
<1>1. UNCHANGED <<runtime, clean, verified, job>> /\ thread \in [Threads -> Thread] /\ thread[t] \in Thread
  BY TypesSplit DEF Begin, PullDiffers, PushFails, Use, ToolsInv, ThreadTypes
<1>2. \/ /\ thread'[t].pc \in {"idle", "enter"} /\ thread'[t].i = 1
      \/ /\ thread'[t].pc = "push" /\ thread[t].pc = "pull"
         /\ thread'[t].i = thread[t].i /\ thread'[t].want = thread[t].want
  <2>1. [Away EXCEPT !.pc = "enter"].pc = "enter" /\ [Away EXCEPT !.pc = "enter"].i = 1
        /\ Away.pc = "idle" /\ Away.i = 1
    BY DEF Away
  <2>2. CASE Begin(t)
    BY <1>1, <2>1, <2>2 DEF Begin
  <2>3. CASE PushFails(t) \/ Use(t)
    BY <1>1, <2>1, <2>3 DEF PushFails, Use, Raises
  <2>4. CASE PullDiffers(t)
    BY <1>1, <2>4 DEF PullDiffers, Thread
  <2> QED BY <2>2, <2>3, <2>4
<1>3. \A u \in Threads : u # t => thread'[u] = thread[u]
  BY <1>1 DEF Begin, PullDiffers, PushFails, Use, Raises
<1>4. ASSUME NEW u \in Threads, NEW n \in Node, Passed(u, n)', ~Working(u, n)'
      PROVE  Passed(u, n) /\ ~Working(u, n) /\ thread'[u].want[n] = thread[u].want[n]
  <2>1. CASE u = t
    BY <1>2, <1>4, <2>1 DEF Passed, Working, At
  <2>2. CASE u # t
    BY <1>3, <1>4, <2>2, Rests
  <2> QED BY <2>1, <2>2
<1>5. Errands'
  <2>1. ASSUME NEW u \in Threads, u # t PROVE thread'[u] = thread[u] /\ At(u)' = At(u)
    BY <1>3, <2>1 DEF At
  <2>2. thread'[t].pc = "push" => thread'[t].want[At(t)'] # 0
    BY <1>2 DEF ViewsInv, Errands, At
  <2> QED BY <1>1, <1>2, <2>1, <2>2 DEF ViewsInv, Errands
<1> QED BY <1>1, <1>4, <1>5, NoNews

LEMMA PushViews ==
  ASSUME ToolsInv, ViewsInv, NEW t \in Threads, Push(t)
  PROVE  ViewsInv'
<1>1. PICK j \in Jobs : /\ job[j].pc = "free"
                        /\ job' = [job EXCEPT ![j] =
                             [NoJob EXCEPT !.pc = "waiting", !.node = At(t), !.wanted = TRUE,
                                           !.version = thread[t].want[At(t)]]]
                        /\ thread' = [thread EXCEPT ![t].pc = "wait", ![t].job = j]
  BY DEF Push
<1> DEFINE new == [NoJob EXCEPT !.pc = "waiting", !.node = At(t), !.wanted = TRUE,
                                !.version = thread[t].want[At(t)]]
<1>2. new.pc = "waiting" /\ new.node = At(t) /\ new.version = thread[t].want[At(t)]
  BY DEF NoJob
<1>3. /\ thread \in [Threads -> Thread] /\ thread[t] \in Thread /\ job \in [Jobs -> Job]
      /\ thread[t].pc = "push" /\ UNCHANGED <<runtime, clean, verified>>
  BY TypesSplit DEF Push, ToolsInv, ThreadTypes, NodeTypes
<1>4. /\ thread'[t].pc = "wait" /\ thread'[t].job = j /\ thread'[t].i = thread[t].i
      /\ thread'[t].want = thread[t].want /\ \A u \in Threads : u # t => thread'[u] = thread[u]
  BY <1>1, <1>3 DEF Thread
<1> HIDE DEF new
<1>5. job'[j] = new /\ \A k \in Jobs : k # j => job'[k] = job[k]
  BY <1>1, <1>3 DEF new
<1>6. ASSUME NEW u \in Threads, NEW n \in Node, Passed(u, n)', ~Working(u, n)'
      PROVE  Passed(u, n) /\ ~Working(u, n) /\ thread'[u].want[n] = thread[u].want[n]
  <2>1. CASE u = t
    BY <1>3, <1>4, <1>6, <2>1 DEF Passed, Working, At
  <2>2. CASE u # t
    BY <1>4, <1>6, <2>2, Rests
  <2> QED BY <2>1, <2>2
<1>7. Errands'
  <2>1. ASSUME NEW u \in Threads PROVE At(u)' = At(u)
    BY <1>4 DEF At
  <2>2. \A u \in Threads : thread[u].pc = "wait" => thread[u].job # j
    BY <1>1 DEF ToolsInv, Waiting
  <2>3. \A u \in Threads : thread[u].pc = "wait" => thread[u].job \in Jobs
    BY DEF ToolsInv, Waiting
  <2>4. thread[t].want[At(t)] # 0
    BY <1>3 DEF ViewsInv, Errands
  <2> QED BY <1>2, <1>4, <1>5, <2>1, <2>2, <2>3, <2>4 DEF ViewsInv, Errands
<1>8. \A k \in Jobs : /\ (job'[k].pc = "done" => job'[k] = job[k])
                      /\ (job'[k].pc \in {"installing", "gap"} =>
                            job[k].pc \in {"installing", "gap"} /\ job'[k].node = job[k].node)
  BY <1>2, <1>5
<1> QED BY <1>3, <1>6, <1>7, <1>8, NoNews

(* Threads give up, and installers are let go.                             *)
LEMMA GivenUp ==
  ASSUME ToolsInv, ViewsInv, UNCHANGED <<runtime, clean>>,
         \A c \in Controllers, n \in Node : verified'[c][n] \in {verified[c][n], 0},
         \A u \in Threads : \/ thread'[u] = Away
                            \/ /\ thread'[u] = thread[u]
                               /\ (thread[u].pc = "wait" => job'[thread[u].job] = job[thread[u].job]),
         \A j \in Jobs : \/ job'[j] = job[j]
                         \/ job'[j] = NoJob
                         \/ job'[j] = [job[j] EXCEPT !.wanted = FALSE] /\ job[j].pc # "done"
  PROVE  ViewsInv'
<1>1. job \in [Jobs -> Job] /\ NoJob.pc = "free"
  BY TypesSplit, Constants DEF ToolsInv, NodeTypes
<1>2. ASSUME NEW j \in Jobs
      PROVE  /\ (job'[j].pc = "done" => job'[j] = job[j])
             /\ (job'[j].pc \in {"installing", "gap"} =>
                   job[j].pc \in {"installing", "gap"} /\ job'[j].node = job[j].node)
  <2>1. CASE job'[j] = [job[j] EXCEPT !.wanted = FALSE] /\ job[j].pc # "done"
    BY <1>1, <2>1 DEF Job
  <2> QED BY <1>1, <2>1
<1>3. \A u \in Threads, n \in Node : Passed(u, n)' /\ ~Working(u, n)' =>
        Passed(u, n) /\ ~Working(u, n) /\ thread'[u].want[n] = thread[u].want[n]
  BY Rests, Nowhere
<1>4. Errands'
  <2>1. ASSUME NEW u \in Threads PROVE thread'[u] = Away => thread'[u].pc = "idle"
    BY DEF Away
  <2>2. ASSUME NEW u \in Threads, thread'[u] = thread[u] PROVE At(u)' = At(u)
    BY <2>2 DEF At
  <2> QED BY <2>1, <2>2 DEF ViewsInv, Errands
<1> QED BY <1>2, <1>3, <1>4, NoNews

LEMMA OrphanedSteps ==
  ASSUME ToolsInv, NEW j \in Jobs
  PROVE  Orphaned(j)[j] = NoJob \/ (Orphaned(j)[j] = [job[j] EXCEPT !.wanted = FALSE] /\ job[j].pc # "done")
BY TypesSplit DEF Orphaned, ToolsInv, NodeTypes

LEMMA ReturnViews ==
  ASSUME ToolsInv, ViewsInv, NEW t \in Threads, Return(t)
  PROVE  ViewsInv'
<1>1. PICK j \in Jobs : j = thread[t].job
  BY DEF Return, ToolsInv, Waiting
<1>2. /\ thread[t].pc = "wait" /\ job' = [job EXCEPT ![j] = NoJob] /\ UNCHANGED runtime
      /\ job \in [Jobs -> Job] /\ thread \in [Threads -> Thread] /\ thread[t] \in Thread
      /\ At(t) \in Node /\ Own(t) \in Controllers /\ verified \in [Controllers -> [Node -> 0..Newest]]
  BY <1>1, Places, TypesSplit DEF Return, ToolsInv, ThreadTypes, NodeTypes
<1>3. job'[j] = NoJob /\ \A k \in Jobs : k # j => job'[k] = job[k]
  BY <1>2
<1>4. ASSUME NEW u \in Threads, u # t, thread[u].pc = "wait" PROVE job'[thread[u].job] = job[thread[u].job]
  <2>1. thread[u].job \in Jobs /\ thread[u].job # j
    BY <1>1, <1>2, <1>4 DEF ToolsInv, Waiting
  <2> QED BY <1>3, <2>1
<1>5. CASE /\ job[j].pc = "done" /\ Advance(t, thread[t]) /\ Knows(j, {t, Own(t)}, At(t))
           /\ verified' = [verified EXCEPT ![Own(t)][At(t)] = thread[t].want[At(t)]]
  <2>1. On(j) = At(t) /\ job[j].version = thread[t].want[At(t)]
    BY <1>1, <1>2 DEF ViewsInv, Errands, On
  <2>2. <<j, At(t)>> \in clean => Whole(At(t), thread[t].want[At(t)])
    BY <1>5, <2>1 DEF ViewsInv, InstallersSee
  <2>3. /\ \A w, m : <<w, m>> \in clean' => <<w, m>> \in clean \/ (w \in {t, Own(t)} /\ m = At(t))
        /\ \A w \in {t, Own(t)} : <<w, At(t)>> \in clean' => <<j, At(t)>> \in clean
    BY ZenonT(60), <1>5, Knowing
  <2>4. \A k \in Jobs : job[k].pc \in {"installing", "gap"} /\ On(k) = At(t) => <<j, At(t)>> \notin clean
    BY <1>5 DEF ViewsInv, WorkUnseen
  <2>5. /\ verified'[Own(t)][At(t)] = thread[t].want[At(t)]
        /\ \A c \in Controllers, m \in Node : c # Own(t) \/ m # At(t) => verified'[c][m] = verified[c][m]
    BY <1>2, <1>5
  <2>6. \A k \in Jobs : job'[k] = job[k] \/ job'[k] = NoJob
    BY <1>3
  <2> QED BY ZenonT(60), <1>2, <1>4, <1>5, <2>2, <2>3, <2>4, <2>5, <2>6, AdvanceViews
<1>6. CASE Raises(t) /\ UNCHANGED <<verified, clean>>
  <2>1. thread'[t] = Away /\ \A u \in Threads : u # t => thread'[u] = thread[u]
    BY <1>2, <1>6 DEF Raises
  <2> QED BY <1>2, <1>3, <1>4, <1>6, <2>1, GivenUp
<1> QED BY <1>1, <1>5, <1>6 DEF Return

LEMMA TimesOutViews ==
  ASSUME ToolsInv, ViewsInv, NEW t \in Threads, TimesOut(t)
  PROVE  ViewsInv'
<1>1. PICK j \in Jobs : j = thread[t].job
  BY DEF TimesOut, ToolsInv, Waiting
<1>2. /\ thread[t].pc = "wait" /\ job' = Orphaned(j) /\ UNCHANGED <<runtime, clean, verified>>
      /\ thread \in [Threads -> Thread]
  BY <1>1, TypesSplit DEF TimesOut, ToolsInv, ThreadTypes
<1>3. \A k \in Jobs : k # j => job'[k] = job[k]
  BY <1>2, OrphanedTypes
<1>4. ASSUME NEW u \in Threads, u # t, thread[u].pc = "wait" PROVE job'[thread[u].job] = job[thread[u].job]
  <2>1. thread[u].job \in Jobs /\ thread[u].job # j
    BY <1>1, <1>2, <1>4 DEF ToolsInv, Waiting
  <2> QED BY <1>3, <2>1
<1>5. thread'[t] = Away /\ \A u \in Threads : u # t => thread'[u] = thread[u]
  BY <1>2 DEF TimesOut, Raises
<1> QED BY <1>2, <1>3, <1>4, <1>5, OrphanedSteps, GivenUp

LEMMA RestartViews ==
  ASSUME ToolsInv, ViewsInv, NEW c \in Controllers, Restart(c)
  PROVE  ViewsInv'
<1> DEFINE lost == {thread[t].job : t \in {u \in Threads : Own(u) = c /\ thread[u].pc = "wait"}}
<1>1. /\ thread' = [t \in Threads |-> IF Own(t) = c THEN Away ELSE thread[t]]
      /\ job' = [j \in Jobs |-> IF j \in lost THEN Orphaned(j)[j] ELSE job[j]]
      /\ verified' = [verified EXCEPT ![c] = [n \in Node |-> 0]]
      /\ UNCHANGED <<runtime, clean>>
  BY DEF Restart
<1>2. verified \in [Controllers -> [Node -> 0..Newest]]
  BY TypesSplit DEF ToolsInv, ThreadTypes
<1>3. ASSUME NEW u \in Threads, Own(u) # c, thread[u].pc = "wait" PROVE job'[thread[u].job] = job[thread[u].job]
  <2>1. thread[u].job \in Jobs /\ thread[u].job \notin lost
    BY <1>3 DEF ToolsInv, Waiting
  <2> QED BY <1>1, <2>1
<1>4. \A j \in Jobs : \/ job'[j] = job[j]
                      \/ job'[j] = NoJob
                      \/ job'[j] = [job[j] EXCEPT !.wanted = FALSE] /\ job[j].pc # "done"
  BY <1>1, OrphanedSteps
<1> HIDE DEF lost
<1>5. \A d \in Controllers, n \in Node : verified'[d][n] \in {verified[d][n], 0}
  BY <1>1, <1>2
<1> QED BY <1>1, <1>3, <1>4, <1>5, GivenUp

(* What an installer at work does to its node nobody else has seen.        *)
LEMMA WorkViews ==
  ASSUME ToolsInv, ViewsInv, UNCHANGED <<thread, verified, clean>>,
         NEW j \in Jobs, job[j].pc \in {"installing", "gap"},
         \A m \in Node : m # On(j) => runtime'[m] = runtime[m],
         NEW new, job' = [job EXCEPT ![j] = new],
         job[j].wanted => new.node = On(j) /\ new.version = job[j].version,
         new.pc \in {"installing", "gap", "done"} => new.node = On(j),
         new.pc = "done" => \A p \in 1..Len(Parts) : runtime'[On(j)][p] = new.version
  PROVE  ViewsInv'
<1>1. job'[j] = new /\ \A k \in Jobs : k # j => job'[k] = job[k] /\ On(k)' = On(k)
  BY TypesSplit DEF ToolsInv, NodeTypes, On
<1>2. \A w \in Threads \cup Controllers \cup Jobs : w # j => <<w, On(j)>> \notin clean
  BY DEF ViewsInv, WorkUnseen
<1>3. ASSUME NEW t \in Threads, NEW n \in Node
      PROVE  Passed(t, n)' = Passed(t, n) /\ Working(t, n)' = Working(t, n) /\ At(t)' = At(t)
  BY Rests
<1>4. ThreadsSee'
  BY <1>2, <1>3, Disjoint DEF ViewsInv, ThreadsSee, Whole
<1>5. ControllersSee'
  BY <1>2, Disjoint DEF ViewsInv, ControllersSee, Whole
<1>6. ASSUME NEW k \in Jobs, job'[k].pc = "done", <<k, job'[k].node>> \in clean'
      PROVE  \A p \in 1..Len(Parts) : runtime'[job'[k].node][p] = job'[k].version
  <2>1. CASE k = j
    BY <1>1, <1>6, <2>1
  <2>2. CASE k # j
    <3>1. job'[k] = job[k] /\ On(k) # On(j) /\ On(k) \in Node
      BY <1>1, <1>2, <1>6, <2>2, Holding DEF On
    <3>2. Whole(On(k), job[k].version)
      BY <1>6, <3>1 DEF ViewsInv, InstallersSee, On
    <3> QED BY <3>1, <3>2 DEF Whole, On
  <2> QED BY <2>1, <2>2
<1>7. InstallersSee'
  BY <1>6 DEF InstallersSee, Whole, On
<1>8. ASSUME NEW k \in Jobs, job'[k].pc \in {"installing", "gap"},
             NEW w \in Threads \cup Controllers \cup Jobs, w # k
      PROVE  <<w, job'[k].node>> \notin clean'
  BY <1>1, <1>2, <1>8 DEF ViewsInv, WorkUnseen, On
<1>9. WorkUnseen'
  BY <1>8 DEF WorkUnseen, On
<1>10. ASSUME NEW t \in Threads, thread[t].pc = "wait"
       PROVE  /\ job'[thread[t].job].node = job[thread[t].job].node
              /\ job'[thread[t].job].version = job[thread[t].job].version
  <2>1. thread[t].job \in Jobs /\ job[thread[t].job].wanted
    BY <1>10 DEF ToolsInv, Waiting
  <2>2. CASE thread[t].job = j
    BY <1>1, <2>1, <2>2 DEF On
  <2>3. CASE thread[t].job # j
    BY <1>1, <2>1, <2>3
  <2> QED BY <2>2, <2>3
<1>11. Errands'
  BY <1>10 DEF ViewsInv, Errands, At
<1> QED BY <1>4, <1>5, <1>7, <1>9, <1>11 DEF ViewsInv

(* The end of an installer tells of nothing new but its exit code.         *)
LEMMA EndViews ==
  ASSUME ToolsInv, NEW j \in Jobs, NEW pc \in {"done", "failed"}, End(j, pc)
  PROVE  \E new \in Job : /\ job' = [job EXCEPT ![j] = new]
                          /\ (job[j].wanted => new.node = On(j) /\ new.version = job[j].version)
                          /\ new.pc \in {pc, "free"}
                          /\ (new.pc = pc => new.node = On(j) /\ new.version = job[j].version)
<1>1. job[j] \in Job
  BY TypesSplit DEF ToolsInv, NodeTypes
<1>2. CASE job[j].wanted
  <2> DEFINE new == [job[j] EXCEPT !.pc = pc]
  <2>1. new \in Job /\ new.pc = pc /\ new.node = On(j) /\ new.version = job[j].version
    BY <1>1 DEF Job, On
  <2>2. job' = [job EXCEPT ![j] = new]
    BY <1>2 DEF End
  <2> QED BY <2>1, <2>2
<1>3. CASE ~job[j].wanted
  BY <1>3, Constants DEF End
<1> QED BY <1>2, <1>3

(* An installer that is not at work touches nothing.                       *)
LEMMA AsideViews ==
  ASSUME ToolsInv, ViewsInv, UNCHANGED <<thread, verified, clean, runtime>>,
         NEW j \in Jobs, NEW new, job' = [job EXCEPT ![j] = new],
         job[j].wanted => new.node = On(j) /\ new.version = job[j].version,
         new.pc \notin {"done", "installing", "gap"}
  PROVE  ViewsInv'
<1>1. job'[j] = new /\ \A k \in Jobs : k # j => job'[k] = job[k]
  BY TypesSplit DEF ToolsInv, NodeTypes
<1>2. ASSUME NEW t \in Threads, thread[t].pc = "wait"
      PROVE  /\ job'[thread[t].job].node = job[thread[t].job].node
             /\ job'[thread[t].job].version = job[thread[t].job].version
  <2>1. thread[t].job \in Jobs /\ job[thread[t].job].wanted
    BY <1>2 DEF ToolsInv, Waiting
  <2>2. CASE thread[t].job = j
    BY <1>1, <2>1, <2>2 DEF On
  <2>3. CASE thread[t].job # j
    BY <1>1, <2>1, <2>3
  <2> QED BY <2>2, <2>3
<1>3. Errands'
  BY <1>2 DEF ViewsInv, Errands, At
<1>4. \A t \in Threads, n \in Node : Passed(t, n)' /\ ~Working(t, n)' =>
        Passed(t, n) /\ ~Working(t, n) /\ thread'[t].want[n] = thread[t].want[n]
  BY Rests
<1>5. \A k \in Jobs : /\ (job'[k].pc = "done" => job'[k] = job[k])
                      /\ (job'[k].pc \in {"installing", "gap"} =>
                            job[k].pc \in {"installing", "gap"} /\ job'[k].node = job[k].node)
  BY <1>1
<1> QED BY <1>3, <1>4, <1>5, NoNews

LEMMA InstallViews ==
  ASSUME ToolsInv, ViewsInv, NEW j \in Jobs, Install(j)
  PROVE  ViewsInv'
<1> DEFINE new == [job[j] EXCEPT !.pc = "installing"]
<1>1. /\ UNCHANGED <<verified, thread, runtime>> /\ job[j].pc = "staged"
      /\ job' = [job EXCEPT ![j] = new]
      /\ clean' = {view \in clean : view[2] # On(j)} \cup {<<j, On(j)>>}
  BY DEF Install, Step
<1>2. new.pc = "installing" /\ new.node = On(j) /\ new.version = job[j].version
  BY <1>1, Holding DEF Job, On
<1> HIDE DEF new
<1>3. job'[j] = new /\ \A k \in Jobs : k # j => job'[k] = job[k]
  BY <1>1, TypesSplit DEF ToolsInv, NodeTypes
<1>4. \A w, m : <<w, m>> \in clean' => (<<w, m>> \in clean /\ m # On(j)) \/ (w = j /\ m = On(j))
  BY <1>1
<1>5. ThreadsSee'
  BY <1>1, <1>4, Rests, Disjoint DEF ViewsInv, ThreadsSee, Whole
<1>6. ControllersSee'
  BY <1>1, <1>4, Disjoint DEF ViewsInv, ControllersSee, Whole
<1>7. InstallersSee'
  BY <1>1, <1>2, <1>3, <1>4 DEF ViewsInv, InstallersSee, Whole, On
<1>8. ASSUME NEW k \in Jobs, job'[k].pc \in {"installing", "gap"},
             NEW w \in Threads \cup Controllers \cup Jobs, w # k
      PROVE  <<w, job'[k].node>> \notin clean'
  <2>1. CASE k = j
    BY <1>2, <1>3, <1>4, <1>8, <2>1
  <2>2. CASE k # j
    <3>1. job'[k] = job[k] /\ <<w, On(k)>> \notin clean /\ On(k) # On(j)
      <4>1. job'[k] = job[k] /\ <<w, On(k)>> \notin clean
        BY <1>3, <1>8, <2>2 DEF ViewsInv, WorkUnseen
      <4>2. holder[On(k)] = k /\ holder[On(j)] = j
        BY <1>1, <1>8, <4>1, Holding DEF Inside
      <4> QED BY <2>2, <4>1, <4>2
    <3> QED BY <1>4, <3>1 DEF On
  <2> QED BY <2>1, <2>2
<1>9. WorkUnseen'
  BY <1>8 DEF WorkUnseen, On
<1>10. \A k \in Jobs : job'[k].node = job[k].node /\ job'[k].version = job[k].version
  BY <1>2, <1>3 DEF On
<1>11. Errands'
  BY <1>1, <1>10 DEF ViewsInv, Errands, At, ToolsInv, Waiting
<1> QED BY <1>5, <1>6, <1>7, <1>9, <1>11 DEF ViewsInv

LEMMA InstallerViews ==
  ASSUME ToolsInv, ViewsInv, NEW j \in Jobs,
         Installer(j) \/ LockWaitEnds(j) \/ MoveInFails(j) \/ Stops(j)
  PROVE  ViewsInv'
<1>1. job[j] \in Job /\ job \in [Jobs -> Job] /\ On(j) \in Node /\ runtime \in [Node -> [1..Len(Parts) -> 0..Newest]]
  BY Holding DEF NodeTypes
<1>2. CASE TakeLock(j)
  <2> DEFINE new == [job[j] EXCEPT !.pc = "staged"]
  <2>1. new.pc = "staged" /\ new.node = On(j) /\ new.version = job[j].version
    BY <1>1 DEF Job, On
  <2>2. job' = [job EXCEPT ![j] = new] /\ UNCHANGED <<thread, verified, clean, runtime>>
    BY <1>2 DEF TakeLock, Step
  <2> HIDE DEF new
  <2> QED BY <2>1, <2>2, AsideViews
<1>3. CASE LockWaitEnds(j) \/ Stops(j)
  <2>1. End(j, "failed") /\ UNCHANGED <<thread, verified, clean, runtime>>
    BY <1>3 DEF LockWaitEnds, Stops
  <2> QED BY <2>1, EndViews, AsideViews
<1>4. CASE MoveAside(j)
  <2> DEFINE new == [job[j] EXCEPT !.pc = "gap", !.old = runtime[On(j)][job[j].i]]
  <2>1. new.pc = "gap" /\ new.node = On(j) /\ new.version = job[j].version
    BY <1>1 DEF Job, On
  <2>2. job' = [job EXCEPT ![j] = new] /\ UNCHANGED <<thread, verified, clean>> /\ job[j].pc = "installing"
    BY <1>1, <1>4 DEF MoveAside, Job
  <2>3. \A m \in Node : m # On(j) => runtime'[m] = runtime[m]
    BY <1>1, <1>4 DEF MoveAside
  <2> HIDE DEF new
  <2> QED BY <2>1, <2>2, <2>3, WorkViews
<1>5. CASE MoveIn(j)
  <2> DEFINE new == [job[j] EXCEPT !.pc = "installing", !.i = @ + 1]
  <2>1. new.pc = "installing" /\ new.node = On(j) /\ new.version = job[j].version
    BY <1>1 DEF Job, On
  <2>2. job' = [job EXCEPT ![j] = new] /\ UNCHANGED <<thread, verified, clean>> /\ job[j].pc \in {"installing", "gap"}
    BY <1>1, <1>5 DEF MoveIn, Job
  <2>3. \A m \in Node : m # On(j) => runtime'[m] = runtime[m]
    BY <1>1, <1>5 DEF MoveIn
  <2> HIDE DEF new
  <2> QED BY <2>1, <2>2, <2>3, WorkViews
<1>6. CASE MoveInFails(j)
  <2>1. End(j, "failed") /\ UNCHANGED <<thread, verified, clean>> /\ job[j].pc = "gap"
    BY <1>6 DEF MoveInFails
  <2>2. \A m \in Node : m # On(j) => runtime'[m] = runtime[m]
    BY <1>1, <1>6 DEF MoveInFails
  <2>3. PICK new \in Job : /\ job' = [job EXCEPT ![j] = new]
                           /\ (job[j].wanted => new.node = On(j) /\ new.version = job[j].version)
                           /\ new.pc \in {"failed", "free"}
    BY <2>1, EndViews
  <2> QED BY <2>1, <2>2, <2>3, WorkViews
<1>7. CASE WriteStamp(j)
  <2>1. End(j, "done") /\ UNCHANGED <<thread, verified, clean, runtime>> /\ job[j].pc = "installing"
        /\ job[j].i > Len(Parts)
    BY <1>7 DEF WriteStamp
  <2>2. \A p \in 1..Len(Parts) : runtime[On(j)][p] = job[j].version
    <3>1. job[j].i \in Nat /\ Len(Parts) \in Nat
      BY SMTT(60), <1>1, Constants DEF Job
    <3>2. \A p \in 1..Len(Parts) : p < job[j].i
      BY <2>1, <3>1
    <3> QED BY <2>1, <3>2, Holding
  <2>3. PICK new \in Job : /\ job' = [job EXCEPT ![j] = new]
                           /\ (job[j].wanted => new.node = On(j) /\ new.version = job[j].version)
                           /\ new.pc \in {"done", "free"}
                           /\ (new.pc = "done" => new.node = On(j) /\ new.version = job[j].version)
    BY <2>1, EndViews
  <2> QED BY <2>1, <2>2, <2>3, WorkViews
<1> QED BY <1>2, <1>3, <1>4, <1>5, <1>6, <1>7, InstallViews DEF Installer

LEMMA ViewsStep == ToolsInv /\ ViewsInv /\ [Next]_vars => ViewsInv'
<1> SUFFICES ASSUME ToolsInv, ViewsInv, [Next]_vars PROVE ViewsInv'
  OBVIOUS
<1>1. ASSUME NEW t \in Threads, Ensure(t) \/ PushFails(t) \/ TimesOut(t) PROVE ViewsInv'
  BY <1>1, EnterViews, PullViews, IdleViews, PushViews, ReturnViews, TimesOutViews DEF Ensure
<1>2. ASSUME NEW j \in Jobs, Installer(j) \/ LockWaitEnds(j) \/ MoveInFails(j) \/ Stops(j) PROVE ViewsInv'
  BY <1>2, InstallerViews
<1>3. CASE /\ UNCHANGED <<thread, runtime, job, clean>>
           /\ \A d \in Controllers, n \in Node : verified'[d][n] \in {verified[d][n], 0}
  <2>1. Errands'
    BY <1>3 DEF ViewsInv, Errands, At
  <2>2. \A t \in Threads, n \in Node : Passed(t, n)' /\ ~Working(t, n)' =>
          Passed(t, n) /\ ~Working(t, n) /\ thread'[t].want[n] = thread[t].want[n]
    BY <1>3, Rests
  <2> QED BY <1>3, <2>1, <2>2, NoNews
<1>4. ASSUME NEW c \in Controllers, Upgrade(c) \/ \E n \in Node : Expire(c, n) PROVE ViewsInv'
  <2>1. verified \in [Controllers -> [Node -> 0..Newest]]
    BY TypesSplit DEF ToolsInv, ThreadTypes
  <2> QED BY <1>3, <1>4, <2>1 DEF Upgrade, Expire
<1>5. CASE UNCHANGED vars
  BY <1>3, <1>5 DEF vars
<1> QED BY <1>1, <1>2, <1>4, <1>5, RestartViews DEF Next

-----------------------------------------------------------------------------
(* Theorems *)

(* The variables of webapp/tools_sync.py and of its installer script keep  *)
(* their types, and the install lock its holder.                           *)
THEOREM ToolsTypesHold == Spec => []ToolsTypeOK
<1>1. ToolsInv => ToolsTypeOK
  BY DEF ToolsInv
<1> QED BY ToolsInit, ToolsStep, <1>1, PTL DEF Spec

(* However installers of any number of servers follow each other on a      *)
(* node, and wherever they are killed, a stamp there is the truth about    *)
(* every part of the runtime (the installer script of _ensure_tools).      *)
THEOREM StampsTellRuntime == Spec => []StampTellsRuntime
<1>1. ToolsInv => StampTellsRuntime
  BY DEF ToolsInv
<1> QED BY ToolsInit, ToolsStep, <1>1, PTL DEF Spec

(* The tool that a thread goes on to run is of its own version and whole,  *)
(* unless another installer has begun on the node since: also where other  *)
(* threads saw the node for it, the files of its server changed meanwhile, *)
(* or answers of installers were lost (ensure_host_tools, _verified_at).   *)
THEOREM ToolsRunAreOurs == Spec => []ToolsAreOurs
<1>1. ViewsInv => ToolsAreOurs
  BY DEF ViewsInv, ThreadsSee, Passed, Working, ToolsAreOurs
<1> QED BY ToolsInit, ToolsStep, ViewsInit, ViewsStep, <1>1, PTL DEF Spec
=============================================================================
