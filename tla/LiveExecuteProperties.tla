----------------------- MODULE LiveExecuteProperties -----------------------
(***************************************************************************)
(* What live execution has to keep true of a plan that exists in several   *)
(* copies while sessions, executors and controllers die.                   *)
(***************************************************************************)
EXTENDS LiveExecute, RunRegistryProperties

Phases == {"none", "named", "sent", "begun", "working", "reported", "over", "dead"}
Steps  == {"idle", "select", "push", "record", "launch", "poll", "import", "verify", "return"}
Plan   == [Task -> [status : {"pending", "running"} \cup Terminal, gen : 0..MaxRetries]]

Launches == [run : Runs \cup {None}, task : Task \cup {None}, gen : 0..MaxRetries,
             phase : Phases, did : Terminal \cup {"nothing"}, rc : {0, 1}]
Functions == [pc : Steps, many : BOOLEAN, task : Task \cup {None}, job : Jobs \cup {None}]

(* Every variable keeps its type, and a reconcile inspects exactly while   *)
(* it holds the registry's lock.                                           *)
LiveTypeOK ==
  /\ RegistryTypeOK
  /\ local \in Plan /\ host \in [Node -> Plan]
  /\ launch \in [Jobs -> Launches] /\ at \in [Runs -> Functions]
  /\ look \in {"none", "poll", "import", "verify"}
  /\ look = "none" <=> inspection = NoInspection

Alive(j) == launch[j].phase \in {"sent", "begun", "working", "reported"}

(* At most one executor of the plan is alive, or still on its way to its   *)
(* host, whatever was lost in between (_run_detached_remote,               *)
(* reconcile_detached_run).                                                *)
OneExecutor == \A i, j \in Jobs : Alive(i) /\ Alive(j) => i = j

(* A run is closed only when all it launched has ended: an outcome that is *)
(* not known stays open (docs/WEBAPP_CONTROL_PLANE.md:69-90).              *)
ResolvedMeansOver ==
  \A r \in Runs, j \in Jobs : disk[r].status \in Resolved /\ launch[j].run = r => Over(j)

(* No attempt of a task is worked on twice: a second launch of a task      *)
(* needs a retry in between, although retries and reconciles overwrite     *)
(* each other's copies (_execute_live, retry_task).                        *)
OncePerAttempt ==
  \A i, j \in Jobs :
    /\ i # j /\ launch[i].task = launch[j].task
    /\ {launch[i].phase, launch[j].phase} \cap {"none", "named", "sent", "begun"} = {}
    /\ {launch[i].did, launch[j].did} \cap {"nothing"} = {}
    => launch[i].gen # launch[j].gen

(* Each piece of work is done once and by one at a time, over the threads  *)
(* of all servers, their executors and the retries of a task.              *)
ExecutedOnce == LiveTypeOK /\ KeyExclusive /\ WorkIsOnFile /\ OneExecutor /\ OncePerAttempt

(* A run that launched something is closed on the sealed outcome of its    *)
(* task only, which its exit record confirms (Verify, LookVerify).         *)
ClosedOnVerifiedOutcome ==
  \A r \in Runs, j \in Jobs :
    disk[r].status \in Resolved /\ launch[j].run = r =>
      launch[j].did = IF launch[j].rc = 0 THEN "succeeded" ELSE "failed"

(* A run that ends well launched nothing that failed, also when another    *)
(* process closed it (Return, reconcile_detached_run).                     *)
SucceededRunsSucceed ==
  \A r \in Runs, j \in Jobs :
    disk[r].status = "succeeded" /\ launch[j].run = r => launch[j].rc = 0

(* What a closed run says of its work is over and true, whoever closed it. *)
ClosedRunsAreTrue == ResolvedMeansOver /\ ClosedOnVerifiedOutcome /\ SucceededRunsSucceed

(* While an executor is alive nobody but it changes its host's copy: a     *)
(* push never runs over work in progress (_sync_plan_to_host).             *)
NoPushUnderExecutor ==
  [][\A j \in Jobs : launch[j].phase \in {"begun", "working", "reported"} =>
       \A t \in Task : host'[HostOf(j)][t] # host[HostOf(j)][t] =>
         t = launch[j].task /\ host'[HostOf(j)][t].status # "pending"]_vars

(* A success that reached the controller is never lost again, although     *)
(* every import replaces the whole copy by that of some host               *)
(* (_sync_plan_from_host).                                                 *)
SuccessKept ==
  [][\A t \in Task : local[t].status = "succeeded" => local'[t].status = "succeeded"]_vars

(* The function of a run returns or raises, whatever the host does: no     *)
(* thread polls for ever (_run_detached_remote).                           *)
RunsReturn == \A r \in Runs : Running(r) ~> ~Running(r)

-----------------------------------------------------------------------------
(* Inductive strengthenings *)

Open(r) == disk[r].status \in Unresolved
Last(r) == disk[r].context.job
Did(j)  == launch[j].did # "nothing"

(* A launch that is over, and whose exit record says what its task does.   *)
Done(j) == Over(j) /\ launch[j].did = IF launch[j].rc = 0 THEN "succeeded" ELSE "failed"

(* The last launch of the open run, until it is verified.                  *)
Doubt(j) == \E r \in Runs : Open(r) /\ InDoubt(disk[r]) /\ Last(r) = j

(* A copy of the plan is past what a launch has done to its task, ...      *)
Knows(plan, j) == LET t == launch[j].task
                  IN  Did(j) => \/ plan[t].gen > launch[j].gen
                                \/ plan[t].gen = launch[j].gen /\ plan[t].status \in Terminal
KnowsAll(plan) == \A j \in Jobs : Knows(plan, j)

(* ... has no outcome of its task from elsewhere, ...                      *)
Tells(plan, j) == plan[launch[j].task].status \in Terminal =>
                    launch[j].did = plan[launch[j].task].status

(* ... and has every success that the controller's copy has.               *)
KeepsSuccess(plan) == \A t \in Task : local[t].status = "succeeded" => plan[t].status = "succeeded"

(* A launch belongs to a run.  It is over and what it did is known, or the *)
(* open run it is the last launch of is in doubt; one at work holds an     *)
(* attempt of its task that no launch before it has worked on.             *)
LaunchInv(j) ==
  launch[j] # NotSent =>
    /\ launch[j].phase # "none" /\ launch[j].run \in Runs /\ launch[j].task \in Task
    /\ Last(launch[j].run) # None
    /\ (Last(launch[j].run) # j => launch[j].rc = 0)
    /\ Doubt(j) \/ (Done(j) /\ Knows(local, j))
    /\ (launch[j].phase \in {"named", "sent", "begun", "working"} => ~Did(j))
    /\ (launch[j].phase = "working" =>
          /\ host[HostOf(j)][launch[j].task].gen = launch[j].gen
          /\ \A i \in Jobs : Did(i) /\ launch[i].task = launch[j].task => launch[i].gen < launch[j].gen)

(* Two launches of a task that did something did it to different attempts. *)
Once == \A i, j \in Jobs : i # j /\ launch[i].task = launch[j].task /\ Did(i) /\ Did(j)
                            => launch[i].gen # launch[j].gen

(* What may be said of a run, in a status that is on file or about to be.  *)
Says(r, status) ==
  Last(r) # None =>
    /\ (status \in Resolved => Done(Last(r)) /\ Knows(local, Last(r)))
    /\ (status = "succeeded" => launch[Last(r)].rc = 0)

(* A copy on the host of the last launch may replace the controller's: it  *)
(* is ahead of all launches, and no copy is ahead of it.                   *)
Ahead(plan, j) == KnowsAll(plan) /\ Tells(plan, j) /\ KeepsSuccess(plan)

(* All memories and the file agree on the last launch of a run, and each   *)
(* of them says what is true.                                              *)
ContextInv(r) ==
  /\ (Last(r) # None => launch[Last(r)].phase # "none" /\ launch[Last(r)].run = r)
  /\ Says(r, disk[r].status)
  /\ \A c \in Controllers : cache[c][r] # NoRecord =>
       cache[c][r].context = disk[r].context /\ Says(r, cache[c][r].status)
  /\ (Open(r) /\ Last(r) # None =>
        /\ Ahead(host[HostOf(Last(r))], Last(r))
        /\ (disk[r].context.terminal => Tells(local, Last(r))))

(* Where the function of a run is, and what it relies on there.            *)
FunctionInv(r) ==
  LET t == at[r].task
      j == at[r].job IN
  /\ (worker[r] = "queued" => Last(r) = None /\ at[r].pc = "select")
  /\ (worker[r] = "running" => at[r].pc # "idle")
  /\ (In(r, "select") \/ In(r, "push") \/ In(r, "record") =>
        (Last(r) # None => disk[r].context.terminal /\ launch[Last(r)].rc = 0))
  /\ (In(r, "push") => t \in Task /\ local[t].status = "pending")
  /\ (In(r, "record") => /\ t \in Task /\ KnowsAll(host[NodeOf[t]]) /\ KeepsSuccess(host[NodeOf[t]])
                         /\ host[NodeOf[t]][t].status = "pending")
  /\ (In(r, "launch") \/ In(r, "poll") \/ In(r, "import") \/ In(r, "verify") =>
        j \in Jobs /\ disk[r].context = [job |-> j, terminal |-> FALSE])
  /\ (In(r, "launch") => launch[j].phase = "named")
  /\ (In(r, "import") => Over(j))
  /\ (In(r, "verify") => Over(j) /\ Knows(local, j) /\ Tells(local, j))
  /\ (In(r, "return") => j \in Jobs /\ disk[r].context = [job |-> j, terminal |-> TRUE])

LookInv ==
  look # "none" => /\ Last(inspection.run) # None
                   /\ (look \in {"import", "verify"} => Over(Last(inspection.run)))
                   /\ (look = "verify" => /\ Knows(local, Last(inspection.run))
                                          /\ Tells(local, Last(inspection.run)))

OneOpen == \A q, r \in Runs : Open(q) /\ Open(r) => q = r

LaunchesInv  == \A j \in Jobs : LaunchInv(j)
ContextsInv  == \A r \in Runs : ContextInv(r)
FunctionsInv == \A r \in Runs : FunctionInv(r)

LiveInv == OneOpen /\ LaunchesInv /\ Once /\ ContextsInv /\ FunctionsInv /\ LookInv
=============================================================================
