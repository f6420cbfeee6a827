---------------------------- MODULE RunRegistry ----------------------------
(***************************************************************************)
(* The run registry of the web control plane, webapp/pipeline_runner.py:   *)
(* a background thread per accepted request, at most one per operation     *)
(* key, whose ownership is a run.json written before the thread starts.    *)
(*                                                                         *)
(* A controller is one process of the server with its memory: the table    *)
(* RUNS (cache), the table _ACTIVE_KEYS (active) and its threads.  All     *)
(* controllers share the run files (disk) and the file lock of the         *)
(* registry.  A restart is another controller that comes up.  What a run   *)
(* does is left to the modules that extend this one: here it may record    *)
(* the coordinates of a detached launch (its context) and end either way.  *)
(***************************************************************************)
EXTENDS Naturals, FiniteSets

CONSTANTS
  Controllers,  \* processes of the server, each started at most once
  Keys,         \* operation keys, such as plan:P:execute
  Runs,         \* run identifiers
  Jobs,         \* detached launches a context may point to
  Overlap,      \* a controller may come up while another still runs
  DiskMayFail,  \* the last write of a run may fail
  None

ASSUME RegistryAssumption ==
  /\ Overlap \in BOOLEAN /\ DiskMayFail \in BOOLEAN
  /\ None \notin Controllers \cup Keys \cup Runs \cup Jobs

VARIABLES
  up,          \* life of a controller: new, up or dead
  disk,        \* runs/<id>/run.json
  cache,       \* RUNS of each controller
  active,      \* _ACTIVE_KEYS of each controller
  worker,      \* the thread of a run, in the controller that owns it
  inspection   \* the reconcile that holds .registry.lock while it inspects

registryVars == <<up, disk, cache, active, worker, inspection>>

Unresolved == {"queued", "running", "unknown"}
Resolved   == {"succeeded", "failed"}
Executing  == {"queued", "running"}

NoContext == [job |-> None, terminal |-> FALSE]
NoRecord  == [key |-> None, status |-> "absent", owner |-> None, context |-> NoContext]
NoInspection == [by |-> None, run |-> None]

Detached(rec) == rec.context.job # None
InDoubt(rec)  == Detached(rec) /\ ~rec.context.terminal

Owner(r) == disk[r].owner
Running(r) == worker[r] \in Executing

(* _persist: the memory of controller c and the file agree from now on.    *)
Save(c, r, rec) == /\ cache' = [cache EXCEPT ![c][r] = rec]
                   /\ disk' = [disk EXCEPT ![r] = rec]

(* The key is freed in the controller's memory, if the run still holds it. *)
Free(c, r, rec) ==
  active' = IF rec.status \in Resolved /\ active[c][rec.key] = r
            THEN [active EXCEPT ![c][rec.key] = None] ELSE active

-----------------------------------------------------------------------------
(* start_run *)

(* Mutant: only the memory of the process is asked.                        *)
ClaimedInMemory(c, k) == active[c][k] # None

(* Mutant: a run of a lost controller no longer counts.                    *)
ClaimedByTheLiving(c, k) ==
  \/ active[c][k] # None
  \/ \E q \in Runs : disk[q].key = k /\ disk[q].status \in Unresolved /\ up[Owner(q)] = "up"

Claimed(c, k) ==
  \/ active[c][k] # None
  \/ \E q \in Runs : disk[q].key = k /\ disk[q].status \in Unresolved

StartRun(c, k, r) ==
  /\ up[c] = "up" /\ inspection = NoInspection
  /\ disk[r] = NoRecord /\ ~Claimed(c, k)
  /\ Save(c, r, [key |-> k, status |-> "queued", owner |-> c, context |-> NoContext])
  /\ active' = [active EXCEPT ![c][k] = r]
  /\ worker' = [worker EXCEPT ![r] = "queued"]
  /\ UNCHANGED <<up, inspection>>

(* The thread cannot be started.                                           *)
ThreadFails(r) ==
  /\ worker[r] = "queued"
  /\ LET c == Owner(r)
         rec == [cache[c][r] EXCEPT !.status = "failed"]
     IN Save(c, r, rec) /\ Free(c, r, rec)
  /\ worker' = [worker EXCEPT ![r] = "done"]
  /\ UNCHANGED <<up, inspection>>

-----------------------------------------------------------------------------
(* worker *)

WorkerBegins(r) ==
  /\ worker[r] = "queued"
  /\ Save(Owner(r), r, [cache[Owner(r)][r] EXCEPT !.status = "running"])
  /\ worker' = [worker EXCEPT ![r] = "running"]
  /\ UNCHANGED <<up, active, inspection>>

SetContext(r, context) ==
  /\ worker[r] = "running"
  /\ Save(Owner(r), r, [cache[Owner(r)][r] EXCEPT !.context = context])
  /\ UNCHANGED <<up, active, worker, inspection>>

(* Mutant: whatever raises has failed.                                     *)
RaisedFailed(rec) == "failed"

(* The status after an exception: a launch whose end was not verified is   *)
(* unknown.                                                                *)
Raised(rec) == IF InDoubt(rec) THEN "unknown" ELSE "failed"

WorkerEnds(r, returns) ==
  /\ worker[r] = "running"
  /\ LET c == Owner(r)
     IN cache' = [cache EXCEPT ![c][r].status = IF returns THEN "succeeded" ELSE Raised(cache[c][r])]
  /\ worker' = [worker EXCEPT ![r] = "ended"]
  /\ UNCHANGED <<up, disk, active, inspection>>

(* The outcome is written, then the key is freed.                          *)
Settle(r) ==
  /\ worker[r] = "ended"
  /\ disk' = [disk EXCEPT ![r] = cache[Owner(r)][r]]
  /\ Free(Owner(r), r, cache[Owner(r)][r])
  /\ worker' = [worker EXCEPT ![r] = "done"]
  /\ UNCHANGED <<up, cache, inspection>>

(* The outcome cannot be written: the file keeps the owner, memory the key. *)
SettleFails(r) ==
  /\ DiskMayFail /\ worker[r] = "ended"
  /\ cache' = [cache EXCEPT ![Owner(r)][r].status = "unknown"]
  /\ worker' = [worker EXCEPT ![r] = "done"]
  /\ UNCHANGED <<up, disk, active, inspection>>

-----------------------------------------------------------------------------
(* get_run and reconcile_run *)

(* _load_persisted: an unfinished run of another process is unknown.       *)
Loaded(c, r) ==
  IF disk[r].status \in Unresolved /\ Owner(r) # c
  THEN [disk[r] EXCEPT !.status = "unknown"] ELSE disk[r]

(* get_run: what was loaded once is never read again.                      *)
Known(c, r) == IF cache[c][r] = NoRecord THEN Loaded(c, r) ELSE cache[c][r]

GetRun(c, r) ==
  /\ up[c] = "up" /\ cache[c][r] = NoRecord /\ disk[r] # NoRecord
  /\ cache' = [cache EXCEPT ![c][r] = Loaded(c, r)]
  /\ UNCHANGED <<up, disk, active, worker, inspection>>

(* Mutant: a run in progress may be reconciled as well.                    *)
ReconcilableAny(rec) == rec.status \in Unresolved

Reconcilable(rec) == rec.status = "unknown"

InspectionBegins(c, r) ==
  /\ up[c] = "up" /\ inspection = NoInspection
  /\ Reconcilable(Known(c, r)) /\ Detached(Known(c, r))
  /\ cache' = [cache EXCEPT ![c][r] = Known(c, r)]
  /\ inspection' = [by |-> c, run |-> r]
  /\ UNCHANGED <<up, disk, active, worker>>

InspectionEnds(outcome) ==
  /\ inspection # NoInspection
  /\ LET c == inspection.by
         r == inspection.run
         rec == [cache[c][r] EXCEPT !.status = outcome]
     IN Save(c, r, rec) /\ Free(c, r, rec)
  /\ inspection' = NoInspection
  /\ UNCHANGED <<up, worker>>

(* Mutant: the operator's word is enough.                                  *)
OwnerGoneOnWord(rec) == TRUE

(* _owner_alive, for processes of one host whose numbers are not reused.   *)
OwnerGone(rec) == up[rec.owner] # "up"

(* Work that launched nothing is closed on the word of an operator.        *)
CloseByHand(c, r) ==
  /\ up[c] = "up" /\ inspection = NoInspection
  /\ Reconcilable(Known(c, r)) /\ ~Detached(Known(c, r)) /\ OwnerGone(Known(c, r))
  /\ LET rec == [Known(c, r) EXCEPT !.status = "failed"]
     IN Save(c, r, rec) /\ Free(c, r, rec)
  /\ UNCHANGED <<up, worker, inspection>>

-----------------------------------------------------------------------------
(* The processes *)

ControllerStarts(c) ==
  /\ up[c] = "new"
  /\ Overlap \/ \A d \in Controllers : up[d] # "up"
  /\ up' = [up EXCEPT ![c] = "up"]
  /\ UNCHANGED <<disk, cache, active, worker, inspection>>

(* Threads, tables and locks go with the process; files stay.              *)
ControllerDies(c) ==
  /\ up[c] = "up"
  /\ up' = [up EXCEPT ![c] = "dead"]
  /\ cache' = [cache EXCEPT ![c] = [r \in Runs |-> NoRecord]]
  /\ active' = [active EXCEPT ![c] = [k \in Keys |-> None]]
  /\ worker' = [r \in Runs |-> IF Owner(r) = c THEN "done" ELSE worker[r]]
  /\ inspection' = IF inspection.by = c THEN NoInspection ELSE inspection
  /\ UNCHANGED disk

RegistryInit ==
  /\ up = [c \in Controllers |-> "new"]
  /\ disk = [r \in Runs |-> NoRecord]
  /\ cache = [c \in Controllers |-> [r \in Runs |-> NoRecord]]
  /\ active = [c \in Controllers |-> [k \in Keys |-> None]]
  /\ worker = [r \in Runs |-> "none"]
  /\ inspection = NoInspection

Contexts == [job : Jobs \cup {None}, terminal : BOOLEAN]

RegistryNext ==
  \/ \E c \in Controllers : ControllerStarts(c) \/ ControllerDies(c)
  \/ \E c \in Controllers, r \in Runs :
       \/ \E k \in Keys : StartRun(c, k, r)
       \/ GetRun(c, r) \/ InspectionBegins(c, r) \/ CloseByHand(c, r)
  \/ \E r \in Runs :
       \/ ThreadFails(r) \/ WorkerBegins(r) \/ Settle(r) \/ SettleFails(r)
       \/ \E context \in Contexts : SetContext(r, context)
       \/ \E returns \in BOOLEAN : WorkerEnds(r, returns)
  \/ \E outcome \in Resolved \cup {"unknown"} : InspectionEnds(outcome)

RegistrySpec == RegistryInit /\ [][RegistryNext]_registryVars
=============================================================================
