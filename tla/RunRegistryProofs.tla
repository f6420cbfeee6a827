------------------------- MODULE RunRegistryProofs -------------------------
(***************************************************************************)
(* Proofs about the run registry, for any number of controllers, keys and  *)
(* runs.                                                                   *)
(***************************************************************************)
EXTENDS RunRegistryProperties, TLAPS

(* Types *)

(* The statuses are apart, and no record is a record.                      *)
LEMMA RecordTypes ==
  /\ NoContext \in Contexts /\ NoRecord \in Record
  /\ \A rec \in Record : rec = NoRecord => rec.status = "absent"
BY DEF NoContext, Contexts, NoRecord, Record

(* A status set in a record leaves the rest of it.                         *)
LEMMA StatusTypes ==
  ASSUME NEW rec \in Record, NEW status \in Unresolved \cup Resolved
  PROVE  /\ [rec EXCEPT !.status = status] \in Record
         /\ [rec EXCEPT !.status = status].key = rec.key
         /\ [rec EXCEPT !.status = status].owner = rec.owner
         /\ [rec EXCEPT !.status = status].status = status
         /\ status # "absent"
BY DEF Record, Unresolved, Resolved

(* Before the first controller there is nothing.                           *)
LEMMA TypeInit == RegistryInit => RegistryTypeOK
BY RecordTypes DEF RegistryInit, RegistryTypeOK, Places, NoRecord

(* A new value of one run, in a memory and on file.                        *)
LEMMA SaveTypes ==
  ASSUME RegistryTypeOK, NEW c \in Controllers, NEW r \in Runs, NEW rec \in Record,
         Save(c, r, rec),
         rec.key \in Keys, rec.owner \in Controllers, rec.status # "absent",
         disk[r] # NoRecord => rec.key = disk[r].key /\ rec.owner = disk[r].owner
  PROVE  /\ disk' \in [Runs -> Record] /\ cache' \in [Controllers -> [Runs -> Record]]
         /\ \A q \in Runs : disk'[q] # NoRecord =>
              disk'[q].key \in Keys /\ disk'[q].owner \in Controllers /\ disk'[q].status # "absent"
         /\ \A d \in Controllers, q \in Runs : cache'[d][q] # NoRecord =>
              /\ disk'[q] # NoRecord /\ cache'[d][q].status # "absent"
              /\ cache'[d][q].key = disk'[q].key /\ cache'[d][q].owner = disk'[q].owner
         /\ \A q \in Runs : worker[q] # "none" => disk'[q] # NoRecord
         /\ disk'[r] # NoRecord
<1>1. rec # NoRecord
  BY RecordTypes
<1> QED BY <1>1 DEF RegistryTypeOK, Save

LEMMA FreeTypes ==
  ASSUME RegistryTypeOK, NEW c \in Controllers, NEW r \in Runs, NEW rec \in Record, Free(c, r, rec)
  PROVE  active' \in [Controllers -> [Keys -> Runs \cup {None}]]
BY DEF RegistryTypeOK, Free

(* What a controller makes of a file it reads is a record of that file.    *)
LEMMA KnownTypes ==
  ASSUME RegistryTypeOK, NEW c \in Controllers, NEW r \in Runs, disk[r] # NoRecord
  PROVE  /\ Known(c, r) \in Record /\ Loaded(c, r) \in Record
         /\ Known(c, r).key = disk[r].key /\ Known(c, r).owner = disk[r].owner
         /\ Known(c, r).status # "absent"
         /\ Loaded(c, r).key = disk[r].key /\ Loaded(c, r).owner = disk[r].owner
         /\ Loaded(c, r).status # "absent"
BY ZenonT(60) DEF RegistryTypeOK, Known, Loaded, Record, Unresolved

(* A run whose thread is at work is cached by its owner, and cached runs   *)
(* have a file: these are the runs that the steps of a thread work on.     *)
WorkersCached == \A r \in Runs : worker[r] \in Executing \cup {"ended"} =>
                   up[Owner(r)] = "up" /\ cache[Owner(r)][r] # NoRecord

InspectionCached == inspection # NoInspection => cache[inspection.by][inspection.run] # NoRecord

RegistryTypes == RegistryTypeOK /\ WorkersCached /\ InspectionCached

(* A step that saves a run it knows, of a thread at work or of a reconcile. *)
LEMMA SaveKeepsTypes ==
  ASSUME RegistryTypes, NEW c \in Controllers, NEW r \in Runs, NEW rec \in Record,
         Save(c, r, rec), disk[r] # NoRecord,
         rec.key = disk[r].key, rec.owner = disk[r].owner, rec.status # "absent",
         active' = active \/ Free(c, r, rec),
         up' = up, worker' \in [Runs -> Places], inspection' \in {inspection, NoInspection},
         \A q \in Runs : worker'[q] # worker[q] => worker[q] \in Executing \cup {"ended"}
  PROVE  RegistryTypes'
<1>1. rec.key \in Keys /\ rec.owner \in Controllers
  BY DEF RegistryTypes, RegistryTypeOK
<1>2. RegistryTypeOK'
  <2>1. active' \in [Controllers -> [Keys -> Runs \cup {None}]]
    BY FreeTypes DEF RegistryTypes, RegistryTypeOK
  <2>2. \A q \in Runs : worker'[q] # "none" => worker[q] # "none"
    BY DEF Executing
  <2>3. inspection' \in [by : Controllers, run : Runs] \cup {NoInspection}
    BY DEF RegistryTypes, RegistryTypeOK
  <2>4. RegistryTypeOK /\ up' \in [Controllers -> {"new", "up", "dead"}]
    BY DEF RegistryTypes, RegistryTypeOK
  <2> HIDE DEF RegistryTypes
  <2> QED BY <1>1, <2>1, <2>2, <2>3, <2>4, SaveTypes DEF RegistryTypeOK
<1>3. rec # NoRecord
  BY RecordTypes
<1>4. WorkersCached'
  BY <1>1, <1>3 DEF Save, RegistryTypes, RegistryTypeOK, WorkersCached, Owner
<1>5. InspectionCached'
  BY <1>3 DEF Save, RegistryTypes, RegistryTypeOK, InspectionCached
<1> QED BY <1>2, <1>4, <1>5 DEF RegistryTypes

(* The run of a thread at work, as its owner knows it.                     *)
LEMMA WorkerRecord ==
  ASSUME RegistryTypes, NEW r \in Runs, worker[r] \in Executing \cup {"ended"}
  PROVE  /\ Owner(r) \in Controllers /\ disk[r] # NoRecord /\ up[Owner(r)] = "up"
         /\ cache[Owner(r)][r] \in Record /\ cache[Owner(r)][r].status # "absent"
         /\ cache[Owner(r)][r].key = disk[r].key /\ cache[Owner(r)][r].owner = disk[r].owner
BY DEF RegistryTypes, RegistryTypeOK, WorkersCached, Owner, Executing

(* Every step of the registry keeps types and caches.                      *)
LEMMA TypeStep == RegistryTypes /\ [RegistryNext]_registryVars => RegistryTypes'
<1> SUFFICES ASSUME RegistryTypes, [RegistryNext]_registryVars PROVE RegistryTypes'
  OBVIOUS
<1>1. ASSUME NEW c \in Controllers, ControllerStarts(c) PROVE RegistryTypes'
  BY <1>1 DEF RegistryTypes, ControllerStarts, RegistryTypeOK, WorkersCached, InspectionCached, Owner
<1>2. ASSUME NEW c \in Controllers, ControllerDies(c) PROVE RegistryTypes'
  <2>1. RegistryTypeOK'
    <3>1. \A q \in Runs : Owner(q) = c => disk[q] # NoRecord
      BY RegistryAssumption DEF Owner, NoRecord
    <3> QED BY <1>2, <3>1, RecordTypes
            DEF RegistryTypes, ControllerDies, RegistryTypeOK, Places
  <2>2. WorkersCached' /\ InspectionCached'
    BY <1>2 DEF RegistryTypes, ControllerDies, RegistryTypeOK, WorkersCached, InspectionCached, Owner,
       Executing, NoInspection
  <2> QED BY <2>1, <2>2 DEF RegistryTypes
<1>3. ASSUME NEW c \in Controllers, NEW k \in Keys, NEW r \in Runs, StartRun(c, k, r)
      PROVE  RegistryTypes'
  <2> DEFINE rec == [key |-> k, status |-> "queued", owner |-> c, context |-> NoContext]
  <2>1. rec \in Record /\ rec.key = k /\ rec.owner = c /\ rec.status = "queued"
    BY RecordTypes DEF Record, Unresolved
  <2>2. Save(c, r, rec) /\ disk[r] = NoRecord
    BY <1>3 DEF StartRun
  <2> HIDE DEF rec
  <2>3. RegistryTypeOK'
    <3>1. /\ active' \in [Controllers -> [Keys -> Runs \cup {None}]]
          /\ worker' \in [Runs -> Places] /\ up' = up /\ inspection' = inspection
          /\ \A q \in Runs : q # r => worker'[q] = worker[q]
      BY <1>3 DEF StartRun, RegistryTypes, RegistryTypeOK, Places
    <3> QED BY <2>1, <2>2, <3>1, SaveTypes DEF RegistryTypes, RegistryTypeOK
  <2>4. WorkersCached'
    BY <1>3, <2>1, <2>2, RecordTypes
       DEF StartRun, Save, RegistryTypes, RegistryTypeOK, WorkersCached, Owner
  <2>5. InspectionCached'
    BY <1>3 DEF StartRun, InspectionCached, NoInspection
  <2> QED BY <2>3, <2>4, <2>5 DEF RegistryTypes
<1>4. ASSUME NEW r \in Runs, ThreadFails(r) PROVE RegistryTypes'
  <2> DEFINE rec == [cache[Owner(r)][r] EXCEPT !.status = "failed"]
  <2>1. worker[r] \in Executing
    BY <1>4 DEF ThreadFails, Executing
  <2>2. rec \in Record /\ rec.key = disk[r].key /\ rec.owner = disk[r].owner /\ rec.status # "absent"
    BY <2>1, WorkerRecord DEF Record, Resolved
  <2>3. Save(Owner(r), r, rec) /\ Free(Owner(r), r, rec)
    BY <1>4 DEF ThreadFails
  <2>4. /\ up' = up /\ inspection' = inspection /\ worker' \in [Runs -> Places]
        /\ \A q \in Runs : worker'[q] # worker[q] => worker[q] \in Executing \cup {"ended"}
    BY <1>4, <2>1 DEF ThreadFails, RegistryTypes, RegistryTypeOK, Places
  <2> HIDE DEF rec
  <2> QED BY <2>1, <2>2, <2>3, <2>4, WorkerRecord, SaveKeepsTypes
<1>5. ASSUME NEW r \in Runs, WorkerBegins(r) PROVE RegistryTypes'
  <2> DEFINE rec == [cache[Owner(r)][r] EXCEPT !.status = "running"]
  <2>1. worker[r] \in Executing
    BY <1>5 DEF WorkerBegins, Executing
  <2>2. rec \in Record /\ rec.key = disk[r].key /\ rec.owner = disk[r].owner /\ rec.status # "absent"
    BY <2>1, WorkerRecord DEF Record, Unresolved
  <2>3. Save(Owner(r), r, rec) /\ active' = active
    BY <1>5 DEF WorkerBegins
  <2>4. /\ up' = up /\ inspection' = inspection /\ worker' \in [Runs -> Places]
        /\ \A q \in Runs : worker'[q] # worker[q] => worker[q] \in Executing \cup {"ended"}
    BY <1>5, <2>1 DEF WorkerBegins, RegistryTypes, RegistryTypeOK, Places
  <2> HIDE DEF rec
  <2> QED BY <2>1, <2>2, <2>3, <2>4, WorkerRecord, SaveKeepsTypes
<1>6. ASSUME NEW r \in Runs, NEW context \in Contexts, SetContext(r, context) PROVE RegistryTypes'
  <2> DEFINE rec == [cache[Owner(r)][r] EXCEPT !.context = context]
  <2>1. worker[r] \in Executing
    BY <1>6 DEF SetContext, Executing
  <2>2. rec \in Record /\ rec.key = disk[r].key /\ rec.owner = disk[r].owner /\ rec.status # "absent"
    BY <2>1, WorkerRecord DEF Record
  <2>3. Save(Owner(r), r, rec) /\ active' = active
    BY <1>6 DEF SetContext
  <2>4. up' = up /\ inspection' = inspection /\ worker' = worker /\ worker \in [Runs -> Places]
    BY <1>6 DEF SetContext, RegistryTypes, RegistryTypeOK
  <2> HIDE DEF rec
  <2> QED BY <2>1, <2>2, <2>3, <2>4, WorkerRecord, SaveKeepsTypes
<1>7. ASSUME NEW r \in Runs, NEW returns \in BOOLEAN, WorkerEnds(r, returns) PROVE RegistryTypes'
  <2> DEFINE status == IF returns THEN "succeeded" ELSE Raised(cache[Owner(r)][r])
  <2>1. worker[r] \in Executing
    BY <1>7 DEF WorkerEnds, Executing
  <2>2. status \in Unresolved \cup Resolved
    BY DEF Raised, Unresolved, Resolved
  <2>3. cache' = [cache EXCEPT ![Owner(r)][r].status = status]
    BY <1>7 DEF WorkerEnds
  <2> HIDE DEF status
  <2>4. /\ cache' \in [Controllers -> [Runs -> Record]]
        /\ \A d \in Controllers, q \in Runs :
             /\ cache'[d][q].key = cache[d][q].key /\ cache'[d][q].owner = cache[d][q].owner
             /\ cache[d][q] # NoRecord => cache'[d][q] # NoRecord /\ cache'[d][q].status # "absent"
             /\ cache'[d][q] # NoRecord => cache[d][q] # NoRecord
    <3>1. cache \in [Controllers -> [Runs -> Record]]
      BY DEF RegistryTypes, RegistryTypeOK
    <3>2. \A d \in Controllers, q \in Runs : cache[d][q] # NoRecord => cache[d][q].status # "absent"
      BY DEF RegistryTypes, RegistryTypeOK
    <3>3. cache[Owner(r)][r] # NoRecord /\ Owner(r) \in Controllers
      BY <2>1, WorkerRecord, RecordTypes
    <3>4. [cache[Owner(r)][r] EXCEPT !.status = status] \in Record
      BY <2>2, <3>1, <3>3, StatusTypes
    <3>5. status # "absent"
      BY <2>2 DEF Unresolved, Resolved
    <3> QED BY <2>3, <3>1, <3>2, <3>3, <3>4, <3>5, RecordTypes DEF Record
  <2>5. RegistryTypeOK'
    BY SMTT(60), <1>7, <2>1, <2>4 DEF WorkerEnds, RegistryTypes, RegistryTypeOK, Places
  <2>6. /\ disk' = disk /\ up' = up /\ inspection' = inspection
        /\ \A q \in Runs : worker'[q] = worker[q] \/ (q = r /\ worker[r] \in Executing)
    BY <1>7, <2>1 DEF WorkerEnds, RegistryTypes, RegistryTypeOK
  <2>7. WorkersCached'
    <3> SUFFICES ASSUME NEW q \in Runs, worker'[q] \in Executing \cup {"ended"}
                 PROVE  up'[Owner(q)'] = "up" /\ cache'[Owner(q)'][q] # NoRecord
      BY DEF WorkersCached
    <3>1. worker[q] \in Executing \cup {"ended"} /\ Owner(q)' = Owner(q)
      BY <2>6 DEF Owner
    <3>2. Owner(q) \in Controllers
      BY <3>1 DEF RegistryTypes, RegistryTypeOK, Owner, Executing
    <3> QED BY <2>4, <2>6, <3>1, <3>2 DEF RegistryTypes, WorkersCached
  <2>8. InspectionCached'
    BY <2>4, <2>6 DEF RegistryTypes, RegistryTypeOK, InspectionCached, NoInspection
  <2> QED BY <2>5, <2>7, <2>8 DEF RegistryTypes
<1>8. ASSUME NEW r \in Runs, Settle(r) PROVE RegistryTypes'
  <2> DEFINE rec == cache[Owner(r)][r]
  <2>1. worker[r] = "ended"
    BY <1>8 DEF Settle
  <2>2. rec \in Record /\ rec.key = disk[r].key /\ rec.owner = disk[r].owner /\ rec.status # "absent"
    BY <2>1, WorkerRecord
  <2>3. Save(Owner(r), r, rec) /\ Free(Owner(r), r, rec)
    BY <1>8, <2>1, WorkerRecord DEF Settle, Save, RegistryTypes, RegistryTypeOK
  <2>4. /\ up' = up /\ inspection' = inspection /\ worker' \in [Runs -> Places]
        /\ \A q \in Runs : worker'[q] # worker[q] => worker[q] \in Executing \cup {"ended"}
    BY <1>8, <2>1 DEF Settle, RegistryTypes, RegistryTypeOK, Places
  <2> HIDE DEF rec
  <2> QED BY <2>1, <2>2, <2>3, <2>4, WorkerRecord, SaveKeepsTypes
<1>9. ASSUME NEW r \in Runs, SettleFails(r) PROVE RegistryTypes'
  <2>1. worker[r] = "ended" /\ cache' = [cache EXCEPT ![Owner(r)][r].status = "unknown"]
    BY <1>9 DEF SettleFails
  <2>2. /\ cache' \in [Controllers -> [Runs -> Record]]
        /\ \A d \in Controllers, q \in Runs :
             /\ cache'[d][q].key = cache[d][q].key /\ cache'[d][q].owner = cache[d][q].owner
             /\ cache[d][q] # NoRecord => cache'[d][q] # NoRecord /\ cache'[d][q].status # "absent"
             /\ cache'[d][q] # NoRecord => cache[d][q] # NoRecord
    <3>1. cache \in [Controllers -> [Runs -> Record]]
      BY DEF RegistryTypes, RegistryTypeOK
    <3>2. \A d \in Controllers, q \in Runs : cache[d][q] # NoRecord => cache[d][q].status # "absent"
      BY DEF RegistryTypes, RegistryTypeOK
    <3>3. cache[Owner(r)][r] # NoRecord /\ Owner(r) \in Controllers
      BY <2>1, WorkerRecord, RecordTypes
    <3>4. [cache[Owner(r)][r] EXCEPT !.status = "unknown"] \in Record
      BY ZenonT(60), <3>1, <3>3, StatusTypes DEF Unresolved
    <3> QED BY <2>1, <3>1, <3>2, <3>3, <3>4, RecordTypes DEF Record
  <2>3. RegistryTypeOK'
    BY <1>9, <2>1, <2>2 DEF SettleFails, RegistryTypes, RegistryTypeOK, Places
  <2>4. /\ disk' = disk /\ up' = up /\ inspection' = inspection
        /\ \A q \in Runs : worker'[q] = worker[q] \/ worker'[q] = "done"
    BY <1>9, <2>1 DEF SettleFails, RegistryTypes, RegistryTypeOK
  <2>5. WorkersCached'
    <3> SUFFICES ASSUME NEW q \in Runs, worker'[q] \in Executing \cup {"ended"}
                 PROVE  up'[Owner(q)'] = "up" /\ cache'[Owner(q)'][q] # NoRecord
      BY DEF WorkersCached
    <3>1. worker[q] \in Executing \cup {"ended"} /\ Owner(q)' = Owner(q)
      BY <2>4 DEF Owner, Executing
    <3>2. Owner(q) \in Controllers
      BY <3>1 DEF RegistryTypes, RegistryTypeOK, Owner, Executing
    <3> QED BY <2>2, <2>4, <3>1, <3>2 DEF RegistryTypes, WorkersCached
  <2>6. InspectionCached'
    BY <2>2, <2>4 DEF RegistryTypes, RegistryTypeOK, InspectionCached, NoInspection
  <2> QED BY <2>3, <2>5, <2>6 DEF RegistryTypes
<1>10. ASSUME NEW c \in Controllers, NEW r \in Runs, GetRun(c, r) PROVE RegistryTypes'
  <2> DEFINE rec == Loaded(c, r)
  <2>1. /\ rec \in Record /\ rec.key = disk[r].key /\ rec.owner = disk[r].owner /\ rec.status # "absent"
        /\ disk[r] # NoRecord
    BY <1>10, KnownTypes DEF GetRun, RegistryTypes
  <2>2. cache' = [cache EXCEPT ![c][r] = rec] /\ UNCHANGED <<up, disk, active, worker, inspection>>
    BY <1>10 DEF GetRun
  <2>3. rec # NoRecord
    BY <2>1, RecordTypes
  <2> HIDE DEF rec
  <2> QED BY <2>1, <2>2, <2>3 DEF RegistryTypes, RegistryTypeOK, WorkersCached, InspectionCached, Owner
<1>11. ASSUME NEW c \in Controllers, NEW r \in Runs, InspectionBegins(c, r) PROVE RegistryTypes'
  <2> DEFINE rec == Known(c, r)
  <2>1. disk[r] # NoRecord
    BY <1>11, RecordTypes
       DEF InspectionBegins, Reconcilable, Known, Loaded, RegistryTypes, RegistryTypeOK, Unresolved
  <2>2. rec \in Record /\ rec.key = disk[r].key /\ rec.owner = disk[r].owner /\ rec.status # "absent"
    BY <2>1, KnownTypes DEF RegistryTypes
  <2>3. /\ cache' = [cache EXCEPT ![c][r] = rec] /\ UNCHANGED <<up, disk, active, worker>>
        /\ inspection' = [by |-> c, run |-> r]
    BY <1>11 DEF InspectionBegins
  <2>4. rec # NoRecord
    BY <2>2, RecordTypes
  <2> HIDE DEF rec
  <2>5. RegistryTypeOK'
    BY <2>1, <2>2, <2>3, <2>4 DEF RegistryTypes, RegistryTypeOK
  <2>6. WorkersCached' /\ InspectionCached'
    BY <2>2, <2>3, <2>4 DEF RegistryTypes, RegistryTypeOK, WorkersCached, InspectionCached, Owner
  <2> QED BY <2>5, <2>6 DEF RegistryTypes
<1>12. ASSUME NEW outcome \in Resolved \cup {"unknown"}, InspectionEnds(outcome) PROVE RegistryTypes'
  <2> DEFINE c == inspection.by
             r == inspection.run
             rec == [cache[c][r] EXCEPT !.status = outcome]
  <2>1. c \in Controllers /\ r \in Runs /\ cache[c][r] # NoRecord
    BY <1>12 DEF InspectionEnds, RegistryTypes, RegistryTypeOK, InspectionCached
  <2>2. /\ rec \in Record /\ rec.key = disk[r].key /\ rec.owner = disk[r].owner /\ rec.status # "absent"
        /\ disk[r] # NoRecord
    <3>1. cache[c][r] \in Record /\ outcome \in Unresolved \cup Resolved
      BY <2>1 DEF RegistryTypes, RegistryTypeOK, Unresolved
    <3>2. /\ disk[r] # NoRecord
          /\ cache[c][r].key = disk[r].key /\ cache[c][r].owner = disk[r].owner
      BY <2>1 DEF RegistryTypes, RegistryTypeOK
    <3> QED BY SMTT(60), <3>1, <3>2, StatusTypes
  <2>3. Save(c, r, rec) /\ Free(c, r, rec)
    BY <1>12 DEF InspectionEnds
  <2>4. up' = up /\ inspection' = NoInspection /\ worker' = worker /\ worker \in [Runs -> Places]
    BY <1>12 DEF InspectionEnds, RegistryTypes, RegistryTypeOK
  <2> HIDE DEF rec, c, r
  <2> QED BY <2>1, <2>2, <2>3, <2>4, SaveKeepsTypes
<1>13. ASSUME NEW c \in Controllers, NEW r \in Runs, CloseByHand(c, r) PROVE RegistryTypes'
  <2> DEFINE rec == [Known(c, r) EXCEPT !.status = "failed"]
  <2>1. disk[r] # NoRecord
    BY <1>13, RecordTypes
       DEF CloseByHand, Reconcilable, Known, Loaded, RegistryTypes, RegistryTypeOK, Unresolved
  <2>2. rec \in Record /\ rec.key = disk[r].key /\ rec.owner = disk[r].owner /\ rec.status # "absent"
    BY <2>1, KnownTypes DEF RegistryTypes, Record, Resolved
  <2>3. Save(c, r, rec) /\ Free(c, r, rec)
    BY <1>13 DEF CloseByHand
  <2>4. up' = up /\ inspection' = inspection /\ worker' = worker /\ worker \in [Runs -> Places]
    BY <1>13 DEF CloseByHand, RegistryTypes, RegistryTypeOK
  <2> HIDE DEF rec
  <2> QED BY <2>1, <2>2, <2>3, <2>4, SaveKeepsTypes
<1>14. CASE UNCHANGED registryVars
  BY <1>14 DEF registryVars, RegistryTypes, RegistryTypeOK, WorkersCached, InspectionCached, Owner
<1> QED
  BY <1>1, <1>2, <1>3, <1>4, <1>5, <1>6, <1>7, <1>8, <1>9, <1>10, <1>11, <1>12, <1>13, <1>14
     DEF RegistryNext

LEMMA TypesInit == RegistryInit => RegistryTypes
BY TypeInit DEF RegistryTypes, WorkersCached, InspectionCached, RegistryInit, Executing

(* Whatever the controllers do, memory and files stay well formed          *)
(* (pipeline_runner.py, whose readers rely on it).                         *)
THEOREM RegistryTypesHold == RegistrySpec => []RegistryTypeOK
<1>1. RegistryTypes => RegistryTypeOK
  BY DEF RegistryTypes
<1> QED BY <1>1, TypesInit, TypeStep, PTL DEF RegistrySpec

(* One controller at a time *)

(* A process that is not up holds nothing, and without overlap one is up.  *)
OneUp ==
  /\ \A c, d \in Controllers : up[c] = "up" /\ up[d] = "up" => c = d
  /\ \A c \in Controllers, r \in Runs : up[c] # "up" => cache[c][r] = NoRecord
  /\ inspection # NoInspection => up[inspection.by] = "up"

(* A run at work is known alike to its owner and on file, and holds its    *)
(* key; a reconcile has an unknown run before it.                          *)
Held ==
  /\ \A r \in Runs : Running(r) =>
       /\ cache[Owner(r)][r] = disk[r] /\ disk[r].status \in Executing
       /\ active[Owner(r)][disk[r].key] = r
  /\ inspection # NoInspection => cache[inspection.by][inspection.run].status = "unknown"

RegistryInv == RegistryTypes /\ OneUp /\ Held

LEMMA OneUpStep ==
  ASSUME ~Overlap, RegistryTypes, OneUp, [RegistryNext]_registryVars
  PROVE  OneUp'
<1> USE DEF RegistryTypes
<1>1. ASSUME NEW c \in Controllers, ControllerStarts(c) PROVE OneUp'
  BY <1>1 DEF ControllerStarts, OneUp, RegistryTypeOK
<1>2. ASSUME NEW c \in Controllers, ControllerDies(c) PROVE OneUp'
  BY <1>2 DEF ControllerDies, OneUp, RegistryTypeOK, NoInspection
<1>3. ASSUME NEW c \in Controllers, NEW r \in Runs, NEW rec,
             up[c] = "up", up' = up, cache' = [cache EXCEPT ![c][r] = rec],
             inspection' \in {inspection, NoInspection, [by |-> c, run |-> r]}
      PROVE  OneUp'
  BY <1>3 DEF OneUp, RegistryTypeOK, NoInspection
<1>4. ASSUME NEW c \in Controllers, NEW k \in Keys, NEW r \in Runs, StartRun(c, k, r) PROVE OneUp'
  BY <1>3, <1>4 DEF StartRun, Save
<1>5. ASSUME NEW r \in Runs,
             ThreadFails(r) \/ WorkerBegins(r) \/ \E context \in Contexts : SetContext(r, context)
      PROVE  OneUp'
  <2>1. worker[r] \in Executing /\ Owner(r) \in Controllers /\ up[Owner(r)] = "up"
    BY <1>5, WorkerRecord DEF ThreadFails, WorkerBegins, SetContext, Executing
  <2>2. \E rec : cache' = [cache EXCEPT ![Owner(r)][r] = rec] /\ UNCHANGED <<up, inspection>>
    BY <1>5 DEF ThreadFails, WorkerBegins, SetContext, Save
  <2> QED BY <1>3, <2>1, <2>2
<1>6. ASSUME NEW r \in Runs, (\E returns \in BOOLEAN : WorkerEnds(r, returns)) \/ SettleFails(r)
      PROVE  OneUp'
  <2>1. Owner(r) \in Controllers /\ up[Owner(r)] = "up"
    BY <1>6, WorkerRecord DEF WorkerEnds, SettleFails, Executing
  <2>2. \E s : cache' = [cache EXCEPT ![Owner(r)][r].status = s] /\ UNCHANGED <<up, inspection>>
    BY <1>6 DEF WorkerEnds, SettleFails
  <2> QED BY <1>3, <2>1, <2>2
<1>7. ASSUME NEW r \in Runs, Settle(r) PROVE OneUp'
  BY <1>7 DEF Settle, OneUp
<1>8. ASSUME NEW c \in Controllers, NEW r \in Runs,
             GetRun(c, r) \/ InspectionBegins(c, r) \/ CloseByHand(c, r)
      PROVE  OneUp'
  <2>1. /\ up[c] = "up" /\ up' = up /\ inspection' \in {inspection, [by |-> c, run |-> r]}
        /\ \E rec : cache' = [cache EXCEPT ![c][r] = rec]
    BY <1>8 DEF GetRun, InspectionBegins, CloseByHand, Save
  <2> QED BY <1>3, <2>1
<1>9. ASSUME NEW outcome \in Resolved \cup {"unknown"}, InspectionEnds(outcome) PROVE OneUp'
  <2>1. inspection.by \in Controllers /\ inspection.run \in Runs /\ up[inspection.by] = "up"
    BY <1>9 DEF InspectionEnds, RegistryTypeOK, OneUp
  <2>2. /\ up' = up /\ inspection' = NoInspection
        /\ \E rec : cache' = [cache EXCEPT ![inspection.by][inspection.run] = rec]
    BY <1>9 DEF InspectionEnds, Save
  <2> QED BY <1>3, <2>1, <2>2
<1>10. CASE UNCHANGED registryVars
  BY <1>10 DEF registryVars, OneUp
<1> QED
  BY <1>1, <1>2, <1>4, <1>5, <1>6, <1>7, <1>8, <1>9, <1>10 DEF RegistryNext

(* No step frees the key of a run at work but that of the run itself.      *)
LEMMA FreeKeeps ==
  ASSUME RegistryTypes, Held, NEW c \in Controllers, NEW r \in Runs, NEW rec, Free(c, r, rec),
         NEW q \in Runs, q # r, Running(q)
  PROVE  active'[Owner(q)][disk[q].key] = q
<1>1. /\ active[Owner(q)][disk[q].key] = q /\ disk[q].key \in Keys /\ Owner(q) \in Controllers
      /\ active \in [Controllers -> [Keys -> Runs \cup {None}]]
  BY WorkerRecord DEF Held, Running, RegistryTypes, RegistryTypeOK
<1> QED BY <1>1 DEF Free

(* What an up controller does to a run that is not at work leaves the      *)
(* others as they are.                                                     *)
LEMMA SaveKeepsHeld ==
  ASSUME RegistryTypes, OneUp, Held, NEW c \in Controllers, NEW r \in Runs, NEW rec,
         ~Running(r)', up' = up,
         Save(c, r, rec), active' = active \/ Free(c, r, rec),
         \A q \in Runs : q # r => worker'[q] = worker[q],
         \/ inspection' = NoInspection
         \/ inspection' = inspection /\ (inspection.run # r \/ cache' = cache)
  PROVE  Held'
<1>1. ASSUME NEW q \in Runs, Running(q)'
      PROVE  /\ (cache[Owner(q)][q] = disk[q])' /\ (disk[q].status \in Executing)'
             /\ (active[Owner(q)][disk[q].key] = q)'
  <2>1. q # r /\ Running(q) /\ disk'[q] = disk[q] /\ Owner(q)' = Owner(q)
    BY <1>1 DEF Running, Save, Owner, RegistryTypes, RegistryTypeOK
  <2>2. cache'[Owner(q)][q] = cache[Owner(q)][q]
    BY <2>1, WorkerRecord DEF Save, RegistryTypes, RegistryTypeOK, Running
  <2>3. active'[Owner(q)][disk[q].key] = q
    BY <2>1, FreeKeeps DEF Held
  <2> QED BY <2>1, <2>2, <2>3 DEF Held
<1>2. inspection' # NoInspection => cache'[inspection'.by][inspection'.run].status = "unknown"
  BY DEF Held, Save, RegistryTypes, RegistryTypeOK, NoInspection
<1> QED BY <1>1, <1>2 DEF Held

(* What an up controller holds to be unknown is not at work.               *)
LEMMA UnknownRests ==
  ASSUME RegistryTypes, OneUp, Held, NEW c \in Controllers, up[c] = "up", NEW r \in Runs,
         Known(c, r).status = "unknown"
  PROVE  ~Running(r)
<1>1. ASSUME Running(r) PROVE cache[c][r] # NoRecord /\ cache[c][r].status \in Executing
  BY <1>1, WorkerRecord DEF OneUp, Held, Running, RegistryTypes, RegistryTypeOK
<1> QED BY <1>1 DEF Known, Executing

(* Nor is the run before a reconcile.                                      *)
LEMMA InspectedRests ==
  ASSUME RegistryTypes, OneUp, Held, inspection # NoInspection
  PROVE  /\ inspection.by \in Controllers /\ inspection.run \in Runs /\ ~Running(inspection.run)
<1>1. /\ inspection.by \in Controllers /\ inspection.run \in Runs /\ up[inspection.by] = "up"
      /\ cache[inspection.by][inspection.run] # NoRecord
      /\ cache[inspection.by][inspection.run].status = "unknown"
  BY DEF RegistryTypes, RegistryTypeOK, InspectionCached, OneUp, Held
<1> QED BY <1>1, UnknownRests DEF Known

LEMMA HeldStep ==
  ASSUME RegistryTypes, OneUp, Held, [RegistryNext]_registryVars
  PROVE  Held'
<1>1. ASSUME NEW c \in Controllers, ControllerStarts(c) PROVE Held'
  BY <1>1 DEF ControllerStarts, Held, Running, Owner
<1>2. ASSUME NEW c \in Controllers, ControllerDies(c) PROVE Held'
  <2>1. ASSUME NEW r \in Runs, Running(r)' PROVE Running(r) /\ Owner(r) # c
    BY <1>2, <2>1 DEF ControllerDies, Running, Executing
  <2>2. ASSUME NEW d \in Controllers, d # c PROVE cache'[d] = cache[d] /\ active'[d] = active[d]
    BY <1>2, <2>2 DEF ControllerDies, RegistryTypes, RegistryTypeOK
  <2>3. inspection' # NoInspection => inspection' = inspection /\ inspection.by # c
    BY <1>2 DEF ControllerDies
  <2>4. \A r \in Runs : Running(r) => Owner(r) \in Controllers
    BY WorkerRecord DEF Running
  <2>5. inspection # NoInspection => inspection.by \in Controllers
    BY InspectedRests
  <2> QED BY <1>2, <2>1, <2>2, <2>3, <2>4, <2>5 DEF ControllerDies, Held, Owner
<1>3. ASSUME NEW c \in Controllers, NEW k \in Keys, NEW r \in Runs, StartRun(c, k, r) PROVE Held'
  <2>1. /\ disk[r] = NoRecord /\ active[c][k] = None /\ inspection' = NoInspection
        /\ disk' = [disk EXCEPT ![r] = [key |-> k, status |-> "queued", owner |-> c, context |-> NoContext]]
        /\ cache' = [cache EXCEPT ![c][r] =
                       [key |-> k, status |-> "queued", owner |-> c, context |-> NoContext]]
        /\ active' = [active EXCEPT ![c][k] = r] /\ worker' = [worker EXCEPT ![r] = "queued"]
    BY <1>3 DEF StartRun, Save, Claimed
  <2>2. ASSUME NEW q \in Runs, Running(q)', q # r
        PROVE  /\ (cache[Owner(q)][q] = disk[q])' /\ (disk[q].status \in Executing)'
               /\ (active[Owner(q)][disk[q].key] = q)'
    <3>1. /\ Running(q) /\ disk'[q] = disk[q] /\ Owner(q)' = Owner(q)
          /\ Owner(q) \in Controllers /\ disk[q].key \in Keys
      BY <2>1, <2>2, WorkerRecord DEF Running, Owner, RegistryTypes, RegistryTypeOK
    <3>2. cache'[Owner(q)][q] = cache[Owner(q)][q]
      BY <2>1, <2>2, <3>1 DEF RegistryTypes, RegistryTypeOK
    <3>3. ~(Owner(q) = c /\ disk[q].key = k)
      BY <2>1, <3>1, RegistryAssumption DEF Held
    <3>4. active'[Owner(q)][disk[q].key] = active[Owner(q)][disk[q].key]
      BY <2>1, <3>1, <3>3 DEF RegistryTypes, RegistryTypeOK
    <3> QED BY <3>1, <3>2, <3>4 DEF Held
  <2>3. /\ (cache[Owner(r)][r] = disk[r])' /\ (disk[r].status \in Executing)'
        /\ (active[Owner(r)][disk[r].key] = r)'
    BY <2>1 DEF Owner, Executing, RegistryTypes, RegistryTypeOK
  <2> QED BY <2>1, <2>2, <2>3 DEF Held
<1>4. ASSUME NEW r \in Runs, Running(r), inspection # NoInspection PROVE inspection.run # r
  BY <1>4, InspectedRests
<1>5. ASSUME NEW r \in Runs, ThreadFails(r) PROVE Held'
  <2>1. Running(r) /\ ~Running(r)' /\ \A q \in Runs : q # r => worker'[q] = worker[q]
    BY <1>5 DEF ThreadFails, Running, Executing, RegistryTypes, RegistryTypeOK
  <2>2. \E rec : Save(Owner(r), r, rec) /\ Free(Owner(r), r, rec)
    BY <1>5 DEF ThreadFails
  <2>3. up' = up /\ inspection' = inspection /\ Owner(r) \in Controllers
    BY <1>5, <2>1, WorkerRecord DEF ThreadFails, Running
  <2> QED BY <1>4, <2>1, <2>2, <2>3, SaveKeepsHeld
<1>6. ASSUME NEW r \in Runs,
             WorkerBegins(r) \/ \E context \in Contexts : SetContext(r, context)
      PROVE  Held'
  <2>1. /\ Running(r) /\ Owner(r) \in Controllers /\ disk[r].status \in Executing
        /\ cache[Owner(r)][r] = disk[r] /\ cache[Owner(r)][r] \in Record
    BY <1>6, WorkerRecord DEF WorkerBegins, SetContext, Running, Executing, Held
  <2>2. PICK rec : /\ Save(Owner(r), r, rec) /\ rec.key = disk[r].key /\ rec.owner = disk[r].owner
                   /\ rec.status \in Executing
    <3>1. CASE WorkerBegins(r)
      <4> DEFINE rec == [cache[Owner(r)][r] EXCEPT !.status = "running"]
      <4>1. Save(Owner(r), r, rec)
        BY <3>1 DEF WorkerBegins
      <4>2. /\ rec.key = disk[r].key /\ rec.owner = disk[r].owner /\ rec.status \in Executing
        BY <2>1 DEF Record, Executing
      <4> QED BY <4>1, <4>2
    <3>2. ASSUME NEW context \in Contexts, SetContext(r, context)
          PROVE  \E rec : /\ Save(Owner(r), r, rec) /\ rec.key = disk[r].key /\ rec.owner = disk[r].owner
                          /\ rec.status \in Executing
      <4>1. Save(Owner(r), r, [cache[Owner(r)][r] EXCEPT !.context = context])
        BY <3>2 DEF SetContext
      <4> QED BY <2>1, <4>1 DEF Record
    <3> QED BY <1>6, <3>1, <3>2
  <2>3. /\ active' = active /\ inspection' = inspection
        /\ \A q \in Runs : q # r => worker'[q] = worker[q]
    BY <1>6 DEF WorkerBegins, SetContext, RegistryTypes, RegistryTypeOK
  <2>4. ASSUME NEW q \in Runs, Running(q)'
        PROVE  /\ (cache[Owner(q)][q] = disk[q])' /\ (disk[q].status \in Executing)'
               /\ (active[Owner(q)][disk[q].key] = q)'
    <3>1. Running(q)
      BY <2>1, <2>3, <2>4 DEF Running
    <3>2. CASE q = r
      BY <2>1, <2>2, <2>3, <3>2 DEF Held, Save, Owner, RegistryTypes, RegistryTypeOK
    <3>3. CASE q # r
      BY <2>2, <2>3, <3>1, <3>3, WorkerRecord
         DEF Held, Save, Owner, Running, RegistryTypes, RegistryTypeOK
    <3> QED BY <3>2, <3>3
  <2>5. inspection' # NoInspection =>
          cache'[inspection'.by][inspection'.run] = cache[inspection.by][inspection.run]
    BY <1>4, <2>1, <2>2, <2>3, InspectedRests DEF Save, RegistryTypes, RegistryTypeOK
  <2> QED BY <2>3, <2>4, <2>5 DEF Held
<1>7. ASSUME NEW r \in Runs, (\E returns \in BOOLEAN : WorkerEnds(r, returns)) \/ SettleFails(r)
      PROVE  Held'
  <2>1. /\ worker[r] \in Executing \cup {"ended"} /\ Owner(r) \in Controllers
        /\ disk' = disk /\ active' = active /\ inspection' = inspection /\ ~Running(r)'
        /\ \A q \in Runs : q # r => worker'[q] = worker[q]
    BY <1>7, WorkerRecord DEF WorkerEnds, SettleFails, Running, Executing, RegistryTypes, RegistryTypeOK
  <2>2. \A d \in Controllers, q \in Runs : q # r => cache'[d][q] = cache[d][q]
    <3>1. \E s : cache' = [cache EXCEPT ![Owner(r)][r].status = s]
      BY <1>7 DEF WorkerEnds, SettleFails
    <3> QED BY <2>1, <3>1 DEF RegistryTypes, RegistryTypeOK
  <2>3. ASSUME NEW q \in Runs, Running(q)' PROVE q # r /\ Running(q) /\ Owner(q) \in Controllers
    BY <2>1, <2>3, WorkerRecord DEF Running
  <2>4. ASSUME inspection # NoInspection
        PROVE  cache'[inspection.by][inspection.run].status = "unknown"
    <3>1. CASE \E returns \in BOOLEAN : WorkerEnds(r, returns)
      <4>1. Running(r)
        BY <3>1 DEF WorkerEnds, Running, Executing
      <4> QED BY <1>4, <2>2, <2>4, <4>1, InspectedRests DEF Held
    <3>2. CASE SettleFails(r)
      <4>1. \A d \in Controllers, q \in Runs :
              cache[d][q].status = "unknown" => cache'[d][q].status = "unknown"
        BY <2>1, <3>2 DEF SettleFails, RegistryTypes, RegistryTypeOK, Record
      <4> QED BY <2>4, <4>1, InspectedRests DEF Held
    <3> QED BY <1>7, <3>1, <3>2
  <2> QED BY <2>1, <2>2, <2>3, <2>4 DEF Held, Owner
<1>8. ASSUME NEW r \in Runs, Settle(r) PROVE Held'
  <2>1. /\ Owner(r) \in Controllers /\ ~Running(r)' /\ up' = up /\ cache' = cache
        /\ inspection' = inspection /\ \A q \in Runs : q # r => worker'[q] = worker[q]
    BY <1>8, WorkerRecord DEF Settle, Running, Executing, RegistryTypes, RegistryTypeOK
  <2>2. Save(Owner(r), r, cache[Owner(r)][r]) /\ Free(Owner(r), r, cache[Owner(r)][r])
    BY <1>8, <2>1 DEF Settle, Save, RegistryTypes, RegistryTypeOK
  <2> QED BY <2>1, <2>2, SaveKeepsHeld
<1>9. ASSUME NEW c \in Controllers, NEW r \in Runs, GetRun(c, r) PROVE Held'
  <2>1. /\ cache[c][r] = NoRecord /\ UNCHANGED <<disk, active, worker, inspection>>
        /\ \A d \in Controllers, q \in Runs : cache[d][q] # NoRecord => cache'[d][q] = cache[d][q]
    BY <1>9 DEF GetRun, RegistryTypes, RegistryTypeOK
  <2>2. \A q \in Runs : Running(q) => Owner(q) \in Controllers /\ cache[Owner(q)][q] # NoRecord
    BY WorkerRecord, RecordTypes DEF Running
  <2>3. inspection # NoInspection =>
          /\ inspection.by \in Controllers /\ inspection.run \in Runs
          /\ cache[inspection.by][inspection.run] # NoRecord
    BY InspectedRests DEF RegistryTypes, InspectionCached
  <2> QED BY <2>1, <2>2, <2>3 DEF Held, Running, Owner
<1>10. ASSUME NEW c \in Controllers, NEW r \in Runs, InspectionBegins(c, r) PROVE Held'
  <2>1. /\ up[c] = "up" /\ Known(c, r).status = "unknown" /\ UNCHANGED <<disk, active, worker>>
        /\ inspection' = [by |-> c, run |-> r] /\ cache' = [cache EXCEPT ![c][r] = Known(c, r)]
    BY <1>10 DEF InspectionBegins, Reconcilable
  <2>2. ~Running(r)
    BY <2>1, UnknownRests
  <2>3. \A q \in Runs : Running(q) => q # r /\ Owner(q) \in Controllers
    BY <2>2, WorkerRecord DEF Running
  <2>4. cache'[c][r].status = "unknown"
    BY <2>1 DEF RegistryTypes, RegistryTypeOK
  <2> QED BY <2>1, <2>3, <2>4 DEF Held, Running, Owner, RegistryTypes, RegistryTypeOK
<1>11. ASSUME NEW outcome \in Resolved \cup {"unknown"}, InspectionEnds(outcome) PROVE Held'
  <2>1. PICK c \in Controllers, r \in Runs : inspection.by = c /\ inspection.run = r /\ ~Running(r)
    BY <1>11, InspectedRests DEF InspectionEnds
  <2>2. /\ inspection' = NoInspection /\ up' = up /\ worker' = worker
        /\ \E rec : Save(c, r, rec) /\ Free(c, r, rec)
    BY <1>11, <2>1 DEF InspectionEnds
  <2>3. ~Running(r)'
    BY <2>1, <2>2 DEF Running
  <2> QED BY <2>2, <2>3, SaveKeepsHeld
<1>12. ASSUME NEW c \in Controllers, NEW r \in Runs, CloseByHand(c, r) PROVE Held'
  <2>1. /\ up[c] = "up" /\ Known(c, r).status = "unknown" /\ up' = up /\ worker' = worker
        /\ inspection = NoInspection /\ inspection' = NoInspection
        /\ \E rec : Save(c, r, rec) /\ Free(c, r, rec)
    BY <1>12 DEF CloseByHand, Reconcilable
  <2>2. ~Running(r)'
    BY <2>1, UnknownRests DEF Running
  <2> QED BY <2>1, <2>2, SaveKeepsHeld
<1>13. CASE UNCHANGED registryVars
  BY <1>13 DEF registryVars, Held, Running, Owner
<1> QED
  BY <1>1, <1>2, <1>3, <1>5, <1>6, <1>7, <1>8, <1>9, <1>10, <1>11, <1>12, <1>13 DEF RegistryNext

LEMMA RegistryInvInit == RegistryInit => RegistryInv
<1> SUFFICES ASSUME RegistryInit PROVE RegistryInv
  OBVIOUS
<1>1. RegistryTypes
  BY TypesInit
<1>2. OneUp /\ Held
  BY DEF RegistryInit, OneUp, Held, Running, Executing
<1> QED BY <1>1, <1>2 DEF RegistryInv

(* One controller at a time: what a run at work holds, nobody takes.       *)
LEMMA RegistryInvStep ==
  ~Overlap /\ RegistryInv /\ [RegistryNext]_registryVars => RegistryInv'
BY TypeStep, OneUpStep, HeldStep DEF RegistryInv

LEMMA RegistryInvExcludes == RegistryInv => KeyExclusive /\ WorkIsOnFile
<1> SUFFICES ASSUME RegistryInv PROVE KeyExclusive /\ WorkIsOnFile
  OBVIOUS
<1>1. \A r \in Runs : Running(r) => Owner(r) \in Controllers /\ up[Owner(r)] = "up"
  BY WorkerRecord DEF RegistryInv, Running
<1> QED BY <1>1 DEF RegistryInv, OneUp, Held, KeyExclusive, WorkIsOnFile, Unresolved, Executing

(* As long as one controller runs at a time, at most one run of an         *)
(* operation key is at work (start_run).                                   *)
THEOREM RegistryExcludes == ~Overlap => (RegistrySpec => []KeyExclusive)
<1> SUFFICES ASSUME ~Overlap PROVE RegistrySpec => []KeyExclusive
  OBVIOUS
<1>1. RegistryInv /\ [RegistryNext]_registryVars => RegistryInv'
  BY RegistryInvStep
<1> QED BY <1>1, RegistryInvInit, RegistryInvExcludes, PTL DEF RegistrySpec

(* ... and the work in progress is always found on file (start_run).       *)
THEOREM RegistryRemembers == ~Overlap => (RegistrySpec => []WorkIsOnFile)
<1> SUFFICES ASSUME ~Overlap PROVE RegistrySpec => []WorkIsOnFile
  OBVIOUS
<1>1. RegistryInv /\ [RegistryNext]_registryVars => RegistryInv'
  BY RegistryInvStep
<1> QED BY <1>1, RegistryInvInit, RegistryInvExcludes, PTL DEF RegistrySpec

(* A recorded outcome is final *)

(* Where every write succeeds: what the controller in charge holds to be   *)
(* open is open on file, and a run that is about to be written was either  *)
(* still open or reconciled already, to the same record.                   *)
Recorded ==
  /\ \A c \in Controllers, r \in Runs :
       cache[c][r].status = "unknown" => disk[r].status \in Unresolved
  /\ \A r \in Runs : worker[r] = "ended" /\ disk[r].status \in Resolved => cache[Owner(r)][r] = disk[r]

LEMMA KnownIsOpen ==
  ASSUME RegistryTypes, Recorded, NEW c \in Controllers, NEW r \in Runs, Known(c, r).status = "unknown"
  PROVE  disk[r].status \in Unresolved
BY DEF Known, Loaded, Recorded, RegistryTypes, RegistryTypeOK, Unresolved

LEMMA RecordedStep ==
  ASSUME ~DiskMayFail, RegistryTypes, OneUp, Held, Recorded, [RegistryNext]_registryVars
  PROVE  Recorded' /\ \A r \in Runs : disk[r].status \in Resolved => disk'[r].status = disk[r].status
<1> DEFINE Final == \A r \in Runs : disk[r].status \in Resolved => disk'[r].status = disk[r].status
<1> USE DEF RegistryTypes
(* The step writes nothing of a run.                                       *)
<1>1. ASSUME disk' = disk, worker' = worker,
             \A c \in Controllers, r \in Runs :
               cache'[c][r] # cache[c][r] /\ cache'[c][r].status = "unknown" => disk[r].status \in Unresolved,
             \A c \in Controllers, r \in Runs : cache[c][r] # NoRecord => cache'[c][r] = cache[c][r]
      PROVE  Recorded' /\ Final
  <2>1. \A r \in Runs : worker[r] = "ended" => Owner(r) \in Controllers /\ cache[Owner(r)][r] # NoRecord
    BY WorkerRecord, RecordTypes
  <2> QED BY <1>1, <2>1 DEF Recorded, Owner
(* An up controller saves a run that is open on file, or saves what is on  *)
(* file already; its outcome is then written.                              *)
<1>2. ASSUME NEW c \in Controllers, up[c] = "up", NEW r \in Runs, NEW rec, Save(c, r, rec),
             disk[r].status \notin Resolved \/ rec = disk[r],
             rec.owner = disk[r].owner \/ worker'[r] # "ended",
             \A q \in Runs : q # r => worker'[q] = worker[q],
             worker'[r] = "ended" => worker[r] = "ended"
      PROVE  Recorded' /\ Final
  <2>1. Final
    BY <1>2 DEF Save, RegistryTypeOK
  <2>2. ASSUME NEW d \in Controllers, NEW q \in Runs, cache'[d][q].status = "unknown"
        PROVE  disk'[q].status \in Unresolved
    <3>1. CASE q # r
      BY <1>2, <2>2, <3>1 DEF Save, RegistryTypeOK, Recorded
    <3>2. CASE q = r /\ d = c
      BY <1>2, <2>2, <3>2 DEF Save, RegistryTypeOK, Unresolved
    <3>3. CASE d # c
      <4>1. cache'[d][q] = NoRecord
        BY <1>2, <3>3 DEF Save, RegistryTypeOK, OneUp
      <4> QED BY <2>2, <4>1, RecordTypes
    <3> QED BY <3>1, <3>2, <3>3
  <2>3. ASSUME NEW q \in Runs, worker'[q] = "ended", disk'[q].status \in Resolved
        PROVE  (cache[Owner(q)][q] = disk[q])'
    <3>1. worker[q] = "ended" /\ Owner(q) \in Controllers /\ up[Owner(q)] = "up"
      BY <1>2, <2>3, WorkerRecord
    <3>2. Owner(q) = c
      BY <1>2, <3>1 DEF OneUp
    <3>3. Owner(q)' = c
      BY <1>2, <2>3, <3>2 DEF Save, Owner, RegistryTypeOK
    <3>4. CASE q = r
      BY <1>2, <3>3, <3>4 DEF Save, RegistryTypeOK
    <3>5. CASE q # r
      BY <1>2, <2>3, <3>1, <3>2, <3>3, <3>5 DEF Save, RegistryTypeOK, Recorded
    <3> QED BY <3>4, <3>5
  <2> QED BY <2>1, <2>2, <2>3 DEF Recorded
<1>3. \A r \in Runs : Running(r) => disk[r].status \notin Resolved
  BY DEF Held, Executing, Resolved
<1>4. \A r \in Runs : disk[r].status \in Unresolved => disk[r].status \notin Resolved
  BY DEF Unresolved, Resolved
<1>5. ASSUME NEW c \in Controllers, ControllerStarts(c) PROVE Recorded' /\ Final
  BY <1>1, <1>5 DEF ControllerStarts
<1>6. ASSUME NEW c \in Controllers, ControllerDies(c) PROVE Recorded' /\ Final
  <2>1. disk' = disk
    BY <1>6 DEF ControllerDies
  <2>2. \A d \in Controllers, r \in Runs : cache'[d][r] = cache[d][r] \/ cache'[d][r] = NoRecord
    BY <1>6 DEF ControllerDies, RegistryTypeOK
  <2>3. ASSUME NEW r \in Runs, worker'[r] = "ended"
        PROVE  worker[r] = "ended" /\ Owner(r) \in Controllers /\ cache'[Owner(r)][r] = cache[Owner(r)][r]
    <3>1. worker[r] = "ended" /\ Owner(r) # c
      BY <1>6, <2>3 DEF ControllerDies
    <3>2. Owner(r) \in Controllers
      BY <3>1, WorkerRecord
    <3> QED BY <1>6, <3>1, <3>2 DEF ControllerDies, RegistryTypeOK
  <2> QED BY <2>1, <2>2, <2>3, RecordTypes DEF Recorded, Owner
<1>7. ASSUME NEW c \in Controllers, NEW k \in Keys, NEW r \in Runs, StartRun(c, k, r)
      PROVE  Recorded' /\ Final
  <2>1. /\ up[c] = "up" /\ disk[r].status \notin Resolved /\ \E rec : Save(c, r, rec)
        /\ \A q \in Runs : q # r => worker'[q] = worker[q]
        /\ worker'[r] # "ended"
    BY <1>7, RecordTypes DEF StartRun, RegistryTypeOK, Resolved
  <2> QED BY <1>2, <2>1
<1>8. ASSUME NEW r \in Runs,
             ThreadFails(r) \/ WorkerBegins(r) \/ \E context \in Contexts : SetContext(r, context)
      PROVE  Recorded' /\ Final
  <2>1. Running(r) /\ Owner(r) \in Controllers /\ up[Owner(r)] = "up"
    BY <1>8, WorkerRecord DEF ThreadFails, WorkerBegins, SetContext, Running, Executing
  <2>2. /\ \E rec : Save(Owner(r), r, rec)
        /\ \A q \in Runs : q # r => worker'[q] = worker[q]
        /\ worker'[r] # "ended"
    BY <1>8 DEF ThreadFails, WorkerBegins, SetContext, RegistryTypeOK
  <2> QED BY <1>2, <1>3, <2>1, <2>2
<1>9. ASSUME NEW r \in Runs, NEW returns \in BOOLEAN, WorkerEnds(r, returns) PROVE Recorded' /\ Final
  <2>1. /\ Running(r) /\ disk' = disk /\ worker' = [worker EXCEPT ![r] = "ended"]
        /\ disk[r].status \in Unresolved /\ disk[r].status \notin Resolved
    BY <1>3, <1>9 DEF WorkerEnds, Running, Executing, Unresolved, Held
  <2>2. \A d \in Controllers, q \in Runs : q # r => cache'[d][q] = cache[d][q]
    BY <1>9, WorkerRecord DEF WorkerEnds, Executing, RegistryTypeOK
  <2>3. ASSUME NEW q \in Runs, worker'[q] = "ended", q # r
        PROVE  worker[q] = "ended" /\ Owner(q) \in Controllers
    BY <2>1, <2>3, WorkerRecord DEF RegistryTypeOK
  <2> QED BY <2>1, <2>2, <2>3 DEF Recorded, Owner
<1>10. ASSUME NEW r \in Runs, Settle(r) PROVE Recorded' /\ Final
  <2>1. /\ worker[r] = "ended" /\ Owner(r) \in Controllers /\ up[Owner(r)] = "up"
        /\ Save(Owner(r), r, cache[Owner(r)][r])
    BY <1>10, WorkerRecord DEF Settle, Save, RegistryTypeOK
  <2>2. /\ \A q \in Runs : q # r => worker'[q] = worker[q]
        /\ worker'[r] # "ended"
    BY <1>10 DEF Settle, RegistryTypeOK
  <2>3. disk[r].status \notin Resolved \/ cache[Owner(r)][r] = disk[r]
    BY <2>1 DEF Recorded
  <2> QED BY <1>2, <2>1, <2>2, <2>3
<1>11. ASSUME NEW c \in Controllers, NEW r \in Runs, GetRun(c, r) \/ InspectionBegins(c, r)
       PROVE  Recorded' /\ Final
  <2>1. /\ disk' = disk /\ worker' = worker
        /\ cache' = [cache EXCEPT ![c][r] = Known(c, r)]
    BY <1>11 DEF GetRun, InspectionBegins, Known
  <2>2. /\ Known(c, r).status = "unknown" => disk[r].status \in Unresolved
        /\ cache[c][r] # NoRecord => Known(c, r) = cache[c][r]
    BY KnownIsOpen DEF Known
  <2> HIDE DEF Final
  <2> QED BY <1>1, <2>1, <2>2 DEF RegistryTypeOK
<1>12. ASSUME NEW outcome \in Resolved \cup {"unknown"}, InspectionEnds(outcome)
       PROVE  Recorded' /\ Final
  <2>1. PICK c \in Controllers, r \in Runs : inspection.by = c /\ inspection.run = r
    BY <1>12, InspectedRests DEF InspectionEnds
  <2>2. /\ up[c] = "up" /\ cache[c][r].status = "unknown" /\ cache[c][r] \in Record
        /\ cache[c][r].owner = disk[r].owner
    BY <1>12, <2>1 DEF InspectionEnds, OneUp, Held, InspectionCached, RegistryTypeOK
  <2>3. disk[r].status \notin Resolved
    BY <1>4, <2>2 DEF Recorded
  <2>4. /\ Save(c, r, [cache[c][r] EXCEPT !.status = outcome]) /\ worker' = worker
    BY <1>12, <2>1 DEF InspectionEnds
  <2>5. [cache[c][r] EXCEPT !.status = outcome].owner = disk[r].owner
    BY <2>2 DEF Record
  <2> QED BY <1>2, <2>2, <2>3, <2>4, <2>5
<1>13. ASSUME NEW c \in Controllers, NEW r \in Runs, CloseByHand(c, r) PROVE Recorded' /\ Final
  <2>1. /\ up[c] = "up" /\ Known(c, r).status = "unknown" /\ worker' = worker
        /\ Save(c, r, [Known(c, r) EXCEPT !.status = "failed"])
    BY <1>13 DEF CloseByHand, Reconcilable
  <2>2. disk[r].status \in Unresolved /\ disk[r].status \notin Resolved
    BY <1>4, <2>1, KnownIsOpen
  <2>3. [Known(c, r) EXCEPT !.status = "failed"].owner = disk[r].owner
    <3>1. disk[r] # NoRecord
      BY <2>2, RecordTypes DEF Unresolved
    <3>2. Known(c, r) \in Record /\ Known(c, r).owner = disk[r].owner
      BY <3>1, KnownTypes
    <3> QED BY <3>2 DEF Record
  <2> QED BY <1>2, <2>1, <2>2, <2>3
<1>14. CASE UNCHANGED registryVars
  BY <1>1, <1>14 DEF registryVars
<1>15. \A r \in Runs : ~SettleFails(r)
  BY DEF SettleFails
<1> QED
  BY <1>5, <1>6, <1>7, <1>8, <1>9, <1>10, <1>11, <1>12, <1>13, <1>14, <1>15 DEF RegistryNext

(* One controller at a time, on a disk that takes every write: a recorded  *)
(* outcome never changes (worker, reconcile_run).                          *)
THEOREM OutcomesAreFinal == ~Overlap /\ ~DiskMayFail => (RegistrySpec => OutcomeIsFinal)
<1> SUFFICES ASSUME ~Overlap, ~DiskMayFail PROVE RegistrySpec => OutcomeIsFinal
  OBVIOUS
<1> DEFINE Inv == RegistryInv /\ Recorded
<1>1. RegistryInit => Inv
  <2>1. RegistryInit => Recorded
    BY RecordTypes DEF RegistryInit, Recorded
  <2> QED BY <2>1, RegistryInvInit
<1>2. Inv /\ [RegistryNext]_registryVars => Inv'
  BY RegistryInvStep, RecordedStep DEF RegistryInv
<1>3. Inv /\ [RegistryNext]_registryVars =>
        [\A r \in Runs : disk[r].status \in Resolved => disk'[r].status = disk[r].status]_registryVars
  BY RecordedStep DEF RegistryInv
<1> HIDE DEF Inv
<1> QED BY <1>1, <1>2, <1>3, PTL DEF RegistrySpec, OutcomeIsFinal
=============================================================================
