----------------------- MODULE RunRegistryProperties -----------------------
(***************************************************************************)
(* What the run registry promises.                                         *)
(***************************************************************************)
EXTENDS RunRegistry

Record == [key : Keys \cup {None}, status : Unresolved \cup Resolved \cup {"absent"},
           owner : Controllers \cup {None}, context : Contexts]

Places == {"none", "queued", "running", "ended", "done"}

(* Every variable keeps its type; a run on file has its owner and its key, *)
(* and what a process keeps of a run is of that key and owner.             *)
RegistryTypeOK ==
  /\ up \in [Controllers -> {"new", "up", "dead"}]
  /\ disk \in [Runs -> Record] /\ cache \in [Controllers -> [Runs -> Record]]
  /\ active \in [Controllers -> [Keys -> Runs \cup {None}]]
  /\ worker \in [Runs -> Places]
  /\ inspection \in [by : Controllers, run : Runs] \cup {NoInspection}
  /\ \A r \in Runs : disk[r] # NoRecord =>
       disk[r].key \in Keys /\ disk[r].owner \in Controllers /\ disk[r].status # "absent"
  /\ \A c \in Controllers, r \in Runs : cache[c][r] # NoRecord =>
       /\ disk[r] # NoRecord /\ cache[c][r].status # "absent"
       /\ cache[c][r].key = disk[r].key /\ cache[c][r].owner = disk[r].owner
  /\ \A r \in Runs : worker[r] # "none" => disk[r] # NoRecord

(* One piece of work per operation key, over the threads of all processes  *)
(* (start_run; docs/WEBAPP_CONTROL_PLANE.md:63).                           *)
KeyExclusive ==
  \A q, r \in Runs : Running(q) /\ Running(r) /\ disk[q].key = disk[r].key => q = r

(* The file knows of all work in progress: whoever reads it, after a crash *)
(* or in another process, finds the key taken (start_run, reconcile_run).  *)
WorkIsOnFile == \A r \in Runs : Running(r) => disk[r].status \in Unresolved

(* A recorded outcome is final, whoever reconciles and however late the    *)
(* thread of the run gets to write (worker, reconcile_run).                *)
OutcomeIsFinal ==
  [][\A r \in Runs : disk[r].status \in Resolved => disk'[r].status = disk[r].status]_registryVars
=============================================================================
