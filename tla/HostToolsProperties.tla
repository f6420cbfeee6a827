------------------------ MODULE HostToolsProperties ------------------------
(***************************************************************************)
(* What the tools on a node have to be when one of them is run.            *)
(***************************************************************************)
EXTENDS HostTools

Inside == {"staged", "installing", "gap"}

(* Every variable keeps its type, and the install lock of a node is held   *)
(* by the one installer that may touch it.                                 *)
ToolsTypeOK ==
  /\ checkout \in [Controllers -> Version]
  /\ verified \in [Controllers -> [Node -> 0..Newest]]
  /\ thread \in [Threads -> [pc : {"idle", "enter", "pull", "push", "wait", "ready"}, i : 1..Len(NodeList),
                             want : [Node -> 0..Newest], job : Jobs \cup {None}]]
  /\ runtime \in [Node -> [1..Len(Parts) -> 0..Newest]] /\ stamp \in [Node -> 0..Newest]
  /\ job \in [Jobs -> [pc : Inside \cup {"free", "waiting", "done", "failed"}, node : Node,
                       version : 0..Newest, i : 1..(Len(Parts) + 1), old : 0..Newest, wanted : BOOLEAN]]
  /\ faults \in 0..MaxFaults
  /\ clean \subseteq ((Threads \cup Controllers \cup Jobs) \X Node)
  /\ holder \in [Node -> Jobs \cup {None}]
  /\ \A n \in Node, j \in Jobs : holder[n] = j <=> job[j].pc \in Inside /\ On(j) = n

(* A stamp never lies: whatever was interrupted, and however installers of *)
(* several controllers follow each other, a node with a stamp has all the  *)
(* parts of that version (the installer script of _ensure_tools).          *)
StampTellsRuntime ==
  \A n \in Node : stamp[n] # 0 => Whole(n, stamp[n])

(* The tool that a thread goes on to run is one of the controller's own    *)
(* version, in a whole runtime, unless another installer has begun since   *)
(* it was seen: also when it was another thread that saw it, when the      *)
(* files changed meanwhile, or when the answer of an installer was lost    *)
(* (ensure_host_tools, _verified_at).                                      *)
ToolsAreOurs ==
  \A t \in Threads, n \in Node :
    thread[t].pc = "ready" /\ <<t, n>> \in clean => Whole(n, thread[t].want[n])

(* What an interrupted installer left torn is made whole again by a later  *)
(* one: nothing that it leaves behind keeps the next from installing.      *)
TornIsRepaired == \A n \in Node : []<>(\E v \in Version : Whole(n, v))
=============================================================================
