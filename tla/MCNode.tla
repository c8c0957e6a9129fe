------------------------------- MODULE MCNode -------------------------------
(***************************************************************************)
(* An instance of Node for TLC: one device, a container of a pod, one      *)
(* whose labels are incomplete, and cgroup 0.                              *)
(***************************************************************************)
EXTENDS Node, TLC

CONSTANTS gpu, render, zero, web, odd, info

MCDriverOf == gpu :> "i915"
MCNodesOf  == gpu :> {render}

Root == <<EmptyPart, Part(<<Seg("", "cgroup")>>, "")>>

ContainerPath(id) ==
    Root \o <<Part(<<Seg("kubepods", "")>>, "slice"),
              Part(<<Seg("kubepods", ""), Seg("pod", "12_34")>>, "slice"),
              Part(<<Seg("", "cri"), Seg("", "containerd"), Seg("", id)>>,
                   "scope")>>

MCPathOf  == [c \in Cgroups |-> CASE c = zero -> Root
                                  [] c = web -> ContainerPath("a1")
                                  [] c = odd -> ContainerPath("b2")]
MCOwner   == [c \in Cgroups |-> IF c = web THEN info ELSE NoPod]
MCNamesOf == [id \in HexIds |-> IF id = "a1" THEN info ELSE NoPod]

\* Submits on the render node, by each kind of process.
MCRequests == {[cgroup |-> c, node |-> render, cmd |-> 105] : c \in Cgroups}

=============================================================================
