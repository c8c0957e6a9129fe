------------------------------ MODULE MCPodMap ------------------------------
(***************************************************************************)
(* Instances of PodMap for TLC.  The paths are the ones the kubelet makes  *)
(* with the systemd driver (module CgroupTree).                            *)
(***************************************************************************)
EXTENDS PodMap, TLC

CONSTANTS zero, web, job, odd, pause, info

Root == <<EmptyPart, Part(<<Seg("", "cgroup")>>, "")>>

Kubepods == Part(<<Seg("kubepods", "")>>, "slice")
Pod      == Part(<<Seg("kubepods", ""), Seg("pod", "12_34")>>, "slice")
Scope(id) == Part(<<Seg("", "cri"), Seg("", "containerd"), Seg("", id)>>, "scope")

ContainerPath(id) == Root \o <<Kubepods, Pod, Scope(id)>>

\* web: a cgroup of a container.  job: a cgroup inside a second container of
\* the same names (a restarted one).  odd: a container without labels.
\* pause: the sandbox.
AllPaths ==
    zero :> Root
    @@ web :> ContainerPath("a1")
    @@ job :> Append(ContainerPath("b2"), Part(<<Seg("", "init")>>, "scope"))
    @@ odd :> ContainerPath("c3")
    @@ pause :> ContainerPath("d4")

AllNames == "a1" :> info @@ "b2" :> info @@ "c3" :> NoPod @@ "d4" :> NoPod

MCPathOf  == [c \in Cgroups |-> AllPaths[c]]
MCOwner   == [c \in Cgroups |-> IF c \in {web, job} THEN info ELSE NoPod]
MCNamesOf == [id \in HexIds |-> AllNames[id]]

=============================================================================
