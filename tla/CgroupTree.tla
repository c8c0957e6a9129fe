----------------------------- MODULE CgroupTree -----------------------------
(***************************************************************************)
(* How the kubelet, the container runtime and the processes in a container *)
(* create cgroup directories, one level below the other, with either       *)
(* cgroup driver.  This is code outside the repository; it is what         *)
(* parseCgroupPath has to understand.                                      *)
(***************************************************************************)
EXTENDS CgroupPath

CONSTANTS
    InsideParts,  \* names processes give to cgroups inside their container
    MaxDepth      \* bound of the model: parts of a path

VARIABLES
    path,     \* the path of one cgroup
    level,    \* what created its last directory
    driver,   \* "systemd" or "cgroupfs"
    owner     \* the container the cgroup belongs to, "" for none

treeVars == <<path, level, driver, owner>>

TreeInit ==
    /\ path = <<EmptyPart, Part(<<Seg("", "cgroup")>>, "")>>
    /\ level = "root" /\ owner = ""
    /\ driver \in {"systemd", "cgroupfs"}

Descend(part, from, to) ==
    /\ level \in from /\ Len(path) < MaxDepth
    /\ path' = Append(path, part)
    /\ level' = to
    /\ UNCHANGED driver

\* A service of the host, with the container runtime's own daemon.
MkHost ==
    /\ Descend(Part(<<Seg("", "containerd")>>, "service"), {"root", "host"}, "host")
    /\ UNCHANGED owner

\* The kubelet creates the root of all pods, and one level for each QoS class
\* but Guaranteed.
MkKubepods ==
    /\ Descend(Part(<<Seg("kubepods", "")>>, IF driver = "systemd" THEN "slice" ELSE ""),
               {"root"}, "kubepods")
    /\ UNCHANGED owner

MkQos ==
    /\ Descend(IF driver = "systemd"
               THEN Part(<<Seg("kubepods", ""), Seg("", "burstable")>>, "slice")
               ELSE Part(<<Seg("", "burstable")>>, ""),
               {"kubepods"}, "qos")
    /\ UNCHANGED owner

\* The kubelet creates the pod: the systemd driver repeats the QoS class and
\* escapes the dashes of the UID, the cgroupfs driver keeps them.
MkPod ==
    /\ Descend(CASE driver = "cgroupfs" ->
                   Part(<<Seg("pod", "12"), Seg("", "34")>>, "")
                 [] driver = "systemd" /\ level = "kubepods" ->
                   Part(<<Seg("kubepods", ""), Seg("pod", "12_34")>>, "slice")
                 [] driver = "systemd" /\ level = "qos" ->
                   Part(<<Seg("kubepods", ""), Seg("", "burstable"),
                          Seg("pod", "12_34")>>, "slice"),
               {"kubepods", "qos"}, "pod")
    /\ UNCHANGED owner

\* The runtime creates the container: a scope named by the runtime and the id,
\* or a directory named by the id alone.
MkContainer(id) ==
    /\ Descend(IF driver = "systemd"
               THEN Part(<<Seg("", "cri"), Seg("", "containerd"), Seg("", id)>>, "scope")
               ELSE Part(<<Seg("", id)>>, ""),
               {"pod"}, "container")
    /\ owner' = id

\* A process in the container creates a cgroup below it.
MkInside(part) ==
    /\ Descend(part, {"container", "inside"}, "inside")
    /\ UNCHANGED owner

TreeNext ==
    \/ MkHost \/ MkKubepods \/ MkQos \/ MkPod
    \/ \E id \in HexIds : MkContainer(id)
    \/ \E part \in InsideParts : MkInside(part)

TreeSpec == TreeInit /\ [][TreeNext]_treeVars

-----------------------------------------------------------------------------
\* The parser gives every process of a container to that container and to no
\* other, with both drivers and whatever cgroups the container has made inside;
\* it calls a host cgroup "not a pod", and never a pod's own directory
\* (pkg/podmap/cgroup.go:28-56).
FindsContainer ==
    parseCgroupPath(path) =
        CASE level \in {"container", "inside"} -> Ok(owner)
          [] level \in {"root", "host"}        -> NotPod
          [] OTHER                             -> Invalid

=============================================================================
