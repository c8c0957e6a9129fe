----------------------------- MODULE CgroupPath -----------------------------
(***************************************************************************)
(* parseCgroupPath of pkg/podmap/cgroup.go: from the path of a cgroup      *)
(* directory to the id of the container it belongs to.                     *)
(*                                                                         *)
(* A path is a sequence of parts (split at "/").  A part is the sequence   *)
(* of its segments (split at "-") and an extension; a segment is an        *)
(* optional prefix the code looks for ("kubepods" or "pod") and the rest.  *)
(* So kubepods-burstable-pod12_34.slice has the segments kubepods,         *)
(* burstable and pod|12_34, and the extension "slice".  Only whether a     *)
(* part names a pod matters: no caller reads the pod UID.                  *)
(***************************************************************************)
EXTENDS Naturals, Sequences

CONSTANT HexIds   \* the strings of lower-case hexadecimal digits

\* isHex refuses the empty string.
ASSUME HexAssumption == "" \notin HexIds

Seg(pre, rest) == [pre |-> pre, rest |-> rest]

Part(segs, ext) == [segs |-> segs, ext |-> ext]

EmptyPart == Part(<<Seg("", "")>>, "")

\* The result of the parser: ErrNotPod, another error, or the container id.
NotPod  == [st |-> "not_pod"]
Invalid == [st |-> "other"]
Ok(id)  == [st |-> "ok", id |-> id]

HasKubepodsPrefix(part) == part.segs[1].pre = "kubepods"

\* strings.Contains(path, "kubepods"): anywhere in the path.
ContainsKubepods(path) ==
    \E i \in 1 .. Len(path) :
        \E j \in 1 .. Len(path[i].segs) : path[i].segs[j].pre = "kubepods"

\* podUIDFromPart, the systemd driver: kubepods-[qos-]pod<uid>.slice.
SystemdPodUID(part) ==
    \E j \in 2 .. Len(part.segs) :
        /\ part.segs[j].pre = "pod"
        /\ \A k \in 2 .. (j - 1) : part.segs[k].pre # "pod"
        /\ part.segs[j].rest # "" \/ j < Len(part.segs)

\* podUIDFromPart, the cgroupfs driver: pod<uid>.
CgroupfsPodUID(part) ==
    /\ part.segs[1].pre = "pod"
    /\ part.segs[1].rest # "" \/ 1 < Len(part.segs) \/ part.ext # ""

\* podUIDFromPart succeeds.
podUIDFromPart(part) ==
    IF /\ part.segs[1] = Seg("kubepods", "") /\ Len(part.segs) > 1
       /\ part.ext = "slice"
    THEN SystemdPodUID(part)
    ELSE CgroupfsPodUID(part)

\* containerIDFromPart: without ".scope", what follows the last "-", if it is
\* hexadecimal.
containerIDFromPart(part) ==
    LET s == part.segs[Len(part.segs)] IN
      IF part.ext \in {"", "scope"} /\ s.pre = "" /\ s.rest \in HexIds
      THEN Ok(s.rest) ELSE Invalid

\* The parts at which the loop of parseCgroupPath may stop: they name a pod
\* and stand at or below the first part that begins with "kubepods".
PodParts(path) ==
    {i \in 1 .. Len(path) :
        /\ podUIDFromPart(path[i])
        /\ \E k \in 1 .. i : HasKubepodsPrefix(path[k])}

First(S) == CHOOSE i \in S : \A j \in S : i <= j

\* A loop that runs on to the innermost pod part.
parseInnermost(path) ==
    IF ~ContainsKubepods(path) THEN NotPod
    ELSE IF PodParts(path) = {} THEN Invalid
    ELSE LET i == CHOOSE m \in PodParts(path) : \A j \in PodParts(path) : m >= j IN
           IF i = Len(path) \/ path[i + 1] = EmptyPart THEN Invalid
           ELSE containerIDFromPart(path[i + 1])

parseCgroupPath(path) ==
    IF ~ContainsKubepods(path) THEN NotPod
    ELSE IF PodParts(path) = {} THEN Invalid
    ELSE LET i == First(PodParts(path)) IN
           IF i = Len(path) \/ path[i + 1] = EmptyPart THEN Invalid
           ELSE containerIDFromPart(path[i + 1])

=============================================================================
