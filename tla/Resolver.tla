------------------------------ MODULE Resolver ------------------------------
(***************************************************************************)
(* What podmap.PodMap promises its only caller, the worker goroutine of    *)
(* main.go: a cgroup id goes in, and either the names of the container     *)
(* that owns the cgroup or one of four classes of error comes out.  How    *)
(* PodMap keeps the promise (cache, cgroup index, CRI) is module PodMap,   *)
(* which implements this specification.                                    *)
(***************************************************************************)
EXTENDS Containers

VARIABLE lookup   \* the call in progress

Answers ==
    [err : {"none"}, info : Infos] \cup [err : Errors, info : {NoPod}]

\* The answers ContainerInfo may give: the true owner, never another
\* container, and ErrNotPod only when there is no owner.
Permitted(cg) ==
    {Failure("not_indexed"), Failure("container_not_found"), Failure("other")}
    \cup (IF Owner[cg] = NoPod THEN {Failure("not_pod")}
                               ELSE {Success(Owner[cg])})

NoLookup == [st |-> "idle"]

Lookups ==
    {NoLookup} \cup [st : {"busy"}, cg : Cgroups]
               \cup [st : {"done"}, cg : Cgroups, ans : Answers]

ResolverInit == lookup = NoLookup

\* The worker calls ContainerInfo.
Begin(cg) ==
    /\ lookup = NoLookup
    /\ lookup' = [st |-> "busy", cg |-> cg]

\* ContainerInfo returns.
Finish(a) ==
    /\ lookup.st = "busy"
    /\ lookup' = [st |-> "done", cg |-> lookup.cg, ans |-> a]

\* The worker has used the answer.
Release ==
    /\ lookup.st = "done"
    /\ lookup' = NoLookup

ResolverNext ==
    \/ \E cg \in Cgroups : Begin(cg)
    \/ lookup.st = "busy" /\ \E a \in Permitted(lookup.cg) : Finish(a)
    \/ Release

ResolverSpec == ResolverInit /\ [][ResolverNext]_lookup

=============================================================================
