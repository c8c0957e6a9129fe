----------------------------- MODULE Containers -----------------------------
(***************************************************************************)
(* The cgroups of the node's processes and the containers that own them,   *)
(* and the notation for the Go and BPF maps the other modules are full of. *)
(***************************************************************************)
EXTENDS Naturals

CONSTANTS
    Cgroups,   \* cgroup ids
    Infos,     \* ContainerInfo values: namespace, pod and container names
    NoPod,     \* marks a cgroup that is not a Kubernetes container's
    Owner      \* [Cgroups -> Infos \cup {NoPod}]: whose cgroup it is

ASSUME OwnerAssumption ==
    /\ NoPod \notin Infos
    /\ Owner \in [Cgroups -> Infos \cup {NoPod}]

\* What ContainerInfo returns: ErrNotPod, ErrNotIndexed, ErrContainerNotFound or
\* another error, or the names of the container.
Errors     == {"not_pod", "not_indexed", "container_not_found", "other"}
Failure(e) == [err |-> e, info |-> NoPod]
Success(i) == [err |-> "none", info |-> i]

\* A Go or BPF map after storing v at k.
Put(m, k, v) == [x \in DOMAIN m \cup {k} |-> IF x = k THEN v ELSE m[x]]

\* A map after storing every pair of `new`.
PutAll(m, new) ==
    [x \in DOMAIN m \cup DOMAIN new |->
        IF x \in DOMAIN new THEN new[x] ELSE m[x]]

\* `m[k]++` on a Go map.
Increment(m, k) == Put(m, k, IF k \in DOMAIN m THEN m[k] + 1 ELSE 1)

EmptyMap == [x \in {} |-> x]

=============================================================================
