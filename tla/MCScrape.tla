------------------------------ MODULE MCScrape ------------------------------
(***************************************************************************)
(* Instances of Scrape for TLC: one GPU, a container and a host process.   *)
(***************************************************************************)
EXTENDS Scrape, TLC

CONSTANTS gpu, render, podCg, hostCg, info

MCDriverOf == gpu :> "i915"
MCNodesOf  == gpu :> {render}
MCOwner    == podCg :> info @@ hostCg :> NoPod

Submits(cg) == [cgroup |-> cg, node |-> render, cmd |-> 105]

MCPodRequests == {Submits(podCg)}

\* CPUs and requests are interchangeable.
ScrapeSymmetry == Permutations(Cpus) \cup Permutations(Handlers)

=============================================================================
