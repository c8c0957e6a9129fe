------------------------------ MODULE MCAgent ------------------------------
(***************************************************************************)
(* Instances of Agent for TLC: a node with a GPU that has two device nodes *)
(* (card and render), an NPU and a device no vendor claims, a container    *)
(* and a host process.                                                     *)
(***************************************************************************)
EXTENDS Agent, TLC

CONSTANTS gpu, npu, other, card, render, accel, alien, podCg, hostCg, info

MCDevices  == {gpu, npu, other}
MCNodes    == {card, render, accel, alien}
MCDriverOf == gpu :> "i915" @@ npu :> "intel_vpu" @@ other :> "nouveau"
MCNodesOf  == gpu :> {card, render} @@ npu :> {accel} @@ other :> {alien}
MCCgroups  == {podCg, hostCg}
MCInfos    == {info}
MCOwner    == podCg :> info @@ hostCg :> NoPod

Request(cg, n, c) == [cgroup |-> cg, node |-> n, cmd |-> c]

\* A submit on the GPU's render node (with type bits above the low byte), a
\* submit on the NPU from outside any pod, and a call on the GPU's card node
\* whose number is only in the NPU's table.
MCRequests == {Request(podCg, render, 25600 + 105), Request(hostCg, accel, 77),
               Request(podCg, card, 77)}

\* Fewer, for the run about dropped events.
MCFewRequests == {Request(podCg, render, 105), Request(hostCg, accel, 77)}

\* The model treats all CPUs alike.
CpuSymmetry == Permutations(Cpus)

-----------------------------------------------------------------------------
\* kubenpu_events_dropped_total is, in its own help text, the "Total number of
\* dropped events" (pkg/metrics/metrics.go:82): an event that left the pipeline
\* without being counted as an ioctl is in that total
\* (cmd/agent/main.go:208-232).
DroppedTotal ==
    SumOver(eventsDropped, dropReasons) + SumOver(dropped, Cpus)
        = Cardinality({i \in Ids : place[i] \in Final \ {"counted", "ignored"}})

=============================================================================
