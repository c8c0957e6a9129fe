------------------------------ MODULE Workload ------------------------------
(***************************************************************************)
(* The node the agent runs on: its accelerator devices, as discovery       *)
(* reports them, the cgroups of its processes, and the drm_ioctl calls     *)
(* those processes make.  From these the module defines the ground truth:  *)
(* which calls the agent ought to see and under which labels.              *)
(***************************************************************************)
EXTENDS Hw, Containers

CONSTANTS
    Devices,   \* device addresses, the keys of the map Discover builds
    Nodes,     \* device numbers major:minor
    DriverOf,  \* [Devices -> STRING]: Device.DriverName
    NodesOf,   \* [Devices -> SUBSET Nodes]: Device.Nodes
    Requests   \* the calls processes may make: [cgroup, node, cmd]

ASSUME WorkloadAssumption ==
    /\ DriverOf \in [Devices -> STRING]
    /\ NodesOf \in [Devices -> SUBSET Nodes]
    /\ \A d, e \in Devices : d # e => NodesOf[d] \cap NodesOf[e] = {}
    /\ Requests \subseteq [cgroup : Cgroups, node : Nodes, cmd : Nat]

\* `cmd & 0xFF`: the request number without direction, size and type bits.
Nr(cmd) == cmd % 256

VendorOf(d) == GetVendor(DriverOf[d])

\* The calls that should be counted: on a node of a device some vendor
\* implementation claims, with a request number of that vendor's table.
SupportedOn(q, d) ==
    /\ q.node \in NodesOf[d]
    /\ VendorOf(d) # NoVendor
    /\ Nr(q.cmd) \in DOMAIN Ioctls(VendorOf(d))

Supported(q) == \E d \in Devices : SupportedOn(q, d)

DeviceOf(n) == CHOOSE d \in Devices : n \in NodesOf[d]

\* The labels under which a supported call of a container belongs.
TrueKey(q) ==
    LET d == DeviceOf(q.node) IN
      [info   |-> Owner[q.cgroup],
       device |-> d,
       vendor |-> VendorOf(d),
       kind   |-> KindString(Ioctls(VendorOf(d))[Nr(q.cmd)])]

\* metrics.key: the label values of kubenpu_ioctl_total.
Keys == [info : Infos, device : Devices, vendor : Vendors, kind : KindNames]

\* The reasons of kubenpu_events_dropped_total that userspace counts.
dropReasons == {"device_unknown", "not_pod", "not_indexed",
                "container_not_found", "queue_full"}

=============================================================================
