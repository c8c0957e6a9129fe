----------------------------- MODULE DevNumbers -----------------------------
(***************************************************************************)
(* Device numbers on their way through the system.  The other modules take *)
(* a number for an atomic value; here it is taken apart and put together   *)
(* the way the code does it.  The agent gets a number from stat, in the    *)
(* encoding of user space; the eBPF program reads it from the inode, in    *)
(* the encoding of the kernel; the event carries the major in 16 bits; the *)
(* worker looks the event's pair up in deviceMap.                          *)
(***************************************************************************)
EXTENDS Naturals

CONSTANT Numbers   \* the numbers of the device nodes, as major and minor

Below(n) == {x \in Nat : x < n}

\* MAJOR and MINOR of the kernel: 12 and 20 bits.
Key == [major : Below(4096), minor : Below(1048576)]

ASSUME NumbersAssumption == Numbers \subseteq Key

VARIABLES
    attached,   \* Loader.Attach has run
    added,      \* history: the numbers main has handed to AddDevice
    devices,    \* BPF hash: its keys
    deviceMap,  \* main's deviceMap: pairs of a key and the node it is for
    events,     \* records on their way: [node, major, minor], node as history
    ignored,    \* history: nodes of calls the program let pass
    resolved    \* history: [node, found] for each event the worker took

vars == <<attached, added, devices, deviceMap, events, ignored, resolved>>

-----------------------------------------------------------------------------
(* Encodings. *)

\* i_rdev: MKDEV(major, minor).
MkDev(n) == n.major * 1048576 + n.minor

\* new_encode_dev, which stat applies: the low byte of the minor, the major
\* above it, then the rest of the minor.
StatRdev(n) == (n.minor % 256) + 256 * n.major + 1048576 * (n.minor \div 256)

\* unix.Major and unix.Minor, for the 32 bits that stat fills.
UnixMajor(rdev) == (rdev \div 256) % 4096
UnixMinor(rdev) == (rdev % 256) + 256 * (rdev \div 1048576)

\* Shifts by hand, as if a minor had 8 bits.
NodeKeyShifted(n) ==
    [major |-> StatRdev(n) \div 256, minor |-> StatRdev(n) % 256]

\* Node.Major and Node.Minor as discoverDevices fills them.
NodeKey(n) ==
    [major |-> UnixMajor(StatRdev(n)), minor |-> UnixMinor(StatRdev(n))]

\* `rdev & 0xFFFFF`.
KeyMinor(rdev) == rdev % 1048576

\* The major taken from the inode as user space would.
UserMajor(rdev) == (rdev \div 256) % 4096

\* `rdev >> 20`.
KeyMajor(rdev) == rdev \div 1048576

\* An event whose major has the 8 bits of an old dev_t.
EventByteMajor(major) == major % 256

\* poll_event->major: __u16.
EventMajor(major) == major % 65536

-----------------------------------------------------------------------------
Init ==
    /\ attached = FALSE
    /\ added = {} /\ devices = {} /\ deviceMap = {}
    /\ events = {} /\ ignored = {} /\ resolved = {}

\* One node of the device loop of main: deviceMap and Loader.AddDevice.
AddDevice(n) ==
    /\ ~attached
    /\ added' = added \cup {n}
    /\ devices' = devices \cup {NodeKey(n)}
    /\ deviceMap' = {p \in deviceMap : p.key # NodeKey(n)}
                    \cup {[key |-> NodeKey(n), node |-> n]}
    /\ UNCHANGED <<attached, events, ignored, resolved>>

Attach ==
    /\ ~attached
    /\ attached' = TRUE
    /\ UNCHANGED <<added, devices, deviceMap, events, ignored, resolved>>

\* The key kubenpu_ioctl looks up for a call on node n.
ProgramKey(n) == [major |-> KeyMajor(MkDev(n)), minor |-> KeyMinor(MkDev(n))]

\* A call on a node whose key is in `devices` makes an event.
Observe(n) ==
    /\ attached
    /\ ProgramKey(n) \in devices
    /\ events' = events \cup {[node  |-> n,
                               major |-> EventMajor(ProgramKey(n).major),
                               minor |-> ProgramKey(n).minor]}
    /\ UNCHANGED <<attached, added, devices, deviceMap, ignored, resolved>>

\* On any other node the program returns.
Ignore(n) ==
    /\ attached
    /\ ProgramKey(n) \notin devices
    /\ ignored' = ignored \cup {n}
    /\ UNCHANGED <<attached, added, devices, deviceMap, events, resolved>>

\* The entries of deviceMap under deviceNode{uint32(event.Major), event.Minor}.
Found(e) ==
    {p.node : p \in {q \in deviceMap :
                       q.key = [major |-> e.major, minor |-> e.minor]}}

\* The worker looks an event's device up, or finds none: device_unknown.
Resolve(e) ==
    /\ events' = events \ {e}
    /\ resolved' = resolved \cup {[node |-> e.node, found |-> Found(e)]}
    /\ UNCHANGED <<attached, added, devices, deviceMap, ignored>>

Next ==
    \/ Attach
    \/ \E n \in Numbers : AddDevice(n) \/ Observe(n) \/ Ignore(n)
    \/ \E e \in events : Resolve(e)

Spec == Init /\ [][Next]_vars

-----------------------------------------------------------------------------
(* Properties. *)

\* Keys fit the widths of struct device_key's halves, the event's major its 16
\* bits; deviceMap has exactly one entry for each key of `devices`.
TypeOK ==
    /\ attached \in BOOLEAN
    /\ added \subseteq Numbers /\ ignored \subseteq Numbers
    /\ devices \subseteq Key
    /\ deviceMap \subseteq [key : Key, node : Numbers]
    /\ devices = {p.key : p \in deviceMap}
    /\ \A p, q \in deviceMap : p.key = q.key => p = q
    /\ events \subseteq [node : Numbers, major : Below(65536),
                          minor : Below(1048576)]
    /\ resolved \subseteq [node : Numbers, found : SUBSET Numbers]

\* The program watches the nodes main has added and no others: the number it
\* computes from the inode is the one main computed from stat, and no node is
\* taken for another, also above 255, where the two encodings differ and where
\* the accel major lies (bpf/drm_common.bpf.c:47-56,
\* pkg/discovery/discovery.go:72-74).
WatchedExactly ==
    /\ ignored \cap added = {}
    /\ \A e \in events : e.node \in added

\* Every event is resolved to the node the call was made on, never to another
\* and never to none: what the event cuts from the major is not needed
\* (bpf/drm_common.bpf.c:80-81, cmd/agent/main.go:204-211).
OwnDevice == \A r \in resolved : r.found = {r.node}

=============================================================================
