----------------------------- MODULE Discovery -----------------------------
(***************************************************************************)
(* How the agent learns which device nodes to watch: discovery.Discover    *)
(* walks /dev/dri and /dev/accel (pkg/discovery), and the device loop of   *)
(* main.go fills deviceMap and the `devices` and `ioctls` maps before the  *)
(* program is attached.  All of it happens once, at startup, one file at a *)
(* time, while devices may be plugged in and out.                          *)
(*                                                                         *)
(* A file stands for its device number: the kernel derives the name of a   *)
(* DRM or accel node from its minor number (card1 is 226:1), and gives the *)
(* number to another device once it is free.                               *)
(***************************************************************************)
EXTENDS Hw, FiniteSets

CONSTANTS
    Addrs,       \* bus addresses of devices
    None,        \* no device
    Files,       \* names of device nodes, each with its number
    DirOf,       \* [Files -> {"dri", "accel"}]: the directory of each
    Layouts,     \* [Addrs -> SUBSET SUBSET Files]: nodes a device may be given
    DriverOf,    \* [Addrs -> STRING]: DRIVER of its uevent file, "" if missing
    Others,      \* entries of /dev/dri that are no character devices (by-path)
    MaxDevices,  \* MAX_ENTRIES_DEVICES
    MaxIoctls    \* MAX_ENTRIES_IOCTLS

ASSUME DiscoveryAssumption ==
    /\ None \notin Addrs
    /\ Others \cap Files = {}
    /\ DirOf \in [Files -> {"dri", "accel"}]
    /\ Layouts \in [Addrs -> SUBSET ((SUBSET Files) \ {{}})]
    /\ DriverOf \in [Addrs -> STRING]
    /\ MaxDevices \in Nat
    /\ MaxIoctls \in Nat

VARIABLES
    owner,      \* the device behind each file, None if the file does not exist
    steady,     \* history: devices present ever since the agent started
    broken,     \* history: files of present devices that could not be read
    at,         \* where main is
    dir,        \* the directory discoverDevices reads
    files,      \* directory entries it has not looked at yet
    cur,        \* the file it looks at
    uevent,     \* DRIVER as ReadUevent returned it
    driver,     \* Device.DriverName, by address
    nodes,      \* Device.Nodes, by address; empty for a device not found
    todo,       \* devices the loop of main has not handled
    dev,        \* the device it handles
    left,       \* nodes of that device still to be added
    deviceMap,  \* main's deviceMap: file -> address, None if absent
    devices,    \* BPF hash: file -> vendor id, 0 if absent
    ioctls,     \* BPF hash: the keys <<vendor id, nr>>
    call        \* history: the last ioctl made while attached

nodeVars == <<owner, steady>>
walkVars == <<dir, files, cur, uevent>>
foundVars == <<driver, nodes>>
fillVars == <<todo, dev, left, deviceMap, devices, ioctls>>
vars == <<nodeVars, broken, at, walkVars, foundVars, fillVars, call>>

NoCall == [file |-> None]

Present(a) == \E f \in Files : owner[f] = a

Init ==
    /\ owner \in [Files -> Addrs \cup {None}]
    /\ \A a \in Addrs :
           {f \in Files : owner[f] = a} \in Layouts[a] \cup {{}}
    /\ steady = {a \in Addrs : Present(a)}
    /\ broken = {}
    /\ at = "readdir" /\ dir = "dri"
    /\ files = {} /\ cur = None /\ uevent = ""
    /\ driver = [a \in Addrs |-> ""]
    /\ nodes = [a \in Addrs |-> {}]
    /\ todo = {} /\ dev = None /\ left = {}
    /\ deviceMap = [f \in Files |-> None]
    /\ devices = [f \in Files |-> 0]
    /\ ioctls = {}
    /\ call = NoCall

-----------------------------------------------------------------------------
(* The node. *)

\* A device appears and gets a set of free numbers.
Plug(a) ==
    /\ ~Present(a)
    /\ \E F \in Layouts[a] :
        /\ \A f \in F : owner[f] = None
        /\ owner' = [f \in Files |-> IF f \in F THEN a ELSE owner[f]]
    /\ UNCHANGED <<steady, broken, at, walkVars, foundVars, fillVars, call>>

\* It disappears with its nodes in /dev and its directories in sysfs.
Unplug(a) ==
    /\ Present(a)
    /\ owner' = [f \in Files |-> IF owner[f] = a THEN None ELSE owner[f]]
    /\ steady' = steady \ {a}
    /\ UNCHANGED <<broken, at, walkVars, foundVars, fillVars, call>>

-----------------------------------------------------------------------------
(* discoverDevices. *)

\* The entries of directory d, for a caller that reads /dev/dri twice.
ListingOfDri(d) ==
    {f \in Files : DirOf[f] = "dri" /\ owner[f] # None} \cup Others

\* The entries of directory d.
Listing(d) ==
    {f \in Files : DirOf[f] = d /\ owner[f] # None}
    \cup (IF d = "dri" THEN Others ELSE {})

\* os.ReadDir.
ReadDir ==
    /\ at = "readdir"
    /\ files' = Listing(dir)
    /\ at' = "next"
    /\ UNCHANGED <<nodeVars, broken, dir, cur, uevent, foundVars, fillVars, call>>

\* It fails with anything but ErrNotExist: Discover fails, log.Fatal.
ReadDirFails ==
    /\ at = "readdir"
    /\ at' = "dead"
    /\ UNCHANGED <<nodeVars, broken, walkVars, foundVars, fillVars, call>>

\* discoverDevices returns nil, or ErrNotExist, which Discover lets pass; then
\* the other directory, then the result.
DirDone ==
    /\ \/ at = "next" /\ files = {}
       \/ at = "readdir" /\ Listing(dir) = {}
    /\ files' = {}
    /\ IF dir = "dri" THEN /\ dir' = "accel" /\ at' = "readdir"
                           /\ UNCHANGED todo
                      ELSE /\ at' = "fill"
                           /\ todo' = {a \in Addrs : nodes[a] # {}}
                           /\ UNCHANGED dir
    /\ UNCHANGED <<nodeVars, broken, cur, uevent, foundVars, dev, left,
                   deviceMap, devices, ioctls, call>>

\* Taking every entry for a character device.
SkipEntryMissing ==
    /\ at = "next"
    /\ \E f \in files \cap Others : files' = files \ {f} /\ cur' = f
    /\ at' = "uevent"
    /\ UNCHANGED <<nodeVars, broken, dir, uevent, foundVars, fillVars, call>>

\* A directory or a file that is no character device.
SkipEntry ==
    /\ at = "next"
    /\ \E f \in files \cap Others : files' = files \ {f}
    /\ UNCHANGED <<nodeVars, broken, at, dir, cur, uevent, foundVars, fillVars,
                   call>>

\* unix.Stat succeeds: the file's number is known.
Stat(f) ==
    /\ at = "next" /\ f \in files \cap Files /\ owner[f] # None
    /\ files' = files \ {f} /\ cur' = f
    /\ at' = "uevent"
    /\ UNCHANGED <<nodeVars, broken, dir, uevent, foundVars, fillVars, call>>

\* Returning the error, ErrNotExist, ends this directory.
StatGoneReturns(f) ==
    /\ at = "next" /\ f \in files \cap Files /\ owner[f] = None
    /\ files' = {}
    /\ UNCHANGED <<nodeVars, broken, at, dir, cur, uevent, foundVars, fillVars,
                   call>>

\* The file is gone since the directory was read: log and continue.
StatGone(f) ==
    /\ at = "next" /\ f \in files \cap Files /\ owner[f] = None
    /\ files' = files \ {f}
    /\ UNCHANGED <<nodeVars, broken, at, dir, cur, uevent, foundVars, fillVars,
                   call>>

\* The uevent file of the device behind the current file names a driver.
HasDriver == owner[cur] # None /\ DriverOf[owner[cur]] # ""

\* ReadUevent returns the fields of the device behind the file now.
ReadUevent ==
    /\ at = "uevent" /\ HasDriver
    /\ uevent' = DriverOf[owner[cur]]
    /\ at' = "address"
    /\ UNCHANGED <<nodeVars, broken, dir, files, cur, foundVars, fillVars, call>>

\* There is no uevent file any more, or no DRIVER in it: log and continue.
UeventFails ==
    /\ at = "uevent" /\ ~HasDriver
    /\ at' = "next" /\ cur' = None
    /\ UNCHANGED <<nodeVars, broken, dir, files, uevent, foundVars, fillVars,
                   call>>

\* GetDeviceAddress resolves the link to the device, and the node is merged
\* into the device with that address, or begins a new one.
Merge ==
    /\ at = "address" /\ owner[cur] # None
    /\ LET a == owner[cur] IN
         /\ nodes' = [nodes EXCEPT ![a] = @ \cup {cur}]
         /\ driver' = IF nodes[a] = {} THEN [driver EXCEPT ![a] = uevent]
                                       ELSE driver
    /\ at' = "next" /\ cur' = None /\ uevent' = ""
    /\ UNCHANGED <<nodeVars, broken, dir, files, fillVars, call>>

\* The link is gone: log and continue.
AddressGone ==
    /\ at = "address" /\ owner[cur] = None
    /\ at' = "next" /\ cur' = None /\ uevent' = ""
    /\ UNCHANGED <<nodeVars, broken, dir, files, foundVars, fillVars, call>>

\* A read fails although the device is there.  A failing stat has the effect of
\* a failing ReadUevent.
ReadError ==
    /\ at \in {"uevent", "address"} /\ owner[cur] # None
    /\ broken' = broken \cup {cur}
    /\ at' = "next" /\ cur' = None /\ uevent' = ""
    /\ UNCHANGED <<nodeVars, dir, files, foundVars, fillVars, call>>

Discover ==
    \/ ReadDir \/ ReadDirFails \/ DirDone \/ SkipEntry
    \/ \E f \in Files : Stat(f) \/ StatGone(f)
    \/ ReadUevent \/ UeventFails \/ Merge \/ AddressGone \/ ReadError

-----------------------------------------------------------------------------
(* The device loop of main. *)

VendorOf(a) == GetVendor(driver[a])

\* No vendor claims the driver: log and continue.
SkipDevice(a) ==
    /\ at = "fill" /\ a \in todo
    /\ VendorOf(a) = NoVendor
    /\ todo' = todo \ {a}
    /\ UNCHANGED <<nodeVars, broken, at, walkVars, foundVars, dev, left,
                   deviceMap, devices, ioctls, call>>

BeginDevice(a) ==
    /\ at = "fill" /\ a \in todo
    /\ VendorOf(a) # NoVendor
    /\ todo' = todo \ {a}
    /\ dev' = a /\ left' = nodes[a]
    /\ at' = "nodes"
    /\ UNCHANGED <<nodeVars, broken, walkVars, foundVars, deviceMap, devices,
                   ioctls, call>>

\* The hash has room for the key, or has it already.
Fits(f) ==
    Cardinality({g \in Files : devices[g] # 0} \cup {f}) <= MaxDevices

\* An error of AddDevice that is only logged.
AddDeviceIgnoresError(f) ==
    /\ at = "nodes" /\ f \in left
    /\ left' = left \ {f}
    /\ deviceMap' = [deviceMap EXCEPT ![f] = dev]
    /\ devices' = IF Fits(f)
                  THEN [devices EXCEPT ![f] = GetVendorID(VendorOf(dev))]
                  ELSE devices
    /\ UNCHANGED <<nodeVars, broken, at, walkVars, foundVars, todo, dev,
                   ioctls, call>>

\* A node goes into deviceMap and, with AddDevice, into the `devices` hash.
AddDevice(f) ==
    /\ at = "nodes" /\ f \in left
    /\ Fits(f)
    /\ left' = left \ {f}
    /\ deviceMap' = [deviceMap EXCEPT ![f] = dev]
    /\ devices' = [devices EXCEPT ![f] = GetVendorID(VendorOf(dev))]
    /\ UNCHANGED <<nodeVars, broken, at, walkVars, foundVars, todo, dev,
                   ioctls, call>>

\* The hash is full: log.Fatal.
AddDeviceFails(f) ==
    /\ at = "nodes" /\ f \in left
    /\ ~Fits(f)
    /\ deviceMap' = [deviceMap EXCEPT ![f] = dev]
    /\ at' = "dead"
    /\ UNCHANGED <<nodeVars, broken, walkVars, foundVars, todo, dev, left,
                   devices, ioctls, call>>

\* The hash keys of a vendor's table.
TableOf(v) == {<<GetVendorID(v), nr>> : nr \in DOMAIN Ioctls(v)}

\* AddIoctl for each entry of the vendor's table; log.Fatal when one does not
\* fit, with some of them in the map.
AddIoctls ==
    /\ at = "nodes" /\ left = {}
    /\ LET all == ioctls \cup TableOf(VendorOf(dev)) IN
         IF Cardinality(all) <= MaxIoctls
         THEN ioctls' = all /\ at' = "fill" /\ dev' = None
         ELSE at' = "dead" /\ UNCHANGED <<ioctls, dev>>
    /\ UNCHANGED <<nodeVars, broken, walkVars, foundVars, todo, left,
                   deviceMap, devices, call>>

\* Loader.Attach after the loop.
Attach ==
    /\ at = "fill" /\ todo = {}
    /\ at' = "attached"
    /\ UNCHANGED <<nodeVars, broken, walkVars, foundVars, fillVars, call>>

\* It fails: log.Fatal.
AttachFails ==
    /\ at = "fill" /\ todo = {}
    /\ at' = "dead"
    /\ UNCHANGED <<nodeVars, broken, walkVars, foundVars, fillVars, call>>

Fill ==
    \/ \E a \in Addrs : SkipDevice(a) \/ BeginDevice(a)
    \/ \E f \in Files : AddDevice(f) \/ AddDeviceFails(f)
    \/ AddIoctls \/ Attach \/ AttachFails

-----------------------------------------------------------------------------
(* A drm_ioctl call while the program is attached: the program looks the   *)
(* number up in `devices`, the worker in deviceMap.                        *)

Ioctl(f) ==
    /\ at = "attached" /\ owner[f] # None
    /\ call' = [file |-> f, device |-> owner[f], vendorID |-> devices[f],
                label |-> IF devices[f] = 0 THEN None ELSE deviceMap[f]]
    /\ UNCHANGED <<nodeVars, broken, at, walkVars, foundVars, fillVars>>

Next ==
    \/ Discover \/ Fill
    \/ \E f \in Files : Ioctl(f)
    \/ \E a \in Addrs : Plug(a) \/ Unplug(a)

Spec == Init /\ [][Next]_vars

-----------------------------------------------------------------------------
(* Properties. *)

\* What a DRIVER field may hold.
DriverNames == {DriverOf[a] : a \in Addrs} \cup {""}

\* The variables have the types of the Go structures and of the maps.
TypeOK ==
    /\ owner \in [Files -> Addrs \cup {None}]
    /\ steady \subseteq Addrs /\ broken \subseteq Files
    /\ at \in {"readdir", "next", "uevent", "address", "fill", "nodes",
               "attached", "dead"}
    /\ dir \in {"dri", "accel"}
    /\ files \subseteq Files \cup Others
    /\ cur \in Files \cup {None}
    /\ at \in {"uevent", "address"} => cur \in Files
    /\ uevent \in DriverNames
    /\ driver \in [Addrs -> DriverNames]
    /\ nodes \in [Addrs -> SUBSET Files]
    /\ todo \subseteq Addrs
    /\ at = "nodes" => dev \in Addrs
    /\ left \subseteq Files
    /\ deviceMap \in [Files -> Addrs \cup {None}]
    /\ devices \in [Files -> Nat]
    /\ ioctls \subseteq Nat \X Nat

Discovered == at \in {"fill", "nodes", "attached"}

FilesOf(a) == {f \in Files : owner[f] = a}

\* Whatever is plugged in or out during the walk, a device that was there all
\* the time is reported with its own driver and all of its nodes, the unreadable
\* ones excepted (pkg/discovery/discovery.go:53-110).
SteadyFound ==
    Discovered =>
        \A a \in steady :
            DriverOf[a] # "" =>
                /\ FilesOf(a) \ broken \subseteq nodes[a]
                /\ nodes[a] \subseteq FilesOf(a)
                /\ nodes[a] # {} => driver[a] = DriverOf[a]

\* No node is reported for two devices, not even when its number passes from
\* one to the other during the walk: what Workload assumes of Discover
\* (pkg/discovery/discovery.go:24-45, 94-109).
NodesDisjoint ==
    \A a, b \in Addrs : a # b => nodes[a] \cap nodes[b] = {}

Supported(a) == GetVendor(DriverOf[a]) # NoVendor

\* Once attached, a call on a supported device that has been there since the
\* agent started passes the filter of its own vendor and is labelled with its
\* own address: a full map stops the agent instead of leaving nodes out
\* (cmd/agent/main.go:90-134, 204-207).
SteadyCounted ==
    call # NoCall /\ call.device \in steady /\ Supported(call.device)
    /\ call.file \notin broken =>
        /\ call.label = call.device
        /\ call.vendorID = GetVendorID(GetVendor(DriverOf[call.device]))
        /\ TableOf(GetVendor(DriverOf[call.device])) \subseteq ioctls

\* "`device` is the PCI address, which survives reboots. `card1` does not,
\* because its minor number can change" (README.md:54): a call that is counted
\* is labelled with the address of the device it was made on.
LabelIsDevice == call # NoCall /\ call.label # None => call.label = call.device

=============================================================================
