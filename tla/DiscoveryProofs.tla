-------------------------- MODULE DiscoveryProofs --------------------------
(***************************************************************************)
(* Theorems about Discovery, for every set of devices, layout of their     *)
(* numbers and order of plugging: a device that stays is found with its    *)
(* own driver and nodes, no node is found twice, and the calls on such a   *)
(* device are counted as its own.                                          *)
(***************************************************************************)
EXTENDS Discovery, TLAPS

Walking == at \in {"readdir", "next", "uevent", "address"}
Looking == at \in {"uevent", "address"}

LEMMA VendorFacts ==
    ASSUME NEW d
    PROVE  /\ GetVendor(d) \in Vendors \cup {NoVendor}
           /\ GetVendorID(GetVendor(d)) \in Nat
           /\ GetVendor(d) # NoVendor => GetVendorID(GetVendor(d)) # 0
           /\ GetVendor("") = NoVendor
  BY DEF GetVendor, Vendors, NoVendor, registeredVendors, Match, MatchI915,
         MatchIvpu, GetVendorID

LEMMA TableTyped == ASSUME NEW d PROVE TableOf(GetVendor(d)) \subseteq Nat \X Nat
<1>1. DOMAIN Ioctls(GetVendor(d)) \subseteq Nat
  BY DEF Ioctls, IoctlsI915, IoctlsIvpu
<1>2. ASSUME NEW t \in TableOf(GetVendor(d)) PROVE t \in Nat \X Nat
  <2>1. PICK nr \in DOMAIN Ioctls(GetVendor(d)) :
            t = <<GetVendorID(GetVendor(d)), nr>>
    BY <1>2 DEF TableOf
  <2>2. nr \in Nat /\ GetVendorID(GetVendor(d)) \in Nat
    BY <1>1, VendorFacts
  <2> QED
    BY <2>1, <2>2
<1> QED
  BY <1>2

-----------------------------------------------------------------------------
(* Types. *)

LEMMA TypesKept == ASSUME TypeOK, [Next]_vars PROVE TypeOK'
<1> USE DiscoveryAssumption
<1>1. ASSUME NEW a \in Addrs, Plug(a) PROVE TypeOK'
  BY <1>1 DEF Plug, TypeOK, walkVars, foundVars, fillVars
<1>2. ASSUME NEW a \in Addrs, Unplug(a) PROVE TypeOK'
  BY <1>2 DEF Unplug, TypeOK, walkVars, foundVars, fillVars
<1>3. CASE ReadDir
  BY <1>3 DEF ReadDir, Listing, TypeOK, nodeVars, foundVars, fillVars
<1>4. CASE DirDone
  BY <1>4 DEF DirDone, TypeOK, nodeVars, foundVars
<1>5. CASE SkipEntry
  BY <1>5 DEF SkipEntry, TypeOK, nodeVars, foundVars, fillVars
<1>6. ASSUME NEW f \in Files, Stat(f) \/ StatGone(f) PROVE TypeOK'
  BY <1>6 DEF Stat, StatGone, TypeOK, nodeVars, foundVars, fillVars
<1>7. CASE ReadUevent
  <2>1. uevent' \in DriverNames
    BY <1>7 DEF ReadUevent, HasDriver, TypeOK, DriverNames
  <2> QED
    BY <1>7, <2>1 DEF ReadUevent, TypeOK, nodeVars, foundVars, fillVars
<1>8. CASE UeventFails \/ AddressGone
  BY <1>8 DEF UeventFails, AddressGone, TypeOK, DriverNames, nodeVars, foundVars, fillVars
<1>9. CASE ReadError
  BY <1>9 DEF ReadError, TypeOK, DriverNames, nodeVars, foundVars, fillVars
<1>10. CASE Merge
  <2>1. uevent' \in DriverNames
    BY <1>10 DEF Merge, DriverNames
  <2>2. /\ nodes' \in [Addrs -> SUBSET Files]
        /\ driver' \in [Addrs -> DriverNames]
    <3>1. cur \in Files /\ owner[cur] \in Addrs
      BY <1>10 DEF Merge, TypeOK
    <3>2. nodes' \in [Addrs -> SUBSET Files]
      <4>1. /\ nodes' = [nodes EXCEPT ![owner[cur]] = @ \cup {cur}]
            /\ nodes \in [Addrs -> SUBSET Files]
        BY <1>10 DEF Merge, TypeOK
      <4>2. nodes[owner[cur]] \cup {cur} \in SUBSET Files
        BY <3>1, <4>1
      <4> QED
        BY <4>1, <4>2
    <3>3. driver' = [driver EXCEPT ![owner[cur]] = uevent] \/ driver' = driver
      BY <1>10 DEF Merge
    <3> QED
      BY <3>1, <3>2, <3>3 DEF TypeOK
  <2> QED
    BY <1>10, <2>1, <2>2 DEF Merge, TypeOK, nodeVars, fillVars
<1>11. ASSUME NEW a \in Addrs, SkipDevice(a) \/ BeginDevice(a) PROVE TypeOK'
  BY <1>11 DEF SkipDevice, BeginDevice, TypeOK, nodeVars, walkVars, foundVars
<1>12. ASSUME NEW f \in Files, AddDevice(f) \/ AddDeviceFails(f) PROVE TypeOK'
  <2>1. GetVendorID(VendorOf(dev)) \in Nat
    BY VendorFacts DEF VendorOf
  <2> QED
    BY <1>12, <2>1
       DEF AddDevice, AddDeviceFails, TypeOK, nodeVars, walkVars, foundVars
<1>13. CASE AddIoctls
  <2>1. TableOf(VendorOf(dev)) \subseteq Nat \X Nat
    BY TableTyped DEF VendorOf
  <2> QED
    BY <1>13, <2>1 DEF AddIoctls, TypeOK, nodeVars, walkVars, foundVars
<1>14. CASE ReadDirFails \/ Attach \/ AttachFails
  BY <1>14 DEF ReadDirFails, Attach, AttachFails, TypeOK, nodeVars, walkVars,
               foundVars, fillVars
<1>15. ASSUME NEW f \in Files, Ioctl(f) PROVE TypeOK'
  BY <1>15 DEF Ioctl, TypeOK, nodeVars, walkVars, foundVars, fillVars
<1>16. CASE UNCHANGED vars
  BY <1>16 DEF vars, TypeOK, nodeVars, walkVars, foundVars, fillVars
<1> QED
  BY <1>1, <1>2, <1>3, <1>4, <1>5, <1>6, <1>7, <1>8, <1>9, <1>10, <1>11,
     <1>12, <1>13, <1>14, <1>15, <1>16 DEF Next, Discover, Fill

LEMMA TypesInit == Init => TypeOK
<1> SUFFICES ASSUME Init PROVE TypeOK
  OBVIOUS
<1>1. uevent \in DriverNames /\ driver \in [Addrs -> DriverNames]
  BY DEF Init, DriverNames
<1>2. steady \subseteq Addrs /\ nodes \in [Addrs -> SUBSET Files]
  BY DEF Init
<1> QED
  BY <1>1, <1>2 DEF Init, TypeOK

\* The walk, the device loop and the node leave every variable in its type
\* (pkg/discovery/discovery.go:53-110, cmd/agent/main.go:90-134).
THEOREM DiscoveryTypes == Spec => []TypeOK
<1>1. TypeOK /\ [Next]_vars => TypeOK'
  BY TypesKept
<1> QED
  BY <1>1, TypesInit, PTL DEF Spec

-----------------------------------------------------------------------------
(* The walk.  A file is ahead until it has been looked at; it is looked at   *)
(* once, so it is in the nodes of one device at most.                        *)

Ahead(f) ==
    /\ Walking
    /\ \/ f \in files
       \/ Looking /\ f = cur
       \/ at = "readdir" /\ DirOf[f] = dir
       \/ dir = "dri" /\ DirOf[f] = "accel"

WalkOrder ==
    /\ \A f \in files \cap Files : DirOf[f] = dir
    /\ at = "readdir" => files = {}
    /\ Looking => DirOf[cur] = dir /\ cur \notin files

\* A node that has been reported is behind.
Passed == \A a \in Addrs : \A f \in nodes[a] : ~Ahead(f)

Listed == WalkOrder /\ Passed /\ NodesDisjoint

\* Steps that leave the walk alone.
WalkUnchanged == UNCHANGED <<at, dir, files, cur, nodes>>

LEMMA ListedKept == ASSUME TypeOK, Listed, [Next]_vars PROVE Listed'
<1> USE DiscoveryAssumption
<1>1. CASE WalkUnchanged
  BY <1>1 DEF WalkUnchanged, Listed, WalkOrder, Passed, NodesDisjoint, Ahead,
              Walking, Looking
<1>2. ASSUME UNCHANGED <<dir, files, nodes>>,
             at' \in {"fill", "nodes", "attached", "dead"}
      PROVE  Listed'
  BY <1>2 DEF Listed, WalkOrder, Passed, NodesDisjoint, Ahead, Walking, Looking
<1>3. ASSUME nodes' = nodes, WalkOrder',
             \A f \in Files : Ahead(f)' => Ahead(f)
      PROVE  Listed'
  BY <1>3 DEF Listed, Passed, NodesDisjoint, TypeOK
<1>4. CASE ReadDir
  <2>1. WalkOrder'
    BY <1>4 DEF ReadDir, WalkOrder, Listing, Looking
  <2>2. \A f \in Files : Ahead(f)' => Ahead(f)
    BY <1>4 DEF ReadDir, Listing, Ahead, Walking, Looking
  <2> QED
    BY <1>3, <1>4, <2>1, <2>2 DEF ReadDir, foundVars
<1>5. CASE DirDone
  <2>1. WalkOrder'
    BY <1>5 DEF DirDone, WalkOrder, Looking
  <2>2. \A f \in Files : Ahead(f)' => Ahead(f)
    BY <1>5 DEF DirDone, Ahead, Walking, Looking, TypeOK
  <2> QED
    BY <1>3, <1>5, <2>1, <2>2 DEF DirDone, foundVars
<1>6. CASE SkipEntry
  <2>1. WalkOrder'
    BY <1>6 DEF SkipEntry, Listed, WalkOrder, Looking
  <2>2. \A f \in Files : Ahead(f)' => Ahead(f)
    BY <1>6 DEF SkipEntry, Ahead, Walking, Looking
  <2> QED
    BY <1>3, <1>6, <2>1, <2>2 DEF SkipEntry, foundVars
<1>7. ASSUME NEW g \in Files, Stat(g) \/ StatGone(g) PROVE Listed'
  <2>1. WalkOrder'
    BY <1>7 DEF Stat, StatGone, Listed, WalkOrder, Looking
  <2>2. \A f \in Files : Ahead(f)' => Ahead(f)
    BY <1>7 DEF Stat, StatGone, Ahead, Walking, Looking
  <2> QED
    BY <1>3, <1>7, <2>1, <2>2 DEF Stat, StatGone, foundVars
<1>8. CASE ReadUevent
  <2>1. WalkOrder'
    BY <1>8 DEF ReadUevent, Listed, WalkOrder, Looking
  <2>2. \A f \in Files : Ahead(f)' => Ahead(f)
    BY <1>8 DEF ReadUevent, Ahead, Walking, Looking
  <2> QED
    BY <1>3, <1>8, <2>1, <2>2 DEF ReadUevent, foundVars
<1>9. CASE UeventFails \/ AddressGone \/ ReadError
  <2>1. WalkOrder'
    BY <1>9 DEF UeventFails, AddressGone, ReadError, Listed, WalkOrder, Looking
  <2>2. \A f \in Files : Ahead(f)' => Ahead(f)
    BY <1>9 DEF UeventFails, AddressGone, ReadError, Ahead, Walking, Looking
  <2> QED
    BY <1>3, <1>9, <2>1, <2>2 DEF UeventFails, AddressGone, ReadError,
                                  foundVars
<1>10. CASE Merge
  <2>1. /\ at = "address" /\ at' = "next" /\ files' = files /\ dir' = dir
        /\ cur \in Files /\ owner[cur] \in Addrs
        /\ nodes' = [nodes EXCEPT ![owner[cur]] = @ \cup {cur}]
    BY <1>10 DEF Merge, TypeOK
  <2>2. WalkOrder'
    BY <2>1 DEF Listed, WalkOrder, Looking
  <2>3. \A f \in Files : Ahead(f)' => Ahead(f)
    BY <2>1 DEF Ahead, Walking, Looking
  <2>4. \A f : f = cur => Ahead(f) /\ ~Ahead(f)'
    BY <2>1 DEF Ahead, Walking, Looking, Listed, WalkOrder
  <2>5. \A a \in Addrs : cur \notin nodes[a]
    BY <2>4 DEF Listed, Passed
  <2>6. \A a \in Addrs :
            nodes'[a] = IF a = owner[cur] THEN nodes[a] \cup {cur} ELSE nodes[a]
    BY <2>1 DEF TypeOK
  <2>7. ASSUME NEW a \in Addrs, NEW b \in Addrs, a # b
        PROVE  nodes'[a] \cap nodes'[b] = {}
    <3>1. nodes[a] \cap nodes[b] = {} /\ cur \notin nodes[a]
          /\ cur \notin nodes[b]
      BY <2>5, <2>7 DEF Listed, NodesDisjoint
    <3>2. CASE a = owner[cur]
      <4>1. nodes'[a] = nodes[a] \cup {cur} /\ nodes'[b] = nodes[b]
        BY <2>6, <2>7, <3>2
      <4> QED
        BY <3>1, <4>1
    <3>3. CASE a # owner[cur]
      <4>1. nodes'[a] = nodes[a]
        BY <2>6, <3>3
      <4>2. nodes'[b] = nodes[b] \cup {cur} \/ nodes'[b] = nodes[b]
        BY <2>6
      <4> QED
        BY <3>1, <4>1, <4>2
    <3> QED
      BY <3>2, <3>3
  <2>8. ASSUME NEW a \in Addrs, NEW f \in nodes'[a] PROVE ~Ahead(f)'
    <3>1. f = cur \/ f \in nodes[a]
      <4>1. nodes'[a] = nodes[a] \cup {cur} \/ nodes'[a] = nodes[a]
        BY <2>6
      <4> QED
        BY <2>8, <4>1
    <3>2. f \in Files
      BY <2>1, <3>1 DEF TypeOK
    <3> QED
      BY <2>3, <2>4, <3>1, <3>2 DEF Listed, Passed
  <2>9. Passed' /\ NodesDisjoint'
    BY <2>7, <2>8 DEF Passed, NodesDisjoint
  <2> QED
    BY <2>2, <2>9 DEF Listed
<1> QED
  BY <1>1, <1>2, <1>4, <1>5, <1>6, <1>7, <1>8, <1>9, <1>10
     DEF Next, Discover, Fill, vars, nodeVars, walkVars, foundVars, fillVars,
         Plug, Unplug, ReadDirFails, SkipDevice, BeginDevice, AddDevice,
         AddDeviceFails, AddIoctls, Attach, AttachFails, Ioctl, WalkUnchanged

LEMMA ListedInvariant == Spec => []Listed
<1>1. Init => Listed
  BY DEF Init, Listed, WalkOrder, Passed, NodesDisjoint, Looking
<1>2. TypeOK /\ Listed /\ [Next]_vars => Listed'
  BY ListedKept
<1> QED
  BY <1>1, <1>2, DiscoveryTypes, PTL DEF Spec

\* No node is reported for two devices, whichever devices come and go and take
\* over each other's numbers during the walk
\* (pkg/discovery/discovery.go:24-45, 94-109).
THEOREM NodesDisjointHolds == Spec => []NodesDisjoint
  BY ListedInvariant, PTL DEF Listed

-----------------------------------------------------------------------------
(* Devices that stay. *)

\* What is known of a device that has been there from the start: it has kept
\* its files, and what the walk has reported of it is right.
Stays ==
    /\ \A a \in steady : Present(a) /\ nodes[a] \subseteq FilesOf(a)
    /\ \A a \in steady : nodes[a] # {} => driver[a] = DriverOf[a]
    /\ at = "address" /\ owner[cur] \in steady => uevent = DriverOf[owner[cur]]

\* None of its files is left behind.
Complete ==
    at # "dead" =>
        \A f \in Files :
            owner[f] \in steady /\ DriverOf[owner[f]] # ""
              => f \in nodes[owner[f]] \cup broken \/ Ahead(f)

\* Plugging and unplugging do not touch the files of a device that stays.
LEMMA SteadyKept ==
    ASSUME TypeOK, Stays, NEW a \in Addrs, Plug(a) \/ Unplug(a)
    PROVE  /\ steady' \subseteq steady
           /\ \A b \in steady' : \A f \in Files : owner'[f] = b <=> owner[f] = b
<1>0. None \notin steady /\ None \notin Addrs
  BY DiscoveryAssumption DEF TypeOK
<1>1. CASE Plug(a)
  <2>1. steady' = steady /\ a \notin steady
    BY <1>1 DEF Plug, Stays
  <2>2. PICK F \in Layouts[a] :
            /\ \A f \in F : owner[f] = None
            /\ owner' = [f \in Files |-> IF f \in F THEN a ELSE owner[f]]
    BY <1>1 DEF Plug
  <2>3. ASSUME NEW b \in steady, NEW f \in Files
        PROVE  owner'[f] = b <=> owner[f] = b
    <3>1. CASE f \in F
      BY <1>0, <2>1, <2>2, <3>1
    <3>2. CASE f \notin F
      BY <2>2, <3>2
    <3> QED
      BY <3>1, <3>2
  <2> QED
    BY <2>1, <2>3
<1>2. CASE Unplug(a)
  <2>1. /\ steady' = steady \ {a}
        /\ owner' = [f \in Files |-> IF owner[f] = a THEN None ELSE owner[f]]
    BY <1>2 DEF Unplug
  <2> QED
    BY <1>0, <2>1
<1> QED
  BY <1>1, <1>2

LEMMA StaysKept == ASSUME TypeOK, Stays, [Next]_vars PROVE Stays'
<1> USE DiscoveryAssumption
<1>1. ASSUME NEW a \in Addrs, Plug(a) \/ Unplug(a) PROVE Stays'
  <2>1. /\ steady' \subseteq steady
        /\ \A b \in steady' : \A f \in Files : owner'[f] = b <=> owner[f] = b
    BY <1>1, SteadyKept
  <2>2. UNCHANGED <<at, nodes, driver, cur, uevent>>
    BY <1>1 DEF Plug, Unplug, walkVars, foundVars
  <2>3. ASSUME NEW b \in steady'
        PROVE  /\ Present(b)' /\ nodes'[b] \subseteq FilesOf(b)'
               /\ nodes'[b] # {} => driver'[b] = DriverOf[b]
    BY <2>1, <2>2, <2>3 DEF Stays, Present, FilesOf
  <2>4. ASSUME at' = "address", owner'[cur'] \in steady'
        PROVE  uevent' = DriverOf[owner'[cur']]
    <3>1. cur \in Files /\ cur' = cur /\ at = "address"
      BY <2>2, <2>4 DEF TypeOK
    <3>2. owner[cur] = owner'[cur]
      BY <2>1, <2>4, <3>1
    <3> QED
      BY <2>1, <2>2, <2>4, <3>1, <3>2 DEF Stays
  <2> QED
    BY <2>3, <2>4 DEF Stays
<1>2. ASSUME UNCHANGED <<owner, steady, nodes, driver>>,
             at' = "address" => /\ cur' \in Files
                                /\ uevent' = DriverOf[owner[cur']]
      PROVE  Stays'
  BY <1>2 DEF Stays, Present, FilesOf
<1>3. CASE Merge
  <2>1. /\ owner' = owner /\ steady' = steady /\ at = "address"
        /\ at' = "next" /\ cur \in Files /\ owner[cur] \in Addrs
        /\ nodes' = [nodes EXCEPT ![owner[cur]] = @ \cup {cur}]
        /\ driver' = IF nodes[owner[cur]] = {}
                     THEN [driver EXCEPT ![owner[cur]] = uevent] ELSE driver
    BY <1>3 DEF Merge, TypeOK, nodeVars
  <2>2. \A a \in Addrs : a # owner[cur] =>
            nodes'[a] = nodes[a] /\ driver'[a] = driver[a]
    BY <2>1 DEF TypeOK
  <2>3. nodes'[owner[cur]] = nodes[owner[cur]] \cup {cur}
    BY <2>1 DEF TypeOK
  <2>4. driver'[owner[cur]] = IF nodes[owner[cur]] = {} THEN uevent
                              ELSE driver[owner[cur]]
    BY <2>1 DEF TypeOK
  <2>5. ASSUME NEW b \in steady
        PROVE  /\ Present(b) /\ nodes'[b] \subseteq FilesOf(b)
               /\ nodes'[b] # {} => driver'[b] = DriverOf[b]
    <3>1. /\ b \in Addrs /\ Present(b) /\ nodes[b] \subseteq FilesOf(b)
          /\ nodes[b] # {} => driver[b] = DriverOf[b]
      BY <2>5 DEF Stays, TypeOK
    <3>2. CASE b # owner[cur]
      BY <2>2, <3>1, <3>2
    <3>3. CASE b = owner[cur]
      <4>1. cur \in FilesOf(b) /\ uevent = DriverOf[b]
        BY <2>1, <2>5, <3>3 DEF FilesOf, Stays
      <4>2. nodes'[b] \subseteq FilesOf(b)
        BY <2>3, <3>1, <3>3, <4>1
      <4>3. driver'[b] = DriverOf[b]
        BY <2>4, <3>1, <3>3, <4>1
      <4> QED
        BY <3>1, <4>2, <4>3
    <3> QED
      BY <3>2, <3>3
  <2> QED
    BY <2>1, <2>5 DEF Stays, Present, FilesOf
<1>4. CASE ReadUevent
  <2>1. /\ UNCHANGED <<owner, steady, nodes, driver>> /\ cur' = cur
        /\ cur \in Files /\ uevent' = DriverOf[owner[cur]]
    BY <1>4 DEF ReadUevent, nodeVars, foundVars, TypeOK
  <2> QED
    BY <1>2, <2>1
<1>5. CASE UNCHANGED <<owner, steady, nodes, driver, at, cur, uevent>>
  BY <1>5 DEF Stays, Present, FilesOf
<1> QED
  BY <1>1, <1>2, <1>3, <1>4, <1>5
     DEF Next, Discover, Fill, vars, nodeVars, walkVars, foundVars, fillVars,
         ReadDir, ReadDirFails, DirDone, SkipEntry, Stat, StatGone,
         UeventFails, AddressGone, ReadError, SkipDevice, BeginDevice,
         AddDevice, AddDeviceFails, AddIoctls, Attach, AttachFails, Ioctl

LEMMA CompleteKept ==
    ASSUME TypeOK, Stays, WalkOrder, Complete, [Next]_vars PROVE Complete'
<1> USE DiscoveryAssumption
<1>0. None \notin steady /\ steady \subseteq Addrs
  BY DEF TypeOK
<1>1. ASSUME NEW a \in Addrs, Plug(a) \/ Unplug(a) PROVE Complete'
  <2>1. /\ steady' \subseteq steady
        /\ \A b \in steady' : \A f \in Files : owner'[f] = b <=> owner[f] = b
    BY <1>1, SteadyKept
  <2>2. UNCHANGED <<at, nodes, dir, files, cur, broken>>
    BY <1>1 DEF Plug, Unplug, walkVars, foundVars
  <2>3. \A f : Ahead(f)' <=> Ahead(f)
    BY <2>2 DEF Ahead, Walking, Looking
  <2>4. \A f \in Files : owner'[f] \in steady' =>
            owner[f] = owner'[f] /\ owner[f] \in steady
    BY <2>1
  <2> QED
    BY <2>2, <2>3, <2>4 DEF Complete
<1>2. ASSUME UNCHANGED <<owner, steady>>, broken \subseteq broken',
             \A b \in Addrs : nodes[b] \subseteq nodes'[b],
             at' # "dead" =>
               /\ at # "dead"
               /\ \A f \in Files :
                     owner[f] \in steady /\ DriverOf[owner[f]] # "" /\ Ahead(f)
                       => Ahead(f)' \/ f \in nodes'[owner[f]] \cup broken'
      PROVE  Complete'
  BY <1>0, <1>2 DEF Complete
<1>3. ASSUME UNCHANGED <<owner, steady, broken, nodes>>,
             at' # "dead" =>
               /\ at # "dead"
               /\ \A f \in Files :
                     owner[f] \in steady /\ DriverOf[owner[f]] # "" /\ Ahead(f)
                       => Ahead(f)'
      PROVE  Complete'
  BY <1>2, <1>3
<1>4. CASE ReadDir
  <2>1. \A f \in Files : owner[f] \in steady /\ Ahead(f) => Ahead(f)'
    BY <1>0, <1>4 DEF ReadDir, Listing, Ahead, Walking, Looking, WalkOrder
  <2> QED
    BY <1>3, <1>4, <2>1 DEF ReadDir, nodeVars, foundVars
<1>5. CASE DirDone
  <2>1. ASSUME NEW f \in Files, owner[f] \in steady, Ahead(f) PROVE Ahead(f)'
    <3>1. /\ files = {} /\ ~Looking
          /\ at = "readdir" => Listing(dir) = {}
      BY <1>5 DEF DirDone, WalkOrder, Looking
    <3>2. ~(at = "readdir" /\ DirOf[f] = dir)
      BY <1>0, <2>1, <3>1 DEF Listing
    <3>3. dir = "dri" /\ DirOf[f] = "accel"
      BY <2>1, <3>1, <3>2 DEF Ahead
    <3>4. at' = "readdir" /\ dir' = "accel"
      BY <1>5, <3>3 DEF DirDone
    <3> QED
      BY <3>3, <3>4 DEF Ahead, Walking
  <2> QED
    BY <1>3, <1>5, <2>1 DEF DirDone, nodeVars, foundVars
<1>6. CASE SkipEntry
  <2>1. \A f \in Files : Ahead(f) => Ahead(f)'
    BY <1>6 DEF SkipEntry, Ahead, Walking, Looking
  <2> QED
    BY <1>3, <1>6, <2>1 DEF SkipEntry, nodeVars, foundVars
<1>7. ASSUME NEW g \in Files, Stat(g) \/ StatGone(g) PROVE Complete'
  <2>1. \A f \in Files : owner[f] \in steady /\ Ahead(f) => Ahead(f)'
    BY <1>0, <1>7 DEF Stat, StatGone, Ahead, Walking, Looking
  <2> QED
    BY <1>3, <1>7, <2>1 DEF Stat, StatGone, nodeVars, foundVars
<1>8. CASE ReadUevent
  <2>1. \A f \in Files : Ahead(f) => Ahead(f)'
    BY <1>8 DEF ReadUevent, Ahead, Walking, Looking
  <2> QED
    BY <1>3, <1>8, <2>1 DEF ReadUevent, nodeVars, foundVars
<1>9. CASE UeventFails \/ AddressGone
  <2>1. \A f \in Files :
            owner[f] \in steady /\ DriverOf[owner[f]] # "" /\ Ahead(f)
              => Ahead(f)'
    BY <1>0, <1>9 DEF UeventFails, AddressGone, HasDriver, Ahead, Walking,
                      Looking
  <2> QED
    BY <1>3, <1>9, <2>1 DEF UeventFails, AddressGone, nodeVars, foundVars
<1>10. CASE ReadError
  <2>1. \A f \in Files : Ahead(f) => Ahead(f)' \/ f \in broken'
    BY <1>10 DEF ReadError, Ahead, Walking, Looking
  <2> QED
    BY <1>2, <1>10, <2>1 DEF ReadError, nodeVars, foundVars
<1>11. CASE Merge
  <2>1. /\ UNCHANGED <<owner, steady, broken>> /\ at = "address"
        /\ at' = "next" /\ cur \in Files /\ owner[cur] \in Addrs
        /\ nodes' = [nodes EXCEPT ![owner[cur]] = @ \cup {cur}]
        /\ files' = files /\ dir' = dir
    BY <1>11 DEF Merge, TypeOK, nodeVars
  <2>2. /\ \A b \in Addrs : nodes[b] \subseteq nodes'[b]
        /\ cur \in nodes'[owner[cur]]
    BY <2>1 DEF TypeOK
  <2>3. \A f \in Files : Ahead(f) => Ahead(f)' \/ f = cur
    BY <2>1 DEF Ahead, Walking, Looking
  <2> QED
    BY <1>2, <2>1, <2>2, <2>3
<1>12. ASSUME UNCHANGED <<owner, steady, broken, nodes>>,
              at \in {"fill", "nodes", "attached"} \/ at' = "dead"
       PROVE  Complete'
  BY <1>3, <1>12 DEF Ahead, Walking
<1>13. CASE UNCHANGED vars
  BY <1>13 DEF Complete, Ahead, Walking, Looking, vars, nodeVars, walkVars,
               foundVars
<1> QED
  BY <1>1, <1>4, <1>5, <1>6, <1>7, <1>8, <1>9, <1>10, <1>11, <1>12, <1>13
     DEF Next, Discover, Fill, nodeVars, foundVars, ReadDirFails, SkipDevice,
         BeginDevice, AddDevice, AddDeviceFails, AddIoctls, Attach,
         AttachFails, Ioctl

LEMMA SteadyInvariant == Spec => [](TypeOK /\ Listed /\ Stays /\ Complete)
<1>1. Init => Stays /\ Complete
  <2> SUFFICES ASSUME Init PROVE Stays /\ Complete
    OBVIOUS
  <2>1. Stays
    BY DEF Init, Stays
  <2>2. ASSUME NEW f \in Files PROVE Ahead(f)
    BY DiscoveryAssumption DEF Init, Ahead, Walking
  <2> QED
    BY <2>1, <2>2 DEF Complete
<1>2. TypeOK /\ Listed /\ Stays /\ Complete /\ [Next]_vars
        => Stays' /\ Complete'
  BY StaysKept, CompleteKept DEF Listed
<1> QED
  BY <1>1, <1>2, DiscoveryTypes, ListedInvariant, PTL DEF Spec

LEMMA SteadyFoundIs == ASSUME TypeOK, Stays, Complete PROVE SteadyFound
<1> SUFFICES ASSUME Discovered, NEW a \in steady, DriverOf[a] # ""
             PROVE  /\ FilesOf(a) \ broken \subseteq nodes[a]
                    /\ nodes[a] \subseteq FilesOf(a)
                    /\ nodes[a] # {} => driver[a] = DriverOf[a]
  BY DEF SteadyFound
<1>1. \A f : ~Ahead(f)
  BY DEF Discovered, Ahead, Walking
<1>2. FilesOf(a) \ broken \subseteq nodes[a]
  BY <1>1 DEF Complete, FilesOf, Discovered
<1> QED
  BY <1>2 DEF Stays

\* Whatever is plugged in or out during the walk, a device that stays is
\* reported with its own driver and with every node that could be read
\* (pkg/discovery/discovery.go:53-110).
THEOREM SteadyFoundHolds == Spec => []SteadyFound
  BY SteadyInvariant, SteadyFoundIs, PTL

-----------------------------------------------------------------------------
(* The device loop. *)

Filled(a, f) == devices[f] = GetVendorID(VendorOf(a)) /\ deviceMap[f] = a

Done(a) == /\ \A f \in nodes[a] : Filled(a, f)
           /\ TableOf(VendorOf(a)) \subseteq ioctls

\* A device with a vendor is still to come, or is being handled, or is in the
\* maps with all of its nodes: no later device has taken one of them.
Loop ==
    /\ Discovered =>
         \A a \in Addrs :
            nodes[a] # {} /\ VendorOf(a) # NoVendor
              => a \in todo \/ (at = "nodes" /\ a = dev) \/ Done(a)
    /\ at = "nodes" => /\ left \subseteq nodes[dev]
                       /\ \A f \in nodes[dev] \ left : Filled(dev, f)
    /\ at = "attached" => todo = {}

LEMMA LoopKept == ASSUME TypeOK, Listed, Loop, [Next]_vars PROVE Loop'
<1> USE DiscoveryAssumption
<1>1. ASSUME at' \notin {"fill", "nodes", "attached"} PROVE Loop'
  BY <1>1 DEF Loop, Discovered
<1>2. CASE UNCHANGED <<at, driver, nodes, todo, dev, left, deviceMap, devices,
                       ioctls>>
  BY <1>2 DEF Loop, Discovered, Done, Filled, VendorOf
<1>3. ASSUME DirDone, at' = "fill" PROVE Loop'
  <2>1. todo' = {a \in Addrs : nodes[a] # {}} /\ nodes' = nodes
    BY <1>3 DEF DirDone, foundVars
  <2> QED
    BY <1>3, <2>1 DEF Loop
<1>4. ASSUME NEW a \in Addrs, SkipDevice(a) PROVE Loop'
  <2>1. /\ at = "fill" /\ at' = "fill" /\ VendorOf(a) = NoVendor
        /\ todo' = todo \ {a}
        /\ UNCHANGED <<driver, nodes, dev, left, deviceMap, devices, ioctls>>
    BY <1>4 DEF SkipDevice, foundVars
  <2> QED
    BY <2>1 DEF Loop, Discovered, Done, Filled, VendorOf
<1>5. ASSUME NEW a \in Addrs, BeginDevice(a) PROVE Loop'
  <2>1. /\ at = "fill" /\ at' = "nodes" /\ dev' = a /\ left' = nodes[a]
        /\ todo' = todo \ {a}
        /\ UNCHANGED <<driver, nodes, deviceMap, devices, ioctls>>
    BY <1>5 DEF BeginDevice, foundVars
  <2> QED
    BY <2>1 DEF Loop, Discovered, Done, Filled, VendorOf
<1>6. ASSUME NEW g \in Files, AddDevice(g) PROVE Loop'
  <2>1. /\ at = "nodes" /\ at' = "nodes" /\ g \in left /\ left' = left \ {g}
        /\ deviceMap' = [deviceMap EXCEPT ![g] = dev]
        /\ devices' = [devices EXCEPT ![g] = GetVendorID(VendorOf(dev))]
        /\ UNCHANGED <<driver, nodes, todo, dev, ioctls>> /\ dev \in Addrs
        /\ g \in nodes[dev]
    BY <1>6 DEF AddDevice, foundVars, TypeOK, Loop
  <2>2. Filled(dev, g)'
    BY <2>1 DEF Filled, VendorOf, TypeOK
  <2>3. ASSUME NEW a \in Addrs, NEW f \in nodes[a], f # g, Filled(a, f)
        PROVE  Filled(a, f)'
    BY <2>1, <2>3 DEF Filled, VendorOf, TypeOK
  <2>4. ASSUME NEW a \in Addrs, a # dev PROVE g \notin nodes[a]
    BY <2>1, <2>4 DEF Listed, NodesDisjoint
  <2>5. ASSUME NEW a \in Addrs, a # dev, Done(a) PROVE Done(a)'
    BY <2>1, <2>3, <2>4, <2>5 DEF Done, VendorOf
  <2>6. \A f \in nodes'[dev'] \ left' : Filled(dev, f)'
    <3>1. ASSUME NEW f \in nodes[dev] \ (left \ {g}) PROVE Filled(dev, f)'
      <4>1. CASE f = g
        BY <2>2, <4>1
      <4>2. CASE f # g
        BY <2>1, <2>3, <3>1, <4>2 DEF Loop
      <4> QED
        BY <4>1, <4>2
    <3> QED
      BY <2>1, <3>1
  <2>7. \A a \in Addrs :
            (nodes[a] # {} /\ VendorOf(a) # NoVendor)' => a \in todo'
              \/ (at' = "nodes" /\ a = dev') \/ Done(a)'
    BY <2>1, <2>5 DEF Loop, Discovered, VendorOf
  <2>8. left' \subseteq nodes'[dev']
    BY <2>1 DEF Loop
  <2> QED
    BY <2>1, <2>6, <2>7, <2>8 DEF Loop
<1>7. CASE AddIoctls
  <2>1. /\ at = "nodes" /\ left = {} /\ dev \in Addrs
        /\ UNCHANGED <<driver, nodes, todo, left, deviceMap, devices>>
    BY <1>7 DEF AddIoctls, foundVars, TypeOK
  <2>2. CASE at' = "dead"
    BY <1>1, <2>2
  <2>3. CASE at' # "dead"
    <3>1. at' = "fill" /\ ioctls' = ioctls \cup TableOf(VendorOf(dev))
      BY <1>7, <2>3 DEF AddIoctls
    <3>2. ASSUME NEW a \in Addrs, Done(a) PROVE Done(a)'
      BY <2>1, <3>1, <3>2 DEF Done, Filled, VendorOf
    <3>3. \A a \in Addrs : a = dev => Done(a)'
      BY <2>1, <3>1 DEF Loop, Done, Filled, VendorOf
    <3> QED
      BY <2>1, <3>1, <3>2, <3>3 DEF Loop, Discovered, VendorOf
  <2> QED
    BY <2>2, <2>3
<1>8. CASE Attach
  <2>1. /\ at = "fill" /\ todo = {} /\ at' = "attached"
        /\ UNCHANGED <<driver, nodes, todo, dev, left, deviceMap, devices,
                       ioctls>>
    BY <1>8 DEF Attach, foundVars, fillVars
  <2> QED
    BY <2>1 DEF Loop, Discovered, Done, Filled, VendorOf
<1>9. ASSUME NEW f \in Files, Ioctl(f) PROVE Loop'
  BY <1>2, <1>9 DEF Ioctl, foundVars, fillVars
<1>10. CASE DirDone
  BY <1>1, <1>3, <1>10 DEF DirDone
<1> QED
  BY <1>1, <1>2, <1>4, <1>5, <1>6, <1>7, <1>8, <1>9, <1>10
     DEF Next, Discover, Fill, vars, nodeVars, walkVars, foundVars, fillVars,
         Plug, Unplug, ReadDir, ReadDirFails, SkipEntry, Stat, StatGone,
         ReadUevent, UeventFails, Merge, AddressGone, ReadError,
         AddDeviceFails, AttachFails

\* The last call, against maps that do not change any more.
Called == (call # NoCall => at = "attached") /\ SteadyCounted

LEMMA CalledKept ==
    ASSUME TypeOK, Stays, Complete, Loop, Called, [Next]_vars PROVE Called'
<1>1. ASSUME call' = call, call # NoCall => at' = at,
             steady' \subseteq steady, ioctls \subseteq ioctls',
             broken \subseteq broken'
      PROVE  Called'
  BY <1>1 DEF Called, SteadyCounted
<1>2. ASSUME NEW f \in Files, Ioctl(f) PROVE Called'
  <2>1. /\ at = "attached" /\ at' = at /\ call'.device = owner[f]
        /\ call'.file = f /\ call'.vendorID = devices[f]
        /\ call'.label = IF devices[f] = 0 THEN None ELSE deviceMap[f]
        /\ UNCHANGED <<steady, broken, ioctls>>
    BY <1>2 DEF Ioctl, nodeVars, fillVars
  <2>2. ASSUME owner[f] \in steady, Supported(owner[f]), f \notin broken
        PROVE  /\ devices[f] = GetVendorID(GetVendor(DriverOf[owner[f]]))
               /\ devices[f] # 0 /\ deviceMap[f] = owner[f]
               /\ TableOf(GetVendor(DriverOf[owner[f]])) \subseteq ioctls
    <3>1. owner[f] \in Addrs /\ DriverOf[owner[f]] # ""
      BY <2>2, VendorFacts DEF TypeOK, Supported
    <3>2. ~Ahead(f)
      BY <2>1 DEF Ahead, Walking
    <3>3. f \in nodes[owner[f]]
      BY <2>1, <2>2, <3>1, <3>2 DEF Complete
    <3>4. driver[owner[f]] = DriverOf[owner[f]]
      BY <2>2, <3>3 DEF Stays
    <3>5. VendorOf(owner[f]) = GetVendor(DriverOf[owner[f]])
      BY <3>4 DEF VendorOf
    <3>6. Done(owner[f])
      BY <2>1, <2>2, <3>1, <3>3, <3>5 DEF Loop, Discovered, Supported
    <3>7. GetVendorID(GetVendor(DriverOf[owner[f]])) # 0
      BY <2>2, VendorFacts DEF Supported
    <3> QED
      BY <3>3, <3>5, <3>6, <3>7 DEF Done, Filled
  <2> QED
    BY <2>1, <2>2 DEF Called, SteadyCounted
<1>3. ASSUME NEW a \in Addrs, Plug(a) \/ Unplug(a) PROVE Called'
  BY <1>1, <1>3 DEF Plug, Unplug, fillVars
<1>4. CASE UNCHANGED vars
  BY <1>1, <1>4 DEF vars, nodeVars, fillVars
<1>5. CASE Discover
  <2>1. call = NoCall
    BY <1>5 DEF Called, Discover, ReadDir, ReadDirFails, DirDone, SkipEntry,
                Stat, StatGone, ReadUevent, UeventFails, Merge, AddressGone,
                ReadError
  <2>2. call' = call
    BY <1>5 DEF Discover, ReadDir, ReadDirFails, DirDone, SkipEntry,
                Stat, StatGone, ReadUevent, UeventFails, Merge, AddressGone,
                ReadError
  <2> QED
    BY <2>1, <2>2 DEF Called, SteadyCounted
<1>6. CASE Fill
  <2>1. call = NoCall
    BY <1>6 DEF Called, Fill, SkipDevice, BeginDevice, AddDevice,
                AddDeviceFails, AddIoctls, Attach, AttachFails
  <2>2. call' = call
    BY <1>6 DEF Fill, SkipDevice, BeginDevice, AddDevice, AddDeviceFails,
                AddIoctls, Attach, AttachFails
  <2> QED
    BY <2>1, <2>2 DEF Called, SteadyCounted
<1> QED
  BY <1>2, <1>3, <1>4, <1>5, <1>6 DEF Next

\* Once attached, a call on a supported device that has stayed passes the
\* filter of its vendor and gets its own label; a map that is too small stops
\* the agent instead (cmd/agent/main.go:90-134, 204-207).
THEOREM SteadyCountedHolds == Spec => []SteadyCounted
<1>1. Init => Loop /\ Called
  BY DEF Init, Loop, Discovered, Called, SteadyCounted
<1>2. TypeOK /\ Listed /\ Stays /\ Complete /\ Loop /\ Called /\ [Next]_vars
        => Loop' /\ Called'
  BY LoopKept, CalledKept
<1>3. Called => SteadyCounted
  BY DEF Called
<1> QED
  BY <1>1, <1>2, <1>3, SteadyInvariant, PTL DEF Spec

=============================================================================
