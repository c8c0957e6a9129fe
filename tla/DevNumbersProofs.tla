-------------------------- MODULE DevNumbersProofs --------------------------
(***************************************************************************)
(* Proofs about DevNumbers, for every set of device numbers the kernel can *)
(* have.  Both ways of computing a key from a number give the number back, *)
(* so the keys main adds, the keys the program looks up and the keys of    *)
(* the events are all the numbers themselves.                              *)
(*                                                                         *)
(* Literals of this size are for SMT only: leaves that see one name it.    *)
(***************************************************************************)
EXTENDS DevNumbers, TLAPS

-----------------------------------------------------------------------------
(* Arithmetic of the encodings. *)

\* Quotient and remainder of q * m + r: how shifts and masks take apart what
\* shifts have put together.
LEMMA DivMod ==
    ASSUME NEW m \in Nat \ {0}, NEW q \in Nat, NEW r \in Nat, r < m
    PROVE  (q * m + r) \div m = q /\ (q * m + r) % m = r
  BY SMT

\* `rdev >> 20` and `rdev & 0xFFFFF` undo MKDEV (bpf/drm_common.bpf.c:48-49).
LEMMA KernelRoundTrip ==
    ASSUME NEW n \in Key
    PROVE  KeyMajor(MkDev(n)) = n.major /\ KeyMinor(MkDev(n)) = n.minor
  <1>1. n.major \in Nat /\ n.minor \in Nat /\ n.minor < 1048576
    BY SMT DEF Key, Below
  <1>2. /\ (n.major * 1048576 + n.minor) \div 1048576 = n.major
        /\ (n.major * 1048576 + n.minor) % 1048576 = n.minor
    <2> DEFINE q == n.major
               r == n.minor
    <2> HIDE DEF q, r
    <2>1. q \in Nat /\ r \in Nat /\ r < 1048576
      BY <1>1, SMT DEF q, r
    <2>2. (q * 1048576 + r) \div 1048576 = q /\ (q * 1048576 + r) % 1048576 = r
      BY <2>1, DivMod, SMT
    <2> QED BY <2>2, SMT DEF q, r
  <1> QED BY <1>2, SMT DEF MkDev, KeyMajor, KeyMinor

\* unix.Major and unix.Minor undo the encoding of stat
\* (pkg/discovery/discovery.go:73-74).
LEMMA StatRoundTrip ==
    ASSUME NEW n \in Key
    PROVE  UnixMajor(StatRdev(n)) = n.major /\ UnixMinor(StatRdev(n)) = n.minor
  <1> DEFINE a == n.minor % 256
             b == n.major
             c == n.minor \div 256
             r == StatRdev(n)
  <1>1. /\ a \in Nat /\ a < 256
        /\ b \in Nat /\ b < 4096
        /\ c \in Nat /\ n.minor = a + 256 * c
    BY SMT DEF Key, Below
  <1>2. r = a + 256 * b + 1048576 * c
    BY SMT DEF StatRdev
  <1> HIDE DEF a, b, c, r
  <1>3. r \div 256 = b + 4096 * c /\ r % 256 = a
    <2>1. r = (b + 4096 * c) * 256 + a /\ b + 4096 * c \in Nat
      BY <1>1, <1>2, SMT
    <2> QED BY <1>1, <2>1, DivMod, SMT
  <1>4. (b + 4096 * c) % 4096 = b
    BY <1>1, DivMod, SMT
  <1>5. r \div 1048576 = c
    <2>1. /\ r = c * 1048576 + (a + 256 * b)
          /\ a + 256 * b \in Nat /\ a + 256 * b < 1048576
      BY <1>1, <1>2, SMT
    <2> QED BY <1>1, <2>1, DivMod, SMT
  <1>6. (r \div 256) % 4096 = b
    BY <1>3, <1>4, SMT
  <1>7. (r % 256) + 256 * (r \div 1048576) = n.minor
    BY <1>1, <1>3, <1>5, SMT
  <1> QED BY <1>6, <1>7, SMT DEF b, r, UnixMajor, UnixMinor

\* Nothing of a major is lost in 16 bits (bpf/common.h:30).
LEMMA EventMajorExact ==
    ASSUME NEW major \in Below(4096)
    PROVE  EventMajor(major) = major /\ major \in Below(65536)
  BY SMT DEF EventMajor, Below

\* So both keys of a number are the number.
LEMMA KeysAgree ==
    ASSUME NEW n \in Numbers
    PROVE  NodeKey(n) = n /\ ProgramKey(n) = n /\ n \in Key
  <1>1. n \in Key
    BY NumbersAssumption
  <1>2. n = [major |-> n.major, minor |-> n.minor]
    BY <1>1, SMT DEF Key
  <1> QED BY <1>1, <1>2, StatRoundTrip, KernelRoundTrip DEF NodeKey, ProgramKey

-----------------------------------------------------------------------------
(* The invariant.  Once the encodings are gone, three facts carry it: the  *)
(* map and the table hold exactly the added numbers, an event carries the  *)
(* number of its node, and an event exists for added nodes only.           *)

Tables ==
    /\ devices = added
    /\ deviceMap = {[key |-> n, node |-> n] : n \in added}
    /\ added \subseteq Numbers

Records ==
    \A e \in events :
        /\ e.node \in added
        /\ e = [node |-> e.node, major |-> e.node.major, minor |-> e.node.minor]

Inv ==
    /\ attached \in BOOLEAN
    /\ Tables
    /\ Records
    /\ ignored \subseteq Numbers /\ ignored \cap added = {}
    /\ ~attached => ignored = {} /\ events = {}
    /\ \A r \in resolved :
        r.node \in Numbers /\ r = [node |-> r.node, found |-> {r.node}]

\* The lookup of a record of an added node finds that node.
LEMMA FoundIsNode ==
    ASSUME Tables, Records, NEW e \in events
    PROVE  Found(e) = {e.node}
  <1>1. /\ e.node \in added /\ e.node \in Key
        /\ e.major = e.node.major /\ e.minor = e.node.minor
    BY KeysAgree DEF Records, Tables
  <1>2. [major |-> e.major, minor |-> e.minor] = e.node
    BY <1>1 DEF Key
  <1>3. Found(e) = {p.node : p \in {q \in deviceMap : q.key = e.node}}
    BY <1>2, Zenon DEF Found
  <1>4. \A p \in deviceMap :
            p.key = e.node <=> p = [key |-> e.node, node |-> e.node]
    BY DEF Tables
  <1>5. [key |-> e.node, node |-> e.node] \in deviceMap
    BY <1>1 DEF Tables
  <1>6. {q \in deviceMap : q.key = e.node} = {[key |-> e.node, node |-> e.node]}
    BY <1>4, <1>5
  <1>7. Found(e) = {p.node : p \in {[key |-> e.node, node |-> e.node]}}
    BY <1>3, <1>6, Zenon
  <1> QED BY <1>7

\* Nothing is added, made or resolved at the start.
LEMMA InitInv == Init => Inv
  BY DEF Init, Inv, Tables, Records

\* A node of the device loop adds its own number (cmd/agent/main.go:107-120).
LEMMA AddDeviceInv ==
    ASSUME Inv, NEW n \in Numbers, AddDevice(n)
    PROVE  Inv'
  <1>1. NodeKey(n) = n
    BY KeysAgree
  <1>2. /\ ~attached /\ ~attached' /\ ignored = {} /\ events = {}
        /\ UNCHANGED <<attached, events, ignored, resolved>>
    BY DEF AddDevice, Inv
  <1>3. Tables'
    <2>1. /\ added' = added \cup {n} /\ devices' = added'
          /\ added' \subseteq Numbers
      BY <1>1 DEF AddDevice, Inv, Tables
    <2>2. deviceMap' = {p \in deviceMap : p.key # n}
                       \cup {[key |-> n, node |-> n]}
      BY <1>1 DEF AddDevice
    <2>3. deviceMap = {[key |-> m, node |-> m] : m \in added}
      BY DEF Inv, Tables
    <2>4. deviceMap' = {[key |-> m, node |-> m] : m \in added'}
      BY <2>1, <2>2, <2>3
    <2> QED BY <2>1, <2>4 DEF Tables
  <1> QED BY <1>2, <1>3 DEF Inv, Records

\* The record of a call carries the number of its node
\* (bpf/drm_common.bpf.c:47-81).
LEMMA ObserveInv ==
    ASSUME Inv, NEW n \in Numbers, Observe(n)
    PROVE  Inv'
  <1>1. ProgramKey(n) = n /\ n \in Key
    BY KeysAgree
  <1>2. EventMajor(n.major) = n.major
    BY <1>1, EventMajorExact DEF Key
  <1>3. /\ attached /\ n \in added
        /\ UNCHANGED <<attached, added, devices, deviceMap, ignored, resolved>>
    BY <1>1 DEF Observe, Inv, Tables
  <1>4. events' = events \cup {[node |-> n, major |-> n.major,
                               minor |-> n.minor]}
    BY <1>1, <1>2 DEF Observe
  <1>5. Records'
    BY <1>3, <1>4 DEF Inv, Records
  <1> QED BY <1>3, <1>5 DEF Inv, Tables

\* A call is let pass only on a node that was not added
\* (bpf/drm_common.bpf.c:53-56).
LEMMA IgnoreInv ==
    ASSUME Inv, NEW n \in Numbers, Ignore(n)
    PROVE  Inv'
  <1>1. ProgramKey(n) = n
    BY KeysAgree
  <1> QED BY <1>1 DEF Ignore, Inv, Tables, Records

\* The worker finds the node of the record (cmd/agent/main.go:204-211).
LEMMA ResolveInv ==
    ASSUME Inv, NEW e \in events, Resolve(e)
    PROVE  Inv'
  <1>1. Found(e) = {e.node} /\ e.node \in Numbers
    BY FoundIsNode DEF Inv, Records, Tables
  <1>2. /\ events' \subseteq events
        /\ resolved' = resolved \cup {[node |-> e.node, found |-> {e.node}]}
        /\ UNCHANGED <<attached, added, devices, deviceMap, ignored>>
    BY <1>1 DEF Resolve
  <1> QED BY <1>1, <1>2 DEF Inv, Tables, Records

\* Every step preserves the invariant.
LEMMA NextInv == Inv /\ [Next]_vars => Inv'
  <1> SUFFICES ASSUME Inv, [Next]_vars PROVE Inv'
    OBVIOUS
  <1>1. CASE Attach
    BY <1>1 DEF Attach, Inv, Tables, Records
  <1>2. CASE \E n \in Numbers : AddDevice(n) \/ Observe(n) \/ Ignore(n)
    BY <1>2, AddDeviceInv, ObserveInv, IgnoreInv
  <1>3. CASE \E e \in events : Resolve(e)
    BY <1>3, ResolveInv
  <1>4. CASE UNCHANGED vars
    BY <1>4 DEF vars, Inv, Tables, Records
  <1> QED BY <1>1, <1>2, <1>3, <1>4 DEF Next

\* What the invariant says about calls and about events.
LEMMA InvImplies == Inv => WatchedExactly /\ OwnDevice
  BY DEF Inv, Records, WatchedExactly, OwnDevice

\* What it says about widths and about the two tables.
LEMMA InvTypeOK == Inv => TypeOK
  <1> SUFFICES ASSUME Inv PROVE TypeOK
    OBVIOUS
  <1>1. Numbers \subseteq Key
    BY NumbersAssumption
  <1>2. deviceMap \subseteq [key : Key, node : Numbers]
    BY <1>1 DEF Inv, Tables
  <1>3. events \subseteq [node : Numbers, major : Below(65536),
                          minor : Below(1048576)]
    <2> SUFFICES ASSUME NEW e \in events
                 PROVE  e \in [node : Numbers, major : Below(65536),
                               minor : Below(1048576)]
      OBVIOUS
    <2>1. /\ e = [node |-> e.node, major |-> e.node.major,
                  minor |-> e.node.minor]
          /\ e.node \in Numbers
      BY DEF Inv, Records, Tables
    <2>2. e.node.major \in Below(4096) /\ e.node.minor \in Below(1048576)
      BY <1>1, <2>1, SMT DEF Key
    <2>3. e.node.major \in Below(65536)
      BY <2>2, EventMajorExact
    <2> QED BY <2>1, <2>2, <2>3, SMT
  <1>4. resolved \subseteq [node : Numbers, found : SUBSET Numbers]
    BY DEF Inv
  <1>5. \A p, q \in deviceMap : p.key = q.key => p = q
    BY DEF Inv, Tables
  <1>6. devices = {p.key : p \in deviceMap}
    <2>1. devices = added /\ \A p \in deviceMap : p.key \in added
      BY DEF Inv, Tables
    <2>2. \A n \in added : [key |-> n, node |-> n] \in deviceMap
      BY DEF Inv, Tables
    <2>3. \A n \in added : n \in {p.key : p \in deviceMap}
      <3> SUFFICES ASSUME NEW n \in added
                   PROVE  \E p \in deviceMap : n = p.key
        OBVIOUS
      <3>1. [key |-> n, node |-> n] \in deviceMap
        BY <2>2
      <3> QED BY <3>1
    <2> QED BY <2>1, <2>3
  <1>7. devices \subseteq Key /\ added \subseteq Numbers
    BY <1>1 DEF Inv, Tables
  <1>8. attached \in BOOLEAN /\ ignored \subseteq Numbers
    BY DEF Inv
  <1> QED BY <1>2, <1>3, <1>4, <1>5, <1>6, <1>7, <1>8 DEF TypeOK

-----------------------------------------------------------------------------
(* The theorems. *)

\* Keys and events keep the widths of the C and Go structures, and deviceMap has
\* exactly one entry for each key of `devices` (bpf/common.h:14-33,
\* pkg/loader/loader.go:28-36, cmd/agent/main.go:107-120).
THEOREM TypeCorrect == Spec => []TypeOK
  BY InitInv, NextInv, InvTypeOK, PTL DEF Spec

\* For all device numbers, the program watches the nodes main has added and no
\* others, although the two sides compute the number from different encodings
\* (bpf/drm_common.bpf.c:47-56, pkg/discovery/discovery.go:72-74).
THEOREM WatchesAdded == Spec => []WatchedExactly
  BY InitInv, NextInv, InvImplies, PTL DEF Spec

\* For all device numbers, the worker finds the node a call was made on
\* (bpf/drm_common.bpf.c:80-81, cmd/agent/main.go:204-211).
THEOREM ResolvesOwn == Spec => []OwnDevice
  BY InitInv, NextInv, InvImplies, PTL DEF Spec

=============================================================================
