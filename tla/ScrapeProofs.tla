---------------------------- MODULE ScrapeProofs ----------------------------
(***************************************************************************)
(* Theorems about Scrape, for every number of requests, CPUs and calls: a  *)
(* response never shows less than the one before, and it is a cut between  *)
(* the arrival of its request and its end.                                 *)
(***************************************************************************)
EXTENDS Scrape, AccountingProofs

-----------------------------------------------------------------------------
(* The agent is not changed by being observed. *)

LEMMA AgentUnderScrapes == ScrapeSpec => Spec
<1>1. ScrapeInit => Init
  BY DEF ScrapeInit
<1>2. [ScrapeNext]_allVars => [Next]_vars
  BY DEF ScrapeNext, AgentStep, HttpStep, allVars
<1> QED
  BY <1>1, <1>2, PTL DEF ScrapeSpec, Spec

-----------------------------------------------------------------------------
(* What the counters do. *)

LEMMA CountersGrow ==
    ASSUME Typed, Ledger, [Next]_vars
    PROVE  /\ Covers(ioctlTotal', ioctlTotal)
           /\ Covers(eventsDropped', eventsDropped)
           /\ \A c \in Cpus : dropped[c] <= dropped'[c]
<1>0. /\ NatOn(ioctlTotal, DOMAIN ioctlTotal)
      /\ eventsDropped \in [dropReasons -> Nat] /\ dropped \in [Cpus -> Nat]
  BY DEF Typed, TypeOK, MetricsTypeOK, ProbeTypeOK, NatOn
<1>1. ASSUME NEW m, NEW k, NatOn(m, DOMAIN m) PROVE Covers(Increment(m, k), m)
  BY <1>1 DEF Covers, Increment, Put, NatOn
<1>2. ASSUME NEW m, NatOn(m, DOMAIN m) PROVE Covers(m, m)
  BY <1>2 DEF Covers, NatOn
<1>3. NatOn(eventsDropped, DOMAIN eventsDropped)
  BY <1>0 DEF NatOn
<1>4. \/ UNCHANGED ioctlTotal
      \/ \E k : ioctlTotal' = Increment(ioctlTotal, k)
  BY NextCases
     DEF NewLoader, Discover, Attach, StartServer, CreateReader,
         StartGoroutines, SkipDevice, FillDevice, ReadEvent, ReadClosed,
         Enqueue, SelectDefault, EnqueueFull, WaitWorkers, CloseLoader,
         CloseObjects, WorkerRecv, WorkerAnswer, WorkerLogs, WorkerDrops,
         WorkerCounts, IncIoctl, IncEventsDropped, WorkerExit, SigReceive,
         SigShutdown, SigCloseReader, SigCloseDone, ServerListen, ServerFail,
         Signal, Killed, vars, userVars, metricsVars
<1>5. \/ UNCHANGED eventsDropped
      \/ \E k : eventsDropped' = Increment(eventsDropped, k)
  BY NextCases
     DEF NewLoader, Discover, Attach, StartServer, CreateReader,
         StartGoroutines, SkipDevice, FillDevice, ReadEvent, ReadClosed,
         Enqueue, SelectDefault, EnqueueFull, WaitWorkers, CloseLoader,
         CloseObjects, WorkerRecv, WorkerAnswer, WorkerLogs, WorkerDrops,
         WorkerCounts, IncIoctl, IncEventsDropped, WorkerExit, SigReceive,
         SigShutdown, SigCloseReader, SigCloseDone, ServerListen, ServerFail,
         Signal, Killed, vars, userVars, metricsVars
<1>6. \/ UNCHANGED dropped
      \/ \E c \in Cpus : StoreLost(c)
  BY NextCases
     DEF NewLoader, Discover, Attach, StartServer, CreateReader,
         StartGoroutines, SkipDevice, FillDevice, ReadEvent, ReadClosed,
         Enqueue, SelectDefault, EnqueueFull, WaitWorkers, CloseLoader,
         CloseObjects, WorkerRecv, WorkerAnswer, WorkerLogs, WorkerDrops,
         WorkerCounts, WorkerExit, SigReceive, SigShutdown, SigCloseReader,
         SigCloseDone, ServerListen, ServerFail, Signal, Killed, KernelStep,
         Observe, Ignore, Reserve, ReserveFails, LoadLost, Submit, vars,
         probeVars
<1>7. \A c \in Cpus : dropped[c] <= dropped'[c]
  <2>1. CASE UNCHANGED dropped
    BY <1>0, <2>1
  <2>2. ASSUME NEW c \in Cpus, StoreLost(c)
        PROVE  \A d \in Cpus : dropped[d] <= dropped'[d]
    <3>1. run[c].lost = dropped[c]
      BY <2>2 DEF StoreLost, Ledger
    <3> QED
      BY <1>0, <2>2, <3>1 DEF StoreLost, LossSlot
  <2> QED
    BY <1>6, <2>1, <2>2
<1> QED
  BY <1>0, <1>1, <1>2, <1>3, <1>4, <1>5, <1>7

\* Whatever the worker counts names a device that has its info series: the
\* device loop sets both before it fills the maps.
Described ==
    /\ \A n \in DOMAIN deviceMap : deviceMap[n].device \in deviceInfo
    /\ \A k \in DOMAIN ioctlTotal : k.device \in deviceInfo

LEMMA DescribedKept ==
    ASSUME Typed, Described, [Next]_vars PROVE Described'
<1>1. ASSUME NEW d \in Devices, FillDevice(d) PROVE Described'
  <2>1. /\ deviceInfo' = deviceInfo \cup {d} /\ ioctlTotal' = ioctlTotal
        /\ deviceMap' = PutAll(deviceMap, [n \in NodesOf[d] |->
                           [device |-> d, vendor |-> VendorOf(d)]])
    BY <1>1 DEF FillDevice, metricsVars
  <2> QED
    BY <2>1 DEF Described, PutAll
<1>2. CASE WorkerCounts
  <2>1. /\ ioctlTotal' = Increment(ioctlTotal, EventKey(work, lookup.ans.info))
        /\ deviceMap' = deviceMap /\ deviceInfo' = deviceInfo
        /\ work.node \in DOMAIN deviceMap
    BY <1>2 DEF WorkerCounts, IncIoctl, startVars, Typed, WorkKnown
  <2>2. EventKey(work, lookup.ans.info).device \in deviceInfo
    BY <2>1 DEF EventKey, Described
  <2>3. DOMAIN ioctlTotal'
          = DOMAIN ioctlTotal \cup {EventKey(work, lookup.ans.info)}
    BY <2>1 DEF Increment, Put
  <2> QED
    BY <2>1, <2>2, <2>3 DEF Described
<1>3. CASE UNCHANGED <<deviceMap, deviceInfo, ioctlTotal>>
  BY <1>3 DEF Described
<1> QED
  BY <1>1, <1>2, <1>3, NextCases
     DEF NewLoader, Discover, Attach, StartServer, CreateReader,
         StartGoroutines, SkipDevice, ReadEvent, ReadClosed,
         Enqueue, SelectDefault, EnqueueFull, WaitWorkers, CloseLoader,
         CloseObjects, WorkerRecv, WorkerAnswer, WorkerLogs, WorkerDrops,
         IncEventsDropped, WorkerExit, SigReceive, SigShutdown,
         SigCloseReader, SigCloseDone, ServerListen, ServerFail, Signal,
         Killed, vars, userVars, metricsVars, startVars

LEMMA DescribedInvariant == Spec => []Described
<1>1. Init => Described
  BY DEF Init, Described, EmptyMap
<1>2. Typed /\ Described /\ [Next]_vars => Described'
  BY DescribedKept
<1> QED
  BY <1>1, <1>2, TypedInvariant, PTL DEF Spec

-----------------------------------------------------------------------------
(* What is accounted for, in calls and in counters. *)

Counted == dropReasons \cup {"counted", "ringbuf_full"}

LEMMA SettledIs ==
    ASSUME Typed, Ledger
    PROVE  /\ Settled = SumOver(ioctlTotal, DOMAIN ioctlTotal)
                        + SumOver(eventsDropped, dropReasons)
                        + SumOver(dropped, Cpus)
           /\ Settled = Cardinality(At(Counted)) /\ Settled \in Nat
           /\ SumOver(ioctlTotal, DOMAIN ioctlTotal) \in Nat
           /\ SumOver(eventsDropped, dropReasons) \in Nat
           /\ SumOver(dropped, Cpus) \in Nat
<1> DEFINE B == {"counted"}
           C == dropReasons
           D == {"ringbuf_full"}
<1>1. At(Counted) = At(B \cup (C \cup D)) /\ Settled = Cardinality(At(Counted))
  BY DEF At, Counted, Settled
<1>2. B \cap (C \cup D) = {} /\ C \cap D = {}
  BY DEF dropReasons
<1>3. /\ SumOver(ioctlTotal, DOMAIN ioctlTotal) = Cardinality(At(B))
      /\ SumOver(eventsDropped, dropReasons) = Cardinality(At(C))
      /\ SumOver(dropped, Cpus) = Cardinality(At(D))
  BY DEF Ledger
<1> HIDE DEF B, C, D
<1>4. /\ Cardinality(At(B \cup (C \cup D)))
           = Cardinality(At(B)) + Cardinality(At(C \cup D))
      /\ Cardinality(At(C \cup D)) = Cardinality(At(C)) + Cardinality(At(D))
  BY <1>2, AtUnion
<1>5. /\ Cardinality(At(B)) \in Nat /\ Cardinality(At(C)) \in Nat
      /\ Cardinality(At(D)) \in Nat
  BY AtFinite
<1>6. Settled = Cardinality(At(B \cup (C \cup D)))
  BY <1>1, Zenon
<1> QED
  BY <1>1, <1>3, <1>4, <1>5, <1>6

LEMMA SettledGrows ==
    ASSUME Typed, Typed', Carried, Located, [Next]_vars
    PROVE  Settled <= Settled'
<1>1. ASSUME NEW i \in At(Counted) PROVE i \in At(Counted)'
  <2>1. i \in Ids /\ i \in Ids' /\ place[i] \in Counted
    BY Grows DEF At
  <2>2. place'[i] = place[i]
    BY <2>1, Moves DEF Move, Counted, dropReasons
  <2> QED
    BY <2>1, <2>2 DEF At
<1>2. IsFiniteSet(At(Counted)')
  <2>1. Len(calls') \in Int
    BY DEF Typed, TypeOK, HistoryTypeOK
  <2>2. IsFiniteSet(Ids')
    BY <2>1, FS_Interval DEF Ids
  <2>3. At(Counted)' \in SUBSET Ids'
    BY DEF At
  <2> QED
    BY <2>2, <2>3, FS_Subset
<1>3. At(Counted) \in SUBSET At(Counted)'
  BY <1>1
<1>4. Cardinality(At(Counted)) <= Cardinality(At(Counted)')
  BY <1>2, <1>3, FS_Subset
<1>5. Settled = Cardinality(At(Counted))
  BY DEF At, Counted, Settled
<1>6. Settled' = Cardinality(At(Counted)')
  BY DEF At, Counted, Settled
<1> QED
  BY <1>4, <1>5, <1>6

-----------------------------------------------------------------------------
(* What a handler has gathered.  While it holds the mutex its copies of the  *)
(* userspace counters are the counters; the slots it has still to read can   *)
(* only grow, and what it has read of the others is what they held or less.  *)

\* The counters behind the mutex.
Mutexed == SumOver(ioctlTotal, DOMAIN ioctlTotal)
           + SumOver(eventsDropped, dropReasons)

\* The least the lookup can still return.
Reach(r) == r.lost + SumOver(dropped, r.slots)

Snapshots ==
    [at : {"kernel"}, since : Nat, ioctl : {ioctlTotal},
     drops : {eventsDropped}, info : SUBSET Devices, slots : SUBSET Cpus,
     lost : Nat]

Gathered(h) ==
    /\ http[h] \in Snapshots /\ mu = {h}
    /\ http[h].since <= Mutexed + Reach(http[h])
    /\ http[h].lost <= SumOver(dropped, Cpus \ http[h].slots)
    /\ served.lost <= Reach(http[h])
    /\ \A k \in DOMAIN ioctlTotal : k.device \in http[h].info

Waiting(h) ==
    http[h] \in [at : {"lock"}, since : Nat] /\ http[h].since <= Settled

Handled ==
    /\ http = [h \in Handlers |-> http[h]]
    /\ \A h \in Handlers : \/ http[h] \in {NoRequest, [at |-> "done"]}
                            \/ Waiting(h)
                            \/ Gathered(h)

\* The last response, against what the counters are now.
Behind ==
    /\ NatOn(served.ioctl, DOMAIN served.ioctl)
    /\ NatOn(served.drops, DOMAIN served.drops)
    /\ served.lost \in Nat /\ served.lost <= SumOver(dropped, Cpus)
    /\ Covers(ioctlTotal, served.ioctl)
    /\ Covers(eventsDropped, served.drops)

\* What the proofs below know of the agent.
AgentFacts == Typed /\ Carried /\ Located /\ Ledger /\ Described

\* Sums over some of the slots.
LEMMA SlotSums ==
    ASSUME Typed, NEW s \in SUBSET Cpus
    PROVE  /\ IsFiniteSet(s) /\ NatOn(dropped, s)
           /\ SumOver(dropped, s) \in Nat
<1>1. dropped \in [Cpus -> Nat]
  BY DEF Typed, TypeOK, ProbeTypeOK
<1>2. IsFiniteSet(s) /\ NatOn(dropped, s)
  BY <1>1, ProbeAssumption, FS_Subset DEF NatOn
<1> QED
  BY <1>2, SumTyped

LEMMA SlotsGrow ==
    ASSUME Typed, Typed', Ledger, [Next]_vars, NEW s \in SUBSET Cpus
    PROVE  SumOver(dropped, s) <= SumOver(dropped', s)
<1>1. dropped' \in [Cpus -> Nat] /\ \A c \in Cpus : dropped[c] <= dropped'[c]
  BY CountersGrow DEF Typed, TypeOK, ProbeTypeOK
<1>2. NatOn(dropped', s) /\ \A c \in s : dropped[c] <= dropped'[c]
  BY <1>1 DEF NatOn
<1>3. IsFiniteSet(s) /\ NatOn(dropped, s)
  BY SlotSums
<1> QED
  BY <1>2, <1>3, SumMonotone

LEMMA MutexedNat == ASSUME Typed, Ledger PROVE Mutexed \in Nat
  BY SettledIs DEF Mutexed

\* A step of the agent, between steps of the handlers.
LEMMA HandledUnderAgent ==
    ASSUME AgentFacts, AgentFacts', Handled, Behind, [Next]_vars, Unlocked,
           UNCHANGED scrapeVars
    PROVE  Handled'
<1>0. http' = http /\ mu' = mu /\ served' = served
  BY DEF scrapeVars
<1>1. ASSUME NEW h \in Handlers, Waiting(h) PROVE Waiting(h)'
  <2>1. Settled <= Settled'
    BY SettledGrows DEF AgentFacts
  <2>2. Settled \in Nat /\ Settled' \in Nat
    <3>1. Settled \in Nat /\ (Settled \in Nat)'
      BY SettledIs, PTL DEF AgentFacts
    <3> QED
      BY <3>1
  <2>3. http[h].since \in Nat
    BY <1>1 DEF Waiting
  <2>4. http[h].since <= Settled'
    BY <1>1, <2>1, <2>2, <2>3 DEF Waiting
  <2> QED
    BY <1>0, <1>1, <2>4 DEF Waiting
<1>2. ASSUME NEW h \in Handlers, Gathered(h) PROVE Gathered(h)'
  <2> DEFINE r == http[h]
             u == SumOver(dropped, r.slots)
             v == SumOver(dropped', r.slots)
             x == SumOver(dropped, Cpus \ r.slots)
             y == SumOver(dropped', Cpus \ r.slots)
  <2>1. ioctlTotal' = ioctlTotal /\ eventsDropped' = eventsDropped
    BY <1>2 DEF Gathered, Unlocked, metricsVars
  <2>2. r.slots \in SUBSET Cpus /\ r.lost \in Nat /\ r.since \in Nat
    BY <1>2 DEF Gathered, Snapshots
  <2>3. u <= v /\ x <= y
    BY <2>2, SlotsGrow DEF AgentFacts
  <2>4. u \in Nat /\ x \in Nat /\ Mutexed \in Nat /\ served.lost \in Nat
    BY <2>2, SlotSums, MutexedNat DEF AgentFacts, Behind
  <2>5. v \in Nat /\ y \in Nat
    <3>1. dropped' \in [Cpus -> Nat]
      BY DEF AgentFacts, Typed, TypeOK, ProbeTypeOK
    <3>2. NatOn(dropped', r.slots) /\ NatOn(dropped', Cpus \ r.slots)
      BY <2>2, <3>1 DEF NatOn
    <3>3. IsFiniteSet(r.slots) /\ IsFiniteSet(Cpus \ r.slots)
      BY <2>2, SlotSums DEF AgentFacts
    <3> QED
      BY <3>2, <3>3, SumTyped
  <2>6. /\ r.since <= Mutexed + (r.lost + u) /\ r.lost <= x
        /\ served.lost <= r.lost + u
    BY <1>2 DEF Gathered, Reach
  <2>7. Mutexed' = Mutexed
    BY <2>1 DEF Mutexed
  <2>8. /\ r.since <= Mutexed + (r.lost + v) /\ r.lost <= y
        /\ served.lost <= r.lost + v
    <3> HIDE DEF u, v, x, y, r
    <3> QED
      BY <2>2, <2>3, <2>4, <2>5, <2>6
  <2>9. (http[h] \in Snapshots)'
    BY <1>0, <1>2, <2>1 DEF Gathered, Snapshots
  <2>10. Reach(http[h])' = r.lost + v
    BY <1>0 DEF Reach
  <2>11. (SumOver(dropped, Cpus \ http[h].slots))' = y
    BY <1>0
  <2>12. mu = {h} /\ \A k \in DOMAIN ioctlTotal : k.device \in http[h].info
    BY <1>2 DEF Gathered
  <2> HIDE DEF u, v, x, y
  <2> QED
    BY <1>0, <2>1, <2>7, <2>8, <2>9, <2>10, <2>11, <2>12 DEF Gathered
<1>3. \A h \in Handlers : \/ (http[h] \in {NoRequest, [at |-> "done"]})'
                          \/ Waiting(h)'
                          \/ Gathered(h)'
  BY <1>0, <1>1, <1>2 DEF Handled
<1> QED
  BY <1>0, <1>3 DEF Handled

LEMMA CoversTransitive ==
    ASSUME NEW a, NEW b, NEW c, NatOn(a, DOMAIN a), NatOn(b, DOMAIN b),
           NatOn(c, DOMAIN c), Covers(b, a), Covers(c, b)
    PROVE  Covers(c, a)
<1>1. DOMAIN a \subseteq DOMAIN b /\ DOMAIN b \subseteq DOMAIN c
  BY DEF Covers
<1>2. ASSUME NEW k \in DOMAIN a PROVE a[k] <= c[k]
  <2>1. a[k] \in Nat /\ b[k] \in Nat /\ c[k] \in Nat
    BY <1>1 DEF NatOn
  <2>2. a[k] <= b[k] /\ b[k] <= c[k]
    BY <1>1 DEF Covers
  <2> QED
    BY <2>1, <2>2
<1> QED
  BY <1>1, <1>2 DEF Covers

LEMMA BehindUnderAgent ==
    ASSUME AgentFacts, AgentFacts', Behind, ScrapeBetween, [Next]_vars,
           UNCHANGED scrapeVars
    PROVE  Behind' /\ ScrapeBetween'
<1>0. served' = served
  BY DEF scrapeVars
<1>1. ScrapeBetween'
  BY <1>0 DEF ScrapeBetween, Shown
<1>2. /\ NatOn(ioctlTotal, DOMAIN ioctlTotal)
      /\ NatOn(eventsDropped, DOMAIN eventsDropped)
      /\ NatOn(ioctlTotal', DOMAIN ioctlTotal')
      /\ NatOn(eventsDropped', DOMAIN eventsDropped')
  BY DEF AgentFacts, Typed, TypeOK, MetricsTypeOK, NatOn
<1>3. Covers(ioctlTotal', served.ioctl) /\ Covers(eventsDropped', served.drops)
  BY <1>2, CountersGrow, CoversTransitive DEF AgentFacts, Behind
<1>4. SumOver(dropped, Cpus) <= SumOver(dropped', Cpus)
  BY SlotsGrow DEF AgentFacts
<1>5. SumOver(dropped, Cpus) \in Nat /\ (SumOver(dropped, Cpus) \in Nat)'
  BY SettledIs, PTL DEF AgentFacts
<1>6. served.lost <= SumOver(dropped', Cpus)
  BY <1>4, <1>5 DEF Behind
<1> QED
  BY <1>0, <1>1, <1>3, <1>6 DEF Behind

-----------------------------------------------------------------------------
(* A step of a handler. *)

\* The other requests keep what they have: none of them holds the mutex.
LEMMA OthersKept ==
    ASSUME NEW h \in Handlers, NEW w, http' = [http EXCEPT ![h] = w],
           UNCHANGED vars, Handled, mu \subseteq {h},
           \/ w \in {NoRequest, [at |-> "done"]}
           \/ Waiting(h)'
           \/ Gathered(h)'
    PROVE  Handled'
<1>1. UNCHANGED <<calls, place, ioctlTotal, eventsDropped, dropped>>
  BY DEF vars, probeVars, metricsVars
<1>2. http' = [x \in Handlers |-> IF x = h THEN w ELSE http[x]]
  BY DEF Handled
<1>3. ASSUME NEW x \in Handlers, x # h
      PROVE  (http[x] \in {NoRequest, [at |-> "done"]})' \/ Waiting(x)'
  <2>1. http'[x] = http[x]
    BY <1>2, <1>3
  <2>2. Settled' = Settled
    BY <1>1 DEF Settled, Ids
  <2>3. ~Gathered(x)
    BY <1>3 DEF Gathered
  <2> QED
    BY <1>3, <2>1, <2>2, <2>3 DEF Handled, Waiting
<1>4. http'[h] = w
  BY <1>2
<1>5. http' = [x \in Handlers |-> http'[x]]
  BY <1>2
<1>6. \A x \in Handlers : \/ (http[x] \in {NoRequest, [at |-> "done"]})'
                          \/ Waiting(x)'
                          \/ Gathered(x)'
  BY <1>3, <1>4
<1> QED
  BY <1>5, <1>6 DEF Handled

LEMMA RequestHandled ==
    ASSUME AgentFacts, Handled, NEW h \in Handlers, Request(h), UNCHANGED vars
    PROVE  Handled'
<1> DEFINE w == [at |-> "lock", since |-> Settled]
<1>1. http' = [http EXCEPT ![h] = w] /\ mu' = mu /\ served' = served
  BY DEF Request
<1>2. UNCHANGED <<calls, place, ioctlTotal, eventsDropped, dropped>>
  BY DEF vars, probeVars, metricsVars
<1>3. Settled \in Nat /\ Settled' = Settled
  BY <1>2, SettledIs DEF AgentFacts, Settled, Ids
<1>4. http' = [x \in Handlers |-> IF x = h THEN w ELSE http[x]]
  BY <1>1 DEF Handled
<1>5. Waiting(h)'
  BY <1>3, <1>4 DEF Waiting
<1>6. ASSUME NEW x \in Handlers, x # h
      PROVE  \/ (http[x] \in {NoRequest, [at |-> "done"]})'
             \/ Waiting(x)'
             \/ Gathered(x)'
  <2>1. http'[x] = http[x]
    BY <1>4, <1>6
  <2>2. Waiting(x) => Waiting(x)'
    BY <1>3, <2>1 DEF Waiting
  <2>3. Gathered(x) => Gathered(x)'
    BY <1>1, <1>2, <2>1 DEF Gathered, Snapshots, Mutexed, Reach
  <2> QED
    BY <2>1, <2>2, <2>3 DEF Handled
<1>7. http' = [x \in Handlers |-> http'[x]]
  BY <1>4
<1> QED
  BY <1>5, <1>6, <1>7 DEF Handled

LEMMA CollectHandled ==
    ASSUME AgentFacts, Handled, Behind, NEW h \in Handlers, Collect(h),
           UNCHANGED vars
    PROVE  Handled'
<1> DEFINE w == [at |-> "kernel", since |-> http[h].since,
                 ioctl |-> ioctlTotal, drops |-> eventsDropped,
                 info |-> deviceInfo, slots |-> Cpus, lost |-> 0]
<1>1. /\ http' = [http EXCEPT ![h] = w] /\ mu = {} /\ mu' = {h}
      /\ served' = served /\ http[h].at = "lock"
  BY DEF Collect
<1>2. UNCHANGED <<calls, place, ioctlTotal, eventsDropped, dropped>>
  BY DEF vars, probeVars, metricsVars
<1>3. http'[h] = w
  BY <1>1 DEF Handled
<1>4. Waiting(h)
  <2>1. ~Gathered(h)
    BY <1>1 DEF Gathered
  <2>2. http[h] \notin {NoRequest, [at |-> "done"]}
    BY <1>1 DEF NoRequest
  <2> QED
    BY <2>1, <2>2 DEF Handled
<1>5. http[h].since \in Nat /\ http[h].since <= Settled
  BY <1>4 DEF Waiting
<1>6. deviceInfo \in SUBSET Devices
  BY DEF AgentFacts, Typed, TypeOK, StartTypeOK
<1>7. (http[h] \in Snapshots)'
  BY <1>2, <1>3, <1>5, <1>6 DEF Snapshots
<1>8. /\ Settled = Mutexed + SumOver(dropped, Cpus) /\ Mutexed \in Nat
      /\ SumOver(dropped, Cpus) \in Nat
  BY SettledIs, MutexedNat DEF AgentFacts, Mutexed
<1>9. Reach(w) = SumOver(dropped, Cpus)
  BY <1>8 DEF Reach
<1>10. Reach(http[h])' = Reach(w) /\ Mutexed' = Mutexed
  BY <1>2, <1>3 DEF Reach, Mutexed
<1>11. SumOver(dropped, Cpus \ Cpus) = 0
  <2>1. Cpus \ Cpus = {}
    OBVIOUS
  <2> QED
    BY <2>1, SumEmpty
<1>12. (SumOver(dropped, Cpus \ http[h].slots))' = 0
  BY <1>2, <1>3, <1>11
<1>13. \A k \in DOMAIN ioctlTotal : k.device \in deviceInfo
  BY DEF AgentFacts, Described
<1>14. http[h].since <= Mutexed + Reach(w) /\ served.lost <= Reach(w)
  BY <1>5, <1>8, <1>9 DEF Behind
<1>15. Gathered(h)'
  <2>1. (http[h].since <= Mutexed + Reach(http[h]))'
    BY <1>3, <1>10, <1>14
  <2>2. (http[h].lost <= SumOver(dropped, Cpus \ http[h].slots))'
    BY <1>3, <1>12
  <2>3. (served.lost <= Reach(http[h]))'
    BY <1>1, <1>10, <1>14
  <2>4. (\A k \in DOMAIN ioctlTotal : k.device \in http[h].info)'
    BY <1>2, <1>3, <1>13
  <2> QED
    BY <1>1, <1>7, <2>1, <2>2, <2>3, <2>4 DEF Gathered
<1> HIDE DEF w
<1> QED
  BY <1>1, <1>15, OthersKept

LEMMA InKernel ==
    ASSUME Handled, NEW h \in Handlers, http[h].at = "kernel"
    PROVE  Gathered(h)
  BY DEF Handled, NoRequest, Waiting

LEMMA DroppedEventsHandled ==
    ASSUME AgentFacts, Handled, Behind, NEW h \in Handlers, NEW c \in Cpus,
           DroppedEvents(h, c), UNCHANGED vars
    PROVE  Handled'
<1> DEFINE r == http[h]
           w == [r EXCEPT !.slots = @ \ {c}, !.lost = @ + dropped[c]]
<1>1. /\ mu' = mu /\ served' = served /\ r.at = "kernel" /\ c \in r.slots
  BY DEF DroppedEvents
<1>15. http' = [http EXCEPT ![h] = w]
  <2>1. http' = [http EXCEPT ![h].slots = @ \ {c}, ![h].lost = @ + dropped[c]]
    BY DEF DroppedEvents
  <2>2. http = [x \in Handlers |-> http[x]]
    BY DEF Handled
  <2> QED
    BY <1>1, <2>1, <2>2, InKernel DEF Gathered, Snapshots
<1>2. UNCHANGED <<calls, place, ioctlTotal, eventsDropped, dropped>>
  BY DEF vars, probeVars, metricsVars
<1>3. http'[h] = w
  BY <1>15 DEF Handled
<1>4. Gathered(h)
  BY <1>1, InKernel
<1>5. /\ r \in Snapshots /\ mu = {h} /\ r.slots \in SUBSET Cpus
      /\ r.lost \in Nat /\ r.since \in Nat
  BY <1>4 DEF Gathered, Snapshots
<1>6. dropped[c] \in Nat
  BY DEF AgentFacts, Typed, TypeOK, ProbeTypeOK
<1>7. /\ w \in Snapshots /\ w.slots = r.slots \ {c}
      /\ w.lost = r.lost + dropped[c] /\ w.since = r.since /\ w.info = r.info
  <2>1. r.slots \ {c} \in SUBSET Cpus /\ r.lost + dropped[c] \in Nat
    BY <1>5, <1>6
  <2> HIDE DEF r
  <2>2. w \in Snapshots
    BY <1>5, <2>1 DEF Snapshots
  <2>3. w.slots = r.slots \ {c} /\ w.lost = r.lost + dropped[c]
    BY <1>5 DEF Snapshots
  <2>4. w.since = r.since /\ w.info = r.info
    BY <1>5 DEF Snapshots
  <2> QED
    BY <2>2, <2>3, <2>4
<1>8. SumOver(dropped, r.slots) = dropped[c] + SumOver(dropped, r.slots \ {c})
  BY <1>1, <1>5, SlotSums, SumRemove DEF AgentFacts
<1>9. /\ SumOver(dropped, r.slots \ {c}) \in Nat
      /\ SumOver(dropped, Cpus \ r.slots) \in Nat
  BY <1>5, SlotSums DEF AgentFacts
<1>10. Reach(w) = Reach(r)
  <2>1. Reach(w) = (r.lost + dropped[c]) + SumOver(dropped, r.slots \ {c})
    BY <1>7, Zenon DEF Reach
  <2>2. Reach(r) = r.lost + (dropped[c] + SumOver(dropped, r.slots \ {c}))
    BY <1>8, Zenon DEF Reach
  <2> HIDE DEF r, w
  <2> QED
    BY <1>5, <1>6, <1>9, <2>1, <2>2
<1>11. SumOver(dropped, Cpus \ w.slots)
         = dropped[c] + SumOver(dropped, Cpus \ r.slots)
  <2> DEFINE S == Cpus \ (r.slots \ {c})
  <2>1. c \in S /\ S \ {c} = Cpus \ r.slots /\ S \in SUBSET Cpus
    BY <1>1, <1>5
  <2>2. SumOver(dropped, S) = dropped[c] + SumOver(dropped, S \ {c})
    <3> HIDE DEF S
    <3> QED
      BY <2>1, SlotSums, SumRemove DEF AgentFacts
  <2>3. Cpus \ w.slots = S
    BY <1>7
  <2> HIDE DEF w, S
  <2> QED
    BY <2>1, <2>2, <2>3, Zenon
<1>12. /\ r.since <= Mutexed + Reach(r) /\ served.lost <= Reach(r)
       /\ r.lost <= SumOver(dropped, Cpus \ r.slots)
       /\ \A k \in DOMAIN ioctlTotal : k.device \in r.info
  BY <1>4 DEF Gathered
<1>13. w.lost <= SumOver(dropped, Cpus \ w.slots)
  <2> HIDE DEF w, r
  <2> QED
    BY <1>5, <1>6, <1>7, <1>9, <1>11, <1>12
<1>14. Gathered(h)'
  <2>1. (http[h] \in Snapshots)'
    BY <1>2, <1>3, <1>7 DEF Snapshots
  <2>2. Reach(http[h])' = Reach(w) /\ Mutexed' = Mutexed
    BY <1>2, <1>3 DEF Reach, Mutexed
  <2>3. (SumOver(dropped, Cpus \ http[h].slots))'
          = SumOver(dropped, Cpus \ w.slots)
    BY <1>2, <1>3
  <2>4. http'[h].since = r.since /\ http'[h].lost = w.lost
        /\ http'[h].info = r.info
    BY <1>3, <1>7
  <2> HIDE DEF w, r
  <2> QED
    BY <1>1, <1>2, <1>5, <1>10, <1>12, <1>13, <2>1, <2>2, <2>3, <2>4
       DEF Gathered
<1> HIDE DEF w
<1> QED
  BY <1>5, <1>14, <1>15, OthersKept

\* The response: what Answer leaves behind is a cut.
LEMMA AnswerHandled ==
    ASSUME AgentFacts, Handled, Behind, ScrapeBetween, NEW h \in Handlers,
           NEW complete \in BOOLEAN, http[h].at = "kernel",
           complete => http[h].slots = {}, mu' = {}, Answer(h, complete),
           UNCHANGED vars
    PROVE  /\ Handled' /\ Behind' /\ ScrapeBetween'
           /\ Covers(served'.ioctl, served.ioctl)
           /\ Covers(served'.drops, served.drops)
           /\ served.lost <= served'.lost
<1> DEFINE r == http[h]
<1>1. Gathered(h)
  BY InKernel
<1>2. /\ r \in Snapshots /\ mu = {h} /\ r.slots \in SUBSET Cpus
      /\ r.lost \in Nat /\ r.since \in Nat /\ r.ioctl = ioctlTotal
      /\ r.drops = eventsDropped
  BY <1>1 DEF Gathered, Snapshots
<1>3. /\ served'.ioctl = ioctlTotal /\ served'.drops = eventsDropped
      /\ served'.lost = IF complete THEN r.lost ELSE served.lost
      /\ served'.complete = complete /\ served'.info = r.info
      /\ served'.since = r.since /\ served'.until = Settled
      /\ http' = [http EXCEPT ![h] = [at |-> "done"]]
  BY <1>2 DEF Answer
<1>4. UNCHANGED <<calls, place, ioctlTotal, eventsDropped, dropped>>
  BY DEF vars, probeVars, metricsVars
<1>5. Handled'
  BY <1>2, <1>3, OthersKept
<1>6. /\ Settled = Mutexed + SumOver(dropped, Cpus) /\ Mutexed \in Nat
      /\ SumOver(dropped, Cpus) \in Nat
  BY SettledIs, MutexedNat DEF AgentFacts, Mutexed
<1>7. /\ r.since <= Mutexed + Reach(r) /\ served.lost <= Reach(r)
      /\ r.lost <= SumOver(dropped, Cpus \ r.slots)
      /\ \A k \in DOMAIN ioctlTotal : k.device \in r.info
  BY <1>1 DEF Gathered
<1>8. complete => /\ Reach(r) = r.lost
                  /\ r.lost <= SumOver(dropped, Cpus)
  <2> SUFFICES ASSUME complete
               PROVE  Reach(r) = r.lost /\ r.lost <= SumOver(dropped, Cpus)
    OBVIOUS
  <2>1. Cpus \ r.slots = Cpus /\ r.slots = {}
    OBVIOUS
  <2>2. SumOver(dropped, r.slots) = 0
    BY <2>1, SumEmpty
  <2>3. SumOver(dropped, Cpus \ r.slots) = SumOver(dropped, Cpus)
    BY <2>1, Zenon
  <2> QED
    BY <1>2, <1>7, <2>2, <2>3 DEF Reach
<1>9. /\ NatOn(ioctlTotal, DOMAIN ioctlTotal)
      /\ NatOn(eventsDropped, DOMAIN eventsDropped)
      /\ DOMAIN eventsDropped = dropReasons
  BY DEF AgentFacts, Typed, TypeOK, MetricsTypeOK, NatOn
<1>10. Covers(ioctlTotal, ioctlTotal) /\ Covers(eventsDropped, eventsDropped)
  BY <1>9 DEF Covers, NatOn
<1>11. served.lost \in Nat /\ served.lost <= SumOver(dropped, Cpus)
  BY DEF Behind
<1>12. /\ served'.lost \in Nat /\ served'.lost <= SumOver(dropped, Cpus)
       /\ served.lost <= served'.lost
  <2> HIDE DEF r
  <2>1. CASE complete
    BY <1>2, <1>3, <1>7, <1>8, <2>1
  <2>2. CASE ~complete
    BY <1>3, <1>11, <2>2
  <2> QED
    BY <2>1, <2>2
<1>13. Behind'
  BY <1>3, <1>4, <1>9, <1>10, <1>12 DEF Behind
<1>14. Shown' = Mutexed + (IF complete THEN served'.lost ELSE 0)
  <2>1. /\ SumOver(served'.ioctl, DOMAIN served'.ioctl)
             = SumOver(ioctlTotal, DOMAIN ioctlTotal)
        /\ SumOver(served'.drops, DOMAIN served'.drops)
             = SumOver(eventsDropped, dropReasons)
    BY <1>3, <1>9
  <2> QED
    BY <1>3, <2>1 DEF Shown, Mutexed
<1>15. ScrapeBetween'
  <2> HIDE DEF r
  <2>1. Shown' <= served'.until
    BY <1>3, <1>6, <1>12, <1>14
  <2>2. complete => served'.since <= Shown'
    BY <1>3, <1>7, <1>8, <1>14
  <2>3. \A k \in DOMAIN served'.ioctl : k.device \in served'.info
    BY <1>3, <1>7
  <2> QED
    BY <1>3, <2>1, <2>2, <2>3 DEF ScrapeBetween
<1> QED
  BY <1>3, <1>5, <1>12, <1>13, <1>15 DEF Behind

-----------------------------------------------------------------------------
(* The results. *)

Scraped == Handled /\ Behind /\ ScrapeBetween

\* What ScrapesMonotone says of one step.
NeverLess ==
    /\ Covers(served'.ioctl, served.ioctl)
    /\ Covers(served'.drops, served.drops)
    /\ served.lost <= served'.lost

LEMMA ScrapedKept ==
    ASSUME AgentFacts, AgentFacts', Scraped, [ScrapeNext]_allVars
    PROVE  Scraped' /\ NeverLess
<1>0. served' = served => NeverLess
  BY DEF Scraped, Behind, NeverLess, Covers, NatOn
<1>1. CASE AgentStep \/ UNCHANGED allVars
  <2>1. [Next]_vars /\ Unlocked /\ UNCHANGED scrapeVars
    BY <1>1 DEF AgentStep, allVars, Unlocked, vars, metricsVars
  <2>2. served' = served
    BY <2>1 DEF scrapeVars
  <2> QED
    BY <1>0, <2>1, <2>2, HandledUnderAgent, BehindUnderAgent DEF Scraped
<1>2. ASSUME NEW h \in Handlers, Request(h) \/ Handler(h), UNCHANGED vars
      PROVE  Scraped' /\ NeverLess
  <2>1. ASSUME served' = served PROVE Behind' /\ ScrapeBetween' /\ NeverLess
    <3>1. UNCHANGED <<calls, place, ioctlTotal, eventsDropped, dropped>>
      BY <1>2 DEF vars, probeVars, metricsVars
    <3> QED
      BY <1>0, <2>1, <3>1 DEF Scraped, Behind, ScrapeBetween, Shown
  <2>2. CASE Request(h)
    BY <1>2, <2>1, <2>2, RequestHandled DEF Scraped, Request
  <2>3. CASE Collect(h)
    BY <1>2, <2>1, <2>3, CollectHandled DEF Scraped, Collect
  <2>4. ASSUME NEW c \in Cpus, DroppedEvents(h, c) PROVE Scraped' /\ NeverLess
    BY <1>2, <2>1, <2>4, DroppedEventsHandled DEF Scraped, DroppedEvents
  <2>5. CASE Unlock(h)
    BY <1>2, <2>5, AnswerHandled DEF Scraped, Unlock, NeverLess
  <2>6. CASE LookupFails(h)
    BY <1>2, <2>6, AnswerHandled DEF Scraped, LookupFails, NeverLess
  <2> QED
    BY <1>2, <2>2, <2>3, <2>4, <2>5, <2>6 DEF Handler
<1> QED
  BY <1>1, <1>2 DEF ScrapeNext, HttpStep

LEMMA ScrapedInit == ScrapeInit => Scraped
<1> SUFFICES ASSUME ScrapeInit PROVE Scraped
  OBVIOUS
<1>1. /\ http = [h \in Handlers |-> NoRequest] /\ served = NoResponse
      /\ dropped = [c \in Cpus |-> 0]
  BY DEF ScrapeInit, Init, ProbeInit
<1>2. Handled
  BY <1>1 DEF Handled
<1>3. SumOver(dropped, Cpus) = 0
  BY <1>1, ProbeAssumption, SumZero
<1>4. /\ served.ioctl = EmptyMap /\ served.drops = EmptyMap
      /\ served.lost = 0 /\ ~served.complete /\ served.until = 0
      /\ DOMAIN served.ioctl = {} /\ DOMAIN served.drops = {}
  BY <1>1 DEF NoResponse, EmptyMap
<1>5. Behind
  BY <1>3, <1>4 DEF Behind, NatOn, Covers
<1>6. Shown = 0
  <2>1. /\ SumOver(served.ioctl, DOMAIN served.ioctl) = 0
        /\ SumOver(served.drops, DOMAIN served.drops) = 0
    BY <1>4, SumEmpty
  <2> QED
    BY <1>4, <2>1 DEF Shown
<1> QED
  BY <1>2, <1>4, <1>5, <1>6 DEF Scraped, ScrapeBetween

LEMMA FactsInvariant == ScrapeSpec => []AgentFacts
  BY AgentUnderScrapes, TypedInvariant, CarriedInvariant, TrackedInvariant,
     LedgerInvariant, DescribedInvariant, PTL DEF AgentFacts

LEMMA ScrapedInvariant == ScrapeSpec => []Scraped
<1>1. AgentFacts /\ AgentFacts' /\ Scraped /\ [ScrapeNext]_allVars => Scraped'
  BY ScrapedKept
<1> QED
  BY <1>1, ScrapedInit, FactsInvariant, PTL DEF ScrapeSpec

\* Every response, with the loss counter read while CPUs add to it and the
\* other counters under the mutex, shows what had been accounted for when its
\* request came and not more than when it ended
\* (pkg/metrics/metrics.go:108-170, pkg/loader/loader.go:195-209).
THEOREM ScrapeBetweenHolds == ScrapeSpec => []ScrapeBetween
  BY ScrapedInvariant, PTL DEF Scraped

\* No counter of /metrics goes down between two responses, in whatever order
\* overlapping requests are served (pkg/metrics/metrics.go:108-145).
THEOREM ScrapesMonotoneHolds == ScrapeSpec => ScrapesMonotone
<1>1. AgentFacts /\ AgentFacts' /\ Scraped /\ [ScrapeNext]_allVars
        => [/\ Covers(served'.ioctl, served.ioctl)
            /\ Covers(served'.drops, served.drops)
            /\ served.lost <= served'.lost]_allVars
  BY ScrapedKept DEF NeverLess
<1> QED
  BY <1>1, FactsInvariant, ScrapedInvariant, PTL
     DEF ScrapeSpec, ScrapesMonotone

=============================================================================
