---------------------------- MODULE AgentProofs ----------------------------
(***************************************************************************)
(* Theorems about Agent, for every node, every number of CPUs and calls,   *)
(* and every size of the ring buffer, the maps and the channel.            *)
(***************************************************************************)
EXTENDS Agent, FiniteSetTheorems, TLAPS

-----------------------------------------------------------------------------
(* The vendor registry. *)

LEMMA VendorTyped ==
    ASSUME NEW d, VendorOf(d) # NoVendor PROVE VendorOf(d) \in Vendors
  BY DEF VendorOf, GetVendor, registeredVendors, Vendors

\* Vendor ids are different numbers.
LEMMA VendorIDs ==
    ASSUME NEW v \in Vendors, NEW w \in Vendors
    PROVE  GetVendorID(v) \in Nat /\ (GetVendorID(v) = GetVendorID(w) => v = w)
  BY DEF GetVendorID, registeredVendors, Vendors

LEMMA IoctlsTyped ==
    ASSUME NEW v \in Vendors, NEW nr \in DOMAIN Ioctls(v)
    PROVE  nr \in Nat /\ Ioctls(v)[nr] \in Kinds
  BY DEF Ioctls, IoctlsI915, IoctlsIvpu, Vendors, Kinds, KindUnknown,
         KindSubmit, KindAlloc, KindWait

LEMMA KindNamed == ASSUME NEW k PROVE KindString(k) \in KindNames
<1>1. CASE k = KindSubmit
  BY <1>1 DEF KindString, KindNames, KindSubmit, KindAlloc, KindWait
<1>2. CASE k = KindAlloc
  BY <1>2 DEF KindString, KindNames, KindSubmit, KindAlloc, KindWait
<1>3. CASE k = KindWait
  BY <1>3 DEF KindString, KindNames, KindSubmit, KindAlloc, KindWait
<1>4. CASE k # KindSubmit /\ k # KindAlloc /\ k # KindWait
  BY <1>4 DEF KindString, KindNames
<1> QED
  BY <1>1, <1>2, <1>3, <1>4

LEMMA NrTyped == ASSUME NEW q \in Requests PROVE Nr(q.cmd) \in Nat
<1>1. q.cmd \in Nat
  BY WorkloadAssumption
<1> QED
  BY <1>1 DEF Nr

-----------------------------------------------------------------------------
(* Each action of the model, as a case of Next. *)

KernelStep ==
    \E c \in Cpus :
        \/ \E q \in Requests : Observe(c, q) \/ Ignore(c, q)
        \/ Reserve(c) \/ ReserveFails(c) \/ LoadLost(c) \/ StoreLost(c)
        \/ Submit(c)

LEMMA NextCases ==
    ASSUME [Next]_vars
    PROVE  \/ NewLoader \/ Discover \/ Attach \/ StartServer \/ CreateReader
           \/ StartGoroutines
           \/ \E d \in Devices : SkipDevice(d) \/ FillDevice(d)
           \/ ReadEvent \/ ReadClosed \/ Enqueue \/ SelectDefault \/ EnqueueFull
           \/ WaitWorkers \/ CloseLoader \/ CloseObjects
           \/ WorkerRecv \/ WorkerAnswer \/ WorkerLogs \/ WorkerDrops
           \/ WorkerCounts \/ WorkerExit
           \/ SigReceive \/ SigShutdown \/ SigCloseReader \/ SigCloseDone
           \/ ServerListen \/ ServerFail \/ Signal \/ Killed
           \/ KernelStep /\ UNCHANGED userVars
           \/ UNCHANGED vars
  BY DEF Next, Startup, Reader, Worker, Shutdown, Kernel, ProbeNext, Program,
         KernelStep

-----------------------------------------------------------------------------
(* Sequences. *)

LEMMA SeqExcept ==
    ASSUME NEW S, NEW s \in Seq(S), NEW i, NEW x \in S
    PROVE  /\ [s EXCEPT ![i] = x] \in Seq(S)
           /\ Len([s EXCEPT ![i] = x]) = Len(s)
<1>1. /\ DOMAIN [s EXCEPT ![i] = x] = 1 .. Len(s)
      /\ \A k \in 1 .. Len(s) : [s EXCEPT ![i] = x][k] \in S
  OBVIOUS
<1>2. [s EXCEPT ![i] = x] \in [1 .. Len(s) -> S]
  BY <1>1
<1>3. Len(s) \in Nat
  OBVIOUS
<1> QED
  BY <1>2, <1>3

LEMMA SeqAppend ==
    ASSUME NEW S, NEW s \in Seq(S), NEW x \in S
    PROVE  Append(s, x) \in Seq(S) /\ Len(Append(s, x)) = Len(s) + 1
  OBVIOUS

-----------------------------------------------------------------------------
(* Types.  Two facts make them inductive.  A counted event's labels are     *)
(* typed because the worker looked its device up before the container      *)
(* (WorkKnown); the worker that main starts is a new one, because the      *)
(* startup sequence runs once (Ordered).                                   *)

WorkKnown == worker = "lookup" => work.node \in DOMAIN deviceMap

\* Where the goroutines may be relative to one another.
Starting == {"load", "discover", "fill", "podmap", "reader", "notify"}
Ending   == {"wait", "closeLoader", "closeObjs", "exited"}

Ordered ==
    /\ main \in Starting => worker = "none" /\ sig = "none"
    /\ sig \in {"none", "wait", "shutdown", "closeReader"} =>
           once = "fresh" /\ rb \in {"nil", "open"}
    /\ sig = "closing" => once = "running" /\ rb = "closing"
    /\ sig = "done" => once = "done" /\ rb = "closed"
    /\ main \in Ending => sig \in {"closing", "done"}
    /\ main \in {"closeObjs", "exited"} => sig = "done" /\ hook = FALSE

Typed == TypeOK /\ WorkKnown /\ Ordered

LEMMA InitTyped == Init => Typed
<1> SUFFICES ASSUME Init PROVE Typed
  OBVIOUS
<1>1. ProbeTypeOK
  <2>1. Idle \in [at : {"idle", "reserve", "submit", "load", "store"},
                  id : Nat, kind : Kinds, lost : Nat]
        /\ Idle.at = "idle"
    BY DEF Idle, Kinds, KindUnknown
  <2>2. /\ devices = EmptyMap /\ ioctls = EmptyMap /\ hook = FALSE
        /\ events = << >> /\ dropped = [c \in Cpus |-> 0]
        /\ run = [c \in Cpus |-> Idle]
    BY DEF Init, ProbeInit
  <2>3. DOMAIN devices = {} /\ DOMAIN ioctls = {}
    BY <2>2 DEF EmptyMap
  <2>4. events \in Seq(Records)
    BY <2>2
  <2>5. run \in [Cpus -> [at : {"idle", "reserve", "submit", "load", "store"},
                          id : Nat, kind : Kinds, lost : Nat]]
        /\ \A c \in Cpus : run[c].at = "idle"
    BY <2>1, <2>2
  <2> QED
    BY <2>2, <2>3, <2>4, <2>5 DEF ProbeTypeOK
<1>4. HistoryTypeOK
  BY DEF Init, ProbeInit, HistoryTypeOK
<1>2. StartTypeOK /\ ControlTypeOK /\ ReaderTypeOK
  <2>1. DOMAIN deviceMap = {}
    BY DEF Init, EmptyMap
  <2>2. StartTypeOK
    BY <2>1 DEF Init, StartTypeOK
  <2>3. queue \in Seq(Records)
    BY DEF Init
  <2> QED
    BY <2>2, <2>3 DEF Init, ControlTypeOK, ReaderTypeOK
<1>5. Ordered
  BY DEF Init, ProbeInit, Ordered, Starting, Ending
<1>3. WorkerTypeOK /\ MetricsTypeOK /\ WorkKnown
  BY DEF Init, ResolverInit, WorkerTypeOK, MetricsTypeOK, WorkKnown, Lookups,
         EmptyMap, NoEvent
<1> QED
  BY <1>1, <1>2, <1>3, <1>4, <1>5 DEF Typed, TypeOK

LEMMA HistoryTyped ==
    ASSUME Typed, [Next]_vars PROVE HistoryTypeOK'
<1> USE DEF HistoryTypeOK, MoveTo
<1>0. HistoryTypeOK /\ ProbeTypeOK /\ WorkerTypeOK
  BY DEF Typed, TypeOK
<1>1. ASSUME NEW p \in Places, NEW i, MoveTo(i, p), UNCHANGED calls
      PROVE  HistoryTypeOK'
  <2>1. place' = [place EXCEPT ![i] = p]
    BY <1>1
  <2>2. place' \in Seq(Places) /\ Len(place') = Len(place)
    BY <1>0, <2>1, SeqExcept
  <2> QED
    BY <1>0, <1>1, <2>2
<1>2. ASSUME NEW c \in Cpus, NEW q \in Requests, Observe(c, q) \/ Ignore(c, q)
      PROVE  HistoryTypeOK'
  <2>1. PICK p \in Places : place' = Append(place, p)
    BY <1>2 DEF Observe, Ignore, Places, Final
  <2>2. calls' = Append(calls, q)
    BY <1>2 DEF Observe, Ignore
  <2>3. place' \in Seq(Places) /\ Len(place') = Len(place) + 1
    BY <1>0, <2>1, SeqAppend
  <2>4. calls' \in Seq(Requests) /\ Len(calls') = Len(calls) + 1
    BY <1>0, <2>2, SeqAppend
  <2> QED
    BY <1>0, <2>3, <2>4
<1>3. ASSUME NEW c \in Cpus, Reserve(c) \/ StoreLost(c)
      PROVE  HistoryTypeOK'
  BY <1>1, <1>3 DEF Reserve, StoreLost, Places, Final
<1>4. CASE ReadEvent \/ Enqueue \/ EnqueueFull \/ WorkerLogs \/ WorkerCounts
  BY <1>1, <1>4 DEF ReadEvent, Enqueue, EnqueueFull, WorkerLogs, WorkerCounts,
                    Places, Final, dropReasons
<1>5. CASE WorkerRecv
  BY <1>1, <1>5 DEF WorkerRecv, Places, Final, dropReasons
<1>6. CASE WorkerDrops
  <2>1. lookup.ans.err \in Places
    BY <1>0, <1>6 DEF WorkerDrops, WorkerTypeOK, Lookups, NoLookup, Answers,
                      Errors, Places, Final, dropReasons
  <2> QED
    BY <1>1, <1>6, <2>1 DEF WorkerDrops
<1>7. CASE UNCHANGED <<calls, place>>
  BY <1>0, <1>7
<1>8. CASE KernelStep
  BY <1>2, <1>3, <1>7, <1>8
     DEF KernelStep, ReserveFails, LoadLost, Submit
<1> QED
  BY <1>4, <1>5, <1>6, <1>7, <1>8, NextCases
     DEF NewLoader, Discover, Attach, StartServer, CreateReader,
         StartGoroutines, SkipDevice, FillDevice, ReadClosed, SelectDefault,
         WaitWorkers, CloseLoader, CloseObjects, WorkerAnswer, WorkerExit,
         SigReceive,
         SigShutdown, SigCloseReader, SigCloseDone, ServerListen, ServerFail,
         Signal, Killed, vars, probeVars

LEMMA ControlTyped ==
    ASSUME Typed, [Next]_vars PROVE ControlTypeOK'
<1> USE DEF ControlTypeOK
<1>0. ControlTypeOK
  BY DEF Typed, TypeOK
<1>1. CASE UNCHANGED <<loaderVars, signalVars>>
  BY <1>0, <1>1 DEF loaderVars, signalVars
<1>2. CASE NewLoader \/ StartServer \/ CreateReader \/ StartGoroutines
           \/ Killed \/ CloseLoader \/ CloseObjects
  BY <1>0, <1>2 DEF NewLoader, StartServer, CreateReader, StartGoroutines,
                    Killed, CloseLoader, CloseObjects, loaderVars, signalVars
<1>3. CASE ServerListen \/ ServerFail \/ Signal \/ SigReceive \/ SigShutdown
           \/ SigCloseReader \/ SigCloseDone
  BY <1>0, <1>3 DEF ServerListen, ServerFail, Signal, SigReceive, SigShutdown,
                    SigCloseReader, SigCloseDone, loaderVars
<1> QED
  BY <1>1, <1>2, <1>3, NextCases
     DEF Discover, SkipDevice, FillDevice, Attach, ReadEvent, ReadClosed,
         Enqueue, SelectDefault, EnqueueFull, WaitWorkers, WorkerRecv, WorkerAnswer,
         WorkerLogs, WorkerDrops, WorkerCounts, WorkerExit, userVars, vars

LEMMA StartTyped ==
    ASSUME Typed, [Next]_vars PROVE StartTypeOK'
<1> USE DEF StartTypeOK
<1>0. StartTypeOK
  BY DEF Typed, TypeOK
<1>1. ASSUME NEW d \in Devices, FillDevice(d) PROVE StartTypeOK'
  <2>1. VendorOf(d) \in Vendors /\ NodesOf[d] \subseteq Nodes
    BY <1>1, VendorTyped, WorkloadAssumption DEF FillDevice
  <2> QED
    BY <1>0, <1>1, <2>1 DEF FillDevice, PutAll
<1>2. ASSUME NEW d \in Devices, SkipDevice(d) PROVE StartTypeOK'
  BY <1>0, <1>2 DEF SkipDevice
<1>3. CASE UNCHANGED startVars
           /\ main' \in {"load", "discover", "fill", "podmap", "reader",
                         "notify", "read", "enqueue", "full", "wait",
                         "closeLoader", "closeObjs", "exited", "killed"}
  BY <1>0, <1>3 DEF startVars, Dead
<1>4. CASE UNCHANGED <<startVars, main>>
  BY <1>0, <1>4 DEF startVars
<1>5. CASE Discover
  BY <1>0, <1>5 DEF Discover
<1> QED
  BY <1>1, <1>2, <1>3, <1>4, <1>5, NextCases
     DEF NewLoader, Attach, StartServer, CreateReader, StartGoroutines,
         ReadEvent, ReadClosed, Enqueue, SelectDefault, EnqueueFull, WaitWorkers, CloseLoader,
         CloseObjects, WorkerRecv, WorkerAnswer, WorkerLogs, WorkerDrops,
         WorkerCounts, WorkerExit, SigReceive, SigShutdown, SigCloseReader,
         SigCloseDone, ServerListen, ServerFail, Signal, Killed, userVars, vars

LEMMA ReaderTyped ==
    ASSUME Typed, [Next]_vars PROVE ReaderTypeOK'
<1> USE DEF ReaderTypeOK
<1>0. ReaderTypeOK /\ events \in Seq(Records) /\ Alive \in BOOLEAN
  BY DEF Typed, TypeOK, ProbeTypeOK, Alive
<1>1. CASE ReadEvent
  <2>1. Head(events) \in Records
    BY <1>0, <1>1 DEF ReadEvent, ReadRecord
  <2> QED
    BY <1>0, <1>1, <2>1 DEF ReadEvent
<1>2. CASE Enqueue
  <2>1. hand \in Records /\ queue' = Append(queue, hand)
    BY <1>0, <1>2 DEF Enqueue
  <2>2. queue' \in Seq(Records)
    BY <1>0, <2>1, SeqAppend
  <2> QED
    BY <1>0, <1>2, <2>2 DEF Enqueue
<1>3. CASE WorkerRecv
  <2>1. queue' = Tail(queue) /\ queue # << >>
    BY <1>3 DEF WorkerRecv
  <2>2. queue' \in Seq(Records)
    BY <1>0, <2>1
  <2> QED
    BY <1>0, <1>3, <2>2 DEF WorkerRecv
<1>4. CASE UNCHANGED <<hand, queue, closed>> /\ (main' = main \/ main' \notin {"enqueue", "full"})
  BY <1>0, <1>4
<1>5. CASE SelectDefault \/ EnqueueFull \/ ReadClosed
  BY <1>0, <1>5 DEF SelectDefault, EnqueueFull, ReadClosed
<1> QED
  BY <1>1, <1>2, <1>3, <1>4, <1>5, NextCases
     DEF NewLoader, Discover, Attach, StartServer, CreateReader,
         StartGoroutines, SkipDevice, FillDevice, WaitWorkers, CloseLoader,
         CloseObjects, WorkerAnswer, WorkerLogs, WorkerDrops, WorkerCounts,
         WorkerExit, SigReceive, SigShutdown, SigCloseReader, SigCloseDone,
         ServerListen, ServerFail, Signal, Killed, userVars, vars

LEMMA WorkerTyped ==
    ASSUME Typed, [Next]_vars PROVE WorkerTypeOK'
<1> USE DEF WorkerTypeOK
<1>0. WorkerTypeOK /\ Ordered /\ queue \in Seq(Records)
  BY DEF Typed, TypeOK, ReaderTypeOK
<1>1. CASE WorkerRecv
  <2>1. Head(queue) \in Records
    BY <1>0, <1>1 DEF WorkerRecv
  <2>2. CASE Head(queue).node \in DOMAIN deviceMap
    <3>1. Head(queue).cgroup \in Cgroups
      BY <2>1 DEF Records
    <3>2. /\ worker' = "lookup" /\ work' = Head(queue)
          /\ lookup' = [st |-> "busy", cg |-> Head(queue).cgroup]
      BY <1>1, <2>2 DEF WorkerRecv, Begin
    <3> QED
      BY <2>1, <3>1, <3>2 DEF Lookups, NoLookup
  <2>3. CASE Head(queue).node \notin DOMAIN deviceMap
    BY <1>0, <1>1, <2>3 DEF WorkerRecv, workerVars
  <2> QED
    BY <2>2, <2>3
<1>2. CASE WorkerAnswer
  <2>1. lookup \in [st : {"busy"}, cg : Cgroups] /\ work \in Records
    BY <1>0, <1>2 DEF WorkerAnswer, Lookups, NoLookup
  <2>2. PICK a \in Permitted(lookup.cg) :
             lookup' = [st |-> "done", cg |-> lookup.cg, ans |-> a]
    BY <1>2 DEF WorkerAnswer, Finish
  <2>3. a \in Answers
    BY <2>1, <2>2, OwnerAssumption
       DEF Permitted, Answers, Errors, Failure, Success
  <2> QED
    BY <1>0, <1>2, <2>1, <2>2, <2>3 DEF WorkerAnswer, Lookups, NoLookup
<1>3. CASE WorkerLogs \/ WorkerDrops \/ WorkerCounts
  BY <1>3 DEF WorkerLogs, WorkerDrops, WorkerCounts, Release, Lookups
<1>4. CASE WorkerExit \/ StartGoroutines
  BY <1>0, <1>4 DEF WorkerExit, StartGoroutines, Ordered, Starting
<1>5. CASE UNCHANGED workerVars
  BY <1>0, <1>5 DEF workerVars
<1> QED
  BY <1>1, <1>2, <1>3, <1>4, <1>5, NextCases
     DEF NewLoader, Discover, Attach, StartServer, CreateReader, SkipDevice,
         FillDevice, ReadEvent, ReadClosed, Enqueue, SelectDefault, EnqueueFull, WaitWorkers,
         CloseLoader, CloseObjects, SigReceive, SigShutdown, SigCloseReader,
         SigCloseDone, ServerListen, ServerFail, Signal, Killed, userVars, vars

LEMMA OrderedKept ==
    ASSUME Typed, [Next]_vars PROVE Ordered'
<1> USE DEF Ordered
<1>0. Ordered /\ ControlTypeOK /\ StartTypeOK
  BY DEF Typed, TypeOK
<1>1. CASE NewLoader \/ Discover \/ Attach \/ StartServer \/ CreateReader
           \/ StartGoroutines
  BY <1>0, <1>1 DEF NewLoader, Discover, Attach, StartServer, CreateReader,
         StartGoroutines, Starting, Ending, loaderVars, signalVars, workerVars,
         probeVars
<1>2. CASE ReadEvent \/ Enqueue \/ SelectDefault \/ EnqueueFull \/ Killed
  BY <1>0, <1>2 DEF ReadEvent, Enqueue, SelectDefault, EnqueueFull, Killed,
         Alive, Dead,
         Starting, Ending, loaderVars, signalVars, workerVars
<1>3. CASE ReadClosed \/ WaitWorkers \/ CloseLoader \/ CloseObjects
  BY <1>0, <1>3 DEF ReadClosed, WaitWorkers, CloseLoader, CloseObjects,
         Starting, Ending, loaderVars, signalVars, workerVars, probeVars,
         ControlTypeOK
<1>4. CASE SigReceive \/ SigShutdown \/ SigCloseReader \/ SigCloseDone
  BY <1>0, <1>4 DEF SigReceive, SigShutdown, SigCloseReader, SigCloseDone,
         Starting, Ending, loaderVars, workerVars, probeVars, Alive, Dead
<1>5. CASE WorkerRecv \/ WorkerLogs \/ WorkerDrops \/ WorkerCounts
           \/ WorkerAnswer \/ WorkerExit
  BY <1>0, <1>5 DEF WorkerRecv, WorkerLogs, WorkerDrops, WorkerCounts,
         WorkerAnswer, WorkerExit, Starting, loaderVars, signalVars,
         workerVars, probeVars
<1>6. CASE UNCHANGED <<main, hook, rb, once, sig, worker>>
  BY <1>0, <1>6
<1> QED
  BY <1>1, <1>2, <1>3, <1>4, <1>5, <1>6, NextCases
     DEF SkipDevice, FillDevice, ServerListen, ServerFail, Signal, KernelStep,
         Observe, Ignore, Reserve, ReserveFails, LoadLost, StoreLost, Submit,
         userVars, vars, probeVars, loaderVars, signalVars, workerVars

LEMMA WorkKnownKept ==
    ASSUME Typed, [Next]_vars PROVE WorkKnown'
<1> USE DEF WorkKnown
<1>0. WorkKnown /\ Ordered
  BY DEF Typed
<1>1. CASE WorkerRecv
  BY <1>0, <1>1 DEF WorkerRecv, startVars, workerVars
<1>2. CASE WorkerLogs \/ WorkerDrops \/ WorkerCounts \/ WorkerExit
           \/ StartGoroutines
  BY <1>2 DEF WorkerLogs, WorkerDrops, WorkerCounts, WorkerExit,
              StartGoroutines
<1>3. CASE UNCHANGED <<worker, work, deviceMap>>
  BY <1>0, <1>3
<1>4. ASSUME NEW d \in Devices, FillDevice(d) PROVE WorkKnown'
  BY <1>0, <1>4 DEF FillDevice, Ordered, Starting, workerVars
<1> QED
  BY <1>1, <1>2, <1>3, <1>4, NextCases
     DEF NewLoader, Discover, Attach, StartServer, CreateReader, SkipDevice,
         ReadEvent, ReadClosed, Enqueue, SelectDefault, EnqueueFull, WaitWorkers, CloseLoader,
         CloseObjects, WorkerAnswer, SigReceive, SigShutdown, SigCloseReader,
         SigCloseDone, ServerListen, ServerFail, Signal, Killed, userVars,
         vars, startVars, workerVars

LEMMA ProbeTyped ==
    ASSUME Typed, [Next]_vars PROVE ProbeTypeOK'
<1> DEFINE Instances == [at : {"idle", "reserve", "submit", "load", "store"},
                         id : Nat, kind : Kinds, lost : Nat]
           Ran == \A c \in Cpus : run[c].at = "idle" \/ run[c].id \in Ids
           Maps == /\ DOMAIN devices \subseteq Nodes
                   /\ \A n \in DOMAIN devices : devices[n] \in Nat
                   /\ DOMAIN ioctls \subseteq Nat \X Nat
                   /\ \A k \in DOMAIN ioctls : ioctls[k] \in Kinds
<1>0. ProbeTypeOK /\ HistoryTypeOK /\ HistoryTypeOK'
  BY HistoryTyped DEF Typed, TypeOK
<1>1. Maps'
  <2>1. Maps
    BY <1>0 DEF ProbeTypeOK
  <2>2. ASSUME NEW d \in Devices, FillDevice(d) PROVE Maps'
    <3> DEFINE v == VendorOf(d)
               new == [k \in {<<GetVendorID(v), nr>> : nr \in DOMAIN Ioctls(v)}
                         |-> Ioctls(v)[k[2]]]
    <3>1. v \in Vendors /\ NodesOf[d] \subseteq Nodes
      BY <2>2, VendorTyped, WorkloadAssumption DEF FillDevice
    <3>2. GetVendorID(v) \in Nat
      BY <3>1, VendorIDs
    <3>3. devices' = PutAll(devices, [n \in NodesOf[d] |-> GetVendorID(v)])
          /\ ioctls' = PutAll(ioctls, new)
      BY <2>2 DEF FillDevice, AddDevices, AddIoctls
    <3>4. DOMAIN new \subseteq Nat \X Nat /\ \A k \in DOMAIN new : new[k] \in Kinds
      BY <3>1, <3>2, IoctlsTyped
    <3> HIDE DEF v, new
    <3> QED
      BY <2>1, <3>1, <3>2, <3>3, <3>4 DEF PutAll
  <2>3. CASE UNCHANGED <<devices, ioctls>>
    BY <2>1, <2>3
  <2> QED
    BY <2>2, <2>3, NextCases
       DEF NewLoader, Discover, Attach, StartServer, CreateReader,
           StartGoroutines, SkipDevice, ReadEvent, ReadClosed, Enqueue,
           SelectDefault, EnqueueFull, WaitWorkers, CloseLoader, CloseObjects, WorkerRecv,
           WorkerAnswer, WorkerLogs, WorkerDrops, WorkerCounts, WorkerExit,
           SigReceive, SigShutdown, SigCloseReader, SigCloseDone, ServerListen,
           ServerFail, Signal, Killed, KernelStep, Observe, Ignore, Reserve,
           ReserveFails, LoadLost, StoreLost, Submit, vars, probeVars
<1>2. hook' \in BOOLEAN
  BY <1>0, NextCases
     DEF NewLoader, Discover, Attach, StartServer, CreateReader,
         StartGoroutines, SkipDevice, FillDevice, ReadEvent, ReadClosed,
         Enqueue, SelectDefault, EnqueueFull, WaitWorkers, CloseLoader, CloseObjects,
         WorkerRecv, WorkerAnswer, WorkerLogs, WorkerDrops, WorkerCounts,
         WorkerExit, SigReceive, SigShutdown, SigCloseReader, SigCloseDone,
         ServerListen, ServerFail, Signal, Killed, KernelStep, Observe, Ignore,
         Reserve, ReserveFails, LoadLost, StoreLost, Submit, vars, probeVars,
         ProbeTypeOK
<1>3. /\ events' \in Seq(Records)
      /\ dropped' \in [Cpus -> Nat]
      /\ run' \in [Cpus -> Instances]
      /\ Ran'
  <2>0. /\ events \in Seq(Records) /\ dropped \in [Cpus -> Nat]
        /\ run \in [Cpus -> Instances] /\ Ran
    BY <1>0 DEF ProbeTypeOK
  <2>1. Ids \subseteq Ids' /\ Ids \subseteq Nat
    <3>1. CASE UNCHANGED calls
      BY <3>1, <1>0 DEF Ids, HistoryTypeOK
    <3>2. ASSUME NEW q \in Requests, calls' = Append(calls, q)
          PROVE  Ids \subseteq Ids' /\ Ids \subseteq Nat
      BY <3>2, <1>0 DEF Ids, HistoryTypeOK
    <3> QED
      BY <3>1, <3>2, NextCases
         DEF NewLoader, Discover, Attach, StartServer, CreateReader,
             StartGoroutines, SkipDevice, FillDevice, ReadEvent, ReadClosed,
             Enqueue, SelectDefault, EnqueueFull, WaitWorkers, CloseLoader, CloseObjects,
             WorkerRecv, WorkerAnswer, WorkerLogs, WorkerDrops, WorkerCounts,
             WorkerExit, SigReceive, SigShutdown, SigCloseReader, SigCloseDone,
             ServerListen, ServerFail, Signal, Killed, KernelStep, Observe,
             Ignore, Reserve, ReserveFails, LoadLost, StoreLost, Submit, vars,
             probeVars
  <2>2. ASSUME NEW c \in Cpus, NEW q \in Requests, Observe(c, q)
        PROVE  run' \in [Cpus -> Instances] /\ Ran'
    <3> DEFINE k == ioctls[<<devices[q.node], Nr(q.cmd)>>]
    <3>1. k \in Kinds
      BY <1>0, <2>2 DEF Observe, InFilter, ProbeTypeOK
    <3>2. Len(calls) + 1 \in Ids' /\ Len(calls) + 1 \in Nat
      BY <1>0, <2>2 DEF Observe, Ids, HistoryTypeOK
    <3>3. run' = [run EXCEPT ![c] = [at |-> "reserve", id |-> Len(calls) + 1,
                                     kind |-> k, lost |-> 0]]
      BY <2>2 DEF Observe
    <3> HIDE DEF k
    <3> QED
      BY <2>0, <2>1, <3>1, <3>2, <3>3
  <2>3. ASSUME NEW c \in Cpus, Reserve(c)
        PROVE  events' \in Seq(Records) /\ run' \in [Cpus -> Instances] /\ Ran'
    <3> DEFINE i == run[c].id
               e == [busy |-> TRUE, id |-> i, cgroup |-> calls[i].cgroup,
                     node |-> calls[i].node, kind |-> run[c].kind]
    <3>1. i \in Ids /\ i \in Nat /\ run[c].kind \in Kinds
      BY <2>0, <2>3 DEF Reserve
    <3>2. calls[i] \in Requests
      BY <1>0, <3>1 DEF Ids, HistoryTypeOK
    <3>3. e \in Records
      BY <3>1, <3>2, WorkloadAssumption DEF Records
    <3>4. events' = Append(events, e) /\ run' = [run EXCEPT ![c].at = "submit"]
      BY <2>3 DEF Reserve
    <3> HIDE DEF i, e
    <3>5. events' \in Seq(Records)
      BY <2>0, <3>3, <3>4, SeqAppend
    <3> QED
      BY <2>0, <2>1, <2>3, <3>4, <3>5 DEF Reserve
  <2>4. ASSUME NEW c \in Cpus, ReserveFails(c) \/ LoadLost(c)
        PROVE  run' \in [Cpus -> Instances] /\ Ran'
    <3>1. CASE ReserveFails(c)
      BY <2>0, <2>1, <3>1 DEF ReserveFails
    <3>2. CASE LoadLost(c)
      <4>1. run' = [run EXCEPT ![c] = [run[c] EXCEPT !.at = "store",
                                                     !.lost = dropped[c]]]
        BY <2>0, <3>2 DEF LoadLost, LossSlot
      <4>2. run[c] \in Instances /\ run[c].id \in Ids /\ dropped[c] \in Nat
        BY <2>0, <3>2 DEF LoadLost
      <4>3. /\ [run[c] EXCEPT !.at = "store", !.lost = dropped[c]] \in Instances
            /\ [run[c] EXCEPT !.at = "store", !.lost = dropped[c]].id = run[c].id
        BY <4>2
      <4> QED
        BY <2>0, <2>1, <4>1, <4>2, <4>3
    <3> QED
      BY <2>4, <3>1, <3>2
  <2>5. ASSUME NEW c \in Cpus, StoreLost(c) \/ Submit(c)
        PROVE  run' \in [Cpus -> Instances] /\ Ran'
    <3>1. Idle \in Instances /\ Idle.at = "idle"
      BY DEF Idle, Kinds, KindUnknown
    <3> QED
      BY <2>0, <2>1, <2>5, <3>1 DEF StoreLost, Submit
  <2>6. ASSUME NEW c \in Cpus, StoreLost(c) PROVE dropped' \in [Cpus -> Nat]
    BY <2>0, <2>6 DEF StoreLost, LossSlot
  <2>7. ASSUME NEW c \in Cpus, Submit(c) PROVE events' \in Seq(Records)
    <3>1. DOMAIN events = 1 .. Len(events)
          /\ \A k \in 1 .. Len(events) : events[k] \in Records
      BY <2>0
    <3>2. \A r \in Records : [r EXCEPT !.busy = FALSE] \in Records
      BY DEF Records
    <3>3. events' \in [1 .. Len(events) -> Records]
      <4>1. events' = [k \in 1 .. Len(events) |->
                         IF events[k].id = run[c].id
                         THEN [events[k] EXCEPT !.busy = FALSE] ELSE events[k]]
        BY <2>7, <3>1, Zenon DEF Submit
      <4> QED
        BY <3>1, <3>2, <4>1
    <3>4. Len(events) \in Nat
      BY <2>0
    <3> QED
      BY <3>3, <3>4
  <2>8. CASE ReadEvent
    <3>1. events' \in Seq(Records)
      BY <2>0, <2>8 DEF ReadEvent, ReadRecord
    <3> QED
      BY <2>0, <2>1, <2>8, <3>1 DEF ReadEvent
  <2>9. CASE KernelStep
    BY <2>0, <2>1, <2>2, <2>3, <2>4, <2>5, <2>6, <2>7, <2>9
       DEF KernelStep, Observe, Ignore, Reserve, ReserveFails, LoadLost,
           StoreLost, Submit
  <2>10. CASE UNCHANGED <<events, dropped, run>>
    BY <2>0, <2>1, <2>10
  <2> QED
    BY <2>8, <2>9, <2>10, NextCases
       DEF NewLoader, Discover, Attach, StartServer, CreateReader,
           StartGoroutines, SkipDevice, FillDevice, ReadClosed, Enqueue,
           SelectDefault, EnqueueFull, WaitWorkers, CloseLoader, CloseObjects, WorkerRecv,
           WorkerAnswer, WorkerLogs, WorkerDrops, WorkerCounts, WorkerExit,
           SigReceive, SigShutdown, SigCloseReader, SigCloseDone, ServerListen,
           ServerFail, Signal, Killed, vars, probeVars
<1> QED
  BY <1>1, <1>2, <1>3 DEF ProbeTypeOK

LEMMA MetricsTyped ==
    ASSUME Typed, [Next]_vars PROVE MetricsTypeOK'
<1> USE DEF MetricsTypeOK
<1>0. MetricsTypeOK /\ WorkerTypeOK /\ StartTypeOK /\ WorkKnown
  BY DEF Typed, TypeOK
<1>1. ASSUME NEW r \in dropReasons, IncEventsDropped(r) PROVE MetricsTypeOK'
  BY <1>0, <1>1 DEF IncEventsDropped, Increment, Put
<1>2. CASE EnqueueFull
  BY <1>1, <1>2 DEF EnqueueFull, dropReasons
<1>3. CASE WorkerRecv
  BY <1>0, <1>1, <1>3 DEF WorkerRecv, dropReasons, metricsVars
<1>4. CASE WorkerDrops
  <2>1. lookup.ans.err \in dropReasons
    BY <1>0, <1>4 DEF WorkerDrops, WorkerTypeOK, Lookups, NoLookup, Answers,
                      Errors, dropReasons
  <2> QED
    BY <1>1, <1>4, <2>1 DEF WorkerDrops
<1>5. CASE WorkerCounts
  <2> DEFINE k == EventKey(work, lookup.ans.info)
  <2>1. lookup.ans.info \in Infos
    BY <1>0, <1>5 DEF WorkerCounts, WorkerTypeOK, Lookups, NoLookup, Answers,
                      Errors
  <2>2. deviceMap[work.node] \in [device : Devices, vendor : Vendors]
    BY <1>0, <1>5 DEF WorkerCounts, WorkKnown, StartTypeOK
  <2>3. k \in Keys
    BY <2>1, <2>2, KindNamed DEF EventKey, Keys
  <2>4. ioctlTotal' = Increment(ioctlTotal, k) /\ eventsDropped' = eventsDropped
    BY <1>5 DEF WorkerCounts, IncIoctl
  <2> HIDE DEF k
  <2> QED
    BY <1>0, <2>3, <2>4 DEF Increment, Put
<1>6. CASE UNCHANGED metricsVars
  BY <1>0, <1>6 DEF metricsVars
<1> QED
  BY <1>2, <1>3, <1>4, <1>5, <1>6, NextCases
     DEF NewLoader, Discover, Attach, StartServer, CreateReader,
         StartGoroutines, SkipDevice, FillDevice, ReadEvent, ReadClosed,
         Enqueue, SelectDefault, WaitWorkers, CloseLoader, CloseObjects, WorkerAnswer,
         WorkerLogs, WorkerExit, SigReceive, SigShutdown, SigCloseReader,
         SigCloseDone, ServerListen, ServerFail, Signal, Killed, userVars, vars

LEMMA TypedKept == Typed /\ [Next]_vars => Typed'
  BY ProbeTyped, HistoryTyped, StartTyped, ControlTyped, ReaderTyped,
     WorkerTyped, MetricsTyped, OrderedKept, WorkKnownKept DEF Typed, TypeOK

LEMMA TypedInvariant == Spec => []Typed
  BY InitTyped, TypedKept, PTL DEF Spec

\* The variables keep the types of the C and Go programs, and the counters the
\* known labels, however many CPUs, devices and calls there are
\* (bpf/drm_common.bpf.c:45-86, cmd/agent/main.go:86-268).
THEOREM AgentTypes == Spec => []TypeOK
  BY TypedInvariant, PTL DEF Typed

\* bpfObjects.Close starts only when the reader is unmapped, the signal
\* goroutine is through CloseReader and the program is detached: sync.Once makes
\* the second caller wait for the first (pkg/loader/loader.go:158-193).
THEOREM ObjectsOutliveReaderHolds == Spec => []ObjectsOutliveReader
<1>1. Typed => ObjectsOutliveReader
  BY DEF Typed, Ordered, ObjectsOutliveReader
<1> QED
  BY <1>1, TypedInvariant, PTL

-----------------------------------------------------------------------------
(* The maps in the kernel and deviceMap say the same thing, and the truth. *)

MapsTrue ==
    /\ DOMAIN devices = DOMAIN deviceMap
    /\ \A n \in DOMAIN deviceMap : \E d \in Devices :
           /\ n \in NodesOf[d] /\ VendorOf(d) # NoVendor
           /\ deviceMap[n] = [device |-> d, vendor |-> VendorOf(d)]
           /\ devices[n] = GetVendorID(VendorOf(d))
    /\ \A v \in Vendors : \A nr \in Nat :
           <<GetVendorID(v), nr>> \in DOMAIN ioctls =>
               /\ nr \in DOMAIN Ioctls(v)
               /\ ioctls[<<GetVendorID(v), nr>>] = Ioctls(v)[nr]

LEMMA DeviceOfNode ==
    ASSUME NEW d \in Devices, NEW n \in NodesOf[d] PROVE DeviceOf(n) = d
<1>1. DeviceOf(n) \in Devices /\ n \in NodesOf[DeviceOf(n)]
  BY DEF DeviceOf
<1> QED
  BY <1>1, WorkloadAssumption

\* A call that passes the filter is one that should be counted, and the kind
\* the program finds is its kind.
LEMMA FilterTrue ==
    ASSUME MapsTrue, NEW q \in Requests, InFilter(q)
    PROVE  /\ q.node \in DOMAIN deviceMap
           /\ Supported(q)
           /\ ioctls[<<devices[q.node], Nr(q.cmd)>>] =
                Ioctls(VendorOf(DeviceOf(q.node)))[Nr(q.cmd)]
<1>1. q.node \in DOMAIN deviceMap
  BY DEF InFilter, MapsTrue
<1>2. PICK d \in Devices : /\ q.node \in NodesOf[d] /\ VendorOf(d) # NoVendor
                           /\ devices[q.node] = GetVendorID(VendorOf(d))
  BY <1>1 DEF MapsTrue
<1>3. DeviceOf(q.node) = d /\ VendorOf(d) \in Vendors /\ Nr(q.cmd) \in Nat
  BY <1>2, DeviceOfNode, VendorTyped, NrTyped
<1>4. <<GetVendorID(VendorOf(d)), Nr(q.cmd)>> \in DOMAIN ioctls
  BY <1>2 DEF InFilter
<1>5. /\ Nr(q.cmd) \in DOMAIN Ioctls(VendorOf(d))
      /\ ioctls[<<GetVendorID(VendorOf(d)), Nr(q.cmd)>>]
           = Ioctls(VendorOf(d))[Nr(q.cmd)]
  BY <1>3, <1>4 DEF MapsTrue
<1> QED
  BY <1>1, <1>2, <1>3, <1>5 DEF Supported, SupportedOn

LEMMA MapsTrueKept ==
    ASSUME MapsTrue, [Next]_vars PROVE MapsTrue'
<1>1. ASSUME NEW d \in Devices, FillDevice(d) PROVE MapsTrue'
  <2> DEFINE v == VendorOf(d)
             table == [k \in {<<GetVendorID(v), nr>> : nr \in DOMAIN Ioctls(v)}
                         |-> Ioctls(v)[k[2]]]
  <2>1. /\ deviceMap' = PutAll(deviceMap, [n \in NodesOf[d] |->
                                  [device |-> d, vendor |-> v]])
        /\ devices' = PutAll(devices, [n \in NodesOf[d] |-> GetVendorID(v)])
        /\ ioctls' = PutAll(ioctls, table)
        /\ v # NoVendor /\ v \in Vendors
    BY <1>1, VendorTyped DEF FillDevice, AddDevices, AddIoctls
  <2>2. DOMAIN devices' = DOMAIN deviceMap'
    BY <2>1 DEF PutAll, MapsTrue
  <2>3. ASSUME NEW n \in DOMAIN deviceMap'
        PROVE  \E e \in Devices :
                  /\ n \in NodesOf[e] /\ VendorOf(e) # NoVendor
                  /\ deviceMap'[n] = [device |-> e, vendor |-> VendorOf(e)]
                  /\ devices'[n] = GetVendorID(VendorOf(e))
    <3>1. CASE n \in NodesOf[d]
      <4>1. /\ deviceMap'[n] = [device |-> d, vendor |-> v]
            /\ devices'[n] = GetVendorID(v)
        BY <2>1, <3>1 DEF PutAll
      <4> QED
        BY <2>1, <3>1, <4>1
    <3>2. CASE n \notin NodesOf[d]
      <4>1. /\ n \in DOMAIN deviceMap /\ deviceMap'[n] = deviceMap[n]
            /\ devices'[n] = devices[n]
        BY <2>1, <2>3, <3>2 DEF PutAll, MapsTrue
      <4> QED
        BY <4>1 DEF MapsTrue
    <3> QED
      BY <3>1, <3>2
  <2>4. ASSUME NEW w \in Vendors, NEW nr \in Nat,
               <<GetVendorID(w), nr>> \in DOMAIN ioctls'
        PROVE  /\ nr \in DOMAIN Ioctls(w)
               /\ ioctls'[<<GetVendorID(w), nr>>] = Ioctls(w)[nr]
    <3> DEFINE k == <<GetVendorID(w), nr>>
    <3>1. CASE k \in DOMAIN table
      <4>1. PICK m \in DOMAIN Ioctls(v) : k = <<GetVendorID(v), m>>
        BY <3>1
      <4>2. m = nr /\ v = w
        BY <2>1, <4>1, VendorIDs
      <4>3. table[k] = Ioctls(v)[k[2]] /\ ioctls'[k] = table[k]
        BY <2>1, <3>1 DEF PutAll
      <4> QED
        BY <4>1, <4>2, <4>3
    <3>2. CASE k \notin DOMAIN table
      <4>1. k \in DOMAIN ioctls /\ ioctls'[k] = ioctls[k]
        BY <2>1, <2>4, <3>2 DEF PutAll
      <4> QED
        BY <4>1 DEF MapsTrue
    <3> QED
      BY <3>1, <3>2
  <2> QED
    BY <2>2, <2>3, <2>4 DEF MapsTrue
<1>2. CASE UNCHANGED <<devices, ioctls, deviceMap>>
  BY <1>2 DEF MapsTrue
<1> QED
  BY <1>1, <1>2, NextCases
     DEF NewLoader, Discover, Attach, StartServer, CreateReader,
         StartGoroutines, SkipDevice, ReadEvent, ReadClosed, Enqueue,
         SelectDefault, EnqueueFull, WaitWorkers, CloseLoader, CloseObjects, WorkerRecv,
         WorkerAnswer, WorkerLogs, WorkerDrops, WorkerCounts, WorkerExit,
         SigReceive, SigShutdown, SigCloseReader, SigCloseDone, ServerListen,
         ServerFail, Signal, Killed, KernelStep, Observe, Ignore, Reserve,
         ReserveFails, LoadLost, StoreLost, Submit, userVars, vars, probeVars,
         startVars

-----------------------------------------------------------------------------
(* What every stage of the pipeline carries agrees with the call it stands  *)
(* for.                                                                     *)

\* Call i should be counted, its device is in deviceMap and k is its kind.
Fits(i, k) ==
    /\ i \in Ids
    /\ calls[i].node \in DOMAIN deviceMap
    /\ Supported(calls[i])
    /\ k = Ioctls(VendorOf(DeviceOf(calls[i].node)))[Nr(calls[i].cmd)]

Faithful(e) ==
    /\ Fits(e.id, e.kind)
    /\ e.cgroup = calls[e.id].cgroup
    /\ e.node = calls[e.id].node

RunFits    == \A c \in Cpus : run[c].at # "idle" => Fits(run[c].id, run[c].kind)
RingFits   == \A k \in 1 .. Len(events) : Faithful(events[k])
HandFits   == main \in {"enqueue", "full"} => Faithful(hand)
QueueFits  == \A k \in 1 .. Len(queue) : Faithful(queue[k])
WorkerFits ==
    worker = "lookup" =>
        /\ Faithful(work)
        /\ lookup.cg = work.cgroup
        /\ lookup.st = "done" => lookup.ans \in Permitted(lookup.cg)

Carried == RunFits /\ RingFits /\ HandFits /\ QueueFits /\ WorkerFits

\* The history and deviceMap only grow.
LEMMA Grows ==
    ASSUME Typed, [Next]_vars
    PROVE  /\ \A i \in Ids : i \in Ids' /\ calls'[i] = calls[i]
           /\ DOMAIN deviceMap \subseteq DOMAIN deviceMap'
<1>0. calls \in Seq(Requests)
  BY DEF Typed, TypeOK, HistoryTypeOK
<1>1. ASSUME NEW q \in Requests, calls' = Append(calls, q)
      PROVE  \A i \in Ids : i \in Ids' /\ calls'[i] = calls[i]
  BY <1>0, <1>1 DEF Ids
<1>2. CASE KernelStep /\ UNCHANGED userVars
  <2>1. DOMAIN deviceMap \subseteq DOMAIN deviceMap'
    BY <1>2 DEF userVars, startVars
  <2>2. \A i \in Ids : i \in Ids' /\ calls'[i] = calls[i]
    BY <1>1, <1>2 DEF KernelStep, Observe, Ignore, Reserve, ReserveFails,
                      LoadLost, StoreLost, Submit, Ids
  <2> QED
    BY <2>1, <2>2
<1>3. ASSUME NEW d \in Devices, FillDevice(d)
      PROVE  UNCHANGED calls /\ DOMAIN deviceMap \subseteq DOMAIN deviceMap'
  BY <1>3 DEF FillDevice, PutAll
<1>4. CASE UNCHANGED calls /\ DOMAIN deviceMap \subseteq DOMAIN deviceMap'
  BY <1>4 DEF Ids
<1> QED
  BY <1>2, <1>3, <1>4, NextCases
     DEF NewLoader, Discover, Attach, StartServer, CreateReader,
         StartGoroutines, SkipDevice, ReadEvent, ReadClosed, Enqueue,
         SelectDefault, EnqueueFull, WaitWorkers, CloseLoader, CloseObjects, WorkerRecv,
         WorkerAnswer, WorkerLogs, WorkerDrops, WorkerCounts, WorkerExit,
         SigReceive, SigShutdown, SigCloseReader, SigCloseDone, ServerListen,
         ServerFail, Signal, Killed, vars, probeVars, startVars

LEMMA FitsKept ==
    ASSUME Typed, [Next]_vars, NEW i, NEW k, Fits(i, k)
    PROVE  Fits(i, k)'
  BY Grows DEF Fits

LEMMA FaithfulKept ==
    ASSUME Typed, [Next]_vars, NEW e, Faithful(e)
    PROVE  Faithful(e)'
  BY Grows, FitsKept DEF Faithful, Fits

\* What a step of the program on c does to the instances.
LEMMA ProgramStep ==
    ASSUME Typed, NEW c \in Cpus,
           Reserve(c) \/ ReserveFails(c) \/ LoadLost(c) \/ StoreLost(c)
           \/ Submit(c)
    PROVE  /\ \A d \in Cpus \ {c} : run'[d] = run[d]
           /\ run[c].at # "idle"
           /\ \/ run'[c].at = "idle"
              \/ run'[c].id = run[c].id /\ run'[c].kind = run[c].kind
           /\ Reserve(c) => run'[c].at = "submit"
           /\ StoreLost(c) \/ Submit(c) => run'[c].at = "idle"
           /\ ReserveFails(c) \/ LoadLost(c) =>
                  run[c].at \in {"reserve", "load"}
<1>0. run \in [Cpus -> [at : {"idle", "reserve", "submit", "load", "store"},
                        id : Nat, kind : Kinds, lost : Nat]]
  BY DEF Typed, TypeOK, ProbeTypeOK
<1>1. CASE Reserve(c)
  BY <1>0, <1>1 DEF Reserve, StoreLost, Submit, ReserveFails, LoadLost
<1>2. CASE ReserveFails(c)
  BY <1>0, <1>2 DEF Reserve, StoreLost, Submit, ReserveFails, LoadLost
<1>3. CASE LoadLost(c)
  <2>1. run' = [run EXCEPT ![c] = [run[c] EXCEPT !.at = "store",
                                                 !.lost = dropped[c]]]
    BY <1>0, <1>3 DEF LoadLost, LossSlot
  <2>2. run[c].at = "load" /\ ~Reserve(c) /\ ~StoreLost(c) /\ ~Submit(c)
    BY <1>3 DEF LoadLost, Reserve, StoreLost, Submit
  <2>3. run'[c] = [run[c] EXCEPT !.at = "store", !.lost = dropped[c]]
    BY <1>0, <2>1
  <2>4. run'[c].id = run[c].id /\ run'[c].kind = run[c].kind
    BY <1>0, <2>3
  <2> QED
    BY <1>0, <2>1, <2>2, <2>4
<1>4. CASE StoreLost(c) \/ Submit(c)
  <2>1. run' = [run EXCEPT ![c] = Idle] /\ run[c].at \in {"store", "submit"}
    BY <1>4 DEF StoreLost, Submit
  <2>2. ~Reserve(c) /\ ~ReserveFails(c) /\ ~LoadLost(c)
    BY <2>1 DEF Reserve, ReserveFails, LoadLost
  <2> QED
    BY <1>0, <2>1, <2>2 DEF Idle
<1> QED
  BY <1>1, <1>2, <1>3, <1>4

LEMMA CarriedKept ==
    ASSUME Typed, MapsTrue, Carried, [Next]_vars PROVE Carried'
<1>0. /\ ProbeTypeOK /\ HistoryTypeOK /\ ReaderTypeOK /\ WorkerTypeOK
      /\ HistoryTypeOK' /\ ReaderTypeOK' /\ ProbeTypeOK'
      /\ RunFits /\ RingFits /\ HandFits /\ QueueFits /\ WorkerFits
  BY HistoryTyped, ReaderTyped, ProbeTyped DEF Carried, Typed, TypeOK
<1>1. RunFits'
  <2>2. ASSUME NEW c \in Cpus, NEW q \in Requests, Observe(c, q) PROVE RunFits'
    <3> DEFINE i == Len(calls) + 1
               k == ioctls[<<devices[q.node], Nr(q.cmd)>>]
    <3>1. i \in Ids' /\ calls'[i] = q
      BY <1>0, <2>2 DEF Observe, Ids, HistoryTypeOK
    <3>2. /\ q.node \in DOMAIN deviceMap' /\ Supported(q)
          /\ k = Ioctls(VendorOf(DeviceOf(q.node)))[Nr(q.cmd)]
      BY <2>2, FilterTrue, Grows DEF Observe
    <3>3. ASSUME NEW d \in Cpus, run'[d].at # "idle"
          PROVE  Fits(run[d].id, run[d].kind)'
      <4>1. CASE d = c
        <5>1. run'[d].id = i /\ run'[d].kind = k
          BY <1>0, <2>2, <4>1 DEF Observe, ProbeTypeOK
        <5> QED
          BY <3>1, <3>2, <5>1 DEF Fits
      <4>2. CASE d # c
        <5>1. run'[d] = run[d]
          BY <1>0, <2>2, <4>2 DEF Observe, ProbeTypeOK
        <5> QED
          BY <1>0, <3>3, <5>1, FitsKept DEF RunFits
      <4> QED
        BY <4>1, <4>2
    <3> QED
      BY <3>3 DEF RunFits
  <2>3. ASSUME NEW c \in Cpus,
               Reserve(c) \/ ReserveFails(c) \/ LoadLost(c) \/ StoreLost(c)
               \/ Submit(c)
        PROVE  RunFits'
    <3>1. ASSUME NEW d \in Cpus, run'[d].at # "idle"
          PROVE  /\ run[d].at # "idle" /\ run'[d].id = run[d].id
                 /\ run'[d].kind = run[d].kind
      BY <2>3, <3>1, ProgramStep
    <3>2. ASSUME NEW d \in Cpus, run'[d].at # "idle"
          PROVE  Fits(run[d].id, run[d].kind)'
      BY <1>0, <3>1, <3>2, FitsKept DEF RunFits
    <3> QED
      BY <3>2 DEF RunFits
  <2>4. CASE UNCHANGED run
    BY <1>0, <2>4, FitsKept DEF RunFits
  <2>5. CASE KernelStep
    BY <2>2, <2>3, <2>4, <2>5 DEF KernelStep, Ignore
  <2> QED
    BY <2>4, <2>5, NextCases
       DEF NewLoader, Discover, Attach, StartServer, CreateReader,
           StartGoroutines, SkipDevice, FillDevice, ReadEvent, ReadClosed,
           Enqueue, SelectDefault, EnqueueFull, WaitWorkers, CloseLoader, CloseObjects,
           WorkerRecv, WorkerAnswer, WorkerLogs, WorkerDrops, WorkerCounts,
           WorkerExit, SigReceive, SigShutdown, SigCloseReader, SigCloseDone,
           ServerListen, ServerFail, Signal, Killed, vars, probeVars
<1>2. RingFits'
  <2>1. ASSUME NEW c \in Cpus, Reserve(c) PROVE RingFits'
    <3> DEFINE i == run[c].id
               e == [busy |-> TRUE, id |-> i, cgroup |-> calls[i].cgroup,
                     node |-> calls[i].node, kind |-> run[c].kind]
    <3>1. Fits(i, run[c].kind)
      BY <1>0, <2>1 DEF RunFits, Reserve
    <3>2. Faithful(e)
      BY <3>1 DEF Faithful
    <3>3. events' = Append(events, e)
      BY <2>1 DEF Reserve
    <3> HIDE DEF i, e
    <3>4. \A k \in 1 .. Len(events') : Faithful(events'[k])
      BY <1>0, <3>2, <3>3 DEF ProbeTypeOK, RingFits
    <3> QED
      BY <3>4, FaithfulKept DEF RingFits
  <2>2. ASSUME NEW c \in Cpus, Submit(c) PROVE RingFits'
    <3>1. Len(events') = Len(events)
      BY <1>0, <2>2 DEF Submit, ProbeTypeOK
    <3>2. ASSUME NEW k \in 1 .. Len(events) PROVE Faithful(events'[k])
      <4>1. events[k] \in Records /\ k \in DOMAIN events
        BY <1>0 DEF ProbeTypeOK
      <4>2. events'[k] = events[k]
            \/ events'[k] = [events[k] EXCEPT !.busy = FALSE]
        BY <2>2, <4>1 DEF Submit
      <4>3. /\ events'[k].id = events[k].id /\ events'[k].kind = events[k].kind
            /\ events'[k].cgroup = events[k].cgroup
            /\ events'[k].node = events[k].node
        BY <4>1, <4>2 DEF Records
      <4> QED
        BY <1>0, <4>3 DEF RingFits, Faithful
    <3> QED
      BY <3>1, <3>2, FaithfulKept DEF RingFits
  <2>3. CASE ReadEvent
    <3>1. events' = Tail(events) /\ events # << >>
      BY <2>3 DEF ReadEvent, ReadRecord
    <3>2. \A k \in 1 .. Len(events') : Faithful(events'[k])
      BY <1>0, <3>1 DEF ProbeTypeOK, RingFits
    <3> QED
      BY <3>2, FaithfulKept DEF RingFits
  <2>4. CASE UNCHANGED events
    BY <1>0, <2>4, FaithfulKept DEF RingFits
  <2>5. CASE KernelStep
    BY <2>1, <2>2, <2>4, <2>5
       DEF KernelStep, Observe, Ignore, ReserveFails, LoadLost, StoreLost
  <2> QED
    BY <2>3, <2>4, <2>5, NextCases
       DEF NewLoader, Discover, Attach, StartServer, CreateReader,
           StartGoroutines, SkipDevice, FillDevice, ReadClosed,
           Enqueue, SelectDefault, EnqueueFull, WaitWorkers, CloseLoader, CloseObjects,
           WorkerRecv, WorkerAnswer, WorkerLogs, WorkerDrops, WorkerCounts,
           WorkerExit, SigReceive, SigShutdown, SigCloseReader, SigCloseDone,
           ServerListen, ServerFail, Signal, Killed, vars, probeVars
<1>3. HandFits'
  <2>1. CASE ReadEvent
    <3>1. hand' = Head(events) /\ events # << >>
      BY <2>1 DEF ReadEvent, ReadRecord
    <3>2. Faithful(hand')
      <4>1. hand' = events[1] /\ 1 \in 1 .. Len(events)
        BY <1>0, <3>1 DEF ProbeTypeOK
      <4> QED
        BY <1>0, <4>1 DEF RingFits
    <3> QED
      BY <3>2, FaithfulKept DEF HandFits
  <2>2. CASE main' \notin {"enqueue", "full"}
    BY <2>2 DEF HandFits
  <2>3. CASE UNCHANGED <<main, hand>> \/ SelectDefault
    BY <1>0, <2>3, FaithfulKept DEF HandFits, SelectDefault
  <2> QED
    BY <2>1, <2>2, <2>3, NextCases
       DEF NewLoader, Discover, Attach, StartServer, CreateReader,
           StartGoroutines, SkipDevice, FillDevice, ReadClosed,
           Enqueue, SelectDefault, EnqueueFull, WaitWorkers, CloseLoader, CloseObjects,
           WorkerRecv, WorkerAnswer, WorkerLogs, WorkerDrops, WorkerCounts,
           WorkerExit, SigReceive, SigShutdown, SigCloseReader, SigCloseDone,
           ServerListen, ServerFail, Signal, Killed, vars, userVars
<1>4. QueueFits'
  <2>1. CASE Enqueue
    <3>1. queue' = Append(queue, hand) /\ Faithful(hand)
      BY <1>0, <2>1 DEF Enqueue, HandFits
    <3>2. \A k \in 1 .. Len(queue') : Faithful(queue'[k])
      BY <1>0, <3>1 DEF ReaderTypeOK, QueueFits
    <3> QED
      BY <3>2, FaithfulKept DEF QueueFits
  <2>2. CASE WorkerRecv
    <3>1. queue' = Tail(queue) /\ queue # << >>
      BY <2>2 DEF WorkerRecv
    <3>2. \A k \in 1 .. Len(queue') : Faithful(queue'[k])
      BY <1>0, <3>1 DEF ReaderTypeOK, QueueFits
    <3> QED
      BY <3>2, FaithfulKept DEF QueueFits
  <2>3. CASE UNCHANGED queue
    BY <1>0, <2>3, FaithfulKept DEF QueueFits
  <2> QED
    BY <2>1, <2>2, <2>3, NextCases
       DEF NewLoader, Discover, Attach, StartServer, CreateReader,
           StartGoroutines, SkipDevice, FillDevice, ReadEvent, ReadClosed,
           SelectDefault, EnqueueFull, WaitWorkers, CloseLoader, CloseObjects,
           WorkerAnswer, WorkerLogs, WorkerDrops, WorkerCounts,
           WorkerExit, SigReceive, SigShutdown, SigCloseReader, SigCloseDone,
           ServerListen, ServerFail, Signal, Killed, vars, userVars
<1>5. WorkerFits'
  <2>1. CASE WorkerRecv
    <3>1. CASE Head(queue).node \in DOMAIN deviceMap
      <4>1. /\ work' = Head(queue)
            /\ lookup' = [st |-> "busy", cg |-> Head(queue).cgroup]
        BY <2>1, <3>1 DEF WorkerRecv, Begin
      <4>2. Faithful(work')
        BY <1>0, <2>1, <4>1 DEF WorkerRecv, ReaderTypeOK, QueueFits
      <4> QED
        BY <4>1, <4>2, FaithfulKept DEF WorkerFits
    <3>2. CASE Head(queue).node \notin DOMAIN deviceMap
      BY <1>0, <2>1, <3>2, FaithfulKept DEF WorkerRecv, workerVars, WorkerFits
    <3> QED
      BY <3>1, <3>2
  <2>2. CASE WorkerAnswer
    <3>1. PICK a \in Permitted(lookup.cg) :
               lookup' = [st |-> "done", cg |-> lookup.cg, ans |-> a]
      BY <2>2 DEF WorkerAnswer, Finish
    <3>2. work' = work /\ Faithful(work) /\ lookup.cg = work.cgroup
      BY <1>0, <2>2 DEF WorkerAnswer, WorkerFits
    <3>3. Faithful(work)'
      BY <3>2, FaithfulKept
    <3> QED
      BY <3>1, <3>2, <3>3 DEF WorkerFits
  <2>3. CASE worker' # "lookup"
    BY <2>3 DEF WorkerFits
  <2>4. CASE UNCHANGED workerVars
    BY <1>0, <2>4, FaithfulKept DEF WorkerFits, workerVars
  <2> QED
    BY <2>1, <2>2, <2>3, <2>4, NextCases
       DEF NewLoader, Discover, Attach, StartServer, CreateReader,
           StartGoroutines, SkipDevice, FillDevice, ReadEvent, ReadClosed,
           Enqueue, SelectDefault, EnqueueFull, WaitWorkers, CloseLoader, CloseObjects,
           WorkerLogs, WorkerDrops, WorkerCounts, WorkerExit, SigReceive,
           SigShutdown, SigCloseReader, SigCloseDone, ServerListen, ServerFail,
           Signal, Killed, vars, userVars
<1> QED
  BY <1>1, <1>2, <1>3, <1>4, <1>5 DEF Carried

LEMMA CarriedInvariant == Spec => [](Typed /\ MapsTrue /\ Carried)
<1>1. Init => Typed /\ MapsTrue /\ Carried
  <2> SUFFICES ASSUME Init PROVE MapsTrue /\ Carried
    BY InitTyped
  <2>1. DOMAIN devices = {} /\ DOMAIN deviceMap = {} /\ DOMAIN ioctls = {}
    BY DEF Init, ProbeInit, EmptyMap
  <2>2. MapsTrue
    BY <2>1 DEF MapsTrue
  <2>3. RunFits
    BY DEF Init, ProbeInit, RunFits, Idle
  <2>4. RingFits /\ HandFits /\ QueueFits /\ WorkerFits
    BY DEF Init, ProbeInit, RingFits, HandFits, QueueFits, WorkerFits
  <2> QED
    BY <2>2, <2>3, <2>4 DEF Carried
<1>2. Typed /\ MapsTrue /\ Carried /\ [Next]_vars => (MapsTrue /\ Carried)'
  BY MapsTrueKept, CarriedKept
<1> QED
  BY <1>1, <1>2, TypedInvariant, PTL DEF Spec

\* device_unknown is never counted: what passes the filter in the kernel is in
\* deviceMap, because one loop fills both before the program is attached
\* (cmd/agent/main.go:107-120, 204-211).
THEOREM DeviceKnownHolds == Spec => []DeviceKnown
<1>1. Init => DeviceKnown
  BY DEF Init, DeviceKnown, dropReasons
<1>2. ASSUME Typed, MapsTrue, Carried, DeviceKnown, [Next]_vars
      PROVE  DeviceKnown'
  <2>0. eventsDropped \in [dropReasons -> Nat] /\ DeviceKnown
    BY <1>2 DEF Typed, TypeOK, MetricsTypeOK
  <2>1. ASSUME NEW r, r # "device_unknown", IncEventsDropped(r)
        PROVE  DeviceKnown'
    BY <2>0, <2>1 DEF IncEventsDropped, Increment, Put, DeviceKnown, dropReasons
  <2>2. CASE EnqueueFull
    BY <2>1, <2>2 DEF EnqueueFull
  <2>3. CASE WorkerRecv
    <3>1. Head(queue) = queue[1] /\ 1 \in 1 .. Len(queue)
      BY <1>2, <2>3 DEF WorkerRecv, Typed, TypeOK, ReaderTypeOK
    <3>2. Head(queue).node \in DOMAIN deviceMap
      BY <1>2, <3>1 DEF Carried, QueueFits, Faithful, Fits
    <3> QED
      BY <2>0, <2>3, <3>2 DEF WorkerRecv, metricsVars, DeviceKnown
  <2>4. CASE WorkerDrops
    <3>1. lookup.ans.err # "device_unknown"
      BY <1>2, <2>4 DEF WorkerDrops, Typed, TypeOK, WorkerTypeOK, Lookups,
                        NoLookup, Answers, Errors
    <3> QED
      BY <2>1, <2>4, <3>1 DEF WorkerDrops
  <2>5. CASE UNCHANGED eventsDropped
    BY <2>0, <2>5 DEF DeviceKnown
  <2> QED
    BY <1>2, <2>2, <2>3, <2>4, <2>5, NextCases
       DEF NewLoader, Discover, Attach, StartServer, CreateReader,
           StartGoroutines, SkipDevice, FillDevice, ReadEvent, ReadClosed,
           Enqueue, SelectDefault, WaitWorkers, CloseLoader, CloseObjects, WorkerAnswer,
           WorkerLogs, WorkerCounts, IncIoctl, WorkerExit, SigReceive,
           SigShutdown, SigCloseReader, SigCloseDone, ServerListen, ServerFail,
           Signal, Killed, vars, userVars, metricsVars
<1> QED
  BY <1>1, <1>2, CarriedInvariant, PTL DEF Spec

-----------------------------------------------------------------------------
(* Readiness.  The device loop leaves no supported device out, the program  *)
(* is attached after it and detached at the very end, and whoever closes    *)
(* the reader has withdrawn `ready` before.                                 *)

\* The maps have all that the filter needs to know of device d.
Filled(d) ==
    VendorOf(d) # NoVendor =>
        /\ \A n \in NodesOf[d] : /\ n \in DOMAIN devices
                                 /\ devices[n] = GetVendorID(VendorOf(d))
        /\ \A nr \in DOMAIN Ioctls(VendorOf(d)) :
               <<GetVendorID(VendorOf(d)), nr>> \in DOMAIN ioctls

Serving == {"podmap", "reader", "notify", "read", "enqueue", "full", "wait",
            "closeLoader"}

MapsComplete ==
    /\ main = "fill" => \A d \in Devices \ todo : Filled(d)
    /\ main \in Serving => \A d \in Devices : Filled(d)

Gated ==
    /\ hook <=> main \in Serving
    /\ ready => /\ rb = "open" /\ sig \in {"none", "wait"}
                /\ main \notin {"load", "discover", "fill", "podmap", "reader"}
    /\ main \in Dead => server = "closed"

LEMMA MapsCompleteKept ==
    ASSUME MapsComplete, [Next]_vars PROVE MapsComplete'
<1>1. ASSUME NEW d \in Devices, FillDevice(d) PROVE MapsComplete'
  <2> DEFINE v == VendorOf(d)
             table == [k \in {<<GetVendorID(v), nr>> : nr \in DOMAIN Ioctls(v)}
                         |-> Ioctls(v)[k[2]]]
  <2>1. /\ devices' = PutAll(devices, [n \in NodesOf[d] |-> GetVendorID(v)])
        /\ ioctls' = PutAll(ioctls, table)
        /\ todo' = todo \ {d} /\ main = "fill" /\ main' = "fill"
    BY <1>1 DEF FillDevice, AddDevices, AddIoctls
  <2>2. Filled(d)'
    BY <2>1 DEF Filled, PutAll
  <2>3. ASSUME NEW e \in Devices, e # d, Filled(e) PROVE Filled(e)'
    <3>1. ASSUME NEW n \in NodesOf[e], n \in DOMAIN devices
          PROVE  n \in DOMAIN devices' /\ devices'[n] = devices[n]
      BY <2>1, <2>3, <3>1, WorkloadAssumption DEF PutAll
    <3>2. DOMAIN ioctls \subseteq DOMAIN ioctls'
      BY <2>1 DEF PutAll
    <3> QED
      BY <2>3, <3>1, <3>2 DEF Filled
  <2> HIDE DEF v, table
  <2> QED
    BY <2>1, <2>2, <2>3 DEF MapsComplete, Serving
<1>2. ASSUME NEW d \in Devices, SkipDevice(d) PROVE MapsComplete'
  BY <1>2 DEF SkipDevice, MapsComplete, Filled, Serving, probeVars
<1>3. CASE Discover
  BY <1>3 DEF Discover, MapsComplete, Serving
<1>4. CASE Attach
  BY <1>4 DEF Attach, MapsComplete, Filled, Serving, startVars
<1>5. ASSUME devices' = devices, ioctls' = ioctls, todo' = todo,
             \/ main' = main
             \/ main' \notin Serving /\ main' # "fill"
             \/ main \in Serving /\ main' \in Serving
      PROVE  MapsComplete'
  BY <1>5 DEF MapsComplete, Filled, Serving
<1>6. CASE NewLoader \/ StartServer \/ CreateReader \/ StartGoroutines
           \/ ReadClosed \/ SelectDefault \/ WaitWorkers \/ CloseObjects
  <2>1. UNCHANGED <<devices, ioctls, todo>>
    BY <1>6 DEF NewLoader, StartServer, CreateReader, StartGoroutines,
                ReadClosed, SelectDefault, WaitWorkers, CloseObjects,
                probeVars, startVars
  <2>2. \/ main \in Serving /\ main' \in Serving
        \/ main' \in {"discover", "exited"}
    BY <1>6 DEF NewLoader, StartServer, CreateReader, StartGoroutines,
                ReadClosed, SelectDefault, WaitWorkers, CloseObjects, Serving
  <2> QED
    BY <1>5, <2>1, <2>2 DEF Serving
<1>7. CASE ReadEvent \/ Enqueue \/ EnqueueFull \/ CloseLoader \/ Killed
  <2>1. UNCHANGED <<devices, ioctls, todo>>
    BY <1>7 DEF ReadEvent, Enqueue, EnqueueFull, CloseLoader, Killed, startVars
  <2>2. \/ main \in Serving /\ main' \in Serving
        \/ main' \in {"closeObjs", "killed"}
    BY <1>7 DEF ReadEvent, Enqueue, EnqueueFull, CloseLoader, Killed, Serving
  <2> QED
    BY <1>5, <2>1, <2>2 DEF Serving
<1>8. CASE UNCHANGED <<devices, ioctls, todo, main>>
  BY <1>5, <1>8
<1> QED
  BY <1>1, <1>2, <1>3, <1>4, <1>6, <1>7, <1>8, NextCases
     DEF WorkerRecv, WorkerAnswer, WorkerLogs, WorkerDrops, WorkerCounts,
         WorkerExit, SigReceive, SigShutdown, SigCloseReader, SigCloseDone,
         ServerListen, ServerFail, Signal, KernelStep, Observe, Ignore,
         Reserve, ReserveFails, LoadLost, StoreLost, Submit, userVars, vars,
         probeVars, startVars

LEMMA GatedKept ==
    ASSUME Typed, Gated, [Next]_vars PROVE Gated'
<1> USE DEF Gated, Dead
<1>0. Ordered /\ ControlTypeOK /\ StartTypeOK /\ hook \in BOOLEAN
  BY DEF Typed, TypeOK, ProbeTypeOK
<1>1. CASE NewLoader \/ Discover \/ Attach \/ StartServer \/ CreateReader
           \/ StartGoroutines
  BY <1>0, <1>1 DEF NewLoader, Discover, Attach, StartServer, CreateReader,
         StartGoroutines, Ordered, Starting, Serving, probeVars, loaderVars,
         signalVars
<1>2. CASE ReadEvent \/ ReadClosed \/ Enqueue \/ SelectDefault \/ EnqueueFull
           \/ WaitWorkers
  BY <1>0, <1>2 DEF ReadEvent, ReadClosed, Enqueue, SelectDefault, EnqueueFull,
         WaitWorkers, Serving, probeVars, loaderVars, signalVars
<1>3. CASE CloseLoader \/ CloseObjects \/ Killed
  BY <1>0, <1>3 DEF CloseLoader, CloseObjects, Killed, Ordered, Ending,
         Serving, probeVars, loaderVars, signalVars
<1>4. CASE SigReceive \/ SigShutdown \/ SigCloseReader \/ SigCloseDone
  BY <1>0, <1>4 DEF SigReceive, SigShutdown, SigCloseReader, SigCloseDone,
         Alive, probeVars, loaderVars
<1>5. CASE ServerListen \/ ServerFail \/ Signal
  BY <1>0, <1>5 DEF ServerListen, ServerFail, Signal, Alive, probeVars,
         loaderVars
<1>6. CASE UNCHANGED <<hook, main, loaderVars, signalVars>>
  BY <1>6 DEF loaderVars, signalVars
<1> QED
  BY <1>1, <1>2, <1>3, <1>4, <1>5, <1>6, NextCases
     DEF SkipDevice, FillDevice, WorkerRecv, WorkerAnswer, WorkerLogs,
         WorkerDrops, WorkerCounts, WorkerExit, KernelStep, Observe, Ignore,
         Reserve, ReserveFails, LoadLost, StoreLost, Submit, userVars, vars,
         probeVars

LEMMA GatedInvariant ==
    Spec => [](Typed /\ MapsTrue /\ Carried /\ MapsComplete /\ Gated)
<1>1. Init => MapsComplete /\ Gated
  BY DEF Init, ProbeInit, MapsComplete, Gated, Serving, Dead
<1>2. Typed /\ MapsComplete /\ Gated /\ [Next]_vars => (MapsComplete /\ Gated)'
  BY MapsCompleteKept, GatedKept
<1> QED
  BY <1>1, <1>2, CarriedInvariant, PTL DEF Spec

\* With all devices filled in, the filter lets exactly the supported calls
\* through (bpf/drm_common.bpf.c:48-64).
LEMMA FilterExact ==
    ASSUME MapsTrue, MapsComplete, main \in Serving, NEW q \in Requests
    PROVE  InFilter(q) <=> Supported(q)
<1>1. ASSUME Supported(q) PROVE InFilter(q)
  <2>1. PICK d \in Devices : SupportedOn(q, d)
    BY <1>1 DEF Supported
  <2>2. Filled(d)
    BY DEF MapsComplete
  <2> QED
    BY <2>1, <2>2 DEF SupportedOn, Filled, InFilter
<1> QED
  BY <1>1, FilterTrue

\* /readyz answers 200 only while every call of a supported kind passes the
\* filter, the program is attached and the reader is open, during startup and
\* shutdown too (cmd/agent/main.go:131-173, 182).
THEOREM ReadyMeansCountingHolds == Spec => []ReadyMeansCounting
<1>1. ASSUME Typed, MapsTrue, MapsComplete, Gated PROVE ReadyMeansCounting
  <2> SUFFICES ASSUME server = "up", ready
               PROVE  /\ \A q \in Requests : InFilter(q) <=> Supported(q)
                      /\ hook /\ rb = "open"
    BY DEF ReadyMeansCounting
  <2>1. main \in Serving /\ rb = "open"
    BY <1>1 DEF Gated, Typed, TypeOK, StartTypeOK, Ordered, Serving, Dead
  <2> QED
    BY <1>1, <2>1, FilterExact DEF Gated
<1> QED
  BY <1>1, GatedInvariant, PTL

-----------------------------------------------------------------------------
(* Each call is in one place: no stage holds a record another one holds, or *)
(* holds it twice.                                                          *)

Held == {"reserve", "load", "store"}

RunLocated ==
    \A c \in Cpus : run[c].at \in Held =>
        /\ place[run[c].id] = "program"
        /\ \A d \in Cpus : run[d].at \in Held /\ run[d].id = run[c].id => d = c

RingLocated ==
    \A k \in 1 .. Len(events) :
        /\ place[events[k].id] = "ring"
        /\ \A l \in 1 .. Len(events) : events[l].id = events[k].id => l = k

QueueLocated ==
    \A k \in 1 .. Len(queue) :
        /\ place[queue[k].id] = "queue"
        /\ \A l \in 1 .. Len(queue) : queue[l].id = queue[k].id => l = k

HandLocated == main \in {"enqueue", "full"} => place[hand.id] = "hand"
WorkLocated == worker = "lookup" => place[work.id] = "worker"

Located ==
    RunLocated /\ RingLocated /\ QueueLocated /\ HandLocated /\ WorkLocated

\* Which step moves call j, and where from.
Move(j) ==
    \/ \E c \in Cpus : /\ j = run[c].id /\ place[j] = "program"
                       /\ \/ Reserve(c) /\ place'[j] = "ring"
                          \/ StoreLost(c) /\ place'[j] = "ringbuf_full"
    \/ ReadEvent /\ j = Head(events).id /\ place[j] = "ring"
       /\ place'[j] = "hand"
    \/ Enqueue /\ j = hand.id /\ place[j] = "hand" /\ place'[j] = "queue"
    \/ EnqueueFull /\ j = hand.id /\ place[j] = "hand"
       /\ place'[j] = "queue_full"
    \/ WorkerRecv /\ j = Head(queue).id /\ place[j] = "queue"
       /\ place'[j] \in {"worker", "device_unknown"}
    \/ (WorkerLogs \/ WorkerDrops) /\ j = work.id /\ place[j] = "worker"
       /\ place'[j] \in {"logged", "not_pod", "not_indexed",
                         "container_not_found"}
    \/ WorkerCounts /\ j = work.id /\ place[j] = "worker"
       /\ place'[j] = "counted"

LEMMA Moves ==
    ASSUME Typed, Carried, Located, [Next]_vars, NEW j \in Ids
    PROVE  place'[j] = place[j] \/ Move(j)
<1>0. /\ place \in Seq(Places) /\ calls \in Seq(Requests)
      /\ Len(place) = Len(calls) /\ j \in 1 .. Len(place)
      /\ events \in Seq(Records) /\ queue \in Seq(Records)
  BY DEF Typed, TypeOK, HistoryTypeOK, ProbeTypeOK, ReaderTypeOK, Ids
<1>1. ASSUME NEW i, NEW p, MoveTo(i, p), place'[j] # place[j]
      PROVE  j = i /\ place'[j] = p
  BY <1>0, <1>1 DEF MoveTo
<1>2. ASSUME NEW p, place' = Append(place, p) PROVE place'[j] = place[j]
  BY <1>0, <1>2
<1>3. ASSUME NEW c \in Cpus, Reserve(c) \/ StoreLost(c), place'[j] # place[j]
      PROVE  Move(j)
  <2>1. run[c].at \in Held
    BY <1>3 DEF Reserve, StoreLost, Held
  <2>2. place[run[c].id] = "program"
    BY <2>1 DEF Located, RunLocated
  <2> QED
    BY <1>1, <1>3, <2>2 DEF Move, Reserve, StoreLost
<1>4. ASSUME KernelStep, place'[j] # place[j] PROVE Move(j)
  BY <1>2, <1>3, <1>4 DEF KernelStep, Observe, Ignore, ReserveFails, LoadLost,
                          Submit
<1>5. ASSUME ReadEvent, place'[j] # place[j] PROVE Move(j)
  <2>1. Head(events) = events[1] /\ 1 \in 1 .. Len(events)
    BY <1>0, <1>5 DEF ReadEvent, ReadRecord
  <2>2. place[Head(events).id] = "ring"
    BY <2>1 DEF Located, RingLocated
  <2> QED
    BY <1>1, <1>5, <2>2 DEF Move, ReadEvent
<1>6. ASSUME Enqueue \/ EnqueueFull, place'[j] # place[j] PROVE Move(j)
  BY <1>1, <1>6 DEF Move, Enqueue, EnqueueFull, Located, HandLocated
<1>7. ASSUME WorkerRecv, place'[j] # place[j] PROVE Move(j)
  <2>1. Head(queue) = queue[1] /\ 1 \in 1 .. Len(queue)
    BY <1>0, <1>7 DEF WorkerRecv
  <2>2. place[Head(queue).id] = "queue"
    BY <2>1 DEF Located, QueueLocated
  <2> QED
    BY <1>1, <1>7, <2>2 DEF Move, WorkerRecv
<1>8. ASSUME WorkerLogs \/ WorkerDrops \/ WorkerCounts, place'[j] # place[j]
      PROVE  Move(j)
  <2>1. place[work.id] = "worker"
    BY <1>8 DEF WorkerLogs, WorkerDrops, WorkerCounts, Located, WorkLocated
  <2>2. WorkerDrops => lookup.ans.err \in {"not_pod", "not_indexed",
                                           "container_not_found"}
    BY DEF WorkerDrops, Typed, TypeOK, WorkerTypeOK, Lookups, NoLookup,
           Answers, Errors
  <2> QED
    BY <1>1, <1>8, <2>1, <2>2 DEF Move, WorkerLogs, WorkerDrops, WorkerCounts
<1> QED
  BY <1>4, <1>5, <1>6, <1>7, <1>8, NextCases
     DEF NewLoader, Discover, Attach, StartServer, CreateReader,
         StartGoroutines, SkipDevice, FillDevice, ReadClosed, SelectDefault,
         WaitWorkers, CloseLoader, CloseObjects, WorkerAnswer, WorkerExit,
         SigReceive,
         SigShutdown, SigCloseReader, SigCloseDone, ServerListen, ServerFail,
         Signal, Killed, vars, probeVars

LEMMA LocatedKept ==
    ASSUME Typed, Carried, Located, [Next]_vars PROVE Located'
<1>0. /\ ProbeTypeOK /\ HistoryTypeOK /\ ReaderTypeOK /\ WorkerTypeOK
      /\ RunLocated /\ RingLocated /\ QueueLocated /\ HandLocated /\ WorkLocated
      /\ RunFits /\ RingFits /\ HandFits /\ QueueFits /\ WorkerFits
  BY DEF Located, Carried, Typed, TypeOK
<1>1. \A j \in Ids : place'[j] = place[j] \/ Move(j)
  BY Moves
<1>2. RunLocated'
  <2>0. \A c \in Cpus : run[c].at \in Held => run[c].id \in Ids
    BY <1>0 DEF ProbeTypeOK, Held
  <2>1. ASSUME NEW c \in Cpus, NEW q \in Requests, Observe(c, q)
        PROVE  RunLocated'
    <3> DEFINE i == Len(calls) + 1
    <3>1. /\ run'[c].id = i
          /\ \A d \in Cpus \ {c} : run'[d] = run[d]
      BY <1>0, <2>1 DEF Observe, ProbeTypeOK
    <3>2. i \notin Ids /\ place'[i] = "program"
      BY <1>0, <2>1 DEF Observe, HistoryTypeOK, Ids
    <3>3. \A j \in Ids : place'[j] = place[j]
      BY <1>0, <2>1 DEF Observe, HistoryTypeOK, Ids
    <3> HIDE DEF i
    <3> QED
      BY <1>0, <2>0, <3>1, <3>2, <3>3 DEF RunLocated
  <2>2. ASSUME NEW c \in Cpus,
               Reserve(c) \/ ReserveFails(c) \/ LoadLost(c) \/ StoreLost(c)
               \/ Submit(c),
               UNCHANGED userVars
        PROVE  RunLocated'
    <3>1. ASSUME NEW d \in Cpus, run'[d].at \in Held
          PROVE  run[d].at \in Held /\ run'[d].id = run[d].id
      BY <2>2, <3>1, ProgramStep DEF Held
    <3>2. ASSUME NEW d \in Cpus, run'[d].at \in Held
          PROVE  place'[run[d].id] = "program"
      <4>1. run[d].id \in Ids /\ place[run[d].id] = "program"
            /\ run[d].at \in Held
        BY <1>0, <2>0, <3>1, <3>2 DEF RunLocated
      <4>2. ASSUME NEW e \in Cpus, run[e].id = run[d].id,
                   Reserve(e) \/ StoreLost(e)
            PROVE  FALSE
        <5>1. e = d
          BY <1>0, <4>1, <4>2 DEF RunLocated, Reserve, StoreLost, Held
        <5> QED
          BY <3>2, <4>2, <5>1, ProgramStep DEF Held
      <4> QED
        BY <1>1, <4>1, <4>2 DEF Move
    <3> QED
      BY <1>0, <3>1, <3>2 DEF RunLocated
  <2>3. CASE UNCHANGED run
    <3>1. ASSUME NEW c \in Cpus, run[c].at \in Held
          PROVE  place'[run[c].id] = "program"
      <4>1. run[c].id \in Ids /\ place[run[c].id] = "program"
        BY <1>0, <2>0, <3>1 DEF RunLocated
      <4>2. ASSUME NEW e \in Cpus, Reserve(e) \/ StoreLost(e) PROVE FALSE
        <5>1. run'[e] # run[e]
          BY <1>0, <4>2, ProgramStep DEF Reserve, StoreLost
        <5> QED
          BY <2>3, <5>1
      <4> QED
        BY <1>1, <4>1, <4>2 DEF Move
    <3> QED
      BY <1>0, <2>3, <3>1 DEF RunLocated
  <2>4. CASE KernelStep /\ UNCHANGED userVars
    BY <2>1, <2>2, <2>3, <2>4 DEF KernelStep, Ignore
  <2> QED
    BY <2>3, <2>4, NextCases
       DEF NewLoader, Discover, Attach, StartServer, CreateReader,
           StartGoroutines, SkipDevice, FillDevice, ReadEvent, ReadClosed,
           Enqueue, SelectDefault, EnqueueFull, WaitWorkers, CloseLoader, CloseObjects,
           WorkerRecv, WorkerAnswer, WorkerLogs, WorkerDrops, WorkerCounts,
           WorkerExit, SigReceive, SigShutdown, SigCloseReader, SigCloseDone,
           ServerListen, ServerFail, Signal, Killed, vars, probeVars
<1>3. RingLocated'
  <2>0. /\ \A k \in 1 .. Len(events) : events[k].id \in Ids
        /\ events \in Seq(Records)
    BY <1>0 DEF RingFits, Faithful, Fits, ProbeTypeOK
  <2>1. ASSUME NEW c \in Cpus, Reserve(c) PROVE RingLocated'
    <3> DEFINE i == run[c].id
               e == [busy |-> TRUE, id |-> i, cgroup |-> calls[i].cgroup,
                     node |-> calls[i].node, kind |-> run[c].kind]
    <3>1. i \in Ids /\ place[i] = "program"
      BY <1>0, <2>1 DEF Reserve, ProbeTypeOK, RunLocated, Held
    <3>2. \A j \in Ids : place'[j] = IF j = i THEN "ring" ELSE place[j]
      BY <1>0, <2>1 DEF Reserve, MoveTo, HistoryTypeOK, Ids
    <3>3. events' = Append(events, e) /\ e.id = i
      BY <2>1 DEF Reserve
    <3> HIDE DEF i, e
    <3>4. \A k \in 1 .. Len(events) : events[k].id # i
      BY <1>0, <3>1 DEF RingLocated
    <3>5. /\ Len(events') = Len(events) + 1 /\ events'[Len(events) + 1] = e
          /\ \A k \in 1 .. Len(events) : events'[k] = events[k]
      BY <2>0, <3>3
    <3>6. \A k \in 1 .. Len(events') : k \in 1 .. Len(events) \/ k = Len(events) + 1
      BY <2>0, <3>5
    <3> QED
      BY <1>0, <2>0, <3>1, <3>2, <3>3, <3>4, <3>5, <3>6 DEF RingLocated
  <2>2. ASSUME NEW c \in Cpus, Submit(c) PROVE RingLocated'
    <3>1. /\ Len(events') = Len(events) /\ place' = place
          /\ \A k \in 1 .. Len(events) : events'[k].id = events[k].id
      <4>1. \A k \in 1 .. Len(events) : events[k] \in Records
            /\ k \in DOMAIN events
        BY <2>0
      <4>2. \A k \in 1 .. Len(events) :
               \/ events'[k] = events[k]
               \/ events'[k] = [events[k] EXCEPT !.busy = FALSE]
        BY <2>2, <4>1 DEF Submit
      <4>3. Len(events') = Len(events) /\ place' = place
        BY <2>0, <2>2 DEF Submit
      <4> QED
        BY <4>1, <4>2, <4>3 DEF Records
    <3> QED
      BY <1>0, <3>1 DEF RingLocated
  <2>3. CASE ReadEvent
    <3>1. events' = Tail(events) /\ events # << >> /\ Head(events) = events[1]
      BY <2>0, <2>3 DEF ReadEvent, ReadRecord
    <3>2. /\ 1 \in 1 .. Len(events)
          /\ \A k \in 1 .. Len(events') : /\ k + 1 \in 1 .. Len(events)
                                          /\ k + 1 # 1
                                          /\ events'[k] = events[k + 1]
      BY <2>0, <3>1
    <3>3. \A j \in Ids : j # events[1].id => place'[j] = place[j]
      BY <1>0, <2>3, <3>1 DEF ReadEvent, MoveTo, HistoryTypeOK, Ids
    <3> QED
      BY <1>0, <2>0, <3>2, <3>3 DEF RingLocated
  <2>4. CASE UNCHANGED events
    <3>1. ASSUME NEW k \in 1 .. Len(events) PROVE place'[events[k].id] = "ring"
      <4>1. events[k].id \in Ids /\ place[events[k].id] = "ring" /\ ~ReadEvent
        BY <1>0, <2>0, <2>4 DEF RingLocated, ReadEvent, ReadRecord
      <4> QED
        BY <1>1, <4>1 DEF Move
    <3> QED
      BY <1>0, <2>4, <3>1 DEF RingLocated
  <2>5. CASE KernelStep
    BY <2>1, <2>2, <2>4, <2>5
       DEF KernelStep, Observe, Ignore, ReserveFails, LoadLost, StoreLost
  <2> QED
    BY <2>3, <2>4, <2>5, NextCases
       DEF NewLoader, Discover, Attach, StartServer, CreateReader,
           StartGoroutines, SkipDevice, FillDevice, ReadClosed,
           Enqueue, SelectDefault, EnqueueFull, WaitWorkers, CloseLoader, CloseObjects,
           WorkerRecv, WorkerAnswer, WorkerLogs, WorkerDrops, WorkerCounts,
           WorkerExit, SigReceive, SigShutdown, SigCloseReader, SigCloseDone,
           ServerListen, ServerFail, Signal, Killed, vars, probeVars
<1>4. QueueLocated'
  <2>0. /\ \A k \in 1 .. Len(queue) : queue[k].id \in Ids
        /\ queue \in Seq(Records)
    BY <1>0 DEF QueueFits, Faithful, Fits, ReaderTypeOK
  <2>1. CASE Enqueue
    <3>1. /\ queue' = Append(queue, hand) /\ hand.id \in Ids
          /\ place[hand.id] = "hand"
      BY <1>0, <2>1 DEF Enqueue, HandFits, Faithful, Fits, HandLocated
    <3>2. \A j \in Ids : place'[j] = IF j = hand.id THEN "queue" ELSE place[j]
      BY <1>0, <2>1 DEF Enqueue, MoveTo, HistoryTypeOK, Ids
    <3>3. \A k \in 1 .. Len(queue) : queue[k].id # hand.id
      BY <1>0, <3>1 DEF QueueLocated
    <3>4. /\ Len(queue') = Len(queue) + 1 /\ queue'[Len(queue) + 1] = hand
          /\ \A k \in 1 .. Len(queue) : queue'[k] = queue[k]
      BY <2>0, <3>1
    <3>5. \A k \in 1 .. Len(queue') : k \in 1 .. Len(queue) \/ k = Len(queue) + 1
      BY <2>0, <3>4
    <3> QED
      BY <1>0, <2>0, <3>1, <3>2, <3>3, <3>4, <3>5 DEF QueueLocated
  <2>2. CASE WorkerRecv
    <3>1. queue' = Tail(queue) /\ queue # << >> /\ Head(queue) = queue[1]
      BY <2>0, <2>2 DEF WorkerRecv
    <3>2. /\ 1 \in 1 .. Len(queue)
          /\ \A k \in 1 .. Len(queue') : /\ k + 1 \in 1 .. Len(queue)
                                         /\ k + 1 # 1
                                         /\ queue'[k] = queue[k + 1]
      BY <2>0, <3>1
    <3>3. \A j \in Ids : j # queue[1].id => place'[j] = place[j]
      BY <1>0, <2>2, <3>1 DEF WorkerRecv, MoveTo, HistoryTypeOK, Ids
    <3>4. ASSUME NEW k \in 1 .. Len(queue')
          PROVE  /\ place'[queue'[k].id] = "queue"
                 /\ \A l \in 1 .. Len(queue') : queue'[l].id = queue'[k].id => l = k
      <4>1. /\ queue'[k] = queue[k + 1] /\ k + 1 \in 1 .. Len(queue)
            /\ k + 1 # 1 /\ queue[k + 1].id \in Ids
        BY <2>0, <3>2
      <4>2. queue[k + 1].id # queue[1].id /\ place[queue[k + 1].id] = "queue"
        BY <1>0, <3>2, <4>1 DEF QueueLocated
      <4>3. ASSUME NEW l \in 1 .. Len(queue'), queue'[l].id = queue'[k].id
            PROVE  l = k
        <5>1. l + 1 \in 1 .. Len(queue) /\ queue[l + 1].id = queue[k + 1].id
          BY <3>2, <4>1, <4>3
        <5>2. l + 1 = k + 1
          BY <1>0, <4>1, <5>1 DEF QueueLocated
        <5> QED
          BY <5>2
      <4> QED
        BY <3>3, <4>1, <4>2, <4>3
    <3> QED
      BY <3>4 DEF QueueLocated
  <2>3. CASE UNCHANGED queue
    <3>1. ASSUME NEW k \in 1 .. Len(queue) PROVE place'[queue[k].id] = "queue"
      <4>1. queue[k].id \in Ids /\ place[queue[k].id] = "queue" /\ ~WorkerRecv
        BY <1>0, <2>0, <2>3 DEF QueueLocated, WorkerRecv
      <4> QED
        BY <1>1, <4>1 DEF Move
    <3> QED
      BY <1>0, <2>3, <3>1 DEF QueueLocated
  <2> QED
    BY <2>1, <2>2, <2>3, NextCases
       DEF NewLoader, Discover, Attach, StartServer, CreateReader,
           StartGoroutines, SkipDevice, FillDevice, ReadEvent, ReadClosed,
           SelectDefault, EnqueueFull, WaitWorkers, CloseLoader, CloseObjects,
           WorkerAnswer, WorkerLogs, WorkerDrops, WorkerCounts,
           WorkerExit, SigReceive, SigShutdown, SigCloseReader, SigCloseDone,
           ServerListen, ServerFail, Signal, Killed, vars, userVars
<1>5. HandLocated'
  <2>1. CASE ReadEvent
    <3>1. Head(events) = events[1] /\ 1 \in 1 .. Len(events)
      BY <1>0, <2>1 DEF ReadEvent, ReadRecord, ProbeTypeOK
    <3>2. Head(events).id \in Ids
      BY <1>0, <3>1 DEF RingFits, Faithful, Fits
    <3> QED
      BY <1>0, <2>1, <3>2 DEF ReadEvent, MoveTo, HistoryTypeOK, Ids, HandLocated
  <2>2. CASE main' \notin {"enqueue", "full"}
    BY <2>2 DEF HandLocated
  <2>4. CASE SelectDefault
    BY <1>0, <2>4 DEF SelectDefault, HandLocated, probeVars
  <2>3. CASE UNCHANGED <<main, hand>> /\ main \in {"enqueue", "full"}
    <3>1. hand.id \in Ids /\ place[hand.id] = "hand" /\ ~Enqueue /\ ~EnqueueFull
      BY <1>0, <2>3 DEF HandFits, Faithful, Fits, HandLocated, Enqueue,
                        EnqueueFull
    <3>2. place'[hand.id] = "hand"
      BY <1>1, <3>1 DEF Move
    <3> QED
      BY <2>3, <3>2 DEF HandLocated
  <2> QED
    BY <2>1, <2>2, <2>3, <2>4, NextCases
       DEF NewLoader, Discover, Attach, StartServer, CreateReader,
           StartGoroutines, SkipDevice, FillDevice, ReadClosed,
           Enqueue, SelectDefault, EnqueueFull, WaitWorkers, CloseLoader, CloseObjects,
           WorkerRecv, WorkerAnswer, WorkerLogs, WorkerDrops, WorkerCounts,
           WorkerExit, SigReceive, SigShutdown, SigCloseReader, SigCloseDone,
           ServerListen, ServerFail, Signal, Killed, vars, userVars
<1>6. WorkLocated'
  <2>1. CASE WorkerRecv
    <3>1. Head(queue) = queue[1] /\ 1 \in 1 .. Len(queue) /\ worker # "lookup"
      BY <1>0, <2>1 DEF WorkerRecv, ReaderTypeOK
    <3>2. Head(queue).id \in Ids
      BY <1>0, <3>1 DEF QueueFits, Faithful, Fits
    <3> QED
      BY <1>0, <2>1, <3>1, <3>2 DEF WorkerRecv, MoveTo, HistoryTypeOK, Ids,
                                    WorkLocated, workerVars
  <2>2. CASE worker' # "lookup"
    BY <2>2 DEF WorkLocated
  <2>3. CASE UNCHANGED <<worker, work>> /\ worker = "lookup"
    <3>1. /\ work.id \in Ids /\ place[work.id] = "worker"
          /\ ~WorkerLogs /\ ~WorkerDrops /\ ~WorkerCounts
      BY <1>0, <2>3 DEF WorkerFits, Faithful, Fits, WorkLocated, WorkerLogs,
                        WorkerDrops, WorkerCounts
    <3>2. place'[work.id] = "worker"
      BY <1>1, <3>1 DEF Move
    <3> QED
      BY <2>3, <3>2 DEF WorkLocated
  <2> QED
    BY <2>1, <2>2, <2>3, NextCases
       DEF NewLoader, Discover, Attach, StartServer, CreateReader,
           StartGoroutines, SkipDevice, FillDevice, ReadEvent, ReadClosed,
           Enqueue, SelectDefault, EnqueueFull, WaitWorkers, CloseLoader, CloseObjects,
           WorkerAnswer, WorkerLogs, WorkerDrops, WorkerCounts, WorkerExit,
           SigReceive, SigShutdown, SigCloseReader, SigCloseDone, ServerListen,
           ServerFail, Signal, Killed, vars, userVars, workerVars
<1> QED
  BY <1>2, <1>3, <1>4, <1>5, <1>6 DEF Located

-----------------------------------------------------------------------------
(* The other way round: a call that is not settled is held by somebody.     *)

RunTracked ==
    \A i \in Ids : place[i] = "program" =>
        \E c \in Cpus : run[c].at \in Held /\ run[c].id = i

RingTracked ==
    \A i \in Ids : place[i] = "ring" =>
        \E k \in 1 .. Len(events) : events[k].id = i

QueueTracked ==
    \A i \in Ids : place[i] = "queue" =>
        \E k \in 1 .. Len(queue) : queue[k].id = i

HandTracked ==
    \A i \in Ids : place[i] = "hand" =>
        hand.id = i /\ main \in {"enqueue", "full", "killed"}

WorkTracked ==
    \A i \in Ids : place[i] = "worker" => work.id = i /\ worker = "lookup"

Tracked ==
    RunTracked /\ RingTracked /\ QueueTracked /\ HandTracked /\ WorkTracked

\* The end of the process: the channel is closed by the reader when it has left
\* its loop, the worker ends when it is closed and empty, main waits for that.
Closing ==
    /\ closed => main \in Ending \cup {"killed"}
    /\ worker = "exited" => closed /\ queue = << >>
    /\ main \in {"closeLoader", "closeObjs", "exited"} => worker = "exited"

LEMMA ClosingKept ==
    ASSUME Typed, Closing, [Next]_vars PROVE Closing'
<1> USE DEF Closing, Ending
<1>0. Ordered /\ StartTypeOK /\ ReaderTypeOK /\ WorkerTypeOK
  BY DEF Typed, TypeOK
<1>1. CASE NewLoader \/ Discover \/ Attach \/ StartServer \/ CreateReader
           \/ StartGoroutines \/ Killed
  BY <1>0, <1>1 DEF NewLoader, Discover, Attach, StartServer, CreateReader,
         StartGoroutines, Killed, Ordered, Starting, workerVars
<1>2. CASE ReadEvent \/ ReadClosed \/ Enqueue \/ SelectDefault \/ EnqueueFull
  BY <1>0, <1>2 DEF ReadEvent, ReadClosed, Enqueue, SelectDefault, EnqueueFull,
         workerVars
<1>3. CASE WaitWorkers \/ CloseLoader \/ CloseObjects
  BY <1>0, <1>3 DEF WaitWorkers, CloseLoader, CloseObjects, workerVars
<1>4. CASE WorkerRecv
  BY <1>0, <1>4 DEF WorkerRecv, workerVars
<1>5. CASE WorkerLogs \/ WorkerDrops \/ WorkerCounts \/ WorkerExit
  BY <1>0, <1>5 DEF WorkerLogs, WorkerDrops, WorkerCounts, WorkerExit
<1>6. CASE UNCHANGED <<main, queue, closed, worker>>
  BY <1>6
<1> QED
  BY <1>1, <1>2, <1>3, <1>4, <1>5, <1>6, NextCases
     DEF SkipDevice, FillDevice, WorkerAnswer, SigReceive, SigShutdown,
         SigCloseReader, SigCloseDone, ServerListen, ServerFail, Signal,
         userVars, vars, workerVars

\* A new call is in the program or has been ignored.
LEMMA NewCall ==
    ASSUME Typed, [Next]_vars, NEW i \in Ids', i \notin Ids
    PROVE  \E c \in Cpus, q \in Requests :
               /\ i = Len(calls) + 1 /\ calls'[i] = q
               /\ \/ Observe(c, q) /\ place'[i] = "program"
                  \/ Ignore(c, q) /\ place'[i] = "ignored"
<1>0. /\ place \in Seq(Places) /\ calls \in Seq(Requests)
      /\ Len(place) = Len(calls)
  BY DEF Typed, TypeOK, HistoryTypeOK
<1>1. calls' # calls
  BY DEF Ids
<1>2. PICK c \in Cpus, q \in Requests : Observe(c, q) \/ Ignore(c, q)
  BY <1>1, NextCases
     DEF NewLoader, Discover, Attach, StartServer, CreateReader,
         StartGoroutines, SkipDevice, FillDevice, ReadEvent, ReadClosed,
         Enqueue, SelectDefault, EnqueueFull, WaitWorkers, CloseLoader,
         CloseObjects, WorkerRecv, WorkerAnswer, WorkerLogs, WorkerDrops,
         WorkerCounts, WorkerExit, SigReceive, SigShutdown, SigCloseReader,
         SigCloseDone, ServerListen, ServerFail, Signal, Killed, KernelStep,
         Reserve, ReserveFails, LoadLost, StoreLost, Submit, vars, probeVars
<1>3. calls' = Append(calls, q)
      /\ \/ Observe(c, q) /\ place' = Append(place, "program")
         \/ Ignore(c, q) /\ place' = Append(place, "ignored")
  BY <1>2 DEF Observe, Ignore
<1>4. i = Len(calls) + 1 /\ calls'[i] = q
  BY <1>0, <1>3 DEF Ids
<1>5. ASSUME NEW p, place' = Append(place, p) PROVE place'[i] = p
  BY <1>0, <1>4, <1>5
<1> QED
  BY <1>2, <1>3, <1>4, <1>5

LEMMA TrackedKept ==
    ASSUME Typed, Carried, Located, Tracked, [Next]_vars PROVE Tracked'
<1>0. /\ ProbeTypeOK /\ HistoryTypeOK /\ ReaderTypeOK /\ WorkerTypeOK
      /\ RunTracked /\ RingTracked /\ QueueTracked /\ HandTracked /\ WorkTracked
      /\ RunLocated
  BY DEF Typed, TypeOK, Tracked, Located
<1>1. ASSUME NEW i \in Ids', place'[i] # "program", place'[i] # "ignored"
      PROVE  i \in Ids /\ (place'[i] = place[i] \/ Move(i))
  BY <1>1, NewCall, Moves
<1>2. RunTracked'
  <2> SUFFICES ASSUME NEW i \in Ids', place'[i] = "program"
               PROVE  \E c \in Cpus : run'[c].at \in Held /\ run'[c].id = i
    BY DEF RunTracked
  <2>1. CASE i \notin Ids
    <3>1. PICK c \in Cpus, q \in Requests : Observe(c, q) /\ i = Len(calls) + 1
      BY <2>1, NewCall
    <3>2. run'[c].at = "reserve" /\ run'[c].id = i
      BY <1>0, <3>1 DEF Observe, ProbeTypeOK
    <3> QED
      BY <3>2 DEF Held
  <2>2. CASE i \in Ids
    <3>1. place[i] = "program"
      BY <2>2, Moves DEF Move
    <3>2. PICK c \in Cpus : run[c].at \in Held /\ run[c].id = i
      BY <1>0, <2>2, <3>1 DEF RunTracked
    <3>3. ~Reserve(c) /\ ~StoreLost(c)
      BY <1>0, <2>2, <3>2
         DEF Reserve, StoreLost, MoveTo, HistoryTypeOK, Ids
    <3>4. ~Submit(c) /\ run[c] # Idle
      BY <3>2 DEF Submit, Held, Idle
    <3>5. CASE KernelStep
      <4>1. PICK d \in Cpus :
                 \/ \E q \in Requests : Observe(d, q) \/ Ignore(d, q)
                 \/ Reserve(d) \/ ReserveFails(d) \/ LoadLost(d)
                 \/ StoreLost(d) \/ Submit(d)
        BY <3>5 DEF KernelStep
      <4>2. CASE \E q \in Requests : Observe(d, q) \/ Ignore(d, q)
        BY <1>0, <3>2, <3>4, <4>2 DEF Observe, Ignore, ProbeTypeOK
      <4>3. CASE d # c /\ ~(\E q \in Requests : Observe(d, q) \/ Ignore(d, q))
        BY <3>2, <4>1, <4>3, ProgramStep
      <4>4. CASE d = c /\ ReserveFails(c)
        BY <1>0, <3>2, <4>4 DEF ReserveFails, ProbeTypeOK, Held
      <4>5. CASE d = c /\ LoadLost(c)
        <5>1. run'[c] = [run[c] EXCEPT !.at = "store", !.lost = dropped[c]]
          BY <1>0, <4>5 DEF LoadLost, LossSlot, ProbeTypeOK
        <5>2. run'[c].at = "store" /\ run'[c].id = i
          BY <1>0, <3>2, <5>1 DEF ProbeTypeOK
        <5> QED
          BY <5>2 DEF Held
      <4> QED
        BY <3>3, <3>4, <4>1, <4>2, <4>3, <4>4, <4>5
    <3>6. CASE UNCHANGED run
      BY <3>2, <3>6
    <3> QED
      BY <3>5, <3>6, NextCases
         DEF NewLoader, Discover, Attach, StartServer, CreateReader,
             StartGoroutines, SkipDevice, FillDevice, ReadEvent, ReadClosed,
             Enqueue, SelectDefault, EnqueueFull, WaitWorkers, CloseLoader,
             CloseObjects, WorkerRecv, WorkerAnswer, WorkerLogs, WorkerDrops,
             WorkerCounts, WorkerExit, SigReceive, SigShutdown,
             SigCloseReader, SigCloseDone, ServerListen, ServerFail, Signal,
             Killed, vars, probeVars
  <2> QED
    BY <2>1, <2>2
<1>3. RingTracked'
  <2> SUFFICES ASSUME NEW i \in Ids', place'[i] = "ring"
               PROVE  \E k \in 1 .. Len(events') : events'[k].id = i
    BY DEF RingTracked
  <2>0. events \in Seq(Records) /\ i \in Ids
    BY <1>0, <1>1 DEF ProbeTypeOK
  <2>1. CASE place[i] # "ring"
    <3>1. PICK c \in Cpus : i = run[c].id /\ Reserve(c)
      BY <1>1, <2>1 DEF Move
    <3>2. PICK e : e.id = i /\ events' = Append(events, e)
      BY <3>1 DEF Reserve
    <3>3. Len(events) + 1 \in 1 .. Len(events')
          /\ events'[Len(events) + 1] = e
      BY <2>0, <3>2
    <3> QED
      BY <3>2, <3>3
  <2>2. CASE place[i] = "ring"
    <3>1. PICK k \in 1 .. Len(events) : events[k].id = i
      BY <1>0, <2>0, <2>2 DEF RingTracked
    <3>2. ASSUME NEW e, events' = Append(events, e)
          PROVE  k \in 1 .. Len(events') /\ events'[k] = events[k]
      BY <2>0, <3>2
    <3>3. ASSUME NEW c \in Cpus, Submit(c)
          PROVE  k \in 1 .. Len(events') /\ events'[k].id = events[k].id
      <4>1. events[k] \in Records /\ k \in DOMAIN events
            /\ Len(events') = Len(events)
        BY <2>0, <3>3 DEF Submit
      <4>2. events'[k] = events[k]
            \/ events'[k] = [events[k] EXCEPT !.busy = FALSE]
        BY <3>3, <4>1 DEF Submit
      <4> QED
        BY <4>1, <4>2 DEF Records
    <3>4. CASE ReadEvent
      <4>1. events' = Tail(events) /\ events # << >>
            /\ MoveTo(Head(events).id, "hand")
        BY <3>4 DEF ReadEvent, ReadRecord
      <4>2. i # Head(events).id
        BY <1>0, <2>0, <4>1 DEF MoveTo, HistoryTypeOK, Ids
      <4>3. k # 1
        BY <2>0, <3>1, <4>1, <4>2
      <4>4. k - 1 \in 1 .. Len(events') /\ events'[k - 1] = events[k]
        BY <2>0, <4>1, <4>3
      <4> QED
        BY <3>1, <4>4
    <3>5. CASE UNCHANGED events
      BY <3>1, <3>5
    <3>6. CASE KernelStep
      BY <3>1, <3>2, <3>3, <3>5, <3>6
         DEF KernelStep, Observe, Ignore, Reserve, ReserveFails, LoadLost,
             StoreLost
    <3> QED
      BY <3>4, <3>5, <3>6, NextCases
         DEF NewLoader, Discover, Attach, StartServer, CreateReader,
             StartGoroutines, SkipDevice, FillDevice, ReadClosed, Enqueue,
             SelectDefault, EnqueueFull, WaitWorkers, CloseLoader,
             CloseObjects, WorkerRecv, WorkerAnswer, WorkerLogs, WorkerDrops,
             WorkerCounts, WorkerExit, SigReceive, SigShutdown,
             SigCloseReader, SigCloseDone, ServerListen, ServerFail, Signal,
             Killed, vars, probeVars
  <2> QED
    BY <2>1, <2>2
<1>4. QueueTracked'
  <2> SUFFICES ASSUME NEW i \in Ids', place'[i] = "queue"
               PROVE  \E k \in 1 .. Len(queue') : queue'[k].id = i
    BY DEF QueueTracked
  <2>0. queue \in Seq(Records) /\ i \in Ids
    BY <1>0, <1>1 DEF ReaderTypeOK
  <2>1. CASE Enqueue
    <3>1. queue' = Append(queue, hand)
      BY <2>1 DEF Enqueue
    <3>2. /\ Len(queue') = Len(queue) + 1 /\ queue'[Len(queue) + 1] = hand
          /\ \A k \in 1 .. Len(queue) : queue'[k] = queue[k]
      BY <2>0, <3>1
    <3>3. CASE i = hand.id
      BY <2>0, <3>2, <3>3
    <3>4. CASE i # hand.id
      <4>1. place[i] = "queue"
        BY <1>1, <2>0, <2>1, <3>4
           DEF Move, Enqueue, MoveTo, HistoryTypeOK, Ids
      <4>2. PICK k \in 1 .. Len(queue) : queue[k].id = i
        BY <1>0, <2>0, <4>1 DEF QueueTracked
      <4> QED
        BY <2>0, <3>2, <4>2
    <3> QED
      BY <3>3, <3>4
  <2>2. CASE ~Enqueue
    <3>1. place[i] = "queue"
      BY <1>1, <2>2 DEF Move
    <3>2. PICK k \in 1 .. Len(queue) : queue[k].id = i
      BY <1>0, <2>0, <3>1 DEF QueueTracked
    <3>3. CASE WorkerRecv
      <4>1. queue' = Tail(queue) /\ queue # << >>
            /\ \E p \in {"worker", "device_unknown"} : MoveTo(Head(queue).id, p)
        BY <3>3 DEF WorkerRecv
      <4>2. i # Head(queue).id
        BY <1>0, <2>0, <4>1 DEF MoveTo, HistoryTypeOK, Ids
      <4>3. k # 1
        BY <2>0, <3>2, <4>1, <4>2
      <4>4. k - 1 \in 1 .. Len(queue') /\ queue'[k - 1] = queue[k]
        BY <2>0, <4>1, <4>3
      <4> QED
        BY <3>2, <4>4
    <3>4. CASE UNCHANGED queue
      BY <3>2, <3>4
    <3> QED
      BY <2>2, <3>3, <3>4, NextCases
         DEF NewLoader, Discover, Attach, StartServer, CreateReader,
             StartGoroutines, SkipDevice, FillDevice, ReadEvent, ReadClosed,
             SelectDefault, EnqueueFull, WaitWorkers, CloseLoader,
             CloseObjects, WorkerAnswer, WorkerLogs, WorkerDrops,
             WorkerCounts, WorkerExit, SigReceive, SigShutdown,
             SigCloseReader, SigCloseDone, ServerListen, ServerFail, Signal,
             Killed, vars, userVars
  <2> QED
    BY <2>1, <2>2
<1>5. HandTracked'
  <2> SUFFICES ASSUME NEW i \in Ids', place'[i] = "hand"
               PROVE  hand'.id = i /\ main' \in {"enqueue", "full", "killed"}
    BY DEF HandTracked
  <2>1. CASE ReadEvent
    <3>1. main = "read" /\ main' = "enqueue" /\ hand' = Head(events)
      BY <2>1 DEF ReadEvent
    <3>2. place[i] # "hand"
      BY <1>0, <1>1, <3>1 DEF HandTracked
    <3> QED
      BY <1>1, <3>1, <3>2 DEF Move, Enqueue, EnqueueFull
  <2>2. CASE ~ReadEvent
    <3>1. place[i] = "hand" /\ i \in Ids
      BY <1>1, <2>2 DEF Move
    <3>2. hand.id = i /\ main \in {"enqueue", "full", "killed"}
      BY <1>0, <3>1 DEF HandTracked
    <3>3. ~Enqueue /\ ~EnqueueFull
      BY <1>0, <3>1, <3>2
         DEF Enqueue, EnqueueFull, MoveTo, HistoryTypeOK, Ids
    <3>4. CASE Killed \/ SelectDefault
      BY <3>2, <3>4 DEF Killed, SelectDefault
    <3>5. CASE UNCHANGED <<main, hand>>
      BY <3>2, <3>5
    <3> QED
      BY <2>2, <3>2, <3>3, <3>4, <3>5, NextCases
         DEF NewLoader, Discover, Attach, StartServer, CreateReader,
             StartGoroutines, SkipDevice, FillDevice, ReadClosed,
             WaitWorkers, CloseLoader, CloseObjects, WorkerRecv, WorkerAnswer,
             WorkerLogs, WorkerDrops, WorkerCounts, WorkerExit, SigReceive,
             SigShutdown, SigCloseReader, SigCloseDone, ServerListen,
             ServerFail, Signal, vars, userVars
  <2> QED
    BY <2>1, <2>2
<1>6. WorkTracked'
  <2> SUFFICES ASSUME NEW i \in Ids', place'[i] = "worker"
               PROVE  work'.id = i /\ worker' = "lookup"
    BY DEF WorkTracked
  <2>1. CASE place[i] # "worker"
    <3>1. WorkerRecv /\ i = Head(queue).id /\ place[i] = "queue"
      BY <1>1, <2>1 DEF Move
    <3>2. Head(queue).node \in DOMAIN deviceMap
      BY <1>0, <1>1, <3>1
         DEF WorkerRecv, MoveTo, HistoryTypeOK, Ids
    <3> QED
      BY <3>1, <3>2 DEF WorkerRecv
  <2>2. CASE place[i] = "worker"
    <3>1. work.id = i /\ worker = "lookup" /\ i \in Ids
      BY <1>0, <1>1, <2>2 DEF WorkTracked
    <3>2. ~WorkerCounts /\ ~WorkerLogs
      BY <1>0, <3>1 DEF WorkerCounts, WorkerLogs, MoveTo, HistoryTypeOK, Ids
    <3>3. ~WorkerDrops
      <4>1. WorkerDrops => lookup.ans.err # "worker"
        BY <1>0 DEF WorkerDrops, WorkerTypeOK, Lookups, NoLookup, Answers,
                    Errors
      <4> QED
        BY <1>0, <3>1, <4>1 DEF WorkerDrops, MoveTo, HistoryTypeOK, Ids
    <3>4. ~WorkerRecv /\ ~WorkerExit
      BY <3>1 DEF WorkerRecv, WorkerExit
    <3>5. ~StartGoroutines
      BY <3>1 DEF StartGoroutines, Typed, Ordered, Starting
    <3> QED
      BY <3>1, <3>2, <3>3, <3>4, <3>5, NextCases
         DEF NewLoader, Discover, Attach, StartServer, CreateReader,
             SkipDevice, FillDevice, ReadEvent, ReadClosed, Enqueue,
             SelectDefault, EnqueueFull, WaitWorkers, CloseLoader,
             CloseObjects, WorkerAnswer, SigReceive, SigShutdown,
             SigCloseReader, SigCloseDone, ServerListen, ServerFail, Signal,
             Killed, vars, userVars, workerVars
  <2> QED
    BY <2>1, <2>2
<1> QED
  BY <1>2, <1>3, <1>4, <1>5, <1>6 DEF Tracked

LEMMA TrackedInvariant == Spec => [](Located /\ Tracked /\ Closing)
<1>1. Init => Located /\ Tracked /\ Closing
  <2> SUFFICES ASSUME Init PROVE Located /\ Tracked /\ Closing
    OBVIOUS
  <2>1. RunLocated
    BY DEF Init, ProbeInit, RunLocated, Idle, Held
  <2>2. RingLocated /\ QueueLocated /\ HandLocated /\ WorkLocated
    BY DEF Init, ProbeInit, RingLocated, QueueLocated, HandLocated, WorkLocated
  <2>3. Ids = {}
    BY DEF Init, ProbeInit, Ids
  <2>4. Closing
    BY DEF Init, Closing
  <2> QED
    BY <2>1, <2>2, <2>3, <2>4
       DEF Located, Tracked, RunTracked, RingTracked, QueueTracked,
           HandTracked, WorkTracked
<1>2. Typed /\ Carried /\ Located /\ Tracked /\ Closing /\ [Next]_vars
      => (Located /\ Tracked /\ Closing)'
  BY LocatedKept, TrackedKept, ClosingKept
<1> QED
  BY <1>1, <1>2, CarriedInvariant, PTL DEF Spec

\* A clean exit leaves no event in the reader's hand, in the channel or with
\* the worker: close(queue) comes after the last send, the worker empties the
\* channel, and main waits for it (cmd/agent/main.go:264-265).
THEOREM DrainedHolds == Spec => []Drained
<1>1. ASSUME Tracked, Closing PROVE Drained
  <2> SUFFICES ASSUME main \in {"closeLoader", "closeObjs", "exited"},
                      NEW i \in Ids
               PROVE  place[i] \notin {"hand", "queue", "worker"}
    BY DEF Drained
  <2>1. worker = "exited" /\ queue = << >>
    BY <1>1 DEF Closing
  <2> QED
    BY <1>1, <2>1 DEF Tracked, HandTracked, QueueTracked, WorkTracked
<1> QED
  BY <1>1, TrackedInvariant, PTL

=============================================================================
