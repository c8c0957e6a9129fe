------------------------------- MODULE Agent -------------------------------
(***************************************************************************)
(* The agent process (cmd/agent/main.go with pkg/loader and the counters   *)
(* of pkg/metrics): the startup sequence, the goroutine that reads the     *)
(* ring buffer, the worker goroutine that attributes events to containers, *)
(* the signal goroutine that shuts the process down, and the deferred      *)
(* clean-up.  It composes the kernel program (DrmProbe) and the pod lookup *)
(* (Resolver).                                                             *)
(***************************************************************************)
EXTENDS DrmProbe, Resolver

CONSTANT QueueSize   \* KUBENPU_QUEUE_SIZE, the capacity of the channel

ASSUME QueueAssumption == QueueSize \in Nat \ {0}

VARIABLES
    main,          \* where the main goroutine is
    todo,          \* devices the startup loop has not handled yet
    deviceMap,     \* device node -> [device, vendor]
    deviceInfo,    \* Collector.deviceInfo: devices exported as info series
    rb,            \* the ring buffer reader: nil, open, closing or closed
    once,          \* Loader.closeReaderOnce
    objs,          \* bpfObjects are loaded
    server,        \* the HTTP server goroutine
    ready,         \* the atomic behind /readyz
    sigs,          \* a signal waits in the channel
    sig,           \* where the signal goroutine is
    hand,          \* event the reader holds between ReadEvent and the select
    queue,         \* the buffered channel
    closed,        \* close(queue) was called
    worker,        \* where the worker goroutine is
    work,          \* event the worker holds
    ioctlTotal,    \* Collector.ioctlTotal: key -> count
    eventsDropped  \* Collector.eventsDroppedTotal: reason -> count

startVars   == <<todo, deviceMap, deviceInfo>>
loaderVars  == <<rb, once, objs>>
signalVars  == <<server, ready, sigs, sig>>
workerVars  == <<worker, work, lookup>>
metricsVars == <<ioctlTotal, eventsDropped>>
vars == <<probeVars, main, startVars, loaderVars, signalVars, hand, queue,
          closed, workerVars, metricsVars>>

NoEvent == [id |-> 0]

\* The process is still there.  Events are records of the ring buffer.
Dead  == {"exited", "killed"}
Alive == main \notin Dead

-----------------------------------------------------------------------------
Init ==
    /\ ProbeInit /\ ResolverInit
    /\ main = "load" /\ todo = {}
    /\ deviceMap = EmptyMap /\ deviceInfo = {}
    /\ rb = "nil" /\ once = "fresh" /\ objs = FALSE
    /\ server = "none" /\ ready = FALSE /\ sigs = FALSE /\ sig = "none"
    /\ hand = NoEvent /\ queue = << >> /\ closed = FALSE
    /\ worker = "none" /\ work = NoEvent
    /\ ioctlTotal = EmptyMap
    /\ eventsDropped = [r \in dropReasons |-> 0]

-----------------------------------------------------------------------------
(* Startup: main() down to the read loop. *)

\* loader.NewLoader: kernel checks passed, programs and maps are loaded.
NewLoader ==
    /\ main = "load"
    /\ objs' = TRUE
    /\ main' = "discover"
    /\ UNCHANGED <<probeVars, startVars, rb, once, signalVars, hand, queue,
                   closed, workerVars, metricsVars>>

\* discovery.Discover returned the node's devices.
Discover ==
    /\ main = "discover"
    /\ todo' = Devices
    /\ main' = "fill"
    /\ UNCHANGED <<probeVars, deviceMap, deviceInfo, loaderVars, signalVars,
                   hand, queue, closed, workerVars, metricsVars>>

\* One turn of the device loop, in the order a Go map is ranged over.  A
\* device no vendor claims is logged and skipped.
SkipDevice(d) ==
    /\ main = "fill" /\ d \in todo
    /\ VendorOf(d) = NoVendor
    /\ todo' = todo \ {d}
    /\ UNCHANGED <<probeVars, main, deviceMap, deviceInfo, loaderVars,
                   signalVars, hand, queue, closed, workerVars, metricsVars>>

\* A device loop that publishes only one of the device's nodes in deviceMap.
FillDeviceFirstNode(d) ==
    /\ main = "fill" /\ d \in todo
    /\ VendorOf(d) # NoVendor
    /\ todo' = todo \ {d}
    /\ deviceInfo' = deviceInfo \cup {d}
    /\ deviceMap' = PutAll(deviceMap,
                       [n \in {CHOOSE n \in NodesOf[d] : TRUE} |->
                          [device |-> d, vendor |-> VendorOf(d)]])
    /\ AddDevices([n \in NodesOf[d] |-> GetVendorID(VendorOf(d))])
    /\ AddIoctls([k \in {<<GetVendorID(VendorOf(d)), nr>> :
                            nr \in DOMAIN Ioctls(VendorOf(d))} |->
                    Ioctls(VendorOf(d))[k[2]]])
    /\ UNCHANGED <<hook, events, dropped, run, calls, place, main, loaderVars,
                   signalVars, hand, queue, closed, workerVars, metricsVars>>

\* A supported device: SetDeviceInfo, every node into deviceMap and into the
\* `devices` map, the vendor's table into the `ioctls` map.
FillDevice(d) ==
    /\ main = "fill" /\ d \in todo
    /\ VendorOf(d) # NoVendor
    /\ todo' = todo \ {d}
    /\ deviceInfo' = deviceInfo \cup {d}
    /\ deviceMap' = PutAll(deviceMap,
                       [n \in NodesOf[d] |->
                          [device |-> d, vendor |-> VendorOf(d)]])
    /\ AddDevices([n \in NodesOf[d] |-> GetVendorID(VendorOf(d))])
    /\ AddIoctls([k \in {<<GetVendorID(VendorOf(d)), nr>> :
                            nr \in DOMAIN Ioctls(VendorOf(d))} |->
                    Ioctls(VendorOf(d))[k[2]]])
    /\ UNCHANGED <<hook, events, dropped, run, calls, place, main, loaderVars,
                   signalVars, hand, queue, closed, workerVars, metricsVars>>

\* Attaching as soon as the objects are loaded, while the maps are filling.
AttachEarly ==
    /\ main = "fill"
    /\ hook' = TRUE
    /\ main' = IF todo = {} THEN "podmap" ELSE "fill"
    /\ UNCHANGED <<devices, ioctls, events, dropped, run, calls, place,
                   startVars, loaderVars, signalVars, hand, queue, closed,
                   workerVars, metricsVars>>

\* Loader.Attach, after the loop.
Attach ==
    /\ main = "fill" /\ todo = {}
    /\ hook' = TRUE
    /\ main' = "podmap"
    /\ UNCHANGED <<devices, ioctls, events, dropped, run, calls, place,
                   startVars, loaderVars, signalVars, hand, queue, closed,
                   workerVars, metricsVars>>

\* Reporting ready together with starting the server.
StartServerReady ==
    /\ main = "podmap"
    /\ server' = "starting"
    /\ ready' = TRUE
    /\ main' = "reader"
    /\ UNCHANGED <<probeVars, startVars, loaderVars, sigs, sig, hand, queue,
                   closed, workerVars, metricsVars>>

\* podmap.NewPodMap succeeds, the metric sources are set and the goroutine of
\* Server.Run is started.
StartServer ==
    /\ main = "podmap"
    /\ server' = "starting"
    /\ main' = "reader"
    /\ UNCHANGED <<probeVars, startVars, loaderVars, ready, sigs, sig, hand,
                   queue, closed, workerVars, metricsVars>>

\* Loader.CreateReader, then ready.Store(true).
CreateReader ==
    /\ main = "reader"
    /\ rb' = "open"
    /\ ready' = TRUE
    /\ main' = "notify"
    /\ UNCHANGED <<probeVars, startVars, once, objs, server, sigs, sig, hand,
                   queue, closed, workerVars, metricsVars>>

\* signal.Notify, the signal goroutine, the channel and the worker goroutine.
StartGoroutines ==
    /\ main = "notify"
    /\ sig' = "wait"
    /\ worker' = "recv"
    /\ main' = "read"
    /\ UNCHANGED <<probeVars, startVars, loaderVars, server, ready, sigs, hand,
                   queue, closed, work, lookup, metricsVars>>

Startup ==
    \/ NewLoader \/ Discover \/ Attach
    \/ \E d \in Devices : SkipDevice(d) \/ FillDevice(d)
    \/ StartServer \/ CreateReader \/ StartGoroutines

\* The end of the process without the deferred calls: log.Fatal on a failed
\* startup step, a signal before signal.Notify, or SIGKILL at any time.  The
\* kernel closes the link and the listening socket.
Killed ==
    /\ Alive
    /\ main' = "killed"
    /\ hook' = FALSE
    /\ server' = "closed"
    /\ UNCHANGED <<devices, ioctls, events, dropped, run, calls, place,
                   startVars, loaderVars, ready, sigs, sig, hand, queue,
                   closed, workerVars, metricsVars>>

-----------------------------------------------------------------------------
(* The main goroutine: the read loop. *)

\* Loader.ReadEvent returns a record.  A reader that is being closed may
\* still return records it had found before; a closed one returns none.
ReadEvent ==
    /\ main = "read" /\ rb \in {"open", "closing"}
    /\ ReadRecord
    /\ hand' = Head(events)
    /\ MoveTo(Head(events).id, "hand")
    /\ main' = "enqueue"
    /\ UNCHANGED <<devices, ioctls, hook, dropped, run, calls, startVars,
                   loaderVars, signalVars, queue, closed, workerVars,
                   metricsVars>>

\* ReadEvent returns ringbuf.ErrClosed: leave the loop and close(queue).  Its
\* other errors, which main logs before it reads on, have no action: a read that
\* fails takes no record, and a record too short for an event does not exist, as
\* the program reserves all of them with the event's size.
ReadClosed ==
    /\ main = "read" /\ rb \in {"closing", "closed"}
    /\ closed' = TRUE
    /\ main' = "wait"
    /\ UNCHANGED <<probeVars, startVars, loaderVars, signalVars, hand, queue,
                   workerVars, metricsVars>>

\* select: `queue <- event` when the channel has room ...
Enqueue ==
    /\ main = "enqueue" /\ Len(queue) < QueueSize
    /\ queue' = Append(queue, hand)
    /\ MoveTo(hand.id, "queue")
    /\ hand' = NoEvent
    /\ main' = "read"
    /\ UNCHANGED <<devices, ioctls, hook, events, dropped, run, calls,
                   startVars, loaderVars, signalVars, closed, workerVars,
                   metricsVars>>

\* Collector.IncEventsDropped.
IncEventsDropped(reason) ==
    /\ eventsDropped' = Increment(eventsDropped, reason)
    /\ UNCHANGED ioctlTotal

\* A select without a default branch: the send waits for room.
SelectWithoutDefault ==
    /\ main = "enqueue" /\ Len(queue) >= QueueSize
    /\ UNCHANGED vars

\* ... and the default branch when it has not.
SelectDefault ==
    /\ main = "enqueue" /\ Len(queue) >= QueueSize
    /\ main' = "full"
    /\ UNCHANGED <<probeVars, startVars, loaderVars, signalVars, hand, queue,
                   closed, workerVars, metricsVars>>

\* The branch is taken: by the time the drop is counted the channel may have
\* room again.
EnqueueFull ==
    /\ main = "full"
    /\ IncEventsDropped("queue_full")
    /\ MoveTo(hand.id, "queue_full")
    /\ hand' = NoEvent
    /\ main' = "read"
    /\ UNCHANGED <<devices, ioctls, hook, events, dropped, run, calls,
                   startVars, loaderVars, signalVars, queue, closed,
                   workerVars>>

-----------------------------------------------------------------------------
(* The main goroutine: the end of main() and its deferred calls. *)

\* Returning from main without workers.Wait().
WaitWorkersSkipped ==
    /\ main = "wait"
    /\ main' = "closeLoader"
    /\ UNCHANGED <<probeVars, startVars, loaderVars, signalVars, hand, queue,
                   closed, workerVars, metricsVars>>

\* workers.Wait() returns; PodMap.Close is deferred last and runs first.
WaitWorkers ==
    /\ main = "wait" /\ worker = "exited"
    /\ main' = "closeLoader"
    /\ UNCHANGED <<probeVars, startVars, loaderVars, signalVars, hand, queue,
                   closed, workerVars, metricsVars>>

\* A flag in place of sync.Once: the second caller of CloseReader does not
\* wait for the first.
CloseLoaderNoWait ==
    /\ main = "closeLoader"
    /\ IF once = "fresh" THEN once' = "done" /\ rb' = "closed"
                         ELSE UNCHANGED <<once, rb>>
    /\ hook' = FALSE
    /\ main' = "closeObjs"
    /\ UNCHANGED <<devices, ioctls, events, dropped, run, calls, place,
                   startVars, objs, signalVars, hand, queue, closed,
                   workerVars, metricsVars>>

\* Loader.Close up to the hook: CloseReader does the work or waits until the
\* signal goroutine has done it (sync.Once), then the link is closed.
CloseLoader ==
    /\ main = "closeLoader" /\ once # "running"
    /\ IF once = "fresh" THEN once' = "done" /\ rb' = "closed"
                         ELSE UNCHANGED <<once, rb>>
    /\ hook' = FALSE
    /\ main' = "closeObjs"
    /\ UNCHANGED <<devices, ioctls, events, dropped, run, calls, place,
                   startVars, objs, signalVars, hand, queue, closed,
                   workerVars, metricsVars>>

\* Loader.Close, bpfObjects.Close; main returns and the process ends.
CloseObjects ==
    /\ main = "closeObjs"
    /\ objs' = FALSE
    /\ server' = "closed"
    /\ main' = "exited"
    /\ UNCHANGED <<probeVars, startVars, rb, once, ready, sigs, sig, hand,
                   queue, closed, workerVars, metricsVars>>

Reader ==
    \/ ReadEvent \/ ReadClosed \/ Enqueue \/ SelectDefault \/ EnqueueFull
    \/ WaitWorkers \/ CloseLoader \/ CloseObjects

-----------------------------------------------------------------------------
(* The HTTP server goroutine and the signal goroutine. *)

\* Server.Run is listening.
ServerListen ==
    /\ Alive /\ server = "starting"
    /\ server' = "up"
    /\ UNCHANGED <<probeVars, main, startVars, loaderVars, ready, sigs, sig,
                   hand, queue, closed, workerVars, metricsVars>>

\* Server.Run returns an error; main only logs it.
ServerFail ==
    /\ Alive /\ server \in {"starting", "up"}
    /\ server' = "failed"
    /\ UNCHANGED <<probeVars, main, startVars, loaderVars, ready, sigs, sig,
                   hand, queue, closed, workerVars, metricsVars>>

\* SIGINT or SIGTERM arrives; later ones stay in the channel unread.
Signal ==
    /\ Alive /\ sig = "wait" /\ ~sigs
    /\ sigs' = TRUE
    /\ UNCHANGED <<probeVars, main, startVars, loaderVars, server, ready, sig,
                   hand, queue, closed, workerVars, metricsVars>>

\* sig := <-sigs, ready.Store(false).
SigReceive ==
    /\ Alive /\ sig = "wait" /\ sigs
    /\ sigs' = FALSE
    /\ ready' = FALSE
    /\ sig' = "shutdown"
    /\ UNCHANGED <<probeVars, main, startVars, loaderVars, server, hand, queue,
                   closed, workerVars, metricsVars>>

\* Server.Shutdown returns, within ShutdownTimeout.
SigShutdown ==
    /\ Alive /\ sig = "shutdown"
    /\ server' = "closed"
    /\ sig' = "closeReader"
    /\ UNCHANGED <<probeVars, main, startVars, loaderVars, ready, sigs, hand,
                   queue, closed, workerVars, metricsVars>>

\* A signal goroutine that stops after shutting the server down.
SigCloseReaderSkipped ==
    /\ Alive /\ sig = "closeReader"
    /\ once = "fresh"
    /\ sig' = "done"
    /\ UNCHANGED <<probeVars, main, startVars, loaderVars, server, ready, sigs,
                   hand, queue, closed, workerVars, metricsVars>>

\* Loader.CloseReader enters sync.Once and wakes the reader.
SigCloseReader ==
    /\ Alive /\ sig = "closeReader"
    /\ once = "fresh"
    /\ once' = "running"
    /\ rb' = "closing"
    /\ sig' = "closing"
    /\ UNCHANGED <<probeVars, main, startVars, objs, server, ready, sigs, hand,
                   queue, closed, workerVars, metricsVars>>

\* ringbuf.Reader.Close has the reader's mutex and releases the mapping.
SigCloseDone ==
    /\ Alive /\ sig = "closing"
    /\ once' = "done"
    /\ rb' = "closed"
    /\ sig' = "done"
    /\ UNCHANGED <<probeVars, main, startVars, objs, server, ready, sigs, hand,
                   queue, closed, workerVars, metricsVars>>

Shutdown == SigReceive \/ SigShutdown \/ SigCloseReader \/ SigCloseDone

-----------------------------------------------------------------------------
(* The worker goroutine. *)

\* The labels the worker counts an event under.
EventKey(e, info) ==
    [info |-> info, device |-> deviceMap[e.node].device,
     vendor |-> deviceMap[e.node].vendor, kind |-> KindString(e.kind)]

\* Collector.IncIoctl.
IncIoctl(k) ==
    /\ ioctlTotal' = Increment(ioctlTotal, k)
    /\ UNCHANGED eventsDropped

\* `range queue` yields an event; its device is looked up in deviceMap, and
\* ContainerInfo is called with its cgroup.
WorkerRecv ==
    /\ Alive /\ worker = "recv" /\ queue # << >>
    /\ queue' = Tail(queue)
    /\ IF Head(queue).node \in DOMAIN deviceMap
       THEN /\ worker' = "lookup"
            /\ work' = Head(queue)
            /\ Begin(Head(queue).cgroup)
            /\ MoveTo(Head(queue).id, "worker")
            /\ UNCHANGED metricsVars
       ELSE /\ IncEventsDropped("device_unknown")
            /\ MoveTo(Head(queue).id, "device_unknown")
            /\ UNCHANGED workerVars
    /\ UNCHANGED <<devices, ioctls, hook, events, dropped, run, calls, main,
                   startVars, loaderVars, signalVars, hand, closed>>

\* ContainerInfo returns one of the answers Resolver permits.
WorkerAnswer ==
    /\ Alive /\ worker = "lookup" /\ lookup.st = "busy"
    /\ \E a \in Permitted(lookup.cg) : Finish(a)
    /\ UNCHANGED <<probeVars, main, startVars, loaderVars, signalVars, hand,
                   queue, closed, worker, work, metricsVars>>

\* A worker that counts the other errors under a reason of its own.
WorkerInventsReason ==
    /\ Alive /\ worker = "lookup" /\ lookup.st = "done"
    /\ lookup.ans.err = "other"
    /\ IncEventsDropped("other")
    /\ MoveTo(work.id, "logged")
    /\ worker' = "recv" /\ work' = NoEvent /\ Release
    /\ UNCHANGED <<devices, ioctls, hook, events, dropped, run, calls, main,
                   startVars, loaderVars, signalVars, hand, queue, closed>>

\* Any other error of ContainerInfo is logged and the event forgotten.
WorkerLogs ==
    /\ Alive /\ worker = "lookup" /\ lookup.st = "done"
    /\ lookup.ans.err = "other"
    /\ MoveTo(work.id, "logged")
    /\ worker' = "recv" /\ work' = NoEvent /\ Release
    /\ UNCHANGED <<devices, ioctls, hook, events, dropped, run, calls, main,
                   startVars, loaderVars, signalVars, hand, queue, closed,
                   metricsVars>>

\* ErrNotPod, ErrNotIndexed and ErrContainerNotFound are counted as drops.
WorkerDrops ==
    /\ Alive /\ worker = "lookup" /\ lookup.st = "done"
    /\ lookup.ans.err \notin {"none", "other"}
    /\ IncEventsDropped(lookup.ans.err)
    /\ MoveTo(work.id, lookup.ans.err)
    /\ worker' = "recv" /\ work' = NoEvent /\ Release
    /\ UNCHANGED <<devices, ioctls, hook, events, dropped, run, calls, main,
                   startVars, loaderVars, signalVars, hand, queue, closed>>

\* The event is attributed to its container.
WorkerCounts ==
    /\ Alive /\ worker = "lookup" /\ lookup.st = "done"
    /\ lookup.ans.err = "none"
    /\ IncIoctl(EventKey(work, lookup.ans.info))
    /\ MoveTo(work.id, "counted")
    /\ worker' = "recv" /\ work' = NoEvent /\ Release
    /\ UNCHANGED <<devices, ioctls, hook, events, dropped, run, calls, main,
                   startVars, loaderVars, signalVars, hand, queue, closed>>

\* The channel is closed and empty: the range loop ends, workers.Done().
WorkerExit ==
    /\ Alive /\ worker = "recv" /\ closed /\ queue = << >>
    /\ worker' = "exited"
    /\ UNCHANGED <<probeVars, main, startVars, loaderVars, signalVars, hand,
                   queue, closed, work, lookup, metricsVars>>

Worker ==
    \/ WorkerRecv \/ WorkerAnswer \/ WorkerLogs \/ WorkerDrops
    \/ WorkerCounts \/ WorkerExit

-----------------------------------------------------------------------------
userVars == <<main, startVars, loaderVars, signalVars, hand, queue, closed,
              workerVars, metricsVars>>

Kernel == ProbeNext /\ UNCHANGED userVars

Next ==
    \/ Startup \/ Reader \/ Worker \/ Shutdown
    \/ ServerListen \/ ServerFail \/ Signal \/ Killed
    \/ Kernel

Spec == Init /\ [][Next]_vars

-----------------------------------------------------------------------------
(* Types. *)

Ids == 1 .. Len(calls)

Records == [busy : BOOLEAN, id : Nat, cgroup : Cgroups, node : Nodes,
            kind : Kinds]

Final  == dropReasons \cup {"counted", "logged", "ringbuf_full", "ignored"}
Places == Final \cup {"program", "ring", "hand", "queue", "worker"}

\* Of the BPF maps, the ring buffer and the program instances.
ProbeTypeOK ==
    /\ DOMAIN devices \subseteq Nodes
    /\ \A n \in DOMAIN devices : devices[n] \in Nat
    /\ DOMAIN ioctls \subseteq Nat \X Nat
    /\ \A k \in DOMAIN ioctls : ioctls[k] \in Kinds
    /\ hook \in BOOLEAN
    /\ events \in Seq(Records)
    /\ dropped \in [Cpus -> Nat]
    /\ run \in [Cpus -> [at : {"idle", "reserve", "submit", "load", "store"},
                         id : Nat, kind : Kinds, lost : Nat]]
    /\ \A c \in Cpus : run[c].at = "idle" \/ run[c].id \in Ids

\* Of the history: every call has a place.
HistoryTypeOK ==
    /\ calls \in Seq(Requests)
    /\ place \in Seq(Places)
    /\ Len(place) = Len(calls)

StartTypeOK ==
    /\ main \in {"load", "discover", "fill", "podmap", "reader", "notify",
                 "read", "enqueue", "full", "wait", "closeLoader", "closeObjs"}
                \cup Dead
    /\ todo \in SUBSET Devices
    /\ DOMAIN deviceMap \subseteq Nodes
    /\ \A n \in DOMAIN deviceMap :
           deviceMap[n] \in [device : Devices, vendor : Vendors]
    /\ deviceInfo \in SUBSET Devices

ControlTypeOK ==
    /\ rb \in {"nil", "open", "closing", "closed"}
    /\ once \in {"fresh", "running", "done"}
    /\ objs \in BOOLEAN
    /\ server \in {"none", "starting", "up", "failed", "closed"}
    /\ ready \in BOOLEAN
    /\ sigs \in BOOLEAN
    /\ sig \in {"none", "wait", "shutdown", "closeReader", "closing", "done"}

ReaderTypeOK ==
    /\ main \in {"enqueue", "full"} => hand \in Records
    /\ queue \in Seq(Records)
    /\ closed \in BOOLEAN

WorkerTypeOK ==
    /\ worker \in {"none", "recv", "lookup", "exited"}
    /\ lookup \in Lookups
    /\ worker = "lookup" => work \in Records /\ lookup # NoLookup
    /\ worker # "lookup" => work = NoEvent /\ lookup = NoLookup

MetricsTypeOK ==
    /\ DOMAIN ioctlTotal \subseteq Keys
    /\ \A k \in DOMAIN ioctlTotal : ioctlTotal[k] \in Nat
    /\ eventsDropped \in [dropReasons -> Nat]

\* The variables have the types of the C and Go programs, a goroutine between
\* two steps holds an event, counters exist under known labels only.
TypeOK ==
    /\ ProbeTypeOK /\ HistoryTypeOK /\ StartTypeOK /\ ControlTypeOK
    /\ ReaderTypeOK /\ WorkerTypeOK /\ MetricsTypeOK

-----------------------------------------------------------------------------
(* Safety. *)

\* kubenpu_ioctl_total never shows more calls under a label set than the
\* container really made of that kind on that device: whatever the node maps,
\* the vendor ids, the ring buffer and the lookups did in between, a call is
\* counted at most once and under its own labels (bpf/drm_common.bpf.c:45,
\* cmd/agent/main.go:199-243).
Attribution ==
    \A k \in DOMAIN ioctlTotal :
        ioctlTotal[k] <= Cardinality({i \in Ids : /\ Supported(calls[i])
                                                  /\ TrueKey(calls[i]) = k})

\* Calls whose record some process or buffer still holds.
InFlight ==
    ({run[c].id : c \in Cpus} \cup {events[k].id : k \in DOMAIN events}
     \cup {queue[k].id : k \in DOMAIN queue} \cup {hand.id, work.id}) \ {0}

\* No supported call disappears and none is accounted for twice: in every state
\* the calls made are the calls in flight plus what the counters show plus the
\* lookups that failed with an error main only logs (cmd/agent/main.go:199-262,
\* bpf/drm_common.bpf.c:66-84).
Conservation ==
    Cardinality({i \in Ids : Supported(calls[i])}) =
        Cardinality(InFlight)
        + SumOver(ioctlTotal, DOMAIN ioctlTotal)
        + SumOver(eventsDropped, dropReasons)
        + SumOver(dropped, Cpus)
        + Cardinality({i \in Ids : place[i] = "logged"})

\* /readyz answers 200 only while calls are being counted: the filter maps are
\* complete, the program is attached and the reader is open
\* (cmd/agent/main.go:131-173, 182).
ReadyMeansCounting ==
    server = "up" /\ ready =>
        /\ \A q \in Requests : InFilter(q) <=> Supported(q)
        /\ hook /\ rb = "open"

\* device_unknown stays at zero: the worker finds every device the filter in
\* the kernel lets through, because the same loop filled both maps
\* (cmd/agent/main.go:107-120, 204-211).
DeviceKnown == eventsDropped["device_unknown"] = 0

\* The BPF objects are closed after everything that uses them: the reader has
\* been unmapped and no CloseReader is running when bpfObjects.Close starts
\* (pkg/loader/loader.go:158-193).
ObjectsOutliveReader ==
    main \in {"closeObjs", "exited"} =>
        /\ rb = "closed" /\ sig = "done" /\ ~hook

\* A clean exit loses no event that was taken from the ring buffer: the channel
\* is drained and the worker has finished before main returns
\* (cmd/agent/main.go:264-265).
Drained ==
    main \in {"closeLoader", "closeObjs", "exited"} =>
        \A i \in Ids : place[i] \notin {"hand", "queue", "worker"}

-----------------------------------------------------------------------------
(* The agent implements Accounting: a call is pending until its place is   *)
(* final.                                                                  *)

Verdict == [i \in Ids |-> IF place[i] \in Final THEN place[i] ELSE "pending"]

Acc == INSTANCE Accounting
         WITH verdict <- Verdict, tally <- ioctlTotal, drops <- eventsDropped

\* Every step of the agent is a step of the abstract accounting or leaves it
\* unchanged (bpf/drm_common.bpf.c:45-86, cmd/agent/main.go:199-262).
ImplementsAccounting == Acc!AccSpec

=============================================================================
