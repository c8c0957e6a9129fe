# kubenpu in TLA+

kubenpu counts the accelerator ioctls of Kubernetes containers. An eBPF program
sees every `drm_ioctl` call, a Go agent turns the cgroup id of each call into a
namespace, pod and container name, and Prometheus scrapes the counters. This
directory holds TLA+ models of the agent, the TLC runs that check them on small
instances, and proofs that TLAPS checks for every size.

## The system

| part | state | operations | interacts with |
|---|---|---|---|
| eBPF program (`bpf/drm_common.bpf.c`) | `devices`, `ioctls` hashes, `events` ring buffer, per-CPU `dropped` | runs on each `drm_ioctl` | maps filled by the loader, ring buffer read by the agent |
| loader (`pkg/loader`) | BPF objects, link, reader, two `sync.Once` | AddDevice, AddIoctl, Attach, CreateReader, ReadEvent, CloseReader, Close, DroppedEvents | main, signal goroutine, collector |
| agent (`cmd/agent/main.go`) | deviceMap, channel, ready flag | startup, read loop, worker, signal goroutine, clean-up | everything |
| collector and server (`pkg/metrics`) | two counters, device info, listener | IncIoctl, IncEventsDropped, Collect, /readyz, Run, Shutdown | worker, reader, Prometheus |
| podmap (`pkg/podmap/podmap.go`) | cache, rebuild counter | ContainerInfo | worker, index, CRI |
| cgroup index (`pkg/podmap/cgroup.go`) | inode map, lastUpdated | Lookup, RebuildCgroupIndex, parseCgroupPath | cgroup file system |
| CRI client (`pkg/podmap/cri.go`) | connection | ContainerNames | container runtime |
| vendor registry (`pkg/hw`) | vendor list (fixed after init) | GetVendor, GetVendorID, Ioctls | main |
| discovery (`pkg/discovery`) | none | Discover | /dev, sysfs |
| configuration (`pkg/config`) | none | Load | environment |
| kubenpuctl (`cmd/kubenpuctl`) | none | prints Discover's result | discovery |

What is hard here: the program runs on all CPUs at once and the ring buffer
commits records in another order than it reserves them; the reader, the worker
and the signal goroutine run concurrently and meet at shutdown; the reader must
never block, so a full channel drops; the cgroup tree changes while the index
is being built; the cache and the index are both out of date by design, within
bounds that `KUBENPU_INTERVAL` and `KUBENPU_CACHE_TTL` set; a scrape holds the
mutex that the read loop and the worker need; devices come and go while they are
discovered, and their numbers are reused. `PROJECT.json` lists these hazards at
their lines, with the property that would catch each.

What makes each part correct: the program loses no supported call without
counting it; the agent counts a call at most once and under its own labels,
shuts down in order and always; podmap names the right container or says why
not; the tree is not walked too often, and an old cgroup is in the index unless
the walk could not read it; a
scrape shows a consistent cut and never goes back; discovery reports every
device that stays, with its own nodes and driver; a device number means the same
node to stat, to the program and to the worker; no environment brings up an
agent whose settings make no sense.

## Modules

* `Hw` - kinds, vendor matching, vendor ids, ioctl tables. Pure operators.
* `Containers` - cgroups and the containers that own them; the answers of
  ContainerInfo; notation for maps.
* `Workload` - devices and their nodes, the calls processes make, and the
  ground truth: which calls are supported and under which labels they belong.
* `DrmProbe` - the eBPF program. One step per helper call that touches shared
  state: the two lookups (`Observe`, `Ignore`), `Reserve` or `ReserveFails`, the
  load and the store of the loss counter, `Submit`. `calls` and `place` are
  history: the calls made and where the record of each is now.
* `Resolver` - what podmap promises the worker: the owner's names or one of four
  classes of errors, not_pod only for a cgroup without an owner.
* `Agent` - the process. It extends `DrmProbe` and `Resolver`, and has one group
  of actions per goroutine: `Startup` and `Reader` (main), `Worker`, `Shutdown`
  (signal goroutine), the server. `Killed` ends the process at any time without
  the deferred calls: log.Fatal during startup, a signal before `signal.Notify`,
  SIGKILL.
* `Accounting` - what the agent promises about its counters, without the
  pipeline. `Agent` implements it; the mapping takes every place that is not
  final for "pending".
* `CgroupPath` - `parseCgroupPath` over structured path parts.
* `CgroupTree` - how kubelet, runtime and containers create directories (code
  outside the repository, the parser's input).
* `PodMap` - `NewPodMap` with its walk of the cgroup tree (`BuildStart`,
  `BuildEnd`), then `ContainerInfo` step by step while the node changes. A walk,
  the first or one of a rebuild, may meet an error on a directory that is still
  there (`WalkError`): the callback answers it with nil, and the cgroup is in
  `skipped` and not in the index. The runtime's answer (`CriReply`) and its arrival
  (`CriNames`, `CriNoLabels`) are two steps, at most `CriTimeout` after the call
  was made (`InTime`), and the container may be removed in between. It implements
  `Resolver`; the mapping is idle, busy or done by `pc`.
* `Scrape` - `Agent` with requests to /metrics: `Collect` takes the mutex and the
  counters of user space, `DroppedEvents` reads the loss counters CPU by CPU,
  `Unlock` or `LookupFails` ends the response. A step of `Agent` that counts
  needs the mutex (`Unlocked`).
* `Discovery` - `Discover` and `discoverDevices` one system call at a time, then
  the device loop of main up to `Attach`, while devices are plugged in and out;
  `Ioctl` is a call on whatever device has the number by then. Its `NodesDisjoint`
  is what `WorkloadAssumption` asks of the devices.
* `Node` - the agent with `PodMap` in the place of `Resolver`. It extends both,
  and `lookup`, the state of the resolver, follows what the pod map shows of its
  own (`Lookup`). A call is made only by a cgroup that exists then. `NewPodMap` is
  part of startup here, from `BeginPodMap` to `NewPodMap`, when calls are already
  being recorded.
* `DevNumbers` - a device number from stat (`NodeKey`) and from the inode
  (`ProgramKey`) through the event to the worker's lookup, bit widths included.
  It justifies the opaque numbers of the other modules.
* `Config` - the environment, its conversion in fixed width, and the checks in
  `NewPodMap`, in the first CRI call and in `make`. It justifies the assumptions
  on `Interval`, `CacheTTL`, `CriTimeout` and `QueueSize`.
* `AgentProofs`, `PodMapProofs`, `ScrapeProofs`, `DiscoveryProofs`, `NodeProofs`,
  `DevNumbersProofs`, `ConfigProofs` - theorems about the modules they are named
  after; `PodMapProofs` also about `CgroupTree`. `AccountingProofs` has those
  theorems about `Agent` that count: sums, cardinalities and the refinement of
  `Accounting`.
* `MCAgent`, `MCScrape`, `MCDiscovery`, `MCNode`, `MCCgroupTree`, `MCPodMap`,
  `MCDevNumbers`, `MCConfig` - instances for TLC.

Definitions whose comment describes a fault (`CloseLoaderNoWait`, `HitRenews`,
`WalkEndKeepsCache` and so on) are variants of the definition that follows them,
with a plausible bug. They are in no next-state relation; substituting one for
the original must break the property named in `PROJECT.json` under "mutants".

### Abstractions

* A cgroup id and a container's names are opaque values, and so is a device
  number outside `DevNumbers`.
* The program's lookups read maps that do not change once it is attached, so
  both are in one step with the entry. A reserved record has its fields at
  once: no consumer looks at a busy record.
* The kernel skips the program when it is already running on that CPU (a
  preempted instance); such calls are outside `calls`.
* The ring buffer holds `RingCap` records; its byte layout is not modelled. The
  consumer stops at a busy record even if later ones are committed, as
  cilium/ebpf does.
* A reader that is being closed may still return records it had already found;
  both that and ErrClosed are allowed until it is closed.
* `FillDevice` in `Agent` handles one device in one step: nothing else runs yet.
  `Discovery` has its steps, since there the devices change under it.
* Choosing the default branch of the select (`SelectDefault`) and counting the
  drop (`EnqueueFull`) are two steps: the counter waits for the mutex, and the
  channel may have room again by then.
* Nobody but the reader and the worker changes what Collect copies, and both need
  the mutex, so the copy is one step. The rebuild counter is a single atomic load
  and left out of a response. promhttp's own gathering and text are external.
* `served` is the last response in the order in which Collect returned, which is
  what the mutex orders; the network may deliver responses otherwise.
* A file in /dev stands for its number: the kernel names a DRM or accel node
  after its minor. A failing stat of a file that exists has the effect of a
  failing uevent and is not a step of its own.
* `AddIoctls` fills a vendor's table in one step and leaves out which part of it
  is in the map when the agent exits.
* What ContainerInfo does between the arrival of an answer and `time.Now()`, and
  between the check of an entry's age and its return, takes no time: no tick of
  the clock falls between them, as they are one step.
* TLC counts with 32 bits. `DevNumbers` is checked with majors below 2^11 and
  minors below 2^19 and proved for all; `Config` has its width as a constant and
  is checked with 8 bits and ten units to the second.
* Signals after the first stay in the channel and are ignored by the code, so
  only one is sent. A failing server is only logged.
* ContainerInfo in `Agent` is one answer out of `Resolver!Permitted`; `PodMap`
  is shown to give no other. Only the worker calls it, so its mutex is idle.
* The directory walk is its start, the errors it meets and its end. The index it
  builds contains all that was there throughout and gave no error, and any part
  of what came or went meanwhile. An error may lose one cgroup (Info) or all that
  are below a directory (ReadDir); the second is several steps `WalkError`.
  As a whole a walk cannot fail: its callback answers every error with nil, so
  the error returns of both callers (cgroup.go:83-85, 92-94, 110-112) are
  never taken.
* A read of the ring buffer that fails other than by being closed takes no record,
  and a record too short for an event does not exist (the program reserves
  `sizeof(struct event)`); main logs and reads on (main.go:252-255), which changes
  nothing the model has.
* A cgroup id is never reused: ids of kernfs nodes are 64-bit on the supported
  64-bit kernels.
* The pod UID that the parser extracts is read by nobody and left out.

## Runs

| run | instance | checks |
|---|---|---|
| `agent_safety` | 2 CPUs, 3 devices (one unsupported), 3 kinds of calls, 3 calls, ring of 1, channel of 1 | TypeOK, Attribution, Conservation, ReadyMeansCounting, DeviceKnown, ObjectsOutliveReader, Drained, ImplementsAccounting |
| `agent_dropped_total` | 2 kinds of calls, 2 calls | DroppedTotal - violated |
| `cgroup_path` | both drivers, paths of up to 9 parts, 5 names inside a container | FindsContainer |
| `podmap` | a cgroup inside a container, a container without labels, clock 1 to 4, interval and TTL 2, CRI timeout 1 | PodMapTypeOK, CacheWithinIndex, RebuildRate, MissOnlyYoung, StaleBound, ImplementsResolver |
| `podmap_first_event` | one container, clock 1 to 4 | PickedUpWithinOneEvent - violated |
| `scrape_safety` | 2 CPUs, 2 requests, 2 calls, ring and channel of 1 | ScrapesMonotone, ScrapeBetween |
| `scrape_liveness` | 2 CPUs, a request, 2 calls, ring and channel of 1 | ReaderNeverWaits, EventSettles, SignalTerminates |
| `discovery` | 2 cards that may have either of two pairs of numbers, an NPU, a device without a driver, room for 2 nodes and 7 ioctls | TypeOK, SteadyFound, NodesDisjoint, SteadyCounted |
| `discovery_label` | the two cards | LabelIsDevice - violated |
| `node_refinement` | a container and a process outside the hierarchy, 2 calls, interval, TTL and CRI timeout 1, clock 1 to 2 | ImplementsAgent, DropOnlyYoung |
| `device_numbers` | 7 numbers around the boundaries of both encodings | TypeOK, WatchedExactly, OwnDevice |
| `configuration` | every environment of 6 settings out of 9 values | UpUsable |

Why the bounds are enough: three calls on two CPUs with a ring and a channel of
one fill the ring, the reader's hand, the channel and the worker at once, and
let both CPUs be in the loss counter together. Two vendors and a device
with two nodes are the least that can confuse ids, tables and nodes; a call
whose number is only in the other vendor's table tells them apart. With a
clock up to 4, an interval and a TTL of 2 and a timeout of 1 the index is rebuilt
after a first walk that took time, a container is removed while the answer about
it is on its way, and the entry made from that answer is hit and outlives its
TTL; sandboxes, more cgroups and longer histories are left to the proofs. In
`scrape_liveness` one call fills the channel of a worker that does not come back
and the other is in the reader's hand; one request is enough to keep the mutex
from the worker, the reader and the shutdown, which is all a second request would
wait for. Two requests on two CPUs let a response overlap another one and a slot
change before, while and after it is read. Two cards that can swap their pairs
of numbers, one of them unsupported, let a number pass to another device and
another driver at every point of the walk; the room in the hash is less than the
nodes a node may have, and enough for a smaller one. In `node_refinement` the
calls begin before the first walk does, and the second finds the first one's
entry in the cache or expired, and its cgroup indexed, missing, skipped or
gone. The numbers of `device_numbers` include one whose minor
needs a ninth bit and the accel major 261, which is 5 in a byte. In
`configuration` 12 seconds fit, 13 wrap to a negative duration, 26 to a positive
one, -13 too, and 128 is no integer of the width.

CPUs and requests are interchangeable in the model, so the safety runs of `Agent`
and `Scrape` use symmetry. Deadlock is not checked where the system stops: a
process that has exited, a path of full depth, a number that has made all its
steps, a configuration that has been judged. `PodMap` and `Discovery` never stop
and are checked for it.

Conservation is the ledger: supported calls made = records in flight + both
counters + the kernel's loss counter + lookups that main only logs. Attribution
says no label set ever shows more than the container really did.
ImplementsAccounting says the same step by step, and that a supported call is
never ignored or dropped as device_unknown, or as not_pod if it has an owner.
ScrapeBetween carries the ledger to what Prometheus sees: a response shows at
least what was accounted for when the request came and at most what was when it
ended. ImplementsAgent closes the gap between `Agent` and `PodMap`: what is checked
and proved of the agent with the abstract resolver holds of the composition.
DropOnlyYoung is its complement, what Resolver does not promise.

### Three disagreements between the documents and the code

* `podmap_first_event`: README.md:39-40 says a new pod "is picked up within one
  event". A miss within `KUBENPU_INTERVAL` of the last rebuild does not rebuild
  (`pkg/podmap/cgroup.go:105`), and the event is dropped as not_indexed. What
  does hold is MissOnlyYoung.
* `agent_dropped_total`: kubenpu_events_dropped_total is the "Total number of
  dropped events" (`pkg/metrics/metrics.go:82`). An event whose lookup fails
  otherwise - a CRI timeout, a pod-level cgroup - is logged and in no counter
  (`cmd/agent/main.go:229-232`).
* `discovery_label`: README.md:54-55 says "`device` is the PCI address, which
  survives reboots. `card1` does not, because its minor number can change." The
  agent knows a device by that number, and looks at the addresses only at startup
  (`cmd/agent/main.go:108`): a device that gets the number of one that has gone
  is counted under the address of that one. What does hold is SteadyCounted.

Also met, and not a matter of behaviour: README.md:55 says the node name is in
`kubenpu_device_info`; the series has no such label. A duration whose product
with time.Second wraps around to a positive value is accepted, a negative number
of seconds included, although NewPodMap asks for a positive interval; it takes
more than nine thousand million seconds. No document gives a range, so no property
excludes it. The shutdown timeout is checked nowhere; one that is not positive
makes Shutdown give up at once, which the model allows anyway.

### Fairness

Liveness is checked of `Scrape`, which contains `Agent`. `FairScrapeSpec` assumes
weak fairness of main (startup and read loop), of a BPF program that has been
entered and of a handler of /metrics that has been called. The Go scheduler and
the kernel give that. `WorkerFairness`, weak fairness of the worker and of the
signal goroutine, is the hypothesis of EventSettles and SignalTerminates only:
every wait inside their steps is bounded by `CriTimeout`, `ShutdownTimeout` or
the hand-over of a mutex. ReaderNeverWaits does without it, because the point is
that the reader goes on although the worker does not come back from a lookup.
Calls, signals, server failures, requests and kills are never assumed to happen.
With weak fairness alone a goroutine could miss the mutex for ever if requests
kept coming; the requests of a behaviour are finitely many, and Go's mutex hands
over to a waiter that has starved for a millisecond.

## Proofs

Every invariant and every action or refinement property of the passing runs is
stated by a theorem for all values of the constants. What each proof needs beyond
the property itself is its inductive invariant; all are conjunctions of named
parts, one lemma `...Kept` or `...Step` per part.

### podmap

`PodMapProofs`, for all constants that satisfy `PodMapAssumption` (positive
interval, TTL and CRI timeout, which `SettingsUsable` gives; and that the parser's result is
the cgroup's container, which `FindsContainerHolds` gives):

* `PodMapTypes` - PodMapTypeOK is inductive as it stands.
* `RebuildRateHolds` - the counter is bounded through lastUpdated:
  `rebuilds * Interval <= lastUpdated - 1 <= now - 1`. During a walk the
  invariant remembers `lastUpdated + Interval <= now`, since the check was made
  before the walk and lastUpdated is set after it.
* `CacheWithinIndexHolds` - a lookup that has reached the runtime has an
  indexed cgroup, so what it stores is within the index; and nothing is stored
  before the first index is there.
* `MissOnlyYoungHolds` - outside a walk every live cgroup is indexed, younger than
  the last walk or lost to an error of it; during one it is in `always`, younger
  than its start or has given an error (`YoungInv`).
* `StaleBoundHolds` - an answer that is on its way was asked for before the runtime
  forgot the container, so an entry was stored at most `CriTimeout` after that
  (`StaleInv`).
* `PodMapImplementsResolver` - with cached names equal to the owner's.
* `FindsContainerHolds` - for every path of `CgroupTree`, whatever a container
  names the directories it makes: no part names a pod above the pod's own
  directory, that directory does, and the part below it is the container
  (`Shaped`). The loop stops at the first such part, so nothing further down is
  looked at. It assumes what isHex checks, that an id is not empty
  (`HexAssumption`).

### agent

`AgentProofs`, for every node that satisfies `WorkloadAssumption` (the device
nodes of two devices are different: `NodesDisjointHolds`), every number of CPUs
and calls and every size of the ring buffer, the maps and the channel:

* `AgentTypes` - TypeOK, made inductive by two facts: a worker that waits for
  ContainerInfo has found its device in deviceMap (`WorkKnown`), and the
  goroutines are where `Ordered` says relative to one another.
* `ObjectsOutliveReaderHolds` - `Ordered` again: main leaves the read loop only
  because the signal goroutine is in CloseReader, and sync.Once lets it pass
  CloseReader only when that has returned.
* `DeviceKnownHolds` - the kernel maps and deviceMap have the same domain and
  say the truth (`MapsTrue`), so what the program, the ring buffer, the reader,
  the channel and the worker hold agrees with the call it stands for
  (`Carried`), the device included.
* `ReadyMeansCountingHolds` - the device loop has put every device it has passed
  into the kernel maps (`MapsComplete`); with `MapsTrue` the filter is exact. The
  flag is set only after the program is attached and the reader open; the signal
  goroutine clears it before it closes the reader, the program stays attached
  as long as main serves, and the server is closed once main is gone (`Gated`).
* `DrainedHolds` - no two stages hold the record of a call (`Located`), and a call
  that is on its way is held by the stage its place names (`Tracked`). The reader
  closes the channel when its hand is empty, the worker ends when the channel is
  closed and empty, main waits for it (`Closing`).

`AccountingProofs`, in addition for finitely many CPUs:

* `AttributionHolds` - the calls counted under a label set are a set of distinct
  calls with those labels (`Tallied`), and the counter is at most its
  cardinality. It rests on distinct vendor ids and on what `Resolver` permits.
* `ConservationHolds` - the counters add up to the calls whose place says so
  (`Ledger`), the filter has let exactly the supported calls through (`Sifted`),
  and the calls in flight are the ones in the other places: an instance of the
  program that has reserved a record still finds it in the ring buffer, because
  the reader stops at a busy record (`Reserved`), and the reader's hand is empty
  or holds a call (`Handed`). The slot of the loss counter is the CPU's own, so
  its load and store cannot lose an increment.
* `AgentImplementsAccounting` - step by step from `Moves`, which says which action
  can move a call, and where from.

The sums are folds over finite sets. What they satisfy (`SumOver` of a union with
one more key, of two functions that agree, of one that is below another) is proved
in the same module. The library's induction theorems cannot be used, so an
induction is an argument by minimal counterexample: a property that fails for a
number, or for a finite set, fails for a least one (`MinimalNat`, `MinimalSet`, from
the well-foundedness of `<` on Nat).

### scrapes

`ScrapeProofs`: every step of `Scrape` is one of `Agent` or leaves it alone
(`AgentUnderScrapes`), so the invariants above hold under scrapes.
`ScrapeBetweenHolds` and `ScrapesMonotoneHolds` come from one invariant,
`Scraped`. While a handler has the mutex, its copies are the counters, what it has
read of the loss counter is at most what the slots it has read hold, and what it
has read together with the slots it has still to read is at least what the last
response showed and what had been lost when the request came (`Gathered`); one
that waits for the mutex only knows that the accounts were as high as `since`
(`Waiting`); the last response is below the counters (`Behind`).

### discovery

`DiscoveryProofs`, for any number of files and devices and every order of
plugging, unplugging and failing reads:

* `DiscoveryTypes` - TypeOK. A driver is one of `DriverNames`.
* `NodesDisjointHolds` - a file that is still ahead of the walk is reported for
  no device, and a directory lists a file once (`Listed`), so the number that
  passes from one device to another is reported for one of them.
* `SteadyFoundHolds` - a device that has been there from the start has kept its
  files, and the uevent and the link that are read one after the other are both
  its own (`Stays`); each of its readable files is reported or still ahead
  (`Complete`).
* `SteadyCountedHolds` - a device with a vendor is still to come, or being handled,
  or in both maps with all of its nodes, and no later device takes one of them,
  because the nodes are disjoint (`Loop`).

### node

`NodeProofs` puts the parts together. The invariant `Composed` has the types of
both halves, `OwnerInv` and `YoungInv` of `PodMapProofs`, and `Linked`: the lookup the
agent sees is the pod map's, and nobody but a waiting worker has one.

* `NodeImplementsAgent` - every step of the node is a step of `Agent` or none: the
  answer ContainerInfo returns is permitted by `PodMapImplementsResolver`'s
  step lemma.
* `NodeKeepsAccounts` - so Conservation and Attribution hold on the node.
* `DropOnlyYoungHolds` - the only step that makes a call not_indexed is the worker's
  drop, of the call it holds (`Moves`, `Carried`), with the answer to a lookup of
  that call's cgroup (`Linked`), and `YoungInv` says which cgroups get that answer.
  The walk of `NewPodMap` starts it off.

### pure code

`DevNumbersProofs` proves, for every set of 12-bit majors and 20-bit minors,
that the two ways to a key give the number back (`StatRoundTrip`,
`KernelRoundTrip`, from one lemma about quotient and remainder), and from
that `TypeCorrect`, `WatchesAdded` and `ResolvesOwn`. The invariant says that
both maps hold exactly the added numbers, each once, and that an event carries
the number of its node.

`ConfigProofs` proves, for every width, unit and environment, `SettingsUsable`,
which uses nothing of the arithmetic: what getEnvInt checks, what NewPodMap
checks and what an expired context refuses cover each setting it names.

### Only model-checked

Liveness under fairness (ReaderNeverWaits, EventSettles,
SignalTerminates), which TLAPS does not reach. The properties of the three runs that expect a violation are
refuted by TLC and have no proof.

## Not modelled

kubenpuctl, which prints the result of `Discover` and keeps no state; generated
bindings, `vmlinux.h` and the other headers of libbpf; deployment manifests; the
text formats of Prometheus and of logs; `Weight` and `DeviceStats`, which are
stubs. Nothing of the agent survives its process, so a restart is a new behaviour
from `Init`: what happened in between is lost, as README.md:60-62 says.

## Plan

1. Done: the models and the runs above, and a theorem for every safety property,
   action property and refinement they check.
2. Next: `Scrape` with the pod map of `Node` behind it, so that what Prometheus
   sees is stated of the whole node; the assumptions of `Agent` and `PodMap` as
   consequences of `Discovery`, `Config` and `CgroupTree`, where now each is
   named next to the theorem that gives it.
