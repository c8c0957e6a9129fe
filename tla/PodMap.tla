------------------------------- MODULE PodMap -------------------------------
(***************************************************************************)
(* Package podmap: PodMap.ContainerInfo with its cache, the cgroup index   *)
(* and the CRI client.  One goroutine (the worker of main.go) calls it;    *)
(* while it runs, time passes, cgroups appear and disappear under the      *)
(* directory walk, and the container runtime forgets containers.           *)
(***************************************************************************)
EXTENDS Containers, CgroupPath

CONSTANTS
    PathOf,     \* [Cgroups -> paths]: the directory of each cgroup
    NamesOf,    \* [HexIds -> Infos \cup {NoPod}]: the labels CRI reports
    Sandboxes,  \* ids below a pod that are no CRI containers (pause)
    Zero,       \* the cgroup id 0
    Interval,   \* KUBENPU_INTERVAL
    CacheTTL,   \* KUBENPU_CACHE_TTL
    CriTimeout, \* KUBENPU_CRI_TIMEOUT
    MaxTime     \* bound of the model: the clock

Parsed(cg) == parseCgroupPath(PathOf[cg])

\* Interval and CacheTTL are positive (NewPodMap refuses others), the first call
\* of the CRI client fails when CriTimeout is not (module Config), and what the
\* parser finds in a path is the truth (module CgroupTree).
ASSUME PodMapAssumption ==
    /\ Interval \in Nat \ {0}
    /\ CacheTTL \in Nat \ {0}
    /\ CriTimeout \in Nat \ {0}
    /\ MaxTime \in Nat \ {0}
    /\ Zero \in Cgroups /\ Owner[Zero] = NoPod
    /\ NamesOf \in [HexIds -> Infos \cup {NoPod}]
    /\ \A cg \in Cgroups :
        /\ Parsed(cg) \in {NotPod, Invalid} \cup {Ok(id) : id \in HexIds}
        /\ Parsed(cg) = NotPod => Owner[cg] = NoPod
        /\ \A id \in HexIds : Parsed(cg) = Ok(id) => Owner[cg] = NamesOf[id]

VARIABLES
    now,          \* the clock
    life,         \* each cgroup: unborn, live or dead, and since when
    forgot,       \* when the runtime removed each container, 0 if it has not
    index,        \* Index.byInode: the cgroups it knows
    lastUpdated,  \* Index.lastUpdated
    cache,        \* PodMap.cache: cgroup -> [info, storedAt]
    rebuilds,     \* PodMap.cgroupIndexRebuilds
    pc,           \* where NewPodMap or ContainerInfo is
    cg,           \* its argument
    ans,          \* its result: [err, info]
    asked,        \* when it made the context of its CRI call, 0 if it has none
    always,       \* cgroups the walk is certain to meet: there since it began
    ever,         \* cgroups it may meet: there at some time since then
    skipped,      \* cgroups still there that the last walk lost to an error
    walkStart     \* history: when the last finished or current walk began

callVars  == <<pc, cg, ans, asked>>
walkVars  == <<always, ever, skipped, walkStart>>
indexVars == <<index, lastUpdated, rebuilds>>
nodeVars  == <<now, life, forgot>>
podVars == <<nodeVars, indexVars, cache, callVars, walkVars>>

NoAnswer   == [err |-> "", info |-> NoPod]

Live == {c \in Cgroups : life[c].st = "live"}

\* A walk of the tree is in progress.
Walking == pc \in {"build", "walk"}

\* Some cgroups are there; the agent has not called NewPodMap yet.
PodMapInit ==
    /\ now = 1
    /\ \E S \in SUBSET (Cgroups \ {Zero}) :
         life = [c \in Cgroups |->
                   [st |-> IF c \in S THEN "live" ELSE "unborn", since |-> 0]]
    /\ forgot = [id \in HexIds |-> 0]
    /\ index = {} /\ lastUpdated = 1 /\ rebuilds = 0
    /\ cache = EmptyMap
    /\ pc = "none" /\ cg = Zero /\ ans = NoAnswer /\ asked = 0
    /\ always = {} /\ ever = {} /\ skipped = {} /\ walkStart = 1

-----------------------------------------------------------------------------
(* The node. *)

Tick ==
    /\ now < MaxTime
    /\ now' = now + 1
    /\ UNCHANGED <<life, forgot, indexVars, cache, callVars, walkVars>>

Become(c, st) == life' = [life EXCEPT ![c] = [st |-> st, since |-> now]]

CgroupsOf(id) == {c \in Cgroups : Parsed(c) = Ok(id)}

\* A cgroup directory is created; a cgroup id is never used again.
Mkdir(c) ==
    /\ c # Zero /\ life[c].st = "unborn"
    /\ \A id \in HexIds : c \in CgroupsOf(id) => forgot[id] = 0
    /\ Become(c, "live")
    /\ ever' = IF Walking THEN ever \cup {c} ELSE ever
    /\ UNCHANGED <<now, forgot, indexVars, cache, callVars, always, skipped,
                   walkStart>>

Rmdir(c) ==
    /\ life[c].st = "live"
    /\ Become(c, "dead")
    /\ always' = always \ {c}
    /\ skipped' = skipped \ {c}
    /\ UNCHANGED <<now, forgot, indexVars, cache, callVars, ever, walkStart>>

\* The runtime removes a container that has ended.
Forget(id) ==
    /\ forgot[id] = 0
    /\ \E c \in CgroupsOf(id) : life[c].st = "dead"
    /\ \A c \in CgroupsOf(id) : life[c].st # "live"
    /\ forgot' = [forgot EXCEPT ![id] = now]
    /\ UNCHANGED <<now, life, indexVars, cache, callVars, walkVars>>

-----------------------------------------------------------------------------
(* buildCgroupInodeMap: a walk of the tree, from BeginWalk to IndexWalked. *)

\* filepath.WalkDir begins.
BeginWalk ==
    /\ always' = Live /\ ever' = Live /\ skipped' = {}
    /\ walkStart' = now

\* The walk meets an error and the callback answers nil.  Info fails for the
\* directory of c, or ReadDir fails in a directory above it and the rest of
\* that directory is left out: c is lost, though it is there.  A ReadDir that
\* loses several cgroups is several such steps.
WalkError(c) ==
    /\ Walking /\ life[c].st = "live"
    /\ always' = always \ {c} /\ ever' = ever \ {c}
    /\ skipped' = skipped \cup {c}
    /\ UNCHANGED <<nodeVars, indexVars, cache, callVars, walkStart>>

\* The walk ends.  It has met every directory that was there all the time and
\* gave no error, and may have met or missed one that came or went meanwhile.
\* The new index is installed.
IndexWalked ==
    /\ \E S \in SUBSET ever : always \subseteq S /\ index' = S
    /\ lastUpdated' = now
    /\ always' = {} /\ ever' = {} /\ UNCHANGED <<skipped, walkStart>>

\* NewPodMap has accepted its arguments: BuildCgroupIndex.
BuildStart ==
    /\ pc = "none"
    /\ BeginWalk
    /\ pc' = "build" /\ UNCHANGED <<cg, ans, asked>>
    /\ UNCHANGED <<nodeVars, indexVars, cache>>

\* A pod map that leaves the first walk to the first miss.
BuildEndEmpty ==
    /\ pc = "build"
    /\ index' = {} /\ lastUpdated' = now
    /\ always' = {} /\ ever' = {} /\ UNCHANGED <<skipped, walkStart>>
    /\ pc' = "idle" /\ UNCHANGED <<cg, ans, asked>>
    /\ UNCHANGED <<nodeVars, rebuilds, cache>>

\* BuildCgroupIndex returns, the CRI client connects, and NewPodMap returns.
BuildEnd ==
    /\ pc = "build"
    /\ IndexWalked
    /\ pc' = "idle" /\ UNCHANGED <<cg, ans, asked>>
    /\ UNCHANGED <<nodeVars, rebuilds, cache>>

-----------------------------------------------------------------------------
(* ContainerInfo. *)

Return(a) == pc' = "done" /\ ans' = a /\ asked' = 0 /\ UNCHANGED cg

Fresh(c) == c \in DOMAIN cache /\ now - cache[c].storedAt < CacheTTL

\* The worker calls ContainerInfo with the cgroup of an event, which existed
\* when the event was made, or with 0.
Call(c) ==
    /\ pc = "idle" /\ (c = Zero \/ life[c].st # "unborn")
    /\ pc' = "start" /\ cg' = c /\ UNCHANGED <<ans, asked>>
    /\ UNCHANGED <<nodeVars, indexVars, cache, walkVars>>

\* cgroupID == 0.
IsZero ==
    /\ pc = "start" /\ cg = Zero
    /\ Return(Failure("other"))
    /\ UNCHANGED <<nodeVars, indexVars, cache, walkVars>>

\* A hit that also renews the entry.
HitRenews ==
    /\ pc = "start" /\ cg # Zero /\ Fresh(cg)
    /\ Return(Success(cache[cg].info))
    /\ cache' = [cache EXCEPT ![cg].storedAt = now]
    /\ UNCHANGED <<nodeVars, indexVars, walkVars>>

\* The entry is younger than CacheTTL.
Hit ==
    /\ pc = "start" /\ cg # Zero /\ Fresh(cg)
    /\ Return(Success(cache[cg].info))
    /\ UNCHANGED <<nodeVars, indexVars, cache, walkVars>>

Miss ==
    /\ pc = "start" /\ cg # Zero /\ ~Fresh(cg)
    /\ pc' = "parse" /\ UNCHANGED <<cg, ans, asked>>
    /\ UNCHANGED <<nodeVars, indexVars, cache, walkVars>>

\* Index.ParseCgroupToIDs for an indexed cgroup, before or after a rebuild.  If
\* it finds a container, ContainerNames makes its context and asks the runtime.
ParseIndexed ==
    /\ pc \in {"parse", "reparse"} /\ cg \in index
    /\ IF Parsed(cg).st = "ok"
       THEN pc' = "cri" /\ asked' = now /\ UNCHANGED <<cg, ans>>
       ELSE Return(Failure(Parsed(cg).st))
    /\ UNCHANGED <<nodeVars, indexVars, cache, walkVars>>

\* ErrNotIndexed: try to rebuild, or give up if the index has just been built.
ParseMissing ==
    /\ pc \in {"parse", "reparse"} /\ cg \notin index
    /\ IF pc = "parse" THEN pc' = "rebuild" /\ UNCHANGED <<cg, ans, asked>>
                       ELSE Return(Failure("not_indexed"))
    /\ UNCHANGED <<nodeVars, indexVars, cache, walkVars>>

\* RebuildCgroupIndex returns false: too early.
Throttled ==
    /\ pc = "rebuild" /\ now - lastUpdated < Interval
    /\ Return(Failure("not_indexed"))
    /\ UNCHANGED <<nodeVars, indexVars, cache, walkVars>>

\* A rebuild without the check of lastUpdated.
WalkStartUnthrottled ==
    /\ pc = "rebuild"
    /\ BeginWalk
    /\ pc' = "walk" /\ UNCHANGED <<cg, ans, asked>>
    /\ UNCHANGED <<nodeVars, indexVars, cache>>

\* The last walk is old enough.
WalkStart ==
    /\ pc = "rebuild" /\ now - lastUpdated >= Interval
    /\ BeginWalk
    /\ pc' = "walk" /\ UNCHANGED <<cg, ans, asked>>
    /\ UNCHANGED <<nodeVars, indexVars, cache>>

\* A rebuild after which the index is not consulted again.
WalkEndGivesUp ==
    /\ pc = "walk"
    /\ IndexWalked
    /\ rebuilds' = rebuilds + 1
    /\ cache' = EmptyMap
    /\ Return(Failure("not_indexed"))
    /\ UNCHANGED nodeVars

\* A rebuild that keeps the cache.
WalkEndKeepsCache ==
    /\ pc = "walk"
    /\ IndexWalked
    /\ rebuilds' = rebuilds + 1
    /\ pc' = "reparse" /\ UNCHANGED <<cg, ans, asked>>
    /\ UNCHANGED <<nodeVars, cache>>

\* The rebuild is counted, the cache cleared and the index consulted again.
WalkEnd ==
    /\ pc = "walk"
    /\ IndexWalked
    /\ rebuilds' = rebuilds + 1
    /\ cache' = EmptyMap
    /\ pc' = "reparse" /\ UNCHANGED <<cg, ans, asked>>
    /\ UNCHANGED nodeVars

Id == Parsed(cg).id

\* The runtime has a container with this id.
Known(id) == id \notin Sandboxes /\ forgot[id] = 0

\* The context of the call has not ended.
InTime == now - asked <= CriTimeout

\* The runtime answers ContainerStatus for a container it has.  The answer is on
\* its way, and what the runtime does now does not change it.
CriReply ==
    /\ pc = "cri" /\ Known(Id)
    /\ pc' = "reply" /\ UNCHANGED <<cg, ans, asked>>
    /\ UNCHANGED <<nodeVars, indexVars, cache, walkVars>>

\* CRIClient.ContainerNames: the answer arrives and its labels are complete; the
\* result is stored in the cache with the time of its arrival.
CriNames ==
    /\ pc = "reply" /\ InTime
    /\ NamesOf[Id] # NoPod
    /\ cache' = Put(cache, cg, [info |-> NamesOf[Id], storedAt |-> now])
    /\ Return(Success(NamesOf[Id]))
    /\ UNCHANGED <<nodeVars, indexVars, walkVars>>

\* A client that does not look whether the labels are there.
CriEmptyNames ==
    /\ pc = "reply" /\ InTime
    /\ NamesOf[Id] = NoPod
    /\ Return(Success(NamesOf[Id]))
    /\ UNCHANGED <<nodeVars, indexVars, cache, walkVars>>

\* The answer arrives, but a Kubernetes label is missing.
CriNoLabels ==
    /\ pc = "reply" /\ InTime
    /\ NamesOf[Id] = NoPod
    /\ Return(Failure("not_pod"))
    /\ UNCHANGED <<nodeVars, indexVars, cache, walkVars>>

\* A client that takes codes.NotFound for "no Kubernetes container".
CriNotFoundIsNotPod ==
    /\ pc = "cri" /\ ~Known(Id) /\ InTime
    /\ Return(Failure("not_pod"))
    /\ UNCHANGED <<nodeVars, indexVars, cache, walkVars>>

\* codes.NotFound.  A container that is gone stays gone, so the time this answer
\* takes does not show.
CriNotFound ==
    /\ pc = "cri" /\ ~Known(Id) /\ InTime
    /\ Return(Failure("container_not_found"))
    /\ UNCHANGED <<nodeVars, indexVars, cache, walkVars>>

\* CriTimeout expires, with or without an answer on its way, the call fails, or
\* the answer has no status.
CriError ==
    /\ pc \in {"cri", "reply"}
    /\ Return(Failure("other"))
    /\ UNCHANGED <<nodeVars, indexVars, cache, walkVars>>

\* The caller has used the answer.
Leave ==
    /\ pc = "done"
    /\ pc' = "idle" /\ cg' = Zero /\ ans' = NoAnswer /\ UNCHANGED asked
    /\ UNCHANGED <<nodeVars, indexVars, cache, walkVars>>

ContainerInfo ==
    \/ IsZero \/ Hit \/ Miss \/ ParseIndexed \/ ParseMissing \/ Throttled
    \/ WalkStart \/ WalkEnd
    \/ CriReply \/ CriNames \/ CriNoLabels \/ CriNotFound \/ CriError

PodMapNext ==
    \/ BuildStart \/ BuildEnd
    \/ ContainerInfo \/ Leave
    \/ Tick
    \/ \E c \in Cgroups : Call(c) \/ WalkError(c) \/ Mkdir(c) \/ Rmdir(c)
    \/ \E id \in HexIds : Forget(id)

PodMapSpec == PodMapInit /\ [][PodMapNext]_podVars

-----------------------------------------------------------------------------
(* Properties. *)

Times == 1 .. MaxTime

NodeTypeOK ==
    /\ now \in Times
    /\ life \in [Cgroups -> [st : {"unborn", "live", "dead"},
                             since : Times \cup {0}]]
    /\ forgot \in [HexIds -> Times \cup {0}]

IndexTypeOK ==
    /\ index \in SUBSET Cgroups
    /\ lastUpdated \in Times
    /\ rebuilds \in Nat
    /\ always \in SUBSET Cgroups
    /\ ever \in SUBSET Cgroups
    /\ skipped \in SUBSET Cgroups
    /\ walkStart \in Times

CacheTypeOK ==
    /\ DOMAIN cache \subseteq Cgroups
    /\ \A c \in DOMAIN cache : cache[c] \in [info : Infos, storedAt : Times]

CallTypeOK ==
    /\ pc \in {"none", "build", "idle", "start", "parse", "rebuild", "walk",
               "reparse", "cri", "reply", "done"}
    /\ cg \in Cgroups
    /\ IF pc \in {"cri", "reply"} THEN Parsed(cg).st = "ok" /\ asked \in Times
                                 ELSE asked = 0
    /\ pc = "done" => ans \in [err : {"none"}, info : Infos]
                                \cup [err : Errors, info : {NoPod}]
    /\ pc # "done" => ans = NoAnswer

\* The variables have the types of the Go structures; an answer is there
\* exactly while the caller has not taken it, a success always has names, and
\* the runtime is asked only about a container the path names.
PodMapTypeOK == NodeTypeOK /\ IndexTypeOK /\ CacheTypeOK /\ CallTypeOK

\* The cache never outgrows the index, so entries of removed cgroups go at the
\* latest when the index is rebuilt (pkg/podmap/podmap.go:94-96, 111-113).
CacheWithinIndex == DOMAIN cache \subseteq index

\* However many events miss the index, the cgroup tree is walked at most once
\* per interval since the start (pkg/podmap/cgroup.go:105).
RebuildRate == rebuilds * Interval <= now - 1

\* A live cgroup is reported as not indexed only if it is younger than the last
\* walk of the tree, or that walk met an error on the way to it: any other one
\* that was there when the walk began is found, and an error is not remembered
\* beyond the next walk (pkg/podmap/podmap.go:81-104,
\* pkg/podmap/cgroup.go:58-116).
MissOnlyYoung ==
    pc = "done" /\ ans.err = "not_indexed" /\ life[cg].st = "live"
        => life[cg].since >= walkStart \/ cg \in skipped

\* ContainerInfo names a container the runtime has forgotten for less than
\* CacheTTL and the time an answer may be on its way: an entry is not kept alive
\* by being read, and a late answer is not stored as a fresh one.  What main
\* does between the arrival of the answer and time.Now() takes no time here
\* (pkg/podmap/podmap.go:77, 106-112, pkg/podmap/cri.go:79-85).
StaleBound ==
    [][pc # "done" /\ pc' = "done" /\ ans'.err = "none"
         => \A id \in HexIds :
              cg \in CgroupsOf(id) /\ forgot[id] # 0
                => now - forgot[id] < CacheTTL + CriTimeout]_podVars

\* "a pod created after startup is picked up within one event" (README.md:39):
\* the first event of a container that runs and was created since the index was
\* built is not dropped as not indexed.
PickedUpWithinOneEvent ==
    pc = "done" /\ life[cg].st = "live" /\ Owner[cg] # NoPod
      /\ life[cg].since > lastUpdated
        => ans.err # "not_indexed"

-----------------------------------------------------------------------------
(* PodMap implements Resolver: a call is busy until its answer is there. *)

Lookup ==
    IF pc \in {"none", "build", "idle"} THEN [st |-> "idle"]
    ELSE IF pc = "done" THEN [st |-> "done", cg |-> cg, ans |-> ans]
    ELSE [st |-> "busy", cg |-> cg]

Res == INSTANCE Resolver WITH lookup <- Lookup

\* Every answer is one that Resolver permits: the owner's names and no others,
\* and ErrNotPod for a cgroup without an owner only
\* (pkg/podmap/podmap.go:68-116, pkg/podmap/cri.go:73-126).
ImplementsResolver == Res!ResolverSpec

=============================================================================
