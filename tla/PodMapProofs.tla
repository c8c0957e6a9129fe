---------------------------- MODULE PodMapProofs ----------------------------
(***************************************************************************)
(* Theorems about package podmap: about PodMap, for every set of cgroups   *)
(* and containers, every interval and every cache TTL; and about the       *)
(* parser, for every path of CgroupTree.                                   *)
(***************************************************************************)
EXTENDS PodMap, CgroupTree, TLAPS

\* The numbers are numbers.
LEMMA Numbers ==
    /\ Interval \in Nat \ {0} /\ CacheTTL \in Nat \ {0}
    /\ CriTimeout \in Nat \ {0} /\ MaxTime \in Nat \ {0}
    /\ Zero \in Cgroups
  BY PodMapAssumption

\* What the parser can return for a cgroup of the model.
LEMMA ParsedCases ==
    ASSUME NEW c \in Cgroups
    PROVE  /\ Parsed(c).st = "ok" => /\ Parsed(c).id \in HexIds
                                     /\ Parsed(c) = Ok(Parsed(c).id)
           /\ Parsed(c).st # "ok" => Parsed(c).st \in {"not_pod", "other"}
<1>1. Parsed(c) \in {NotPod, Invalid} \cup {Ok(id) : id \in HexIds}
  BY PodMapAssumption
<1>2. CASE Parsed(c) = NotPod
  BY <1>2 DEF NotPod
<1>3. CASE Parsed(c) = Invalid
  BY <1>3 DEF Invalid
<1>4. CASE \E id \in HexIds : Parsed(c) = Ok(id)
  BY <1>4 DEF Ok
<1> QED
  BY <1>1, <1>2, <1>3, <1>4

\* The names of a container are Infos, if it has names.
LEMMA NamesTyped ==
    ASSUME NEW id \in HexIds, NamesOf[id] # NoPod PROVE NamesOf[id] \in Infos
  BY PodMapAssumption

\* Each action of the model, as a case of PodMapNext.
LEMMA PodMapCases ==
    ASSUME [PodMapNext]_podVars
    PROVE  \/ IsZero \/ Hit \/ Miss \/ ParseIndexed \/ ParseMissing
           \/ Throttled \/ WalkStart \/ WalkEnd \/ CriReply \/ CriNames
           \/ CriNoLabels \/ CriNotFound \/ CriError \/ Leave \/ Tick
           \/ BuildStart \/ BuildEnd
           \/ \E c \in Cgroups : Call(c) \/ WalkError(c) \/ Mkdir(c) \/ Rmdir(c)
           \/ \E id \in HexIds : Forget(id)
           \/ UNCHANGED podVars
  BY DEF PodMapNext, ContainerInfo

-----------------------------------------------------------------------------
LEMMA TypesInit == PodMapInit => PodMapTypeOK
<1> SUFFICES ASSUME PodMapInit PROVE PodMapTypeOK
  OBVIOUS
<1> USE Numbers DEF PodMapInit
<1>1. NodeTypeOK
  <2>1. life \in [Cgroups -> [st : {"unborn", "live", "dead"},
                              since : Times \cup {0}]]
    OBVIOUS
  <2> QED
    BY <2>1 DEF NodeTypeOK, Times
<1>2. IndexTypeOK
  BY DEF IndexTypeOK, Times
<1>3. CacheTypeOK
  BY DEF CacheTypeOK, EmptyMap
<1>4. CallTypeOK
  BY DEF CallTypeOK
<1> QED
  BY <1>1, <1>2, <1>3, <1>4 DEF PodMapTypeOK

\* A lookup returns a well-typed answer.
LEMMA ReturnTyped ==
    ASSUME CallTypeOK, NEW a, Return(a),
           a \in [err : {"none"}, info : Infos] \cup [err : Errors, info : {NoPod}]
    PROVE  CallTypeOK'
  BY DEF CallTypeOK, Return, Errors

LEMMA FailureTyped ==
    ASSUME NEW e \in Errors
    PROVE  Failure(e) \in [err : {"none"}, info : Infos]
                             \cup [err : Errors, info : {NoPod}]
  BY DEF Failure

LEMMA SuccessTyped ==
    ASSUME NEW i \in Infos
    PROVE  Success(i) \in [err : {"none"}, info : Infos]
                             \cup [err : Errors, info : {NoPod}]
  BY DEF Success

LEMMA TypesStep == PodMapTypeOK /\ [PodMapNext]_podVars => PodMapTypeOK'
<1> SUFFICES ASSUME PodMapTypeOK, [PodMapNext]_podVars PROVE PodMapTypeOK'
  OBVIOUS
<1> USE DEF PodMapTypeOK, nodeVars, indexVars, walkVars
<1>1. NodeTypeOK'
  <2>1. CASE Tick
    BY <2>1, Numbers DEF Tick, NodeTypeOK, Times
  <2>2. CASE \E c \in Cgroups : Mkdir(c) \/ Rmdir(c)
    <3> PICK c \in Cgroups : Mkdir(c) \/ Rmdir(c)
      BY <2>2
    <3>1. PICK s \in {"live", "dead"} :
              life' = [life EXCEPT ![c] = [st |-> s, since |-> now]]
      BY DEF Mkdir, Rmdir, Become
    <3>2. now' = now /\ forgot' = forgot
      BY DEF Mkdir, Rmdir
    <3> QED
      BY <3>1, <3>2 DEF NodeTypeOK
  <2>3. CASE \E id \in HexIds : Forget(id)
    BY <2>3 DEF Forget, NodeTypeOK
  <2>4. CASE UNCHANGED nodeVars
    BY <2>4 DEF NodeTypeOK
  <2> QED
    BY <2>1, <2>2, <2>3, <2>4, PodMapCases
       DEF IsZero, Hit, Miss, ParseIndexed, ParseMissing, Throttled, WalkStart,
           WalkEnd, CriReply, CriNames, CriNoLabels, CriNotFound, CriError,
           Leave, Call, BuildStart, BuildEnd, WalkError, podVars
<1>2. IndexTypeOK'
  <2>1. CASE WalkStart \/ BuildStart
    BY <2>1 DEF WalkStart, BuildStart, BeginWalk, IndexTypeOK, NodeTypeOK, Live
  <2>2. CASE WalkEnd \/ BuildEnd
    BY <2>2 DEF WalkEnd, BuildEnd, IndexWalked, IndexTypeOK, NodeTypeOK
  <2>3. CASE \E c \in Cgroups : WalkError(c) \/ Mkdir(c) \/ Rmdir(c)
    BY <2>3 DEF WalkError, Mkdir, Rmdir, IndexTypeOK
  <2>4. CASE UNCHANGED <<indexVars, walkVars>>
    BY <2>4 DEF IndexTypeOK
  <2> QED
    BY <2>1, <2>2, <2>3, <2>4, PodMapCases
       DEF IsZero, Hit, Miss, ParseIndexed, ParseMissing, Throttled, CriReply,
           CriNames, CriNoLabels, CriNotFound, CriError, Leave, Call, Tick,
           Forget, podVars
<1>3. CacheTypeOK'
  <2>1. CASE WalkEnd
    BY <2>1 DEF WalkEnd, CacheTypeOK, EmptyMap
  <2>2. CASE CriNames
    <3>1. Id \in HexIds
      BY <2>2, ParsedCases DEF CriNames, CallTypeOK, Id
    <3>2. [info |-> NamesOf[Id], storedAt |-> now]
             \in [info : Infos, storedAt : Times]
      BY <2>2, <3>1, NamesTyped DEF CriNames, NodeTypeOK
    <3> QED
      BY <2>2, <3>2 DEF CriNames, CacheTypeOK, CallTypeOK, Put
  <2>3. CASE UNCHANGED cache
    BY <2>3 DEF CacheTypeOK
  <2> QED
    BY <2>1, <2>2, <2>3, PodMapCases
       DEF IsZero, Hit, Miss, ParseIndexed, ParseMissing, Throttled, WalkStart,
           CriReply, CriNoLabels, CriNotFound, CriError, Leave, Call, Tick,
           Forget, Mkdir, Rmdir, BuildStart, BuildEnd, WalkError, podVars
<1>4. CallTypeOK'
  <2>1. CASE \E c \in Cgroups : Call(c)
    BY <2>1 DEF Call, CallTypeOK
  <2>2. CASE IsZero \/ CriError
    BY <2>2, ReturnTyped, FailureTyped DEF IsZero, CriError, Errors
  <2>3. CASE CriNoLabels \/ CriNotFound \/ Throttled
    BY <2>3, ReturnTyped, FailureTyped
       DEF CriNoLabels, CriNotFound, Throttled, Errors
  <2>4. CASE Hit
    <3>1. cache[cg].info \in Infos
      BY <2>4 DEF Hit, Fresh, CacheTypeOK
    <3> QED
      BY <2>4, <3>1, ReturnTyped, SuccessTyped DEF Hit
  <2>5. CASE CriNames
    <3>1. Id \in HexIds
      BY <2>5, ParsedCases DEF CriNames, CallTypeOK, Id
    <3>2. NamesOf[Id] \in Infos
      BY <2>5, <3>1, NamesTyped DEF CriNames
    <3> QED
      BY <2>5, <3>2, ReturnTyped, SuccessTyped DEF CriNames
  <2>6. CASE ParseIndexed
    <3>1. CASE Parsed(cg).st = "ok"
      BY <2>6, <3>1 DEF ParseIndexed, CallTypeOK, NodeTypeOK
    <3>2. CASE Parsed(cg).st # "ok"
      <4>1. Parsed(cg).st \in Errors
        BY <3>2, ParsedCases DEF CallTypeOK, Errors
      <4> QED
        BY <2>6, <3>2, <4>1, ReturnTyped, FailureTyped DEF ParseIndexed
    <3> QED
      BY <3>1, <3>2
  <2>7. CASE ParseMissing
    <3>1. CASE pc = "parse"
      BY <2>7, <3>1 DEF ParseMissing, CallTypeOK
    <3>2. CASE pc # "parse"
      BY <2>7, <3>2, ReturnTyped, FailureTyped DEF ParseMissing, Errors
    <3> QED
      BY <3>1, <3>2
  <2>8. CASE Miss \/ WalkStart \/ WalkEnd \/ BuildStart \/ BuildEnd \/ CriReply
    BY <2>8 DEF Miss, WalkStart, WalkEnd, BuildStart, BuildEnd, CriReply,
                CallTypeOK
  <2>9. CASE Leave
    BY <2>9, Numbers DEF Leave, CallTypeOK
  <2>10. CASE UNCHANGED callVars
    BY <2>10 DEF callVars, CallTypeOK
  <2> QED
    BY <2>1, <2>2, <2>3, <2>4, <2>5, <2>6, <2>7, <2>8, <2>9, <2>10, PodMapCases
       DEF Tick, Forget, Mkdir, Rmdir, WalkError, podVars
<1> QED
  BY <1>1, <1>2, <1>3, <1>4

\* The variables of PodMap keep their types (pkg/podmap/podmap.go:68-116).
THEOREM PodMapTypes == PodMapSpec => []PodMapTypeOK
  BY TypesInit, TypesStep, PTL DEF PodMapSpec

-----------------------------------------------------------------------------
(* The rebuild rate.  The invariant ties the counter to lastUpdated, and   *)
(* remembers during a walk that the check of the interval has been passed. *)

RateInv ==
    /\ lastUpdated <= now
    /\ rebuilds * Interval <= lastUpdated - 1
    /\ pc = "walk" => lastUpdated + Interval <= now

LEMMA RateStep == PodMapTypeOK /\ RateInv /\ [PodMapNext]_podVars => RateInv'
<1> SUFFICES ASSUME PodMapTypeOK, RateInv, [PodMapNext]_podVars PROVE RateInv'
  OBVIOUS
<1> USE Numbers DEF PodMapTypeOK, NodeTypeOK, IndexTypeOK, Times
<1>1. CASE WalkEnd
  <2>1. (rebuilds + 1) * Interval = rebuilds * Interval + Interval
    OBVIOUS
  <2>2. rebuilds * Interval \in Nat
    OBVIOUS
  <2> QED
    BY <1>1, <2>1, <2>2 DEF WalkEnd, IndexWalked, RateInv, nodeVars
<1>2. CASE WalkStart
  BY <1>2 DEF WalkStart, RateInv, nodeVars, indexVars
<1>3. CASE BuildEnd
  <2>1. rebuilds * Interval \in Nat
    OBVIOUS
  <2> QED
    BY <1>3, <2>1 DEF BuildEnd, IndexWalked, RateInv, nodeVars
<1>4. CASE Tick
  BY <1>4 DEF Tick, RateInv, indexVars, callVars
<1>5. CASE UNCHANGED <<now, indexVars>> /\ (pc' = pc \/ pc' # "walk")
  BY <1>5 DEF RateInv, indexVars
<1> QED
  BY <1>1, <1>2, <1>3, <1>4, <1>5, PodMapCases
     DEF IsZero, Hit, Miss, ParseIndexed, ParseMissing, Throttled, CriReply,
         CriNames, CriNoLabels, CriNotFound, CriError, Leave, Call, Forget,
         Mkdir, Rmdir, BuildStart, WalkError, Return, podVars, nodeVars,
         callVars

\* The tree is walked at most once per interval, whatever the events are.
THEOREM RebuildRateHolds == PodMapSpec => []RebuildRate
<1>1. PodMapInit => RateInv
  BY Numbers DEF PodMapInit, RateInv
<1>2. PodMapTypeOK /\ RateInv => RebuildRate
  <2> SUFFICES ASSUME PodMapTypeOK, RateInv PROVE RebuildRate
    OBVIOUS
  <2>1. rebuilds * Interval \in Nat
    BY Numbers DEF PodMapTypeOK, IndexTypeOK
  <2> QED
    BY <2>1 DEF PodMapTypeOK, NodeTypeOK, IndexTypeOK, Times, RateInv, RebuildRate
<1> QED
  BY <1>1, <1>2, RateStep, PodMapTypes, PTL DEF PodMapSpec

-----------------------------------------------------------------------------
(* The cache.  An entry is stored only for an indexed cgroup, which a      *)
(* lookup that has reached the runtime still has, and there is none yet    *)
(* when the first index is installed.                                      *)

CacheInv ==
    /\ CacheWithinIndex
    /\ pc \in {"cri", "reply"} => cg \in index
    /\ pc \in {"none", "build"} => DOMAIN cache = {}

LEMMA CacheStep == PodMapTypeOK /\ CacheInv /\ [PodMapNext]_podVars => CacheInv'
<1> SUFFICES ASSUME PodMapTypeOK, CacheInv, [PodMapNext]_podVars PROVE CacheInv'
  OBVIOUS
<1> USE DEF CacheInv, CacheWithinIndex
<1>1. CASE WalkEnd
  BY <1>1 DEF WalkEnd, EmptyMap
<1>2. CASE CriNames
  BY <1>2 DEF CriNames, Put, Return, indexVars
<1>3. CASE ParseIndexed
  BY <1>3 DEF ParseIndexed, Return, indexVars
<1>4. CASE BuildStart \/ BuildEnd \/ CriReply
  BY <1>4 DEF BuildStart, BuildEnd, CriReply, indexVars
<1>5. CASE /\ UNCHANGED <<cache, index>>
           /\ \/ UNCHANGED callVars
              \/ pc' \notin {"cri", "reply", "none", "build"}
  BY <1>5 DEF callVars
<1> QED
  BY <1>1, <1>2, <1>3, <1>4, <1>5, PodMapCases
     DEF IsZero, Hit, Miss, ParseMissing, Throttled, WalkStart, CriNoLabels,
         CriNotFound, CriError, Leave, Call, Forget, Mkdir, Rmdir, WalkError,
         Tick, Return, podVars, indexVars

\* The cache holds entries of indexed cgroups only.
THEOREM CacheWithinIndexHolds == PodMapSpec => []CacheWithinIndex
<1>1. PodMapInit => CacheInv
  BY DEF PodMapInit, CacheInv, CacheWithinIndex, EmptyMap
<1>2. CacheInv => CacheWithinIndex
  BY DEF CacheInv
<1> QED
  BY <1>1, <1>2, CacheStep, PodMapTypes, PTL DEF PodMapSpec

-----------------------------------------------------------------------------
(* Misses.  Outside a walk, a live cgroup is indexed, younger than the     *)
(* last walk or lost to an error of it; during a walk, it has been there   *)
(* from the start, is younger than the start or has given an error.        *)

YoungInv ==
    /\ walkStart <= now
    /\ pc # "none" =>
         \A c \in Cgroups : life[c].st = "live" =>
           \/ life[c].since >= walkStart
           \/ c \in skipped
           \/ IF Walking THEN c \in always ELSE c \in index
    /\ pc = "rebuild" => cg \notin index
    /\ pc = "done" /\ ans.err = "not_indexed" => cg \notin index

LEMMA YoungStep == PodMapTypeOK /\ YoungInv /\ [PodMapNext]_podVars => YoungInv'
<1> SUFFICES ASSUME PodMapTypeOK, YoungInv, [PodMapNext]_podVars PROVE YoungInv'
  OBVIOUS
<1> USE DEF PodMapTypeOK, NodeTypeOK, IndexTypeOK, Times, nodeVars, indexVars,
            walkVars, callVars, Walking
<1>1. CASE Tick
  BY <1>1, Numbers DEF Tick, YoungInv
<1>2. CASE \E c \in Cgroups : Mkdir(c)
  BY <1>2, Numbers DEF Mkdir, Become, YoungInv
<1>3. CASE \E c \in Cgroups : Rmdir(c)
  BY <1>3, Numbers DEF Rmdir, Become, YoungInv
<1>4. CASE WalkStart \/ BuildStart
  BY <1>4, Numbers DEF WalkStart, BuildStart, BeginWalk, Live, YoungInv
<1>5. CASE WalkEnd \/ BuildEnd
  BY <1>5, Numbers DEF WalkEnd, BuildEnd, IndexWalked, YoungInv
<1>6. CASE IsZero \/ Hit \/ CriNames \/ CriNoLabels \/ CriNotFound \/ CriError
  BY <1>6 DEF IsZero, Hit, CriNames, CriNoLabels, CriNotFound, CriError,
              Return, Failure, Success, YoungInv
<1>7. CASE ParseIndexed
  <2>1. CASE Parsed(cg).st = "ok"
    BY <1>7, <2>1 DEF ParseIndexed, YoungInv
  <2>2. CASE Parsed(cg).st # "ok"
    <3>1. Parsed(cg).st # "not_indexed"
      BY <2>2, ParsedCases DEF CallTypeOK
    <3> QED
      BY <1>7, <2>2, <3>1 DEF ParseIndexed, Return, Failure, YoungInv
  <2> QED
    BY <2>1, <2>2
<1>8. CASE ParseMissing \/ Throttled
  BY <1>8 DEF ParseMissing, Throttled, Return, YoungInv
<1>9. CASE Miss \/ Leave \/ CriReply \/ \E c \in Cgroups : Call(c)
  BY <1>9 DEF Miss, Leave, CriReply, Call, YoungInv
<1>10. CASE \E id \in HexIds : Forget(id)
  BY <1>10 DEF Forget, YoungInv
<1>11. CASE UNCHANGED podVars
  BY <1>11 DEF podVars, YoungInv
<1>12. CASE \E c \in Cgroups : WalkError(c)
  BY <1>12 DEF WalkError, YoungInv
<1> QED
  BY <1>1, <1>2, <1>3, <1>4, <1>5, <1>6, <1>7, <1>8, <1>9, <1>10, <1>11, <1>12,
     PodMapCases

\* A cgroup that existed when the last walk began is "not indexed" while it
\* lives only if that walk met an error on the way to it, however the walk raced
\* with other cgroups (pkg/podmap/cgroup.go:58-116).
THEOREM MissOnlyYoungHolds == PodMapSpec => []MissOnlyYoung
<1>1. PodMapInit => YoungInv
  BY DEF PodMapInit, YoungInv
<1>2. PodMapTypeOK /\ YoungInv => MissOnlyYoung
  BY DEF PodMapTypeOK, CallTypeOK, YoungInv, MissOnlyYoung, Walking
<1> QED
  BY <1>1, <1>2, YoungStep, PodMapTypes, PTL DEF PodMapSpec

-----------------------------------------------------------------------------
(* Stale names.  The runtime still had the container when it gave the      *)
(* answer that an entry was made from, and the answer was on its way for   *)
(* no longer than CriTimeout.                                              *)

\* Entries, and an answer on its way.
StaleInv ==
    /\ \A c \in DOMAIN cache : \A id \in HexIds :
         c \in CgroupsOf(id) /\ forgot[id] # 0
           => cache[c].storedAt <= forgot[id] + CriTimeout
    /\ pc = "reply" => \A id \in HexIds :
         cg \in CgroupsOf(id) /\ forgot[id] # 0 => asked <= forgot[id]

\* Neither is from the future.
NotLater == asked <= now /\ \A c \in DOMAIN cache : cache[c].storedAt <= now

\* A lookup that asks the runtime asks about the only container of its cgroup.
LEMMA OneContainer ==
    ASSUME NEW id \in HexIds, cg \in CgroupsOf(id) PROVE Id = id
  BY DEF CgroupsOf, Ok, Id

\* An answer that arrives in time was asked for at most CriTimeout ago.
LEMMA InTimeBound ==
    ASSUME PodMapTypeOK, StaleInv, InTime, pc = "reply", NEW id \in HexIds,
           cg \in CgroupsOf(id), forgot[id] # 0
    PROVE  now <= forgot[id] + CriTimeout
<1>1. asked <= forgot[id]
  BY DEF StaleInv
<1>2. asked \in Nat /\ now \in Nat /\ forgot[id] \in Nat
  BY Numbers DEF PodMapTypeOK, CallTypeOK, NodeTypeOK, Times
<1> QED
  BY <1>1, <1>2, Numbers DEF InTime

LEMMA StaleStep ==
    PodMapTypeOK /\ StaleInv /\ NotLater /\ [PodMapNext]_podVars
        => StaleInv' /\ NotLater'
<1> SUFFICES ASSUME PodMapTypeOK, StaleInv, NotLater, [PodMapNext]_podVars
             PROVE  StaleInv' /\ NotLater'
  OBVIOUS
<1> USE DEF PodMapTypeOK, NodeTypeOK, CacheTypeOK, Times, nodeVars
<1>0. /\ \A c, id : (c \in CgroupsOf(id))' <=> c \in CgroupsOf(id)
      /\ asked \in Nat
  BY DEF CgroupsOf, Parsed, CallTypeOK
<1>1. CASE WalkEnd
  BY <1>1 DEF WalkEnd, EmptyMap, StaleInv, NotLater
<1>2. CASE CriNames
  <2>1. now' = now /\ forgot' = forgot /\ asked' = 0 /\ pc' = "done"
    BY <1>2 DEF CriNames, Return
  <2>2. NotLater'
    BY <1>2, <2>1 DEF CriNames, Put, NotLater
  <2>3. ASSUME NEW c \in DOMAIN cache', NEW id \in HexIds,
               c \in CgroupsOf(id), forgot[id] # 0
        PROVE  cache'[c].storedAt <= forgot[id] + CriTimeout
    <3>1. CASE c = cg
      <4>1. now <= forgot[id] + CriTimeout
        BY <1>2, <2>3, <3>1, InTimeBound DEF CriNames
      <4>2. cache'[c].storedAt = now
        BY <1>2, <3>1 DEF CriNames, Put
      <4> QED
        BY <4>1, <4>2
    <3>2. CASE c # cg
      BY <1>2, <2>3, <3>2 DEF CriNames, Put, StaleInv
    <3> QED
      BY <3>1, <3>2
  <2> QED
    BY <1>0, <2>1, <2>2, <2>3 DEF StaleInv
<1>3. CASE Tick
  <2>1. now' = now + 1 /\ UNCHANGED <<cache, forgot, pc, cg, asked>>
    BY <1>3 DEF Tick, callVars
  <2> QED
    BY <1>0, <2>1 DEF StaleInv, NotLater
<1>4. CASE \E id \in HexIds : Forget(id)
  <2> PICK d \in HexIds : Forget(d)
    BY <1>4
  <2>1. /\ now' = now /\ forgot' = [forgot EXCEPT ![d] = now]
        /\ UNCHANGED <<cache, pc, cg, asked>>
    BY DEF Forget, callVars
  <2>2. \A c \in DOMAIN cache : cache[c].storedAt <= now + CriTimeout
    BY Numbers DEF NotLater
  <2> QED
    BY <1>0, <2>1, <2>2 DEF StaleInv, NotLater
<1>5. CASE CriReply
  <2>1. /\ pc' = "reply"
        /\ UNCHANGED <<now, forgot, cache, cg, asked>> /\ forgot[Id] = 0
    BY <1>5 DEF CriReply, Known
  <2> QED
    BY <1>0, <2>1, OneContainer DEF StaleInv, NotLater
<1>6. CASE ParseIndexed
  <2>1. /\ UNCHANGED <<now, forgot, cache>> /\ pc' # "reply"
        /\ asked' \in {0, now}
    BY <1>6 DEF ParseIndexed, Return
  <2> QED
    BY <1>0, <2>1 DEF StaleInv, NotLater
<1>7. CASE /\ UNCHANGED <<cache, now, forgot>> /\ asked' \in {0, asked}
           /\ UNCHANGED <<pc, cg>> \/ pc' # "reply"
  BY <1>0, <1>7 DEF StaleInv, NotLater
<1> QED
  BY <1>1, <1>2, <1>3, <1>4, <1>5, <1>6, <1>7, PodMapCases
     DEF IsZero, Hit, Miss, ParseMissing, Throttled, WalkStart, CriNoLabels,
         CriNotFound, CriError, Leave, Call, Mkdir, Rmdir, BuildStart, BuildEnd,
         WalkError, Return, podVars, callVars

\* A forgotten container is named for less than CacheTTL + CriTimeout: the name
\* comes from an entry younger than CacheTTL or from an answer younger than
\* CriTimeout, and the runtime knew the container when it gave the answer
\* (pkg/podmap/podmap.go:68-116, pkg/podmap/cri.go:79-85).
THEOREM StaleBoundHolds == PodMapSpec => StaleBound
<1> DEFINE A == pc # "done" /\ pc' = "done" /\ ans'.err = "none"
                  => \A id \in HexIds :
                       cg \in CgroupsOf(id) /\ forgot[id] # 0
                         => now - forgot[id] < CacheTTL + CriTimeout
<1>1. PodMapInit => StaleInv /\ NotLater
  BY DEF PodMapInit, StaleInv, NotLater, EmptyMap
<1>2. PodMapTypeOK /\ StaleInv /\ NotLater /\ [PodMapNext]_podVars
        => [A]_podVars
  <2> SUFFICES ASSUME PodMapTypeOK, StaleInv, [PodMapNext]_podVars,
                      pc # "done", pc' = "done", ans'.err = "none",
                      NEW id \in HexIds, cg \in CgroupsOf(id), forgot[id] # 0
               PROVE  now - forgot[id] < CacheTTL + CriTimeout
    OBVIOUS
  <2>1. Hit \/ CriNames
    <3>1. \A e \in Errors : Failure(e).err # "none"
      BY DEF Failure, Errors
    <3>2. pc = "parse" \/ pc = "reparse" => Parsed(cg).st \in Errors \cup {"ok"}
      BY ParsedCases DEF PodMapTypeOK, CallTypeOK, Errors
    <3> QED
      BY <3>1, <3>2, PodMapCases
         DEF IsZero, Miss, ParseIndexed, ParseMissing, Throttled, WalkStart,
             WalkEnd, CriReply, CriNoLabels, CriNotFound, CriError, Leave, Call,
             Mkdir, Rmdir, Forget, Tick, BuildStart, BuildEnd, WalkError,
             Return, Errors, podVars, callVars
  <2>2. CASE Hit
    <3>1. cache[cg].storedAt <= forgot[id] + CriTimeout
      BY <2>2 DEF Hit, Fresh, StaleInv
    <3>2. cache[cg].storedAt \in Nat /\ forgot[id] \in Nat /\ now \in Nat
      BY <2>2 DEF Hit, Fresh, PodMapTypeOK, NodeTypeOK, CacheTypeOK, Times
    <3> QED
      BY <2>2, <3>1, <3>2, Numbers DEF Hit, Fresh
  <2>3. CASE CriNames
    <3>1. now <= forgot[id] + CriTimeout
      BY <2>3, InTimeBound DEF CriNames
    <3>2. forgot[id] \in Nat /\ now \in Nat
      BY DEF PodMapTypeOK, NodeTypeOK, Times
    <3> QED
      BY <3>1, <3>2, Numbers
  <2> QED
    BY <2>1, <2>2, <2>3
<1> QED
  BY <1>1, <1>2, StaleStep, PodMapTypes, PTL DEF PodMapSpec, StaleBound

-----------------------------------------------------------------------------
(* PodMap implements Resolver.  The cache holds the owner's names.         *)

OwnerInv == \A c \in DOMAIN cache : cache[c].info = Owner[c]

\* What the runtime says about a cgroup's container is the truth.
LEMMA CriTruth ==
    ASSUME PodMapTypeOK, pc \in {"cri", "reply"}
    PROVE  Id \in HexIds /\ Owner[cg] = NamesOf[Id]
<1>1. cg \in Cgroups /\ Parsed(cg) = Ok(Id) /\ Id \in HexIds
  BY ParsedCases DEF PodMapTypeOK, CallTypeOK, Id
<1> QED
  BY <1>1, PodMapAssumption

LEMMA OwnerStep == PodMapTypeOK /\ OwnerInv /\ [PodMapNext]_podVars => OwnerInv'
<1> SUFFICES ASSUME PodMapTypeOK, OwnerInv, [PodMapNext]_podVars PROVE OwnerInv'
  OBVIOUS
<1>1. CASE WalkEnd
  BY <1>1 DEF WalkEnd, EmptyMap, OwnerInv
<1>2. CASE CriNames
  BY <1>2, CriTruth DEF CriNames, Put, OwnerInv
<1>3. CASE UNCHANGED cache
  BY <1>3 DEF OwnerInv
<1> QED
  BY <1>1, <1>2, <1>3, PodMapCases
     DEF IsZero, Hit, Miss, ParseIndexed, ParseMissing, Throttled, WalkStart,
         CriReply, CriNoLabels, CriNotFound, CriError, Leave, Call, Mkdir,
         Rmdir, Forget, Tick, BuildStart, BuildEnd, WalkError, podVars

\* A return with a permitted answer is the step Finish of Resolver.
LEMMA ReturnFinishes ==
    ASSUME PodMapTypeOK, pc \notin {"none", "build", "idle", "done"}, NEW a,
           Return(a), a \in Res!Permitted(cg)
    PROVE  Res!ResolverNext
<1>1. Lookup = [st |-> "busy", cg |-> cg]
  BY DEF Lookup
<1>2. Lookup' = [st |-> "done", cg |-> cg, ans |-> a]
  BY DEF Lookup, Return
<1>3. Lookup.st = "busy" /\ Lookup.cg = cg
  BY <1>1
<1>4. Res!Finish(a)
  BY <1>2, <1>3 DEF Res!Finish
<1> QED
  BY <1>3, <1>4 DEF Res!ResolverNext

LEMMA AlwaysPermitted ==
    ASSUME NEW c, NEW e \in {"not_indexed", "container_not_found", "other"}
    PROVE  Failure(e) \in Res!Permitted(c)
  BY DEF Res!Permitted, Failure, Res!Failure

LEMMA NotPodPermitted ==
    ASSUME NEW c, Owner[c] = NoPod PROVE Failure("not_pod") \in Res!Permitted(c)
  BY DEF Res!Permitted, Failure, Res!Failure

LEMMA OwnerPermitted ==
    ASSUME NEW c, Owner[c] # NoPod
    PROVE  Success(Owner[c]) \in Res!Permitted(c)
  BY DEF Res!Permitted, Success, Res!Success

LEMMA ResolverStep ==
    PodMapTypeOK /\ OwnerInv /\ [PodMapNext]_podVars => [Res!ResolverNext]_Lookup
<1> SUFFICES ASSUME PodMapTypeOK, OwnerInv, [PodMapNext]_podVars, Lookup' # Lookup
             PROVE  Res!ResolverNext
  OBVIOUS
<1>1. CASE \E c \in Cgroups : Call(c)
  <2> PICK c \in Cgroups : Call(c)
    BY <1>1
  <2>1. Res!Begin(c)
    BY DEF Call, Res!Begin, Res!NoLookup, Lookup
  <2> QED
    BY <2>1 DEF Res!ResolverNext
<1>2. CASE IsZero \/ Throttled \/ CriNotFound \/ CriError
  BY <1>2, ReturnFinishes, AlwaysPermitted
     DEF IsZero, Throttled, CriNotFound, CriError
<1>3. CASE Hit
  <2>1. Owner[cg] # NoPod /\ cache[cg].info = Owner[cg]
    BY <1>3, OwnerAssumption DEF Hit, Fresh, OwnerInv, PodMapTypeOK, CacheTypeOK
  <2> QED
    BY <1>3, <2>1, ReturnFinishes, OwnerPermitted DEF Hit
<1>4. CASE CriNames
  BY <1>4, CriTruth, ReturnFinishes, OwnerPermitted DEF CriNames
<1>5. CASE CriNoLabels
  BY <1>5, CriTruth, ReturnFinishes, NotPodPermitted DEF CriNoLabels
<1>6. CASE ParseIndexed
  <2>1. CASE Parsed(cg).st = "ok"
    BY <1>6, <2>1 DEF ParseIndexed, Lookup
  <2>2. CASE Parsed(cg).st # "ok"
    <3>1. Parsed(cg).st = "not_pod" => Owner[cg] = NoPod
      BY PodMapAssumption DEF PodMapTypeOK, CallTypeOK, NotPod, Invalid, Ok
    <3>2. Failure(Parsed(cg).st) \in Res!Permitted(cg)
      BY <2>2, <3>1, ParsedCases, AlwaysPermitted, NotPodPermitted
         DEF PodMapTypeOK, CallTypeOK
    <3> QED
      BY <1>6, <2>2, <3>2, ReturnFinishes DEF ParseIndexed
  <2> QED
    BY <2>1, <2>2
<1>7. CASE ParseMissing
  <2>1. CASE pc = "parse"
    BY <1>7, <2>1 DEF ParseMissing, Lookup
  <2>2. CASE pc # "parse"
    BY <1>7, <2>2, ReturnFinishes, AlwaysPermitted DEF ParseMissing
  <2> QED
    BY <2>1, <2>2
<1>8. CASE Leave
  <2>1. Res!Release
    BY <1>8 DEF Leave, Lookup, Res!Release, Res!NoLookup
  <2> QED
    BY <2>1 DEF Res!ResolverNext
<1>9. CASE Miss \/ WalkStart \/ WalkEnd \/ CriReply \/ BuildStart \/ BuildEnd
  BY <1>9 DEF Miss, WalkStart, WalkEnd, CriReply, BuildStart, BuildEnd, Lookup
<1>10. CASE UNCHANGED callVars
  BY <1>10 DEF callVars, Lookup
<1> QED
  BY <1>1, <1>2, <1>3, <1>4, <1>5, <1>6, <1>7, <1>8, <1>9, <1>10, PodMapCases
     DEF Tick, Mkdir, Rmdir, Forget, WalkError, podVars

\* PodMap gives its caller only answers the abstract resolver permits, so the
\* agent may be checked against the resolver alone.
THEOREM PodMapImplementsResolver == PodMapSpec => ImplementsResolver
<1>1. PodMapInit => OwnerInv /\ Res!ResolverInit
  BY DEF PodMapInit, OwnerInv, EmptyMap, Res!ResolverInit, Res!NoLookup, Lookup
<1> QED
  BY <1>1, OwnerStep, ResolverStep, PodMapTypes, PTL
     DEF PodMapSpec, ImplementsResolver, Res!ResolverSpec

-----------------------------------------------------------------------------
(* The parser on the paths of CgroupTree. *)

\* Path t is path s with a directory e added below it.
Deeper(s, t, e) ==
    /\ \E T : t \in Seq(T)
    /\ Len(t) = Len(s) + 1
    /\ t[Len(s) + 1] = e
    /\ \A i \in 1 .. Len(s) : t[i] = s[i]

LEMMA Below ==
    ASSUME NEW S, NEW s \in Seq(S), NEW e PROVE Deeper(s, Append(s, e), e)
<1> DEFINE T == S \cup {e}
<1>1. s \in Seq(T)
  OBVIOUS
<1>2. e \in T
  OBVIOUS
<1> HIDE DEF T
<1>3. Append(s, e) \in Seq(T)
  BY <1>1, <1>2
<1> QED
  BY <1>1, <1>2, <1>3 DEF Deeper

\* Segments, parts and short sequences have the components they are made of.
LEMMA Fields ==
    ASSUME NEW a, NEW b
    PROVE  /\ Seg(a, b).pre = a /\ Seg(a, b).rest = b
           /\ Part(a, b).segs = a /\ Part(a, b).ext = b
  BY DEF Seg, Part

LEMMA OneSeg == ASSUME NEW a PROVE Len(<<a>>) = 1 /\ <<a>>[1] = a
  OBVIOUS

LEMMA TwoSegs ==
    ASSUME NEW a, NEW b
    PROVE  Len(<<a, b>>) = 2 /\ <<a, b>>[1] = a /\ <<a, b>>[2] = b
  OBVIOUS

LEMMA ThreeSegs ==
    ASSUME NEW a, NEW b, NEW c
    PROVE  /\ Len(<<a, b, c>>) = 3
           /\ <<a, b, c>>[1] = a /\ <<a, b, c>>[2] = b /\ <<a, b, c>>[3] = c
  OBVIOUS

\* A part of one segment names a pod only if that segment begins with "pod".
LEMMA SinglePart ==
    ASSUME NEW p, NEW a, NEW ext, p = Part(<<a>>, ext)
    PROVE  /\ Len(p.segs) = 1 /\ p.segs[1] = a /\ p.ext = ext
           /\ a.pre # "pod" => ~podUIDFromPart(p)
<1>1. p.segs = <<a>> /\ p.ext = ext
  BY Fields, Zenon
<1> DEFINE n == Len(p.segs)
<1>2. n = 1 /\ p.segs[1] = a
  BY <1>1, OneSeg, Zenon
<1>3. ~(n > 1)
  <2>1. n = 1
    BY <1>2
  <2> HIDE DEF n
  <2> QED
    BY <2>1
<1> QED
  BY <1>1, <1>2, <1>3, Zenon DEF podUIDFromPart, CgroupfsPodUID

\* A part of two segments names a pod if the second one has the UID, and not if
\* neither begins with "pod".
LEMMA DoublePart ==
    ASSUME NEW p, NEW a, NEW b, NEW ext, p = Part(<<a, b>>, ext)
    PROVE  /\ Len(p.segs) = 2 /\ p.segs[1] = a /\ p.segs[2] = b /\ p.ext = ext
           /\ a.pre # "pod" /\ b.pre # "pod" => ~podUIDFromPart(p)
           /\ b.pre = "pod" /\ b.rest # "" => SystemdPodUID(p)
<1>1. p.segs = <<a, b>> /\ p.ext = ext
  BY Fields, Zenon
<1> DEFINE s == p.segs
<1>2. Len(s) = 2 /\ s[1] = a /\ s[2] = b
  <2>1. s = <<a, b>>
    BY <1>1
  <2> HIDE DEF s
  <2> QED
    BY <2>1, TwoSegs, Zenon
<1>3. \A j : j \in 2 .. Len(s) <=> j = 2
  <2> HIDE DEF s
  <2> QED
    BY <1>2
<1>4. \A k : k \notin 2 .. (2 - 1)
  OBVIOUS
<1>5. a.pre # "pod" /\ b.pre # "pod" => ~SystemdPodUID(p) /\ ~CgroupfsPodUID(p)
  BY <1>2, <1>3, Zenon DEF SystemdPodUID, CgroupfsPodUID
<1>6. b.pre = "pod" /\ b.rest # "" => SystemdPodUID(p)
  BY <1>2, <1>3, <1>4, Zenon DEF SystemdPodUID
<1> QED
  BY <1>1, <1>2, <1>5, <1>6, Zenon DEF podUIDFromPart

\* A part of three segments names a pod if the third one is the first with a UID.
LEMMA TriplePart ==
    ASSUME NEW p, NEW a, NEW b, NEW c, NEW ext, p = Part(<<a, b, c>>, ext)
    PROVE  /\ Len(p.segs) = 3 /\ p.segs[1] = a /\ p.segs[3] = c /\ p.ext = ext
           /\ b.pre # "pod" /\ c.pre = "pod" /\ c.rest # "" => SystemdPodUID(p)
<1>1. p.segs = <<a, b, c>> /\ p.ext = ext
  BY Fields, Zenon
<1> DEFINE s == p.segs
<1>2. Len(s) = 3 /\ s[1] = a /\ s[2] = b /\ s[3] = c
  <2>1. s = <<a, b, c>>
    BY <1>1
  <2> HIDE DEF s
  <2> QED
    BY <2>1, ThreeSegs, Zenon
<1>3. 3 \in 2 .. Len(s)
  <2> HIDE DEF s
  <2> QED
    BY <1>2
<1>4. \A k \in 2 .. (3 - 1) : k = 2
  OBVIOUS
<1>5. b.pre # "pod" /\ c.pre = "pod" /\ c.rest # "" => SystemdPodUID(p)
  BY <1>2, <1>3, <1>4, Zenon DEF SystemdPodUID
<1> QED
  BY <1>1, <1>2, <1>5, Zenon

\* The segments the names are made of.
LEMMA Segments ==
    /\ Seg("kubepods", "").pre = "kubepods"
    /\ Seg("", "burstable").pre = ""
    /\ Seg("pod", "12").pre = "pod" /\ Seg("pod", "12").rest = "12"
    /\ Seg("pod", "12_34").pre = "pod" /\ Seg("pod", "12_34").rest = "12_34"
  BY DEF Seg

\* The level of a QoS class names no pod.
LEMMA QosParts ==
    /\ ~podUIDFromPart(Part(<<Seg("kubepods", ""), Seg("", "burstable")>>, "slice"))
    /\ ~podUIDFromPart(Part(<<Seg("", "burstable")>>, ""))
<1> DEFINE k == Seg("kubepods", "")
           q == Seg("", "burstable")
           two == Part(<<k, q>>, "slice")
           one == Part(<<q>>, "")
<1>1. k.pre # "pod" /\ q.pre # "pod"
  BY Segments
<1>2. two = Part(<<k, q>>, "slice") /\ one = Part(<<q>>, "")
  OBVIOUS
<1> HIDE DEF k, q, two, one
<1>3. ~podUIDFromPart(two) /\ ~podUIDFromPart(one)
  BY <1>1, <1>2, SinglePart, DoublePart, Zenon
<1> QED
  BY <1>3 DEF k, q, two, one

\* The directory of a pod names it, with and without a QoS class above it and
\* with either driver.
LEMMA PodDirectories ==
    /\ podUIDFromPart(Part(<<Seg("pod", "12"), Seg("", "34")>>, ""))
    /\ podUIDFromPart(Part(<<Seg("kubepods", ""), Seg("pod", "12_34")>>, "slice"))
    /\ podUIDFromPart(Part(<<Seg("kubepods", ""), Seg("", "burstable"),
                             Seg("pod", "12_34")>>, "slice"))
<1> DEFINE k == Seg("kubepods", "")
           q == Seg("", "burstable")
           u == Seg("pod", "12_34")
           v == Seg("pod", "12")
           w == Seg("", "34")
           fs    == Part(<<v, w>>, "")
           two   == Part(<<k, u>>, "slice")
           three == Part(<<k, q, u>>, "slice")
<1>1. /\ k.pre = "kubepods" /\ q.pre = "" /\ u.pre = "pod" /\ u.rest = "12_34"
      /\ v.pre = "pod" /\ v.rest = "12"
  BY Segments
<1>2. /\ fs = Part(<<v, w>>, "") /\ two = Part(<<k, u>>, "slice")
      /\ three = Part(<<k, q, u>>, "slice") /\ Seg("kubepods", "") = k
  OBVIOUS
<1> HIDE DEF k, q, u, v, w, fs, two, three
<1>3. v # k /\ q.pre # "pod" /\ u.rest # "" /\ v.rest # ""
  BY <1>1
<1>4. podUIDFromPart(fs)
  <2>1. fs.segs[1] = v
    BY <1>2, DoublePart, Zenon
  <2> QED
    BY <1>1, <1>2, <1>3, <2>1, Zenon DEF podUIDFromPart, CgroupfsPodUID
<1>5. podUIDFromPart(two)
  <2> DEFINE n == Len(two.segs)
  <2>0. two = Part(<<k, u>>, "slice")
    BY <1>2
  <2>1. /\ n = 2 /\ two.segs[1] = k /\ two.ext = "slice"
        /\ u.pre = "pod" /\ u.rest # "" => SystemdPodUID(two)
    BY <2>0, DoublePart, ZenonT(30)
  <2>2. n > 1
    <3>1. n = 2
      BY <2>1
    <3> HIDE DEF n
    <3> QED
      BY <3>1
  <2> QED
    BY <1>1, <1>2, <1>3, <2>1, <2>2, Zenon DEF podUIDFromPart
<1>6. podUIDFromPart(three)
  <2> DEFINE n == Len(three.segs)
  <2>0. three = Part(<<k, q, u>>, "slice")
    BY <1>2
  <2>1. /\ n = 3 /\ three.segs[1] = k /\ three.ext = "slice"
        /\ q.pre # "pod" /\ u.pre = "pod" /\ u.rest # "" => SystemdPodUID(three)
    BY <2>0, TriplePart, ZenonT(30)
  <2>2. n > 1
    <3>1. n = 3
      BY <2>1
    <3> HIDE DEF n
    <3> QED
      BY <3>1
  <2> QED
    BY <1>1, <1>2, <1>3, <2>1, <2>2, Zenon DEF podUIDFromPart
<1> QED
  BY <1>4, <1>5, <1>6 DEF k, q, u, v, w, fs, two, three

\* The directory of a container names its id.
LEMMA ContainerParts ==
    ASSUME NEW id \in HexIds
    PROVE  LET scope == Part(<<Seg("", "cri"), Seg("", "containerd"), Seg("", id)>>,
                             "scope")
               dir   == Part(<<Seg("", id)>>, "")
           IN  /\ scope # EmptyPart /\ containerIDFromPart(scope) = Ok(id)
               /\ dir # EmptyPart /\ containerIDFromPart(dir) = Ok(id)
<1> DEFINE a == Seg("", "cri")
           b == Seg("", "containerd")
           s == Seg("", id)
           n == Seg("", "")
           e == EmptyPart
           scope == Part(<<a, b, s>>, "scope")
           dir   == Part(<<s>>, "")
<1>1. s.pre = "" /\ s.rest = id /\ n.rest = ""
  BY DEF Seg
<1>2. /\ scope = Part(<<a, b, s>>, "scope") /\ dir = Part(<<s>>, "")
      /\ e = Part(<<n>>, "")
  BY DEF EmptyPart
<1>3. id # ""
  BY HexAssumption
<1> HIDE DEF a, b, s, n, e, scope, dir
<1>4. scope.segs[Len(scope.segs)] = s /\ scope.ext = "scope"
  <2>1. scope = Part(<<a, b, s>>, "scope")
    BY <1>2
  <2>2. Len(scope.segs) = 3 /\ scope.segs[3] = s /\ scope.ext = "scope"
    BY <2>1, TriplePart, ZenonT(30)
  <2> QED
    BY <2>2, Zenon
<1>5. dir.segs[Len(dir.segs)] = s /\ dir.segs[1] = s /\ dir.ext = ""
  BY <1>2, SinglePart, Zenon
<1>6. e.segs[1] = n /\ e.ext = ""
  BY <1>2, SinglePart, Zenon
<1>7. scope # e
  BY <1>4, <1>6
<1>8. dir # e
  BY <1>1, <1>3, <1>5, <1>6, Zenon
<1>9. containerIDFromPart(scope) = Ok(id) /\ containerIDFromPart(dir) = Ok(id)
  BY <1>1, <1>4, <1>5, Zenon DEF containerIDFromPart
<1> QED
  BY <1>7, <1>8, <1>9 DEF a, b, s, e, scope, dir

\* "kubepods" is not found in a part, and it names no pod.
HostPart(p) ==
    /\ \A j \in 1 .. Len(p.segs) : p.segs[j].pre # "kubepods"
    /\ ~podUIDFromPart(p)

\* "kubepods" begins a part.
KubePart(p) == HasKubepodsPrefix(p) /\ Len(p.segs) \in Nat \ {0}

LEMMA HostParts ==
    ASSUME NEW rest, NEW ext PROVE HostPart(Part(<<Seg("", rest)>>, ext))
<1> DEFINE g == Seg("", rest)
           p == Part(<<g>>, ext)
           n == Len(p.segs)
<1>1. g.pre # "pod" /\ g.pre # "kubepods"
  BY DEF Seg
<1>2. p = Part(<<g>>, ext)
  OBVIOUS
<1> HIDE DEF g, p
<1>3. n = 1 /\ p.segs[1] = g /\ ~podUIDFromPart(p)
  BY <1>1, <1>2, SinglePart, Zenon
<1>4. \A j \in 1 .. n : j = 1
  <2>1. n = 1
    BY <1>3
  <2> HIDE DEF n
  <2> QED
    BY <2>1
<1>5. HostPart(p)
  BY <1>1, <1>3, <1>4, Zenon DEF HostPart
<1> QED
  BY <1>5 DEF g, p

LEMMA KubepodsParts ==
    ASSUME NEW ext
    PROVE  LET p == Part(<<Seg("kubepods", "")>>, ext) IN
             KubePart(p) /\ ~podUIDFromPart(p)
<1> DEFINE k == Seg("kubepods", "")
           p == Part(<<k>>, ext)
           n == Len(p.segs)
<1>1. k.pre # "pod" /\ k.pre = "kubepods"
  BY Segments
<1>2. p = Part(<<k>>, ext)
  OBVIOUS
<1> HIDE DEF k, p
<1>3. n = 1 /\ p.segs[1] = k /\ ~podUIDFromPart(p)
  BY <1>1, <1>2, SinglePart, Zenon
<1>4. n \in Nat \ {0}
  <2>1. n = 1
    BY <1>3
  <2> HIDE DEF n
  <2> QED
    BY <2>1
<1>5. KubePart(p) /\ ~podUIDFromPart(p)
  BY <1>1, <1>3, <1>4, Zenon DEF KubePart, HasKubepodsPrefix
<1> QED
  BY <1>5 DEF k, p

\* Every part of the path is one in which "kubepods" is not found.
HostOnly(p) == \A i \in 1 .. Len(p) : HostPart(p[i])

UnderKubepods(p) == \E i \in 1 .. Len(p) : KubePart(p[i])

\* Part i is the first one that names a pod.
FirstPod(p, i) ==
    /\ i \in 1 .. Len(p)
    /\ podUIDFromPart(p[i])
    /\ \A j \in 1 .. (i - 1) : ~podUIDFromPart(p[j])
    /\ \E k \in 1 .. i : KubePart(p[k])

\* The parts of the path, by what created the last one.
Shaped ==
    /\ \E S : path \in Seq(S)
    /\ driver \in {"systemd", "cgroupfs"}
    /\ level \in {"root", "host", "kubepods", "qos", "pod", "container", "inside"}
    /\ level \in {"root", "host"} => HostOnly(path)
    /\ level \in {"kubepods", "qos"} =>
         /\ UnderKubepods(path)
         /\ \A i \in 1 .. Len(path) : ~podUIDFromPart(path[i])
    /\ level = "pod" => FirstPod(path, Len(path))
    /\ level \in {"container", "inside"} =>
         \E i \in 1 .. (Len(path) - 1) :
            /\ FirstPod(path, i)
            /\ path[i + 1] # EmptyPart
            /\ containerIDFromPart(path[i + 1]) = Ok(owner)

LEMMA ShapedInit == TreeInit => Shaped
<1> SUFFICES ASSUME TreeInit PROVE Shaped
  OBVIOUS
<1> DEFINE e == EmptyPart
           r == Part(<<Seg("", "cgroup")>>, "")
<1>1. path = <<e, r>> /\ level = "root" /\ driver \in {"systemd", "cgroupfs"}
  BY DEF TreeInit
<1>2. HostPart(e) /\ HostPart(r)
  BY HostParts, Zenon DEF EmptyPart
<1> HIDE DEF e, r
<1>3. path \in Seq({e, r}) /\ Len(path) = 2 /\ path[1] = e /\ path[2] = r
  BY <1>1, TwoSegs
<1>4. HostOnly(path)
  BY <1>2, <1>3 DEF HostOnly
<1> QED
  BY <1>1, <1>3, <1>4 DEF Shaped

\* A longer path is under kubepods if the shorter one is, and its first pod
\* stays where it is.
LEMMA Longer ==
    ASSUME NEW s, NEW t, NEW e, Len(s) \in Nat, Deeper(s, t, e)
    PROVE  /\ UnderKubepods(s) => UnderKubepods(t)
           /\ \A i : FirstPod(s, i) => FirstPod(t, i)
  BY DEF Deeper, UnderKubepods, FirstPod

LEMMA ShapedStep == ASSUME Shaped, [TreeNext]_treeVars PROVE Shaped'
<1> PICK S : path \in Seq(S)
  BY DEF Shaped
<1>0. /\ driver \in {"systemd", "cgroupfs"}
      /\ level \in {"root", "host", "kubepods", "qos", "pod", "container", "inside"}
      /\ Len(path) \in Nat
  BY DEF Shaped
<1> DEFINE Down(part) ==
      /\ \E T : path' \in Seq(T)
      /\ driver' \in {"systemd", "cgroupfs"}
      /\ Len(path') = Len(path) + 1
      /\ path'[Len(path) + 1] = part
      /\ \A i \in 1 .. Len(path) : path'[i] = path[i]
      /\ UnderKubepods(path) => UnderKubepods(path')
      /\ \A i : FirstPod(path, i) => FirstPod(path', i)
<1>1. ASSUME NEW part, NEW from, NEW to, Descend(part, from, to)
      PROVE  Down(part) /\ level \in from /\ level' = to
  <2>1. path' = Append(path, part) /\ driver' = driver /\ level \in from /\ level' = to
    BY <1>1 DEF Descend
  <2>2. Deeper(path, path', part)
    BY <2>1, Below, Zenon
  <2>3. /\ UnderKubepods(path) => UnderKubepods(path')
        /\ \A i : FirstPod(path, i) => FirstPod(path', i)
    BY <1>0, <2>2, Longer
  <2> QED
    BY <2>1, <2>2, <2>3, <1>0, Zenon DEF Deeper
<1> HIDE DEF Down
<1>2. ASSUME MkHost PROVE Shaped'
  <2> DEFINE part == Part(<<Seg("", "containerd")>>, "service")
  <2>1. Down(part) /\ level \in {"root", "host"} /\ level' = "host"
    BY <1>1, <1>2 DEF MkHost
  <2>2. HostPart(part)
    BY HostParts
  <2> HIDE DEF part
  <2>3. HostOnly(path')
    BY <2>1, <2>2, <1>0 DEF HostOnly, Down, Shaped
  <2> QED
    BY <2>1, <2>3 DEF Shaped, Down
<1>3. ASSUME MkKubepods PROVE Shaped'
  <2> DEFINE part == Part(<<Seg("kubepods", "")>>, IF driver = "systemd" THEN "slice" ELSE "")
  <2>1. Down(part) /\ level \in {"root"} /\ level' = "kubepods"
    BY <1>1, <1>3 DEF MkKubepods
  <2>2. KubePart(part) /\ ~podUIDFromPart(part)
    BY KubepodsParts
  <2> HIDE DEF part
  <2>3. UnderKubepods(path')
    BY <2>1, <2>2, <1>0 DEF Down, UnderKubepods
  <2>4. \A i \in 1 .. Len(path) : ~podUIDFromPart(path[i])
    BY <2>1 DEF Shaped, HostOnly, HostPart
  <2>5. \A i \in 1 .. Len(path') : ~podUIDFromPart(path'[i])
    BY <2>1, <2>2, <2>4, <1>0 DEF Down
  <2> QED
    BY <2>1, <2>3, <2>5 DEF Shaped, Down
<1>4. ASSUME MkQos PROVE Shaped'
  <2> DEFINE part == IF driver = "systemd"
                     THEN Part(<<Seg("kubepods", ""), Seg("", "burstable")>>, "slice")
                     ELSE Part(<<Seg("", "burstable")>>, "")
  <2>1. Down(part) /\ level \in {"kubepods"} /\ level' = "qos"
    BY <1>1, <1>4 DEF MkQos
  <2>2. ~podUIDFromPart(part)
    BY QosParts
  <2> HIDE DEF part
  <2>3. UnderKubepods(path') /\ \A i \in 1 .. Len(path') : ~podUIDFromPart(path'[i])
    BY <2>1, <2>2, <1>0 DEF Down, Shaped
  <2> QED
    BY <2>1, <2>3 DEF Shaped, Down
<1>5. ASSUME MkPod PROVE Shaped'
  <2> DEFINE part ==
               CASE driver = "cgroupfs" ->
                   Part(<<Seg("pod", "12"), Seg("", "34")>>, "")
                 [] driver = "systemd" /\ level = "kubepods" ->
                   Part(<<Seg("kubepods", ""), Seg("pod", "12_34")>>, "slice")
                 [] driver = "systemd" /\ level = "qos" ->
                   Part(<<Seg("kubepods", ""), Seg("", "burstable"),
                          Seg("pod", "12_34")>>, "slice")
  <2>1. Down(part) /\ level \in {"kubepods", "qos"} /\ level' = "pod"
    BY <1>1, <1>5 DEF MkPod
  <2>2. podUIDFromPart(part)
    <3>1. CASE driver = "cgroupfs"
      BY <3>1, PodDirectories
    <3>2. CASE driver = "systemd" /\ level = "kubepods"
      BY <3>2, PodDirectories
    <3>3. CASE driver = "systemd" /\ level = "qos"
      BY <3>3, PodDirectories
    <3> QED
      BY <2>1, <1>0, <3>1, <3>2, <3>3
  <2> HIDE DEF part
  <2>3. UnderKubepods(path') /\ \A i \in 1 .. Len(path) : ~podUIDFromPart(path'[i])
    BY <2>1, <1>0 DEF Down, Shaped
  <2>4. FirstPod(path', Len(path'))
    BY <2>1, <2>2, <2>3, <1>0 DEF Down, FirstPod, UnderKubepods
  <2> QED
    BY <2>1, <2>4 DEF Shaped, Down
<1>6. ASSUME NEW id \in HexIds, MkContainer(id) PROVE Shaped'
  <2> DEFINE part == IF driver = "systemd"
               THEN Part(<<Seg("", "cri"), Seg("", "containerd"), Seg("", id)>>, "scope")
               ELSE Part(<<Seg("", id)>>, "")
  <2>1. Down(part) /\ level \in {"pod"} /\ level' = "container" /\ owner' = id
    BY <1>1, <1>6 DEF MkContainer
  <2>2. part # EmptyPart /\ containerIDFromPart(part) = Ok(id)
    BY ContainerParts
  <2> HIDE DEF part
  <2>3. FirstPod(path, Len(path))
    BY <2>1 DEF Shaped
  <2>4. /\ FirstPod(path', Len(path))
        /\ Len(path) \in 1 .. (Len(path') - 1)
        /\ path'[Len(path) + 1] = part
    BY <2>1, <2>3, <1>0 DEF Down, FirstPod
  <2> QED
    BY <2>1, <2>2, <2>4 DEF Shaped, Down
<1>7. ASSUME NEW part \in InsideParts, MkInside(part) PROVE Shaped'
  <2>1. Down(part) /\ level \in {"container", "inside"} /\ level' = "inside" /\ owner' = owner
    BY <1>1, <1>7 DEF MkInside
  <2>2. PICK i \in 1 .. (Len(path) - 1) :
            /\ FirstPod(path, i)
            /\ path[i + 1] # EmptyPart
            /\ containerIDFromPart(path[i + 1]) = Ok(owner)
    BY <2>1 DEF Shaped
  <2>3. i \in 1 .. (Len(path') - 1) /\ FirstPod(path', i) /\ path'[i + 1] = path[i + 1]
    BY <2>1, <2>2, <1>0 DEF Down
  <2> QED
    BY <2>1, <2>2, <2>3 DEF Shaped, Down
<1>8. CASE UNCHANGED treeVars
  BY <1>8 DEF treeVars, Shaped
<1> QED
  BY <1>2, <1>3, <1>4, <1>5, <1>6, <1>7, <1>8 DEF TreeNext

\* A part that begins with "kubepods" makes strings.Contains find it.
LEMMA KubeContained ==
    ASSUME NEW p, NEW i \in 1 .. Len(p), KubePart(p[i]) PROVE ContainsKubepods(p)
<1> DEFINE n == Len(p[i].segs)
<1>1. 1 \in 1 .. n
  <2>1. n \in Nat \ {0}
    BY Zenon DEF KubePart
  <2> HIDE DEF n
  <2> QED
    BY <2>1
<1>2. p[i].segs[1].pre = "kubepods"
  BY DEF KubePart, HasKubepodsPrefix
<1> QED
  BY <1>1, <1>2, Zenon DEF ContainsKubepods

\* The loop of parseCgroupPath stops at the first pod.
LEMMA StopsAtFirst ==
    ASSUME NEW p, NEW i, Len(p) \in Nat, FirstPod(p, i)
    PROVE  ContainsKubepods(p) /\ PodParts(p) # {} /\ First(PodParts(p)) = i
<1>1. i \in PodParts(p) /\ \A j \in PodParts(p) : i <= j /\ j \in Nat
  <2>1. i \in 1 .. Len(p) /\ i \in PodParts(p)
    BY DEF FirstPod, PodParts, KubePart
  <2>2. ASSUME NEW j \in PodParts(p) PROVE i <= j /\ j \in Nat
    <3>1. j \in 1 .. Len(p) /\ podUIDFromPart(p[j])
      BY DEF PodParts
    <3>2. j \notin 1 .. (i - 1)
      BY <3>1 DEF FirstPod
    <3> QED
      BY <2>1, <3>1, <3>2
  <2> QED
    BY <2>1, <2>2
<1>2. ContainsKubepods(p)
  BY KubeContained DEF FirstPod
<1>3. /\ First(PodParts(p)) \in PodParts(p)
      /\ \A j \in PodParts(p) : First(PodParts(p)) <= j
  BY <1>1 DEF First
<1> QED
  BY <1>1, <1>2, <1>3

LEMMA ShapedFinds == ASSUME Shaped PROVE FindsContainer
<1>0. Len(path) \in Nat
  BY DEF Shaped
<1>1. CASE level \in {"root", "host"}
  <2>1. ~ContainsKubepods(path)
    BY <1>1, Zenon DEF Shaped, HostOnly, HostPart, ContainsKubepods
  <2> QED
    BY <1>1, <2>1 DEF FindsContainer, parseCgroupPath
<1>2. CASE level \in {"kubepods", "qos"}
  <2>1. PodParts(path) = {}
    BY <1>2 DEF Shaped, PodParts
  <2>2. ContainsKubepods(path)
    BY <1>2, KubeContained DEF Shaped, UnderKubepods
  <2> QED
    BY <1>2, <2>1, <2>2 DEF FindsContainer, parseCgroupPath
<1>3. CASE level = "pod"
  <2>1. FirstPod(path, Len(path))
    BY <1>3 DEF Shaped
  <2> QED
    BY <1>0, <1>3, <2>1, StopsAtFirst DEF FindsContainer, parseCgroupPath
<1>4. CASE level \in {"container", "inside"}
  <2>1. PICK i \in 1 .. (Len(path) - 1) :
            /\ FirstPod(path, i)
            /\ path[i + 1] # EmptyPart
            /\ containerIDFromPart(path[i + 1]) = Ok(owner)
    BY <1>4 DEF Shaped
  <2>2. ContainsKubepods(path) /\ PodParts(path) # {} /\ First(PodParts(path)) = i
    BY <1>0, <2>1, StopsAtFirst
  <2>3. i # Len(path)
    BY <1>0
  <2> QED
    BY <1>4, <2>1, <2>2, <2>3 DEF FindsContainer, parseCgroupPath
<1> QED
  BY <1>1, <1>2, <1>3, <1>4 DEF Shaped

\* On every path that the kubelet, the runtime and the processes of a container
\* can make, to any depth and with whatever names inside the container, the
\* parser finds the container the cgroup belongs to, or that there is none
\* (pkg/podmap/cgroup.go:28-56, 119-177).
THEOREM FindsContainerHolds == TreeSpec => []FindsContainer
<1>1. TreeInit => Shaped
  BY ShapedInit
<1>2. Shaped /\ [TreeNext]_treeVars => Shaped'
  BY ShapedStep
<1>3. Shaped => FindsContainer
  BY ShapedFinds
<1> QED
  BY <1>1, <1>2, <1>3, PTL DEF TreeSpec

=============================================================================
