----------------------------- MODULE NodeProofs -----------------------------
(***************************************************************************)
(* Theorems about the whole node: the agent with the real pod map behind   *)
(* it is the agent of module Agent, so what AgentProofs and                *)
(* AccountingProofs show of that agent holds on the node.                  *)
(***************************************************************************)
EXTENDS Node, AccountingProofs, PodMapProofs

\* Each action of the model, as a case of NodeNext.
LEMMA NodeCases ==
    ASSUME [NodeNext]_allVars
    PROVE  \/ UNCHANGED podVars /\ (Process \/ Calls \/ Programs)
           \/ BeginPodMap \/ NewPodMap \/ WalkFails
           \/ WorkerCalls \/ WorkerWaits \/ WorkerUses \/ Machine
           \/ UNCHANGED <<vars, podVars>>
  BY DEF NodeNext, allVars

\* What the agent sees of the lookup is the state of ContainerInfo, and only the
\* worker waits for it.
Linked ==
    /\ lookup = Lookup
    /\ pc \notin {"none", "build", "idle"} => worker = "lookup"

\* What the lookup shows, by the place ContainerInfo is at.
LEMMA Shows ==
    ASSUME lookup = Lookup
    PROVE  /\ lookup = NoLookup <=> pc \in {"none", "build", "idle"}
           /\ lookup.st = "done" <=> pc = "done"
           /\ pc = "done" => lookup.cg = cg /\ lookup.ans = ans
           /\ pc \notin {"none", "build", "idle", "done"}
                => lookup.st = "busy" /\ lookup.cg = cg
<1>1. CASE pc \in {"none", "build", "idle"}
  BY <1>1 DEF Lookup, NoLookup
<1>2. CASE pc = "done"
  BY <1>2 DEF Lookup, NoLookup
<1>3. CASE pc \notin {"none", "build", "idle", "done"}
  BY <1>3 DEF Lookup, NoLookup
<1> QED
  BY <1>1, <1>2, <1>3

\* Every step of the pod map is one of module PodMap.
LEMMA PodMapSteps ==
    ASSUME [NodeNext]_allVars, Typed PROVE [PodMapNext]_podVars
<1>1. ASSUME WorkerCalls PROVE [PodMapNext]_podVars
  <2>1. queue \in Seq(Records) /\ queue # << >>
    BY <1>1 DEF WorkerCalls, WorkerRecv, Typed, TypeOK, ReaderTypeOK
  <2>2. Head(queue) \in Records
    BY <2>1
  <2>3. Head(queue).cgroup \in Cgroups
    BY <2>2 DEF Records
  <2> QED
    BY <1>1, <2>3 DEF WorkerCalls, PodMapNext
<1> QED
  BY <1>1, NodeCases DEF BeginPodMap, NewPodMap, WalkFails, WorkerWaits,
                         WorkerUses, Machine, PodMapNext

\* Returning an answer, or working on one, is WorkerAnswer or no step of the
\* agent at all.
LEMMA WaitsAnswers ==
    ASSUME PodMapTypeOK, OwnerInv, Linked, WorkerWaits
    PROVE  (WorkerAnswer \/ UNCHANGED vars) /\ Linked'
<1>1. pc \notin {"none", "build", "idle", "done"} /\ pc' # "idle"
  BY DEF WorkerWaits, ContainerInfo, IsZero, Hit, Miss, ParseIndexed,
         ParseMissing, Throttled, WalkStart, WalkEnd, CriReply, CriNames,
         CriNoLabels, CriNotFound, CriError, Return
<1>2. worker = "lookup" /\ worker' = "lookup" /\ lookup' = Lookup'
  BY <1>1 DEF Linked, WorkerWaits, agentVars
<1>3. lookup.st = "busy" /\ lookup.cg = cg /\ lookup = Lookup
  BY <1>1, Shows DEF Linked
<1>4. lookup' = lookup \/ Res!ResolverNext
  BY <1>2, <1>3, ResolverStep DEF WorkerWaits, PodMapNext
<1>5. CASE lookup' = lookup
  <2>1. UNCHANGED vars
    BY <1>5 DEF WorkerWaits, agentVars, vars, workerVars
  <2> QED
    BY <1>2, <2>1 DEF Linked
<1>6. CASE Res!ResolverNext
  <2>1. ~Res!Release
    BY <1>3 DEF Res!Release
  <2>2. ASSUME NEW c, Res!Begin(c) PROVE FALSE
    BY <1>3, <2>2 DEF Res!Begin, Res!NoLookup
  <2>3. PICK a \in Res!Permitted(Lookup.cg) : Res!Finish(a)
    BY <1>6, <2>1, <2>2 DEF Res!ResolverNext
  <2>4. a \in Permitted(lookup.cg)
    BY <1>3, <2>3 DEF Permitted, Res!Permitted, Failure, Success, Res!Failure,
                      Res!Success
  <2>5. Finish(a)
    BY <1>2, <1>3, <2>3 DEF Finish, Res!Finish
  <2>6. WorkerAnswer
    BY <1>2, <1>3, <2>4, <2>5 DEF WorkerAnswer, WorkerWaits, agentVars
  <2> QED
    BY <1>2, <2>6 DEF Linked
<1> QED
  BY <1>4, <1>5, <1>6

\* The steps of the process that leave the pod map alone leave the lookup alone,
\* and the worker does not move while it waits for one.
LEMMA ProcessLinked ==
    ASSUME Typed, Linked, UNCHANGED podVars, Process \/ Calls \/ Programs
    PROVE  Next /\ Linked'
<1>1. Next
  BY DEF Process, Calls, Programs, Next, Startup, Worker, Kernel, ProbeNext
<1>2. Lookup' = Lookup /\ pc' = pc
  BY DEF Lookup, podVars, callVars
<1>3. lookup' = lookup
  BY DEF Process, NewLoader, Discover, Attach, SkipDevice, FillDevice,
         CreateReader, StartGoroutines, Reader, ReadEvent, ReadClosed, Enqueue,
         SelectDefault, EnqueueFull, WaitWorkers, CloseLoader, CloseObjects,
         Shutdown, SigReceive, SigShutdown, SigCloseReader, SigCloseDone,
         WorkerExit, ServerListen, ServerFail, Signal, Killed, Calls, Programs,
         userVars, workerVars
<1>4. worker' = worker \/ worker # "lookup"
  <2>1. StartGoroutines => worker # "lookup"
    BY DEF StartGoroutines, Typed, Ordered, Starting
  <2> QED
    BY <2>1
       DEF Process, NewLoader, Discover, Attach, SkipDevice, FillDevice,
           CreateReader, Reader, ReadEvent, ReadClosed, Enqueue,
           SelectDefault, EnqueueFull, WaitWorkers, CloseLoader, CloseObjects,
           Shutdown, SigReceive, SigShutdown, SigCloseReader, SigCloseDone,
           WorkerExit, ServerListen, ServerFail, Signal, Killed, Calls,
           Programs, userVars, workerVars
<1> QED
  BY <1>1, <1>2, <1>3, <1>4 DEF Linked

\* Every step of the node is a step of the agent, and keeps the two views of the
\* lookup together.
LEMMA AgentSteps ==
    ASSUME Typed, PodMapTypeOK, OwnerInv, Linked, [NodeNext]_allVars
    PROVE  [Next]_vars /\ Linked'
<1>1. ASSUME NewPodMap PROVE Next /\ Linked'
  <2>1. Next
    BY <1>1 DEF NewPodMap, Next, Startup
  <2>2. UNCHANGED <<Lookup, lookup>> /\ pc' = "idle"
    BY <1>1 DEF NewPodMap, StartServer, BuildEnd, workerVars, Lookup
  <2> QED
    BY <2>1, <2>2 DEF Linked
<1>2. ASSUME WorkerCalls PROVE Next /\ Linked'
  <2>1. Next
    BY <1>2 DEF WorkerCalls, Next, Worker
  <2>2. CASE worker' = "lookup"
    <3>1. Call(Head(queue).cgroup)
      BY <1>2, <2>2 DEF WorkerCalls
    <3>2. pc' = "start" /\ cg' = Head(queue).cgroup
      BY <3>1 DEF Call
    <3>3. Lookup' = [st |-> "busy", cg |-> Head(queue).cgroup]
      BY <3>2 DEF Lookup
    <3>4. lookup' = [st |-> "busy", cg |-> Head(queue).cgroup]
      BY <1>2, <2>2 DEF WorkerCalls, WorkerRecv, Begin, workerVars
    <3> QED
      BY <2>1, <2>2, <3>3, <3>4 DEF Linked
  <2>3. CASE worker' # "lookup"
    <3>1. UNCHANGED <<pc, Lookup, lookup, worker>>
      BY <1>2, <2>3 DEF WorkerCalls, WorkerRecv, podVars, callVars, Lookup,
                        workerVars
    <3> QED
      BY <2>1, <3>1 DEF Linked
  <2> QED
    BY <2>2, <2>3
<1>3. ASSUME WorkerUses PROVE Next /\ Linked'
  <2>1. Next
    BY <1>3 DEF WorkerUses, Next, Worker
  <2>2. pc' = "idle" /\ lookup' = NoLookup
    BY <1>3 DEF WorkerUses, Leave, WorkerLogs, WorkerDrops, WorkerCounts, Release
  <2>3. Lookup' = NoLookup
    BY <2>2 DEF Lookup, NoLookup
  <2> QED
    BY <2>1, <2>2, <2>3 DEF Linked
<1>4. ASSUME Machine PROVE UNCHANGED vars /\ Linked'
  <2>1. UNCHANGED <<vars, callVars>>
    BY <1>4 DEF Machine, Tick, Mkdir, Rmdir, Forget
  <2> QED
    BY <2>1 DEF Linked, vars, workerVars, callVars, Lookup
<1>5. ASSUME BeginPodMap \/ WalkFails PROVE UNCHANGED vars /\ Linked'
  <2>1. UNCHANGED <<vars, Lookup>> /\ (pc' = pc \/ pc' = "build")
    BY <1>5 DEF BeginPodMap, BuildStart, WalkFails, WalkError, callVars, Lookup
  <2> QED
    BY <2>1 DEF Linked, vars, workerVars
<1>6. ASSUME UNCHANGED <<vars, podVars>> PROVE Linked'
  BY <1>6 DEF Linked, vars, workerVars, podVars, callVars, Lookup
<1>7. ASSUME WorkerWaits PROVE [Next]_vars /\ Linked'
  BY <1>7, WaitsAnswers DEF Next, Worker
<1> QED
  BY <1>1, <1>2, <1>3, <1>4, <1>5, <1>6, <1>7, NodeCases, ProcessLinked

\* The invariant of the composition.
Composed == Typed /\ PodMapTypeOK /\ OwnerInv /\ YoungInv /\ Linked

LEMMA ComposedInit == NodeInit => Composed
<1> SUFFICES ASSUME NodeInit PROVE Composed
  OBVIOUS
<1>1. Init /\ PodMapInit
  BY DEF NodeInit
<1>2. Typed /\ PodMapTypeOK
  BY <1>1, InitTyped, TypesInit
<1>3. OwnerInv
  BY <1>1 DEF PodMapInit, OwnerInv, EmptyMap
<1>4. YoungInv
  BY <1>1 DEF PodMapInit, YoungInv
<1>5. Linked
  BY <1>1 DEF PodMapInit, Init, ResolverInit, NoLookup, Lookup, Linked
<1> QED
  BY <1>2, <1>3, <1>4, <1>5 DEF Composed

LEMMA ComposedStep ==
    ASSUME Composed, [NodeNext]_allVars PROVE Composed' /\ [Next]_vars
<1>1. [Next]_vars /\ Linked'
  BY AgentSteps DEF Composed
<1>2. Typed'
  BY <1>1, TypedKept DEF Composed
<1>3. PodMapTypeOK' /\ OwnerInv' /\ YoungInv'
  BY PodMapSteps, TypesStep, OwnerStep, YoungStep DEF Composed
<1> QED
  BY <1>1, <1>2, <1>3 DEF Composed

LEMMA ComposedInvariant == NodeSpec => []Composed
<1>1. Composed /\ [NodeNext]_allVars => Composed'
  BY ComposedStep
<1> QED
  BY <1>1, ComposedInit, PTL DEF NodeSpec

\* The node, with the cache, the index and the runtime behind the worker, is the
\* agent of module Agent: each step of it is a step of that agent or none
\* (cmd/agent/main.go:199-243, pkg/podmap/podmap.go:68-116).
THEOREM NodeImplementsAgent == NodeSpec => ImplementsAgent
<1>1. NodeInit => Init
  BY DEF NodeInit
<1>2. Composed /\ [NodeNext]_allVars => [Next]_vars
  BY ComposedStep
<1> QED
  BY <1>1, <1>2, ComposedInvariant, PTL DEF NodeSpec, Spec, ImplementsAgent

\* On the node no call is lost or counted twice, and no container is charged
\* with more calls than it made, while containers start, end and are forgotten
\* under the lookups (cmd/agent/main.go:199-262, pkg/podmap/podmap.go:68-116).
THEOREM NodeKeepsAccounts == NodeSpec => [](Conservation /\ Attribution)
  BY NodeImplementsAgent, ConservationHolds, AttributionHolds, PTL
     DEF ImplementsAgent

-----------------------------------------------------------------------------
(* The step that drops an event as not_indexed uses an answer of the pod   *)
(* map to a call with the event's own cgroup.                              *)

LEMMA DropsYoung ==
    ASSUME Composed, Carried, Located, [Next]_vars, NEW i \in 1 .. Len(calls),
           place[i] # "not_indexed", place'[i] = "not_indexed"
    PROVE  LET c == calls[i].cgroup IN
             life[c].st # "live" \/ life[c].since >= walkStart \/ c \in skipped
<1>1. Move(i)
  BY Moves DEF Composed, Ids
<1>2. place \in Seq(Places) /\ i \in 1 .. Len(place)
  BY DEF Composed, Typed, TypeOK, HistoryTypeOK
<1>3. WorkerDrops /\ i = work.id /\ lookup.ans.err = "not_indexed"
  BY <1>1, <1>2 DEF Move, WorkerLogs, WorkerDrops, MoveTo
<1>4. worker = "lookup" /\ lookup.st = "done"
  BY <1>3 DEF WorkerDrops
<1>5. pc = "done" /\ lookup.cg = cg /\ ans.err = "not_indexed"
  BY <1>3, <1>4, Shows DEF Composed, Linked
<1>6. cg = calls[i].cgroup
  BY <1>3, <1>4, <1>5 DEF Carried, WorkerFits, Faithful
<1>7. life[cg].st = "live" => life[cg].since >= walkStart \/ cg \in skipped
  BY <1>5 DEF Composed, YoungInv, PodMapTypeOK, CallTypeOK, Walking
<1> QED
  BY <1>6, <1>7

\* An event is dropped as not_indexed only if its cgroup has ended, is younger
\* than the last walk of the tree or was lost to an error in that walk, however
\* long the event waited in the ring buffer and in the channel
\* (cmd/agent/main.go:136, 219-222, pkg/podmap/podmap.go:50, 81-104,
\* pkg/podmap/cgroup.go:58-116).
THEOREM DropOnlyYoungHolds == NodeSpec => DropOnlyYoung
<1> DEFINE Young ==
      \A i \in 1 .. Len(calls) :
         place[i] # "not_indexed" /\ place'[i] = "not_indexed"
           => LET c == calls[i].cgroup IN
                \/ life[c].st # "live"
                \/ life[c].since >= walkStart
                \/ c \in skipped
<1>1. Composed /\ Carried /\ Located /\ [Next]_vars => Young
  BY DropsYoung
<1>2. Composed /\ [NodeNext]_allVars => [Next]_vars
  BY ComposedStep
<1> QED
  BY <1>1, <1>2, ComposedInvariant, NodeImplementsAgent, CarriedInvariant,
     TrackedInvariant, PTL DEF NodeSpec, ImplementsAgent, DropOnlyYoung

=============================================================================
