-------------------------------- MODULE Node --------------------------------
(***************************************************************************)
(* A whole node: the agent process (Agent) with the real pod map (PodMap)  *)
(* in the place of the abstract Resolver, on a machine whose cgroups and   *)
(* containers come and go while calls are made, events wait in the ring    *)
(* buffer and in the channel, and the worker looks them up.  `lookup`, the *)
(* state of the resolver, becomes what the pod map shows of its own state. *)
(***************************************************************************)
EXTENDS PodMap, Agent

allVars == <<vars, podVars>>

\* What Agent has besides the state of the lookup.
agentVars == <<probeVars, main, startVars, loaderVars, signalVars, hand, queue,
               closed, worker, work, metricsVars>>

NodeInit == PodMapInit /\ Init

-----------------------------------------------------------------------------
(* Steps of the process that use the pod map. *)

\* podmap.NewPodMap walks the tree for its index ...
BeginPodMap ==
    /\ main = "podmap" /\ BuildStart
    /\ UNCHANGED vars

\* ... and returns; main goes on to start the server.
NewPodMap == StartServer /\ BuildEnd

\* This walk, or that of a rebuild, meets an error.
WalkFails ==
    /\ Alive /\ \E c \in Cgroups : WalkError(c)
    /\ UNCHANGED vars

\* The worker takes an event from the channel and, if its device is known,
\* calls ContainerInfo.
WorkerCalls ==
    /\ WorkerRecv
    /\ IF worker' = "lookup" THEN Call(Head(queue).cgroup)
                             ELSE UNCHANGED podVars

\* ContainerInfo runs, up to its answer: the worker waits for it.
WorkerWaits ==
    /\ Alive /\ ContainerInfo
    /\ lookup' = Lookup'
    /\ UNCHANGED agentVars

\* The worker uses the answer.
WorkerUses ==
    /\ WorkerLogs \/ WorkerDrops \/ WorkerCounts
    /\ Leave

-----------------------------------------------------------------------------
(* Steps that leave the pod map alone. *)

Process ==
    \/ NewLoader \/ Discover \/ Attach
    \/ \E d \in Devices : SkipDevice(d) \/ FillDevice(d)
    \/ CreateReader \/ StartGoroutines
    \/ Reader \/ Shutdown \/ WorkerExit
    \/ ServerListen \/ ServerFail \/ Signal \/ Killed

\* A process makes a call while its cgroup is there.  Zero stands for the
\* cgroup id of a process outside the hierarchy.
Calls ==
    \E c \in Cpus, q \in Requests :
        /\ q.cgroup = Zero \/ life[q.cgroup].st = "live"
        /\ Observe(c, q) \/ Ignore(c, q)
        /\ UNCHANGED userVars

Programs == \E c \in Cpus : Program(c) /\ UNCHANGED userVars

\* Time, the kubelet and the runtime.
Machine ==
    /\ \/ Tick
       \/ \E c \in Cgroups : Mkdir(c) \/ Rmdir(c)
       \/ \E id \in HexIds : Forget(id)
    /\ UNCHANGED vars

NodeNext ==
    \/ UNCHANGED podVars /\ (Process \/ Calls \/ Programs)
    \/ BeginPodMap \/ NewPodMap \/ WalkFails
    \/ WorkerCalls \/ WorkerWaits \/ WorkerUses
    \/ Machine

NodeSpec == NodeInit /\ [][NodeNext]_allVars

-----------------------------------------------------------------------------
(* Properties. *)

\* With PodMap behind it, the agent is the one of module Agent: ContainerInfo
\* is called once per event and gives only answers that Resolver permits, also
\* when the container ends, or is forgotten by the runtime, between the call,
\* the event, the lookup and the count (cmd/agent/main.go:199-243,
\* pkg/podmap/podmap.go:68-116).
ImplementsAgent == Spec

\* An event is dropped as not_indexed only if its cgroup has ended, is younger
\* than the last walk of the tree or was lost to an error in that walk, however
\* long the event waited: pods that ran before the agent, and that the first
\* walk could read, are counted from their first event on
\* (cmd/agent/main.go:136, 219-222, pkg/podmap/podmap.go:50, 81-104).
DropOnlyYoung ==
    [][\A i \in 1 .. Len(calls) :
         place[i] # "not_indexed" /\ place'[i] = "not_indexed"
           => LET c == calls[i].cgroup IN
                \/ life[c].st # "live"
                \/ life[c].since >= walkStart
                \/ c \in skipped]_allVars

=============================================================================
