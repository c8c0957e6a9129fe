------------------------------ MODULE DrmProbe ------------------------------
(***************************************************************************)
(* The kernel half of the agent (bpf/drm_common.bpf.c): the fentry program *)
(* kubenpu_ioctl that runs on every drm_ioctl call, its two filter maps,   *)
(* the ring buffer and the per-CPU loss counter.  Each CPU runs at most    *)
(* one instance of the program at a time (the kernel's fentry trampoline   *)
(* refuses recursion per CPU), and the instances of different CPUs         *)
(* interleave between the helper calls.                                    *)
(*                                                                         *)
(* `calls` and `place` are history variables: the drm_ioctl calls made     *)
(* while the program was attached, and where the record of each call is    *)
(* now.  No guard reads them except the bound MaxCalls.                    *)
(***************************************************************************)
EXTENDS Workload, FiniteSetsExt

CONSTANTS
    Cpus,        \* CPUs that may run the program
    RingCap,     \* records that fit in the `events` ring buffer
    MaxDevices,  \* MAX_ENTRIES_DEVICES of the `devices` hash
    MaxIoctls,   \* MAX_ENTRIES_IOCTLS of the `ioctls` hash
    MaxCalls     \* bound of the model: calls in one behaviour

ASSUME ProbeAssumption ==
    /\ Cpus # {} /\ IsFiniteSet(Cpus)
    /\ RingCap \in Nat \ {0}
    /\ MaxDevices \in Nat
    /\ MaxIoctls \in Nat
    /\ MaxCalls \in Nat

VARIABLES
    devices,     \* BPF hash: device node -> vendor id
    ioctls,      \* BPF hash: <<vendor id, nr>> -> kind
    hook,        \* the fentry link is attached
    events,      \* BPF ring buffer, oldest reservation first
    dropped,     \* BPF per-CPU array with one u64 slot
    run,         \* the program instance of each CPU
    calls,       \* history: every call seen by the attached program
    place        \* history: where the record of each call is

probeVars == <<devices, ioctls, hook, events, dropped, run, calls, place>>

Idle == [at |-> "idle", id |-> 0, kind |-> 0, lost |-> 0]

\* Moves the record of call i to p.
MoveTo(i, p) == place' = [place EXCEPT ![i] = p]

\* What the counters of m come to over the keys in S.
SumOver(m, S) == MapThenSumSet(LAMBDA x : m[x], S)

-----------------------------------------------------------------------------
(* The maps as the loader fills them. *)

ProbeInit ==
    /\ devices = EmptyMap
    /\ ioctls = EmptyMap
    /\ hook = FALSE
    /\ events = << >>
    /\ dropped = [c \in Cpus |-> 0]
    /\ run = [c \in Cpus |-> Idle]
    /\ calls = << >>
    /\ place = << >>

\* Loader.AddDevice for every node of one device: a hash refuses a new key
\* when it holds max_entries keys.
AddDevices(new) ==
    /\ Cardinality(DOMAIN devices \cup DOMAIN new) <= MaxDevices
    /\ devices' = PutAll(devices, new)

\* Loader.AddIoctl for every entry of one vendor table.
AddIoctls(new) ==
    /\ Cardinality(DOMAIN ioctls \cup DOMAIN new) <= MaxIoctls
    /\ ioctls' = PutAll(ioctls, new)

-----------------------------------------------------------------------------
(* The program, one step per helper call that touches shared state. *)

\* The two map lookups of the program both succeed.
InFilter(q) ==
    /\ q.node \in DOMAIN devices
    /\ <<devices[q.node], Nr(q.cmd)>> \in DOMAIN ioctls

\* A call enters the program and passes the filter.
Observe(c, q) ==
    /\ hook /\ run[c] = Idle /\ Len(calls) < MaxCalls
    /\ InFilter(q)
    /\ calls' = Append(calls, q)
    /\ place' = Append(place, "program")
    /\ run' = [run EXCEPT ![c] =
                 [at |-> "reserve", id |-> Len(calls) + 1,
                  kind |-> ioctls[<<devices[q.node], Nr(q.cmd)>>], lost |-> 0]]
    /\ UNCHANGED <<devices, ioctls, hook, events, dropped>>

\* A call enters the program and one of the lookups fails: return 0.
Ignore(c, q) ==
    /\ hook /\ run[c] = Idle /\ Len(calls) < MaxCalls
    /\ ~InFilter(q)
    /\ calls' = Append(calls, q)
    /\ place' = Append(place, "ignored")
    /\ UNCHANGED <<devices, ioctls, hook, events, dropped, run>>

\* bpf_ringbuf_reserve succeeds: the record is in the buffer, still busy.  Its
\* fields are filled in before Submit; no consumer looks at a busy record, so
\* the step that reserves it may as well give them their values.
Reserve(c) ==
    /\ run[c].at = "reserve"
    /\ Len(events) < RingCap
    /\ LET i == run[c].id IN
         /\ events' = Append(events,
                        [busy |-> TRUE, id |-> i,
                         cgroup |-> calls[i].cgroup, node |-> calls[i].node,
                         kind |-> run[c].kind])
         /\ MoveTo(i, "ring")
    /\ run' = [run EXCEPT ![c].at = "submit"]
    /\ UNCHANGED <<devices, ioctls, hook, dropped, calls>>

\* bpf_ringbuf_reserve fails: the program is about to count the loss.
ReserveFails(c) ==
    /\ run[c].at = "reserve"
    /\ Len(events) >= RingCap
    /\ run' = [run EXCEPT ![c].at = "load"]
    /\ UNCHANGED <<devices, ioctls, hook, events, dropped, calls, place>>

\* A loss counter in a plain array: one slot shared by every CPU.
LossSlotShared(c) == CHOOSE x \in Cpus : TRUE

\* bpf_map_lookup_elem on a per-CPU array: the slot of the running CPU.
LossSlot(c) == c

\* `*lost += 1` is a load ...
LoadLost(c) ==
    /\ run[c].at = "load"
    /\ run' = [run EXCEPT ![c].at = "store", ![c].lost = dropped[LossSlot(c)]]
    /\ UNCHANGED <<devices, ioctls, hook, events, dropped, calls, place>>

\* ... and a store; then the program returns.
StoreLost(c) ==
    /\ run[c].at = "store"
    /\ dropped' = [dropped EXCEPT ![LossSlot(c)] = run[c].lost + 1]
    /\ MoveTo(run[c].id, "ringbuf_full")
    /\ run' = [run EXCEPT ![c] = Idle]
    /\ UNCHANGED <<devices, ioctls, hook, events, calls>>

\* bpf_ringbuf_submit: the record becomes visible to the consumer.
Submit(c) ==
    /\ run[c].at = "submit"
    /\ events' = [k \in DOMAIN events |->
                    IF events[k].id = run[c].id
                    THEN [events[k] EXCEPT !.busy = FALSE] ELSE events[k]]
    /\ run' = [run EXCEPT ![c] = Idle]
    /\ UNCHANGED <<devices, ioctls, hook, dropped, calls, place>>

Program(c) ==
    \/ Reserve(c)
    \/ ReserveFails(c)
    \/ LoadLost(c)
    \/ StoreLost(c)
    \/ Submit(c)

ProbeNext ==
    \E c \in Cpus :
        \/ \E q \in Requests : Observe(c, q)
        \/ \E q \in Requests : Ignore(c, q)
        \/ Program(c)

\* The ring buffer consumer takes the oldest record, once it is committed.
ReadRecord ==
    /\ events # << >>
    /\ ~Head(events).busy
    /\ events' = Tail(events)

=============================================================================
