----------------------------- MODULE Accounting -----------------------------
(***************************************************************************)
(* What the agent promises about its counters, without saying how: every   *)
(* supported drm_ioctl call waits for one verdict, gets at most one, and   *)
(* the verdict moves exactly one counter by one.  Module Agent implements  *)
(* this specification.                                                     *)
(***************************************************************************)
EXTENDS Workload

VARIABLES
    calls,    \* the calls made while the agent is attached
    verdict,  \* what became of each of them
    tally,    \* kubenpu_ioctl_total
    drops     \* kubenpu_events_dropped_total, the reasons userspace counts

accVars == <<calls, verdict, tally, drops>>

AccInit ==
    /\ calls = << >>
    /\ verdict = << >>
    /\ tally = EmptyMap
    /\ drops = [r \in dropReasons |-> 0]

\* A call is made.  It is the agent's business exactly when it is supported.
Arrive(q) ==
    /\ calls' = Append(calls, q)
    /\ verdict' = Append(verdict, IF Supported(q) THEN "pending" ELSE "ignored")
    /\ UNCHANGED <<tally, drops>>

Settle(i, v) ==
    /\ i \in DOMAIN calls
    /\ verdict[i] = "pending"
    /\ verdict' = [verdict EXCEPT ![i] = v]
    /\ UNCHANGED calls

\* The call is counted, under the labels of the container that made it.
Count(i) ==
    /\ Settle(i, "counted")
    /\ tally' = Increment(tally, TrueKey(calls[i]))
    /\ Owner[calls[i].cgroup] # NoPod
    /\ UNCHANGED drops

\* The call is dropped for a reason that fits it.  No supported call has an
\* unknown device, and only a process outside every pod is "not_pod".
Drop(i, r) ==
    /\ r # "device_unknown"
    /\ r = "not_pod" => Owner[calls[i].cgroup] = NoPod
    /\ Settle(i, r)
    /\ drops' = Increment(drops, r)
    /\ UNCHANGED tally

\* The call is lost in the kernel (counted there), or its lookup failed.
Lose(i, v) ==
    /\ Settle(i, v)
    /\ UNCHANGED <<tally, drops>>

AccNext ==
    \/ \E q \in Requests : Arrive(q)
    \/ \E i \in DOMAIN calls :
        \/ Count(i)
        \/ \E r \in dropReasons : Drop(i, r)
        \/ \E v \in {"ringbuf_full", "logged"} : Lose(i, v)

AccSpec == AccInit /\ [][AccNext]_accVars

=============================================================================
