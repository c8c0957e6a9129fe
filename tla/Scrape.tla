------------------------------- MODULE Scrape -------------------------------
(***************************************************************************)
(* Requests to /metrics while the agent runs: Collector.Collect            *)
(* (pkg/metrics/metrics.go) with the kernel's loss counter read through    *)
(* Loader.DroppedEvents (pkg/loader/loader.go).  The collector's mutex is  *)
(* held from the first series to the last; the reader and the worker of    *)
(* Agent wait for it when they want to count, the eBPF program does not.   *)
(* The handlers of the HTTP server run beside everything else, and Server  *)
(* .Shutdown may give up waiting for them.                                 *)
(***************************************************************************)
EXTENDS Agent

CONSTANT Handlers   \* the requests to /metrics of one behaviour

VARIABLES
    mu,       \* Collector.mu: the handlers that hold it
    http,     \* each request: where its handler is and what it has gathered
    served    \* history: the last response, in the order Collect returned

scrapeVars == <<mu, http, served>>
allVars    == <<vars, scrapeVars>>

NoRequest == [at |-> "idle"]

\* What a scraper knows before its first response.
NoResponse ==
    [ioctl |-> EmptyMap, drops |-> EmptyMap, lost |-> 0, complete |-> FALSE,
     info |-> {}, since |-> 0, until |-> 0]

\* Calls that some series of /metrics accounts for.
Settled ==
    Cardinality({i \in Ids : place[i] \in dropReasons
                                          \cup {"counted", "ringbuf_full"}})

ScrapeInit ==
    /\ Init
    /\ mu = {}
    /\ http = [h \in Handlers |-> NoRequest]
    /\ served = NoResponse

-----------------------------------------------------------------------------
(* The handler. *)

\* A request arrives at the listening server; promhttp calls Collect.
Request(h) ==
    /\ Alive /\ server = "up" /\ http[h] = NoRequest
    /\ http' = [http EXCEPT ![h] = [at |-> "lock", since |-> Settled]]
    /\ UNCHANGED <<mu, served>>

\* Taking the snapshot without waiting for the mutex.
CollectUnlocked(h) ==
    /\ Alive /\ http[h].at = "lock"
    /\ mu' = mu \cup {h}
    /\ http' = [http EXCEPT ![h] =
                  [at |-> "kernel", since |-> http[h].since,
                   ioctl |-> ioctlTotal, drops |-> eventsDropped,
                   info |-> deviceInfo, slots |-> Cpus, lost |-> 0]]
    /\ UNCHANGED served

\* c.mu.Lock(), then the loops over ioctlTotal and eventsDroppedTotal.  Nobody
\* changes them, or deviceInfo, while the mutex is held, so the time between
\* two series does not show.
Collect(h) ==
    /\ Alive /\ http[h].at = "lock" /\ mu = {}
    /\ mu' = {h}
    /\ http' = [http EXCEPT ![h] =
                  [at |-> "kernel", since |-> http[h].since,
                   ioctl |-> ioctlTotal, drops |-> eventsDropped,
                   info |-> deviceInfo, slots |-> Cpus, lost |-> 0]]
    /\ UNCHANGED served

\* A sum that adds the first slot once for every CPU.
DroppedEventsFirst(h, c) ==
    /\ Alive /\ objs /\ http[h].at = "kernel" /\ c \in http[h].slots
    /\ http' = [http EXCEPT ![h].slots = @ \ {c},
                            ![h].lost = @ + dropped[CHOOSE x \in Cpus : TRUE]]
    /\ UNCHANGED <<mu, served>>

\* Loader.DroppedEvents: the lookup copies the per-CPU slots one after the
\* other while programs add to them, and the sum is returned.
DroppedEvents(h, c) ==
    /\ Alive /\ objs /\ http[h].at = "kernel" /\ c \in http[h].slots
    /\ http' = [http EXCEPT ![h].slots = @ \ {c}, ![h].lost = @ + dropped[c]]
    /\ UNCHANGED <<mu, served>>

\* The response of request h; it is complete if it has the ringbuf_full series,
\* and otherwise the value of an earlier response stands.
Answer(h, complete) ==
    /\ http' = [http EXCEPT ![h] = [at |-> "done"]]
    /\ served' = [ioctl |-> http[h].ioctl, drops |-> http[h].drops,
                  lost |-> IF complete THEN http[h].lost ELSE served.lost,
                  complete |-> complete, info |-> http[h].info,
                  since |-> http[h].since, until |-> Settled]

\* The remaining series are sent and the deferred Unlock runs.
Unlock(h) ==
    /\ Alive /\ http[h].at = "kernel" /\ http[h].slots = {}
    /\ mu' = {}
    /\ Answer(h, TRUE)

\* A branch for the failed lookup that returns past the Unlock.
LookupFailsLocked(h) ==
    /\ Alive /\ http[h].at = "kernel"
    /\ Answer(h, FALSE)
    /\ UNCHANGED mu

\* The lookup fails, as it does when the map is closed under it: the series is
\* left out and the rest of the response goes on.
LookupFails(h) ==
    /\ Alive /\ http[h].at = "kernel"
    /\ mu' = {}
    /\ Answer(h, FALSE)

Handler(h) ==
    \/ Collect(h)
    \/ \E c \in Cpus : DroppedEvents(h, c)
    \/ Unlock(h)
    \/ LookupFails(h)

-----------------------------------------------------------------------------
(* The composition. *)

\* IncIoctl and IncEventsDropped lock the mutex: a step that counts happens
\* only while no handler holds it.
Unlocked == mu # {} => UNCHANGED metricsVars

AgentStep == Next /\ Unlocked /\ UNCHANGED scrapeVars

HttpStep ==
    /\ \E h \in Handlers : Request(h) \/ Handler(h)
    /\ UNCHANGED vars

ScrapeNext == AgentStep \/ HttpStep

ScrapeSpec == ScrapeInit /\ [][ScrapeNext]_allVars

\* The goroutine of main is scheduled, a BPF program that has started runs to its
\* end, and a handler that has been called goes on: Go's mutex is handed over in
\* turn and the lookup is a system call that returns.  Calls, signals, requests
\* and failures are not forced, and a lookup of the worker may take for ever.
ReaderFairness ==
    /\ WF_allVars(Startup /\ Unlocked /\ UNCHANGED scrapeVars)
    /\ WF_allVars(Reader /\ Unlocked /\ UNCHANGED scrapeVars)
    /\ \A c \in Cpus :
           WF_allVars(Program(c) /\ UNCHANGED userVars /\ UNCHANGED scrapeVars)
    /\ \A h \in Handlers : WF_allVars(Handler(h) /\ UNCHANGED vars)

\* Every wait of the worker and of the signal goroutine has a timeout
\* (CriTimeout, ShutdownTimeout).  The properties that need it say so.
WorkerFairness ==
    /\ WF_allVars(Worker /\ Unlocked /\ UNCHANGED scrapeVars)
    /\ WF_allVars(Shutdown /\ Unlocked /\ UNCHANGED scrapeVars)

FairScrapeSpec == ScrapeSpec /\ ReaderFairness

-----------------------------------------------------------------------------
(* Properties. *)

\* `now` shows every series of `old` with at least its value.
Covers(now, old) ==
    /\ DOMAIN old \subseteq DOMAIN now
    /\ \A k \in DOMAIN old : old[k] <= now[k]

\* Counters never go down from one response to the next, in whatever order two
\* overlapping requests are served: neither the userspace counters nor the loss
\* counter, which other CPUs change while it is read
\* (pkg/metrics/metrics.go:108-145, pkg/loader/loader.go:195-209).
ScrapesMonotone ==
    [][/\ Covers(served'.ioctl, served.ioctl)
       /\ Covers(served'.drops, served.drops)
       /\ served.lost <= served'.lost]_allVars

\* What the last response adds up to.
Shown ==
    SumOver(served.ioctl, DOMAIN served.ioctl)
    + SumOver(served.drops, DOMAIN served.drops)
    + (IF served.complete THEN served.lost ELSE 0)

\* A response is a cut between the arrival of the request and its end: it shows
\* all that had been accounted for when the request came, no more than had been
\* when it ended, and so no call twice, although the two kinds of counters are
\* read at different times.  Each device it names has its info series
\* (pkg/metrics/metrics.go:108-170).
ScrapeBetween ==
    /\ Shown <= served.until
    /\ served.complete => served.since <= Shown
    /\ \A k \in DOMAIN served.ioctl : k.device \in served.info

\* The reader never waits for the worker: while the ring buffer is open, a
\* record is taken from it and leaves the reader's hand although a lookup never
\* returns and the channel stays full (cmd/agent/main.go:257-261).
ReaderNeverWaits ==
    \A i \in 1 .. MaxCalls :
        (i \in Ids /\ place[i] \in {"ring", "hand"})
            ~> ((i \in Ids /\ place[i] \notin {"ring", "hand"})
                    \/ rb # "open" \/ ~Alive)

\* An event in the ring buffer is accounted for, or the process ends: neither an
\* error, nor a server that failed, nor a request whose lookup of the loss counter
\* fails while it has the mutex stops the pipeline, provided the worker's lookups
\* return (cmd/agent/main.go:163-168, 199-262, pkg/metrics/metrics.go:109-145).
EventSettles ==
    WorkerFairness =>
        \A i \in 1 .. MaxCalls :
            (i \in Ids /\ place[i] = "ring" /\ rb = "open")
                ~> ((i \in Ids /\ place[i] \in Final) \/ ~Alive)

\* A signal ends the process, whatever the ring buffer, the channel, the worker
\* and the requests hold at that moment, provided the waits that have a timeout
\* return (cmd/agent/main.go:178-194, 247-265).
SignalTerminates == WorkerFairness => (sigs ~> ~Alive)

=============================================================================
