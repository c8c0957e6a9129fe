------------------------------- MODULE Config -------------------------------
(***************************************************************************)
(* Package config and the places where main and podmap refuse a setting.   *)
(* The environment is read once; a duration is the product of a number of  *)
(* seconds and time.Second in 64-bit arithmetic, here in a width that TLC  *)
(* can count through.  The module shows what Agent and PodMap assume of    *)
(* QueueSize, Interval and CacheTTL.                                       *)
(***************************************************************************)
EXTENDS Integers

CONSTANTS
    Width,      \* bits of int and of time.Duration (64)
    Second,     \* time.Second (10^9)
    MaxPort,    \* 65535
    MaxChan,    \* the largest channel of events Go can make
    Fallback,   \* [Settings -> Int]: the default of each setting
    Given       \* the numbers that may stand in the environment

Durations == {"Interval", "CriTimeout", "ShutdownTimeout", "CacheTTL"}
Ints      == {"Port", "QueueSize"}
Settings  == Durations \cup Ints

ASSUME ConfigAssumption ==
    /\ Width \in Nat \ {0, 1} /\ Second \in Nat \ {0}
    /\ MaxPort \in Nat /\ MaxChan \in Nat
    /\ Given \subseteq Int
    /\ Fallback \in [Settings -> Nat \ {0}]
    /\ Fallback["QueueSize"] <= MaxChan /\ Fallback["Port"] <= MaxPort

VARIABLES
    env,   \* the variable of each setting: unset or empty, text, or a number
    cfg,   \* appConfig
    at     \* where main is

vars == <<env, cfg, at>>

Unset     == [st |-> "unset"]
Text      == [st |-> "text"]
Number(n) == [st |-> "number", n |-> n]

Half == 2^(Width - 1)

\* A product as the machine computes it.
Wrap(n) == ((n + Half) % (2 * Half)) - Half

\* strconv.Atoi and strconv.ParseInt succeed.
Parses(v) == v.st = "number" /\ -Half <= v.n /\ v.n < Half

getEnvInt(key, v) ==
    IF ~Parses(v) \/ v.n <= 0 \/ (key = "Port" /\ v.n > MaxPort)
    THEN Fallback[key] ELSE v.n

getEnvTimeDuration(key, v) ==
    IF ~Parses(v) THEN Fallback[key] ELSE Wrap(v.n * Second)

Init ==
    /\ env \in [Settings -> {Unset, Text} \cup {Number(n) : n \in Given}]
    /\ cfg = Fallback
    /\ at = "load"

Load ==
    /\ at = "load"
    /\ cfg' = [s \in Settings |-> IF s \in Ints THEN getEnvInt(s, env[s])
                                  ELSE getEnvTimeDuration(s, env[s])]
    /\ at' = "podmap"
    /\ UNCHANGED env

\* A pod map that does not look at its TTL.
NewPodMapUnchecked ==
    /\ at = "podmap"
    /\ cfg.Interval > 0
    /\ cfg.CriTimeout > 0
    /\ at' = "ready"
    /\ UNCHANGED <<env, cfg>>

\* NewPodMap accepts the interval and the TTL, and the first call of the CRI
\* client is answered before its context ends, which it cannot be when the
\* timeout is not positive.
NewPodMap ==
    /\ at = "podmap"
    /\ cfg.Interval > 0 /\ cfg.CacheTTL > 0
    /\ cfg.CriTimeout > 0
    /\ at' = "ready"
    /\ UNCHANGED <<env, cfg>>

\* It refuses them, or the runtime does not answer: log.Fatal.
NewPodMapFails ==
    /\ at = "podmap"
    /\ at' = "dead"
    /\ UNCHANGED <<env, cfg>>

\* main makes the channel and reads events.
MakeQueue ==
    /\ at = "ready"
    /\ cfg.QueueSize <= MaxChan
    /\ at' = "running"
    /\ UNCHANGED <<env, cfg>>

\* The channel is too large: make panics, when /readyz has already said yes.
MakeQueuePanics ==
    /\ at = "ready"
    /\ cfg.QueueSize > MaxChan
    /\ at' = "dead"
    /\ UNCHANGED <<env, cfg>>

Next ==
    \/ Load \/ NewPodMap \/ NewPodMapFails \/ MakeQueue \/ MakeQueuePanics

Spec == Init /\ [][Next]_vars

-----------------------------------------------------------------------------
(* Properties. *)

Up == at \in {"ready", "running"}

\* Whatever the environment says, an agent that is up satisfies what the other
\* modules assume of its settings.  No interval, cache TTL or CRI timeout that
\* wrapped around to zero or below gets past startup; the shutdown timeout is
\* the one duration nothing looks at, and no module needs it to be positive
\* (pkg/config/config.go:59-88, pkg/podmap/podmap.go:42-48,
\* pkg/podmap/cri.go:62-68).
UpUsable ==
    Up => /\ cfg.Interval > 0 /\ cfg.CacheTTL > 0 /\ cfg.CriTimeout > 0
          /\ cfg.QueueSize > 0 /\ cfg.Port \in 1 .. MaxPort

=============================================================================
