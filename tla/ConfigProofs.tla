---------------------------- MODULE ConfigProofs ----------------------------
(***************************************************************************)
(* Proof that the settings of an agent that is up satisfy the assumptions  *)
(* of the other modules, for every width and every environment.  It uses   *)
(* nothing of how a product wraps around: the checks suffice.              *)
(***************************************************************************)
EXTENDS Config, TLAPS

\* The environment and the two integers that no later step checks.
Loaded ==
    /\ env \in [Settings -> {Unset, Text} \cup {Number(n) : n \in Given}]
    /\ at # "load" => /\ cfg.QueueSize > 0
                      /\ cfg.Port \in 1 .. MaxPort

Inv == Loaded /\ UpUsable

\* getEnvInt returns the default or a positive number that passed its check
\* (pkg/config/config.go:59-74).
LEMMA GetEnvIntPositive ==
    ASSUME NEW key \in Ints,
           NEW v \in {Unset, Text} \cup {Number(n) : n \in Given}
    PROVE  /\ getEnvInt(key, v) > 0
           /\ key = "Port" => getEnvInt(key, v) \in 1 .. MaxPort
  <1>1. /\ Fallback[key] \in Nat \ {0}
        /\ Fallback["Port"] <= MaxPort /\ MaxPort \in Nat
    BY ConfigAssumption DEF Ints, Settings
  <1>2. CASE getEnvInt(key, v) = Fallback[key]
    BY <1>1, <1>2
  <1>3. CASE getEnvInt(key, v) # Fallback[key]
    <2>1. /\ Parses(v) /\ ~(v.n <= 0) /\ ~(key = "Port" /\ v.n > MaxPort)
          /\ getEnvInt(key, v) = v.n
      BY <1>3 DEF getEnvInt
    <2>2. PICK n \in Given : v = Number(n)
      BY <2>1 DEF Parses, Unset, Text
    <2>3. v.n \in Int
      BY <2>2, ConfigAssumption DEF Number
    <2> QED BY <1>1, <2>1, <2>3
  <1> QED BY <1>2, <1>3

\* Load fills both integers by it (pkg/config/config.go:33-50).
LEMMA LoadInv ==
    ASSUME Inv, Load
    PROVE  Inv'
  <1>1. cfg'.QueueSize = getEnvInt("QueueSize", env["QueueSize"])
    BY DEF Load, Settings, Ints
  <1>2. cfg'.Port = getEnvInt("Port", env["Port"])
    BY DEF Load, Settings, Ints
  <1>3. \A s \in Ints :
            env[s] \in {Unset, Text} \cup {Number(n) : n \in Given}
    BY DEF Inv, Loaded, Settings
  <1>4. "QueueSize" \in Ints /\ "Port" \in Ints
    BY DEF Ints
  <1>5. cfg'.QueueSize > 0 /\ cfg'.Port \in 1 .. MaxPort
    BY <1>1, <1>2, <1>3, <1>4, GetEnvIntPositive
  <1>6. env' = env /\ at' = "podmap"
    BY DEF Load
  <1> QED BY <1>5, <1>6 DEF Inv, Loaded, UpUsable, Up

LEMMA InvInvariant == Spec => []Inv
  <1>1. Init => Inv
    BY DEF Init, Inv, Loaded, UpUsable, Up
  <1>2. Inv /\ [Next]_vars => Inv'
    <2> SUFFICES ASSUME Inv, [Next]_vars PROVE Inv'
      OBVIOUS
    <2>1. CASE Load
      BY <2>1, LoadInv
    <2>2. CASE NewPodMap
      BY <2>2 DEF NewPodMap, Inv, Loaded, UpUsable, Up
    <2>3. CASE NewPodMapFails
      BY <2>3 DEF NewPodMapFails, Inv, Loaded, UpUsable, Up
    <2>4. CASE MakeQueue
      BY <2>4 DEF MakeQueue, Inv, Loaded, UpUsable, Up
    <2>5. CASE MakeQueuePanics
      BY <2>5 DEF MakeQueuePanics, Inv, Loaded, UpUsable, Up
    <2>6. CASE UNCHANGED vars
      BY <2>6 DEF vars, Inv, Loaded, UpUsable, Up
    <2> QED BY <2>1, <2>2, <2>3, <2>4, <2>5, <2>6 DEF Next
  <1> QED BY <1>1, <1>2, PTL DEF Spec

\* For every environment, an agent that is up has a positive interval, TTL,
\* CRI timeout and queue size and a valid port (pkg/config/config.go:33-88,
\* pkg/podmap/podmap.go:42-48, pkg/podmap/cri.go:62-68).
THEOREM SettingsUsable == Spec => []UpUsable
  BY InvInvariant, PTL DEF Inv

=============================================================================
