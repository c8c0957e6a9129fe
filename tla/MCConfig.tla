------------------------------ MODULE MCConfig ------------------------------
(***************************************************************************)
(* An instance of Config for TLC with 8-bit integers and 10 units to the   *)
(* second: 12 seconds fit, 13 wrap to a negative duration, 26 to a small   *)
(* positive one, and 128 is out of range.                                  *)
(***************************************************************************)
EXTENDS Config

MCGiven == {-13, 0, 12, 13, 26, 127, 128}

MCFallback ==
    [s \in Settings |-> CASE s = "CacheTTL" -> 60
                          [] s = "QueueSize" -> 8
                          [] s = "Port" -> 80
                          [] OTHER -> 50]

=============================================================================
