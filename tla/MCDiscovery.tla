---------------------------- MODULE MCDiscovery ----------------------------
(***************************************************************************)
(* Instances of Discovery for TLC: two cards that may have either of two   *)
(* pairs of numbers, only one of them supported, an NPU, and a device      *)
(* without a driver.                                                       *)
(***************************************************************************)
EXTENDS Discovery, TLC

CONSTANTS gpu, alien, npu, bare, byPath,
          card0, render0, card1, render1, accel0

MCDirOf ==
    [f \in Files |-> IF f = accel0 THEN "accel" ELSE "dri"]

Pairs == {{card0, render0}, {card1, render1}}

MCLayouts ==
    [a \in Addrs |-> IF a = npu THEN {{accel0}}
                     ELSE IF a = bare THEN {{card1}} ELSE Pairs]

AllDrivers ==
    gpu :> "i915" @@ alien :> "nouveau" @@ npu :> "intel_vpu" @@ bare :> ""

MCDriverOf == [a \in Addrs |-> AllDrivers[a]]

=============================================================================
