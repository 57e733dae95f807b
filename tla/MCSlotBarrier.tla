--------------------------- MODULE MCSlotBarrier ---------------------------
(***************************************************************************)
(* Instances of SlotBarrier for TLC. Three workers contend for two slots   *)
(* where nothing fails or w1 may be killed; two workers for one slot where *)
(* every fault may hit w1.                                                 *)
(***************************************************************************)
EXTENDS SlotBarrier

CONSTANTS w1, w2, w3, none, p1, p2, unset

TwoWorkers == {w1, w2}
ThreeWorkers == {w1, w2, w3}
JustW1 == {w1}
Nobody == {}

OneParam == {p1}
TwoParams == {p1, p2}

NoFaults == {}
AllFaults == FaultKinds
Stalls == {"stall"}
Raises == {"raise"}
Deaths == {"die"}
AllDeaths == {"die", "diejoin"}
============================================================================
