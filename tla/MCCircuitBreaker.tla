-------------------------- MODULE MCCircuitBreaker --------------------------
(***************************************************************************)
(* CircuitBreaker for TLC: four requests may overlap, one more than the    *)
(* probes of a half-open phase, so that late results meet a full phase.    *)
(***************************************************************************)
EXTENDS CircuitBreaker

CONSTANTS r1, r2, r3, r4

FourRequests == {r1, r2, r3, r4}
=============================================================================
