-------------------------- MODULE MCNodeLifecycle --------------------------
(***************************************************************************)
(* NodeLifecycle for TLC: a client's request that launches the node, the   *)
(* auto-scaler that drains it and the agent's monitor, which restarts it.  *)
(***************************************************************************)
EXTENDS NodeLifecycle

CONSTANTS request, scaler, monitor

OneLauncher == {request}
============================================================================
