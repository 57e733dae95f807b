--------------------------- MODULE CircuitBreaker ---------------------------
(***************************************************************************)
(* The circuit breaker that the global controller keeps for each node      *)
(* (resilience.py) and its use by _forward_to_node (global_controller.py): *)
(* acquire before a request is forwarded, record_success or record_failure *)
(* once, after the last retry. The three run under one lock, the forwards  *)
(* overlap: a result may be recorded long after the circuit has changed.   *)
(***************************************************************************)
EXTENDS Integers, FiniteSets

CONSTANTS
  Requests,          \* requests that may be forwarded to the node at a time
  FailureThreshold,  \* failures in a row that open the circuit
  SuccessThreshold,  \* successes that close it from half-open
  HalfOpenMax        \* requests let through while half-open

\* The defaults are 50, 2 and 3.
ASSUME ConfigOK ==
  /\ FailureThreshold \in Nat \ {0}
  /\ SuccessThreshold \in Nat \ {0}
  /\ HalfOpenMax \in Nat
  /\ SuccessThreshold <= HalfOpenMax
  /\ IsFiniteSet(Requests)

VARIABLES
  state, success_count, half_open_count,
  failure_count,  \* saturates at FailureThreshold, the only bound it meets
  cooled,         \* open_duration has passed since the last failure
  flying,         \* requests that were let through and have not reported
  probes,         \* those of them let through in the current half-open phase
  up,             \* forwards to the node succeed
  doomed          \* requests in flight while they did not: each may still fail

counts == <<success_count, half_open_count, failure_count>>
node == <<up, doomed>>
vars == <<state, counts, cooled, flying, probes, node>>

Init ==
  /\ state = "closed"
  /\ success_count = 0
  /\ half_open_count = 0
  /\ failure_count = 0
  /\ cooled = TRUE
  /\ flying = {}
  /\ probes = {}
  /\ up = TRUE
  /\ doomed = {}

\* The request is let through.
Forward(r) ==
  /\ flying' = flying \union {r}
  /\ doomed' = IF up THEN doomed ELSE doomed \union {r}

\* acquire, closed.
Pass(r) ==
  /\ r \notin flying
  /\ state = "closed"
  /\ Forward(r)
  /\ UNCHANGED <<state, counts, cooled, probes, up>>

\* Mutant of Probe: an earlier half-open phase's count is not reset.
ProbeKeepsCount(r) ==
  /\ r \notin flying
  /\ state = "open" /\ cooled
  /\ state' = "half_open"
  /\ half_open_count' = half_open_count + 1
  /\ success_count' = 0
  /\ probes' = {r}
  /\ Forward(r)
  /\ UNCHANGED <<failure_count, cooled, up>>

\* acquire, open for open_duration: half-open, and the first probe.
Probe(r) ==
  /\ r \notin flying
  /\ state = "open" /\ cooled
  /\ state' = "half_open"
  /\ half_open_count' = 1
  /\ success_count' = 0
  /\ probes' = {r}
  /\ Forward(r)
  /\ UNCHANGED <<failure_count, cooled, up>>

\* acquire, half-open: another probe.
ProbeMore(r) ==
  /\ r \notin flying
  /\ state = "half_open"
  /\ half_open_count < HalfOpenMax
  /\ half_open_count' = half_open_count + 1
  /\ probes' = probes \union {r}
  /\ Forward(r)
  /\ UNCHANGED <<state, success_count, failure_count, cooled, up>>

\* acquire returns False.
Refuse(r) ==
  /\ r \notin flying
  /\ \/ state = "open" /\ ~cooled
     \/ state = "half_open" /\ half_open_count >= HalfOpenMax
  /\ UNCHANGED vars

Report(r) ==
  /\ r \in flying
  /\ flying' = flying \ {r}
  /\ probes' = probes \ {r}
  /\ doomed' = doomed \ {r}
  /\ UNCHANGED <<half_open_count, up>>

\* record_success, of a request that the node answered.
RecordSuccess(r) ==
  /\ up
  /\ Report(r)
  /\ IF state = "half_open"
     THEN /\ success_count' = success_count + 1
          /\ IF success_count' >= SuccessThreshold
             THEN state' = "closed" /\ failure_count' = 0
             ELSE UNCHANGED <<state, failure_count>>
     ELSE failure_count' = 0 /\ UNCHANGED <<state, success_count>>
  /\ UNCHANGED cooled

\* Mutant of RecordFailure: failures are counted only while closed, so a probe
\* that fails is neither a success nor a reason to reopen.
RecordFailureClosed(r) ==
  /\ r \in doomed
  /\ Report(r)
  /\ failure_count' = IF failure_count < FailureThreshold
                      THEN failure_count + 1 ELSE failure_count
  /\ cooled' = FALSE
  /\ state' = IF state = "closed" /\ failure_count' >= FailureThreshold
              THEN "open" ELSE state
  /\ UNCHANGED success_count

\* record_failure, of a request in flight while forwards failed, for whatever
\* reason: a refused request of its own is NodeFails followed by NodeRecovers.
RecordFailure(r) ==
  /\ r \in doomed
  /\ Report(r)
  /\ failure_count' = IF failure_count < FailureThreshold
                      THEN failure_count + 1 ELSE failure_count
  /\ cooled' = FALSE
  /\ state' = IF state = "half_open" \/ failure_count' >= FailureThreshold
              THEN "open" ELSE state
  /\ UNCHANGED success_count

\* open_duration passes.
Cool ==
  /\ ~cooled
  /\ cooled' = TRUE
  /\ UNCHANGED <<state, counts, flying, probes, node>>

NodeFails ==
  /\ up
  /\ up' = FALSE
  /\ doomed' = flying
  /\ UNCHANGED <<state, counts, cooled, flying, probes>>

NodeRecovers ==
  /\ ~up
  /\ up' = TRUE
  /\ UNCHANGED <<state, counts, cooled, flying, probes, doomed>>

Acquire(r) == Pass(r) \/ Probe(r) \/ ProbeMore(r) \/ Refuse(r)
Record(r) == RecordSuccess(r) \/ RecordFailure(r)

Next ==
  \/ \E r \in Requests : Acquire(r) \/ Record(r)
  \/ Cool \/ NodeFails \/ NodeRecovers

\* Time passes, every forward ends (request_timeout), and clients keep asking.
Fairness ==
  /\ WF_vars(Cool)
  /\ \A r \in Requests : WF_vars(Record(r)) /\ WF_vars(Acquire(r))

Spec == Init /\ [][Next]_vars
FairSpec == Spec /\ Fairness
----------------------------------------------------------------------------
TypeOK ==
  /\ state \in {"closed", "open", "half_open"}
  /\ success_count \in 0 .. SuccessThreshold
  /\ half_open_count \in 0 .. HalfOpenMax
  /\ failure_count \in 0 .. FailureThreshold
  /\ cooled \in BOOLEAN
  /\ flying \subseteq Requests
  /\ probes \subseteq flying
  /\ up \in BOOLEAN
  /\ doomed \subseteq flying

\* Every permit of the current half-open phase is in flight or was counted as a
\* success: acquire, record_success and record_failure lose none of them, late
\* results of earlier phases included.
NoPermitLost ==
  state = "half_open" => half_open_count <= Cardinality(probes) + success_count

\* A half-open circuit that refuses everybody is waiting for a probe of its own,
\* so that it is never refusing with nothing left to end the phase.
RefusalAwaitsProbe ==
  state = "half_open" /\ half_open_count >= HalfOpenMax => probes # {}

\* A closed circuit has fewer failures in a row than open it, so one failure
\* after a recovery does not (record_success resets the count on closing).
ClosedBelowThreshold == state = "closed" => failure_count < FailureThreshold

\* When the node stays up the circuit ends up closed for good, whatever results
\* of the outage are still to come.
Recovers == <>[]up => <>[](state = "closed")
=============================================================================
