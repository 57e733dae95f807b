------------------------ MODULE CircuitBreaker_proofs ------------------------
(***************************************************************************)
(* Proofs about CircuitBreaker for every set of requests and every         *)
(* configuration ConfigOK allows.                                          *)
(***************************************************************************)
EXTENDS CircuitBreaker, FiniteSetTheorems, TLAPS

\* A half-open circuit has not seen enough successes, or it would be closed.
StillProbing == state = "half_open" => success_count < SuccessThreshold

IInv == TypeOK /\ NoPermitLost /\ ClosedBelowThreshold /\ StillProbing

\* Any set of requests in flight can be counted.
LEMMA Countable ==
  ASSUME NEW S \in SUBSET Requests
  PROVE  IsFiniteSet(S) /\ Cardinality(S) \in Nat
  BY ConfigOK, FS_Subset, FS_CardinalityType DEF ConfigOK

\* A report takes at most one request out of the probes.
LEMMA OneLess ==
  ASSUME NEW S \in SUBSET Requests, NEW r
  PROVE  Cardinality(S) <= Cardinality(S \ {r}) + 1
<1>1. IsFiniteSet(S) /\ Cardinality(S) \in Nat
  BY Countable
<1>2. CASE r \in S
  <2>1. Cardinality(S \ {r}) = Cardinality(S) - 1
    BY <1>1, <1>2, FS_RemoveElement
  <2>2. QED
    BY <1>1, <2>1
<1>3. CASE r \notin S
  <2>1. S \ {r} = S
    BY <1>3
  <2>2. QED
    BY <1>1, <2>1
<1>4. QED
  BY <1>2, <1>3

\* The closed circuit with nothing in flight.
LEMMA InitIInv == Init => IInv
  BY ConfigOK DEF Init, IInv, TypeOK, NoPermitLost, ClosedBelowThreshold, StillProbing, ConfigOK

\* acquire, record_success, record_failure and the environment keep the invariant.
LEMMA Step == IInv /\ [Next]_vars => IInv'
<1> SUFFICES ASSUME IInv, [Next]_vars PROVE IInv'
  OBVIOUS
<1> USE ConfigOK DEF IInv, TypeOK, NoPermitLost, ClosedBelowThreshold, StillProbing, ConfigOK
<1>0. probes \in SUBSET Requests /\ Cardinality(probes) \in Nat
  BY Countable
<1>1. ASSUME NEW r \in Requests, Pass(r) PROVE IInv'
  BY <1>1 DEF Pass, Forward, counts
<1>2. ASSUME NEW r \in Requests, Probe(r) PROVE IInv'
  <2>1. probes' = {r} /\ Cardinality({r}) = 1
    BY <1>2, FS_Singleton DEF Probe
  <2>2. TypeOK'
    BY <1>2 DEF Probe, Forward
  <2>3. NoPermitLost' /\ ClosedBelowThreshold' /\ StillProbing'
    BY <1>2, <2>1 DEF Probe
  <2>4. QED
    BY <2>2, <2>3
<1>3. ASSUME NEW r \in Requests, ProbeMore(r) PROVE IInv'
  <2>1. r \notin probes
    BY <1>3 DEF ProbeMore
  <2>2. Cardinality(probes') = Cardinality(probes) + 1
    BY <1>3, <2>1, <1>0, Countable, FS_AddElement DEF ProbeMore
  <2>3. TypeOK'
    BY <1>3 DEF ProbeMore, Forward
  <2>4. NoPermitLost'
    BY <1>3, <1>0, <2>2 DEF ProbeMore
  <2>5. ClosedBelowThreshold' /\ StillProbing'
    BY <1>3 DEF ProbeMore
  <2>6. QED
    BY <2>3, <2>4, <2>5
<1>4. ASSUME NEW r \in Requests, RecordSuccess(r) PROVE IInv'
  <2>1. Cardinality(probes) <= Cardinality(probes') + 1 /\ Cardinality(probes') \in Nat
    BY <1>4, <1>0, OneLess, Countable DEF RecordSuccess, Report
  <2>2. TypeOK'
    BY <1>4 DEF RecordSuccess, Report
  <2>3. NoPermitLost'
    BY <1>4, <1>0, <2>1 DEF RecordSuccess, Report
  <2>4. ClosedBelowThreshold' /\ StillProbing'
    BY <1>4 DEF RecordSuccess, Report
  <2>5. QED
    BY <2>2, <2>3, <2>4
<1>5. ASSUME NEW r \in Requests, RecordFailure(r) PROVE IInv'
  <2>1. state' # "half_open"
    BY <1>5 DEF RecordFailure
  <2>2. TypeOK'
    <3>1. failure_count' \in 0 .. FailureThreshold
      BY <1>5 DEF RecordFailure
    <3>2. state' \in {"closed", "open", "half_open"} /\ cooled' \in BOOLEAN
      BY <1>5 DEF RecordFailure
    <3>3. UNCHANGED <<success_count, half_open_count, up>>
      BY <1>5 DEF RecordFailure, Report
    <3>4. flying' \subseteq Requests /\ probes' \subseteq flying' /\ doomed' \subseteq flying'
      BY <1>5 DEF RecordFailure, Report
    <3>5. QED
      BY <3>1, <3>2, <3>3, <3>4
  <2>3. ClosedBelowThreshold'
    BY <1>5 DEF RecordFailure
  <2>4. QED
    BY <2>1, <2>2, <2>3
<1>6. CASE Cool
  BY <1>6 DEF Cool, counts, node
<1>7. CASE NodeFails \/ NodeRecovers
  BY <1>7 DEF NodeFails, NodeRecovers, counts
<1>8. ASSUME NEW r \in Requests, Refuse(r) PROVE IInv'
  BY <1>8 DEF Refuse, vars, counts, node
<1>9. CASE UNCHANGED vars
  BY <1>9 DEF vars, counts, node
<1>10. QED
  BY <1>1, <1>2, <1>3, <1>4, <1>5, <1>6, <1>7, <1>8, <1>9 DEF Next, Acquire, Record

\* The invariant holds in every state.
LEMMA Inductive == Spec => []IInv
  BY InitIInv, Step, PTL DEF Spec

\* The counters and the sets of requests stay in their ranges: half_open_max
\* bounds the permits of a phase although late results come in between.
THEOREM TypeCorrect == Spec => []TypeOK
<1>1. IInv => TypeOK
  BY DEF IInv
<1>2. QED
  BY Inductive, <1>1, PTL

\* acquire hands out no permit of a half-open phase that is neither in flight
\* nor counted by record_success.
THEOREM PermitsKept == Spec => []NoPermitLost
<1>1. IInv => NoPermitLost
  BY DEF IInv
<1>2. QED
  BY Inductive, <1>1, PTL

\* A half-open circuit that refuses is always waiting for a probe of its own;
\* this needs success_threshold <= half_open_max.
THEOREM RefusalsEnd == Spec => []RefusalAwaitsProbe
<1>1. ASSUME IInv, state = "half_open", half_open_count >= HalfOpenMax
      PROVE  probes # {}
  <2>1. ASSUME probes = {} PROVE FALSE
    <3>1. Cardinality(probes) = 0
      BY <2>1, FS_EmptySet
    <3>2. half_open_count <= success_count /\ success_count < SuccessThreshold
      BY <1>1, <3>1 DEF IInv, NoPermitLost, StillProbing, TypeOK
    <3>3. QED
      BY <1>1, <3>2, ConfigOK DEF IInv, TypeOK, ConfigOK
  <2>2. QED
    BY <2>1
<1>2. IInv => RefusalAwaitsProbe
  BY <1>1 DEF RefusalAwaitsProbe
<1>3. QED
  BY Inductive, <1>2, PTL

\* One failure never opens a circuit that was just closed by its probes.
THEOREM ClosedHasRoom == Spec => []ClosedBelowThreshold
<1>1. IInv => ClosedBelowThreshold
  BY DEF IInv
<1>2. QED
  BY Inductive, <1>1, PTL
=============================================================================
