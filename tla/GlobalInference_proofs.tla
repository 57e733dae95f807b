----------------------- MODULE GlobalInference_proofs -----------------------
(***************************************************************************)
(* Proofs about GlobalInference: the type invariant, the exact counters    *)
(* and the idempotency cache, for any numbers of nodes, requests and keys. *)
(***************************************************************************)
EXTENDS GlobalInference, FiniteSetTheorems, TLAPS

\* A request that looks for a node has tried one at most, and none before it
\* looked the first time; who launches or forwards does it on some node.
AttemptsOK ==
  \A r \in Requests :
    /\ rpc[r] = "new" => tried[r] = {}
    /\ rpc[r] \in {"launching", "polling"} => Cardinality(tried[r]) <= 1
    /\ rpc[r] \in {"launching", "forwarding"} => rnode[r] \in Nodes

\* A recent result is cached under its key, unless a later one took its place.
CacheOK ==
  \A i \in DOMAIN recent :
    /\ key[recent[i]] \in Keys
    /\ \E j \in DOMAIN recent : i <= j /\ cache[key[recent[i]]] = recent[j]

IInv == TypeOK /\ AttemptsOK /\ CountersExact /\ CacheOK
----------------------------------------------------------------------------
(* Finite sets. *)

\* The sets that the counters stand for are finite.
LEMMA SetsFinite ==
  ASSUME TypeOK
  PROVE  /\ IsFiniteSet(Handled)
         /\ \A n \in Nodes : IsFiniteSet(HandledBy(n))
         /\ \A r \in Requests : IsFiniteSet(tried[r])
         /\ IsFiniteSet(Active)
<1>1. IsFiniteSet(Handled)
  BY GlobalConstantsOK, FS_Subset DEF Handled
<1>2. \A n \in Nodes : HandledBy(n) \subseteq Handled
  BY DEF HandledBy
<1>3. \A n \in Nodes : IsFiniteSet(HandledBy(n))
  BY <1>1, <1>2, FS_Subset
<1>4. \A r \in Requests : tried[r] \subseteq Nodes
  BY DEF TypeOK
<1>5. \A r \in Requests : IsFiniteSet(tried[r])
  BY <1>4, GlobalConstantsOK, FS_Subset
<1>6. IsFiniteSet(Active)
  BY GlobalConstantsOK, FS_Subset DEF Active
<1> QED BY <1>1, <1>3, <1>5, <1>6

\* One more element that was not there.
LEMMA OneMore ==
  ASSUME NEW S, IsFiniteSet(S), NEW x, x \notin S
  PROVE  Cardinality(S \union {x}) = Cardinality(S) + 1
BY FS_AddElement

\* One element fewer that was there.
LEMMA OneLess ==
  ASSUME NEW S, IsFiniteSet(S), NEW x \in S
  PROVE  /\ Cardinality(S \ {x}) = Cardinality(S) - 1
         /\ Cardinality(S) \in Nat \ {0}
<1>1. Cardinality(S \ {x}) = Cardinality(S) - 1
  BY FS_RemoveElement
<1>2. Cardinality(S) \in Nat
  BY FS_CardinalityType
<1>3. IsFiniteSet(S \ {x})
  BY FS_Subset, S \ {x} \subseteq S
<1>4. Cardinality(S \ {x}) \in Nat
  BY <1>3, FS_CardinalityType
<1> QED BY <1>1, <1>2, <1>4
----------------------------------------------------------------------------
(* What the parts of a step do to the counters. *)

\* A request is sent to a node it has not tried: it is handled, and counted there.
LEMMA SendCounts ==
  ASSUME IInv, NEW r \in Requests, NEW n \in Nodes \ tried[r],
         rpc[r] = "new" \/ r \in Handled,
         Send(r, n)
  PROVE  /\ Handled' = Handled \union {r}
         /\ \A m \in Nodes : inflight'[m] = Cardinality(HandledBy(m)')
         /\ inflight' \in [Nodes -> Nat]
<1> USE DEF IInv
<1>1. Handled' = Handled \union {r}
  BY DEF Handled, Send, TypeOK
<1>2. r \notin HandledBy(n)
  BY DEF HandledBy
<1>3. HandledBy(n)' = HandledBy(n) \union {r}
  BY <1>1 DEF HandledBy, Send, TypeOK
<1>4. IsFiniteSet(HandledBy(n))
  BY SetsFinite
<1>5. Cardinality(HandledBy(n)') = Cardinality(HandledBy(n)) + 1
  BY <1>2, <1>3, <1>4, OneMore
<1>6. inflight'[n] = Cardinality(HandledBy(n)')
  BY <1>5 DEF Send, TypeOK, CountersExact
<1>7. ASSUME NEW m \in Nodes, m # n
      PROVE  inflight'[m] = Cardinality(HandledBy(m)')
  <2>1. HandledBy(m)' = HandledBy(m)
    <3>1. CASE rpc[r] = "new"
      <4>1. tried[r] = {}
        BY <3>1 DEF AttemptsOK
      <4>2. \A q \in Requests : m \in tried'[q] <=> m \in tried[q]
        BY <1>7 DEF Send, TypeOK
      <4> QED BY <1>1, <4>1, <4>2 DEF HandledBy, Handled
    <3>2. CASE r \in Handled
      <4>1. \A q \in Requests : m \in tried'[q] <=> m \in tried[q]
        BY <1>7 DEF Send, TypeOK
      <4> QED BY <1>1, <3>2, <4>1 DEF HandledBy, Handled
    <3> QED BY <3>1, <3>2
  <2>2. inflight'[m] = inflight[m]
    BY <1>7 DEF Send, TypeOK
  <2> QED BY <2>1, <2>2 DEF CountersExact
<1>8. inflight' \in [Nodes -> Nat]
  BY DEF Send, TypeOK
<1> QED BY <1>1, <1>6, <1>7, <1>8

\* A request that goes to sleep or launches a node stays counted where it was.
LEMMA WaitCounts ==
  ASSUME IInv, NEW r \in Requests,
         rpc[r] = "new" \/ r \in Handled,
         Wait(r) \/ \E n \in Nodes : Launch(r, n)
  PROVE  /\ Handled' = Handled \union {r}
         /\ \A m \in Nodes : inflight'[m] = Cardinality(HandledBy(m)')
         /\ inflight' \in [Nodes -> Nat]
<1> USE DEF IInv
<1>1. /\ rpc' = [rpc EXCEPT ![r] = "polling"]
         \/ rpc' = [rpc EXCEPT ![r] = "launching"]
      /\ tried' = tried /\ inflight' = inflight
  BY DEF Wait, Launch
<1>2. Handled' = Handled \union {r}
  BY <1>1 DEF Handled, TypeOK
<1>3. ASSUME NEW m \in Nodes PROVE HandledBy(m)' = HandledBy(m)
  <2>1. CASE rpc[r] = "new"
    <3>1. tried[r] = {}
      BY <2>1 DEF AttemptsOK
    <3> QED BY <1>1, <1>2, <3>1 DEF HandledBy
  <2>2. CASE r \in Handled
    BY <1>1, <1>2, <2>2 DEF HandledBy
  <2> QED BY <2>1, <2>2
<1> QED BY <1>1, <1>2, <1>3 DEF CountersExact, TypeOK

\* The finally clause takes back what the request was counted for, and no more.
LEMMA LeaveCounts ==
  ASSUME IInv, NEW r \in Handled, NEW pc \in {"done", "failed"}, Leave(r, pc)
  PROVE  /\ CountersExact'
         /\ pending' \in 0 .. MaxQueue
         /\ inflight' \in [Nodes -> Nat]
<1> USE DEF IInv
<1>0. r \in Requests
  BY DEF Handled
<1>1. Handled' = Handled \ {r}
  BY <1>0 DEF Handled, Leave, TypeOK
<1>2. /\ Cardinality(Handled') = Cardinality(Handled) - 1
      /\ Cardinality(Handled) \in Nat \ {0}
  BY <1>1, SetsFinite, OneLess
<1>3. pending' = Cardinality(Handled') /\ pending' \in 0 .. MaxQueue
  BY <1>2, GlobalConstantsOK DEF Leave, CountersExact, TypeOK
<1>4. ASSUME NEW m \in Nodes
      PROVE  /\ inflight'[m] = Cardinality(HandledBy(m)')
             /\ inflight'[m] \in Nat
  <2>1. HandledBy(m)' = HandledBy(m) \ {r}
    BY <1>0, <1>1 DEF HandledBy, Handled, Leave, End, TypeOK
  <2>2. inflight[m] = Cardinality(HandledBy(m)) /\ inflight[m] \in Nat
    BY DEF CountersExact, TypeOK
  <2>3. CASE m \in tried[r]
    <3>1. inflight'[m] = inflight[m] - 1
      BY <2>3 DEF Leave
    <3>2. r \in HandledBy(m)
      BY <2>3 DEF HandledBy
    <3>3. /\ Cardinality(HandledBy(m)') = Cardinality(HandledBy(m)) - 1
          /\ Cardinality(HandledBy(m)) \in Nat \ {0}
      BY <2>1, <3>2, SetsFinite, OneLess
    <3> QED BY <2>2, <3>1, <3>3
  <2>4. CASE m \notin tried[r]
    <3>1. inflight'[m] = inflight[m]
      BY <2>2, <2>4 DEF Leave
    <3>2. HandledBy(m)' = HandledBy(m)
      BY <2>1, <2>4 DEF HandledBy
    <3> QED BY <2>2, <3>1, <3>2
  <2> QED BY <2>3, <2>4
<1>5. inflight' \in [Nodes -> Nat]
  BY <1>4 DEF Leave
<1> QED BY <1>3, <1>4, <1>5 DEF CountersExact
----------------------------------------------------------------------------
(* What they do to the request itself. *)

\* The part of the type invariant that is about requests on their way.
PathOK ==
  /\ total \in [Nodes -> Nat]
  /\ rpc \in [Requests -> RequestPC]
  /\ rnode \in [Requests -> Nodes \union {NoNode}]
  /\ tried \in [Requests -> SUBSET Nodes]
  /\ \A r \in Requests : Cardinality(tried[r]) <= 2
  /\ polls \in [Requests -> 0 .. WaitIters]
  /\ AttemptsOK

\* Nothing has been tried yet by a request without tries.
LEMMA NoneTried == Cardinality({}) = 0
BY FS_EmptySet

\* A request that has tried at most one node may be sent to another.
LEMMA SendPath ==
  ASSUME IInv, NEW r \in Requests, NEW n \in Nodes \ tried[r],
         Cardinality(tried[r]) <= 1, Send(r, n)
  PROVE  PathOK'
<1> USE DEF IInv
<1>1. IsFiniteSet(tried[r])
  BY SetsFinite
<1>2. Cardinality(tried[r] \union {n}) = Cardinality(tried[r]) + 1
  BY <1>1, OneMore
<1>3. Cardinality(tried[r]) \in Nat
  BY <1>1, FS_CardinalityType
<1>4. tried'[r] = tried[r] \union {n} /\ tried' \in [Requests -> SUBSET Nodes]
  BY DEF Send, TypeOK
<1>5. \A q \in Requests : q # r => tried'[q] = tried[q]
  BY DEF Send, TypeOK
<1>6. ASSUME NEW q \in Requests PROVE Cardinality(tried'[q]) <= 2
  <2>1. CASE q = r
    BY <1>2, <1>3, <1>4, <2>1
  <2>2. CASE q # r
    <3>1. tried'[q] = tried[q]
      BY <1>5, <2>2
    <3> QED BY <3>1, Zenon DEF TypeOK
  <2> QED BY <2>1, <2>2
<1>7. AttemptsOK'
  BY <1>5 DEF AttemptsOK, Send, TypeOK
<1>8. /\ total' \in [Nodes -> Nat]
      /\ rpc' \in [Requests -> RequestPC]
      /\ rnode' \in [Requests -> Nodes \union {NoNode}]
      /\ polls' \in [Requests -> 0 .. WaitIters]
  BY GlobalConstantsOK DEF Send, TypeOK, RequestPC
<1> QED BY <1>4, <1>6, <1>7, <1>8 DEF PathOK

\* It may as well wait or launch one.
LEMMA WaitPath ==
  ASSUME IInv, NEW r \in Requests, Cardinality(tried[r]) <= 1,
         Wait(r) \/ \E n \in Nodes : Launch(r, n)
  PROVE  PathOK'
<1> USE DEF IInv
<1>1. CASE Wait(r)
  BY <1>1, GlobalConstantsOK DEF Wait, PathOK, AttemptsOK, TypeOK, RequestPC
<1>2. CASE \E n \in Nodes : Launch(r, n)
  BY <1>2 DEF Launch, PathOK, AttemptsOK, TypeOK, RequestPC
<1> QED BY <1>1, <1>2

\* A request that is answered leaves nothing behind.
LEMMA LeavePath ==
  ASSUME IInv, NEW r \in Requests, NEW pc \in {"done", "failed"}, Leave(r, pc)
  PROVE  PathOK'
<1> USE DEF IInv
<1>1. \A q \in Requests : tried'[q] = IF q = r THEN {} ELSE tried[q]
  BY DEF Leave, End, TypeOK
<1>2. ASSUME NEW q \in Requests PROVE Cardinality(tried'[q]) <= 2
  <2>1. CASE q = r
    <3>1. tried'[q] = {}
      BY <1>1, <2>1
    <3> QED BY <3>1, NoneTried
  <2>2. CASE q # r
    <3>1. tried'[q] = tried[q]
      BY <1>1, <2>2
    <3> QED BY <3>1, Zenon DEF TypeOK
  <2> QED BY <2>1, <2>2
<1>3. AttemptsOK'
  BY <1>1 DEF AttemptsOK, Leave, End, TypeOK
<1>4. /\ total' \in [Nodes -> Nat]
      /\ rpc' \in [Requests -> RequestPC]
      /\ rnode' \in [Requests -> Nodes \union {NoNode}]
      /\ tried' \in [Requests -> SUBSET Nodes]
      /\ polls' \in [Requests -> 0 .. WaitIters]
  BY GlobalConstantsOK DEF Leave, End, TypeOK, RequestPC
<1> QED BY <1>2, <1>3, <1>4 DEF PathOK

\* Looking for a node ends in one of the three.
LEMMA LookUpStep ==
  ASSUME IInv, NEW r \in Requests, LookUp(r),
         \/ rpc[r] = "new"
         \/ rpc[r] = "forwarding" /\ Cardinality(tried[r]) = 1
  PROVE  /\ Handled' = Handled \union {r}
         /\ \A m \in Nodes : inflight'[m] = Cardinality(HandledBy(m)')
         /\ inflight' \in [Nodes -> Nat]
         /\ PathOK'
         /\ status' \in [Nodes -> {"idle", "active", "out"}]
         /\ rpc'[r] # "new" /\ rpc'[r] # "done"
         /\ \A q \in Requests \ {r} : rpc'[q] = rpc[q]
<1> USE DEF IInv
<1>1. Cardinality(tried[r]) <= 1
  BY NoneTried DEF AttemptsOK
<1>2. rpc[r] = "new" \/ r \in Handled
  BY DEF Handled
<1>3. CASE \E n \in Untried(r) : Send(r, n) /\ UNCHANGED status
  <2>1. PICK n \in Nodes \ tried[r] : Send(r, n) /\ UNCHANGED status
    BY <1>3 DEF Untried, Placed, Active
  <2>2. /\ status' \in [Nodes -> {"idle", "active", "out"}]
        /\ rpc'[r] # "new" /\ rpc'[r] # "done"
        /\ \A q \in Requests \ {r} : rpc'[q] = rpc[q]
    BY <2>1 DEF Send, TypeOK
  <2> QED BY <1>1, <1>2, <2>1, <2>2, SendCounts, SendPath
<1>4. CASE \E n \in Nodes : Launch(r, n)
  <2>1. /\ status' \in [Nodes -> {"idle", "active", "out"}]
        /\ rpc'[r] # "new" /\ rpc'[r] # "done"
        /\ \A q \in Requests \ {r} : rpc'[q] = rpc[q]
    BY <1>4 DEF Launch, TypeOK
  <2> QED BY <1>1, <1>2, <1>4, <2>1, WaitCounts, WaitPath
<1>5. CASE Wait(r) /\ UNCHANGED status
  <2>1. /\ status' \in [Nodes -> {"idle", "active", "out"}]
        /\ rpc'[r] # "new" /\ rpc'[r] # "done"
        /\ \A q \in Requests \ {r} : rpc'[q] = rpc[q]
    BY <1>5 DEF Wait, TypeOK
  <2> QED BY <1>1, <1>2, <1>5, <2>1, WaitCounts, WaitPath
<1> QED BY <1>3, <1>4, <1>5 DEF LookUp
----------------------------------------------------------------------------
(* Every step keeps types and counters. *)

\* A request is taken up.
LEMMA AcceptStep ==
  ASSUME IInv, NEW r \in Requests, Accept(r)
  PROVE  TypeOK' /\ AttemptsOK' /\ CountersExact'
<1> USE DEF IInv
<1>1. rpc[r] = "new" /\ pending < MaxQueue /\ pending' = pending + 1
      /\ LookUp(r) /\ UNCHANGED <<results, key>>
  BY DEF Accept
<1>2. /\ Handled' = Handled \union {r}
      /\ \A m \in Nodes : inflight'[m] = Cardinality(HandledBy(m)')
      /\ inflight' \in [Nodes -> Nat]
      /\ PathOK'
      /\ status' \in [Nodes -> {"idle", "active", "out"}]
  BY <1>1, LookUpStep
<1>3. r \notin Handled
  BY <1>1 DEF Handled
<1>4. Cardinality(Handled') = Cardinality(Handled) + 1
  BY <1>2, <1>3, SetsFinite, OneMore
<1>5. pending' = Cardinality(Handled') /\ pending' \in 0 .. MaxQueue
  BY <1>1, <1>4, GlobalConstantsOK DEF CountersExact, TypeOK
<1>6. TypeOK'
  BY <1>1, <1>2, <1>5 DEF TypeOK, PathOK, results
<1> QED BY <1>2, <1>5, <1>6 DEF CountersExact, PathOK

\* A request that was handled is sent on, waits or launches.
LEMMA GoesOn ==
  ASSUME IInv, NEW r \in Handled,
         Handled' = Handled \union {r},
         \A m \in Nodes : inflight'[m] = Cardinality(HandledBy(m)'),
         inflight' \in [Nodes -> Nat],
         PathOK',
         status' \in [Nodes -> {"idle", "active", "out"}],
         UNCHANGED <<pending, results, key>>
  PROVE  TypeOK' /\ AttemptsOK' /\ CountersExact'
<1> USE DEF IInv
<1>1. Handled' = Handled
  OBVIOUS
<1>2. TypeOK'
  BY DEF TypeOK, PathOK, results
<1>3. CountersExact'
  BY <1>1 DEF CountersExact
<1> QED BY <1>2, <1>3 DEF PathOK

\* A request is answered.
LEMMA LeaveStep ==
  ASSUME IInv, NEW r \in Handled, NEW pc \in {"done", "failed"}, Leave(r, pc),
         UNCHANGED <<status, key>>,
         cache' \in [Keys -> Requests \union {NoResult}],
         recent' \in Seq(Requests)
  PROVE  TypeOK' /\ AttemptsOK' /\ CountersExact'
<1>1. r \in Requests
  BY DEF Handled
<1>2. PathOK'
  BY <1>1, LeavePath
<1>3. /\ CountersExact'
      /\ pending' \in 0 .. MaxQueue
      /\ inflight' \in [Nodes -> Nat]
  BY LeaveCounts
<1> QED BY <1>2, <1>3 DEF PathOK, TypeOK, IInv

\* A launch ends.
LEMMA LaunchedStep ==
  ASSUME IInv, NEW r \in Requests, Launched(r)
  PROVE  TypeOK' /\ AttemptsOK' /\ CountersExact'
<1> USE DEF IInv
<1>1. rpc[r] = "launching" /\ r \in Handled /\ Cardinality(tried[r]) <= 1
      /\ rnode[r] \in Nodes
  BY DEF Launched, Handled, AttemptsOK
<1>2. status' \in [Nodes -> {"idle", "active", "out"}]
  BY DEF Launched, TypeOK
<1>3. UNCHANGED <<pending, results, key>>
  BY DEF Launched
<1>4. CASE Wait(r)
  BY <1>1, <1>2, <1>3, <1>4, WaitCounts, WaitPath, GoesOn
<1>5. CASE rnode[r] \notin tried[r] /\ Send(r, rnode[r])
  <2>1. PICK n \in Nodes \ tried[r] : Send(r, n)
    BY <1>1, <1>5
  <2> QED BY <1>1, <1>2, <1>3, <2>1, SendCounts, SendPath, GoesOn
<1> QED BY <1>4, <1>5 DEF Launched

\* A poll.
LEMMA PollStep ==
  ASSUME IInv, NEW r \in Requests, Poll(r)
  PROVE  TypeOK' /\ AttemptsOK' /\ CountersExact'
<1> USE DEF IInv
<1>1. r \in Handled /\ Cardinality(tried[r]) <= 1
  BY DEF Poll, Handled, AttemptsOK
<1>2. UNCHANGED <<status, pending, results, key>> /\ polls[r] < WaitIters
  BY DEF Poll
<1>3. CASE \E n \in Untried(r) : Send(r, n)
  <2>1. PICK n \in Nodes \ tried[r] : Send(r, n)
    BY <1>3 DEF Untried, Placed, Active
  <2>2. status' \in [Nodes -> {"idle", "active", "out"}]
    BY <1>2 DEF TypeOK
  <2> QED BY <1>1, <1>2, <2>1, <2>2, SendCounts, SendPath, GoesOn
<1>4. CASE /\ polls' = [polls EXCEPT ![r] = @ + 1]
           /\ UNCHANGED <<rpc, rnode, tried, inflight, total>>
  <2>1. polls' \in [Requests -> 0 .. WaitIters]
    BY <1>2, <1>4, GlobalConstantsOK DEF TypeOK
  <2>2. Handled' = Handled /\ \A m \in Nodes : HandledBy(m)' = HandledBy(m)
    BY <1>4 DEF Handled, HandledBy
  <2>3. TypeOK' /\ AttemptsOK'
    BY <1>2, <1>4, <2>1 DEF TypeOK, AttemptsOK, results
  <2> QED BY <1>2, <1>4, <2>2, <2>3 DEF CountersExact
<1> QED BY <1>3, <1>4 DEF Poll

\* A forward fails.
LEMMA FailStep ==
  ASSUME IInv, NEW r \in Requests, Fail(r)
  PROVE  TypeOK' /\ AttemptsOK' /\ CountersExact'
<1> USE DEF IInv
<1>1. rpc[r] = "forwarding" /\ r \in Handled /\ UNCHANGED <<results, key>>
  BY DEF Fail, Handled
<1>2. CASE Cardinality(tried[r]) = 1 /\ LookUp(r) /\ UNCHANGED pending
  BY <1>1, <1>2, LookUpStep, GoesOn
<1>3. CASE Leave(r, "failed") /\ UNCHANGED status
  <2>1. UNCHANGED <<cache, recent>>
    BY <1>1 DEF results
  <2> QED BY <1>1, <1>3, <2>1, LeaveStep DEF TypeOK
<1> QED BY <1>2, <1>3 DEF Fail

\* A forward succeeds.
LEMMA SucceedStep ==
  ASSUME IInv, NEW r \in Requests, Succeed(r)
  PROVE  TypeOK' /\ AttemptsOK' /\ CountersExact'
<1> USE DEF IInv
<1>1. r \in Handled /\ Leave(r, "done") /\ UNCHANGED <<status, key>>
  BY DEF Succeed, Handled
<1>2. cache' \in [Keys -> Requests \union {NoResult}]
  BY DEF Succeed, TypeOK, results
<1>3. recent' = recent \/ recent' = Append(recent, r)
  BY DEF Succeed, results
<1>4. recent \in Seq(Requests)
  BY DEF TypeOK
<1>5. Append(recent, r) \in Seq(Requests)
  BY <1>4
<1>6. recent' \in Seq(Requests)
  BY <1>3, <1>4, <1>5
<1> QED BY <1>1, <1>2, <1>6, LeaveStep

\* Steps that neither begin nor end the handling of a request.
LEMMA OtherSteps ==
  ASSUME IInv,
         \/ \E r \in Requests : AnswerCached(r) \/ Reject(r)
         \/ HourPasses
         \/ Cleanup
         \/ \E n \in Nodes : StatusWritten(n)
         \/ UNCHANGED vars
  PROVE  TypeOK' /\ AttemptsOK' /\ CountersExact'
<1> USE DEF IInv
<1>1. CASE \E r \in Requests : AnswerCached(r) \/ Reject(r)
  <2>1. PICK r \in Requests : AnswerCached(r) \/ Reject(r)
    BY <1>1
  <2>2. Handled' = Handled /\ \A m \in Nodes : HandledBy(m)' = HandledBy(m)
    BY <2>1 DEF AnswerCached, Reject, Handled, HandledBy, TypeOK
  <2>3. TypeOK' /\ AttemptsOK'
    BY <2>1 DEF AnswerCached, Reject, TypeOK, AttemptsOK, RequestPC, counters,
                results
  <2>4. UNCHANGED <<pending, inflight>>
    BY <2>1 DEF AnswerCached, Reject, counters
  <2> QED BY <2>2, <2>3, <2>4 DEF CountersExact
<1>2. ASSUME UNCHANGED <<counters, progress>> PROVE AttemptsOK' /\ CountersExact'
  <2>1. Handled' = Handled /\ \A m \in Nodes : HandledBy(m)' = HandledBy(m)
    BY <1>2 DEF Handled, HandledBy, progress
  <2> QED BY <1>2, <2>1 DEF AttemptsOK, CountersExact, counters, progress
<1>3. CASE HourPasses
  <2>1. recent' \in Seq(Requests)
    BY <1>3 DEF HourPasses, TypeOK
  <2>2. TypeOK'
    BY <1>3, <2>1 DEF HourPasses, TypeOK, counters, progress
  <2> QED BY <1>2, <1>3, <2>2 DEF HourPasses
<1>4. CASE Cleanup
  <2>1. TypeOK'
    BY <1>4 DEF Cleanup, TypeOK, counters, progress
  <2> QED BY <1>2, <1>4, <2>1 DEF Cleanup
<1>5. CASE \E n \in Nodes : StatusWritten(n)
  <2>1. TypeOK'
    BY <1>5 DEF StatusWritten, TypeOK, counters, progress, results
  <2> QED BY <1>2, <1>5, <2>1 DEF StatusWritten
<1>6. CASE UNCHANGED vars
  <2>1. TypeOK'
    BY <1>6 DEF vars, TypeOK, counters, progress, results
  <2> QED BY <1>2, <1>6, <2>1 DEF vars
<1> QED BY <1>1, <1>3, <1>4, <1>5, <1>6

\* No node came.
LEMMA GiveUpStep ==
  ASSUME IInv, NEW r \in Requests, GiveUp(r)
  PROVE  TypeOK' /\ AttemptsOK' /\ CountersExact'
<1>1. r \in Handled /\ Leave(r, "failed")
  BY DEF GiveUp, Handled
<1>2. UNCHANGED <<status, key>> /\ UNCHANGED <<cache, recent>>
  BY DEF GiveUp, results
<1> QED BY <1>1, <1>2, LeaveStep DEF IInv, TypeOK
----------------------------------------------------------------------------
(* The cache. *)

\* A new result takes the place of the earlier ones of its key.
LEMMA SucceedCache ==
  ASSUME IInv, NEW r \in Requests, Succeed(r)
  PROVE  CacheOK'
<1> USE DEF IInv
<1>1. key' = key /\ key \in [Requests -> Keys \union {NoKey}]
  BY DEF Succeed, TypeOK
<1>2. recent \in Seq(Requests) /\ cache \in [Keys -> Requests \union {NoResult}]
  BY DEF TypeOK
<1>3. CASE UNCHANGED results
  BY <1>1, <1>3 DEF results, CacheOK
<1>4. CASE /\ key[r] # NoKey
           /\ cache' = [cache EXCEPT ![key[r]] = r]
           /\ recent' = Append(recent, r)
  <2>1. key[r] \in Keys
    BY <1>1, <1>4
  <2> DEFINE last == Len(recent) + 1
  <2>2. /\ Len(recent) \in Nat
        /\ DOMAIN recent = 1 .. Len(recent)
        /\ DOMAIN recent' = 1 .. last
        /\ recent'[last] = r
        /\ \A i \in DOMAIN recent : recent'[i] = recent[i]
    BY <1>2, <1>4
  <2>3. ASSUME NEW i \in DOMAIN recent'
        PROVE  /\ key[recent'[i]] \in Keys
               /\ \E j \in DOMAIN recent' : i <= j /\ cache'[key[recent'[i]]] = recent'[j]
    <3>1. key[recent'[i]] \in Keys
      BY <2>1, <2>2 DEF CacheOK
    <3>2. CASE key[recent'[i]] = key[r]
      <4>1. cache'[key[recent'[i]]] = recent'[last]
        BY <1>2, <1>4, <2>1, <2>2, <3>2
      <4>2. last \in DOMAIN recent' /\ i <= last
        BY <2>2
      <4> QED BY <3>1, <4>1, <4>2
    <3>3. CASE key[recent'[i]] # key[r]
      <4>1. i \in DOMAIN recent /\ recent'[i] = recent[i]
        BY <2>2, <3>3
      <4>2. PICK j \in DOMAIN recent : i <= j /\ cache[key[recent[i]]] = recent[j]
        BY <4>1 DEF CacheOK
      <4>3. cache'[key[recent'[i]]] = cache[key[recent[i]]]
        BY <1>2, <1>4, <3>1, <3>3, <4>1
      <4>4. j \in DOMAIN recent' /\ recent'[j] = recent[j]
        BY <2>2
      <4> QED BY <3>1, <4>2, <4>3, <4>4
    <3> QED BY <3>2, <3>3
  <2> QED BY <1>1, <2>3 DEF CacheOK
<1> QED BY <1>3, <1>4 DEF Succeed

\* The oldest result is forgotten; a younger one is cached after it.
LEMMA HourCache ==
  ASSUME IInv, HourPasses
  PROVE  CacheOK'
<1> USE DEF IInv
<1>1. recent \in Seq(Requests) /\ recent # <<>> /\ recent' = Tail(recent)
      /\ cache' = cache /\ key' = key
  BY DEF HourPasses, TypeOK
<1>2. /\ Len(recent) \in Nat
      /\ DOMAIN recent = 1 .. Len(recent)
      /\ DOMAIN recent' = 1 .. Len(recent) - 1
      /\ \A i \in DOMAIN recent' : recent'[i] = recent[i + 1]
  BY <1>1
<1>3. ASSUME NEW i \in DOMAIN recent'
      PROVE  /\ key[recent'[i]] \in Keys
             /\ \E j \in DOMAIN recent' : i <= j /\ cache[key[recent'[i]]] = recent'[j]
  <2>1. i + 1 \in DOMAIN recent /\ recent'[i] = recent[i + 1]
    BY <1>2
  <2>2. PICK k \in DOMAIN recent :
          i + 1 <= k /\ cache[key[recent[i + 1]]] = recent[k]
    BY <2>1 DEF CacheOK
  <2>3. k - 1 \in DOMAIN recent' /\ i <= k - 1 /\ recent'[k - 1] = recent[k]
    BY <1>2, <2>1, <2>2
  <2> QED BY <2>1, <2>2, <2>3 DEF CacheOK
<1> QED BY <1>1, <1>3 DEF CacheOK

\* The clean-up only drops what no recent result is cached as.
LEMMA CleanupCache ==
  ASSUME IInv, Cleanup
  PROVE  CacheOK'
<1> USE DEF IInv
<1>1. recent' = recent /\ key' = key
      /\ cache' = [k \in Keys |-> IF Expired(k) THEN NoResult ELSE cache[k]]
  BY DEF Cleanup
<1>2. ASSUME NEW i \in DOMAIN recent
      PROVE  cache'[key[recent[i]]] = cache[key[recent[i]]]
  <2>1. key[recent[i]] \in Keys /\ cache[key[recent[i]]] \in Recent
    BY DEF CacheOK, Recent
  <2>2. ~Expired(key[recent[i]])
    BY <2>1 DEF Expired
  <2> QED BY <1>1, <2>1, <2>2
<1> QED BY <1>1, <1>2 DEF CacheOK

\* A request's step leaves the others where they are.
LEMMA OthersStay ==
  ASSUME IInv, NEW p \in Requests, NEW r \in Requests \ {p},
         AnswerCached(p) \/ Reject(p) \/ Accept(p) \/ Proceed(p)
  PROVE  rpc'[r] = rpc[r]
<1> USE DEF IInv
<1>1. rpc' = rpc \/ \E pc \in RequestPC : rpc' = [rpc EXCEPT ![p] = pc]
  BY DEF AnswerCached, Reject, Accept, Proceed, Launched, Poll, GiveUp, Succeed,
         Fail, LookUp, Send, Wait, Launch, Leave, RequestPC
<1> QED BY <1>1 DEF TypeOK

\* Every step keeps the invariant.
LEMMA StepIInv == IInv /\ [Next]_vars => IInv'
<1> SUFFICES ASSUME IInv, [Next]_vars PROVE IInv'
  OBVIOUS
<1>1. TypeOK' /\ AttemptsOK' /\ CountersExact'
  BY AcceptStep, LaunchedStep, PollStep, FailStep, SucceedStep, OtherSteps,
     GiveUpStep DEF Next, Proceed
<1>2. ASSUME UNCHANGED <<results, key>> PROVE CacheOK'
  BY <1>2 DEF IInv, CacheOK, results
<1>3. CacheOK'
  <2>1. CASE \E r \in Requests :
               AnswerCached(r) \/ Reject(r) \/ Accept(r) \/ Launched(r)
                 \/ Poll(r) \/ GiveUp(r) \/ Fail(r)
    BY <1>2, <2>1 DEF AnswerCached, Reject, Accept, Launched, Poll, GiveUp, Fail
  <2>2. CASE \E n \in Nodes : StatusWritten(n)
    BY <1>2, <2>2 DEF StatusWritten
  <2>3. CASE UNCHANGED vars
    BY <1>2, <2>3 DEF vars
  <2>4. CASE \E r \in Requests : Succeed(r)
    BY <2>4, SucceedCache
  <2> QED BY <2>1, <2>2, <2>3, <2>4, HourCache, CleanupCache DEF Next, Proceed
<1> QED BY <1>1, <1>3 DEF IInv

\* It holds at the start.
LEMMA InitIInv == Init => IInv
<1> SUFFICES ASSUME Init PROVE IInv
  OBVIOUS
<1>1. TypeOK
  BY GlobalConstantsOK, NoneTried DEF Init, TypeOK, RequestPC
<1>2. AttemptsOK
  BY DEF Init, AttemptsOK
<1>3. Handled = {} /\ \A n \in Nodes : HandledBy(n) = {}
  BY DEF Init, Handled, HandledBy
<1>4. CountersExact
  BY <1>3, NoneTried DEF Init, CountersExact
<1>5. CacheOK
  BY DEF Init, CacheOK
<1> QED BY <1>1, <1>2, <1>4, <1>5 DEF IInv

\* IInv is an inductive invariant.
THEOREM Inductive == Spec => []IInv
BY InitIInv, StepIInv, PTL DEF Spec

\* Every variable keeps its shape: at most max_queue_size requests wait, and
\* each has tried two nodes at most (_handle_inference).
THEOREM TypeCorrect == Spec => []TypeOK
<1>1. IInv => TypeOK
  BY DEF IInv
<1> QED BY <1>1, Inductive, PTL

\* Whatever way a request leaves the handler, _pending_requests and
\* _inflight_per_node count exactly those that are in it.
THEOREM CountersCorrect == Spec => []CountersExact
<1>1. IInv => CountersExact
  BY DEF IInv
<1> QED BY <1>1, Inductive, PTL

\* A key with a result of the last hour is answered from the cache.
THEOREM CacheAnswers == Spec => NoRerun
<1> DEFINE A == \A r \in Requests :
       rpc[r] = "new" /\ rpc'[r] # "new" /\ key[r] # NoKey
         /\ (\E q \in Recent : key[q] = key[r])
       => rpc'[r] = "done" /\ tried'[r] = {}
<1>1. ASSUME IInv, Next PROVE A
  <2> SUFFICES ASSUME NEW r \in Requests, rpc[r] = "new", rpc'[r] # "new",
                      NEW q \in Recent, key[q] = key[r], key[r] # NoKey
               PROVE  rpc'[r] = "done" /\ tried'[r] = {}
    OBVIOUS
  <2>1. Cached(r)
    <3>1. PICK i \in DOMAIN recent : recent[i] = q
      BY DEF Recent
    <3>2. cache[key[q]] \in Recent
      BY <1>1, <3>1 DEF IInv, CacheOK, Recent
    <3> QED BY <3>2 DEF Cached
  <2>2. ~Reject(r) /\ ~Accept(r) /\ ~Proceed(r)
    BY <2>1 DEF Reject, Accept, Proceed, Launched, Poll, GiveUp, Succeed, Fail
  <2>3. ASSUME NEW p \in Requests \ {r},
               AnswerCached(p) \/ Reject(p) \/ Accept(p) \/ Proceed(p)
        PROVE  rpc'[r] = rpc[r]
    BY <1>1, <2>3, OthersStay
  <2>4. ASSUME HourPasses \/ Cleanup \/ \E n \in Nodes : StatusWritten(n)
        PROVE  rpc'[r] = rpc[r]
    BY <2>4 DEF HourPasses, Cleanup, StatusWritten, progress
  <2>5. AnswerCached(r)
    BY <1>1, <2>2, <2>3, <2>4 DEF Next
  <2>6. tried[r] = {}
    BY <1>1 DEF IInv, AttemptsOK
  <2> QED BY <1>1, <2>5, <2>6 DEF AnswerCached, IInv, TypeOK
<1>2. IInv /\ [Next]_vars => [A]_vars
  BY <1>1
<1>3. Spec => [][A]_vars
  BY <1>2, Inductive, PTL DEF Spec
<1> QED BY <1>3 DEF NoRerun
=============================================================================
