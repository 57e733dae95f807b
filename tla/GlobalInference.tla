-------------------------- MODULE GlobalInference --------------------------
(***************************************************************************)
(* The path of a client's request through the global controller            *)
(* (global_controller.py): the idempotency cache, the bound on waiting     *)
(* requests, placement (AffinityFirstPolicy), scale-up on demand, the wait *)
(* for a node, and the fail-over to a second node. The program is asyncio: *)
(* a step runs from one suspension to the next, and neither the registry   *)
(* nor the locks taken here are ever held across one.                      *)
(***************************************************************************)
EXTENDS Integers, Sequences, FiniteSets

CONSTANTS
  Nodes,        \* registered nodes, all of one base model
  NoNode,
  Requests,     \* requests that clients make
  Keys,         \* idempotency keys
  NoKey,        \* a request without one
  NoResult,     \* a key without a cached result
  max_workers,  \* capacity of each node
  MaxQueue,     \* max_queue_size: 1000 in the code
  MaxActive,    \* max_active_nodes
  Attempts,     \* forward_max_attempts: 2 in the code
  WaitIters     \* polls of a request that waits for a node: 300 in the code

ASSUME GlobalConstantsOK ==
  /\ IsFiniteSet(Nodes) /\ NoNode \notin Nodes
  /\ IsFiniteSet(Requests) /\ NoResult \notin Requests
  /\ NoKey \notin Keys
  /\ max_workers \in [Nodes -> Nat \ {0}]
  /\ MaxQueue \in Nat \ {0}
  /\ MaxActive \in Nat
  /\ Attempts \in Nat \ {0}
  /\ WaitIters \in Nat

VARIABLES
  status,    \* of each node in the registry; "out" stands for STARTING,
             \* DRAINING and FAILED, which this path does not tell apart
  total,     \* total_requests of each node
  inflight,  \* _inflight_per_node
  pending,   \* _pending_requests
  cache,     \* _idempotency_cache: the request whose result a key has
  recent,    \* keyed results of the last hour (_idempotency_ttl), oldest first
  key,       \* X-Idempotency-Key of each request
  rpc,       \* where a request is
  rnode,     \* the node it is sent to, or that it launches
  tried,     \* tried_nodes
  polls      \* how often it has polled

counters == <<total, inflight, pending>>
results == <<cache, recent>>
progress == <<rpc, rnode, tried, polls>>
vars == <<status, counters, results, key, progress>>

RequestPC == {"new",
              "launching",   \* awaiting POST /aggregator/launch
              "polling",     \* asleep for scale_up_poll_interval
              "forwarding",  \* awaiting _forward_to_node
              "done",        \* answered with a result
              "failed",      \* answered 502, or 503 "No available nodes"
              "rejected"}    \* answered 503 "Request queue full"

\* The requests _handle_inference is at work on.
Handled == {r \in Requests : rpc[r] \in {"launching", "polling", "forwarding"}}
\* Those of them that have tried n.
HandledBy(n) == {r \in Handled : n \in tried[r]}
Recent == {recent[i] : i \in DOMAIN recent}
Active == {n \in Nodes : status[n] = "active"}

\* One type invariant: the shape of every variable, and that a node is tried at
\* most once in each of two attempts.
TypeOK ==
  /\ status \in [Nodes -> {"idle", "active", "out"}]
  /\ total \in [Nodes -> Nat]
  /\ inflight \in [Nodes -> Nat]
  /\ pending \in 0 .. MaxQueue
  /\ cache \in [Keys -> Requests \union {NoResult}]
  /\ recent \in Seq(Requests)
  /\ key \in [Requests -> Keys \union {NoKey}]
  /\ rpc \in [Requests -> RequestPC]
  /\ rnode \in [Requests -> Nodes \union {NoNode}]
  /\ tried \in [Requests -> SUBSET Nodes]
  /\ \A r \in Requests : Cardinality(tried[r]) <= 2
  /\ polls \in [Requests -> 0 .. WaitIters]

Init ==
  /\ status \in [Nodes -> {"idle", "active", "out"}]
  /\ total = [n \in Nodes |-> 0]
  /\ inflight = [n \in Nodes |-> 0]
  /\ pending = 0
  /\ cache = [k \in Keys |-> NoResult]
  /\ recent = <<>>
  /\ key \in [Requests -> Keys \union {NoKey}]
  /\ rpc = [r \in Requests |-> "new"]
  /\ rnode = [r \in Requests |-> NoNode]
  /\ tried = [r \in Requests |-> {}]
  /\ polls = [r \in Requests |-> 0]
----------------------------------------------------------------------------
(* Finding a node: _get_node_for_request. *)

\* select_node_for_request: an active node with the fewest requests, so far, for
\* its capacity. Of several it takes the one registered first.
Placed ==
  {n \in Active : \A m \in Active :
     total[n] * max_workers[m] <= total[m] * max_workers[n]}

Untried(r) == Placed \ tried[r]

\* Placement offers nothing, or a node this request has tried.
NotOffered(r) == Placed \subseteq tried[r] \/ Placed \intersect tried[r] # {}

\* The node is recorded and the request leaves for it, before anything else runs.
Send(r, n) ==
  /\ rpc' = [rpc EXCEPT ![r] = "forwarding"]
  /\ rnode' = [rnode EXCEPT ![r] = n]
  /\ tried' = [tried EXCEPT ![r] = @ \union {n}]
  /\ inflight' = [inflight EXCEPT ![n] = @ + 1]
  /\ total' = [total EXCEPT ![n] = @ + 1]
  /\ polls' = [polls EXCEPT ![r] = 0]

\* Go to sleep for the first time.
Wait(r) ==
  /\ rpc' = [rpc EXCEPT ![r] = "polling"]
  /\ rnode' = [rnode EXCEPT ![r] = NoNode]
  /\ UNCHANGED <<tried, polls, inflight, total>>

\* _scale_up_node, up to the call of the node's agent: the status is STARTING.
Launch(r, n) ==
  /\ status' = [status EXCEPT ![n] = "out"]
  /\ rpc' = [rpc EXCEPT ![r] = "launching"]
  /\ rnode' = [rnode EXCEPT ![r] = n]
  /\ UNCHANGED <<tried, polls, inflight, total>>

\* A node is looked for: at once, by a scale-up, or else by polling.
LookUp(r) ==
  LET idle == {n \in Nodes : status[n] = "idle"}
      may_launch == Cardinality(Active) < MaxActive /\ idle # {} IN
  \/ \E n \in Untried(r) : Send(r, n) /\ UNCHANGED status
  \/ NotOffered(r) /\ may_launch /\ \E n \in idle : Launch(r, n)
  \/ NotOffered(r) /\ ~may_launch /\ Wait(r) /\ UNCHANGED status
----------------------------------------------------------------------------
(* The handler: _handle_inference. *)

\* A live cached result of its key answers the request.
Cached(r) == key[r] # NoKey /\ cache[key[r]] \in Recent

AnswerCached(r) ==
  /\ rpc[r] = "new" /\ Cached(r)
  /\ rpc' = [rpc EXCEPT ![r] = "done"]
  /\ UNCHANGED <<status, counters, results, key, rnode, tried, polls>>

Reject(r) ==
  /\ rpc[r] = "new" /\ ~Cached(r)
  /\ pending >= MaxQueue
  /\ rpc' = [rpc EXCEPT ![r] = "rejected"]
  /\ UNCHANGED <<status, counters, results, key, rnode, tried, polls>>

\* Mutant of Accept: the queue has no bound.
AcceptAlways(r) ==
  /\ rpc[r] = "new" /\ ~Cached(r)
  /\ pending' = pending + 1
  /\ LookUp(r)
  /\ UNCHANGED <<results, key>>

Accept(r) ==
  /\ rpc[r] = "new" /\ ~Cached(r)
  /\ pending < MaxQueue
  /\ pending' = pending + 1
  /\ LookUp(r)
  /\ UNCHANGED <<results, key>>

\* The handler's own variables are gone.
End(r) ==
  /\ rnode' = [rnode EXCEPT ![r] = NoNode]
  /\ tried' = [tried EXCEPT ![r] = {}]
  /\ polls' = [polls EXCEPT ![r] = 0]

\* Mutant of Leave: only the node of the last attempt is let go.
LeaveLast(r, pc) ==
  /\ rpc' = [rpc EXCEPT ![r] = pc]
  /\ pending' = pending - 1
  /\ inflight' = [n \in Nodes |-> inflight[n] - IF n = rnode[r] THEN 1 ELSE 0]
  /\ End(r)
  /\ UNCHANGED total

\* The finally clause: every node tried is let go, whatever came of it.
Leave(r, pc) ==
  /\ rpc' = [rpc EXCEPT ![r] = pc]
  /\ pending' = pending - 1
  /\ inflight' = [n \in Nodes |-> inflight[n] - IF n \in tried[r] THEN 1 ELSE 0]
  /\ End(r)
  /\ UNCHANGED total

\* The launch ends. If it succeeded, the node is ACTIVE and its own, unless it
\* was tried before; otherwise the request polls.
Launched(r) ==
  /\ rpc[r] = "launching"
  /\ LET n == rnode[r] IN
     \/ /\ status' = [status EXCEPT ![n] = "active"]
        /\ IF n \in tried[r] THEN Wait(r) ELSE Send(r, n)
     \/ /\ status' = [status EXCEPT ![n] = "out"]
        /\ Wait(r)
  /\ UNCHANGED <<pending, results, key>>

\* Mutant of Poll: the polls are not counted.
PollForever(r) ==
  /\ rpc[r] = "polling" /\ polls[r] < WaitIters
  /\ \/ \E n \in Untried(r) : Send(r, n)
     \/ /\ NotOffered(r)
        /\ UNCHANGED <<progress, inflight, total>>
  /\ UNCHANGED <<status, pending, results, key>>

\* A sleep is over: placement is asked again.
Poll(r) ==
  /\ rpc[r] = "polling" /\ polls[r] < WaitIters
  /\ \/ \E n \in Untried(r) : Send(r, n)
     \/ /\ NotOffered(r)
        /\ polls' = [polls EXCEPT ![r] = @ + 1]
        /\ UNCHANGED <<rpc, rnode, tried, inflight, total>>
  /\ UNCHANGED <<status, pending, results, key>>

\* No node came in time: "No available nodes", or the first attempt's error.
GiveUp(r) ==
  /\ rpc[r] = "polling" /\ polls[r] = WaitIters
  /\ Leave(r, "failed")
  /\ UNCHANGED <<status, results, key>>

\* The node answered. The result is cached before the client has it.
Succeed(r) ==
  /\ rpc[r] = "forwarding"
  /\ Leave(r, "done")
  /\ IF key[r] = NoKey
     THEN UNCHANGED results
     ELSE /\ cache' = [cache EXCEPT ![key[r]] = r]
          /\ recent' = Append(recent, r)
  /\ UNCHANGED <<status, key>>

\* The forward failed: circuit open, a time-out, an error after the last retry.
\* After the first attempt another node is looked for.
Fail(r) ==
  /\ rpc[r] = "forwarding"
  /\ IF Cardinality(tried[r]) = 1 /\ Attempts > 1
     THEN LookUp(r) /\ UNCHANGED pending
     ELSE Leave(r, "failed") /\ UNCHANGED status
  /\ UNCHANGED <<results, key>>
----------------------------------------------------------------------------
(* Around it. *)

\* An hour has passed since the oldest result.
HourPasses ==
  /\ recent # <<>>
  /\ recent' = Tail(recent)
  /\ UNCHANGED <<status, counters, cache, key, progress>>

\* Mutant of Expired: the clean-up drops every entry.
AnyEntry(k) == cache[k] # NoResult

Expired(k) == cache[k] # NoResult /\ cache[k] \notin Recent

\* _idempotency_cleanup_loop.
Cleanup ==
  /\ \E k \in Keys : Expired(k)
  /\ cache' = [k \in Keys |-> IF Expired(k) THEN NoResult ELSE cache[k]]
  /\ UNCHANGED <<status, counters, recent, key, progress>>

\* Whatever else writes a node's status: heartbeats, the health monitor, the
\* auto-scaler. NodeLifecycle has them in detail; here they may do anything.
StatusWritten(n) ==
  /\ \E s \in {"idle", "active", "out"} \ {status[n]} :
       status' = [status EXCEPT ![n] = s]
  /\ UNCHANGED <<counters, results, key, progress>>

Proceed(r) == Launched(r) \/ Poll(r) \/ GiveUp(r) \/ Succeed(r) \/ Fail(r)

Next ==
  \/ \E r \in Requests : AnswerCached(r) \/ Reject(r) \/ Accept(r) \/ Proceed(r)
  \/ HourPasses
  \/ Cleanup
  \/ \E n \in Nodes : StatusWritten(n)

\* Calls end by their timeouts (request_timeout, node_startup_timeout) and sleeps
\* are over; clients, time and the other writers owe nothing.
Fairness == \A r \in Requests : WF_vars(Proceed(r))

Spec == Init /\ [][Next]_vars
FairSpec == Spec /\ Fairness
----------------------------------------------------------------------------
(* Properties. *)

\* The two counters are exactly the requests being handled, and for each node
\* those of them that have tried it, over all eight ways out of the handler:
\* a count that is not taken back fills the queue for good or weighs on a node
\* for ever, and max(0, ...) would hide one taken back twice (474, 498, 530).
CountersExact ==
  /\ pending = Cardinality(Handled)
  /\ \A n \in Nodes : inflight[n] = Cardinality(HandledBy(n))

\* Once a client was answered with a result of its key that is not an hour old,
\* no later request with this key goes to a node (466-472), whichever path and
\* attempt the answer took and however often the key ran before.
NoRerun ==
  [][\A r \in Requests :
       rpc[r] = "new" /\ rpc'[r] # "new" /\ key[r] # NoKey
         /\ (\E q \in Recent : key[q] = key[r])
       => rpc'[r] = "done" /\ tried'[r] = {}]_vars

\* Every request is answered, even if no node ever comes: launches, polls and
\* both forwards end (487-527, 571-577).
Answered ==
  \A r \in Requests : r \in Handled ~> rpc[r] \in {"done", "failed"}

\* What comments of the code say and what does not hold: README, Findings.

\* "excluding already tried nodes" (488), "Retry on another node for first
\* attempt (any error)" (517): a request only fails after one attempt if no
\* other node was active when it gave up.
FailsOver ==
  [][\A r \in Requests :
       rpc[r] = "polling" /\ rpc'[r] = "failed" /\ tried[r] # {}
         => Active \subseteq tried[r]]_vars

\* "Max nodes with aggregators" (61).
WithinLimit == Cardinality(Active) <= MaxActive
=============================================================================
