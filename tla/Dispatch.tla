------------------------------ MODULE Dispatch ------------------------------
(***************************************************************************)
(* Requests on top of WorkerPool: routing, the pending queue and its       *)
(* dispatcher, adapter swaps, sending a request to a worker and the retry  *)
(* when the worker cannot be reached (controller.py, with the decisions of *)
(* LoRantScheduler.route_request).                                         *)
(***************************************************************************)
EXTENDS WorkerPool

CONSTANT
  GrowTenths   \* the pool grows when more than this many tenths of it are
               \* busy: 7 in the code, less in instances of a few workers

ASSUME DispatchConstantsOK == GrowTenths \in 0 .. 10

VARIABLES
  rpc,       \* where a request is
  want,      \* the adapter it asks for
  rworker,   \* the worker object it was given
  attempt,   \* 0, or 1 in the retry after a failed connection
  server,    \* the process that serves it
  used,      \* the adapters whose weights took part in serving it; NoAdapter stands
             \* for modules that have other weights than the adapter loaded
  pending,   \* _pending_requests; an entry is a request and its attempt
  scan,      \* entry the dispatcher looks at, 0 between two passes
  swaps      \* running adapter swaps

requests == <<rpc, want, rworker, attempt, server, used>>
queue == <<pending, scan>>
vars == <<poolVars, requests, queue, swaps>>

RequestPC == {"new",
              "swap",       \* awaiting the swap of the worker it reserved
              "spawn1", "respawn", "spawn2",  \* awaiting spawn_worker
              "queued",     \* awaiting the future of its queue entry
              "granted",    \* the future has a worker, its waiter runs later
              "sent", "serving",              \* POST /inference
              "done", "failed"}

Entry == [r : Requests, n : {0, 1}]
NoEntry == <<>>
\* Who a swap is for: the route_request that awaits it, a queue entry, or
\* nobody (proactive rebalancing); grow is the decision's needs_spawn. A task that was created but has not run yet
\* is "created"; then the worker is asked, answers, and the answer is handled.
Swap == [w : Objs, to : Adapters, for : {"route", "dispatch", "rebalance"},
         entry : Entry \union {NoEntry}, grow : BOOLEAN,
         phase : {"created", "posted", "ok", "failed"}]

\* One type invariant: the shape of every variable, and the queue cursor.
TypeOK ==
  /\ PoolTypeOK
  /\ rpc \in [Requests -> RequestPC]
  /\ want \in [Requests -> Adapters]
  /\ rworker \in [Requests -> Objs \union {NoObj}]
  /\ attempt \in [Requests -> {0, 1}]
  /\ server \in [Requests -> Objs \union {NoObj}]
  /\ used \in [Requests -> SUBSET (Adapters \union {NoAdapter})]
  /\ pending \in Seq(Entry)
  /\ scan \in 0 .. Len(pending)
  /\ swaps \subseteq Swap

Init ==
  /\ PoolInit
  /\ rpc = [r \in Requests |-> "new"]
  /\ want \in [Requests -> Adapters]
  /\ rworker = [r \in Requests |-> NoObj]
  /\ attempt = [r \in Requests |-> 0]
  /\ server = [r \in Requests |-> NoObj]
  /\ used = [r \in Requests |-> {}]
  /\ pending = <<>>
  /\ scan = 0
  /\ swaps = {}

\* Nothing runs inside a dispatcher pass.
Idle == scan = 0
----------------------------------------------------------------------------
(* Deciding: LoRantScheduler.route_request. *)

Matching(a) == {w \in Free : registry[wid[w]] = a}

Reserve(w) == active' = [active EXCEPT ![w] = @ + 1]
KeepReserved(w) == active' = active  \* mutant: never given back
Unreserve(w) == active' = [active EXCEPT ![w] = @ - 1]

\* Mutant: swaps a worker that another request holds.
AnyVictims(a) == IF Matching(a) = {} THEN {w \in Tracked : IsReady(w)} ELSE {}

\* Which worker of the most overserved adapter is swapped depends on request
\* rates, which are left open: any free worker.
SwapVictims(a) == IF Matching(a) = {} THEN Free ELSE {}
WantsSpawn == Free = {} /\ Cardinality(Tracked) < MaxWorkers
WantsQueue == Free = {} /\ ~WantsSpawn

\* needs_spawn: the pool is so busy that it should grow, and may.
NeedsGrow ==
  /\ Cardinality(Tracked) < MaxWorkers
  /\ 10 * Cardinality(Tracked \ Free) > GrowTenths * Cardinality(Tracked)

Enqueue(r) == pending' = Append(pending, [r |-> r, n |-> attempt[r]])
Live(e) == rpc[e.r] = "queued" /\ attempt[e.r] = e.n
----------------------------------------------------------------------------
(* route_request, up to its first wait. *)

RouteMatch(r) ==
  /\ Idle /\ rpc[r] = "new"
  /\ \E w \in Matching(want[r]) :
       /\ Reserve(w)
       /\ rworker' = [rworker EXCEPT ![r] = w]
  /\ rpc' = [rpc EXCEPT ![r] = "sent"]
  /\ UNCHANGED <<wid, adapter, status, pool, spawning, stops, checks,
                 processes, want, attempt, server, used, queue, swaps>>

RouteSwap(r) ==
  /\ Idle /\ rpc[r] = "new"
  /\ \E w \in SwapVictims(want[r]) :
       /\ Reserve(w)
       /\ rworker' = [rworker EXCEPT ![r] = w]
       /\ status' = [status EXCEPT ![w] = "swapping"]
       /\ swaps' = swaps \union
            {[w |-> w, to |-> want[r], for |-> "route",
              entry |-> [r |-> r, n |-> 0], grow |-> NeedsGrow,
              phase |-> "posted"]}
  /\ rpc' = [rpc EXCEPT ![r] = "swap"]
  /\ UNCHANGED <<wid, adapter, pool, spawning, stops, checks, processes, want,
                 attempt, server, used, queue>>

\* The call of spawn_worker for r, at once or one second after the first
\* failed. If it returns None at once, r sleeps or joins the queue.
CallSpawn(r, pc) ==
  IF CanSpawn
  THEN /\ StartSpawn(want[r], r)
       /\ rpc' = [rpc EXCEPT ![r] = pc]
       /\ UNCHANGED <<adapter, status, active, workers, registry, pending>>
  ELSE /\ IF pc = "spawn1"
          THEN rpc' = [rpc EXCEPT ![r] = "respawn"] /\ UNCHANGED pending
          ELSE rpc' = [rpc EXCEPT ![r] = "queued"] /\ Enqueue(r)
       /\ UNCHANGED <<fields, pool, spawning>>

RouteSpawn(r) ==
  /\ Idle /\ rpc[r] = "new"
  /\ WantsSpawn
  /\ CallSpawn(r, "spawn1")
  /\ UNCHANGED <<stops, checks, processes, want, rworker, attempt, server,
                 used, scan, swaps>>

Respawn(r) ==
  /\ Idle /\ rpc[r] = "respawn"
  /\ CallSpawn(r, "spawn2")
  /\ UNCHANGED <<stops, checks, processes, want, rworker, attempt, server,
                 used, scan, swaps>>

RouteQueue(r) ==
  /\ Idle /\ rpc[r] = "new"
  /\ WantsQueue
  /\ rpc' = [rpc EXCEPT ![r] = "queued"]
  /\ Enqueue(r)
  /\ UNCHANGED <<poolVars, want, rworker, attempt, server, used, scan, swaps>>

\* _wait_for_available_worker gave up: the SLO passed while r was queued. A
\* retry ends as well: r keeps the error of its first try.
QueueTimeout(r) ==
  /\ Idle /\ rpc[r] = "queued"
  /\ rpc' = [rpc EXCEPT ![r] = "failed"]
  /\ UNCHANGED <<poolVars, want, rworker, attempt, server, used, queue, swaps>>

\* Mutant: waits until the worker is READY again.
TakeReadyGrant(r) ==
  /\ Idle /\ rpc[r] = "granted"
  /\ IsReady(rworker[r])
  /\ active' = [active EXCEPT ![rworker[r]] = @ + attempt[r]]
  /\ rpc' = [rpc EXCEPT ![r] = "sent"]
  /\ UNCHANGED <<wid, adapter, status, pool, spawning, stops, checks,
                 processes, want, rworker, attempt, server, used, queue, swaps>>

\* The waiter of the future runs. A retry reserves the worker once more; a
\* worker that is being stopped is given back, and the request fails.
TakeGrant(r) ==
  /\ Idle /\ rpc[r] = "granted"
  /\ LET w == rworker[r]
         reserved == active[w] + attempt[r]
     IN  IF status[w] = "stopping"
         THEN /\ active' = [active EXCEPT ![w] = reserved - 1]
              /\ rpc' = [rpc EXCEPT ![r] = "failed"]
         ELSE /\ active' = [active EXCEPT ![w] = reserved]
              /\ rpc' = [rpc EXCEPT ![r] = "sent"]
  /\ UNCHANGED <<wid, adapter, status, pool, spawning, stops, checks,
                 processes, want, rworker, attempt, server, used, queue, swaps>>
----------------------------------------------------------------------------
(* _send_inference, and the worker's /inference handler. *)

\* The finally block: give the worker back; one that answers is not UNHEALTHY.
GiveBack(r) ==
  /\ Unreserve(rworker[r])
  /\ status' = [status EXCEPT ![rworker[r]] =
                  IF @ = "unhealthy" THEN "ready" ELSE @]

\* The weights of a process, as a request meets them.
WeightsOf(p) == {loaded[p]} \union (IF p \in mixed THEN {NoAdapter} ELSE {})

\* The process that listens takes the request: its semaphore has one permit.
Serve(r) ==
  /\ Idle /\ rpc[r] = "sent"
  /\ \E p \in Listening(wid[rworker[r]]) :
       /\ proc[p] = "up"
       /\ ~\E q \in Requests : server[q] = p
       /\ server' = [server EXCEPT ![r] = p]
       /\ used' = [used EXCEPT ![r] = WeightsOf(p)]
  /\ rpc' = [rpc EXCEPT ![r] = "serving"]
  /\ UNCHANGED <<poolVars, want, rworker, attempt, queue, swaps>>

\* 503: it is shutting down, or at capacity. There is no retry.
Reject(r) ==
  /\ Idle /\ rpc[r] = "sent"
  /\ \E p \in Listening(wid[rworker[r]]) :
       proc[p] = "draining" \/ \E q \in Requests : server[q] = p
  /\ GiveBack(r)
  /\ rpc' = [rpc EXCEPT ![r] = "failed"]
  /\ UNCHANGED <<wid, adapter, pool, spawning, stops, checks, processes, want,
                 rworker, attempt, server, used, queue, swaps>>

\* "Connect call failed": nobody listens. The first time, the worker is removed
\* (by id) and the request goes through the queue once more.
Refused(r) ==
  /\ Idle /\ rpc[r] = "sent"
  /\ NobodyListens(rworker[r])
  /\ GiveBack(r)
  /\ IF attempt[r] = 0
     THEN /\ Remove(wid[rworker[r]])
          /\ attempt' = [attempt EXCEPT ![r] = 1]
          /\ rpc' = [rpc EXCEPT ![r] = "queued"]
          /\ pending' = Append(pending, [r |-> r, n |-> 1])
     ELSE /\ rpc' = [rpc EXCEPT ![r] = "failed"]
          /\ UNCHANGED <<pool, attempt, pending>>
  /\ UNCHANGED <<wid, adapter, spawning, stops, checks, processes, want,
                 rworker, server, used, scan, swaps>>

\* The result comes back, or the connection breaks because the process died.
FinishServing(r) ==
  /\ Idle /\ rpc[r] = "serving"
  /\ GiveBack(r)
  /\ rpc' = [rpc EXCEPT ![r] = IF proc[server[r]] = "dead" THEN "failed"
                               ELSE "done"]
  /\ server' = [server EXCEPT ![r] = NoObj]
  /\ UNCHANGED <<wid, adapter, pool, spawning, stops, checks, processes, want,
                 rworker, attempt, used, queue, swaps>>
----------------------------------------------------------------------------
(* _dispatch_loop: a pass looks at every entry in turn. *)

StartPass ==
  /\ Idle
  /\ \E k \in 1 .. Len(pending) :
       ~Live(pending[k]) \/ Free # {} \/ (WantsSpawn /\ CanSpawn)
  /\ scan' = 1
  /\ UNCHANGED <<poolVars, requests, pending, swaps>>

Current == pending[scan]

\* Mutant: the cursor is not reset after the last entry.
DropStays ==
  /\ pending' = SubSeq(pending, 1, scan - 1)
                  \o SubSeq(pending, scan + 1, Len(pending))
  /\ scan' = scan

\* Entries that are answered leave the queue, the others stay in order.
Drop ==
  /\ pending' = SubSeq(pending, 1, scan - 1)
                  \o SubSeq(pending, scan + 1, Len(pending))
  /\ scan' = IF scan = Len(pending) THEN 0 ELSE scan
Keep ==
  /\ pending' = pending
  /\ scan' = IF scan = Len(pending) THEN 0 ELSE scan + 1

\* The future is done, or the deadline has passed and it is cancelled.
DispatchDrop ==
  /\ scan > 0
  /\ Drop
  /\ rpc' = IF Live(Current) THEN [rpc EXCEPT ![Current.r] = "failed"] ELSE rpc
  /\ UNCHANGED <<poolVars, want, rworker, attempt, server, used, swaps>>

DispatchMatch ==
  /\ scan > 0 /\ Live(Current)
  /\ \E w \in Matching(want[Current.r]) :
       /\ Reserve(w)
       /\ rworker' = [rworker EXCEPT ![Current.r] = w]
  /\ rpc' = [rpc EXCEPT ![Current.r] = "granted"]
  /\ Drop
  /\ UNCHANGED <<wid, adapter, status, pool, spawning, stops, checks,
                 processes, want, attempt, server, used, swaps>>

\* The swap is a task of its own; the entry leaves the queue meanwhile.
DispatchSwap ==
  /\ scan > 0 /\ Live(Current)
  /\ \E w \in SwapVictims(want[Current.r]) :
       /\ Reserve(w)
       /\ swaps' = swaps \union
            {[w |-> w, to |-> want[Current.r], for |-> "dispatch",
              entry |-> Current, grow |-> FALSE, phase |-> "created"]}
  /\ Drop
  /\ UNCHANGED <<wid, adapter, status, pool, spawning, stops, checks,
                 processes, requests>>

\* create_task(_spawn_for_dispatch): its first block runs before anything
\* else does.
DispatchSpawn ==
  /\ scan > 0 /\ Live(Current)
  /\ WantsSpawn
  /\ IF CanSpawn
     THEN /\ StartSpawn(want[Current.r], "dispatch")
          /\ UNCHANGED <<adapter, status, active, workers, registry>>
     ELSE UNCHANGED <<fields, pool, spawning>>
  /\ Keep
  /\ UNCHANGED <<stops, checks, processes, requests, swaps>>

\* What calls _spawn_for_dispatch, or its spawn again, at times that depend on rates
\* and clocks: the second try a second later, a burst of arrivals, the proactive loop.
SpawnAhead(a) ==
  /\ Idle
  /\ nextObj \in Ahead
  /\ StartSpawn(a, "dispatch")
  /\ UNCHANGED <<adapter, status, active, workers, registry, stops, checks, processes,
                 requests, queue, swaps>>

DispatchKeep ==
  /\ scan > 0 /\ Live(Current)
  /\ WantsQueue
  /\ Keep
  /\ UNCHANGED <<poolVars, requests, swaps>>
----------------------------------------------------------------------------
(* The end of a spawn. *)

\* _spawn_for_dispatch: the first entry that asks for the adapter of the spawn,
\* or for the one the worker says it has.
Candidates(w) ==
  {k \in 1 .. Len(pending) :
     /\ Live(pending[k])
     /\ want[pending[k].r] \in {owner[w].adapter, adapter[w]}}
First(K) == CHOOSE k \in K : \A j \in K : k <= j

SpawnReady(w) ==
  /\ Idle
  /\ BecomeReady(w)
  /\ LET receiver == IF owner[w].by \in Requests THEN {owner[w].by}
                     ELSE IF owner[w].by = "dispatch" /\ Candidates(w) # {}
                     THEN {pending[First(Candidates(w))].r}
                     ELSE {}
     IN  /\ active' = [active EXCEPT ![w] = @ + Cardinality(receiver)]
         /\ rworker' = [r \in Requests |-> IF r \in receiver THEN w
                                           ELSE rworker[r]]
         /\ rpc' = [r \in Requests |->
              IF r \notin receiver THEN rpc[r]
              ELSE IF r = owner[w].by THEN "sent" ELSE "granted"]
  /\ UNCHANGED <<wid, adapter, workers, gpu_count, owner, nextObj, stops,
                 checks, processes, want, attempt, server, used, queue, swaps>>

\* Mutant: nobody tells the request.
SpawnForgets(w) == UNCHANGED <<rpc, pending>>

\* spawn_worker returned None: route_request tries once more, then queues.
SpawnReturnsNone(w) ==
  LET r == owner[w].by
  IN  IF r \notin Requests THEN UNCHANGED <<rpc, pending>>
      ELSE IF rpc[r] = "spawn1"
      THEN rpc' = [rpc EXCEPT ![r] = "respawn"] /\ UNCHANGED pending
      ELSE rpc' = [rpc EXCEPT ![r] = "queued"] /\ Enqueue(r)

RefuseSpawn(w) ==
  /\ Idle
  /\ SpawnRefused(w)
  /\ SpawnReturnsNone(w)
  /\ UNCHANGED <<want, rworker, attempt, server, used, scan, swaps>>

EndStop(t) ==
  /\ Idle
  /\ FinishStop(t)
  /\ IF t.by = "spawner" THEN SpawnReturnsNone(t.w)
     ELSE UNCHANGED <<rpc, pending>>
  /\ UNCHANGED <<want, rworker, attempt, server, used, scan, swaps>>
----------------------------------------------------------------------------
(* _swap_worker_adapter and the tasks around it. *)

ToPhase(t, phase) == swaps' = (swaps \ {t}) \union {[t EXCEPT !.phase = phase]}

\* _proactive_scaling_loop: the task is created for an idle worker, without a
\* reservation.
Rebalance(w, a) ==
  /\ Idle
  /\ "rebalance" \in Faults
  /\ w \in Free
  /\ adapter[w] # a
  /\ ~\E t \in swaps : t.for = "rebalance"
  /\ swaps' = swaps \union {[w |-> w, to |-> a, for |-> "rebalance",
                             entry |-> NoEntry, grow |-> FALSE,
                             phase |-> "created"]}
  /\ UNCHANGED <<poolVars, requests, queue>>

SwapBegins(t) ==
  /\ Idle
  /\ t \in swaps /\ t.phase = "created"
  /\ status' = [status EXCEPT ![t.w] = "swapping"]
  /\ ToPhase(t, "posted")
  /\ UNCHANGED <<wid, adapter, active, pool, spawning, stops, checks,
                 processes, requests, queue>>

\* Who p serves is served by weights W as well.
ServesWith(p, W) ==
  used' = [r \in Requests |-> IF server[r] = p THEN used[r] \union W ELSE used[r]]

\* The worker copies the new weights over the old ones, whether or not it is
\* generating: /swap_adapter does not look at the engine. It goes module by module;
\* a request that is served meanwhile has weights of both either way. Where the new
\* adapter has no matrices, those of the old one may stay, and it is a success. If
\* the process goes by that adapter's name already, nothing is done.
WorkerSwaps(t) ==
  /\ Idle
  /\ t \in swaps /\ t.phase = "posted"
  /\ \E p \in Listening(wid[t.w]) :
       IF loaded[p] = t.to THEN UNCHANGED <<loaded, mixed, used>>
       ELSE /\ loaded' = [loaded EXCEPT ![p] = t.to]
            /\ \/ mixed' = mixed \ {p}
               \/ "sparse" \in Faults /\ mixed' = mixed \union {p}
            /\ ServesWith(p, {t.to})
  /\ ToPhase(t, "ok")
  /\ UNCHANGED <<fields, pool, spawning, stops, checks, proc, rpc, want,
                 rworker, attempt, server, queue>>

\* The adapter cannot be loaded, which is tried before any module is touched, or
\* nobody listens.
WorkerCannotSwap(t) ==
  /\ Idle
  /\ t \in swaps /\ t.phase = "posted"
  /\ "swapfail" \in Faults \/ NobodyListens(t.w)
  /\ ToPhase(t, "failed")
  /\ UNCHANGED <<poolVars, requests, queue>>

\* An exception between two modules, or after the old ones were zeroed: a failure too,
\* and the worker goes on under the name of the old adapter.
WorkerHalfSwaps(t) ==
  /\ Idle
  /\ "tornswap" \in Faults
  /\ t \in swaps /\ t.phase = "posted"
  /\ \E p \in Listening(wid[t.w]) :
       /\ loaded[p] # t.to
       /\ mixed' = mixed \union {p}
       /\ ServesWith(p, {NoAdapter})
  /\ ToPhase(t, "failed")
  /\ UNCHANGED <<fields, pool, spawning, stops, checks, proc, loaded, rpc, want,
                 rworker, attempt, server, queue>>

\* The finally block: READY, whatever happened to the worker meanwhile.
SwapSucceeded(t) ==
  /\ t \in swaps /\ t.phase = "ok"
  /\ swaps' = swaps \ {t}
  /\ adapter' = [adapter EXCEPT ![t.w] = t.to]
  /\ registry' = [registry EXCEPT ![wid[t.w]] = t.to]
  /\ status' = [status EXCEPT ![t.w] = "ready"]

SwapFailed(t) ==
  /\ t \in swaps /\ t.phase = "failed"
  /\ swaps' = swaps \ {t}
  /\ status' = [status EXCEPT ![t.w] = "ready"]

\* route_request goes on: it sends, and may grow the pool besides.
RouteSwapped(t) ==
  /\ Idle
  /\ SwapSucceeded(t)
  /\ t.for = "route"
  /\ rpc' = [rpc EXCEPT ![t.entry.r] = "sent"]
  /\ IF t.grow /\ CanSpawn
     THEN StartSpawn(t.to, "grow")
     ELSE UNCHANGED <<wid, spawning, gpu_count>>
  /\ UNCHANGED <<active, workers, stops, checks, processes, want, rworker,
                 attempt, server, used, queue>>

\* It gives the worker back and spawns one instead.
RouteSwapFailed(t) ==
  /\ Idle
  /\ SwapFailed(t)
  /\ t.for = "route"
  /\ Unreserve(t.w)
  /\ IF CanSpawn
     THEN /\ StartSpawn(want[t.entry.r], t.entry.r)
          /\ rpc' = [rpc EXCEPT ![t.entry.r] = "spawn1"]
     ELSE /\ rpc' = [rpc EXCEPT ![t.entry.r] = "respawn"]
          /\ UNCHANGED <<wid, gpu_count, spawning>>
  /\ UNCHANGED <<adapter, workers, registry, stops, checks, processes, want,
                 rworker, attempt, server, used, queue>>

\* _swap_and_resolve: the worker goes to the request, or back if the request
\* has stopped waiting.
DispatchSwapped(t) ==
  /\ Idle
  /\ SwapSucceeded(t)
  /\ t.for = "dispatch"
  /\ IF Live(t.entry)
     THEN /\ rworker' = [rworker EXCEPT ![t.entry.r] = t.w]
          /\ rpc' = [rpc EXCEPT ![t.entry.r] = "granted"]
          /\ UNCHANGED active
     ELSE /\ Unreserve(t.w)
          /\ UNCHANGED <<rworker, rpc>>
  /\ UNCHANGED <<wid, workers, gpu_count, spawning, stops, checks, processes,
                 want, attempt, server, used, queue>>

\* The worker is given back and a waiting request joins the queue again.
DispatchSwapFailed(t) ==
  /\ Idle
  /\ SwapFailed(t)
  /\ t.for = "dispatch"
  /\ Unreserve(t.w)
  /\ pending' = IF Live(t.entry) THEN Append(pending, t.entry) ELSE pending
  /\ UNCHANGED <<wid, adapter, pool, spawning, stops, checks, processes,
                 requests, scan>>

RebalanceEnds(t) ==
  /\ Idle
  /\ t.for = "rebalance"
  /\ \/ SwapSucceeded(t) /\ UNCHANGED <<workers, gpu_count>>
     \/ SwapFailed(t) /\ UNCHANGED <<adapter, pool>>
  /\ UNCHANGED <<wid, active, spawning, stops, checks, processes, requests,
                 queue>>
----------------------------------------------------------------------------
(* Worker processes and health replies. *)

\* What /adapter_info says. It waits for the swap lock, so it names the weights
\* in place; a swap that is waiting for that lock may start before is_swapping
\* is read.
Replies(w) ==
  IF NobodyListens(w) THEN {NoReply}
  ELSE LET swapping == {FALSE} \union
             {TRUE : t \in {t \in swaps : t.phase = "posted" /\ wid[t.w] = wid[w]}}
       IN  [adapter : {loaded[p] : p \in Listening(wid[w])},
            is_swapping : swapping]

AnswerInfo(w) ==
  /\ Idle
  /\ check[w] = "asking"
  /\ check' = [check EXCEPT ![w] = "replied"]
  /\ \E said \in Replies(w) : info' = [info EXCEPT ![w] = said]
  /\ UNCHANGED <<fields, pool, spawning, stops, processes, requests, queue,
                 swaps>>

\* Without delays the whole health check is one step.
CheckAtOnce(w) ==
  /\ Idle
  /\ "delay" \notin Faults
  /\ Healthy(w)
  /\ \E said \in Replies(w) : Apply(w, said, Recovered(w))
  /\ UNCHANGED <<wid, active, workers, gpu_count, spawning, stops, checks,
                 processes, requests, queue, swaps>>

\* A process told to shut down exits: it waits for the slots that are active, but not
\* for a request that is queued or pending in it, and for no more than 120 s.
Exit(p) ==
  /\ Idle
  /\ proc[p] = "draining"
  /\ proc' = [proc EXCEPT ![p] = "dead"]
  /\ UNCHANGED <<fields, pool, spawning, stops, checks, loaded, mixed, requests,
                 queue, swaps>>

\* Steps of the pool that no request notices at once.
PoolStep(w) ==
  /\ Idle
  /\ \/ Launch(w) \/ LaunchTwins(w)
     \/ StartFails(w)
     \/ OperatorStop(w)
     \/ pending = <<>> /\ Reap(w)
     \/ BeginCheck(w) \/ HealthOk(w)
     \/ HealthFails(w)
     \/ Bind(w)
     \/ Die(w)
  /\ UNCHANGED <<requests, queue, swaps>>

Shutdown(t) ==
  /\ Idle
  /\ PostShutdown(t)
  /\ UNCHANGED <<requests, queue, swaps>>

FinishCheck(w) ==
  /\ Idle
  /\ ApplyInfo(w)
  /\ UNCHANGED <<requests, queue, swaps>>
----------------------------------------------------------------------------
Next ==
  \/ \E r \in Requests :
       \/ RouteMatch(r) \/ RouteSwap(r) \/ RouteSpawn(r) \/ RouteQueue(r)
       \/ Respawn(r) \/ QueueTimeout(r) \/ TakeGrant(r)
       \/ Serve(r) \/ Reject(r) \/ Refused(r) \/ FinishServing(r)
  \/ StartPass \/ DispatchDrop \/ DispatchMatch \/ DispatchSwap
  \/ DispatchSpawn \/ DispatchKeep
  \/ \E w \in Objs :
       \/ SpawnReady(w) \/ RefuseSpawn(w) \/ AnswerInfo(w) \/ FinishCheck(w)
       \/ CheckAtOnce(w) \/ Exit(w) \/ PoolStep(w)
       \/ \E a \in Adapters : Rebalance(w, a)
  \/ \E a \in Adapters : SpawnAhead(a)
  \/ \E t \in stops : Shutdown(t) \/ EndStop(t)
  \/ \E t \in swaps :
       \/ SwapBegins(t) \/ WorkerSwaps(t) \/ WorkerCannotSwap(t) \/ WorkerHalfSwaps(t)
       \/ RouteSwapped(t) \/ RouteSwapFailed(t)
       \/ DispatchSwapped(t) \/ DispatchSwapFailed(t) \/ RebalanceEnds(t)


\* What the event loop and the worker processes do by themselves. Deadlines
\* fire, polls and health checks repeat, a process that was told to shut down
\* is killed after 30 s, generation is bounded by the token limit. Nothing is
\* assumed of requests, operators, failures, the reaper or rebalancing.
RequestProceeds(r) ==
  Respawn(r) \/ TakeGrant(r) \/ Serve(r) \/ Reject(r) \/ Refused(r)
    \/ FinishServing(r)
SwapProceeds(w) ==
  \E t \in swaps :
    /\ t.w = w
    /\ \/ SwapBegins(t) \/ WorkerSwaps(t) \/ WorkerCannotSwap(t)
       \/ RouteSwapped(t) \/ RouteSwapFailed(t)
       \/ DispatchSwapped(t) \/ DispatchSwapFailed(t) \/ RebalanceEnds(t)
SpawnProceeds(w) ==
  \/ RefuseSpawn(w) \/ SpawnReady(w)
  \/ Idle /\ (Launch(w) \/ StartFails(w) \/ Bind(w))
          /\ UNCHANGED <<requests, queue, swaps>>
StopProceeds(w) == \E t \in stops : t.w = w /\ (Shutdown(t) \/ EndStop(t))
PassProceeds == DispatchDrop \/ DispatchMatch \/ DispatchSwap \/ DispatchSpawn
                  \/ DispatchKeep
CheckProceeds(w) ==
  \/ AnswerInfo(w) \/ FinishCheck(w)
  \/ /\ Idle /\ "delay" \in Faults
     /\ HealthOk(w) \/ HealthFails(w)
     /\ UNCHANGED <<requests, queue, swaps>>
DeathNoticed(w) ==
  Idle /\ proc[w] = "dead" /\ HealthFails(w) /\ UNCHANGED <<requests, queue, swaps>>

\* Strong fairness for the requests: the loop is FIFO, so a callback that
\* becomes ready while a pass runs has its turn right after it.
Fairness ==
  /\ \A r \in Requests : SF_vars(RequestProceeds(r) \/ QueueTimeout(r))
  /\ \A w \in Objs :
       /\ WF_vars(SwapProceeds(w))
       /\ WF_vars(SpawnProceeds(w))
       /\ WF_vars(StopProceeds(w))
       /\ WF_vars(CheckProceeds(w))
       /\ WF_vars(DeathNoticed(w))
       /\ WF_vars(Exit(w))
  /\ WF_vars(PassProceeds)

Spec == Init /\ [][Next]_vars
FairSpec == Spec /\ Fairness
----------------------------------------------------------------------------
(* Properties. The first three hold in every instance, the others when the *)
(* faults named in the README are left out; ServedWhole and NoOrphan are   *)
(* what the code does not keep.                                            *)

\* The device count is exactly the workers in the dictionary and the spawns
\* that wait for an aggregator, whatever overlaps: each of the seven places
\* that change one of them changes the other (1020-1022, 1076, 1087, 1096,
\* 1113, 1193-1196). A count too high closes the device for good, one too low
\* overcommits it.
GpuCountExact ==
  gpu_count = Cardinality(Tracked)
                + Cardinality({w \in Objs : spawn[w] = "aggregator"})

\* Every request that is routed ends, served or failed: no swap, spawn, queue
\* entry, retry or stop leaves its waiter behind (route_request, 1282).
Answered == \A r \in Requests : rpc[r] # "new" ~> rpc[r] \in {"done", "failed"}

\* A worker whose process died does not stay in the dictionary: a health check,
\* a retry or the stop that killed it takes it out (969-975, 1384-1386), unless
\* another process answers on its port in its place.
DeadForgotten ==
  \A w \in Objs :
    proc[w] = "dead" ~> w \notin Tracked \/ ~NobodyListens(w)

\* What holds w: requests that were given it and have not given it back, and
\* swaps under way for a queue entry, whose request may have left.
HeldBy(w) ==
  Cardinality({r \in Requests :
                 /\ rworker[r] = w
                 /\ rpc[r] \in {"swap", "granted", "sent", "serving"}})
    + Cardinality({t \in swaps : t.w = w /\ t.for = "dispatch"})

\* active_requests counts exactly the holders, over every path that takes or
\* gives back a worker: match, swap, spawn, queue, cancelled future, failure.
\* A count too high loses the worker, one too low shares it.
CountsHolders == \A w \in Objs : active[w] = HeldBy(w)

\* "N=1: always 0 or 1" (WorkerInfo, controller.py:97): nobody is ever given a
\* worker that another request holds.
OneAtATime == \A w \in Objs : active[w] \in {0, 1}

\* No request is answered with the weights of another adapter than its own: routing
\* on the registry's word, the swap and the later POST /inference never straddle
\* another swap of the same process. Weights that a swap left in some module, after a
\* failure or because the new adapter has none for it, are not counted.
ServedByItsAdapter ==
  \A r \in Requests : rpc[r] = "done" => used[r] \ {NoAdapter} = {want[r]}

\* They are counted here, as swap_adapter claims to be atomic (adapter_manager.py:49):
\* it is false with "tornswap" and with "sparse".
ServedWhole == \A r \in Requests : rpc[r] = "done" => used[r] = {want[r]}

\* A live worker process is in the dictionary or about to be stopped. Removal is by
\* worker_id (1190), so this is false wherever an id is given out again between the
\* decision to remove a worker and the removal: the README lists the faults.
NoOrphan ==
  \A w \in Objs : proc[w] \in {"loading", "up"} =>
    w \in Tracked \/ \E t \in stops : t.w = w

\* A worker the reaper has chosen is held by nobody, then or later (comment at
\* 1003): no request is sent to a process that is being shut down.
ReaperSparesHolders == \A t \in stops : t.by = "reaper" => HeldBy(t.w) = 0
============================================================================
