----------------------------- MODULE WorkerPool -----------------------------
(***************************************************************************)
(* The worker pool of a node's load balancer (controller.py): the workers  *)
(* dictionary, the adapter registry, the GPU reservation count, spawning,  *)
(* stopping, reaping and health checks, and the worker processes behind    *)
(* them. Dispatch.tla adds the requests.                                   *)
(*                                                                         *)
(* The controller is one asyncio loop. None of its locks is ever held      *)
(* across a wait for I/O, so the code between two waits is one step here.  *)
(* A WorkerInfo outlives its entry in the dictionary: tasks keep references *)
(* to it. It is an object w of Objs; its worker_id, and so its HTTP port   *)
(* (base_port + 10 * worker_id), is reused by later objects.               *)
(***************************************************************************)
EXTENDS Integers, Sequences, FiniteSets

CONSTANTS
  Adapters,    \* LoRA adapters
  NoAdapter,   \* no adapter: None in the code
  Requests,    \* inference requests; a spawn on behalf of one is owned by it
  MaxWorkers,  \* max_workers: the worker ids are 0 .. MaxWorkers - 1
  MinWorkers,  \* min_workers: the reaper keeps that many
  GpuCap,      \* gpu_worker_caps of the one device modelled
  Warm,        \* how many workers /prewarm may have made ready at the start
  MaxObjs,     \* bound: WorkerInfo objects ever created
  Ahead,       \* bound: which of them may be for a spawn nobody waits for
  Faults       \* what may happen in this instance, a subset of FaultKinds

\* "die":       a worker process may be killed at any time
\* "slow":      a health check may time out although the process is up
\* "delay":     the steps of a health check, and what it makes of a failure, may come
\*              after others: the worker may have left meanwhile
\* "swapfail":  the worker may fail to load the adapter it is asked for
\* "tornswap":  ... or fail while it overwrites the old adapter's matrices
\* "sparse":    adapters may differ in the modules they have matrices for
\* "noagg":     the aggregator of the device may not come up
\* "latestart": a start may exceed spawn_timeout
\* "stop":      an operator may call /workers/{id}/stop
\* "rebalance": the proactive scaling loop swaps idle workers
\* "early":     the health check (every 5 s) may see that a new worker is ready
\*              before the spawner's own poll (every 0.2 s) does
\* "handover":  an id may be given out again while the process that had it,
\*              and so its port, has not exited yet
\* "twin":      the template may fork the worker and answer too late
FaultKinds == {"die", "slow", "delay", "swapfail", "tornswap", "sparse", "noagg",
               "latestart", "stop", "rebalance", "early", "handover", "twin"}

Ids == 0 .. MaxWorkers - 1
Objs == 1 .. MaxObjs
NoObj == 0
NoId == -1

ASSUME PoolConstantsOK ==
  /\ MaxWorkers \in Nat \ {0}
  /\ MinWorkers \in Nat
  /\ GpuCap \in Nat
  /\ MaxObjs \in Nat \ {0}
  /\ Warm \subseteq 0 .. MaxObjs
  /\ Ahead \subseteq 1 .. MaxObjs
  /\ \A n \in Warm : n <= MaxWorkers
  /\ NoAdapter \notin Adapters
  /\ Requests \intersect {"dispatch", "grow"} = {}
  /\ Faults \subseteq FaultKinds

WorkerStatus == {"none", "starting", "ready", "swapping", "unhealthy",
                 "stopping"}
ProcState == {"none",      \* not launched
              "loading",   \* building the model; nothing listens on its port
              "up",        \* serves its port
              "draining",  \* /shutdown was called: 503 to /inference, yet
                           \* /health still says ready until it exits
              "dead"}
\* Who awaits the result of spawn_worker, and the adapter it asked for.
Owners == [by : Requests \union {"dispatch", "grow"},
           adapter : Adapters \union {NoAdapter}]
NoOwner == [by |-> "grow", adapter |-> NoAdapter]
\* Where that call is: awaiting the aggregator, polling /health, in
\* _stop_worker after a failed start, returned.
SpawnPhase == {"none", "aggregator", "poll", "failing", "done"}
\* A running _stop_worker ("operator", "spawner") or _stop_worker_process
\* ("reaper"): about to POST /shutdown, or waiting for the process to exit.
Stop == [w : Objs, by : {"operator", "spawner", "reaper"},
         phase : {"post", "wait"}]
\* Where the health check of an object is; a reply that was sent is the record
\* of what /adapter_info said.
Reply == [adapter : Adapters, is_swapping : BOOLEAN]

VARIABLES
  wid, adapter, status, active,   \* fields of WorkerInfo, by object
  nextObj,                        \* the next object to create
  workers,                        \* self.workers: id -> object
  registry,                       \* worker_to_adapter: id -> adapter
  gpu_count,                      \* _gpu_worker_count of the device
  spawn, owner,                   \* spawn_worker calls, by the object they make
  stops,                          \* running stop tasks
  check, info,                    \* health checks, and their /adapter_info reply
  proc,                           \* worker processes,
  loaded,                         \* their current_adapter_id,
  mixed                           \* and those with a module that has other weights

fields == <<wid, adapter, status, active>>
pool == <<workers, registry, gpu_count>>
spawning == <<spawn, owner, nextObj>>
checks == <<check, info>>
processes == <<proc, loaded, mixed>>
poolVars == <<fields, pool, spawning, stops, checks, processes>>

NoReply == [adapter |-> NoAdapter, is_swapping |-> FALSE]

PoolTypeOK ==
  /\ wid \in [Objs -> Ids \union {NoId}]
  /\ adapter \in [Objs -> Adapters \union {NoAdapter}]
  /\ status \in [Objs -> WorkerStatus]
  /\ active \in [Objs -> Int]
  /\ nextObj \in 1 .. MaxObjs + 1
  /\ workers \in [Ids -> Objs \union {NoObj}]
  /\ registry \in [Ids -> Adapters \union {NoAdapter}]
  /\ gpu_count \in Nat
  /\ spawn \in [Objs -> SpawnPhase]
  /\ owner \in [Objs -> Owners]
  /\ stops \subseteq Stop
  /\ check \in [Objs -> {"none", "begun", "asking", "replied"}]
  /\ info \in [Objs -> Reply \union {NoReply}]
  /\ proc \in [Objs -> ProcState]
  /\ loaded \in [Objs -> Adapters \union {NoAdapter}]
  /\ mixed \subseteq Objs

\* prewarm_workers: n workers, object w has id w - 1 and is idle with a[w].
PoolInit ==
  \E n \in Warm, a \in [Objs -> Adapters] :
    LET Prewarmed(w) == w <= n
    IN  /\ wid = [w \in Objs |-> IF Prewarmed(w) THEN w - 1 ELSE NoId]
        /\ adapter = [w \in Objs |-> IF Prewarmed(w) THEN a[w] ELSE NoAdapter]
        /\ loaded = adapter
        /\ status = [w \in Objs |-> IF Prewarmed(w) THEN "ready" ELSE "none"]
        /\ proc = [w \in Objs |-> IF Prewarmed(w) THEN "up" ELSE "none"]
        /\ spawn = [w \in Objs |-> IF Prewarmed(w) THEN "done" ELSE "none"]
        /\ workers = [i \in Ids |-> IF i < n THEN i + 1 ELSE NoObj]
        /\ registry = [i \in Ids |-> IF i < n THEN a[i + 1] ELSE NoAdapter]
        /\ active = [w \in Objs |-> 0]
        /\ nextObj = n + 1
        /\ gpu_count = n
        /\ owner = [w \in Objs |-> NoOwner]
        /\ stops = {}
        /\ check = [w \in Objs |-> "none"]
        /\ info = [w \in Objs |-> NoReply]
        /\ mixed = {}
----------------------------------------------------------------------------
(* Lookups. *)

Tracked == {workers[i] : i \in Ids} \ {NoObj}
FreeIds == {i \in Ids : workers[i] = NoObj}

\* _get_next_worker_id: the lowest free id.
NextId == IF FreeIds = {} THEN NoId
          ELSE CHOOSE i \in FreeIds : \A j \in FreeIds : i <= j

\* The process that answers on the port of worker id i.
Listening(i) == {p \in Objs : proc[p] \in {"up", "draining"} /\ wid[p] = i}
NobodyListens(w) == Listening(wid[w]) = {}

\* The scheduler's view of a worker that can take a request.
IsReady(w) == status[w] = "ready"  \* mutant: ignores active_requests
IsFree(w) == status[w] = "ready" /\ active[w] = 0
Free == {w \in Tracked : IsFree(w)}
Busy == {w \in Tracked : status[w] = "ready" /\ active[w] > 0}
----------------------------------------------------------------------------
(* spawn_worker. *)

\* First locked block. MaxObjs bounds the objects this can create; beyond it
\* the call returns None, as it does when the pool or the device is full.
CanSpawn == NextId # NoId /\ gpu_count < GpuCap /\ nextObj <= MaxObjs

\* Reserve the device and go on to _ensure_aggregator.
StartSpawn(a, who) ==
  /\ CanSpawn
  /\ wid' = [wid EXCEPT ![nextObj] = NextId]
  /\ owner' = [owner EXCEPT ![nextObj] = [by |-> who, adapter |-> a]]
  /\ spawn' = [spawn EXCEPT ![nextObj] = "aggregator"]
  /\ nextObj' = nextObj + 1
  /\ gpu_count' = gpu_count + 1

\* The aggregator could not be launched, or every id was claimed meanwhile:
\* give the device back and return None.
SpawnRefused(w) ==
  /\ spawn[w] = "aggregator"
  /\ "noagg" \in Faults \/ NextId = NoId
  /\ spawn' = [spawn EXCEPT ![w] = "done"]
  /\ gpu_count' = gpu_count - 1
  /\ UNCHANGED <<fields, workers, registry, owner, nextObj, stops, checks,
                 processes>>

\* The id is looked at again, another spawn may have claimed it.
LaunchId(w) == IF workers[wid[w]] = NoObj THEN wid[w] ELSE NextId

\* Second locked block: take another id if ours was claimed, launch, publish. All
\* of P are processes of the new worker.
LaunchAs(w, P) ==
  /\ spawn[w] = "aggregator"
  /\ LET i == LaunchId(w)
     IN  /\ i # NoId
         /\ Listening(i) = {} \/ "handover" \in Faults
         /\ wid' = [p \in Objs |-> IF p \in P THEN i ELSE wid[p]]
         /\ workers' = [workers EXCEPT ![i] = w]
  /\ adapter' = [adapter EXCEPT ![w] = owner[w].adapter]
  /\ loaded' = [p \in Objs |-> IF p \in P THEN owner[w].adapter ELSE loaded[p]]
  /\ proc' = [p \in Objs |-> IF p \in P THEN "loading" ELSE proc[p]]
  /\ status' = [status EXCEPT ![w] = "starting"]
  /\ spawn' = [spawn EXCEPT ![w] = "poll"]
  /\ UNCHANGED <<active, registry, gpu_count, owner, stops, checks, mixed>>

Launch(w) == LaunchAs(w, {w}) /\ UNCHANGED nextObj

\* _fork_worker gave up on the template's reply, but the fork was asked for: the
\* subprocess that is launched instead gets a twin, an object nobody refers to.
LaunchTwins(w) ==
  /\ "twin" \in Faults
  /\ nextObj <= MaxObjs
  /\ LaunchAs(w, {w, nextObj})
  /\ nextObj' = nextObj + 1

\* _wait_for_worker_ready saw 200 "ready" on the port, from whatever process
\* listens there while w's own has not exited; the caller gets the worker.
BecomeReady(w) ==
  /\ spawn[w] = "poll"
  /\ proc[w] # "dead"
  /\ ~NobodyListens(w)
  /\ spawn' = [spawn EXCEPT ![w] = "done"]
  /\ status' = [status EXCEPT ![w] = "ready"]
  /\ registry' = [registry EXCEPT ![wid[w]] = owner[w].adapter]

\* The process exited during startup, or spawn_timeout passed.
StartFails(w) ==
  /\ spawn[w] = "poll"
  /\ \/ proc[w] = "dead"
     \/ "latestart" \in Faults /\ NobodyListens(w)
  /\ spawn' = [spawn EXCEPT ![w] = "failing"]
  /\ status' = [status EXCEPT ![w] = "stopping"]
  /\ stops' = stops \union {[w |-> w, by |-> "spawner", phase |-> "post"]}
  /\ UNCHANGED <<wid, adapter, active, pool, owner, nextObj, checks, processes>>
----------------------------------------------------------------------------
(* Stopping. *)

\* Mutant: the device is given back although the id was given up already.
RemoveTwice(i) ==
  /\ workers' = [workers EXCEPT ![i] = NoObj]
  /\ gpu_count' = IF gpu_count > 0 THEN gpu_count - 1 ELSE gpu_count
  /\ registry' = [registry EXCEPT ![i] = NoAdapter]

\* _remove_worker: by id, so whatever worker holds the id now is forgotten.
Remove(i) ==
  /\ workers' = [workers EXCEPT ![i] = NoObj]
  /\ gpu_count' = IF workers[i] # NoObj /\ gpu_count > 0
                  THEN gpu_count - 1 ELSE gpu_count
  /\ registry' = [registry EXCEPT ![i] = NoAdapter]

OperatorStop(w) ==
  /\ "stop" \in Faults
  /\ w \in Tracked
  /\ ~\E t \in stops : t.w = w /\ t.by = "operator"
  /\ status' = [status EXCEPT ![w] = "stopping"]
  /\ stops' = stops \union {[w |-> w, by |-> "operator", phase |-> "post"]}
  /\ UNCHANGED <<wid, adapter, active, pool, spawning, checks, processes>>

\* The size of the pool a pass of the reaper has seen: those it has taken out are
\* still to be stopped.
SeenByPass == Cardinality(Tracked)
                + Cardinality({t \in stops : t.by = "reaper" /\ t.phase = "post"})

\* LoRantScheduler.select_workers_to_reap and the re-check under both locks.
\* How long w has been idle is left open; the share of busy workers, which is
\* computed once per pass, is not.
ReapableBusy(w) ==  \* mutant: not looked at again under the locks
  IsReady(w) /\ Cardinality(Tracked) > MinWorkers
Reapable(w) ==
  /\ IsFree(w)
  /\ 10 * Cardinality(Busy) <= 3 * SeenByPass
  /\ Cardinality(Tracked) > MinWorkers

\* _reap_idle_workers, one of the workers a pass selects. The entry goes at
\* once, the process only when _stop_worker_process is done with it.
Reap(w) ==
  /\ w \in Tracked
  /\ Reapable(w)
  /\ status' = [status EXCEPT ![w] = "stopping"]
  /\ Remove(wid[w])
  /\ stops' = stops \union {[w |-> w, by |-> "reaper", phase |-> "post"]}
  /\ UNCHANGED <<wid, adapter, active, spawning, checks, processes>>

\* POST /shutdown reaches the process that listens on the port, if any.
PostShutdown(t) ==
  /\ t \in stops /\ t.phase = "post"
  /\ stops' = (stops \ {t}) \union {[t EXCEPT !.phase = "wait"]}
  /\ proc' = [p \in Objs |-> IF p \in Listening(wid[t.w]) THEN "draining"
                             ELSE proc[p]]
  /\ UNCHANGED <<fields, pool, spawning, checks, loaded, mixed>>

\* The process exited by itself, or 30 s passed and it is killed. Then
\* _stop_worker removes by id; _stop_worker_process unregisters the id.
\* A failed start then returns None to whoever asked for it.
FinishStop(t) ==
  /\ t \in stops /\ t.phase = "wait"
  /\ stops' = stops \ {t}
  /\ proc' = [proc EXCEPT ![t.w] = "dead"]
  /\ IF t.by = "reaper"
     THEN /\ registry' = [registry EXCEPT ![wid[t.w]] = NoAdapter]
          /\ UNCHANGED <<workers, gpu_count>>
     ELSE Remove(wid[t.w])
  /\ spawn' = IF t.by = "spawner" THEN [spawn EXCEPT ![t.w] = "done"] ELSE spawn
  /\ UNCHANGED <<fields, owner, nextObj, checks, loaded, mixed>>
----------------------------------------------------------------------------
(* Health checks: three waits, for /health, for /adapter_info, for its body. All *)
(* workers are checked at once. With delays a check is begun for a worker of the *)
(* dictionary, and what follows happens to the object, wherever it is by then.   *)

BeginCheck(w) ==
  /\ "delay" \in Faults
  /\ w \in Tracked /\ check[w] = "none"
  /\ check' = [check EXCEPT ![w] = "begun"]
  /\ UNCHANGED <<fields, pool, spawning, stops, info, processes>>

Checked(w) == IF "delay" \in Faults THEN check[w] = "begun" ELSE w \in Tracked

\* 200 "ready" from the port; a worker is initialised before it listens, so it
\* has no other answer.
Healthy(w) ==
  /\ Checked(w)
  /\ ~NobodyListens(w)
  /\ spawn[w] = "poll" => "early" \in Faults

\* That brings STARTING and UNHEALTHY workers to READY.
Recovered(w) == IF status[w] \in {"unhealthy", "starting"} THEN "ready"
                ELSE status[w]

\* _update_worker_adapter_info applies what the worker said; it had status s.
Apply(w, said, s) ==
  /\ IF said.adapter = NoAdapter
     THEN UNCHANGED <<adapter, registry>>
     ELSE /\ adapter' = [adapter EXCEPT ![w] = said.adapter]
          /\ registry' = [registry EXCEPT ![wid[w]] = said.adapter]
  /\ status' = [status EXCEPT ![w] = IF said.is_swapping THEN "swapping" ELSE s]

\* With delays, the first reply.
HealthOk(w) ==
  /\ "delay" \in Faults
  /\ Healthy(w)
  /\ status' = [status EXCEPT ![w] = Recovered(w)]
  /\ check' = [check EXCEPT ![w] = "asking"]
  /\ UNCHANGED <<wid, adapter, active, pool, spawning, stops, info, processes>>

\* Mutant: a dead process is not looked for.
HealthMarks(w) ==
  /\ Checked(w)
  /\ NobodyListens(w) \/ "slow" \in Faults
  /\ status' = [status EXCEPT ![w] = "unhealthy"]
  /\ check' = [check EXCEPT ![w] = "none"]
  /\ UNCHANGED <<wid, adapter, active, pool, spawning, stops, info, processes>>

\* A timeout or a refused connection: forget the worker if its process died,
\* whichever worker has its id now; otherwise it is UNHEALTHY, a starting one
\* included.
HealthFails(w) ==
  /\ Checked(w)
  /\ NobodyListens(w) \/ "slow" \in Faults
  /\ IF proc[w] = "dead"
     THEN Remove(wid[w]) /\ UNCHANGED status
     ELSE status' = [status EXCEPT ![w] = "unhealthy"] /\ UNCHANGED pool
  /\ check' = [check EXCEPT ![w] = "none"]
  /\ UNCHANGED <<wid, adapter, active, spawning, stops, info, processes>>

\* ... and the last.
ApplyInfo(w) ==
  /\ check[w] = "replied"
  /\ check' = [check EXCEPT ![w] = "none"]
  /\ info' = [info EXCEPT ![w] = NoReply]
  /\ Apply(w, info[w], status[w])
  /\ UNCHANGED <<wid, active, workers, gpu_count, spawning, stops, processes>>
----------------------------------------------------------------------------
(* Worker processes. *)

\* The model is built; app.run binds the port. If the process of an earlier
\* worker with this id still listens there, the new one exits.
Bind(p) ==
  /\ proc[p] = "loading"
  /\ proc' = [proc EXCEPT ![p] =
                IF Listening(wid[p]) = {} THEN "up" ELSE "dead"]
  /\ UNCHANGED <<fields, pool, spawning, stops, checks, loaded, mixed>>

Die(p) ==
  /\ "die" \in Faults
  /\ proc[p] \in {"loading", "up"}
  /\ proc' = [proc EXCEPT ![p] = "dead"]
  /\ UNCHANGED <<fields, pool, spawning, stops, checks, loaded, mixed>>
============================================================================
