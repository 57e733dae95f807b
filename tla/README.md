# SwarmLoRA: TLA+ specifications and proofs

SwarmLoRA serves many LoRA tenants from one base model. Each tenant is a worker
process; one aggregator process per node runs the base model's GEMMs for all
of them in a batch. A local controller owns the workers of a node and a global
controller spreads requests over nodes. This directory holds the
specifications of its concurrent parts, their TLC configurations and their
TLAPS proofs. All paths below are relative to the repository.

    tlc -config SlotBarrier_healthy.cfg MCSlotBarrier      # model-check one run
    tlapm SlotBarrier_proofs.tla                           # check the proofs

## Inventory

**Aggregator main loop** (`src/cpp_extensions/ext_aggregator.cpp`). State: the
active mask, the op it is at, the fetched batch, the sampling state of each
worker. Operations: take leaves and joins at a token boundary; wait for the
ready bits of all active slots, handling leaves every 10 ms and evicting after
500 ms; fetch their commands from the ring; check slot owners; compute; clear
the ready bits and advance the epoch. Hard: it shares everything with worker
processes that may stop at any instruction. Correct when every batch has one
command per active slot, all of the same op, and nobody's failure ends it.

**Slot pool and slot RPC** (`ext_aggregator.cpp`, `src/aggregator.py`,
`src/worker/slot_client.py`). State: owner of each slot, free mask, GPU input
and output buffer per slot. Operations: claim, release, owner query, over a TCP
connection per worker that a thread of the aggregator serves. Hard: claims run
beside the main loop; a lost connection means the worker died. Correct when a
slot has one owner and hands nothing of one tenant to the next.

**Control block and command ring** (`src/cpp_extensions/ext_ipc_queue.cpp`,
`common/ipc_types.h`). State: join, leave, ready, active and evicted bits, the
epoch, the quit flag, pending sampling parameters, a multi-producer ring.
Hard: lock-free; reserve, publish and ready are three steps.

**Worker inference engine** (`src/worker/worker_sync.py`,
`ext_unified_barrier.cpp`). State: pending and active slots with their request.
Operations: accept (claim, set sampling, join), activate, one token of 130 ops,
complete, tear down. Hard: each op is submit / wait for the epoch / read, the
eviction bit is read once per token, and exceptions may come anywhere.

**Worker as a server** (`src/worker/worker_sync.py`). State: the handlers'
semaphore, the futures they wait for, the request queue. Hard: a handler may give
up while its request runs, and one thread serves queue, slots and RPC. Correct when
every request gets one answer and every slot, block and permit comes back.

**Paged KV cache** (`src/worker/paged_attention.py`). State: block tables, free
list. Correct when no block belongs to two sequences or keeps an old one's data.

**Local controller** (`src/controller/controller.py`, `scheduling/`,
`admission.py`, `slo_metrics.py`). State: worker table (status, adapter, active
requests, ports and ids in use), request queue, idempotency cache. Operations:
spawn, reap, health check, swap adapter, dispatch, retry. Hard: asyncio tasks
that read a worker, await, and write it. Correct when a worker never has more
requests than it has room for, reservations come back, and ids are unique.

**Cluster control** (`src/controller/cluster/`): the *registry* of nodes and their
heartbeats, the *global controller* (stale-node detection, recovery, scaling,
fail-over), the *circuit breaker* and retry, *placement* and the *default
scaler*, and the *node agent* that launches and watches processes. Hard:
heartbeats, status writes and launches overlap. Correct when a dead node gets
no requests, a live one is not lost, and limits on active nodes hold.

**Interaction.** A client's request goes from the global controller through a
node's circuit breaker to the local controller, which reserves a worker and
posts it to that worker's HTTP handler; the handler queues it for the worker's
engine; the engine claims a slot over TCP and then talks to the aggregator only
through shared memory and GPU buffers.

## Modules

| Module | Models | Runs |
|---|---|---|
| `SlotBarrier` | main loop, slot pool, control block, ring, engines, worker death | 3 |
| `WorkerEngine` | one worker: handlers, queue, engine thread, KV cache, slot RPC | 2 |
| `BlockPool` | what the KV cache promises; `WorkerEngine` implements it | |
| `WorkerPool` | the controller's workers: spawn, stop, reap, health check, processes | |
| `Dispatch` | requests on top of `WorkerPool`: routing, queue, swaps, retry | 3 |
| `GlobalInference` | a request's path through the global controller | 1 |
| `CircuitBreaker` | circuit of one node with overlapping forwards | 1 |
| `NodeLifecycle` | a node's registry entry, its agent, launch, stop, restart, heartbeats | 2 |

`MC*` holds the instances of a module for TLC and `*_proofs` its theorems.
`Dispatch` composes itself with `WorkerPool` by EXTENDS, since both are one program
with one set of variables; `WorkerEngine` instantiates `BlockPool`. The others meet
at an assumption of one that is a property of another: `WorkerEngine` takes a token
as one step that ends while its slot is in the barrier, as `SlotBarrier` shows where
nothing fails or others are killed (`RequestsFinish`), and assumes nothing once the slot
is out; `Dispatch` takes a worker's answer as one step that comes, from the engine
(`EngineAnswers`) or from the 300 s timeout of the worker's handler; a forward of `GlobalInference` may fail at any time, and
`CircuitBreaker` is one of the reasons; its `StatusWritten` stands for everything
`NodeLifecycle` does.

### SlotBarrier

State, by owner: `free_mask`, `owner`, `input`, `output` are the slot pool in the
aggregator; the masks, `pending_sampling`, `ring`, `quit_flag` are the control
block; `agg_pc`, `active_mask`, `op_idx`, `batch`, `sampling` are the main loop;
`wpc`, `wslot`, `wop`, `req`, `epoch_moved` are one engine per worker. `agg_pc`
and `wpc` name the point between two shared-memory accesses. An input buffer is
the pair (worker, op) that wrote it; an output buffer is what a reader could
tell apart: zeroed, computed from an older input, computed from the current
one, computed with the wrong op, or sampled with another request's parameters.
`epoch_moved[w]` stands for `barrier_done_epoch > epoch` with the epoch `w` read
in `*_submit_all`, which needs no counter. PROJECT.json maps every action to its lines.

`Shaky` says which workers faults may hit and `Faults` which: a stall of more
than 500 ms, an exception in a token or while accepting, a kill ("die"), a kill
while the main loop has not taken the worker's join yet ("diejoin"), a late timeout,
a deferred release for which 0.5 s were too short ("hasty").

Abstractions, each with its reason:
- `claim_slot`, `release_slot` and `get_slot_owner` are atomic: their bindings
  keep the GIL, which only the main loop's binding drops (ext_aggregator.cpp:1498).
- The tail is stored per fetched entry rather than after the fetch, and fetch
  has no `MAX_DRAIN` cap (136 entries).
- `Signal` clears `batch` (the code clears it before the next fetch).
- `SpinOut` includes the second `aggregator_signal_done_slots` of the quit path.
- A worker has one request at a time: the worker's own `MAX_SLOTS` is 1.
  `WorkerEngine` drops this.
- Workers do not restart under the same id; ids given out are monotonic.
- `OP_SET_SAMPLING`, which no worker submits, is left out.
- The KV cache appears only as one more place where a token may raise.

Timing is kept where the code's constants leave a wide margin and dropped
elsewhere. A worker with its next step to do is not evicted (500 ms against some
11 ms) unless stalls are on; the deferred release 0.5 s after a death, which checks
nothing (aggregator.py:521), comes after the leave was taken (`Settled`) unless "hasty" is
on, but may always come before a pending join is; the 5 s and 30 s timeouts of the engine expire when nothing can come any more, or late.

### WorkerEngine and BlockPool

The variables are grouped by owner: `permits`, `http`, `future` are the handlers;
`pc`, `job`, `todo` the engine thread; `pending`, `active` (in dictionary order) and
`state` its slots; `free_blocks`, `tables`, `lens`, `dirty` are `PagedKVCache`, with
`dirty` the blocks that hold keys and values; `opened`, `sent`, `replies` are the
connection; `owner` is the pool in the aggregator; `joins`, `leaves`, `amask`, `evicted`
are the bits of the control block. The engine thread is the sum of `Accepting`
(`_accept_pending_requests`), `Activating` (`_try_activate_pending_slots`), `Generating`
(`_generate_one_token_all` and the tight loop), `Completing` (`_handle_completions`),
`Failing` (`_fail_all_active_slots`) and `Releasing` (the reply every way out waits
for). A reply is taken for whatever is asked for at the time, as `slot_client.py`
does: a claim that reads the answer to an earlier release fails for lack of handles,
and that check is what keeps `RunsInOwnSlots` (mutant `ClaimedAny`).

The main loop takes leaves and joins by two exchanges with a moment between them;
`Boundary` is both, and with "between" `JoinsOnly` is the second without a leave that was
signalled in that moment. With "evict" a slot is evicted between two tokens, with
"midtoken" also within one, after which the engine waits in `wait_for_epoch`, which has
no timeout (ext_ipc_queue.cpp:272-297), for another worker's ops to move the epoch: the
token may or may not end (`InBarrier` in the fairness).

Abstractions: a token's 130 ops are one step with an exception, an eviction or two
active slots in its middle; which free block is taken is left open; a prompt and a
limit are lengths; the order in which pending slots move is open; other workers
claim and release at will. `Faults` says what may happen; `single` leaves out what
puts a second request into the engine or a reply behind its time-out.

`BlockPool` is the cache's promise without slots, requests or lengths: take free
blocks, write blocks that are held, give all of a user back zeroed. `UsesPool` says
that `WorkerEngine` implements it, with slots as users.

### WorkerPool and Dispatch

A `WorkerInfo` outlives its dictionary entry, so the model has objects (`Objs`) and
ids apart: `workers` maps an id to an object, `wid`, `adapter`, `status`, `active` are
fields of an object, `proc` and `loaded` its process and the weights that process
holds, and whoever has the port of an id answers for it (`Listening`). `spawn`/`owner`,
`stops`, `check`/`info` and `swaps` are the running tasks; `rpc`, `rworker`, `attempt` the
coroutine of a request; `pending`, `scan` the dispatcher. Everything is one asyncio
loop: a step runs from one wait to the next, and a dispatcher pass (`scan > 0`) is
cut per entry but interleaves with nothing (`Idle`). A launch is a fork or a subprocess;
with "twin" the template forked but answered too late, and the subprocess launched
instead has a twin on its port that nobody refers to.

A swap overwrites a process's weights module by module, under whatever runs
(adapter_manager.py:108). `loaded` is the adapter the process goes by and `mixed` the
processes with weights of another one in some module: an exception halfway, or after
the old matrices were zeroed, is a failure after which the old name stays ("tornswap",
`WorkerHalfSwaps`), and modules the new adapter lacks keep the old matrices in a swap
that succeeds ("sparse"). Asked for the adapter it goes by, a process does nothing,
`mixed` or not (worker_sync.py:755). `used` records the adapters whose weights took part
in an answer, with `NoAdapter` for left-over ones: `ServedByItsAdapter` is about the
names, `ServedWhole` about the weights.

All workers are health-checked at once (controller.py:901). With "delay" a check has
three waits, and what follows each of them happens to the worker object, in the
dictionary or not, the removal by id included (`HealthFails`); without it the whole
check is one step.

LoRant's choices that depend on measured rates are left open: which worker of an
overserved adapter is swapped, how long an idle worker is spared. Those that
depend on counts are not: match, swap, spawn or queue, grow above 7 tenths busy
(`GrowTenths`), no reaping above 3 tenths busy at the start of the pass (`SeenByPass`).
Spawns whose time depends on clocks and rates, which are the second try of
`_spawn_for_dispatch`, bursts and the proactive loop, are `SpawnAhead`; `Ahead` says which
of the objects may be made by it. Deadlines may pass at any time. A process told to
shut down waits for active slots only and for 120 s at most, so a request in it may be
cut off at any point (`Exit`).
One device, one aggregator; `/prewarm` appears as the initial state. `MaxObjs` bounds
the objects ever made; beyond it a spawn returns None, as on a full device.

`GpuCountExact` holds under all faults; `Answered` and `DeadForgotten` hold under those of
their runs. The other properties hold in the calm instance; each of them is broken by a
fault left out there, named in the findings.

### GlobalInference

`status`, `total` are the registry; `inflight`, `pending`, `cache` are fields of the
global controller; `rpc`, `rnode`, `tried`, `polls` the locals of one
`_handle_inference`, cleared when it ends. `recent` is the list of keyed results of the
last hour, oldest first; an entry is live while its request is in it, which is the
time stamp test without a clock. The number of the attempt is the size of `tried`.
Placement is `AffinityFirstPolicy`, the default, for one base model: least
`total_requests / max_workers` among active nodes, ties open. The status
"out" merges STARTING, DRAINING and FAILED, which this path does not tell apart.
`LookUp` is `_get_node_for_request`, shared by the first attempt and the fail-over.

### CircuitBreaker

`Acquire` (four outcomes) is `acquire`; `RecordSuccess` and `RecordFailure` are the
methods of the same names, each under the lock and hence atomic. `flying` are the
calls of `_forward_to_node` between the two; `probes` those let through in the
current half-open phase. `up` and `doomed` are the node as the code sees it: a
forward fails only if forwards failed at some moment of its flight, and may
succeed even then. The retries of one forward, their delays and the error
classes are inside one flight, as only its last result is recorded.
`failure_count` saturates at the threshold, the only value it is compared with.
`cooled` is the `open_duration` test. A handler cancelled between acquire and
record is not modelled. Each node has a circuit of its own.

### NodeLifecycle

`status`, `recent` (a heartbeat within `heartbeat_timeout`) and `has_pid` are the node's
`NodeInfo`; `call` is what a task of the global controller waits for; `agg`, `ctl` are
`_aggregator_process` and `_controller_process` as the agent's fields and `poll()` show
them (`exited` until somebody looks); `pc` is the agent's handler for a call, or the
launch inside the monitor; `mon` is `_process_monitor_loop`; `beat` is the status in a
heartbeat that is being put together; `linked` is the network. A node that is gone is
one whose link stays cut.

Both programs are asyncio, so a step runs from one suspension to the next. The
registry's locks are never held across one, which makes `Heartbeat` and a whole pass
of the health monitor atomic. `ScaleUp` to `CallFails` are `_scale_up_node` and
`_scale_down_node` cut at their HTTP call; `Decide` is separate because the drainable
list is used after the scale-ups of the same decision were awaited. `BeginLaunch` to
`Settled` are `_launch_aggregator` and what it awaits, for client calls and the monitor
alike; `StopArrives` to `AggStopped` are `_stop_aggregator`.

Timing kept as guards: a launch may outlast its caller (120 s against 600 s), a stop may
not (40 s against 60 s); the monitor's back-off (5 s and more) outlasts the 3 s in which
a waiting handler sees that its process is gone; the agent looks at a process it
stopped at once. Left out: latency of a message (the pid in a heartbeat is taken
when it is delivered, its status when it is begun), the base model's name, the
number of controller failures in a row (giving up is a choice), unregistering, and
limits that involve several nodes.

## Runs

| Run | Question | Result |
|---|---|---|
| `SlotBarrier_healthy` | 3 workers, 2 slots, 3 ops, no faults: lock step, every request finishes | holds |
| `SlotBarrier_faults` | 2 workers, 1 slot, every fault on one of them: slot ownership, input privacy, ready bits | holds |
| `SlotBarrier_death` | 3 workers, 2 slots, one may be killed but with its join pending: room in the ring, residue, survivors' reads, every request's end, reclaiming | holds |
| `WorkerEngine_single` | one request at a time, exceptions, evictions between tokens, expired joins and leaves: cache never exhausted, slots accounted for, leaves signalled only for own slots, every request answered by the engine | holds |
| `WorkerEngine_rough` | every fault, several requests in the engine: blocks partitioned, zeroed and returned, no token in a foreign slot, `BlockPool` implemented | holds |
| `Dispatch_calm` | 2 requests, up to 2 workers, swaps that fail halfway or leave weights behind, a spawn ahead: reservations, right adapter, the reaper | holds |
| `Dispatch_crashes` | 1 request, 2 workers on a device for 2, processes die, ports are taken over, ids come back, aggregators fail, a launch leaves two processes: device count, the request ends, the dead are forgotten | holds |
| `Dispatch_overlaps` | 1 request, 1 worker, operator stops, rebalancing, late starts, overtaken health replies: the request ends | holds |
| `GlobalInference_keys` | 3 requests, 2 or 3 with one key, 2 uneven nodes: counters, no second run of an answered key, every request ends | holds |
| `CircuitBreaker_recovery` | 4 forwards, a node that fails and recovers: permits, wedging, recovery | holds |
| `NodeLifecycle_converges` | a launch, a drain, the crash monitor and heartbeats on one node: the registry comes to agree with the node | holds |
| `NodeLifecycle_dead` | does a node that is gone for good leave service? | **violated** |

**Bounds.** *SlotBarrier*: three workers for two slots make a slot change hands while
another stays in the barrier; two ops are enough for a first and a last op and three
for a middle one. A ring of `Capacity` 3 is exactly large enough for two live commands
in the healthy run; where a killed worker may leave an entry behind it is 4, and 3
violates `RingHasRoom` there. The
death run has a third worker because a slot that comes back wrongly harms nobody
until a next tenant has it while another engine's ops go on: with two workers the
finding about pending joins below does not show. One
slot in the faults run makes every claim meet the last tenant's residue. One
sampling parameter suffices except where the question is mixing two.
*WorkerEngine*: one permit, as in the code, and two slots, so that a slot can be
another worker's or a second one of this worker; `MaxSeq` 4 with blocks of 2, chunks of
2 and prompts and limits of 1 and 4 reach truncation, the cap, an intermediate chunk,
a full cache and a block boundary; two requests, of which the second meets what
the first left behind. *Dispatch*: two workers are the fewest of which one can match
and the other be swapped; three objects let one id be used twice; a device for
three never refuses in the calm run and does in the others. With two workers on a
device for two, a decrement too many shows as a count below the dictionary, where
`max(0, ...)` would hide it with one; a spawn refused at the device and one whose
aggregator fails (1087, 1094) both occur. A pool of two is never
more than 7 tenths but less than fully busy, so the calm run grows above 4. There one
spawn may come ahead of any need (`Ahead` is {1}, which joins the two warm workers or starts
the pool; {3} was checked once, with two warm workers).
*GlobalInference*: a queue of two is full with the third request; r1 and r2 have the
key and r3 may have it, which is every case of at least two sharing it, as requests
are interchangeable; capacities 3 and 1 make placement return a node that was tried;
one poll shows both that polling may help and that it ends. *CircuitBreaker*: four
forwards against `half_open_max` = 3 let late results meet a full half-open phase, and
thresholds of 2 make each counter cross its threshold in more than one step.
*NodeLifecycle*: one task launches, again once the agent is through with its last call;
that call may have ended long before, so that drains, restarts and heartbeats meet the
launch it left behind. With the drain and the monitor three tasks work on the
processes at once. `MaxRetries` is 1: the theorem `BackoffNeverGrows` says that the count
never passes 1, whatever the limit.

**Fairness.** *SlotBarrier*: the main loop and the engine threads are ordinary loops that
keep running: weak fairness of `Aggregator` and of each engine's `Step`. A request has a
bounded number of tokens (`max_tokens`), so `Complete` is strongly fair.
`DeferredRelease` of a worker that may die is strongly fair: the thread wakes after
its sleep whatever the main loop is at. The timeouts that end a hopeless wait are weakly fair. Claims,
faults and kills are not fair. *WorkerEngine*: the engine thread, the connection thread
and the main loop's boundaries are weakly fair, as is the eviction of a slot that
nobody serves; the end of a token is only while its slot is in the barrier
(`InBarrier`), and exceptions are never; `ActivationTimeout` is strongly fair, since 30 s pass while the engine
polls. *Dispatch*: running tasks, the dispatcher's pass and processes told to exit
proceed; a request's coroutine is strongly fair because asyncio runs callbacks
in the order they became ready, and a deadline passes. Operators, failures, reaper and
rebalancing owe nothing. *GlobalInference*: each request proceeds, because its calls
end by their timeouts and its sleeps end. *CircuitBreaker*: time passes (`Cool`), forwards
end by `request_timeout` (`Record`), and clients keep asking (`Acquire`). *NodeLifecycle*: the
periodic loops and every handler keep running, and a call ends by its timeout;
nothing is assumed of processes and link, so `Converges` is about a node that is left
alone from some point on.

The runs of `WorkerEngine`, `Dispatch` and `GlobalInference` allow deadlock: there are
finitely many requests, and the system may stop when they are done.

## Findings

**A dead node comes back** (run `NodeLifecycle_dead`). `update_node_status` sets
`last_heartbeat` (registry.py:195) also when the health monitor marks a silent node
FAILED or a call to it fails; `_recover_failed_nodes` in the same pass then sees a
recent heartbeat and makes it ACTIVE again, every 30 s, for ever.

The following were met on the way. Each is a property defined in its module that TLC
finds violated in the instance named; no run is kept for it.

*Barrier* (`SlotBarrier`)
- A worker killed while it submits a command ends the main loop for all tenants
  (`AggregatorUp`, settings of `death`): between the CAS on `head` (ext_ipc_queue.cpp:382)
  and the store to `ready` the entry is reserved but never published; the next fetch
  spins on it and sets the quit flag (ext_aggregator.cpp:1142).
- So does one killed after it submitted (`DanglingDiscarded`, same settings): after its
  slot is reclaimed and claimed again, its command passes the active-mask filter
  (ext_aggregator.cpp:1154), whose comment says it discards such dangling entries.
- A worker evicted in mid-token reads a stale output (`NoStaleRead`, `death` with
  `Faults <- Stalls`): the eviction bit is read once per token (worker_sync.py:1282), and
  later a co-tenant's epoch wakes the evicted worker.
- A worker killed with its join pending can corrupt and hang others (`FreedSlotsZero`,
  `SurvivorsReadFresh`, `RequestsFinish`; `death` with `Faults <- AllDeaths`): its connection
  thread signals a leave, which phase 1 takes before the join (ext_aggregator.cpp:1053,
  1068), so that the slot is active with nobody to serve it when the deferred release
  frees it (aggregator.py:521-524). Its next tenant is evicted before it has joined, gives
  the slot back at its first token without waiting for the leave (worker_sync.py:1260),
  and that leave takes out a later tenant, which then reads an old output or waits for
  an activation that is over.
- An exception in one engine can hang another (`RequestsFinish`, `death` with
  `Faults <- Raises`): `_teardown_slot` releases the slot without waiting for the leave
  (worker_sync.py:1260), which then hits the slot's next tenant. Its docstring
  ("Mirrors the normal-completion release sequence", 1249) has the completion in mind,
  which does wait (1133).
- The deferred release waits 0.5 s and checks nothing (aggregator.py:521). Where the
  main loop takes longer over an op or its boundary, the slot is released while a
  kernel writes it and claimed while it is in the barrier (`FreedSlotsZero`,
  `SurvivorsReadFresh`, `RingHasRoom` and `RequestsFinish`; `death` with "hasty" added).
- Sampling parameters are taken from the first command of a batch
  (ext_aggregator.cpp:719; `SampledAsRequested`, `healthy` with `Params <- TwoParams`).

*Worker* (`WorkerEngine`, settings of `single` with the fault named)
- "expire": a request that outlives its handler lets a second one in. The helpers serve
  the first slot only (worker_sync.py:228), the second is evicted, its missing output
  raises, and both requests fail (`SecondSlotRaises`).
- "raise", "evict", "unjoined", "unleft": each way into `_teardown_slot`, and a completion
  that gave up on its leave, releases a slot whose leave was not taken yet
  (worker_sync.py:1260, 1133): the leave can hit the slot's next tenant
  (`LeavesHitOwner`, which holds without faults). `LeavesOwnSlots` is only about the moment
  of signalling.
- "midtoken": an engine evicted in the middle of a token (ext_aggregator.cpp:940-962)
  spins in `wait_for_epoch`, which knows neither a timeout nor the eviction
  (ext_ipc_queue.cpp:272-297), until another worker moves the epoch; if nobody does, its
  request and all behind it get no answer but the handler's 300 s timeout
  (`EngineAnswers`).
- "between" with "raise", "unleft" or "evict": the leave of a teardown is signalled between
  the main loop's two exchanges (ext_aggregator.cpp:1055, 1069), the next tenant's
  join is taken by the second, and the leave takes that tenant out at the next
  boundary; the engine waits for an epoch as above (`EngineAnswers`).
- "late": a reply after the 30 s time-out is taken for the next one. A grant that
  comes late is lost with its slot (`SlotsAccounted`), and a leave may be signalled for a
  slot that is another worker's by now (`LeavesOwnSlots`). That no token runs there is
  owed to a KeyError: an answer to a release has no handles.
- "late" with "evict" or "unjoined": when the release inside
  `_try_activate_pending_slots` times out, the request has left `pending_slots` and its
  future is never set (`EngineAnswers`); the handler waits its 300 s.
- "accept": an exception between claim and pending table loses the slot
  (worker_sync.py:1059; `SlotsAccounted`).
- "badbody": a body that cannot be parsed keeps the admission permit for good
  (worker_sync.py:644; `BadBody`): with one permit, the worker refuses everything then.
- A slot that was signalled to join and is still pending is released without a
  leave (`FailPending`), so it becomes active with nobody to serve it.

*Controller* (`Dispatch`, settings of `calm` with the fault named instead of its own)
- "early": the health check turns a STARTING worker READY (controller.py:936), the
  dispatcher reserves it, and the spawner reserves it again for its own request
  (1352): `OneAtATime`, against "N=1: always 0 or 1" (97). The same window lets the reaper
  take a worker the spawner is about to hand out (`ReaperSparesHolders`).
- "die": a retry reserves a worker that the dispatcher reserved for it already
  (1393), and one reservation is never given back (`CountsHolders`).
- "rebalance", "handover", with two requests also "delay": a proactive swap takes no
  reservation and may land while a request runs; a new worker may be taken for ready
  because an old process answers on its port; a reply of /adapter_info may be older
  than a swap. Each ends in an answer from another adapter's weights
  (`ServedByItsAdapter`). "stop" and "latestart" do with two requests, if a POST is under
  way until a new worker, of another adapter, listens on the stopped one's port; the
  model has no bound on how long a connection takes.
- "tornswap", "sparse": "Atomically swap to a new LoRA adapter" (adapter_manager.py:49)
  is not. An exception in the in-place update (180, 191, 200) or after
  `_zero_lora_modules` (227) leaves weights of both adapters, or zeros, under the old name; the
  controller sets READY (controller.py:1262) and routes the old adapter's requests
  there. And modules the new adapter lacks keep the old adapter's weights in a swap that
  succeeds (adapter_manager.py:159, 196). Both end in an answer from other weights
  (`ServedWhole`).
- "die", "handover", "early", "stop", "delay", with two requests also "latestart":
  `_remove_worker` works by id (1190), as does the health check's failure handler, which
  comes up to the HTTP timeout after the list of workers was taken (903, 973). A newer
  worker may have the id by then; it is forgotten and nobody knows its process
  (`NoOrphan`). With "twin" the process that was forked too late is nobody's from the
  start.

*Global controller* (`GlobalInference`, settings of `keys`)
- Fail-over may try only one node though another is active (`FailsOver`). Comments say
  "excluding already tried nodes" (global_controller.py:488) and "Retry on another node
  for first attempt (any error)" (518), but placement is not told which nodes were
  tried; when it returns one of them, the request scales up or polls, and as placement
  goes by totals it may return the same one each time.
- `max_active_nodes` ("Max nodes with aggregators", 61) can be exceeded (`WithinLimit`,
  `SPECIFICATION AloneSpec`): the count leaves out STARTING nodes (560), and two requests
  each launch one.
- Two requests with one key that overlap both run; `NoRerun` is about those that come
  after an answer. A request that failed over stays counted in flight on both nodes.
- `AffinityFirstPolicy` looks at no adapter and never spills over, against its docstring
  (placement.py:71-82); the model follows the code.

*Node agent* (`NodeLifecycle`, settings of `converges`): "Reset on success"
(node_agent.py:448) is a reset on failure too (`ResetOnSuccess`). `_launch_aggregator`
reports failures by its return value, which the monitor does not look at: one failed
restart is final, and the back-off, exponential by the docstring (423), never grows
(theorem `BackoffNeverGrows`). And a launch whose controller is stopped in its two seconds fails on `None.poll()` (`Settled`).

`SurvivorsReadFresh` is stated for as long as the main loop runs: its quit path
advances the epoch without computing, so a waiting engine may read one old
output before it notices the quit flag.

## Proofs

TLAPS proves, for every value of the constants that satisfies the assumptions:

- `SlotBarrier_proofs` (from `ConstantsOK` only, any set of faults): `TypeCorrect`,
  `SlotsExclusive`, `InputsPrivate`, `ReadyIsWritten`. The inductive invariant adds to the
  four properties which program counters of an engine hold a slot, and that an
  engine past `Prepare` has written its input. Without the first, `Release` could
  free a slot the engine only thinks it has; without the second, `SignalReady` could
  set the bit over an empty buffer. `ReadyMeansWritten` itself is inductive only
  because the owner of a held slot is known and `Scrub` runs in the claim.
- `LockStep_proofs` (from `ConstantsOK`). First, under `OnlyDeaths` (no fault but "die", of
  any number of workers) and `RoomForAll` (`Capacity > NumSlots + Cardinality(Shaky)`):
  `SurvivorsUnharmed`, `FreedStayZero` and `RingNeverFull`, which are `SurvivorsReadFresh`,
  `FreedSlotsZero` and `RingHasRoom`. Then, under `NothingFails` (nobody is shaky,
  `Capacity > NumSlots`): `InLockStep` and `MainLoopRuns` (`AggregatorUp`). The code has 512 ring entries
  (`QUEUE_CAPACITY`, config.py:30) for at most 128 slots (`MAX_SLOTS`, ipc_types.h:16), so
  `RoomForAll` covers 383 deaths; some such bound is needed, as workers killed one after
  the other before any op ends each leave an entry that nobody fetches, and on a full
  ring the engine raises, which is the finding above. The invariant `DInv` adds to that of
  `SlotBarrier_proofs`, for as long as the main loop runs: where the slot of an engine is
  at each of its places (`TenantOK`), which op it is at and when its ready bit is set
  (`InStep`), that every slot in the barrier has an owner who knows it (`OwnedOK`), that
  nobody has two commands out, and a living engine one only within an op, for that op
  (`CommandsOK`), that a batch past the owner check covers the active slots (`BatchOK`, by
  the pigeonhole principle: as many commands as active slots, of different workers, each
  of the owner), and what the buffers hold (`FreshOK`). None of it is inductive without
  the rest: an engine reads its own result because the batch was complete, which needs
  every ready bit to stand for a command, which needs the op counts to agree, which
  needs leaves and joins to hit only the slots they were meant for. `RoomInRing` bounds the
  ring by an injection of its commands into the shaky workers and the other slots.
  Where nothing fails, `NoneLost` adds that a command is in the ring until it is in the
  batch; then the fetch always finds what it waits for, and the main loop never ends.
- `WorkerEngine_proofs` (from `EngineConstantsOK`, any set of faults and any number of
  requests, slots and permits): `TypeCorrect`, `BlocksReturned`, `SlotsOwned`, `Refinement`
  (`WorkerEngine` implements `BlockPool`), and from it `BlocksAlwaysSound`. The invariant has
  three groups besides the types. `Lists` and `CompletionOK`: a slot occurs once, in
  `pending` or in `active`, a completed one is alone and has no blocks any more; it needs
  `ComingSlots`, because a claim appends a slot that must not be there yet. `LengthsFit`: what is cached, still to be read and still to be
  made fits into `MaxSeq`; without it a length has no bound and `TypeOK` is not
  inductive. `SlotsApart` and `ClosedSlots`: a slot of this worker is coming (granted,
  not read), held, or going (its release is on the wire), and never two of these; a
  slot without handles is one whose release failed or is under way, runs alone,
  and every claim still unread was sent before its release, so that no grant of that
  slot can be on its way while the engine still lists it. The refinement goes step by
  step: each action takes, writes or gives back for one running slot, or leaves the
  blocks alone (`CacheUse`); `BlocksSound` is then proved of `BlockPool` only.
  Three properties hold only without some faults, and each exclusion is needed.
  `OwnLeaves` (`LeavesOwnSlots`) excludes "late": a release that timed out may have been
  done, and the engine's handler would then signal a leave for a slot that is another
  worker's; `FailsOpen` says that the handler finds every handle open.
  `NoSlotLost` (`SlotsAccounted`) excludes "late" and "accept", which lose a slot each (see the
  findings); `OneMessage` says that the connection carries the one message the engine
  waits for, so that a reply to a release means that the slot has gone. `CacheSuffices`
  (`NeverExhausted`) excludes "expire" only: a handler that gives up returns its permit while
  its request keeps its blocks, and with one permit TLC finds the next request
  short of a block. Otherwise it holds for any number of permits. `InFlight`
  says that the queue and the slots have different requests, all of them open, so there is an
  injection of the running slots into the waiting handlers; `PermitsOK` bounds those by
  `Permits`; `TableFits` bounds each table by the share of one permit; and the blocks
  of all tables are counted by an injection into slots times share (`UnionBound`), so the
  share of the slot that asks is never in use elsewhere (`RoomLeft`).
- `Dispatch_proofs` (from `PoolConstantsOK` and `DispatchConstantsOK`, any set of faults and any
  number of workers, objects, requests and adapters): `TypeCorrect` and `DeviceCounted`, which
  is `GpuCountExact`. The invariant adds what is known of an object from the phase of its
  spawn: its id is final once it is launched (`Past`), every entry of the dictionary is
  such an object under its own id, so the dictionary is injective and a removal by id
  takes exactly one worker out, and whatever requests, swaps and stops refer to is
  launched. Without the last, a late stop could write under an id that is none, and the
  decrement of `_remove_worker` could go below the spawns still waiting.
- `Reservations_proofs` extends it. Under `NothingLost` (no faults but health check
  timeouts, swaps that fail at once or halfway or leave weights behind, failing
  aggregators, proactive swaps): `HoldersCounted`, `WorkerExclusive`, `HoldersSpared`, for
  `CountsHolders`, `OneAtATime` and `ReaperSparesHolders`. The findings above name, for most of
  the faults left out, the property it breaks. "delay" is left out because a late
  failure handler removes by id: TLC finds the three to hold with it in the settings of
  `calm`, with no proof. `LInv` adds: a worker being started is not READY and
  its process is alive, live processes have different ports, a stop is the reaper's and
  its worker has left the dictionary (`PoolLossless`); a request awaits at most one swap
  and one spawn, and each is for it; a holder is alone, its worker is in the dictionary
  and serves; and no request is in a retry (`RequestsLossless`). These need each other: a worker is
  given to one holder only because `active_requests` is exact, which needs that no spawner
  hands out a worker the dispatcher could see, and that no holder's process has gone,
  since a retry reserves twice. Under `Undisturbed` (no
  proactive swaps besides): `RightAdapter`, which is `ServedByItsAdapter`, for the names.
  It adds that the registry names the weights of a launched worker or nothing, except while
  the controller has yet to hear of a swap that was done (`WeightsOK`), that swaps and spawns
  are for the adapter of their request, and that a request between its grant and its
  answer has its weights in its worker. A swap cannot touch these, because a swapped
  worker is held by that swap's request or queue entry, and holders are alone. For the
  weights, `WholeAdapter` (`ServedWhole`) needs `Intact`: no swap fails halfway and no adapter
  lacks a module. Both exclusions are needed, as the findings say.
- `GlobalInference_proofs` (from `GlobalConstantsOK`, any number of nodes, requests, keys
  and polls): `TypeCorrect`, `CountersCorrect`, `CacheAnswers` (which is `NoRerun`). The
  invariant adds `AttemptsOK`, which says what a request has tried at each place and so
  bounds the tries, and `CacheOK`: for each keyed result of the last hour its key's
  entry holds this or a later result. Without the first, a request could be accepted with
  nodes it has tried and nobody has counted; without the second, an expired entry could
  stand where a live one should.
- `CircuitBreaker_proofs` (from `ConfigOK`, where `success_threshold <= half_open_max`):
  `TypeCorrect`, `PermitsKept`, `RefusalsEnd`, `ClosedHasRoom`. The invariant is the type,
  the two counting properties, and that a half-open circuit has fewer than
  `success_threshold` successes. A permit is a probe in flight or a counted success;
  late results of earlier phases only add successes, so they can never lose one.
  The assumption is needed: with `success_threshold > half_open_max`, a phase whose
  probes all succeed would refuse for ever.
- `NodeLifecycle_proofs` (from `TasksDiffer`, any number of launching tasks): `TypeCorrect`,
  and `BackoffNeverGrows`, which says how far the defect of the monitor's counter goes. The
  invariant adds that a failure is counted only while the monitor deals with it,
  without which that bound is not inductive.

Model-checked only: liveness, which is out of the prover's reach (`RequestsFinish`,
`DeadSlotsReclaimed`, `EngineAnswers`, `Answered`, `DeadForgotten`, `Recovers`, `Converges`).
Every other property of the passing runs is proved, for the faults its theorem names.

## Plan

1. Done: `SlotBarrier`, `CircuitBreaker`, `NodeLifecycle`, `WorkerEngine` with `BlockPool`,
   `GlobalInference`, `WorkerPool` and `Dispatch`, and their proofs.
2. `TokenBarrier`, an abstract lock-step barrier, and `SlotBarrier` shown to implement
   it where nothing fails.
3. Limits on active nodes, with the auto-scaler over several nodes.
4. The other placement policies with the adapter index they read.

## Not modelled

Numerics (GEMM, LoRA, attention, sampling), model and adapter loading, weight
export over CUDA IPC, the template process beyond a fork that is answered too late:
no protocol between concurrent parts. SLO metrics and admission budgets: floating-point functions of wall-clock
time; a deadline may pass at any time instead. Death of the aggregator process
itself and its restart by the node agent (only exceptions in it are modelled). A
worker's shutdown while requests run, its metrics, and a broken slot connection
other than by death. The local controller's idempotency cache, which is the global
one's code over again. `random_sched.py`, the baseline scheduler. `baselines/`,
`benchmarks/`, `analysis/`, `security_eval/`, `scripts/`, `traces/` and
`controller/benchmark.py`: evaluation code and the systems it is compared with, which
make up about two thirds of the repository's lines.
