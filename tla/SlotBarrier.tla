---------------------------- MODULE SlotBarrier ----------------------------
(***************************************************************************)
(* The lock-step slot barrier of SwarmLoRA: the aggregator's main loop     *)
(* (ext_aggregator.cpp), the shared control block and command ring         *)
(* (ext_ipc_queue.cpp, ipc_types.h), the slot pool, and the workers'       *)
(* inference engines that drive it (worker_sync.py, slot_client.py).       *)
(*                                                                         *)
(* A worker claims a slot, joins the barrier at a token boundary, and then *)
(* runs operations 0 .. LastOp of every token in lock step with all other  *)
(* active slots: write input, submit a command, set the ready bit, wait    *)
(* for the barrier epoch to move, read output.                             *)
(***************************************************************************)
EXTENDS Integers, Sequences, FiniteSets

CONSTANTS
  Workers,     \* worker processes; each registers once, so ids are not reused
  NoWorker,    \* owner_worker_id of a slot nobody owns (-1 in the code)
  NumSlots,    \* size of the slot pool
  LastOp,      \* ops of a token are 0 .. LastOp: 0 is EMBED, LastOp is LM_HEAD
  Capacity,    \* ring entries; one is always left empty
  Params,      \* sampling parameters a request may ask for
  NoParams,    \* no sampling state recorded
  Shaky,       \* the workers that faults may hit
  Faults       \* the faults of this instance, a subset of FaultKinds

\* "stall":  a worker may take longer than PER_SLOT_TIMEOUT over one step
\* "raise":  the engine may throw in the middle of a token
\* "accept": accepting a request may throw after the slot was claimed
\* "die":    the worker process may be killed
\* "diejoin": it may be killed while a join of its is not taken yet
\* "late":   the engine's own timeouts (activation, leave) may expire
\* "hasty":  the 0.5 s before a deferred release may be too short
FaultKinds == {"stall", "raise", "accept", "die", "diejoin", "late", "hasty"}

Slots == 0 .. NumSlots - 1
NoSlot == -1
Ops == 0 .. LastOp

ASSUME ConstantsOK ==
  /\ NumSlots \in Nat \ {0}
  /\ LastOp \in Nat
  /\ Capacity \in Nat \ {0}
  /\ NoWorker \notin Workers
  /\ NoParams \notin Params
  /\ Shaky \subseteq Workers
  /\ Faults \subseteq FaultKinds

Command == [slot : Slots, worker : Workers, op : Ops, ready : BOOLEAN]

\* What an output buffer holds, relative to what its owner wrote last.
Contents == {"zero",         \* scrubbed by release_slot
             "stale",        \* computed from an earlier input
             "fresh",        \* computed from the current input, with its op
             "garbage",      \* computed with another op, or from another input
             "missampled"}   \* the right logits, another request's sampling

WorkerPC == {"idle", "claimed", "pending", "joining", "token", "prepare",
             "submit", "publish", "ready", "wait", "get", "boundary",
             "leaving", "releasing", "dead", "draining", "gone"}
AggPC == {"leaves", "joins", "wait", "fetch", "compute", "signal", "down"}

VARIABLES
  \* SlotPool (aggregator process)
  free_mask, owner, input, output,
  \* ControlBlock and Command ring (shared memory)
  active_slot_mask, pending_joins, pending_leaves, ready_mask, evicted_mask,
  pending_sampling, ring, quit_flag,
  \* locals of aggregator_main_loop_slots
  agg_pc, active_mask, op_idx, batch, sampling,
  \* one engine per worker; epoch_moved[w] is barrier_done_epoch > epoch,
  \* where epoch is what w read before it submitted its last command
  wpc, wslot, wop, req, epoch_moved

pool == <<free_mask, owner>>
buffers == <<input, output>>
masks == <<active_slot_mask, pending_joins, pending_leaves, ready_mask,
           evicted_mask>>
main == <<agg_pc, active_mask, op_idx, batch, sampling>>
engine == <<wpc, wslot, wop, req, epoch_moved>>
vars == <<pool, buffers, masks, pending_sampling, ring, quit_flag, main, engine>>

Init ==
  /\ free_mask = Slots
  /\ owner = [s \in Slots |-> NoWorker]
  /\ input = [s \in Slots |-> <<>>]
  /\ output = [s \in Slots |-> "zero"]
  /\ active_slot_mask = {}
  /\ pending_joins = {}
  /\ pending_leaves = {}
  /\ ready_mask = {}
  /\ evicted_mask = {}
  /\ pending_sampling = [s \in Slots |-> NoParams]
  /\ ring = <<>>
  /\ quit_flag = FALSE
  /\ agg_pc = "leaves"
  /\ active_mask = {}
  /\ op_idx = 0
  /\ batch = <<>>
  /\ sampling = [w \in Workers |-> NoParams]
  /\ wpc = [w \in Workers |-> "idle"]
  /\ wslot = [w \in Workers |-> NoSlot]
  /\ wop = [w \in Workers |-> 0]
  /\ req \in [Workers -> Params]
  /\ epoch_moved = [w \in Workers |-> TRUE]

Hit(w, fault) == w \in Shaky /\ fault \in Faults

\* Steps of a worker that only move its program counter.
Goto(w, from, to) ==
  /\ wpc[w] = from
  /\ wpc' = [wpc EXCEPT ![w] = to]

SignalLeave(s) == pending_leaves' = pending_leaves \union {s}
----------------------------------------------------------------------------
(* The aggregator's main loop. *)

\* Phase 1, first half: leaves, exchanged with zero.
TakeLeaves ==
  /\ agg_pc = "leaves"
  /\ active_mask' = active_mask \ pending_leaves
  /\ pending_leaves' = {}
  /\ agg_pc' = "joins"
  /\ UNCHANGED <<pool, buffers, active_slot_mask, pending_joins, ready_mask,
                 evicted_mask, pending_sampling, ring, quit_flag, op_idx,
                 batch, sampling, engine>>

\* The joining slots with a pending sampling state that worker w owns.
ToApply(w) == {s \in pending_joins : pending_sampling[s] # NoParams
                                       /\ owner[s] = w}

\* apply_pending_sampling_states: in slot order, so the last slot wins.
ApplyPendingSampling ==
  /\ sampling' = [w \in Workers |->
       IF ToApply(w) = {} THEN sampling[w]
       ELSE pending_sampling[CHOOSE s \in ToApply(w) :
                               \A t \in ToApply(w) : t <= s]]
  /\ pending_sampling' = [s \in Slots |->
       IF s \in pending_joins THEN NoParams ELSE pending_sampling[s]]

\* Phase 1, second half: joins, then publish the active set.
TakeJoins ==
  /\ agg_pc = "joins"
  /\ ApplyPendingSampling
  /\ active_mask' = active_mask \union pending_joins
  /\ pending_joins' = {}
  /\ active_slot_mask' = active_mask'
  /\ op_idx' = 0
  /\ agg_pc' = IF active_mask' = {} THEN "leaves" ELSE "wait"
  /\ UNCHANGED <<pool, buffers, pending_leaves, ready_mask, evicted_mask, ring,
                 quit_flag, batch, engine>>

\* aggregator_wait_for_slots, every active slot has signalled.
AllReady ==
  /\ agg_pc = "wait"
  /\ active_mask \subseteq ready_mask
  /\ batch' = <<>>
  /\ agg_pc' = "fetch"
  /\ UNCHANGED <<pool, buffers, masks, pending_sampling, ring, quit_flag,
                 active_mask, op_idx, sampling, engine>>

\* Take slots out of the batch in the middle of an op; with nobody left the
\* op loop is abandoned for phase 1.
Drop(slots) ==
  /\ active_mask' = active_mask \ slots
  /\ active_slot_mask' = active_mask'
  /\ agg_pc' = IF active_mask' = {} THEN "leaves" ELSE "wait"

\* aggregator_wait_for_slots, the check every LEAVE_CHECK_INTERVAL.
MidOpLeave ==
  LET leaving == pending_leaves \intersect active_mask IN
  /\ agg_pc = "wait"
  /\ ~(active_mask \subseteq ready_mask)
  /\ leaving # {}
  /\ Drop(leaving)
  /\ pending_leaves' = pending_leaves \ leaving
  /\ UNCHANGED <<pool, buffers, pending_joins, ready_mask, evicted_mask,
                 pending_sampling, ring, quit_flag, op_idx, batch, sampling,
                 engine>>

\* A worker that is about to do its next step of a token does it within
\* PER_SLOT_TIMEOUT (the margin is 45x), unless stalls are in the instance.
OnTime(w) ==
  /\ ~Hit(w, "stall")
  /\ \/ wpc[w] \in {"token", "prepare", "submit", "publish", "ready", "get",
                    "boundary"}
     \/ wpc[w] = "wait" /\ epoch_moved[w]
     \/ wpc[w] = "joining" /\ wslot[w] \in active_slot_mask

\* aggregator_wait_for_slots, PER_SLOT_TIMEOUT expired. Leaves come first: they
\* are looked at every 10 ms of the same 500 ms.
EvictStuck ==
  LET stuck == active_mask \ ready_mask IN
  /\ agg_pc = "wait"
  /\ stuck # {}
  /\ pending_leaves \intersect active_mask = {}
  /\ \A w \in Workers : wslot[w] \in stuck => ~OnTime(w)
  /\ Drop(stuck)
  /\ evicted_mask' = evicted_mask \union stuck
  /\ UNCHANGED <<pool, buffers, pending_joins, pending_leaves, ready_mask,
                 pending_sampling, ring, quit_flag, op_idx, batch, sampling,
                 engine>>

\* Mutant of FetchOne: the tail is not stored.
FetchOneKeepsTail ==
  /\ agg_pc = "fetch"
  /\ Len(batch) < Cardinality(active_mask)
  /\ ring # <<>>
  /\ Head(ring).ready
  /\ batch' = IF Head(ring).slot \in active_mask
              THEN Append(batch, Head(ring)) ELSE batch
  /\ UNCHANGED <<pool, buffers, masks, pending_sampling, ring, quit_flag, agg_pc,
                 active_mask, op_idx, sampling, engine>>

\* Fetch, one ring entry: kept if its slot is in the batch, else discarded.
FetchOne ==
  /\ agg_pc = "fetch"
  /\ Len(batch) < Cardinality(active_mask)
  /\ ring # <<>>
  /\ Head(ring).ready
  /\ ring' = Tail(ring)
  /\ batch' = IF Head(ring).slot \in active_mask
              THEN Append(batch, Head(ring)) ELSE batch
  /\ UNCHANGED <<pool, buffers, masks, pending_sampling, quit_flag, agg_pc,
                 active_mask, op_idx, sampling, engine>>

\* Mutant of SignalDone: the epoch is not advanced.
SignalDoneKeepsEpoch ==
  /\ ready_mask' = ready_mask \ active_slot_mask
  /\ epoch_moved' = epoch_moved

\* aggregator_signal_done_slots.
SignalDone ==
  /\ ready_mask' = ready_mask \ active_slot_mask
  /\ epoch_moved' = [w \in Workers |-> TRUE]

\* Fetch, MAX_SPIN polls of an entry that nobody is about to publish: the
\* loop sets quit_flag, signals done and ends for every tenant.
SpinOut ==
  /\ agg_pc = "fetch"
  /\ Len(batch) < Cardinality(active_mask)
  /\ ~(ring # <<>> /\ Head(ring).ready)
  /\ \A w \in Workers : wpc[w] \in {"prepare", "submit", "publish"} => ~OnTime(w)
  /\ quit_flag' = TRUE
  /\ SignalDone
  /\ agg_pc' = "down"
  /\ UNCHANGED <<pool, buffers, active_slot_mask, pending_joins, pending_leaves,
                 evicted_mask, pending_sampling, ring, active_mask, op_idx,
                 batch, sampling, wpc, wslot, wop, req>>

\* What the batched kernels leave in the output buffer of command c: the op of
\* the first command is applied to every input, and the LM head samples every
\* row with the first command's worker's parameters.
Result(c) ==
  CASE input[c.slot] # <<c.worker, batch[1].op>> -> "garbage"
    [] /\ batch[1].op = LastOp
       /\ sampling[batch[1].worker] # req[c.worker] -> "missampled"
    [] OTHER -> "fresh"

OwnersUnchecked == TRUE  \* mutant of OwnersMatch

\* VERIFY_SLOT_OWNER of every command of the batch.
OwnersMatch ==
  \A i \in 1 .. Len(batch) : owner[batch[i].slot] = batch[i].worker

VerifyOwners ==
  /\ agg_pc = "fetch"
  /\ Len(batch) >= Cardinality(active_mask)
  /\ OwnersMatch
  /\ agg_pc' = "compute"
  /\ UNCHANGED <<pool, buffers, masks, pending_sampling, ring, quit_flag,
                 active_mask, op_idx, batch, sampling, engine>>

\* Compute and stream sync. The connection threads run meanwhile: a slot may
\* change hands between the owner check and this.
Execute ==
  /\ agg_pc = "compute"
  /\ output' = [s \in Slots |->
       IF \E i \in 1 .. Len(batch) : batch[i].slot = s
       THEN Result(CHOOSE c \in {batch[i] : i \in 1 .. Len(batch)} : c.slot = s)
       ELSE output[s]]
  /\ agg_pc' = "signal"
  /\ UNCHANGED <<pool, input, masks, pending_sampling, ring, quit_flag,
                 active_mask, op_idx, batch, sampling, engine>>

\* VERIFY_SLOT_OWNER throws out of the main loop; run() ends and shutdown()
\* sets quit_flag.
OwnerMismatch ==
  /\ agg_pc = "fetch"
  /\ Len(batch) >= Cardinality(active_mask)
  /\ ~OwnersMatch
  /\ quit_flag' = TRUE
  /\ agg_pc' = "down"
  /\ UNCHANGED <<pool, buffers, masks, pending_sampling, ring, active_mask,
                 op_idx, batch, sampling, engine>>

\* Signal, and on to the next op or, after the last, to phase 1.
Signal ==
  /\ agg_pc = "signal"
  /\ SignalDone
  /\ op_idx' = IF op_idx = LastOp THEN 0 ELSE op_idx + 1
  /\ agg_pc' = IF op_idx = LastOp THEN "leaves" ELSE "wait"
  /\ batch' = <<>>
  /\ UNCHANGED <<pool, buffers, active_slot_mask, pending_joins, pending_leaves,
                 evicted_mask, pending_sampling, ring, quit_flag, active_mask,
                 sampling, wpc, wslot, wop, req>>

Aggregator ==
  \/ TakeLeaves \/ TakeJoins \/ AllReady \/ MidOpLeave \/ EvictStuck
  \/ FetchOne \/ SpinOut \/ VerifyOwners \/ OwnerMismatch \/ Execute \/ Signal
----------------------------------------------------------------------------
(* A worker's engine: claiming a slot and joining the barrier. *)

\* claim_slot: the ready and evicted bits that a prior tenant left.
ScrubNothing(s) == UNCHANGED <<ready_mask, evicted_mask>>  \* mutant

Scrub(s) ==
  /\ ready_mask' = ready_mask \ {s}
  /\ evicted_mask' = evicted_mask \ {s}

\* claim_slot: the lowest free slot, scrubbed. The request's sampling
\* parameters come with it.
Claim(w) ==
  /\ Goto(w, "idle", "claimed")
  /\ agg_pc # "down"
  /\ \E s \in free_mask :
       /\ \A t \in free_mask : s <= t
       /\ free_mask' = free_mask \ {s}
       /\ owner' = [owner EXCEPT ![s] = w]
       /\ Scrub(s)
       /\ wslot' = [wslot EXCEPT ![w] = s]
  /\ \E p \in Params : req' = [req EXCEPT ![w] = p]
  /\ UNCHANGED <<buffers, active_slot_mask, pending_joins, pending_leaves,
                 pending_sampling, ring, quit_flag, main, wop, epoch_moved>>

\* claim_slot throws "No free slots available", or the connection is gone.
ClaimRefused(w) ==
  /\ wpc[w] = "idle"
  /\ free_mask = {} \/ agg_pc = "down"
  /\ UNCHANGED vars

\* _accept_pending_requests: tokenize, set the sampling state out of band.
AcceptRequest(w) ==
  /\ Goto(w, "claimed", "pending")
  /\ pending_sampling' = [pending_sampling EXCEPT ![wslot[w]] = req[w]]
  /\ UNCHANGED <<pool, buffers, masks, ring, quit_flag, main, wslot, wop, req,
                 epoch_moved>>

\* _accept_pending_requests: an exception after the claim fails the request
\* and forgets the slot without releasing it.
AcceptRaises(w) ==
  /\ Hit(w, "accept")
  /\ Goto(w, "claimed", "idle")
  /\ wslot' = [wslot EXCEPT ![w] = NoSlot]
  /\ UNCHANGED <<pool, buffers, masks, pending_sampling, ring, quit_flag, main,
                 wop, req, epoch_moved>>

SignalJoin(w) ==
  /\ Goto(w, "pending", "joining")
  /\ pending_joins' = pending_joins \union {wslot[w]}
  /\ UNCHANGED <<pool, buffers, active_slot_mask, pending_leaves, ready_mask,
                 evicted_mask, pending_sampling, ring, quit_flag, main, wslot,
                 wop, req, epoch_moved>>

Activated(w) ==
  /\ wslot[w] \in active_slot_mask
  /\ Goto(w, "joining", "token")
  /\ UNCHANGED <<pool, buffers, masks, pending_sampling, ring, quit_flag, main,
                 wslot, wop, req, epoch_moved>>

\* _SLOT_ACTIVATION_TIMEOUT, 30 s: leave and release, with nothing to wait for.
\* It expires when the join has been used up and the slot is out again, or
\* when nobody takes the joins any more, and else only late.
Unactivated(w) == agg_pc = "down" \/ wslot[w] \notin pending_joins

ActivationTimeout(w) ==
  /\ Unactivated(w) \/ Hit(w, "late")
  /\ wslot[w] \notin active_slot_mask
  /\ Goto(w, "joining", "releasing")
  /\ SignalLeave(wslot[w])
  /\ UNCHANGED <<pool, buffers, active_slot_mask, pending_joins, ready_mask,
                 evicted_mask, pending_sampling, ring, quit_flag, main, wslot,
                 wop, req, epoch_moved>>
----------------------------------------------------------------------------
(* A worker's engine: one token. *)

\* _generate_one_token_all: the eviction check, made once per token.
BeginToken(w) ==
  /\ wslot[w] \notin evicted_mask
  /\ Goto(w, "token", "prepare")
  /\ wop' = [wop EXCEPT ![w] = 0]
  /\ UNCHANGED <<pool, buffers, masks, pending_sampling, ring, quit_flag, main,
                 wslot, req, epoch_moved>>

\* The same check on an evicted slot: clear the bit, _teardown_slot.
AbortEvicted(w) ==
  /\ wslot[w] \in evicted_mask
  /\ Goto(w, "token", "releasing")
  /\ evicted_mask' = evicted_mask \ {wslot[w]}
  /\ SignalLeave(wslot[w])
  /\ UNCHANGED <<pool, buffers, active_slot_mask, pending_joins, ready_mask,
                 pending_sampling, ring, quit_flag, main, wslot, wop, req,
                 epoch_moved>>

\* *_submit_all: read the epoch, write the input buffer.
Prepare(w) ==
  /\ Goto(w, "prepare", "submit")
  /\ epoch_moved' = [epoch_moved EXCEPT ![w] = FALSE]
  /\ input' = [input EXCEPT ![wslot[w]] = <<w, wop[w]>>]
  /\ output' = [output EXCEPT ![wslot[w]] = "stale"]
  /\ UNCHANGED <<pool, masks, pending_sampling, ring, quit_flag, main, wslot,
                 wop, req>>

\* submit_slot_command: the CAS on head reserves an entry ...
Submit(w) ==
  /\ Len(ring) < Capacity - 1
  /\ Goto(w, "submit", "publish")
  /\ ring' = Append(ring, [slot |-> wslot[w], worker |-> w, op |-> wop[w],
                           ready |-> FALSE])
  /\ UNCHANGED <<pool, buffers, masks, pending_sampling, quit_flag, main, wslot,
                 wop, req, epoch_moved>>

\* ... and the store to its ready flag publishes it.
Publish(w) ==
  /\ Goto(w, "publish", "ready")
  /\ ring' = [i \in 1 .. Len(ring) |->
                [ring[i] EXCEPT !.ready = @ \/ ring[i].worker = w]]
  /\ UNCHANGED <<pool, buffers, masks, pending_sampling, quit_flag, main, wslot,
                 wop, req, epoch_moved>>

SignalReady(w) ==
  /\ Goto(w, "ready", "wait")
  /\ ready_mask' = ready_mask \union {wslot[w]}
  /\ UNCHANGED <<pool, buffers, active_slot_mask, pending_joins, pending_leaves,
                 evicted_mask, pending_sampling, ring, quit_flag, main, wslot,
                 wop, req, epoch_moved>>

\* wait_for_epoch returns.
WaitForEpoch(w) ==
  /\ epoch_moved[w]
  /\ Goto(w, "wait", "get")
  /\ UNCHANGED <<pool, buffers, masks, pending_sampling, ring, quit_flag, main,
                 wslot, wop, req, epoch_moved>>

\* Mutant of GetOutput: the op counter does not wrap.
GetOutputNoWrap(w) ==
  /\ Goto(w, "get", IF wop[w] = LastOp THEN "boundary" ELSE "prepare")
  /\ wop' = [wop EXCEPT ![w] = @ + 1]
  /\ UNCHANGED <<pool, buffers, masks, pending_sampling, ring, quit_flag, main,
                 wslot, req, epoch_moved>>

\* *_get_all: read the output buffer, go on to the next op or the boundary.
GetOutput(w) ==
  /\ Goto(w, "get", IF wop[w] = LastOp THEN "boundary" ELSE "prepare")
  /\ wop' = [wop EXCEPT ![w] = IF @ = LastOp THEN 0 ELSE @ + 1]
  /\ UNCHANGED <<pool, buffers, masks, pending_sampling, ring, quit_flag, main,
                 wslot, req, epoch_moved>>

\* The request wants more tokens.
NextToken(w) ==
  /\ Goto(w, "boundary", "token")
  /\ UNCHANGED <<pool, buffers, masks, pending_sampling, ring, quit_flag, main,
                 wslot, wop, req, epoch_moved>>
----------------------------------------------------------------------------
(* A worker's engine: leaving the barrier and giving the slot back. *)

\* _handle_completions: max_tokens or EOS; signal leave, wait for the ack.
Complete(w) ==
  /\ Goto(w, "boundary", "leaving")
  /\ SignalLeave(wslot[w])
  /\ UNCHANGED <<pool, buffers, active_slot_mask, pending_joins, ready_mask,
                 evicted_mask, pending_sampling, ring, quit_flag, main, wslot,
                 wop, req, epoch_moved>>

\* Mutant of LeaveAcked: the slot is given back without the ack.
LeaveUnacked(w) ==
  /\ Goto(w, "leaving", "releasing")
  /\ UNCHANGED <<pool, buffers, masks, pending_sampling, ring, quit_flag, main,
                 wslot, wop, req, epoch_moved>>

\* The ack, or _SLOT_LEAVE_TIMEOUT.
LeaveAcked(w) ==
  /\ \/ wslot[w] \notin active_slot_mask
     \/ Hit(w, "late") \/ agg_pc = "down"
  /\ Goto(w, "leaving", "releasing")
  /\ UNCHANGED <<pool, buffers, masks, pending_sampling, ring, quit_flag, main,
                 wslot, wop, req, epoch_moved>>

\* Mutant of TokenRaises: the exception is swallowed and the op tried again.
TokenRetried(w) ==
  /\ \/ Hit(w, "raise") /\ wpc[w] \in {"token", "prepare", "wait", "get"}
     \/ wpc[w] = "submit" /\ Len(ring) >= Capacity - 1
     \/ wpc[w] = "wait" /\ quit_flag /\ ~epoch_moved[w]
  /\ wpc' = [wpc EXCEPT ![w] = "prepare"]
  /\ UNCHANGED <<pool, buffers, masks, pending_sampling, ring, quit_flag, main,
                 wslot, wop, req, epoch_moved>>

\* The engine throws in mid-token: no KV block is left, the input is written,
\* the command ring is full, the LoRA delta is computed after the ready bit was
\* set, quit_flag is seen in wait_for_epoch, the output is read.
\* _fail_all_active_slots and _teardown_slot signal leave and release at once.
TokenRaises(w) ==
  /\ \/ Hit(w, "raise") /\ wpc[w] \in {"token", "prepare", "wait", "get"}
     \/ wpc[w] = "submit" /\ Len(ring) >= Capacity - 1
     \/ wpc[w] = "wait" /\ quit_flag /\ ~epoch_moved[w]
  /\ wpc' = [wpc EXCEPT ![w] = "releasing"]
  /\ SignalLeave(wslot[w])
  /\ UNCHANGED <<pool, buffers, active_slot_mask, pending_joins, ready_mask,
                 evicted_mask, pending_sampling, ring, quit_flag, main, wslot,
                 wop, req, epoch_moved>>

\* Mutants of ReleaseSlots: the owner is not reset, the input is not zeroed.
ReleaseKeepsOwner(w, slots) ==
  LET mine == {s \in slots : owner[s] = w} IN
  /\ input' = [s \in Slots |-> IF s \in mine THEN <<>> ELSE input[s]]
  /\ output' = [s \in Slots |-> IF s \in mine THEN "zero" ELSE output[s]]
  /\ free_mask' = free_mask \union mine
  /\ UNCHANGED owner

ReleaseKeepsInput(w, slots) ==
  LET mine == {s \in slots : owner[s] = w} IN
  /\ owner' = [s \in Slots |-> IF s \in mine THEN NoWorker ELSE owner[s]]
  /\ output' = [s \in Slots |-> IF s \in mine THEN "zero" ELSE output[s]]
  /\ free_mask' = free_mask \union mine
  /\ UNCHANGED input

\* release_slot on a set of slots: check the owner, zero both buffers, free.
ReleaseSlots(w, slots) ==
  LET mine == {s \in slots : owner[s] = w} IN
  /\ owner' = [s \in Slots |-> IF s \in mine THEN NoWorker ELSE owner[s]]
  /\ input' = [s \in Slots |-> IF s \in mine THEN <<>> ELSE input[s]]
  /\ output' = [s \in Slots |-> IF s \in mine THEN "zero" ELSE output[s]]
  /\ free_mask' = free_mask \union mine

\* release_and_close_by_id: a closed connection only fails the call.
Release(w) ==
  /\ Goto(w, "releasing", "idle")
  /\ wslot' = [wslot EXCEPT ![w] = NoSlot]
  /\ ReleaseSlots(w, IF agg_pc = "down" THEN {} ELSE {wslot[w]})
  /\ UNCHANGED <<masks, pending_sampling, ring, quit_flag, main, wop, req,
                 epoch_moved>>
----------------------------------------------------------------------------
(* Death of a worker, seen by its connection thread in aggregator.py. *)

\* The process is killed, wherever it is. If its join is still pending then, the
\* leave its connection thread signals is taken before the join, not after it.
Die(w) ==
  /\ \/ Hit(w, "die") /\ wslot[w] \notin pending_joins
     \/ Hit(w, "diejoin") /\ wslot[w] \in pending_joins
  /\ wpc[w] \notin {"dead", "draining", "gone"}
  /\ wpc' = [wpc EXCEPT ![w] = "dead"]
  /\ UNCHANGED <<pool, buffers, masks, pending_sampling, ring, quit_flag, main,
                 wslot, wop, req, epoch_moved>>

OwnedActive(w) == {s \in active_slot_mask : owner[s] = w}  \* mutant of Owned

Owned(w) == {s \in Slots : owner[s] = w}

\* _wait_for_done, finally: leave for every slot the worker owns.
ConnectionLost(w) ==
  /\ agg_pc # "down"
  /\ Goto(w, "dead", "draining")
  /\ pending_leaves' = pending_leaves \union Owned(w)
  /\ UNCHANGED <<pool, buffers, active_slot_mask, pending_joins, ready_mask,
                 evicted_mask, pending_sampling, ring, quit_flag, main, wslot,
                 wop, req, epoch_moved>>

\* Mutant of DeferredRelease: the slots are released at once.
ReleaseAtOnce(w) ==
  /\ agg_pc # "down"
  /\ Goto(w, "draining", "gone")
  /\ wslot' = [wslot EXCEPT ![w] = NoSlot]
  /\ ReleaseSlots(w, Owned(w))
  /\ UNCHANGED <<masks, pending_sampling, ring, quit_flag, main, wop, req,
                 epoch_moved>>

\* What the 0.5 s are meant to allow: the leaves have been taken and phase 1 is
\* over. The barrier looks at them every 10 ms, an op takes at most 11 ms; a join
\* waits for the end of the token, which may be later.
Settled(w) == agg_pc # "joins" /\ Owned(w) \intersect pending_leaves = {}

\* _wait_for_done, after time.sleep(0.5). It checks nothing: where the main loop
\* may need longer ("hasty"), the slots are released all the same.
DeferredRelease(w) ==
  /\ agg_pc # "down"
  /\ Settled(w) \/ Hit(w, "hasty")
  /\ Goto(w, "draining", "gone")
  /\ wslot' = [wslot EXCEPT ![w] = NoSlot]
  /\ ReleaseSlots(w, Owned(w))
  /\ UNCHANGED <<masks, pending_sampling, ring, quit_flag, main, wop, req,
                 epoch_moved>>
----------------------------------------------------------------------------
\* What an engine does on its own, without a new request, a fault or the end
\* of the current one.
Step(w) ==
  \/ AcceptRequest(w) \/ SignalJoin(w) \/ Activated(w)
  \/ BeginToken(w) \/ AbortEvicted(w) \/ Prepare(w) \/ Submit(w) \/ Publish(w)
  \/ SignalReady(w) \/ WaitForEpoch(w) \/ GetOutput(w)
  \/ LeaveAcked(w) \/ Release(w) \/ ConnectionLost(w) \/ DeferredRelease(w)

Worker(w) ==
  \/ Step(w)
  \/ Claim(w) \/ ClaimRefused(w) \/ AcceptRaises(w) \/ ActivationTimeout(w)
  \/ NextToken(w) \/ Complete(w) \/ TokenRaises(w) \/ Die(w)

Next == Aggregator \/ \E w \in Workers : Worker(w)

\* The aggregator's thread and each engine thread run for ever; a request has
\* a bounded number of tokens, so it does not take NextToken for ever.
Fairness ==
  /\ WF_vars(Aggregator)
  /\ \A w \in Workers :
       /\ WF_vars(Step(w))
       /\ SF_vars(Complete(w))
       /\ WF_vars(ActivationTimeout(w) /\ Unactivated(w))
       /\ WF_vars(TokenRaises(w) /\ (quit_flag \/ wpc[w] = "submit"))
  /\ \A w \in Shaky : SF_vars(DeferredRelease(w))

Spec == Init /\ [][Next]_vars
FairSpec == Spec /\ Fairness
----------------------------------------------------------------------------
TypeOK ==
  /\ free_mask \subseteq Slots
  /\ owner \in [Slots -> Workers \union {NoWorker}]
  /\ input \in [Slots -> {<<>>} \union (Workers \X Ops)]
  /\ output \in [Slots -> Contents]
  /\ active_slot_mask \subseteq Slots
  /\ pending_joins \subseteq Slots
  /\ pending_leaves \subseteq Slots
  /\ ready_mask \subseteq Slots
  /\ evicted_mask \subseteq Slots
  /\ pending_sampling \in [Slots -> Params \union {NoParams}]
  /\ ring \in Seq(Command)
  /\ quit_flag \in BOOLEAN
  /\ agg_pc \in AggPC
  /\ active_mask \subseteq Slots
  /\ op_idx \in Ops
  /\ batch \in Seq(Command)
  /\ sampling \in [Workers -> Params \union {NoParams}]
  /\ wpc \in [Workers -> WorkerPC]
  /\ wslot \in [Workers -> Slots \union {NoSlot}]
  /\ wop \in [Workers -> Ops]
  /\ req \in [Workers -> Params]
  /\ epoch_moved \in [Workers -> BOOLEAN]
----------------------------------------------------------------------------
(* What the slot pool promises, whatever fails. *)

\* A slot is free exactly when nobody owns it, and an engine that holds a slot
\* owns it, so two engines never hold the same one: claim_slot and release_slot
\* agree on owner_worker_id and free_mask through evictions, deaths and leaks.
SlotExclusive ==
  /\ \A s \in Slots : s \in free_mask <=> owner[s] = NoWorker
  /\ \A w \in Workers : wslot[w] # NoSlot => owner[wslot[w]] = w

\* A slot's input buffer never holds what anybody but its present owner wrote:
\* release_slot zeroes it before the slot can be claimed.
NoForeignInput == \A s \in Slots : input[s] # <<>> => input[s][1] = owner[s]

\* The ready bit of a held slot stands for an input that its holder wrote, so
\* no GEMM runs on an un-written input (the reason claim_slot scrubs the bit).
ReadyMeansWritten ==
  \A w \in Workers :
    wslot[w] # NoSlot /\ wslot[w] \in ready_mask => input[wslot[w]] # <<>>

\* A slot that was given back holds no output of its last owner, and no kernel
\* writes one afterwards (release_slot, the deferred release of aggregator.py).
FreedSlotsZero ==
  \A s \in Slots : owner[s] = NoWorker => input[s] = <<>> /\ output[s] = "zero"
----------------------------------------------------------------------------
(* The lock step. *)

\* All commands of a batch are for the op the main loop is at, one per slot:
\* the kernels apply op_type and layer_idx of commands[0] to every row.
BatchInStep ==
  /\ \A i, j \in DOMAIN batch : i # j => batch[i].slot # batch[j].slot
  /\ \A i \in DOMAIN batch : batch[i].op = op_idx

\* The batch is in step, and an engine in the middle of an op is in the active
\* set and at the aggregator's op, until the epoch moves; then it is exactly one
\* op behind.
LockStep ==
  /\ BatchInStep
  /\ \A w \in Workers :
       LET waiting == wpc[w] = "wait" /\ ~epoch_moved[w]
           answered == wpc[w] = "wait" /\ epoch_moved[w] IN
       /\ wpc[w] \in {"prepare", "submit", "publish", "ready"} \/ waiting =>
            wslot[w] \in active_mask /\ wop[w] = op_idx
       /\ wpc[w] = "get" \/ answered => op_idx = (wop[w] + 1) % (LastOp + 1)

\* What an engine reads was computed from the input it wrote for this op.
ReadsFresh(w) == wpc[w] = "get" => output[wslot[w]] \in {"fresh", "missampled"}

\* The engines no fault hits read it, whatever happens to the others, for as long
\* as the main loop runs.
SurvivorsReadFresh ==
  agg_pc # "down" => \A w \in Workers \ Shaky : ReadsFresh(w)

\* For as long as the main loop runs, the ring has room whenever an engine is
\* about to submit, so that submit_slot_command does not throw "command ring
\* buffer FULL", with the entries in it that dead workers left for nobody to take.
RingHasRoom ==
  agg_pc # "down" /\ (\E w \in Workers : wpc[w] = "submit")
    => Len(ring) < Capacity - 1
----------------------------------------------------------------------------
(* Progress. *)

\* An accepted request comes to its end and its worker is free again, unless it
\* is killed: whatever happens to the others, and after the main loop has ended.
RequestsFinish ==
  \A w \in Workers : wpc[w] = "pending" ~> wpc[w] \in {"idle", "dead"}

\* The slots of a killed worker are taken back (_wait_for_done).
DeadSlotsReclaimed ==
  \A w \in Shaky :
    wpc[w] = "dead" ~> (\A s \in Slots : owner[s] # w) \/ agg_pc = "down"
----------------------------------------------------------------------------
(* What comments of the code say and what does not hold: README, Findings. *)

\* The main loop does not end: neither an owner mismatch nor a command that
\* never comes (README: no tenant's fault brings the process down).
AggregatorUp == agg_pc # "down"

\* A fetched batch holds commands of the present owners of its slots: what a slot
\* that is out left in the ring was discarded (the comment above the fetch).
DanglingDiscarded ==
  agg_pc = "fetch" /\ Len(batch) >= Cardinality(active_mask) => OwnersMatch

\* _generate_one_token_all: a stuck-then-recovered worker does not read stale
\* output buffers.
NoStaleRead == \A w \in Workers : wpc[w] = "get" => output[wslot[w]] # "stale"

\* WorkerSamplingState is per worker: a token is sampled with the parameters of
\* the request it belongs to.
SampledAsRequested ==
  \A w \in Workers : wpc[w] = "get" => output[wslot[w]] # "missampled"
============================================================================
