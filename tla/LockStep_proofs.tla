-------------------------- MODULE LockStep_proofs --------------------------
(***************************************************************************)
(* Proofs about the lock step of SlotBarrier: what the main loop, the ring *)
(* and the engines agree on when nothing happens but that workers may be   *)
(* killed, for every number of workers, slots, ops and deaths.             *)
(***************************************************************************)
EXTENDS SlotBarrier_proofs, FiniteSetTheorems

\* The only fault is the death of a worker that has no join pending.
OnlyDeaths == \A w \in Workers : \A f \in FaultKinds : Hit(w, f) => f = "die"

\* QUEUE_CAPACITY (512, config.py:30) leaves room for a command of every slot
\* (MAX_SLOTS is 128, ipc_types.h:16) and for one that each dead worker left.
RoomForAll == IsFiniteSet(Shaky) /\ Capacity > NumSlots + Cardinality(Shaky)
----------------------------------------------------------------------------
(* Where an engine is in an op. *)

Waiting(w) == wpc[w] = "wait" /\ ~epoch_moved[w]
Answered(w) == wpc[w] = "get" \/ (wpc[w] = "wait" /\ epoch_moved[w])

\* Its input is written; its command is in the ring or the batch.
Written(w) == wpc[w] \in {"submit", "publish", "ready"} \/ Waiting(w)
Posted(w) == wpc[w] \in {"publish", "ready"} \/ Waiting(w)
InOp(w) == wpc[w] = "prepare" \/ Written(w)

\* It stands before the first op of a token, or it takes part in one.
AtBoundary(w) == wpc[w] \in {"token", "boundary"}
Running(w) == AtBoundary(w) \/ InOp(w) \/ Answered(w)

Killed == {"dead", "draining"}
Computing == {"fetch", "compute", "signal"}
Up == agg_pc # "down"
----------------------------------------------------------------------------
(* The invariant. *)

\* The main loop: the published mask lags behind only between leaves and joins,
\* the ready bits stay until the op is done, and phase 1 begins a token.
MainOK ==
  /\ ~quit_flag
  /\ active_mask \subseteq active_slot_mask
  /\ agg_pc # "joins" => active_slot_mask = active_mask
  /\ agg_pc \in Computing => active_mask \subseteq ready_mask
  /\ agg_pc \in {"leaves", "joins"} => active_mask = {} \/ op_idx = 0
  /\ agg_pc \notin Computing => batch = <<>>

\* Only slots with an owner are in the barrier, and an owner knows its slot.
OwnedOK ==
  \A s \in Slots :
    IF owner[s] = NoWorker
    THEN s \notin active_slot_mask \union pending_joins \union pending_leaves
    ELSE wslot[owner[s]] = s

\* Where its slot is in the barrier, for each place an engine can be at.
TenantOK(w) ==
  LET s == wslot[w] IN
  /\ wpc[w] \in {"idle", "gone"} => s = NoSlot
  /\ wpc[w] \in {"claimed", "pending"} =>
       s \notin active_slot_mask \union pending_joins \union pending_leaves
                  \union ready_mask \union evicted_mask
  /\ wpc[w] = "joining" =>
       /\ s \notin pending_leaves \union ready_mask \union evicted_mask
       /\ s \in pending_joins <=> s \notin active_slot_mask
       /\ s \in active_slot_mask => s \in active_mask
  /\ Running(w) =>
       /\ s \in active_mask
       /\ s \notin pending_joins \union pending_leaves \union evicted_mask
  /\ wpc[w] = "leaving" =>
       /\ s \notin pending_joins \union ready_mask
       /\ s \in pending_leaves <=> s \in active_mask
  /\ wpc[w] = "releasing" =>
       s \notin active_slot_mask \union pending_joins \union pending_leaves
  /\ wpc[w] \in Killed => s \notin pending_joins
  /\ wpc[w] \in Killed \union {"gone"} => w \in Shaky
  /\ wpc[w] = "draining" /\ s \in active_mask => s \in pending_leaves

\* The op an engine is at, and its ready bit.
InStep(w) ==
  /\ wpc[w] \in {"submit", "publish", "ready"} => ~epoch_moved[w]
  /\ InOp(w) => wop[w] = op_idx
  /\ Answered(w) => op_idx = (wop[w] + 1) % (LastOp + 1)
  /\ AtBoundary(w) \/ (wpc[w] = "joining" /\ wslot[w] \in active_mask) => op_idx = 0
  /\ Running(w) => (wslot[w] \in ready_mask <=> Waiting(w))

\* A command in the ring or the batch: it names the slot of its worker, if that
\* has one left, and, while the slot is active, the op the main loop is at. An
\* engine that is alive has a command out only within an op.
CommandOK(c) ==
  /\ wpc[c.worker] # "gone" =>
       /\ c.slot = wslot[c.worker]
       /\ c.slot \in active_mask => c.op = op_idx
  /\ wpc[c.worker] \notin Killed \union {"gone"} =>
       /\ Posted(c.worker)
       /\ c.ready \/ wpc[c.worker] = "publish"

\* Nobody has two commands out.
OneEach ==
  /\ \A i, j \in DOMAIN ring : i # j => ring[i].worker # ring[j].worker
  /\ \A i, j \in DOMAIN batch : i # j => batch[i].worker # batch[j].worker
  /\ \A i \in DOMAIN ring, j \in DOMAIN batch : ring[i].worker # batch[j].worker

CommandsOK ==
  /\ OneEach
  /\ \A i \in DOMAIN ring : CommandOK(ring[i])
  /\ \A i \in DOMAIN batch :
       CommandOK(batch[i]) /\ batch[i].slot \in active_mask /\ batch[i].ready

\* A batch that is being executed holds one command of the owner of each active
\* slot.
BatchOK ==
  agg_pc \in {"compute", "signal"} =>
    /\ \A i \in DOMAIN batch : owner[batch[i].slot] = batch[i].worker
    /\ \A s \in active_mask : \E i \in DOMAIN batch : batch[i].slot = s

\* What an engine wrote is what its op needs, and what it reads was computed
\* from it.
Usable == {"fresh", "missampled"}
FreshOK(w) ==
  /\ Written(w) => input[wslot[w]] = <<w, wop[w]>>
  /\ Answered(w) \/ (agg_pc = "signal" /\ Waiting(w)) => output[wslot[w]] \in Usable

EnginesOK == \A w \in Workers : TenantOK(w) /\ InStep(w) /\ FreshOK(w)

BarrierOK == MainOK /\ OwnedOK /\ EnginesOK /\ CommandsOK /\ BatchOK

DInv == IInv /\ FreedSlotsZero /\ (Up => BarrierOK)
----------------------------------------------------------------------------
(* One engine's step leaves the rest of the barrier alone. *)

\* A step of w that touches no slot but x and nothing of the main loop.
OwnStep(w, x) ==
  /\ UNCHANGED <<agg_pc, active_mask, active_slot_mask, op_idx, batch, quit_flag>>
  /\ \A v \in Workers \ {w} :
       /\ wpc'[v] = wpc[v] /\ wslot'[v] = wslot[v]
       /\ wop'[v] = wop[v] /\ epoch_moved'[v] = epoch_moved[v]
  /\ \A s \in Slots : s # x =>
       /\ s \in pending_joins' <=> s \in pending_joins
       /\ s \in pending_leaves' <=> s \in pending_leaves
       /\ s \in ready_mask' <=> s \in ready_mask
       /\ s \in evicted_mask' <=> s \in evicted_mask
       /\ owner'[s] = owner[s] /\ input'[s] = input[s] /\ output'[s] = output[s]

\* NoSlot is not a slot.
LEMMA NoSlotIsNone == NoSlot \notin Slots
  BY ConstantsOK DEF ConstantsOK, Slots, NoSlot

\* An engine within a token holds a slot.
LEMMA RunningHolds ==
  ASSUME IInv, NEW w \in Workers,
         Running(w) \/ wpc[w] \in {"claimed", "pending", "joining", "leaving", "releasing"}
  PROVE  wslot[w] \in Slots /\ wslot[w] # NoSlot /\ owner[wslot[w]] = w
<1>1. wpc[w] \in Busy
  BY DEF IInv, TypeOK, Running, AtBoundary, InOp, Answered, Written, Waiting, Busy, WorkerPC
<1>2. wslot[w] \in Slots
  BY <1>1 DEF IInv, PoolInv, HoldsSlot
<1>3. QED
  BY <1>2, NoSlotIsNone DEF IInv, PoolInv, SlotExclusive

\* What holds of an engine does not change by the step of another one.
LEMMA OthersKeep ==
  ASSUME IInv, IInv', EnginesOK, NEW w \in Workers, NEW x, OwnStep(w, x),
         \A v \in Workers \ {w} : wslot[v] = x => x = NoSlot
  PROVE  \A v \in Workers \ {w} : TenantOK(v)' /\ InStep(v)' /\ FreshOK(v)'
<1> SUFFICES ASSUME NEW v \in Workers \ {w}
             PROVE  TenantOK(v)' /\ InStep(v)' /\ FreshOK(v)'
  OBVIOUS
<1> DEFINE s == wslot[v]
<1>1. (s \in Slots /\ s # x) \/ s = NoSlot
  BY NoSlotIsNone DEF IInv, TypeOK
<1>2. /\ wpc'[v] = wpc[v] /\ wslot'[v] = s
      /\ wop'[v] = wop[v] /\ epoch_moved'[v] = epoch_moved[v]
  BY DEF OwnStep
<1>3. /\ s \in pending_joins' <=> s \in pending_joins
      /\ s \in pending_leaves' <=> s \in pending_leaves
      /\ s \in ready_mask' <=> s \in ready_mask
      /\ s \in evicted_mask' <=> s \in evicted_mask
  <2>1. CASE s = NoSlot
    BY <2>1, NoSlotIsNone DEF IInv, TypeOK
  <2>2. CASE s \in Slots /\ s # x
    BY <2>2 DEF OwnStep
  <2>3. QED
    BY <1>1, <2>1, <2>2
<1>4. UNCHANGED <<agg_pc, active_mask, active_slot_mask, op_idx>>
  BY DEF OwnStep
<1>5. /\ Waiting(v)' <=> Waiting(v)
      /\ Answered(v)' <=> Answered(v)
      /\ Written(v)' <=> Written(v)
      /\ InOp(v)' <=> InOp(v)
      /\ AtBoundary(v)' <=> AtBoundary(v)
      /\ Running(v)' <=> Running(v)
  BY <1>2 DEF Waiting, Answered, Written, InOp, AtBoundary, Running
<1>6. TenantOK(v)'
  BY <1>2, <1>3, <1>4, <1>5 DEF EnginesOK, TenantOK
<1>7. InStep(v)'
  BY <1>2, <1>3, <1>4, <1>5 DEF EnginesOK, InStep
<1>8. FreshOK(v)'
  <2>1. ASSUME Written(v) \/ Answered(v) \/ Waiting(v)
        PROVE  input'[s] = input[s] /\ output'[s] = output[s]
    <3>1. s \in Slots
      BY <2>1, RunningHolds DEF Running, InOp, Written
    <3>2. QED
      BY <3>1, <1>1, NoSlotIsNone DEF OwnStep
  <2>2. QED
    BY <1>2, <1>4, <1>5, <2>1 DEF EnginesOK, FreshOK
<1>9. QED
  BY <1>6, <1>7, <1>8

\* Nor does what holds of the main loop, if an active slot keeps its owner and
\* its ready bit.
LEMMA MainKeeps ==
  ASSUME IInv, BarrierOK, NEW w \in Workers, NEW x, OwnStep(w, x),
         x \in active_mask => owner' = owner /\ ready_mask \subseteq ready_mask'
  PROVE  MainOK' /\ BatchOK'
<1>1. UNCHANGED <<agg_pc, active_mask, active_slot_mask, op_idx, batch, quit_flag>>
  BY DEF OwnStep
<1>2. agg_pc \in Computing => active_mask \subseteq ready_mask'
  <2>1. ASSUME agg_pc \in Computing, NEW s \in active_mask PROVE s \in ready_mask'
    <3>1. s \in ready_mask /\ s \in Slots
      BY <2>1 DEF BarrierOK, MainOK, IInv, TypeOK
    <3>2. QED
      BY <2>1, <3>1 DEF OwnStep
  <2>2. QED
    BY <2>1
<1>3. MainOK'
  BY <1>1, <1>2 DEF BarrierOK, MainOK
<1>4. \A i \in DOMAIN batch : owner'[batch[i].slot] = owner[batch[i].slot]
  <2>1. ASSUME NEW i \in DOMAIN batch
        PROVE  owner'[batch[i].slot] = owner[batch[i].slot]
    <3>1. batch[i].slot \in active_mask /\ batch[i].slot \in Slots
      BY DEF BarrierOK, CommandsOK, IInv, TypeOK
    <3>2. QED
      BY <3>1 DEF OwnStep
  <2>2. QED
    BY <2>1
<1>5. BatchOK'
  BY <1>1, <1>4 DEF BarrierOK, BatchOK
<1>6. QED
  BY <1>3, <1>5

\* Who owns what, if no slot changes hands.
LEMMA OwnedKeeps ==
  ASSUME IInv, OwnedOK, NEW w \in Workers, OwnStep(w, wslot[w]),
         UNCHANGED <<owner, wslot>>
  PROVE  OwnedOK'
<1> SUFFICES ASSUME NEW s \in Slots
             PROVE  IF owner[s] = NoWorker
                    THEN s \notin active_slot_mask' \union pending_joins'
                                    \union pending_leaves'
                    ELSE wslot[owner[s]] = s
  BY DEF OwnedOK
<1>1. CASE owner[s] # NoWorker
  BY <1>1 DEF OwnedOK
<1>2. CASE owner[s] = NoWorker
  <2>1. s # wslot[w]
    BY <1>2, NoSlotIsNone, ConstantsOK DEF IInv, PoolInv, SlotExclusive, ConstantsOK
  <2>2. QED
    BY <1>2, <2>1 DEF OwnedOK, OwnStep
<1>3. QED
  BY <1>1, <1>2

\* An engine that is alive and not within an op has no command out.
LEMMA SilentHasNone ==
  ASSUME NEW c, CommandOK(c), wpc[c.worker] \notin Killed \union {"gone"}
  PROVE  Posted(c.worker)
  BY DEF CommandOK

\* The commands of the others, and of w if the step keeps them.
LEMMA CommandsKeep ==
  ASSUME IInv, CommandsOK, NEW w \in Workers, NEW x, OwnStep(w, x),
         UNCHANGED ring,
         \A c \in Command : CommandOK(c) /\ c.worker = w => CommandOK(c)'
  PROVE  CommandsOK'
<1>1. UNCHANGED <<active_mask, op_idx, batch>>
  BY DEF OwnStep
<1>2. ASSUME NEW c \in Command, CommandOK(c) PROVE CommandOK(c)'
  <2>1. CASE c.worker = w
    BY <1>2, <2>1
  <2>2. CASE c.worker # w
    <3>1. c.worker \in Workers \ {w}
      BY <2>2 DEF Command
    <3>2. /\ wpc'[c.worker] = wpc[c.worker] /\ wslot'[c.worker] = wslot[c.worker]
          /\ epoch_moved'[c.worker] = epoch_moved[c.worker]
      BY <3>1 DEF OwnStep
    <3>3. QED
      BY <1>1, <1>2, <3>2 DEF CommandOK, Posted, Waiting
  <2>3. QED
    BY <2>1, <2>2
<1>3. /\ \A i \in DOMAIN ring : ring[i] \in Command
      /\ \A i \in DOMAIN batch : batch[i] \in Command
  BY DEF IInv, TypeOK
<1>4. OneEach'
  BY <1>1 DEF CommandsOK, OneEach
<1>5. QED
  BY <1>1, <1>2, <1>3, <1>4 DEF CommandsOK

\* An engine's step that moves nothing but its own place, the marks of its slot
\* and its buffers keeps the barrier, if it keeps what concerns itself.
LEMMA StepKeeps ==
  ASSUME IInv, IInv', BarrierOK, NEW w \in Workers, OwnStep(w, wslot[w]),
         UNCHANGED <<owner, wslot, ring>>,
         wslot[w] \in active_mask => ready_mask \subseteq ready_mask',
         \A c \in Command : CommandOK(c) /\ c.worker = w => CommandOK(c)',
         TenantOK(w)', InStep(w)', FreshOK(w)'
  PROVE  BarrierOK'
<1>1. \A v \in Workers \ {w} : wslot[v] = wslot[w] => wslot[w] = NoSlot
  BY DEF IInv, PoolInv, SlotExclusive
<1>2. EnginesOK'
  BY <1>1, OthersKeep DEF EnginesOK, BarrierOK
<1>3. MainOK' /\ BatchOK'
  BY MainKeeps
<1>4. OwnedOK'
  BY OwnedKeeps DEF BarrierOK
<1>5. CommandsOK'
  BY CommandsKeep DEF BarrierOK
<1>6. QED
  BY <1>2, <1>3, <1>4, <1>5 DEF BarrierOK

\* The step of an engine that has no command out, before or after it.
LEMMA SilentStepKeeps ==
  ASSUME IInv, IInv', BarrierOK, NEW w \in Workers, OwnStep(w, wslot[w]),
         UNCHANGED <<owner, wslot, ring, ready_mask>>,
         ~Posted(w), wpc[w] \notin Killed \union {"gone"},
         TenantOK(w)', InStep(w)', FreshOK(w)'
  PROVE  BarrierOK'
<1>1. \A c \in Command : CommandOK(c) /\ c.worker = w => CommandOK(c)'
  BY SilentHasNone
<1>2. QED
  BY <1>1, StepKeeps
----------------------------------------------------------------------------
(* The steps of an engine. *)

\* What the next lemmas are about: a reachable state in which the main loop runs,
\* and one before it that was as it should be.
Good == IInv /\ IInv' /\ BarrierOK /\ Up

\* The slot is claimed and not in the barrier yet.
LEMMA JoinSteps ==
  ASSUME Good, NEW w \in Workers,
         AcceptRequest(w) \/ SignalJoin(w) \/ Activated(w)
  PROVE  BarrierOK'
<1> USE DEF Good
<1> DEFINE s == wslot[w]
<1>1. wpc[w] \in {"claimed", "pending", "joining"}
  BY DEF AcceptRequest, SignalJoin, Activated, Goto
<1>2. s \in Slots /\ s # NoSlot /\ owner[s] = w
  BY <1>1, RunningHolds
<1>3. TenantOK(w) /\ InStep(w) /\ FreshOK(w)
  BY DEF BarrierOK, EnginesOK
<1>4. /\ OwnStep(w, s)
      /\ UNCHANGED <<owner, wslot, ring, ready_mask>>
      /\ wpc'[w] \in {"pending", "joining", "token"}
      /\ wpc'[w] = "pending" => wpc[w] = "claimed"
      /\ UNCHANGED <<pending_leaves, evicted_mask, active_mask, active_slot_mask, op_idx>>
  BY <1>1 DEF AcceptRequest, SignalJoin, Activated, Goto, OwnStep, pool, buffers, masks, main, IInv, TypeOK
<1>5. /\ wpc[w] = "claimed" => wpc'[w] = "pending" /\ UNCHANGED pending_joins
      /\ wpc[w] = "pending" => wpc'[w] = "joining" /\ pending_joins' = pending_joins \union {s}
      /\ wpc[w] = "joining" =>
           wpc'[w] = "token" /\ UNCHANGED pending_joins /\ s \in active_slot_mask
  BY DEF AcceptRequest, SignalJoin, Activated, Goto, masks, IInv, TypeOK
<1>6. TenantOK(w)'
  BY <1>1, <1>2, <1>3, <1>4, <1>5 DEF TenantOK, Running, AtBoundary, InOp, Answered, Written, Waiting, Killed
<1>7. InStep(w)'
  BY <1>1, <1>2, <1>3, <1>4, <1>5 DEF TenantOK, InStep, Running, AtBoundary, InOp, Answered, Written, Waiting, BarrierOK, MainOK
<1>8. FreshOK(w)'
  BY <1>4 DEF FreshOK, Answered, Written, Waiting
<1>9. ~Posted(w)
  BY <1>1 DEF Posted, Waiting
<1>10. QED
  BY <1>1, <1>4, <1>6, <1>7, <1>8, <1>9, SilentStepKeeps DEF Killed

\* The op after wop: the next one, or the first of the next token.
LEMMA NextOp ==
  ASSUME NEW k \in Ops
  PROVE  (k + 1) % (LastOp + 1) = (IF k = LastOp THEN 0 ELSE k + 1)
<1>1. k \in Nat /\ LastOp \in Nat /\ k <= LastOp
  BY ConstantsOK DEF ConstantsOK, Ops
<1>2. CASE k = LastOp
  BY <1>1, <1>2
<1>3. CASE k < LastOp
  BY <1>1, <1>3
<1>4. QED
  BY <1>1, <1>2, <1>3

\* The steps between the ops of an engine, none of which has a command out.
LEMMA BoundarySteps ==
  ASSUME Good, NEW w \in Workers, BeginToken(w) \/ NextToken(w)
  PROVE  BarrierOK'
<1> USE DEF Good
<1>1. wpc[w] \in {"token", "boundary"} /\ wpc'[w] \in {"prepare", "token"}
  BY DEF BeginToken, NextToken, Goto, IInv, TypeOK
<1>2. wslot[w] \in Slots /\ wslot[w] # NoSlot /\ owner[wslot[w]] = w
  BY <1>1, RunningHolds DEF Running, AtBoundary
<1>3. TenantOK(w) /\ InStep(w) /\ FreshOK(w)
  BY DEF BarrierOK, EnginesOK
<1>4. /\ OwnStep(w, wslot[w])
      /\ UNCHANGED <<owner, wslot, ring, masks, active_mask, op_idx>>
      /\ wpc'[w] = "prepare" => wop'[w] = 0
  BY <1>1 DEF BeginToken, NextToken, Goto, OwnStep, pool, buffers, masks, main, IInv, TypeOK
<1>5. TenantOK(w)'
  BY <1>1, <1>2, <1>3, <1>4 DEF TenantOK, Running, AtBoundary, InOp, Answered, Written, Waiting, Killed, masks
<1>6. InStep(w)'
  BY <1>1, <1>3, <1>4 DEF InStep, Running, AtBoundary, InOp, Answered, Written, Waiting, masks
<1>7. FreshOK(w)'
  BY <1>1 DEF FreshOK, Answered, Written, Waiting
<1>8. ~Posted(w) /\ wpc[w] \notin Killed \union {"gone"}
  BY <1>1 DEF Posted, Waiting, Killed
<1>9. QED
  BY <1>4, <1>5, <1>6, <1>7, <1>8, SilentStepKeeps DEF masks

\* The epoch is read and the input written, for the op the main loop is at.
LEMMA PrepareStep ==
  ASSUME Good, NEW w \in Workers, Prepare(w)
  PROVE  BarrierOK'
<1> USE DEF Good
<1>1. wpc[w] = "prepare" /\ wpc'[w] = "submit"
  BY DEF Prepare, Goto, IInv, TypeOK
<1>2. wslot[w] \in Slots /\ wslot[w] # NoSlot /\ owner[wslot[w]] = w
  BY <1>1, RunningHolds DEF Running, InOp
<1>3. TenantOK(w) /\ InStep(w) /\ FreshOK(w)
  BY DEF BarrierOK, EnginesOK
<1>4. /\ OwnStep(w, wslot[w])
      /\ UNCHANGED <<owner, wslot, wop, ring, masks, active_mask, op_idx>>
      /\ epoch_moved'[w] = FALSE
      /\ input'[wslot[w]] = <<w, wop[w]>>
  BY <1>1, <1>2 DEF Prepare, Goto, OwnStep, pool, buffers, masks, main, IInv, TypeOK
<1>5. TenantOK(w)'
  BY <1>1, <1>3, <1>4 DEF TenantOK, Running, AtBoundary, InOp, Answered, Written, Waiting, Killed, masks
<1>6. InStep(w)'
  BY <1>1, <1>3, <1>4 DEF InStep, Running, AtBoundary, InOp, Answered, Written, Waiting, masks
<1>7. FreshOK(w)'
  BY <1>1, <1>4 DEF FreshOK, Answered, Written, Waiting
<1>8. ~Posted(w) /\ wpc[w] \notin Killed \union {"gone"}
  BY <1>1 DEF Posted, Waiting, Killed
<1>9. QED
  BY <1>4, <1>5, <1>6, <1>7, <1>8, SilentStepKeeps DEF masks

\* The ready bit is set; the command stays out.
LEMMA ReadyStep ==
  ASSUME Good, NEW w \in Workers, SignalReady(w)
  PROVE  BarrierOK'
<1> USE DEF Good
<1>1. wpc[w] = "ready" /\ wpc'[w] = "wait"
  BY DEF SignalReady, Goto, IInv, TypeOK
<1>2. wslot[w] \in Slots /\ wslot[w] # NoSlot /\ owner[wslot[w]] = w
  BY <1>1, RunningHolds DEF Running, InOp, Written
<1>3. TenantOK(w) /\ InStep(w) /\ FreshOK(w)
  BY DEF BarrierOK, EnginesOK
<1>4. /\ OwnStep(w, wslot[w])
      /\ UNCHANGED <<owner, input, wslot, wop, epoch_moved, ring, pending_joins, pending_leaves>>
      /\ UNCHANGED <<evicted_mask, active_mask, active_slot_mask, op_idx, agg_pc>>
      /\ ready_mask' = ready_mask \union {wslot[w]}
  BY <1>1, <1>2 DEF SignalReady, Goto, OwnStep, pool, buffers, masks, main, IInv, TypeOK
<1>5. Waiting(w)' /\ ~Answered(w)'
  BY <1>1, <1>3, <1>4 DEF InStep, Waiting, Answered
<1>6. TenantOK(w)'
  BY <1>1, <1>3, <1>4 DEF TenantOK, Running, AtBoundary, InOp, Answered, Written, Waiting, Killed
<1>7. InStep(w)'
  BY <1>1, <1>3, <1>4, <1>5 DEF InStep, Running, AtBoundary, InOp, Written
<1>8. FreshOK(w)'
  <2>1. agg_pc # "signal"
    BY <1>1, <1>3 DEF BarrierOK, MainOK, Computing, TenantOK, InStep, Running, InOp, Written, Waiting
  <2>2. QED
    BY <1>1, <1>3, <1>4, <1>5, <2>1 DEF FreshOK, Written
<1>9. \A c \in Command : CommandOK(c) /\ c.worker = w => CommandOK(c)'
  BY <1>1, <1>4, <1>5 DEF CommandOK, Posted, Killed
<1>10. QED
  BY <1>4, <1>6, <1>7, <1>8, <1>9, StepKeeps

\* The epoch has moved: the main loop is one op ahead until the output is read.
LEMMA OutputSteps ==
  ASSUME Good, NEW w \in Workers, WaitForEpoch(w) \/ GetOutput(w)
  PROVE  BarrierOK'
<1> USE DEF Good
<1>1. Answered(w) /\ wpc'[w] \in {"get", "boundary", "prepare"}
  BY DEF WaitForEpoch, GetOutput, Goto, Answered, IInv, TypeOK
<1>2. wslot[w] \in Slots /\ wslot[w] # NoSlot /\ owner[wslot[w]] = w
  BY <1>1, RunningHolds DEF Running
<1>3. TenantOK(w) /\ InStep(w) /\ FreshOK(w)
  BY DEF BarrierOK, EnginesOK
<1>4. /\ OwnStep(w, wslot[w])
      /\ UNCHANGED <<owner, buffers, wslot, epoch_moved, ring, masks, active_mask, op_idx, agg_pc>>
  BY <1>1 DEF WaitForEpoch, GetOutput, Goto, OwnStep, pool, buffers, masks, main, IInv, TypeOK
<1>5. /\ wpc'[w] = "get" => wop'[w] = wop[w]
      /\ wpc'[w] = "prepare" => wop'[w] = op_idx
      /\ wpc'[w] = "boundary" => op_idx = 0
  <2>1. CASE WaitForEpoch(w)
    BY <2>1 DEF WaitForEpoch, Goto, IInv, TypeOK
  <2>2. CASE GetOutput(w)
    <3>1. wop[w] \in Ops /\ op_idx = (wop[w] + 1) % (LastOp + 1)
      BY <1>1, <1>3 DEF InStep, IInv, TypeOK
    <3>2. op_idx = (IF wop[w] = LastOp THEN 0 ELSE wop[w] + 1)
      BY <3>1, NextOp
    <3>3. /\ wop'[w] = op_idx
          /\ wpc'[w] = (IF wop[w] = LastOp THEN "boundary" ELSE "prepare")
      BY <2>2, <3>2 DEF GetOutput, Goto, IInv, TypeOK
    <3>4. QED
      BY <3>2, <3>3
  <2>3. QED
    BY <2>1, <2>2
<1>6. ~Posted(w) /\ wpc[w] \notin Killed \union {"gone"}
  BY <1>1 DEF Posted, Waiting, Answered, Killed
<1>7. TenantOK(w)'
  BY <1>1, <1>3, <1>4 DEF TenantOK, Running, AtBoundary, InOp, Answered, Written, Waiting, Killed, masks
<1>8. wslot[w] \notin ready_mask
  BY <1>1, <1>3, <1>6 DEF InStep, Running, Posted
<1>9. InStep(w)'
  BY <1>1, <1>3, <1>4, <1>5, <1>8 DEF InStep, Running, AtBoundary, InOp, Answered, Written, Waiting, masks
<1>10. FreshOK(w)'
  BY <1>1, <1>3, <1>4, <1>5 DEF FreshOK, Answered, Written, Waiting, buffers
<1>11. QED
  BY <1>4, <1>6, <1>7, <1>9, <1>10, SilentStepKeeps DEF masks

\* A completed request leaves the barrier, and waits until it is out.
LEMMA LeaveSteps ==
  ASSUME Good, OnlyDeaths, NEW w \in Workers, Complete(w) \/ LeaveAcked(w)
  PROVE  BarrierOK'
<1> USE DEF Good
<1>1. wpc[w] \in {"boundary", "leaving"}
  BY DEF Complete, LeaveAcked, Goto
<1>2. wslot[w] \in Slots /\ wslot[w] # NoSlot /\ owner[wslot[w]] = w
  BY <1>1, RunningHolds DEF Running, AtBoundary
<1>3. TenantOK(w) /\ InStep(w) /\ FreshOK(w)
  BY DEF BarrierOK, EnginesOK
<1>4. /\ OwnStep(w, wslot[w])
      /\ UNCHANGED <<owner, wslot, ring, ready_mask, pending_joins, evicted_mask>>
      /\ UNCHANGED <<active_mask, active_slot_mask, op_idx>>
  BY <1>1 DEF Complete, LeaveAcked, Goto, SignalLeave, OwnStep, pool, buffers, masks, main, IInv, TypeOK
<1>5. /\ wpc[w] = "boundary" => /\ wpc'[w] = "leaving"
                                /\ pending_leaves' = pending_leaves \union {wslot[w]}
      /\ wpc[w] = "leaving" => /\ wpc'[w] = "releasing" /\ UNCHANGED pending_leaves
                               /\ wslot[w] \notin active_slot_mask
  <2>1. CASE Complete(w)
    BY <2>1 DEF Complete, Goto, SignalLeave, IInv, TypeOK
  <2>2. CASE LeaveAcked(w)
    <3>1. ~Hit(w, "late") /\ agg_pc # "down"
      BY DEF OnlyDeaths, FaultKinds, Up
    <3>2. QED
      BY <2>2, <3>1 DEF LeaveAcked, Goto, masks, IInv, TypeOK
  <2>3. QED
    BY <2>1, <2>2
<1>6. TenantOK(w)'
  BY <1>1, <1>2, <1>3, <1>4, <1>5 DEF TenantOK, InStep, Running, AtBoundary, InOp, Answered, Written, Waiting, Killed, BarrierOK, MainOK
<1>7. InStep(w)'
  BY <1>1, <1>5 DEF InStep, Running, AtBoundary, InOp, Answered, Written, Waiting
<1>8. FreshOK(w)'
  BY <1>1, <1>5 DEF FreshOK, Answered, Written, Waiting
<1>9. ~Posted(w) /\ wpc[w] \notin Killed \union {"gone"}
  BY <1>1 DEF Posted, Waiting, Killed
<1>10. QED
  BY <1>4, <1>6, <1>7, <1>8, <1>9, SilentStepKeeps

\* A worker is killed, or its connection thread sees it: a leave for the slot it
\* owns, which is the only one.
LEMMA DeathSteps ==
  ASSUME Good, OnlyDeaths, NEW w \in Workers, Die(w) \/ ConnectionLost(w)
  PROVE  BarrierOK'
<1> USE DEF Good
<1>1. TenantOK(w) /\ OwnedOK
  BY DEF BarrierOK, EnginesOK
<1>2. /\ wpc'[w] \in Killed /\ w \in Shaky /\ wslot[w] \notin pending_joins
      /\ UNCHANGED <<owner, wslot, ring, ready_mask, pending_joins, active_mask, op_idx>>
      /\ wpc'[w] = "draining" =>
           wpc[w] = "dead" /\ pending_leaves' = pending_leaves \union Owned(w)
  <2>1. CASE Die(w)
    <3>1. Hit(w, "die") /\ wslot[w] \notin pending_joins
      BY <2>1 DEF Die, OnlyDeaths, FaultKinds
    <3>2. QED
      BY <2>1, <3>1 DEF Die, Hit, pool, masks, main, Killed, IInv, TypeOK
  <2>2. CASE ConnectionLost(w)
    BY <1>1, <2>2 DEF ConnectionLost, Goto, pool, main, Killed, TenantOK, IInv, TypeOK
  <2>3. QED
    BY <2>1, <2>2
<1>3. Owned(w) = {s \in Slots : s = wslot[w]}
  <2>1. ASSUME NEW s \in Slots PROVE owner[s] = w <=> s = wslot[w]
    <3>1. owner[s] = w => wslot[w] = s
      BY <1>1, ConstantsOK DEF OwnedOK, ConstantsOK
    <3>2. s = wslot[w] => owner[s] = w
      BY NoSlotIsNone DEF IInv, PoolInv, SlotExclusive
    <3>3. QED
      BY <3>1, <3>2
  <2>2. QED
    BY <2>1 DEF Owned
<1>4. OwnStep(w, wslot[w])
  BY <1>3 DEF Die, ConnectionLost, Goto, OwnStep, pool, buffers, masks, main, IInv, TypeOK
<1>5. TenantOK(w)'
  <2>1. wpc'[w] = "draining" /\ wslot[w] \in active_mask => wslot[w] \in pending_leaves'
    BY <1>2, <1>3 DEF IInv, TypeOK
  <2>2. QED
    BY <1>2, <2>1 DEF TenantOK, Running, AtBoundary, InOp, Answered, Written, Waiting, Killed
<1>6. InStep(w)' /\ FreshOK(w)'
  BY <1>2 DEF InStep, FreshOK, Running, AtBoundary, InOp, Answered, Written, Waiting, Killed
<1>7. ASSUME NEW c \in Command, CommandOK(c), c.worker = w PROVE CommandOK(c)'
  <2>1. wpc[w] # "gone"
    BY DEF Die, ConnectionLost, Goto
  <2>2. QED
    BY <1>2, <1>7, <2>1 DEF CommandOK, Killed
<1>8. QED
  BY <1>2, <1>4, <1>5, <1>6, <1>7, StepKeeps

\* A worker that is alive and not within an op is named by no command.
LEMMA NoneOfItsOwn ==
  ASSUME CommandsOK, NEW w, ~Posted(w), wpc[w] \notin Killed \union {"gone"}
  PROVE  /\ \A i \in DOMAIN ring : ring[i].worker # w
         /\ \A i \in DOMAIN batch : batch[i].worker # w
  BY DEF CommandsOK, CommandOK

\* What the commands of the others say is not touched by an engine's own step.
LEMMA OthersCommandsKeep ==
  ASSUME NEW w \in Workers, NEW x, OwnStep(w, x),
         NEW c \in Command, c.worker # w, CommandOK(c)
  PROVE  CommandOK(c)'
<1>1. c.worker \in Workers \ {w}
  BY DEF Command
<1>2. /\ wpc'[c.worker] = wpc[c.worker] /\ wslot'[c.worker] = wslot[c.worker]
      /\ epoch_moved'[c.worker] = epoch_moved[c.worker]
      /\ UNCHANGED <<active_mask, op_idx>>
  BY <1>1 DEF OwnStep
<1>3. QED
  BY <1>2 DEF CommandOK, Posted, Waiting

\* The command of an engine that had none goes into the ring.
LEMMA SubmitStep ==
  ASSUME Good, NEW w \in Workers, Submit(w)
  PROVE  BarrierOK'
<1> USE DEF Good
<1> DEFINE c == [slot |-> wslot[w], worker |-> w, op |-> wop[w], ready |-> FALSE]
<1>1. wpc[w] = "submit" /\ wpc'[w] = "publish"
  BY DEF Submit, Goto, IInv, TypeOK
<1>2. wslot[w] \in Slots /\ wslot[w] # NoSlot /\ owner[wslot[w]] = w
  BY <1>1, RunningHolds DEF Running, InOp, Written
<1>3. TenantOK(w) /\ InStep(w) /\ FreshOK(w)
  BY DEF BarrierOK, EnginesOK
<1>4. /\ OwnStep(w, wslot[w])
      /\ UNCHANGED <<owner, buffers, wslot, wop, epoch_moved, masks, active_mask, op_idx, batch>>
      /\ ring' = Append(ring, c)
  BY <1>1 DEF Submit, Goto, OwnStep, pool, buffers, masks, main, IInv, TypeOK
<1>5. TenantOK(w)' /\ InStep(w)' /\ FreshOK(w)'
  <2>1. TenantOK(w)'
    BY <1>1, <1>3, <1>4 DEF TenantOK, Running, AtBoundary, InOp, Answered, Written, Waiting, Killed, masks
  <2>2. InStep(w)'
    BY <1>1, <1>3, <1>4 DEF InStep, Running, AtBoundary, InOp, Answered, Written, Waiting, masks
  <2>3. FreshOK(w)'
    BY <1>1, <1>3, <1>4 DEF FreshOK, Answered, Written, Waiting, buffers
  <2>4. QED
    BY <2>1, <2>2, <2>3
<1>6. EnginesOK'
  <2>1. \A v \in Workers \ {w} : wslot[v] = wslot[w] => wslot[w] = NoSlot
    BY DEF IInv, PoolInv, SlotExclusive
  <2>2. QED
    BY <1>4, <1>5, <2>1, OthersKeep DEF EnginesOK, BarrierOK
<1>7. MainOK' /\ BatchOK'
  BY <1>4, MainKeeps DEF masks
<1>8. OwnedOK'
  BY <1>4, OwnedKeeps DEF BarrierOK
<1>9. CommandsOK'
  <2>1. /\ \A i \in DOMAIN ring : ring[i].worker # w /\ ring[i] \in Command
        /\ \A i \in DOMAIN batch : batch[i].worker # w /\ batch[i] \in Command
    <3>1. CommandsOK /\ ~Posted(w) /\ wpc[w] \notin Killed \union {"gone"}
      BY <1>1 DEF BarrierOK, Posted, Waiting, Killed
    <3>2. /\ \A i \in DOMAIN ring : ring[i].worker # w
          /\ \A i \in DOMAIN batch : batch[i].worker # w
      BY <3>1, NoneOfItsOwn
    <3>3. QED
      BY <3>2 DEF IInv, TypeOK
  <2>2. CommandOK(c)'
    BY <1>1, <1>3, <1>4 DEF CommandOK, Posted, InStep, InOp, Written
  <2>3. /\ DOMAIN ring' = DOMAIN ring \union {Len(ring) + 1}
        /\ ring'[Len(ring) + 1] = c
        /\ \A i \in DOMAIN ring : ring'[i] = ring[i] /\ i # Len(ring) + 1
    BY <1>4 DEF IInv, TypeOK
  <2>4. OneEach'
    BY <1>4, <2>1, <2>3 DEF BarrierOK, CommandsOK, OneEach
  <2>5. ASSUME NEW i \in DOMAIN ring' PROVE CommandOK(ring[i])'
    <3>1. PICK d : d = ring'[i]
      OBVIOUS
    <3>2. CASE i \in DOMAIN ring
      <4>1. d = ring[i] /\ d \in Command /\ d.worker # w /\ CommandOK(d)
        BY <2>1, <2>3, <3>1, <3>2 DEF BarrierOK, CommandsOK
      <4>2. CommandOK(d)'
        BY <1>4, <4>1, OthersCommandsKeep
      <4>3. QED
        BY <3>1, <4>2 DEF CommandOK
    <3>3. CASE i = Len(ring) + 1
      <4>1. ring'[i] = c'
        BY <1>4, <2>3, <3>3
      <4>2. QED
        BY <2>2, <4>1 DEF CommandOK
    <3>4. QED
      BY <2>3, <3>2, <3>3
  <2>6. \A i \in DOMAIN batch : CommandOK(batch[i])'
    BY <1>4, <2>1, OthersCommandsKeep DEF BarrierOK, CommandsOK
  <2>7. QED
    BY <1>4, <2>4, <2>5, <2>6 DEF BarrierOK, CommandsOK
<1>10. QED
  BY <1>6, <1>7, <1>8, <1>9 DEF BarrierOK

\* The command of w becomes ready to be read; nothing else of the ring changes.
LEMMA PublishStep ==
  ASSUME Good, NEW w \in Workers, Publish(w)
  PROVE  BarrierOK'
<1> USE DEF Good
<1>1. wpc[w] = "publish" /\ wpc'[w] = "ready"
  BY DEF Publish, Goto, IInv, TypeOK
<1>2. TenantOK(w) /\ InStep(w) /\ FreshOK(w)
  BY DEF BarrierOK, EnginesOK
<1>3. /\ OwnStep(w, wslot[w])
      /\ UNCHANGED <<owner, buffers, wslot, wop, epoch_moved, masks, active_mask, op_idx, batch>>
  BY <1>1 DEF Publish, Goto, OwnStep, pool, buffers, masks, main, IInv, TypeOK
<1>4. TenantOK(w)' /\ InStep(w)' /\ FreshOK(w)'
  <2>1. TenantOK(w)'
    BY <1>1, <1>2, <1>3 DEF TenantOK, Running, AtBoundary, InOp, Answered, Written, Waiting, Killed, masks
  <2>2. InStep(w)'
    BY <1>1, <1>2, <1>3 DEF InStep, Running, AtBoundary, InOp, Answered, Written, Waiting, masks
  <2>3. FreshOK(w)'
    BY <1>1, <1>2, <1>3 DEF FreshOK, Answered, Written, Waiting, buffers
  <2>4. QED
    BY <2>1, <2>2, <2>3
<1>5. EnginesOK'
  <2>1. \A v \in Workers \ {w} : wslot[v] = wslot[w] => wslot[w] = NoSlot
    BY DEF IInv, PoolInv, SlotExclusive
  <2>2. QED
    BY <1>3, <1>4, <2>1, OthersKeep DEF EnginesOK, BarrierOK
<1>6. MainOK' /\ BatchOK'
  BY <1>3, MainKeeps DEF masks
<1>7. OwnedOK'
  BY <1>3, OwnedKeeps DEF BarrierOK
<1>8. CommandsOK'
  <2>1. ASSUME NEW c \in Command, CommandOK(c), c.worker = w
        PROVE  CommandOK([c EXCEPT !.ready = TRUE])'
    BY <1>1, <1>3, <2>1 DEF CommandOK, Command, Posted, Killed
  <2>2. ASSUME NEW i \in DOMAIN ring
        PROVE  /\ ring[i] \in Command
               /\ ring'[i] = [ring[i] EXCEPT !.ready = @ \/ ring[i].worker = w]
    BY DEF Publish, IInv, TypeOK
  <2>3. DOMAIN ring' = DOMAIN ring
    BY DEF Publish, IInv, TypeOK
  <2>4. \A i \in DOMAIN ring : ring'[i].worker = ring[i].worker
    BY <2>2 DEF Command
  <2>5. OneEach'
    BY <1>3, <2>3, <2>4 DEF BarrierOK, CommandsOK, OneEach
  <2>6. ASSUME NEW i \in DOMAIN ring' PROVE CommandOK(ring[i])'
    <3>1. PICK c : c = ring[i]
      OBVIOUS
    <3>2. c \in Command /\ CommandOK(c)
      BY <2>2, <2>3, <3>1 DEF BarrierOK, CommandsOK
    <3>3. CASE c.worker = w
      <4>1. ring'[i] = [c EXCEPT !.ready = TRUE]
        BY <2>2, <2>3, <3>1, <3>3
      <4>2. CommandOK([c EXCEPT !.ready = TRUE])'
        BY <2>1, <3>2, <3>3
      <4>3. QED
        BY <4>1, <4>2 DEF CommandOK
    <3>4. CASE c.worker # w
      <4>1. ring'[i] = c
        BY <2>2, <2>3, <3>1, <3>2, <3>4 DEF Command
      <4>2. CommandOK(c)'
        BY <1>3, <3>2, <3>4, OthersCommandsKeep
      <4>3. QED
        BY <4>1, <4>2 DEF CommandOK
    <3>5. QED
      BY <3>3, <3>4
  <2>7. \A i \in DOMAIN batch : CommandOK(batch[i])'
    <3>1. ASSUME NEW i \in DOMAIN batch PROVE CommandOK(batch[i])'
      <4>1. PICK c : c = batch[i]
        OBVIOUS
      <4>2. c \in Command /\ CommandOK(c) /\ c.ready
        BY <4>1 DEF BarrierOK, CommandsOK, IInv, TypeOK
      <4>3. CommandOK(c)'
        <5>1. CASE c.worker = w
          BY <1>1, <1>3, <4>2, <5>1 DEF CommandOK, Posted, Killed, Waiting, InStep, BarrierOK, CommandsOK
        <5>2. CASE c.worker # w
          BY <1>3, <4>2, <5>2, OthersCommandsKeep
        <5>3. QED
          BY <5>1, <5>2
      <4>4. QED
        BY <1>3, <4>1, <4>3 DEF CommandOK
    <3>2. QED
      BY <3>1
  <2>8. QED
    BY <1>3, <2>5, <2>6, <2>7 DEF BarrierOK, CommandsOK
<1>9. QED
  BY <1>5, <1>6, <1>7, <1>8 DEF BarrierOK

\* A slot is given back by an engine that is out of the barrier, or by the
\* connection thread of one that died.
LEMMA GiveBackKeeps ==
  ASSUME Good, NEW w \in Workers, NEW slots, ReleaseSlots(w, slots),
         wslot[w] \in slots \/ wslot[w] = NoSlot,
         wslot' = [wslot EXCEPT ![w] = NoSlot],
         UNCHANGED <<masks, ring, quit_flag, main, wop, epoch_moved>>,
         wslot[w] \notin active_slot_mask \union pending_joins \union pending_leaves,
         \A v \in Workers \ {w} : wpc'[v] = wpc[v],
         \/ wpc'[w] = "idle" /\ wpc[w] = "releasing"
         \/ wpc'[w] = "gone" /\ w \in Shaky
  PROVE  BarrierOK'
<1> USE DEF Good
<1>1. \A s \in Slots : owner[s] = w => s = wslot[w]
  BY ConstantsOK DEF BarrierOK, OwnedOK, ConstantsOK
<1>2. OwnStep(w, wslot[w])
  BY <1>1 DEF ReleaseSlots, OwnStep, masks, main, IInv, TypeOK
<1>3. wslot'[w] = NoSlot
  BY DEF IInv, TypeOK
<1>4. TenantOK(w)' /\ InStep(w)' /\ FreshOK(w)'
  BY <1>3 DEF TenantOK, InStep, FreshOK, Running, AtBoundary, InOp, Answered, Written, Waiting, Killed
<1>5. EnginesOK'
  <2>1. \A v \in Workers \ {w} : wslot[v] = wslot[w] => wslot[w] = NoSlot
    BY DEF IInv, PoolInv, SlotExclusive
  <2>2. QED
    BY <1>2, <1>4, <2>1, OthersKeep DEF EnginesOK, BarrierOK
<1>6. MainOK' /\ BatchOK'
  <2>1. wslot[w] \notin active_mask
    BY DEF BarrierOK, MainOK
  <2>2. QED
    BY <1>2, <2>1, MainKeeps
<1>7. OwnedOK'
  <2>1. SUFFICES ASSUME NEW s \in Slots
                 PROVE  IF owner'[s] = NoWorker
                        THEN s \notin active_slot_mask \union pending_joins \union pending_leaves
                        ELSE wslot'[owner'[s]] = s
    BY DEF OwnedOK, masks
  <2>2. CASE owner[s] = w
    BY <1>1, <2>2, NoSlotIsNone DEF ReleaseSlots
  <2>3. CASE owner[s] # w
    <3>1. owner'[s] = owner[s]
      BY <2>3 DEF ReleaseSlots
    <3>2. QED
      BY <2>3, <3>1 DEF BarrierOK, OwnedOK, IInv, TypeOK
  <2>4. QED
    BY <2>2, <2>3
<1>8. \A c \in Command : CommandOK(c) /\ c.worker = w => CommandOK(c)'
  BY DEF CommandOK, Posted, Waiting, Killed
<1>9. CommandsOK'
  BY <1>2, <1>8, CommandsKeep DEF BarrierOK
<1>10. QED
  BY <1>5, <1>6, <1>7, <1>9 DEF BarrierOK

\* release_slot by the engine, and the deferred one of a worker that died.
LEMMA ReleaseSteps ==
  ASSUME Good, OnlyDeaths, NEW w \in Workers, Release(w) \/ DeferredRelease(w)
  PROVE  BarrierOK'
<1> USE DEF Good
<1>1. TenantOK(w)
  BY DEF BarrierOK, EnginesOK
<1>2. CASE Release(w)
  <2>1. wpc[w] = "releasing" /\ wpc' = [wpc EXCEPT ![w] = "idle"]
    BY <1>2 DEF Release, Goto
  <2>2. wslot[w] \notin active_slot_mask \union pending_joins \union pending_leaves
    BY <1>1, <2>1 DEF TenantOK
  <2>3. ReleaseSlots(w, {wslot[w]})
    BY <1>2 DEF Release, Up
  <2>4. QED
    BY <1>2, <2>1, <2>2, <2>3, GiveBackKeeps DEF Release, IInv, TypeOK
<1>3. CASE DeferredRelease(w)
  <2>1. wpc[w] = "draining" /\ wpc' = [wpc EXCEPT ![w] = "gone"]
    BY <1>3 DEF DeferredRelease, Goto
  <2>2. wslot[w] \in Owned(w) \/ wslot[w] = NoSlot
    BY DEF Owned, IInv, TypeOK, PoolInv, SlotExclusive
  <2>3. Settled(w)
    BY <1>3 DEF DeferredRelease, OnlyDeaths, FaultKinds
  <2>4. wslot[w] \notin active_slot_mask \union pending_joins \union pending_leaves
    BY <1>1, <2>1, <2>2, <2>3, NoSlotIsNone DEF Settled, TenantOK, Killed, BarrierOK, MainOK, IInv, TypeOK
  <2>5. w \in Shaky
    BY <1>1, <2>1 DEF TenantOK, Killed
  <2>6. QED
    BY <1>3, <2>1, <2>2, <2>4, <2>5, GiveBackKeeps DEF DeferredRelease, IInv, TypeOK
<1>4. QED
  BY <1>2, <1>3

\* A slot is claimed: it was out of the barrier, and its bits are scrubbed.
LEMMA ClaimStep ==
  ASSUME Good, NEW w \in Workers, Claim(w)
  PROVE  BarrierOK'
<1> USE DEF Good
<1>1. wpc[w] = "idle" /\ wpc'[w] = "claimed" /\ wslot[w] = NoSlot
  BY DEF Claim, Goto, BarrierOK, EnginesOK, TenantOK, IInv, TypeOK
<1>2. PICK s \in free_mask :
        /\ owner' = [owner EXCEPT ![s] = w]
        /\ Scrub(s)
        /\ wslot' = [wslot EXCEPT ![w] = s]
  BY DEF Claim
<1>3. s \in Slots /\ owner[s] = NoWorker
  BY DEF IInv, TypeOK, PoolInv, SlotExclusive
<1>4. s \notin active_slot_mask \union pending_joins \union pending_leaves
  BY <1>3 DEF BarrierOK, OwnedOK
<1>5. /\ UNCHANGED <<active_slot_mask, pending_joins, pending_leaves, ring>>
      /\ wslot'[w] = s /\ s \notin ready_mask' \union evicted_mask'
  BY <1>2 DEF Claim, Scrub, IInv, TypeOK
<1>6. OwnStep(w, s)
  BY <1>2, <1>3 DEF Claim, Goto, Scrub, OwnStep, buffers, main, IInv, TypeOK
<1>7. EnginesOK'
  <2>1. \A v \in Workers \ {w} : wslot[v] = s => s = NoSlot
    BY <1>3, ConstantsOK DEF IInv, PoolInv, SlotExclusive, ConstantsOK
  <2>2. TenantOK(w)' /\ InStep(w)' /\ FreshOK(w)'
    BY <1>1, <1>4, <1>5 DEF TenantOK, InStep, FreshOK, Running, AtBoundary, InOp, Answered, Written, Waiting, Killed
  <2>3. QED
    BY <1>6, <2>1, <2>2, OthersKeep DEF EnginesOK, BarrierOK
<1>8. MainOK' /\ BatchOK'
  BY <1>4, <1>6, MainKeeps DEF BarrierOK, MainOK
<1>9. OwnedOK'
  <2>1. SUFFICES ASSUME NEW t \in Slots
                 PROVE  IF owner'[t] = NoWorker
                        THEN t \notin active_slot_mask \union pending_joins \union pending_leaves
                        ELSE wslot'[owner'[t]] = t
    BY <1>5 DEF OwnedOK
  <2>2. CASE t = s
    BY <1>2, <1>3, <1>4, <1>5, <2>2 DEF IInv, TypeOK
  <2>3. CASE t # s
    <3>1. owner'[t] = owner[t] /\ owner[t] # w
      BY <1>1, <1>2, <2>3, NoSlotIsNone, ConstantsOK DEF BarrierOK, OwnedOK, ConstantsOK
    <3>2. QED
      BY <1>2, <3>1 DEF BarrierOK, OwnedOK, IInv, TypeOK
  <2>4. QED
    BY <2>2, <2>3
<1>10. \A c \in Command : CommandOK(c) /\ c.worker = w => CommandOK(c)'
  BY <1>1 DEF CommandOK, Posted, Waiting, Killed
<1>11. CommandsOK'
  BY <1>5, <1>6, <1>10, CommandsKeep DEF BarrierOK
<1>12. QED
  BY <1>7, <1>8, <1>9, <1>11 DEF BarrierOK
----------------------------------------------------------------------------
(* The steps of the main loop. *)

\* Where the engines are does not depend on the main loop's own steps, but for
\* the epoch.
LEMMA PlacesStay ==
  ASSUME UNCHANGED engine, NEW w
  PROVE  /\ Waiting(w)' <=> Waiting(w)
         /\ Answered(w)' <=> Answered(w)
         /\ Written(w)' <=> Written(w)
         /\ Posted(w)' <=> Posted(w)
         /\ InOp(w)' <=> InOp(w)
         /\ AtBoundary(w)' <=> AtBoundary(w)
         /\ Running(w)' <=> Running(w)
  BY DEF Waiting, Answered, Written, Posted, InOp, AtBoundary, Running, engine

\* Slots go out of the barrier when there is no batch, with their leaves: all that
\* asked to leave, and none of an engine that runs or is about to.
LEMMA OutKeeps ==
  ASSUME Good, NEW out,
         UNCHANGED <<owner, buffers, ring, batch, quit_flag, engine>>,
         UNCHANGED <<ready_mask, pending_joins, op_idx>>,
         \/ agg_pc = "leaves" /\ agg_pc' = "joins" /\ active_slot_mask' = active_slot_mask
         \/ /\ agg_pc = "wait" /\ active_slot_mask' = active_mask'
            /\ agg_pc' = IF active_mask' = {} THEN "leaves" ELSE "wait",
         active_mask' = active_mask \ out,
         pending_leaves' = pending_leaves \ out,
         pending_leaves \intersect active_mask \subseteq out,
         evicted_mask' \subseteq evicted_mask \union (out \intersect active_mask),
         \A w \in Workers :
           Running(w) \/ (wpc[w] = "joining" /\ wslot[w] \in active_slot_mask) =>
             wslot[w] \notin out
  PROVE  BarrierOK'
<1> USE DEF Good
<1>1. batch = <<>> /\ active_slot_mask = active_mask
  BY DEF BarrierOK, MainOK, Computing
<1>2. MainOK'
  BY <1>1 DEF BarrierOK, MainOK, Computing
<1>3. OwnedOK'
  BY <1>1 DEF BarrierOK, OwnedOK, engine
<1>4. ASSUME NEW w \in Workers PROVE TenantOK(w)' /\ InStep(w)' /\ FreshOK(w)'
  <2>1. TenantOK(w) /\ InStep(w) /\ FreshOK(w)
    BY DEF BarrierOK, EnginesOK
  <2>2. /\ wpc'[w] = wpc[w] /\ wslot'[w] = wslot[w]
        /\ wop'[w] = wop[w] /\ epoch_moved'[w] = epoch_moved[w]
    BY DEF engine
  <2>3. Running(w)' <=> Running(w)
    BY PlacesStay
  <2>4. TenantOK(w)'
    BY <1>1, <2>1, <2>2, <2>3 DEF TenantOK
  <2>5. InStep(w)'
    BY <1>1, <2>1, <2>2, PlacesStay DEF InStep
  <2>6. FreshOK(w)'
    BY <2>1, <2>2, PlacesStay DEF FreshOK, buffers
  <2>7. QED
    BY <2>4, <2>5, <2>6
<1>5. CommandsOK'
  <2>1. ASSUME NEW c, CommandOK(c) PROVE CommandOK(c)'
    BY <2>1, PlacesStay DEF CommandOK, engine
  <2>2. QED
    BY <1>1, <2>1 DEF BarrierOK, CommandsOK, OneEach
<1>6. BatchOK'
  BY DEF BatchOK
<1>7. QED
  BY <1>2, <1>3, <1>4, <1>5, <1>6 DEF BarrierOK, EnginesOK

\* Phase 1 takes the leaves.
LEMMA TakeLeavesStep ==
  ASSUME Good, TakeLeaves
  PROVE  BarrierOK'
<1> USE DEF Good
<1>1. \A w \in Workers :
        Running(w) \/ (wpc[w] = "joining" /\ wslot[w] \in active_slot_mask) =>
          wslot[w] \notin pending_leaves
  BY DEF BarrierOK, EnginesOK, TenantOK
<1>2. pending_leaves' = pending_leaves \ pending_leaves
  BY DEF TakeLeaves
<1>3. QED
  BY <1>1, <1>2, OutKeeps DEF TakeLeaves, pool, buffers

\* The barrier takes the leaves of active slots.
LEMMA MidOpLeaveStep ==
  ASSUME Good, MidOpLeave
  PROVE  BarrierOK'
<1> USE DEF Good
<1> DEFINE out == pending_leaves \intersect active_mask
<1>1. \A w \in Workers :
        Running(w) \/ (wpc[w] = "joining" /\ wslot[w] \in active_slot_mask) =>
          wslot[w] \notin out
  BY DEF BarrierOK, EnginesOK, TenantOK
<1>2. /\ active_mask' = active_mask \ out
      /\ pending_leaves' = pending_leaves \ out
      /\ active_slot_mask' = active_mask'
      /\ agg_pc = "wait" /\ agg_pc' = (IF active_mask' = {} THEN "leaves" ELSE "wait")
  BY DEF MidOpLeave, Drop
<1>3. UNCHANGED <<owner, buffers, ring, batch, quit_flag, engine, ready_mask, pending_joins, op_idx, evicted_mask>>
  BY DEF MidOpLeave, pool
<1>4. QED
  BY <1>1, <1>2, <1>3, OutKeeps

\* A slot whose ready bit does not come is one of a dead worker: the engines that
\* are alive are on time, and those that leave are taken out before.
LEMMA StuckAreDead ==
  ASSUME Good, OnlyDeaths, EvictStuck, NEW w \in Workers,
         wslot[w] \in active_mask \ ready_mask
  PROVE  wpc[w] = "dead"
<1> USE DEF Good
<1>1. TenantOK(w) /\ InStep(w)
  BY DEF BarrierOK, EnginesOK
<1>2. ~OnTime(w) /\ wslot[w] \notin pending_leaves
  BY DEF EvictStuck
<1>3. ~Hit(w, "stall")
  BY DEF OnlyDeaths, FaultKinds
<1>4. wslot[w] \in Slots /\ wslot[w] # NoSlot /\ wslot[w] \in active_slot_mask
  BY NoSlotIsNone DEF BarrierOK, MainOK, IInv, TypeOK
<1>5. wpc[w] \in WorkerPC
  BY DEF IInv, TypeOK
<1>6. wpc[w] \notin {"token", "prepare", "submit", "publish", "ready", "get", "boundary", "joining"}
  BY <1>2, <1>3, <1>4 DEF OnTime
<1>7. wpc[w] # "wait"
  BY <1>1, <1>2, <1>3 DEF OnTime, InStep, Running, InOp, Written, Waiting
<1>8. wpc[w] \notin {"idle", "gone", "claimed", "pending", "leaving", "releasing", "draining"}
  BY <1>1, <1>2, <1>4 DEF TenantOK
<1>9. QED
  BY <1>5, <1>6, <1>7, <1>8 DEF WorkerPC

\* The barrier evicts.
LEMMA EvictStep ==
  ASSUME Good, OnlyDeaths, EvictStuck
  PROVE  BarrierOK'
<1> USE DEF Good
<1> DEFINE out == active_mask \ ready_mask
<1>1. \A w \in Workers :
        Running(w) \/ (wpc[w] = "joining" /\ wslot[w] \in active_slot_mask) =>
          wslot[w] \notin out
  BY StuckAreDead DEF Running, AtBoundary, InOp, Answered, Written, Waiting
<1>2. /\ active_mask' = active_mask \ out
      /\ pending_leaves' = pending_leaves \ out
      /\ pending_leaves \intersect active_mask \subseteq out
      /\ active_slot_mask' = active_mask'
      /\ agg_pc = "wait" /\ agg_pc' = (IF active_mask' = {} THEN "leaves" ELSE "wait")
      /\ evicted_mask' = evicted_mask \union out
  BY DEF EvictStuck, Drop
<1>3. UNCHANGED <<owner, buffers, ring, batch, quit_flag, engine, ready_mask, pending_joins, op_idx>>
  BY DEF EvictStuck, pool
<1>4. QED
  BY <1>1, <1>2, <1>3, OutKeeps

\* Phase 1 takes the joins and begins a token.
LEMMA TakeJoinsStep ==
  ASSUME Good, TakeJoins
  PROVE  BarrierOK'
<1> USE DEF Good
<1>1. batch = <<>> /\ (active_mask = {} \/ op_idx = 0)
  BY DEF TakeJoins, BarrierOK, MainOK, Computing
<1>2. /\ UNCHANGED <<owner, buffers, pending_leaves, ready_mask, evicted_mask, ring, quit_flag, batch, engine>>
      /\ active_mask' = active_mask \union pending_joins
      /\ active_slot_mask' = active_mask' /\ pending_joins' = {} /\ op_idx' = 0
      /\ agg_pc' = IF active_mask' = {} THEN "leaves" ELSE "wait"
  BY DEF TakeJoins, pool
<1>3. MainOK'
  BY <1>1, <1>2 DEF BarrierOK, MainOK, Computing
<1>4. OwnedOK'
  BY <1>2 DEF BarrierOK, OwnedOK, MainOK, engine
<1>5. ASSUME NEW w \in Workers PROVE TenantOK(w)' /\ InStep(w)' /\ FreshOK(w)'
  <2>1. TenantOK(w) /\ InStep(w) /\ FreshOK(w)
    BY DEF BarrierOK, EnginesOK
  <2>2. /\ wpc'[w] = wpc[w] /\ wslot'[w] = wslot[w]
        /\ wop'[w] = wop[w] /\ epoch_moved'[w] = epoch_moved[w]
    BY <1>2 DEF engine
  <2>3. Running(w)' <=> Running(w)
    BY <1>2, PlacesStay
  <2>4. TenantOK(w)'
    BY <1>2, <2>1, <2>2, <2>3 DEF TenantOK, Killed, BarrierOK, MainOK
  <2>5. Running(w) => op_idx = 0
    BY <1>1, <2>1 DEF TenantOK
  <2>6. InStep(w)'
    BY <1>2, <2>1, <2>2, <2>5, PlacesStay DEF InStep, Running
  <2>7. FreshOK(w)'
    BY <1>2, <2>1, <2>2, PlacesStay DEF FreshOK, buffers
  <2>8. QED
    BY <2>4, <2>6, <2>7
<1>6. CommandsOK'
  <2>1. ASSUME NEW c \in Command, CommandOK(c) PROVE CommandOK(c)'
    <3>1. TenantOK(c.worker)
      BY DEF BarrierOK, EnginesOK, Command
    <3>2. wpc[c.worker] # "gone" => wslot[c.worker] \notin pending_joins
      BY <2>1, <3>1 DEF CommandOK, TenantOK, Posted, Running, InOp, Written
    <3>3. UNCHANGED <<wpc, wslot>> /\ (Posted(c.worker)' <=> Posted(c.worker))
      BY <1>2, PlacesStay DEF engine
    <3>4. QED
      BY <1>1, <1>2, <2>1, <3>2, <3>3 DEF CommandOK
  <2>2. \A i \in DOMAIN ring : ring[i] \in Command
    BY DEF IInv, TypeOK
  <2>3. QED
    BY <1>1, <1>2, <2>1, <2>2 DEF BarrierOK, CommandsOK, OneEach
<1>7. BatchOK'
  BY <1>2 DEF BatchOK
<1>8. QED
  BY <1>3, <1>4, <1>5, <1>6, <1>7 DEF BarrierOK, EnginesOK

\* The batch begins to be fetched, when every active slot is ready.
LEMMA AllReadyStep ==
  ASSUME Good, AllReady
  PROVE  BarrierOK'
<1> USE DEF Good
<1>1. /\ UNCHANGED <<owner, buffers, masks, ring, quit_flag, active_mask, op_idx, engine>>
      /\ batch = <<>> /\ batch' = <<>> /\ agg_pc = "wait" /\ agg_pc' = "fetch"
      /\ active_mask \subseteq ready_mask
  BY DEF AllReady, pool, BarrierOK, MainOK, Computing
<1>2. MainOK'
  BY <1>1 DEF BarrierOK, MainOK, Computing, masks
<1>3. OwnedOK'
  BY <1>1 DEF BarrierOK, OwnedOK, engine, masks
<1>4. ASSUME NEW w \in Workers PROVE TenantOK(w)' /\ InStep(w)' /\ FreshOK(w)'
  <2>1. TenantOK(w) /\ InStep(w) /\ FreshOK(w)
    BY DEF BarrierOK, EnginesOK
  <2>2. TenantOK(w)'
    BY <1>1, <2>1, PlacesStay DEF TenantOK, masks, engine
  <2>3. InStep(w)'
    BY <1>1, <2>1, PlacesStay DEF InStep, masks, engine
  <2>4. FreshOK(w)'
    BY <1>1, <2>1, PlacesStay DEF FreshOK, buffers, engine
  <2>5. QED
    BY <2>2, <2>3, <2>4
<1>5. CommandsOK'
  <2>1. ASSUME NEW c, CommandOK(c) PROVE CommandOK(c)'
    BY <1>1, <2>1, PlacesStay DEF CommandOK, engine
  <2>2. QED
    BY <1>1, <2>1 DEF BarrierOK, CommandsOK, OneEach
<1>6. BatchOK'
  BY <1>1 DEF BatchOK
<1>7. QED
  BY <1>2, <1>3, <1>4, <1>5, <1>6 DEF BarrierOK, EnginesOK

\* One ring entry is taken: into the batch, or thrown away.
LEMMA FetchStep ==
  ASSUME Good, FetchOne
  PROVE  BarrierOK'
<1> USE DEF Good
<1>1. /\ UNCHANGED <<owner, buffers, masks, quit_flag, agg_pc, active_mask, op_idx, engine>>
      /\ agg_pc = "fetch" /\ ring # <<>> /\ ring' = Tail(ring) /\ Head(ring).ready
      /\ batch' = IF Head(ring).slot \in active_mask
                  THEN Append(batch, Head(ring)) ELSE batch
  BY DEF FetchOne, pool
<1>2. MainOK'
  BY <1>1 DEF BarrierOK, MainOK, Computing, masks
<1>3. OwnedOK'
  BY <1>1 DEF BarrierOK, OwnedOK, engine, masks
<1>4. ASSUME NEW w \in Workers PROVE TenantOK(w)' /\ InStep(w)' /\ FreshOK(w)'
  <2>1. TenantOK(w) /\ InStep(w) /\ FreshOK(w)
    BY DEF BarrierOK, EnginesOK
  <2>2. TenantOK(w)'
    BY <1>1, <2>1, PlacesStay DEF TenantOK, masks, engine
  <2>3. InStep(w)'
    BY <1>1, <2>1, PlacesStay DEF InStep, masks, engine
  <2>4. FreshOK(w)'
    BY <1>1, <2>1, PlacesStay DEF FreshOK, buffers, engine
  <2>5. QED
    BY <2>2, <2>3, <2>4
<1>5. CommandsOK'
  <2>1. ASSUME NEW c, CommandOK(c) PROVE CommandOK(c)'
    BY <1>1, <2>1, PlacesStay DEF CommandOK, engine
  <2>2. /\ 1 \in DOMAIN ring /\ Head(ring) = ring[1]
        /\ \A i \in DOMAIN ring' : i + 1 \in DOMAIN ring /\ ring'[i] = ring[i + 1] /\ i + 1 # 1
        /\ \A i, j \in DOMAIN ring' : i # j => i + 1 # j + 1
    BY <1>1 DEF IInv, TypeOK
  <2>3. CommandsOK
    BY DEF BarrierOK
  <2>4. \A i \in DOMAIN ring' : CommandOK(ring[i])'
    <3>1. ASSUME NEW i \in DOMAIN ring' PROVE CommandOK(ring[i])'
      <4>1. PICK d : d = ring[i + 1]
        OBVIOUS
      <4>2. CommandOK(d)'
        BY <2>1, <2>2, <2>3, <4>1 DEF CommandsOK
      <4>3. QED
        BY <2>2, <4>1, <4>2 DEF CommandOK
    <3>2. QED
      BY <3>1
  <2>5. CASE Head(ring).slot \notin active_mask
    <3>1. batch' = batch
      BY <1>1, <2>5
    <3>2. OneEach'
      BY <2>2, <2>3, <3>1 DEF CommandsOK, OneEach
    <3>3. QED
      BY <1>1, <2>1, <2>3, <2>4, <3>1, <3>2 DEF CommandsOK
  <2>6. CASE Head(ring).slot \in active_mask
    <3>1. /\ DOMAIN batch' = DOMAIN batch \union {Len(batch) + 1}
          /\ batch'[Len(batch) + 1] = ring[1]
          /\ \A i \in DOMAIN batch : batch'[i] = batch[i] /\ i # Len(batch) + 1
      BY <1>1, <2>2, <2>6 DEF IInv, TypeOK
    <3>2. OneEach'
      <4>1. \A i, j \in DOMAIN ring' : i # j => ring'[i].worker # ring'[j].worker
        BY <2>2, <2>3 DEF CommandsOK, OneEach
      <4>2. \A i, j \in DOMAIN batch' : i # j => batch'[i].worker # batch'[j].worker
        BY <2>2, <2>3, <3>1 DEF CommandsOK, OneEach
      <4>3. \A i \in DOMAIN ring', j \in DOMAIN batch' : ring'[i].worker # batch'[j].worker
        BY <2>2, <2>3, <3>1 DEF CommandsOK, OneEach
      <4>4. QED
        BY <4>1, <4>2, <4>3 DEF OneEach
    <3>3. ASSUME NEW i \in DOMAIN batch'
          PROVE  /\ CommandOK(batch[i])'
                 /\ batch'[i].slot \in active_mask' /\ batch'[i].ready
      <4>1. PICK d : d = batch'[i]
        OBVIOUS
      <4>2. (i \in DOMAIN batch /\ d = batch[i]) \/ d = ring[1]
        BY <3>1, <4>1
      <4>3. CommandOK(d) /\ d.slot \in active_mask /\ d.ready
        BY <1>1, <2>2, <2>3, <2>6, <4>2 DEF CommandsOK
      <4>4. CommandOK(d)'
        BY <2>1, <4>3
      <4>5. QED
        BY <1>1, <4>1, <4>3, <4>4 DEF CommandOK
    <3>4. QED
      BY <2>4, <3>2, <3>3 DEF CommandsOK
  <2>7. QED
    BY <2>5, <2>6
<1>6. BatchOK'
  BY <1>1 DEF BatchOK
<1>7. QED
  BY <1>2, <1>3, <1>4, <1>5, <1>6 DEF BarrierOK, EnginesOK

\* The slots are finitely many.
LEMMA SlotsFinite == IsFiniteSet(Slots) /\ Cardinality(Slots) = NumSlots
<1>1. NumSlots \in Nat \ {0}
  BY ConstantsOK DEF ConstantsOK
<1>2. QED
  BY <1>1, FS_Interval DEF Slots

\* As many commands as active slots, each one of the owner of its slot: every
\* active slot has its command.
LEMMA FullBatch ==
  ASSUME IInv, CommandsOK, OwnersMatch, Len(batch) >= Cardinality(active_mask)
  PROVE  \A s \in active_mask : \E i \in DOMAIN batch : batch[i].slot = s
<1> DEFINE f == [i \in 1 .. Len(batch) |-> batch[i].slot]
<1>1. Len(batch) \in Nat /\ DOMAIN batch = 1 .. Len(batch)
  BY DEF IInv, TypeOK
<1>2. IsFiniteSet(active_mask)
  BY SlotsFinite, FS_Subset DEF IInv, TypeOK
<1>3. f \in Injection(1 .. Len(batch), active_mask)
  <2>1. f \in [1 .. Len(batch) -> active_mask]
    BY <1>1 DEF CommandsOK
  <2>2. ASSUME NEW i \in 1 .. Len(batch), NEW j \in 1 .. Len(batch), f[i] = f[j]
        PROVE  i = j
    <3>1. batch[i].worker = batch[j].worker
      BY <2>2 DEF OwnersMatch
    <3>2. QED
      BY <1>1, <3>1 DEF CommandsOK, OneEach
  <2>3. QED
    BY <2>1, <2>2 DEF Injection, IsInjective
<1>4. /\ Cardinality(1 .. Len(batch)) = Len(batch)
      /\ Cardinality(active_mask) \in Nat
  <2>1. Cardinality(1 .. Len(batch)) =
          IF 1 > Len(batch) THEN 0 ELSE Len(batch) - 1 + 1
    BY <1>1, FS_Interval
  <2>2. Cardinality(active_mask) \in Nat
    BY <1>2, FS_CardinalityType
  <2>3. QED
    BY <1>1, <2>1, <2>2
<1>5. f \in Surjection(1 .. Len(batch), active_mask)
  BY <1>1, <1>2, <1>3, <1>4, FS_Injection
<1>6. QED
  BY <1>1, <1>5 DEF Surjection

\* The batch is complete, and the slots are those of the commands' workers.
LEMMA VerifyStep ==
  ASSUME Good, VerifyOwners
  PROVE  BarrierOK'
<1> USE DEF Good
<1>1. /\ UNCHANGED <<owner, buffers, masks, ring, batch, quit_flag, active_mask, op_idx, engine>>
      /\ agg_pc = "fetch" /\ agg_pc' = "compute"
  BY DEF VerifyOwners, pool
<1>2. MainOK'
  BY <1>1 DEF BarrierOK, MainOK, Computing, masks
<1>3. OwnedOK'
  BY <1>1 DEF BarrierOK, OwnedOK, engine, masks
<1>4. ASSUME NEW w \in Workers PROVE TenantOK(w)' /\ InStep(w)' /\ FreshOK(w)'
  <2>1. TenantOK(w) /\ InStep(w) /\ FreshOK(w)
    BY DEF BarrierOK, EnginesOK
  <2>2. TenantOK(w)'
    BY <1>1, <2>1, PlacesStay DEF TenantOK, masks, engine
  <2>3. InStep(w)'
    BY <1>1, <2>1, PlacesStay DEF InStep, masks, engine
  <2>4. FreshOK(w)'
    BY <1>1, <2>1, PlacesStay DEF FreshOK, buffers, engine
  <2>5. QED
    BY <2>2, <2>3, <2>4
<1>5. CommandsOK'
  <2>1. ASSUME NEW c, CommandOK(c) PROVE CommandOK(c)'
    BY <1>1, <2>1, PlacesStay DEF CommandOK, engine
  <2>2. QED
    BY <1>1, <2>1 DEF BarrierOK, CommandsOK, OneEach
<1>6. BatchOK'
  <2>1. OwnersMatch /\ Len(batch) >= Cardinality(active_mask)
    BY DEF VerifyOwners
  <2>2. \A s \in active_mask : \E i \in DOMAIN batch : batch[i].slot = s
    BY <2>1, FullBatch DEF BarrierOK
  <2>3. \A i \in DOMAIN batch : owner[batch[i].slot] = batch[i].worker
    BY <2>1 DEF OwnersMatch
  <2>4. QED
    BY <1>1, <2>2, <2>3 DEF BatchOK
<1>7. QED
  BY <1>2, <1>3, <1>4, <1>5, <1>6 DEF BarrierOK, EnginesOK

\* A command of the batch, while it is being executed, is for the op the main
\* loop is at, of the worker that holds its slot.
LEMMA BatchInOp ==
  ASSUME Good, agg_pc \in {"compute", "signal"}, NEW i \in DOMAIN batch
  PROVE  /\ batch[i] \in Command
         /\ batch[i].op = op_idx
         /\ wslot[batch[i].worker] = batch[i].slot
         /\ owner[batch[i].slot] = batch[i].worker
<1> USE DEF Good
<1>1. batch[i] \in Command /\ CommandOK(batch[i]) /\ batch[i].slot \in active_mask
  BY DEF BarrierOK, CommandsOK, IInv, TypeOK
<1>2. owner[batch[i].slot] = batch[i].worker
  BY DEF BarrierOK, BatchOK
<1>3. batch[i].worker \in Workers /\ batch[i].slot \in Slots
  BY <1>1 DEF Command
<1>4. wslot[batch[i].worker] = batch[i].slot
  BY <1>2, <1>3, ConstantsOK DEF BarrierOK, OwnedOK, ConstantsOK
<1>5. wpc[batch[i].worker] # "gone"
  BY <1>3, <1>4, NoSlotIsNone DEF BarrierOK, EnginesOK, TenantOK
<1>6. QED
  BY <1>1, <1>2, <1>4, <1>5 DEF CommandOK

\* Once the batch is being fetched no engine is anywhere in a token but waiting.
LEMMA AllWait ==
  ASSUME IInv, MainOK, EnginesOK, agg_pc \in Computing, NEW w \in Workers
  PROVE  /\ Running(w) => Waiting(w)
         /\ ~Answered(w) /\ ~AtBoundary(w)
         /\ wpc[w] \notin {"prepare", "submit", "publish", "ready"}
         /\ wpc[w] = "joining" => wslot[w] \notin active_mask
<1>1. TenantOK(w) /\ InStep(w) /\ active_mask \subseteq ready_mask
  BY DEF EnginesOK, MainOK
<1>2. Running(w) => Waiting(w)
  BY <1>1 DEF TenantOK, InStep
<1>3. wpc[w] = "joining" => wslot[w] \notin active_mask
  BY <1>1 DEF TenantOK
<1>4. QED
  BY <1>2, <1>3 DEF Running, Waiting, Answered, AtBoundary, InOp, Written

\* The kernels run on the inputs their owners wrote for this op.
LEMMA ExecuteStep ==
  ASSUME Good, Execute
  PROVE  BarrierOK'
<1> USE DEF Good
<1>1. /\ UNCHANGED <<owner, input, masks, ring, batch, quit_flag, active_mask, op_idx, engine>>
      /\ agg_pc = "compute" /\ agg_pc' = "signal"
  BY DEF Execute, pool
<1>2. MainOK'
  BY <1>1 DEF BarrierOK, MainOK, Computing, masks
<1>3. OwnedOK'
  BY <1>1 DEF BarrierOK, OwnedOK, engine, masks
<1>4. ASSUME NEW w \in Workers, Waiting(w) PROVE output'[wslot[w]] \in Usable
  <2> DEFINE s == wslot[w]
             C == {batch[i] : i \in 1 .. Len(batch)}
             c == CHOOSE d \in C : d.slot = s
  <2>1. s \in Slots /\ s \in active_mask /\ owner[s] = w
    BY <1>4, RunningHolds DEF Running, InOp, Written, BarrierOK, EnginesOK, TenantOK
  <2>2. PICK i \in DOMAIN batch : batch[i].slot = s
    BY <1>1, <2>1 DEF BarrierOK, BatchOK
  <2>3. DOMAIN batch = 1 .. Len(batch) /\ Len(batch) \in Nat
    BY DEF IInv, TypeOK
  <2>4. c \in C /\ c.slot = s
    BY <2>2, <2>3
  <2>5. output'[s] = Result(c)
    BY <2>1, <2>2, <2>3 DEF Execute
  <2>6. 1 \in DOMAIN batch
    BY <2>2, <2>3
  <2>7. batch[1].op = op_idx
    BY <1>1, <2>6, BatchInOp
  <2>8. c.worker = w
    BY <1>1, <2>1, <2>3, <2>4, BatchInOp
  <2>9. input[s] = <<w, op_idx>>
    BY <1>4 DEF BarrierOK, EnginesOK, FreshOK, InStep, InOp, Written
  <2>10. QED
    BY <2>4, <2>5, <2>7, <2>8, <2>9 DEF Result, Usable
<1>5. ASSUME NEW w \in Workers PROVE TenantOK(w)' /\ InStep(w)' /\ FreshOK(w)'
  <2>1. TenantOK(w) /\ InStep(w) /\ FreshOK(w)
    BY DEF BarrierOK, EnginesOK
  <2>2. TenantOK(w)'
    BY <1>1, <2>1, PlacesStay DEF TenantOK, masks, engine
  <2>3. InStep(w)'
    BY <1>1, <2>1, PlacesStay DEF InStep, masks, engine
  <2>4. ~Answered(w)
    BY <1>1, AllWait DEF BarrierOK, Computing
  <2>5. FreshOK(w)'
    BY <1>1, <1>4, <2>1, <2>4, PlacesStay DEF FreshOK, engine
  <2>6. QED
    BY <2>2, <2>3, <2>5
<1>6. CommandsOK'
  <2>1. ASSUME NEW c, CommandOK(c) PROVE CommandOK(c)'
    BY <1>1, <2>1, PlacesStay DEF CommandOK, engine
  <2>2. QED
    BY <1>1, <2>1 DEF BarrierOK, CommandsOK, OneEach
<1>7. BatchOK'
  BY <1>1 DEF BarrierOK, BatchOK
<1>8. QED
  BY <1>2, <1>3, <1>5, <1>6, <1>7 DEF BarrierOK, EnginesOK

\* The op is done: the epoch moves for all, the ready bits of the batch are
\* cleared, and what commands are left are those of dead workers.
LEMMA SignalStep ==
  ASSUME Good, Signal
  PROVE  BarrierOK'
<1> USE DEF Good
<1>1. /\ UNCHANGED <<owner, buffers, active_slot_mask, pending_joins, pending_leaves>>
      /\ UNCHANGED <<evicted_mask, ring, quit_flag, active_mask, wpc, wslot, wop>>
      /\ agg_pc = "signal" /\ batch' = <<>>
      /\ ready_mask' = ready_mask \ active_slot_mask
      /\ \A w \in Workers : epoch_moved'[w] = TRUE
      /\ op_idx' = IF op_idx = LastOp THEN 0 ELSE op_idx + 1
      /\ agg_pc' = IF op_idx = LastOp THEN "leaves" ELSE "wait"
  BY DEF Signal, SignalDone, pool
<1>2. MainOK'
  BY <1>1 DEF BarrierOK, MainOK, Computing
<1>3. OwnedOK'
  BY <1>1 DEF BarrierOK, OwnedOK
<1>4. ASSUME NEW w \in Workers PROVE TenantOK(w)' /\ InStep(w)' /\ FreshOK(w)'
  <2>1. TenantOK(w) /\ InStep(w) /\ FreshOK(w)
    BY DEF BarrierOK, EnginesOK
  <2>2. /\ Running(w) => Waiting(w)
        /\ ~Answered(w) /\ ~AtBoundary(w)
        /\ wpc[w] \notin {"prepare", "submit", "publish", "ready"}
        /\ wpc[w] = "joining" => wslot[w] \notin active_mask
    BY <1>1, AllWait DEF BarrierOK, Computing
  <2>3. /\ wpc'[w] = wpc[w] /\ wslot'[w] = wslot[w] /\ wop'[w] = wop[w]
        /\ epoch_moved'[w]
    BY <1>1
  <2>4. /\ Answered(w)' <=> Waiting(w)
        /\ Running(w)' <=> Running(w)
        /\ ~Waiting(w)' /\ ~Written(w)' /\ ~InOp(w)' /\ ~AtBoundary(w)'
    BY <2>2, <2>3 DEF Answered, Running, Waiting, Written, InOp, AtBoundary
  <2>5. TenantOK(w)'
    BY <1>1, <2>1, <2>3, <2>4 DEF TenantOK
  <2>6. Running(w) => wslot[w] \notin ready_mask'
    BY <1>1, <2>1 DEF TenantOK, BarrierOK, MainOK
  <2>7. Waiting(w) => op_idx' = (wop[w] + 1) % (LastOp + 1)
    <3>1. Waiting(w) => wop[w] = op_idx
      BY <2>1 DEF InStep, InOp, Written
    <3>2. op_idx \in Ops
      BY DEF IInv, TypeOK
    <3>3. QED
      BY <1>1, <3>1, <3>2, NextOp
  <2>8. InStep(w)'
    BY <1>1, <2>2, <2>3, <2>4, <2>6, <2>7 DEF InStep
  <2>9. FreshOK(w)'
    BY <1>1, <2>1, <2>3, <2>4 DEF FreshOK, buffers
  <2>10. QED
    BY <2>5, <2>8, <2>9
<1>5. CommandsOK'
  <2>1. ASSUME NEW i \in DOMAIN ring PROVE CommandOK(ring[i])'
    <3>1. PICK c : c = ring[i]
      OBVIOUS
    <3>2. c \in Command /\ CommandOK(c)
      BY <3>1 DEF BarrierOK, CommandsOK, IInv, TypeOK
    <3>3. c.worker \in Workers /\ c.slot \in Slots /\ c.slot # NoSlot
      BY <3>2, NoSlotIsNone DEF Command
    <3>4. \A j \in DOMAIN batch : c.worker # batch[j].worker
      BY <3>1 DEF BarrierOK, CommandsOK, OneEach
    <3>5. ASSUME c.slot = wslot[c.worker], c.slot \in active_mask PROVE FALSE
      <4>1. PICK j \in DOMAIN batch : batch[j].slot = c.slot
        BY <1>1, <3>5 DEF BarrierOK, BatchOK
      <4>2. batch[j].worker = owner[c.slot]
        BY <1>1, <4>1, BatchInOp
      <4>3. owner[c.slot] = c.worker
        BY <3>3, <3>5 DEF IInv, PoolInv, SlotExclusive
      <4>4. QED
        BY <3>4, <4>2, <4>3
    <3>6. Posted(c.worker) => wslot[c.worker] \in active_mask
      BY <3>3 DEF BarrierOK, EnginesOK, TenantOK, Posted, Running, InOp, Written
    <3>7. CommandOK(c)'
      BY <1>1, <3>2, <3>5, <3>6 DEF CommandOK
    <3>8. QED
      BY <1>1, <3>1, <3>7 DEF CommandOK
  <2>2. OneEach'
    BY <1>1 DEF BarrierOK, CommandsOK, OneEach
  <2>3. QED
    BY <1>1, <2>1, <2>2 DEF CommandsOK
<1>6. BatchOK'
  BY <1>1 DEF BatchOK
<1>7. QED
  BY <1>2, <1>3, <1>4, <1>5, <1>6 DEF BarrierOK, EnginesOK
----------------------------------------------------------------------------
(* The ring never fills. *)

\* The commands in the ring are of different workers: the shaky ones, and others
\* that are alive and hold a slot each, which is not the one of an engine that
\* has none out.
LEMMA RoomInRing ==
  ASSUME IInv, BarrierOK, RoomForAll, NEW w \in Workers, wpc[w] = "submit"
  PROVE  Len(ring) < Capacity - 1
<1> DEFINE N == 1 .. Len(ring)
           D == {i \in N : ring[i].worker \in Shaky}
           L == N \ D
           O == Slots \ {wslot[w]}
           f == [i \in D |-> ring[i].worker]
           g == [i \in L |-> ring[i].slot]
<1>1. Len(ring) \in Nat /\ DOMAIN ring = N /\ \A i \in N : ring[i] \in Command
  BY DEF IInv, TypeOK
<1>2. wslot[w] \in Slots
  BY RunningHolds DEF Running, InOp, Written
<1>3. IsFiniteSet(N) /\ Cardinality(N) = Len(ring)
  <2>1. /\ IsFiniteSet(N)
        /\ Cardinality(N) = IF 1 > Len(ring) THEN 0 ELSE Len(ring) - 1 + 1
    BY <1>1, FS_Interval
  <2>2. QED
    BY <1>1, <2>1
<1>4. IsFiniteSet(D) /\ Cardinality(D) <= Cardinality(Shaky)
  <2>1. f \in Injection(D, Shaky)
    BY <1>1 DEF BarrierOK, CommandsOK, OneEach, Injection, IsInjective
  <2>2. QED
    BY <2>1, FS_Injection DEF RoomForAll
<1>5. IsFiniteSet(O) /\ Cardinality(O) = NumSlots - 1
  BY <1>2, SlotsFinite, FS_RemoveElement
<1>6. IsFiniteSet(L) /\ Cardinality(L) <= NumSlots - 1
  <2>1. ASSUME NEW i \in L
        PROVE  /\ ring[i].slot \in O
               /\ wslot[ring[i].worker] = ring[i].slot
               /\ ring[i].worker \in Workers
    <3>1. ring[i] \in Command /\ CommandOK(ring[i]) /\ ring[i].worker \notin Shaky
      BY <1>1 DEF BarrierOK, CommandsOK
    <3>2. ring[i].worker \in Workers /\ ring[i].slot \in Slots
      BY <3>1 DEF Command
    <3>3. wpc[ring[i].worker] \notin Killed \union {"gone"}
      BY <3>1, <3>2 DEF BarrierOK, EnginesOK, TenantOK
    <3>4. Posted(ring[i].worker) /\ wslot[ring[i].worker] = ring[i].slot
      BY <3>1, <3>3 DEF CommandOK
    <3>5. ring[i].worker # w
      BY <3>4 DEF Posted, Waiting
    <3>6. ring[i].slot # wslot[w]
      BY <1>2, <3>2, <3>4, <3>5, NoSlotIsNone DEF IInv, PoolInv, SlotExclusive
    <3>7. QED
      BY <3>2, <3>4, <3>6
  <2>2. g \in Injection(L, O)
    <3>1. g \in [L -> O]
      BY <2>1
    <3>2. ASSUME NEW i \in L, NEW j \in L, g[i] = g[j] PROVE i = j
      <4>1. ring[i].slot = ring[j].slot /\ ring[i].slot \in Slots
        BY <2>1, <3>2
      <4>2. ring[i].worker = ring[j].worker
        BY <2>1, <4>1, NoSlotIsNone DEF IInv, PoolInv, SlotExclusive
      <4>3. QED
        BY <1>1, <4>2 DEF BarrierOK, CommandsOK, OneEach
    <3>3. QED
      BY <3>1, <3>2 DEF Injection, IsInjective
  <2>3. QED
    BY <1>5, <2>2, FS_Injection
<1>7. Cardinality(N) = Cardinality(D) + Cardinality(L)
  <2>1. N = D \union L /\ D \intersect L = {}
    OBVIOUS
  <2>2. Cardinality(D \union L) =
          Cardinality(D) + Cardinality(L) - Cardinality(D \intersect L)
    BY <1>4, <1>6, FS_Union
  <2>3. Cardinality(D \intersect L) = 0
    BY <2>1, FS_EmptySet
  <2>4. Cardinality(D) \in Nat /\ Cardinality(L) \in Nat
    BY <1>4, <1>6, FS_CardinalityType
  <2>5. Cardinality(N) = Cardinality(D \union L)
    BY <2>1
  <2> HIDE DEF N, D, L
  <2>6. QED
    BY <2>2, <2>3, <2>4, <2>5
<1>8. /\ Cardinality(D) \in Nat /\ Cardinality(L) \in Nat
      /\ Cardinality(Shaky) \in Nat /\ NumSlots \in Nat /\ Capacity \in Nat
  BY <1>4, <1>6, FS_CardinalityType, ConstantsOK DEF RoomForAll, ConstantsOK
<1>9. Capacity > NumSlots + Cardinality(Shaky)
  BY DEF RoomForAll
<1> HIDE DEF N, D, L, O, f, g
<1>10. QED
  BY <1>3, <1>4, <1>6, <1>7, <1>8, <1>9
----------------------------------------------------------------------------
(* The invariant holds. *)

\* Every step of an engine keeps the barrier, and the ones that faults would
\* allow do not happen.
LEMMA EngineStep ==
  ASSUME Good, OnlyDeaths, RoomForAll, NEW w \in Workers, Worker(w)
  PROVE  BarrierOK'
<1> USE DEF Good
<1>1. TenantOK(w) /\ ~quit_flag
  BY DEF BarrierOK, EnginesOK, MainOK
<1>2. ASSUME NEW f \in FaultKinds, Hit(w, f) PROVE f = "die"
  BY <1>2 DEF OnlyDeaths
<1>3. ~AcceptRaises(w)
  BY <1>2 DEF AcceptRaises, FaultKinds
<1>4. ~ActivationTimeout(w)
  BY <1>1, <1>2 DEF ActivationTimeout, Unactivated, Goto, TenantOK, FaultKinds, Up
<1>5. ~AbortEvicted(w)
  BY <1>1 DEF AbortEvicted, Goto, TenantOK, Running, AtBoundary
<1>6. ~TokenRaises(w)
  <2>1. ~Hit(w, "raise")
    BY <1>2 DEF FaultKinds
  <2>2. ASSUME wpc[w] = "submit", Len(ring) >= Capacity - 1 PROVE FALSE
    <3>1. Len(ring) < Capacity - 1
      BY <2>2, RoomInRing
    <3>2. Len(ring) \in Nat /\ Capacity \in Nat
      BY ConstantsOK DEF ConstantsOK, IInv, TypeOK
    <3>3. QED
      BY <2>2, <3>1, <3>2
  <2>3. QED
    BY <1>1, <2>1, <2>2 DEF TokenRaises
<1>7. CASE ClaimRefused(w)
  <2>1. UNCHANGED vars
    BY <1>7 DEF ClaimRefused
  <2>2. OwnStep(w, wslot[w]) /\ UNCHANGED <<owner, wslot, ring, ready_mask>>
    BY <2>1 DEF OwnStep, vars, pool, buffers, masks, main, engine
  <2>3. wpc[w] = "idle"
    BY <1>7 DEF ClaimRefused
  <2>4. TenantOK(w)' /\ InStep(w)' /\ FreshOK(w)'
    BY <1>1, <2>1, <2>3 DEF TenantOK, InStep, FreshOK, Running, AtBoundary, InOp, Answered, Written, Waiting, Killed, vars, pool, buffers, masks, main, engine
  <2>5. QED
    BY <2>2, <2>3, <2>4, SilentStepKeeps DEF Posted, Waiting, Killed
<1>8. QED
  BY <1>3, <1>4, <1>5, <1>6, <1>7, JoinSteps, BoundarySteps, PrepareStep, ReadyStep, OutputSteps, LeaveSteps, DeathSteps, SubmitStep, PublishStep, ReleaseSteps, ClaimStep
     DEF Worker, Step

\* So does every step of the main loop, or it has ended.
LEMMA MainStep ==
  ASSUME Good, OnlyDeaths, Aggregator, Up'
  PROVE  BarrierOK'
<1>1. ~SpinOut /\ ~OwnerMismatch
  BY DEF SpinOut, OwnerMismatch, Up
<1>2. QED
  BY <1>1, TakeLeavesStep, TakeJoinsStep, AllReadyStep, MidOpLeaveStep, EvictStep, FetchStep, VerifyStep, ExecuteStep, SignalStep
     DEF Aggregator

\* The main loop that has ended does not come back.
LEMMA DownStays ==
  ASSUME IInv, [Next]_vars, ~Up
  PROVE  ~Up'
<1>1. ASSUME Aggregator PROVE FALSE
  BY <1>1 DEF Up, Aggregator, TakeLeaves, TakeJoins, AllReady, MidOpLeave, EvictStuck, FetchOne, SpinOut, VerifyOwners, OwnerMismatch, Execute, Signal
<1>2. ASSUME NEW w \in Workers, Worker(w) PROVE UNCHANGED agg_pc
  BY <1>2 DEF Worker, Step, main, vars, Claim, ClaimRefused, AcceptRequest, AcceptRaises, SignalJoin, Activated, ActivationTimeout, BeginToken, AbortEvicted, Prepare, Submit, Publish, SignalReady, WaitForEpoch, GetOutput, NextToken, Complete, LeaveAcked, TokenRaises, Release, Die, ConnectionLost, DeferredRelease
<1>3. QED
  BY <1>1, <1>2 DEF Next, vars, main, Up

\* Only release_slot frees a slot, and zeroes it; an engine writes its own, and
\* the kernels those of the batch, which have owners.
LEMMA FreedStep ==
  ASSUME IInv, IInv', FreedSlotsZero, Up => BarrierOK, [Next]_vars
  PROVE  FreedSlotsZero'
<1>1. CASE Aggregator
  <2>1. UNCHANGED <<owner, input>>
    BY <1>1, AggregatorLeavesPool
  <2>2. CASE Execute
    <3>1. ASSUME NEW s \in Slots, owner[s] = NoWorker PROVE output'[s] = output[s]
      <4>1. BarrierOK
        BY <2>2 DEF Execute, Up
      <4>2. s \notin active_mask
        BY <3>1, <4>1 DEF BarrierOK, OwnedOK, MainOK
      <4>3. \A i \in 1 .. Len(batch) : batch[i].slot # s
        BY <4>1, <4>2 DEF BarrierOK, CommandsOK, IInv, TypeOK
      <4>4. QED
        BY <2>2, <4>3 DEF Execute
    <3>2. QED
      BY <2>1, <3>1 DEF FreedSlotsZero
  <2>3. CASE ~Execute
    <3>1. UNCHANGED output
      BY <1>1, <2>3 DEF Aggregator, TakeLeaves, TakeJoins, AllReady, MidOpLeave, EvictStuck, FetchOne, SpinOut, VerifyOwners, OwnerMismatch, Signal, buffers
    <3>2. QED
      BY <2>1, <3>1 DEF FreedSlotsZero
  <2>4. QED
    BY <2>2, <2>3
<1>2. ASSUME NEW w \in Workers, NEW slots, ReleaseSlots(w, slots)
      PROVE  FreedSlotsZero'
  BY <1>2, ConstantsOK DEF ReleaseSlots, FreedSlotsZero, ConstantsOK
<1>3. ASSUME NEW w \in Workers, Claim(w) PROVE FreedSlotsZero'
  <2>1. PICK s \in free_mask : owner' = [owner EXCEPT ![s] = w]
    BY <1>3 DEF Claim
  <2>2. UNCHANGED <<input, output>>
    BY <1>3 DEF Claim, buffers
  <2>3. \A t \in Slots : owner'[t] = NoWorker => owner[t] = NoWorker
    BY <2>1, ConstantsOK DEF ConstantsOK, IInv, TypeOK
  <2>4. QED
    BY <2>2, <2>3 DEF FreedSlotsZero
<1>4. ASSUME NEW w \in Workers, Prepare(w) PROVE FreedSlotsZero'
  <2>1. owner[wslot[w]] = w /\ w # NoWorker
    BY <1>4, RunningHolds, ConstantsOK DEF Prepare, Goto, Running, InOp, ConstantsOK
  <2>2. \A t \in Slots : owner[t] = NoWorker => t # wslot[w]
    BY <2>1
  <2>3. QED
    BY <1>4, <2>2 DEF Prepare, pool, FreedSlotsZero, IInv, TypeOK
<1>5. ASSUME UNCHANGED <<owner, buffers>> PROVE FreedSlotsZero'
  BY <1>5 DEF FreedSlotsZero, buffers
<1>6. ASSUME NEW w \in Workers, Worker(w) PROVE FreedSlotsZero'
  <2>1. CASE Release(w) \/ DeferredRelease(w)
    BY <1>2, <2>1 DEF Release, DeferredRelease
  <2>2. CASE Claim(w) \/ Prepare(w)
    BY <1>3, <1>4, <2>2
  <2>3. CASE ~(Release(w) \/ DeferredRelease(w) \/ Claim(w) \/ Prepare(w))
    <3>1. UNCHANGED <<owner, buffers>>
      BY <1>6, <2>3 DEF Worker, Step, vars, pool, ClaimRefused, AcceptRequest, AcceptRaises, SignalJoin, Activated, ActivationTimeout, BeginToken, AbortEvicted, Submit, Publish, SignalReady, WaitForEpoch, GetOutput, NextToken, Complete, LeaveAcked, TokenRaises, Die, ConnectionLost
    <3>2. QED
      BY <1>5, <3>1
  <2>4. QED
    BY <2>1, <2>2, <2>3
<1>7. CASE UNCHANGED vars
  BY <1>5, <1>7 DEF vars, pool
<1>8. QED
  BY <1>1, <1>6, <1>7 DEF Next

\* The barrier is as it should be at the start: nobody is in it.
LEMMA InitDInv == Init => DInv
<1> SUFFICES ASSUME Init PROVE DInv
  OBVIOUS
<1>1. IInv
  BY InitIInv
<1>2. FreedSlotsZero
  BY DEF Init, FreedSlotsZero
<1>3. MainOK /\ OwnedOK /\ BatchOK
  BY DEF Init, MainOK, OwnedOK, BatchOK, Computing
<1>4. EnginesOK
  BY DEF Init, EnginesOK, TenantOK, InStep, FreshOK, Running, AtBoundary, InOp, Answered, Written, Waiting, Killed
<1>5. CommandsOK
  BY DEF Init, CommandsOK, OneEach
<1>6. QED
  BY <1>1, <1>2, <1>3, <1>4, <1>5 DEF DInv, BarrierOK

\* A step in which nothing happens keeps it.
LEMMA StutterKeeps ==
  ASSUME BarrierOK, UNCHANGED vars
  PROVE  BarrierOK'
<1> USE DEF vars, pool, buffers, masks, main, engine
<1>1. \A w \in Workers : TenantOK(w)' /\ InStep(w)' /\ FreshOK(w)'
  <2>1. ASSUME NEW w \in Workers PROVE TenantOK(w)' /\ InStep(w)' /\ FreshOK(w)'
    <3>1. TenantOK(w) /\ InStep(w) /\ FreshOK(w)
      BY DEF BarrierOK, EnginesOK
    <3>2. TenantOK(w)'
      BY <3>1, PlacesStay DEF TenantOK
    <3>3. InStep(w)'
      BY <3>1, PlacesStay DEF InStep
    <3>4. FreshOK(w)'
      BY <3>1, PlacesStay DEF FreshOK
    <3>5. QED
      BY <3>2, <3>3, <3>4
  <2>2. QED
    BY <2>1
<1>2. \A c : CommandOK(c) => CommandOK(c)'
  BY PlacesStay DEF CommandOK
<1>3. CommandsOK'
  BY <1>2 DEF BarrierOK, CommandsOK, OneEach
<1>4. MainOK' /\ OwnedOK' /\ BatchOK'
  BY DEF BarrierOK, MainOK, OwnedOK, BatchOK
<1>5. QED
  BY <1>1, <1>3, <1>4 DEF BarrierOK, EnginesOK

\* Deaths keep it, as long as the ring has room for what the dead leave in it.
LEMMA DInvStep ==
  ASSUME OnlyDeaths, RoomForAll, DInv, [Next]_vars
  PROVE  DInv'
<1>1. IInv'
  BY TypeStep, PoolStep, BufferStep DEF DInv, IInv
<1>2. FreedSlotsZero'
  BY <1>1, FreedStep DEF DInv
<1>3. ASSUME Up' PROVE BarrierOK'
  <2>1. Good
    BY <1>1, <1>3, DownStays DEF DInv, Good
  <2>2. CASE Aggregator
    BY <1>3, <2>1, <2>2, MainStep
  <2>3. ASSUME NEW w \in Workers, Worker(w) PROVE BarrierOK'
    BY <2>1, <2>3, EngineStep
  <2>4. CASE UNCHANGED vars
    BY <2>1, <2>4, StutterKeeps DEF Good
  <2>5. QED
    BY <2>2, <2>3, <2>4 DEF Next
<1>4. QED
  BY <1>1, <1>2, <1>3 DEF DInv

\* So the barrier is as it should be for as long as the main loop runs.
LEMMA DeathsInductive ==
  ASSUME OnlyDeaths, RoomForAll
  PROVE  Spec => []DInv
<1>1. DInv /\ [Next]_vars => DInv'
  BY DInvStep
<1>2. QED
  BY InitDInv, <1>1, PTL DEF Spec

\* Workers may be killed at any point but with their join pending: the engines
\* that are not hit read only what was computed from the input they wrote for
\* the op they are at, through evictions, leaves that the connection threads
\* signal, dangling commands and deferred releases.
THEOREM SurvivorsUnharmed ==
  ASSUME OnlyDeaths, RoomForAll
  PROVE  Spec => []SurvivorsReadFresh
<1>1. DInv => SurvivorsReadFresh
  <2>1. ASSUME DInv, Up, NEW w \in Workers, wpc[w] = "get"
        PROVE  output[wslot[w]] \in {"fresh", "missampled"}
    BY <2>1 DEF DInv, BarrierOK, EnginesOK, FreshOK, Answered, Usable
  <2>2. QED
    BY <2>1 DEF SurvivorsReadFresh, ReadsFresh, Up
<1>2. QED
  BY DeathsInductive, <1>1, PTL

\* A slot that nobody owns is zero and stays so: no kernel runs on a slot between
\* its release and its next claim, whoever was killed.
THEOREM FreedStayZero ==
  ASSUME OnlyDeaths, RoomForAll
  PROVE  Spec => []FreedSlotsZero
<1>1. DInv => FreedSlotsZero
  BY DEF DInv
<1>2. QED
  BY DeathsInductive, <1>1, PTL

\* While the main loop runs, submit_slot_command finds room, whatever the dead
\* left in the ring: "command ring buffer FULL" is not thrown.
THEOREM RingNeverFull ==
  ASSUME OnlyDeaths, RoomForAll
  PROVE  Spec => []RingHasRoom
<1>1. ASSUME DInv PROVE RingHasRoom
  BY <1>1, RoomInRing DEF DInv, Up, RingHasRoom
<1>2. QED
  BY DeathsInductive, <1>1, PTL
----------------------------------------------------------------------------
(* Where no fault hits anybody, the main loop never ends. *)

\* No worker may be hit, and the ring holds a command of every slot, and one more
\* (QUEUE_CAPACITY is 512, MAX_SLOTS 128).
NothingFails == Shaky = {} /\ Capacity > NumSlots

\* No command is lost: it is in the ring until it is in the batch.
InRing(w) == \E i \in DOMAIN ring : ring[i].worker = w
InBatch(w) == \E i \in DOMAIN batch : batch[i].worker = w
NoneLost == \A w \in Workers : Posted(w) => InRing(w) \/ InBatch(w)

HInv == DInv /\ Up /\ NoneLost

\* It is the case of no deaths of what is proved above.
LEMMA NothingIsDeaths ==
  ASSUME NothingFails
  PROVE  OnlyDeaths /\ RoomForAll
<1>1. OnlyDeaths
  BY DEF NothingFails, OnlyDeaths, Hit
<1>2. RoomForAll
  BY FS_EmptySet, ConstantsOK DEF NothingFails, RoomForAll, ConstantsOK
<1>3. QED
  BY <1>1, <1>2

\* Every command is one of an engine that is within an op, for its slot.
LEMMA EveryCommandPosted ==
  ASSUME HInv, NothingFails, NEW c \in Command, CommandOK(c)
  PROVE  /\ Posted(c.worker) /\ c.slot = wslot[c.worker]
         /\ c.slot \in active_mask /\ c.op = op_idx
         /\ owner[c.slot] = c.worker
         /\ c.ready \/ wpc[c.worker] = "publish"
<1>1. IInv /\ BarrierOK /\ c.worker \in Workers
  BY DEF HInv, DInv, Command
<1>2. TenantOK(c.worker)
  BY <1>1 DEF BarrierOK, EnginesOK
<1>3. wpc[c.worker] \notin Killed \union {"gone"}
  BY <1>2 DEF TenantOK, NothingFails
<1>4. Posted(c.worker) /\ c.slot = wslot[c.worker]
  BY <1>3 DEF CommandOK
<1>5. Running(c.worker)
  BY <1>4 DEF Posted, Running, InOp, Written
<1>6. QED
  BY <1>1, <1>2, <1>3, <1>4, <1>5, RunningHolds DEF CommandOK, TenantOK

\* VERIFY_SLOT_OWNER never throws.
LEMMA NoMismatch ==
  ASSUME HInv, NothingFails
  PROVE  ~OwnerMismatch
<1>1. \A i \in DOMAIN batch : batch[i] \in Command /\ CommandOK(batch[i])
  BY DEF HInv, DInv, BarrierOK, CommandsOK, IInv, TypeOK
<1>2. \A i \in DOMAIN batch : owner[batch[i].slot] = batch[i].worker
  BY <1>1, EveryCommandPosted
<1>3. DOMAIN batch = 1 .. Len(batch)
  BY DEF HInv, DInv, IInv, TypeOK
<1>4. OwnersMatch
  BY <1>2, <1>3 DEF OwnersMatch
<1>5. QED
  BY <1>4 DEF OwnerMismatch

\* The fetch finds the command of every active slot: the main loop never spins on
\* an entry that nobody publishes.
LEMMA NoSpinOut ==
  ASSUME HInv, NothingFails
  PROVE  ~SpinOut
<1> SUFFICES ASSUME SpinOut PROVE FALSE
  OBVIOUS
<1>1. IInv /\ BarrierOK
  BY DEF HInv, DInv
<1>2. agg_pc = "fetch" /\ Len(batch) < Cardinality(active_mask)
  BY DEF SpinOut
<1>3. \A w \in Workers : wpc[w] \notin {"prepare", "submit", "publish", "ready"}
  BY <1>1, <1>2, AllWait DEF BarrierOK, Computing
<1>4. ring = <<>>
  <2>1. SUFFICES ASSUME ring # <<>> PROVE FALSE
    OBVIOUS
  <2>2. 1 \in DOMAIN ring /\ Head(ring) = ring[1] /\ ring[1] \in Command
    BY <1>1, <2>1 DEF IInv, TypeOK
  <2>3. CommandOK(ring[1])
    BY <1>1, <2>2 DEF BarrierOK, CommandsOK
  <2>4. ring[1].worker \in Workers
    BY <2>2 DEF Command
  <2>5. ring[1].ready
    BY <1>3, <2>2, <2>3, <2>4, EveryCommandPosted
  <2>6. QED
    BY <2>1, <2>2, <2>5 DEF SpinOut
<1>5. \A s \in active_mask : \E i \in DOMAIN batch : batch[i].slot = s
  <2>1. ASSUME NEW s \in active_mask PROVE \E i \in DOMAIN batch : batch[i].slot = s
    <3>1. s \in Slots /\ s \in ready_mask /\ s \in active_slot_mask
      BY <1>1, <1>2 DEF IInv, TypeOK, BarrierOK, MainOK, Computing
    <3>2. owner[s] \in Workers /\ wslot[owner[s]] = s
      BY <1>1, <3>1 DEF IInv, TypeOK, BarrierOK, OwnedOK
    <3>3. TenantOK(owner[s]) /\ InStep(owner[s])
      BY <1>1, <3>2 DEF BarrierOK, EnginesOK
    <3>4. wpc[owner[s]] \notin {"idle", "gone", "claimed", "pending", "joining", "leaving", "releasing", "dead", "draining"}
      BY <3>1, <3>2, <3>3, NoSlotIsNone DEF TenantOK, Killed, NothingFails
    <3>5. Running(owner[s])
      BY <1>1, <3>2, <3>4 DEF IInv, TypeOK, WorkerPC, Running, AtBoundary, InOp, Answered, Written, Waiting
    <3>6. Posted(owner[s])
      BY <3>1, <3>2, <3>3, <3>5 DEF InStep, Posted
    <3>7. PICK i \in DOMAIN batch : batch[i].worker = owner[s]
      BY <1>4, <3>2, <3>6 DEF HInv, NoneLost, InRing, InBatch
    <3>8. batch[i] \in Command /\ CommandOK(batch[i])
      BY <1>1 DEF BarrierOK, CommandsOK, IInv, TypeOK
    <3>9. QED
      BY <3>2, <3>7, <3>8, EveryCommandPosted
  <2>2. QED
    BY <2>1
<1>6. Cardinality(active_mask) <= Len(batch)
  <2> DEFINE f == [i \in 1 .. Len(batch) |-> batch[i].slot]
  <2>1. Len(batch) \in Nat /\ DOMAIN batch = 1 .. Len(batch)
    BY <1>1 DEF IInv, TypeOK
  <2>2. f \in Surjection(1 .. Len(batch), active_mask)
    BY <1>1, <1>5, <2>1 DEF BarrierOK, CommandsOK, Surjection
  <2>3. /\ IsFiniteSet(1 .. Len(batch))
        /\ Cardinality(1 .. Len(batch)) =
             IF 1 > Len(batch) THEN 0 ELSE Len(batch) - 1 + 1
    BY <2>1, FS_Interval
  <2>4. Cardinality(active_mask) <= Cardinality(1 .. Len(batch))
    BY <2>2, <2>3, FS_Surjection
  <2>5. QED
    BY <2>1, <2>3, <2>4
<1>7. Len(batch) \in Nat /\ Cardinality(active_mask) \in Nat
  BY <1>1, SlotsFinite, FS_Subset, FS_CardinalityType DEF IInv, TypeOK
<1>8. QED
  BY <1>2, <1>6, <1>7

\* A step that leaves the ring and the batch alone, and lets nobody else post.
LEMMA QuietKeepsCommands ==
  ASSUME NoneLost, UNCHANGED <<ring, batch>>,
         \A w \in Workers : Posted(w)' => Posted(w)
  PROVE  NoneLost'
  BY DEF NoneLost, InRing, InBatch

\* A command goes from the ring into the batch, and from there when its op is done.
LEMMA NoneLostStep ==
  ASSUME HInv, NothingFails, [Next]_vars
  PROVE  NoneLost'
<1>1. IInv /\ BarrierOK /\ NoneLost
  BY DEF HInv, DInv
<1>2. CASE FetchOne
  <2>1. /\ 1 \in DOMAIN ring /\ Head(ring) = ring[1] /\ ring[1] \in Command
        /\ \A i \in DOMAIN ring : i = 1 \/ (i - 1 \in DOMAIN ring' /\ ring'[i - 1] = ring[i])
    BY <1>1, <1>2 DEF FetchOne, IInv, TypeOK
  <2>2. ring[1].slot \in active_mask
    BY <1>1, <2>1, EveryCommandPosted DEF BarrierOK, CommandsOK
  <2>3. /\ DOMAIN batch' = DOMAIN batch \union {Len(batch) + 1}
        /\ batch'[Len(batch) + 1] = ring[1]
        /\ \A i \in DOMAIN batch : batch'[i] = batch[i]
    BY <1>1, <1>2, <2>1, <2>2 DEF FetchOne, IInv, TypeOK
  <2>4. ASSUME NEW w \in Workers, InRing(w) \/ InBatch(w) PROVE InRing(w)' \/ InBatch(w)'
    BY <2>1, <2>3, <2>4 DEF InRing, InBatch
  <2>5. \A w \in Workers : Posted(w)' <=> Posted(w)
    BY <1>2, PlacesStay DEF FetchOne
  <2>6. QED
    BY <1>1, <2>4, <2>5 DEF NoneLost
<1>3. CASE AllReady
  <2>1. batch = <<>> /\ batch' = <<>>
    BY <1>1, <1>3 DEF AllReady, BarrierOK, MainOK, Computing
  <2>2. \A w \in Workers : Posted(w)' <=> Posted(w)
    BY <1>3, PlacesStay DEF AllReady
  <2>3. UNCHANGED ring
    BY <1>3 DEF AllReady
  <2>4. QED
    BY <1>1, <2>1, <2>2, <2>3, QuietKeepsCommands
<1>4. CASE Signal
  <2>1. ASSUME NEW w \in Workers PROVE ~Posted(w)'
    <3>1. wpc[w] \notin {"publish", "ready"}
      BY <1>1, <1>4, AllWait DEF Signal, BarrierOK, Computing
    <3>2. QED
      BY <1>4, <3>1 DEF Signal, SignalDone, Posted, Waiting
  <2>2. QED
    BY <2>1 DEF NoneLost
<1>5. CASE Aggregator /\ ~FetchOne /\ ~AllReady /\ ~Signal
  <2>1. ~SpinOut /\ ~OwnerMismatch
    BY NoSpinOut, NoMismatch
  <2>2. UNCHANGED <<ring, batch, engine>>
    BY <1>5, <2>1 DEF Aggregator, TakeLeaves, TakeJoins, MidOpLeave, EvictStuck, VerifyOwners, Execute
  <2>3. QED
    BY <1>1, <2>2, PlacesStay, QuietKeepsCommands
<1>6. ASSUME NEW w \in Workers, Submit(w) PROVE NoneLost'
  <2>1. /\ ring' = Append(ring, [slot |-> wslot[w], worker |-> w, op |-> wop[w], ready |-> FALSE])
        /\ UNCHANGED <<batch, epoch_moved>>
        /\ \A v \in Workers \ {w} : wpc'[v] = wpc[v]
    BY <1>1, <1>6 DEF Submit, Goto, main, IInv, TypeOK
  <2>2. /\ DOMAIN ring' = DOMAIN ring \union {Len(ring) + 1}
        /\ ring'[Len(ring) + 1].worker = w
        /\ \A i \in DOMAIN ring : ring'[i] = ring[i]
    BY <1>1, <2>1 DEF IInv, TypeOK
  <2>3. ASSUME NEW v \in Workers, Posted(v)' PROVE InRing(v)' \/ InBatch(v)'
    <3>1. CASE v = w
      BY <2>2, <3>1 DEF InRing
    <3>2. CASE v # w
      <4>1. Posted(v)
        BY <2>1, <2>3, <3>2 DEF Posted, Waiting
      <4>2. InRing(v) \/ InBatch(v)
        BY <1>1, <4>1 DEF NoneLost
      <4>3. QED
        BY <2>1, <2>2, <4>2 DEF InRing, InBatch
    <3>3. QED
      BY <3>1, <3>2
  <2>4. QED
    BY <2>3 DEF NoneLost
<1>7. ASSUME NEW w \in Workers, Publish(w) PROVE NoneLost'
  <2>1. /\ DOMAIN ring' = DOMAIN ring
        /\ \A i \in DOMAIN ring : ring[i] \in Command /\
             ring'[i] = [ring[i] EXCEPT !.ready = @ \/ ring[i].worker = w]
    BY <1>1, <1>7 DEF Publish, IInv, TypeOK
  <2>2. \A i \in DOMAIN ring : ring'[i].worker = ring[i].worker
    BY <2>1 DEF Command
  <2>3. \A v \in Workers : InRing(v) => InRing(v)'
    BY <2>1, <2>2 DEF InRing
  <2>4. UNCHANGED <<batch, epoch_moved>> /\ \A v \in Workers : Posted(v)' => Posted(v)
    BY <1>1, <1>7 DEF Publish, Goto, main, Posted, Waiting, IInv, TypeOK
  <2>5. QED
    BY <1>1, <2>3, <2>4 DEF NoneLost, InBatch
<1>8. ASSUME NEW w \in Workers, Worker(w), ~Submit(w), ~Publish(w) PROVE NoneLost'
  <2>1. UNCHANGED <<ring, batch>>
    BY <1>8 DEF Worker, Step, main, vars, Claim, ClaimRefused, AcceptRequest, AcceptRaises, SignalJoin, Activated, ActivationTimeout, BeginToken, AbortEvicted, Prepare, SignalReady, WaitForEpoch, GetOutput, NextToken, Complete, LeaveAcked, TokenRaises, Release, Die, ConnectionLost, DeferredRelease
  <2>2. ASSUME NEW v \in Workers, Posted(v)' PROVE Posted(v)
    <3>1. CASE v # w
      BY <1>1, <1>8, <2>2, <3>1 DEF Posted, Waiting, IInv, TypeOK, Worker, Step, Goto, main, engine, vars, Claim, ClaimRefused, AcceptRequest, AcceptRaises, SignalJoin, Activated, ActivationTimeout, BeginToken, AbortEvicted, Prepare, SignalReady, WaitForEpoch, GetOutput, NextToken, Complete, LeaveAcked, TokenRaises, Release, Die, ConnectionLost, DeferredRelease
    <3>2. CASE v = w
      BY <1>1, <1>8, <2>2, <3>2 DEF Posted, Waiting, IInv, TypeOK, Worker, Step, Goto, main, engine, vars, Claim, ClaimRefused, AcceptRequest, AcceptRaises, SignalJoin, Activated, ActivationTimeout, BeginToken, AbortEvicted, Prepare, SignalReady, WaitForEpoch, GetOutput, NextToken, Complete, LeaveAcked, TokenRaises, Release, Die, ConnectionLost, DeferredRelease
    <3>3. QED
      BY <3>1, <3>2
  <2>3. QED
    BY <1>1, <2>1, <2>2, QuietKeepsCommands
<1>9. CASE UNCHANGED vars
  <2>1. UNCHANGED <<ring, batch, engine>>
    BY <1>9 DEF vars, main
  <2>2. QED
    BY <1>1, <2>1, PlacesStay, QuietKeepsCommands
<1>10. QED
  BY <1>2, <1>3, <1>4, <1>5, <1>6, <1>7, <1>8, <1>9 DEF Next

\* Without faults the main loop runs for ever and no command is lost.
LEMMA NothingFailsInductive ==
  ASSUME NothingFails
  PROVE  Spec => []HInv
<1>1. OnlyDeaths /\ RoomForAll
  BY NothingIsDeaths
<1>2. Init => HInv
  BY InitDInv DEF Init, HInv, Up, NoneLost, Posted, Waiting
<1>3. HInv /\ [Next]_vars => HInv'
  <2>1. SUFFICES ASSUME HInv, [Next]_vars PROVE HInv'
    OBVIOUS
  <2>2. DInv'
    BY <1>1, <2>1, DInvStep DEF HInv
  <2>3. NoneLost'
    BY <2>1, NoneLostStep
  <2>4. Up'
    <3>1. ASSUME Aggregator PROVE Up'
      <4>1. ~SpinOut /\ ~OwnerMismatch
        BY <2>1, NoSpinOut, NoMismatch
      <4>2. QED
        BY <2>1, <3>1, <4>1 DEF HInv, Up, Aggregator, TakeLeaves, TakeJoins, AllReady, MidOpLeave, EvictStuck, Drop, FetchOne, VerifyOwners, Execute, Signal
    <3>2. ASSUME NEW w \in Workers, Worker(w) PROVE UNCHANGED agg_pc
      BY <3>2 DEF Worker, Step, main, vars, Claim, ClaimRefused, AcceptRequest, AcceptRaises, SignalJoin, Activated, ActivationTimeout, BeginToken, AbortEvicted, Prepare, Submit, Publish, SignalReady, WaitForEpoch, GetOutput, NextToken, Complete, LeaveAcked, TokenRaises, Release, Die, ConnectionLost, DeferredRelease
    <3>3. QED
      BY <2>1, <3>1, <3>2 DEF Next, HInv, Up, vars, main
  <2>5. QED
    BY <2>2, <2>3, <2>4 DEF HInv
<1>4. QED
  BY <1>2, <1>3, PTL DEF Spec

\* Neither an owner mismatch nor a command that never comes ends the main loop.
THEOREM MainLoopRuns ==
  ASSUME NothingFails
  PROVE  Spec => []AggregatorUp
<1>1. HInv => AggregatorUp
  BY DEF HInv, Up, AggregatorUp
<1>2. QED
  BY NothingFailsInductive, <1>1, PTL

\* Every batch holds one command per slot, all for the op the main loop is at;
\* engines and main loop are at the same op, or exactly one apart once the epoch
\* has moved. The kernels rely on it: they take the op from the first command.
THEOREM InLockStep ==
  ASSUME NothingFails
  PROVE  Spec => []LockStep
<1>1. ASSUME HInv PROVE LockStep
  <2>1. IInv /\ BarrierOK
    BY <1>1 DEF HInv, DInv
  <2>2. ASSUME NEW i \in DOMAIN batch
        PROVE  /\ batch[i] \in Command /\ batch[i].op = op_idx
               /\ owner[batch[i].slot] = batch[i].worker
    <3>1. batch[i] \in Command /\ CommandOK(batch[i])
      BY <2>1 DEF BarrierOK, CommandsOK, IInv, TypeOK
    <3>2. QED
      BY <1>1, <3>1, EveryCommandPosted
  <2>3. BatchInStep
    <3>1. ASSUME NEW i \in DOMAIN batch, NEW j \in DOMAIN batch, i # j
          PROVE  batch[i].slot # batch[j].slot
      <4>1. batch[i].worker # batch[j].worker
        BY <2>1, <3>1 DEF BarrierOK, CommandsOK, OneEach
      <4>2. QED
        BY <2>2, <4>1
    <3>2. QED
      BY <2>2, <3>1 DEF BatchInStep
  <2>4. ASSUME NEW w \in Workers
        PROVE  /\ InOp(w) => wslot[w] \in active_mask /\ wop[w] = op_idx
               /\ Answered(w) => op_idx = (wop[w] + 1) % (LastOp + 1)
    BY <2>1 DEF BarrierOK, EnginesOK, TenantOK, InStep, Running
  <2>5. QED
    BY <2>3, <2>4 DEF LockStep, InOp, Written, Waiting, Answered
<1>2. QED
  BY NothingFailsInductive, <1>1, PTL
=============================================================================
