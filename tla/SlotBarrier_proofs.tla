------------------------ MODULE SlotBarrier_proofs ------------------------
(***************************************************************************)
(* Proofs about SlotBarrier for every number of workers and slots, every   *)
(* number of ops per token and every set of faults.                        *)
(***************************************************************************)
EXTENDS SlotBarrier, SequenceTheorems, WellFoundedInduction, TLAPS

\* A function on 1 .. n is a sequence.
LEMMA FunctionIsSeq ==
  ASSUME NEW S, NEW n \in Nat, NEW f \in [1 .. n -> S]
  PROVE  f \in Seq(S)
  OBVIOUS

\* A nonempty set of slots has a greatest one.
LEMMA LastSlotExists ==
  ASSUME NEW T, T \subseteq Slots, T # {}
  PROVE  \E s \in T : \A t \in T : t <= s
<1> DEFINE R == {p \in Nat \X Nat : p[1] < p[2]}
           M == {NumSlots - 1 - t : t \in T}
<1> HIDE DEF R, M
<1>1. M \subseteq Nat /\ M # {}
  <2>1. \A t \in T : NumSlots - 1 - t \in Nat
    BY ConstantsOK DEF ConstantsOK, Slots
  <2>2. QED
    BY <2>1, Zenon DEF M
<1>2. \E x \in M : \A y \in M : ~ (<<y, x>> \in R)
  <2>1. IsWellFoundedOn(R, Nat)
    BY NatLessThanWellFounded DEF R, OpToRel
  <2>2. QED
    BY <1>1, <2>1, WFMin
<1>3. PICK x \in M : \A y \in M : ~ (<<y, x>> \in R)
  BY <1>2
<1>4. \A y \in M : x <= y
  <2>1. ASSUME NEW y \in M PROVE x <= y
    <3>1. x \in Nat /\ y \in Nat
      BY <1>1
    <3>2. <<y, x>> \notin R
      BY <1>3
    <3>3. ~ (y < x)
      BY <3>1, <3>2 DEF R
    <3>4. QED
      BY <3>1, <3>3
  <2>2. QED
    BY <2>1
<1>5. PICK s \in T : x = NumSlots - 1 - s
  BY <1>3 DEF M
<1>6. ASSUME NEW t \in T PROVE t <= s
  <2>1. NumSlots - 1 - s <= NumSlots - 1 - t
    BY <1>4, <1>5 DEF M
  <2>2. QED
    BY <2>1, ConstantsOK DEF ConstantsOK, Slots
<1>7. QED
  BY <1>6
----------------------------------------------------------------------------
(* The inductive invariant. *)

\* An engine that is busy with a request holds a slot: its steps index the
\* buffers and name a slot in the commands it submits.
Busy == WorkerPC \ {"idle", "dead", "draining", "gone"}
HoldsSlot == \A w \in Workers : wpc[w] \in Busy => wslot[w] \in Slots

\* Between writing the input and setting the ready bit the input stays.
WrittenFirst ==
  \A w \in Workers :
    wpc[w] \in {"submit", "publish", "ready"} => input[wslot[w]] # <<>>

PoolInv == SlotExclusive /\ HoldsSlot
BufferInv == NoForeignInput /\ ReadyMeansWritten /\ WrittenFirst
IInv == TypeOK /\ PoolInv /\ BufferInv

\* The empty pool: every slot free, every buffer zero, every engine idle.
LEMMA InitIInv == Init => IInv
<1> SUFFICES ASSUME Init PROVE IInv
  OBVIOUS
<1> USE DEF Init
<1>1. TypeOK
  <2>1. ring \in Seq(Command) /\ batch \in Seq(Command)
    OBVIOUS
  <2>2. /\ op_idx \in Ops
        /\ wop \in [Workers -> Ops]
    BY ConstantsOK DEF ConstantsOK, Ops
  <2>3. /\ output \in [Slots -> Contents]
        /\ agg_pc \in AggPC
        /\ wpc \in [Workers -> WorkerPC]
    BY DEF Contents, AggPC, WorkerPC
  <2>4. QED
    BY <2>1, <2>2, <2>3 DEF TypeOK
<1>2. PoolInv
  BY DEF PoolInv, SlotExclusive, HoldsSlot, Busy, NoSlot
<1>3. BufferInv
  BY DEF BufferInv, NoForeignInput, ReadyMeansWritten, WrittenFirst, NoSlot
<1>4. QED
  BY <1>1, <1>2, <1>3 DEF IInv
----------------------------------------------------------------------------
(* Type correctness. *)

\* Every step of the main loop, an engine or a connection thread keeps the types.
LEMMA TypeStep == IInv /\ [Next]_vars => TypeOK'
<1> SUFFICES ASSUME IInv, [Next]_vars PROVE TypeOK'
  OBVIOUS
<1> USE DEF IInv, TypeOK, pool, buffers, masks, main, engine
<1> USE ConstantsOK
<1>1. ASSUME TakeLeaves PROVE TypeOK'
  BY <1>1 DEF TakeLeaves, AggPC
<1>2. ASSUME MidOpLeave PROVE TypeOK'
  BY <1>2 DEF MidOpLeave, AggPC, Drop
<1>3. ASSUME EvictStuck PROVE TypeOK'
  BY <1>3 DEF EvictStuck, AggPC, Drop
<1>4. ASSUME AllReady PROVE TypeOK'
  BY <1>4 DEF AllReady, AggPC
<1>5. ASSUME SpinOut PROVE TypeOK'
  BY <1>5 DEF SpinOut, AggPC, SignalDone
<1>6. ASSUME VerifyOwners PROVE TypeOK'
  BY <1>6 DEF VerifyOwners, AggPC
<1>7. ASSUME OwnerMismatch PROVE TypeOK'
  BY <1>7 DEF OwnerMismatch, AggPC
<1>8. ASSUME Signal PROVE TypeOK'
  BY <1>8 DEF Signal, AggPC, SignalDone, Ops, ConstantsOK
<1>9. ASSUME TakeJoins PROVE TypeOK'
  <2>1. sampling' \in [Workers -> Params \union {NoParams}]
    <3>1. ASSUME NEW w \in Workers, ToApply(w) # {}
          PROVE  pending_sampling[CHOOSE s \in ToApply(w) :
                                    \A t \in ToApply(w) : t <= s]
                   \in Params \union {NoParams}
      <4>1. ToApply(w) \subseteq Slots
        BY DEF ToApply
      <4>2. \E s \in ToApply(w) : \A t \in ToApply(w) : t <= s
        BY <3>1, <4>1, LastSlotExists
      <4>3. (CHOOSE s \in ToApply(w) : \A t \in ToApply(w) : t <= s) \in Slots
        BY <4>1, <4>2
      <4>4. QED
        BY <4>3
    <3>2. QED
      BY <1>9, <3>1 DEF TakeJoins, ApplyPendingSampling
  <2>2. pending_sampling' \in [Slots -> Params \union {NoParams}]
    BY <1>9 DEF TakeJoins, ApplyPendingSampling
  <2>3. QED
    BY <1>9, <2>1, <2>2 DEF TakeJoins, AggPC, Ops, ConstantsOK
<1>10. ASSUME FetchOne PROVE TypeOK'
  <2>1. ring' \in Seq(Command) /\ Head(ring) \in Command
    BY <1>10, HeadTailProperties DEF FetchOne
  <2>2. batch' \in Seq(Command)
    BY <1>10, <2>1 DEF FetchOne
  <2>3. QED
    BY <1>10, <2>1, <2>2 DEF FetchOne
<1>11. ASSUME Execute PROVE TypeOK'
  <2>1. \A c : Result(c) \in Contents
    BY DEF Result, Contents
  <2>2. output' \in [Slots -> Contents]
    BY <1>11, <2>1 DEF Execute
  <2>3. QED
    BY <1>11, <2>2 DEF Execute, AggPC
<1>12. ASSUME Aggregator PROVE TypeOK'
  BY <1>12, <1>1, <1>2, <1>3, <1>4, <1>5, <1>6, <1>7, <1>8, <1>9, <1>10, <1>11 DEF Aggregator
<1>13. ASSUME NEW w \in Workers, Claim(w) PROVE TypeOK'
  <2>1. PICK s \in free_mask :
          /\ free_mask' = free_mask \ {s}
          /\ owner' = [owner EXCEPT ![s] = w]
          /\ Scrub(s)
          /\ wslot' = [wslot EXCEPT ![w] = s]
    BY <1>13 DEF Claim
  <2>2. PICK p \in Params : req' = [req EXCEPT ![w] = p]
    BY <1>13 DEF Claim
  <2>3. wpc' \in [Workers -> WorkerPC]
    BY <1>13 DEF Claim, Goto, WorkerPC
  <2>4. /\ free_mask' \subseteq Slots
        /\ owner' \in [Slots -> Workers \union {NoWorker}]
        /\ wslot' \in [Workers -> Slots \union {NoSlot}]
    BY <2>1
  <2>5. ready_mask' \subseteq Slots /\ evicted_mask' \subseteq Slots
    BY <2>1 DEF Scrub
  <2>6. req' \in [Workers -> Params]
    BY <2>2
  <2>7. UNCHANGED <<buffers, active_slot_mask, pending_joins, pending_leaves,
                    pending_sampling, ring, quit_flag, main, wop, epoch_moved>>
    BY <1>13 DEF Claim
  <2>8. QED
    BY <2>3, <2>4, <2>5, <2>6, <2>7
<1>14. ASSUME NEW w \in Workers, ClaimRefused(w) PROVE TypeOK'
  BY <1>14 DEF ClaimRefused, vars
<1>15. ASSUME NEW w \in Workers, AcceptRequest(w) PROVE TypeOK'
  BY <1>15 DEF AcceptRequest, Goto, WorkerPC, PoolInv, HoldsSlot, Busy
<1>16. ASSUME NEW w \in Workers, AcceptRaises(w) PROVE TypeOK'
  BY <1>16 DEF AcceptRaises, Goto, WorkerPC, NoSlot
<1>17. ASSUME NEW w \in Workers, SignalJoin(w) PROVE TypeOK'
  BY <1>17 DEF SignalJoin, Goto, WorkerPC, PoolInv, HoldsSlot, Busy
<1>18. ASSUME NEW w \in Workers, Activated(w) PROVE TypeOK'
  BY <1>18 DEF Activated, Goto, WorkerPC
<1>19. ASSUME NEW w \in Workers, ActivationTimeout(w) PROVE TypeOK'
  BY <1>19 DEF ActivationTimeout, Goto, WorkerPC, SignalLeave, PoolInv, HoldsSlot, Busy
<1>20. ASSUME NEW w \in Workers, BeginToken(w) PROVE TypeOK'
  BY <1>20 DEF BeginToken, Goto, WorkerPC, Ops, ConstantsOK
<1>21. ASSUME NEW w \in Workers, AbortEvicted(w) PROVE TypeOK'
  BY <1>21 DEF AbortEvicted, Goto, WorkerPC, SignalLeave, PoolInv, HoldsSlot, Busy
<1>22. ASSUME NEW w \in Workers, Prepare(w) PROVE TypeOK'
  BY <1>22 DEF Prepare, Goto, WorkerPC, Contents, PoolInv, HoldsSlot, Busy
<1>23. ASSUME NEW w \in Workers, SignalReady(w) PROVE TypeOK'
  BY <1>23 DEF SignalReady, Goto, WorkerPC, PoolInv, HoldsSlot, Busy
<1>24. ASSUME NEW w \in Workers, WaitForEpoch(w) PROVE TypeOK'
  BY <1>24 DEF WaitForEpoch, Goto, WorkerPC
<1>25. ASSUME NEW w \in Workers, GetOutput(w) PROVE TypeOK'
  BY <1>25 DEF GetOutput, Goto, WorkerPC, Ops, ConstantsOK
<1>26. ASSUME NEW w \in Workers, NextToken(w) PROVE TypeOK'
  BY <1>26 DEF NextToken, Goto, WorkerPC
<1>27. ASSUME NEW w \in Workers, Complete(w) PROVE TypeOK'
  BY <1>27 DEF Complete, Goto, WorkerPC, SignalLeave, PoolInv, HoldsSlot, Busy
<1>28. ASSUME NEW w \in Workers, LeaveAcked(w) PROVE TypeOK'
  BY <1>28 DEF LeaveAcked, Goto, WorkerPC
<1>29. ASSUME NEW w \in Workers, TokenRaises(w) PROVE TypeOK'
  BY <1>29 DEF TokenRaises, Goto, WorkerPC, SignalLeave, PoolInv, HoldsSlot, Busy
<1>30. ASSUME NEW w \in Workers, Release(w) PROVE TypeOK'
  BY <1>30 DEF Release, Goto, WorkerPC, ReleaseSlots, Contents, NoSlot, PoolInv, HoldsSlot, Busy
<1>31. ASSUME NEW w \in Workers, Die(w) PROVE TypeOK'
  BY <1>31 DEF Die, Goto, WorkerPC
<1>32. ASSUME NEW w \in Workers, ConnectionLost(w) PROVE TypeOK'
  BY <1>32 DEF ConnectionLost, Goto, WorkerPC, Owned
<1>33. ASSUME NEW w \in Workers, DeferredRelease(w) PROVE TypeOK'
  BY <1>33 DEF DeferredRelease, Goto, WorkerPC, ReleaseSlots, Contents, Owned, NoSlot
<1>34. ASSUME NEW w \in Workers, Submit(w) PROVE TypeOK'
  <2>1. [slot |-> wslot[w], worker |-> w, op |-> wop[w], ready |-> FALSE]
          \in Command
    BY <1>34 DEF Submit, Goto, PoolInv, HoldsSlot, Busy, WorkerPC, Command
  <2>2. ring' \in Seq(Command)
    BY <1>34, <2>1 DEF Submit
  <2>3. QED
    BY <1>34, <2>2 DEF Submit, Goto, WorkerPC
<1>35. ASSUME NEW w \in Workers, Publish(w) PROVE TypeOK'
  <2>1. Len(ring) \in Nat
    OBVIOUS
  <2>2. ASSUME NEW i \in 1 .. Len(ring)
        PROVE  [ring[i] EXCEPT !.ready = @ \/ ring[i].worker = w] \in Command
    <3>1. ring[i] \in Command
      BY <2>1
    <3>2. QED
      BY <3>1 DEF Command
  <2>3. ring' \in [1 .. Len(ring) -> Command]
    BY <1>35, <2>2 DEF Publish
  <2>4. ring' \in Seq(Command)
    BY <2>1, <2>3, FunctionIsSeq
  <2>5. QED
    BY <1>35, <2>4 DEF Publish, Goto, WorkerPC
<1>36. ASSUME UNCHANGED vars PROVE TypeOK'
  BY <1>36 DEF vars
<1>37. QED
  BY <1>12, <1>13, <1>14, <1>15, <1>16, <1>17, <1>18, <1>19, <1>20, <1>21, <1>22, <1>23, <1>24, <1>25, <1>26, <1>27, <1>28, <1>29, <1>30, <1>31, <1>32, <1>33, <1>34, <1>35, <1>36 DEF Next, Worker, Step
----------------------------------------------------------------------------
(* Ownership of the slots. *)

\* The main loop touches neither the pool nor the engines' own state.
LEMMA AggregatorLeavesPool ==
  Aggregator => UNCHANGED <<free_mask, owner, input, wpc, wslot, wop, req>>
  BY DEF Aggregator, TakeLeaves, TakeJoins, AllReady, MidOpLeave, EvictStuck, FetchOne, SpinOut, VerifyOwners, OwnerMismatch, Execute, Signal, pool, buffers, engine

\* Only claim_slot and release_slot move slots, each under the owner's name, and
\* an engine forgets its slot in the step that gives it back or leaks it.
LEMMA PoolStep == IInv /\ [Next]_vars => PoolInv'
<1> SUFFICES ASSUME IInv, [Next]_vars PROVE PoolInv'
  OBVIOUS
<1> USE DEF IInv, PoolInv, SlotExclusive, HoldsSlot, pool
<1>1. ASSUME Aggregator PROVE PoolInv'
  BY <1>1, AggregatorLeavesPool
<1>2. ASSUME NEW w \in Workers, Claim(w) PROVE PoolInv'
  <2>1. PICK s \in free_mask :
          /\ free_mask' = free_mask \ {s}
          /\ owner' = [owner EXCEPT ![s] = w]
          /\ wslot' = [wslot EXCEPT ![w] = s]
    BY <1>2 DEF Claim
  <2>2. s \in Slots /\ owner[s] = NoWorker /\ NoWorker \notin Workers
    BY ConstantsOK DEF ConstantsOK, TypeOK
  <2>3. SlotExclusive'
    <3>1. \A t \in Slots : t \in free_mask' <=> owner'[t] = NoWorker
      BY <2>1, <2>2 DEF TypeOK
    <3>2. \A v \in Workers : v # w /\ wslot'[v] # NoSlot => wslot[v] # s
      BY <2>1, <2>2 DEF TypeOK
    <3>3. \A v \in Workers : wslot'[v] # NoSlot => owner'[wslot'[v]] = v
      BY <2>1, <2>2, <3>2 DEF TypeOK
    <3>4. QED
      BY <3>1, <3>3
  <2>4. HoldsSlot'
    BY <1>2, <2>1, <2>2 DEF Claim, Goto, TypeOK
  <2>5. QED
    BY <2>3, <2>4
<1>3. ASSUME NEW w \in Workers, ClaimRefused(w) PROVE PoolInv'
  BY <1>3 DEF ClaimRefused, vars, engine
<1>4. ASSUME NEW w \in Workers, AcceptRequest(w) PROVE PoolInv'
  BY <1>4 DEF AcceptRequest, Goto, TypeOK, Busy, WorkerPC
<1>5. ASSUME NEW w \in Workers, AcceptRaises(w) PROVE PoolInv'
  BY <1>5 DEF AcceptRaises, Goto, TypeOK, Busy, WorkerPC, NoSlot
<1>6. ASSUME NEW w \in Workers, SignalJoin(w) PROVE PoolInv'
  BY <1>6 DEF SignalJoin, Goto, TypeOK, Busy, WorkerPC
<1>7. ASSUME NEW w \in Workers, Activated(w) PROVE PoolInv'
  BY <1>7 DEF Activated, Goto, TypeOK, Busy, WorkerPC
<1>8. ASSUME NEW w \in Workers, ActivationTimeout(w) PROVE PoolInv'
  BY <1>8 DEF ActivationTimeout, Goto, TypeOK, Busy, WorkerPC
<1>9. ASSUME NEW w \in Workers, BeginToken(w) PROVE PoolInv'
  BY <1>9 DEF BeginToken, Goto, TypeOK, Busy, WorkerPC
<1>10. ASSUME NEW w \in Workers, AbortEvicted(w) PROVE PoolInv'
  BY <1>10 DEF AbortEvicted, Goto, TypeOK, Busy, WorkerPC
<1>11. ASSUME NEW w \in Workers, Prepare(w) PROVE PoolInv'
  BY <1>11 DEF Prepare, Goto, TypeOK, Busy, WorkerPC
<1>12. ASSUME NEW w \in Workers, Submit(w) PROVE PoolInv'
  BY <1>12 DEF Submit, Goto, TypeOK, Busy, WorkerPC
<1>13. ASSUME NEW w \in Workers, Publish(w) PROVE PoolInv'
  BY <1>13 DEF Publish, Goto, TypeOK, Busy, WorkerPC
<1>14. ASSUME NEW w \in Workers, SignalReady(w) PROVE PoolInv'
  BY <1>14 DEF SignalReady, Goto, TypeOK, Busy, WorkerPC
<1>15. ASSUME NEW w \in Workers, WaitForEpoch(w) PROVE PoolInv'
  BY <1>15 DEF WaitForEpoch, Goto, TypeOK, Busy, WorkerPC
<1>16. ASSUME NEW w \in Workers, GetOutput(w) PROVE PoolInv'
  BY <1>16 DEF GetOutput, Goto, TypeOK, Busy, WorkerPC
<1>17. ASSUME NEW w \in Workers, NextToken(w) PROVE PoolInv'
  BY <1>17 DEF NextToken, Goto, TypeOK, Busy, WorkerPC
<1>18. ASSUME NEW w \in Workers, Complete(w) PROVE PoolInv'
  BY <1>18 DEF Complete, Goto, TypeOK, Busy, WorkerPC
<1>19. ASSUME NEW w \in Workers, LeaveAcked(w) PROVE PoolInv'
  BY <1>19 DEF LeaveAcked, Goto, TypeOK, Busy, WorkerPC
<1>20. ASSUME NEW w \in Workers, TokenRaises(w) PROVE PoolInv'
  BY <1>20 DEF TokenRaises, Goto, TypeOK, Busy, WorkerPC
<1>21. ASSUME NEW w \in Workers, Die(w) PROVE PoolInv'
  BY <1>21 DEF Die, Goto, TypeOK, Busy, WorkerPC
<1>22. ASSUME NEW w \in Workers, ConnectionLost(w) PROVE PoolInv'
  BY <1>22 DEF ConnectionLost, Goto, TypeOK, Busy, WorkerPC
<1>23. ASSUME NEW w \in Workers, NEW slots, ReleaseSlots(w, slots),
             wslot' = [wslot EXCEPT ![w] = NoSlot],
             wslot[w] \in slots \/ wslot[w] = NoSlot \/ slots = {}
      PROVE  SlotExclusive'
  <2>1. w # NoWorker /\ \A v \in Workers : v # NoWorker
    BY ConstantsOK DEF ConstantsOK
  <2>2. \A s \in Slots : s \in free_mask' <=> owner'[s] = NoWorker
    BY <1>23, <2>1 DEF ReleaseSlots, TypeOK
  <2>3. \A v \in Workers : wslot'[v] # NoSlot => owner'[wslot'[v]] = v
    BY <1>23, <2>1 DEF ReleaseSlots, TypeOK
  <2>4. QED
    BY <2>2, <2>3
<1>24. ASSUME NEW w \in Workers, Release(w) PROVE PoolInv'
  <2>1. SlotExclusive'
    BY <1>24, <1>23 DEF Release
  <2>2. HoldsSlot'
    BY <1>24 DEF Release, Goto, TypeOK, Busy, WorkerPC
  <2>3. QED
    BY <2>1, <2>2
<1>25. ASSUME NEW w \in Workers, DeferredRelease(w) PROVE PoolInv'
  <2>1. wslot[w] \in Owned(w) \/ wslot[w] = NoSlot
    BY DEF Owned, TypeOK
  <2>2. SlotExclusive'
    BY <1>25, <1>23, <2>1 DEF DeferredRelease
  <2>3. HoldsSlot'
    BY <1>25 DEF DeferredRelease, Goto, TypeOK, Busy, WorkerPC
  <2>4. QED
    BY <2>2, <2>3
<1>26. ASSUME UNCHANGED vars PROVE PoolInv'
  BY <1>26 DEF vars, engine
<1>27. QED
  BY <1>1, <1>2, <1>3, <1>4, <1>5, <1>6, <1>7, <1>8, <1>9, <1>10, <1>11, <1>12, <1>13, <1>14, <1>15, <1>16, <1>17, <1>18, <1>19, <1>20, <1>21, <1>22, <1>24, <1>25, <1>26 DEF Next, Worker, Step
----------------------------------------------------------------------------
(* What the input buffers and the ready bits say. *)

Committed == {"submit", "publish", "ready"}

\* A step that writes no input, moves no slot, sets no ready bit and brings no
\* engine into the steps between the input and the ready bit.
QuietStep ==
  /\ UNCHANGED <<owner, input, wslot>>
  /\ ready_mask' \subseteq ready_mask
  /\ \A w \in Workers : wpc'[w] \in Committed => wpc[w] \in Committed

\* What the buffers say survives a quiet step.
LEMMA QuietKeepsBuffers ==
  IInv /\ QuietStep => BufferInv'
  BY DEF IInv, BufferInv, NoForeignInput, ReadyMeansWritten, WrittenFirst, QuietStep, Committed

\* The main loop clears ready bits (aggregator_signal_done_slots) and sets none.
LEMMA AggregatorIsQuiet == Aggregator => QuietStep
<1> SUFFICES ASSUME Aggregator PROVE QuietStep
  OBVIOUS
<1>1. UNCHANGED <<owner, input, wslot, wpc>>
  BY AggregatorLeavesPool
<1>2. ready_mask' \subseteq ready_mask
  BY DEF Aggregator, TakeLeaves, TakeJoins, AllReady, MidOpLeave, EvictStuck, FetchOne, SpinOut, VerifyOwners, OwnerMismatch, Execute, Signal, SignalDone, masks
<1>3. QED
  BY <1>1, <1>2 DEF QuietStep

\* Two engines never hold the same slot.
LEMMA SlotsDiffer ==
  ASSUME SlotExclusive, NEW v \in Workers, NEW w \in Workers, v # w,
         wslot[v] # NoSlot
  PROVE  wslot[v] # wslot[w]
  BY DEF SlotExclusive

\* release_slot zeroes the inputs of the slots it frees and of no other.
LEMMA ReleaseKeepsBuffers ==
  ASSUME IInv, NEW w \in Workers, NEW slots, ReleaseSlots(w, slots),
         wslot' = [wslot EXCEPT ![w] = NoSlot], UNCHANGED ready_mask,
         wpc'[w] \notin Committed,
         \A v \in Workers : v # w => wpc'[v] = wpc[v]
  PROVE  BufferInv'
<1> USE DEF IInv, TypeOK, PoolInv, BufferInv
<1>1. \A s \in Slots : owner[s] # w => input'[s] = input[s] /\ owner'[s] = owner[s]
  BY DEF ReleaseSlots
<1>2. \A s \in Slots : input'[s] # <<>> => input'[s] = input[s] /\ owner'[s] = owner[s]
  BY DEF ReleaseSlots
<1>3. ASSUME NEW v \in Workers, v # w, wslot[v] # NoSlot
      PROVE  wslot'[v] \in Slots /\ input'[wslot'[v]] = input[wslot[v]]
  <2>1. wslot'[v] = wslot[v] /\ wslot[v] \in Slots /\ owner[wslot[v]] # w
    BY <1>3 DEF SlotExclusive
  <2>2. QED
    BY <2>1, <1>1
<1>4. NoForeignInput'
  BY <1>2 DEF NoForeignInput
<1>5. ReadyMeansWritten'
  BY <1>3 DEF ReadyMeansWritten
<1>6. WrittenFirst'
  <2>1. ASSUME NEW v \in Workers, wpc'[v] \in Committed
        PROVE  input'[wslot'[v]] # <<>>
    <3>1. v # w /\ wpc[v] \in Committed
      BY <2>1
    <3>2. wslot[v] \in Slots
      BY <3>1 DEF Committed, HoldsSlot, Busy
    <3>3. wslot[v] # NoSlot
      BY <3>2, ConstantsOK DEF ConstantsOK, Slots, NoSlot
    <3>4. input[wslot[v]] # <<>>
      BY <3>1 DEF Committed, WrittenFirst
    <3>5. QED
      BY <1>3, <3>1, <3>3, <3>4
  <2>2. QED
    BY <2>1 DEF WrittenFirst, Committed
<1>7. QED
  BY <1>4, <1>5, <1>6

\* Every step of the protocol keeps what the buffers say: a claim takes a slot
\* whose input is zero and scrubs its bits, an engine writes the input of its
\* own slot before it sets the ready bit, and a release zeroes the input.
LEMMA BufferStep == IInv /\ [Next]_vars => BufferInv'
<1> SUFFICES ASSUME IInv, [Next]_vars PROVE BufferInv'
  OBVIOUS
<1>1. CASE Aggregator
  BY <1>1, AggregatorIsQuiet, QuietKeepsBuffers
<1>2. CASE UNCHANGED vars
  <2>1. QuietStep
    BY <1>2 DEF vars, pool, buffers, masks, engine, QuietStep
  <2>2. QED
    BY <2>1, QuietKeepsBuffers
<1>3. ASSUME NEW w \in Workers, Claim(w) PROVE BufferInv'
  <2> USE DEF IInv, TypeOK, PoolInv, SlotExclusive, HoldsSlot, BufferInv
  <2>1. PICK s \in free_mask :
          /\ owner' = [owner EXCEPT ![s] = w]
          /\ ready_mask' = ready_mask \ {s}
          /\ wslot' = [wslot EXCEPT ![w] = s]
    BY <1>3 DEF Claim, Scrub
  <2>2. input' = input
    BY <1>3 DEF Claim, buffers
  <2>3. input[s] = <<>>
    BY ConstantsOK DEF NoForeignInput, ConstantsOK
  <2>4. NoForeignInput'
    BY <2>1, <2>2, <2>3 DEF NoForeignInput
  <2>5. ReadyMeansWritten'
    BY <2>1, <2>2 DEF ReadyMeansWritten
  <2>6. \A v \in Workers : v # w => wslot'[v] = wslot[v] /\ wpc'[v] = wpc[v]
    BY <1>3, <2>1 DEF Claim, Goto
  <2>7. wpc'[w] = "claimed"
    BY <1>3 DEF Claim, Goto
  <2>8. WrittenFirst'
    BY <2>2, <2>6, <2>7 DEF WrittenFirst
  <2>9. QED
    BY <2>4, <2>5, <2>8
<1>4. ASSUME NEW w \in Workers, AcceptRaises(w) PROVE BufferInv'
  <2> USE DEF IInv, TypeOK, BufferInv
  <2>1. UNCHANGED <<owner, input, ready_mask>>
    BY <1>4 DEF AcceptRaises, pool, buffers, masks
  <2>2. wslot'[w] = NoSlot /\ wpc'[w] = "idle"
    BY <1>4 DEF AcceptRaises, Goto
  <2>3. \A v \in Workers : v # w => wslot'[v] = wslot[v] /\ wpc'[v] = wpc[v]
    BY <1>4 DEF AcceptRaises, Goto
  <2>4. NoForeignInput'
    BY <2>1 DEF NoForeignInput
  <2>5. ReadyMeansWritten'
    BY <2>1, <2>2, <2>3 DEF ReadyMeansWritten
  <2>6. WrittenFirst'
    BY <2>1, <2>2, <2>3 DEF WrittenFirst
  <2>7. QED
    BY <2>4, <2>5, <2>6
<1>5. ASSUME NEW w \in Workers, Prepare(w) PROVE BufferInv'
  <2> USE DEF IInv, TypeOK, PoolInv, BufferInv
  <2>1. UNCHANGED <<owner, ready_mask, wslot>>
    BY <1>5 DEF Prepare, pool, masks
  <2>2. input' = [input EXCEPT ![wslot[w]] = <<w, wop[w]>>]
    BY <1>5 DEF Prepare
  <2>3. wslot[w] \in Slots
    BY <1>5 DEF Prepare, Goto, HoldsSlot, Busy, WorkerPC
  <2>4. owner[wslot[w]] = w
    BY <2>3, ConstantsOK DEF SlotExclusive, Slots, NoSlot, ConstantsOK
  <2>5. NoForeignInput'
    BY <2>1, <2>2, <2>4 DEF NoForeignInput
  <2>6. \A s \in Slots : input[s] # <<>> => input'[s] # <<>>
    BY <2>2
  <2>7. ReadyMeansWritten'
    <3>1. ASSUME NEW v \in Workers, wslot'[v] # NoSlot, wslot'[v] \in ready_mask'
          PROVE  input'[wslot'[v]] # <<>>
      BY <3>1, <2>1, <2>6 DEF ReadyMeansWritten
    <3>2. QED
      BY <3>1 DEF ReadyMeansWritten
  <2>8. WrittenFirst'
    <3>1. ASSUME NEW v \in Workers, wpc'[v] \in {"submit", "publish", "ready"}
          PROVE  input'[wslot'[v]] # <<>>
      <4>1. CASE v = w
        BY <4>1, <2>1, <2>2, <2>3
      <4>2. CASE v # w
        <5>1. wpc[v] \in {"submit", "publish", "ready"}
          BY <1>5, <3>1, <4>2 DEF Prepare, Goto
        <5>2. wslot[v] \in Slots /\ input[wslot[v]] # <<>>
          BY <5>1 DEF WrittenFirst, HoldsSlot, Busy, WorkerPC
        <5>3. QED
          BY <5>2, <2>1, <2>6
      <4>3. QED
        BY <4>1, <4>2
    <3>2. QED
      BY <3>1 DEF WrittenFirst
  <2>9. QED
    BY <2>5, <2>7, <2>8
<1>6. ASSUME NEW w \in Workers, SignalReady(w) PROVE BufferInv'
  <2> USE DEF IInv, TypeOK, PoolInv, BufferInv
  <2>1. UNCHANGED <<owner, input, wslot>>
    BY <1>6 DEF SignalReady, pool, buffers
  <2>2. ready_mask' = ready_mask \union {wslot[w]}
    BY <1>6 DEF SignalReady
  <2>3. input[wslot[w]] # <<>>
    BY <1>6 DEF SignalReady, Goto, WrittenFirst
  <2>4. NoForeignInput'
    BY <2>1 DEF NoForeignInput
  <2>5. ReadyMeansWritten'
    BY <2>1, <2>2, <2>3 DEF ReadyMeansWritten
  <2>6. WrittenFirst'
    BY <1>6, <2>1 DEF SignalReady, Goto, WrittenFirst
  <2>7. QED
    BY <2>4, <2>5, <2>6
<1>7. ASSUME NEW w \in Workers, Release(w) PROVE BufferInv'
  <2>1. UNCHANGED ready_mask /\ wpc' = [wpc EXCEPT ![w] = "idle"]
    BY <1>7 DEF Release, Goto, masks
  <2>2. wpc'[w] \notin Committed /\ \A v \in Workers : v # w => wpc'[v] = wpc[v]
    BY <2>1 DEF IInv, TypeOK, Committed
  <2>3. QED
    BY <1>7, <2>1, <2>2, ReleaseKeepsBuffers DEF Release
<1>8. ASSUME NEW w \in Workers, DeferredRelease(w) PROVE BufferInv'
  <2>1. UNCHANGED ready_mask /\ wpc' = [wpc EXCEPT ![w] = "gone"]
    BY <1>8 DEF DeferredRelease, Goto, masks
  <2>2. wpc'[w] \notin Committed /\ \A v \in Workers : v # w => wpc'[v] = wpc[v]
    BY <2>1 DEF IInv, TypeOK, Committed
  <2>3. QED
    BY <1>8, <2>1, <2>2, ReleaseKeepsBuffers DEF DeferredRelease
<1>9. ASSUME NEW w \in Workers, ClaimRefused(w) PROVE QuietStep
  BY <1>9 DEF ClaimRefused, vars, pool, buffers, masks, engine, QuietStep, Committed, IInv, TypeOK
<1>10. ASSUME NEW w \in Workers, AcceptRequest(w) PROVE QuietStep
  BY <1>10 DEF AcceptRequest, Goto, pool, buffers, masks, engine, QuietStep, Committed, IInv, TypeOK
<1>11. ASSUME NEW w \in Workers, SignalJoin(w) PROVE QuietStep
  BY <1>11 DEF SignalJoin, Goto, pool, buffers, masks, engine, QuietStep, Committed, IInv, TypeOK
<1>12. ASSUME NEW w \in Workers, Activated(w) PROVE QuietStep
  BY <1>12 DEF Activated, Goto, pool, buffers, masks, engine, QuietStep, Committed, IInv, TypeOK
<1>13. ASSUME NEW w \in Workers, ActivationTimeout(w) PROVE QuietStep
  BY <1>13 DEF ActivationTimeout, Goto, pool, buffers, masks, engine, QuietStep, Committed, IInv, TypeOK
<1>14. ASSUME NEW w \in Workers, BeginToken(w) PROVE QuietStep
  BY <1>14 DEF BeginToken, Goto, pool, buffers, masks, engine, QuietStep, Committed, IInv, TypeOK
<1>15. ASSUME NEW w \in Workers, AbortEvicted(w) PROVE QuietStep
  BY <1>15 DEF AbortEvicted, Goto, pool, buffers, masks, engine, QuietStep, Committed, IInv, TypeOK
<1>16. ASSUME NEW w \in Workers, Submit(w) PROVE QuietStep
  BY <1>16 DEF Submit, Goto, pool, buffers, masks, engine, QuietStep, Committed, IInv, TypeOK
<1>17. ASSUME NEW w \in Workers, Publish(w) PROVE QuietStep
  BY <1>17 DEF Publish, Goto, pool, buffers, masks, engine, QuietStep, Committed, IInv, TypeOK
<1>18. ASSUME NEW w \in Workers, WaitForEpoch(w) PROVE QuietStep
  BY <1>18 DEF WaitForEpoch, Goto, pool, buffers, masks, engine, QuietStep, Committed, IInv, TypeOK
<1>19. ASSUME NEW w \in Workers, GetOutput(w) PROVE QuietStep
  BY <1>19 DEF GetOutput, Goto, pool, buffers, masks, engine, QuietStep, Committed, IInv, TypeOK
<1>20. ASSUME NEW w \in Workers, NextToken(w) PROVE QuietStep
  BY <1>20 DEF NextToken, Goto, pool, buffers, masks, engine, QuietStep, Committed, IInv, TypeOK
<1>21. ASSUME NEW w \in Workers, Complete(w) PROVE QuietStep
  BY <1>21 DEF Complete, Goto, pool, buffers, masks, engine, QuietStep, Committed, IInv, TypeOK
<1>22. ASSUME NEW w \in Workers, LeaveAcked(w) PROVE QuietStep
  BY <1>22 DEF LeaveAcked, Goto, pool, buffers, masks, engine, QuietStep, Committed, IInv, TypeOK
<1>23. ASSUME NEW w \in Workers, TokenRaises(w) PROVE QuietStep
  BY <1>23 DEF TokenRaises, Goto, pool, buffers, masks, engine, QuietStep, Committed, IInv, TypeOK
<1>24. ASSUME NEW w \in Workers, Die(w) PROVE QuietStep
  BY <1>24 DEF Die, Goto, pool, buffers, masks, engine, QuietStep, Committed, IInv, TypeOK
<1>25. ASSUME NEW w \in Workers, ConnectionLost(w) PROVE QuietStep
  BY <1>25 DEF ConnectionLost, Goto, pool, buffers, masks, engine, QuietStep, Committed, IInv, TypeOK
<1>26. ASSUME NEW w \in Workers, Worker(w) PROVE BufferInv'
  BY <1>26, <1>3, <1>4, <1>5, <1>6, <1>7, <1>8, <1>9, <1>10, <1>11, <1>12, <1>13, <1>14, <1>15, <1>16, <1>17, <1>18, <1>19, <1>20, <1>21, <1>22, <1>23, <1>24, <1>25, QuietKeepsBuffers DEF Worker, Step
<1>27. QED
  BY <1>1, <1>2, <1>26 DEF Next
----------------------------------------------------------------------------
(* The theorems. *)

\* The invariant holds in every state of every instance.
LEMMA Inductive == Spec => []IInv
<1>1. IInv /\ [Next]_vars => IInv'
  BY TypeStep, PoolStep, BufferStep DEF IInv
<1>2. QED
  BY InitIInv, <1>1, PTL DEF Spec

\* Every mask, buffer, command and program counter stays in its range: the
\* aggregator and the engines index the slot arrays with nothing else.
THEOREM TypeCorrect == Spec => []TypeOK
<1>1. IInv => TypeOK
  BY DEF IInv
<1>2. QED
  BY Inductive, <1>1, PTL

\* claim_slot and release_slot keep free_mask and owner_worker_id in agreement,
\* and no two engines ever hold a slot, whatever dies, stalls or throws.
THEOREM SlotsExclusive == Spec => []SlotExclusive
<1>1. IInv => SlotExclusive
  BY DEF IInv, PoolInv
<1>2. QED
  BY Inductive, <1>1, PTL

\* No slot's input buffer ever holds what somebody but its owner wrote.
THEOREM InputsPrivate == Spec => []NoForeignInput
<1>1. IInv => NoForeignInput
  BY DEF IInv, BufferInv
<1>2. QED
  BY Inductive, <1>1, PTL

\* A held slot's ready bit always stands for an input its holder wrote: the
\* scrub in claim_slot is what no ready bit of an earlier tenant gets past.
THEOREM ReadyIsWritten == Spec => []ReadyMeansWritten
<1>1. IInv => ReadyMeansWritten
  BY DEF IInv, BufferInv
<1>2. QED
  BY Inductive, <1>1, PTL
============================================================================
