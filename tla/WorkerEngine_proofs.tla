------------------------ MODULE WorkerEngine_proofs ------------------------
(***************************************************************************)
(* Proofs about WorkerEngine for any number of requests, permits, slots    *)
(* and blocks, any sequence length and any set of faults; the last three   *)
(* theorems name the faults they exclude.                                  *)
(***************************************************************************)
EXTENDS WorkerEngine, SequenceTheorems, FunctionTheorems, FiniteSetTheorems,
        WellFoundedInduction, TLAPS

(* Slots in dict order: no slot occurs twice. *)
Injective(seq) == \A i, j \in 1 .. Len(seq) : seq[i] = seq[j] => i = j

\* Adding a slot at the end.
LEMMA AppendElements ==
  ASSUME NEW S, NEW seq \in Seq(S), NEW e \in S
  PROVE  /\ Append(seq, e) \in Seq(S)
         /\ Elements(Append(seq, e)) = Elements(seq) \union {e}
         /\ Injective(seq) /\ e \notin Elements(seq) => Injective(Append(seq, e))
<1>1. /\ Append(seq, e) \in Seq(S)
      /\ Len(Append(seq, e)) = Len(seq) + 1
      /\ \A i \in 1 .. Len(seq) : Append(seq, e)[i] = seq[i]
      /\ Append(seq, e)[Len(seq) + 1] = e
      /\ Len(seq) \in Nat
  BY AppendProperties, LenProperties
<1>2. Elements(Append(seq, e)) = Elements(seq) \union {e}
  BY <1>1 DEF Elements
<1>3. ASSUME Injective(seq), e \notin Elements(seq)
      PROVE  Injective(Append(seq, e))
  BY <1>1, <1>3 DEF Elements, Injective
<1>4. QED
  BY <1>1, <1>2, <1>3

\* Taking the first one off.
LEMMA TailElements ==
  ASSUME NEW S, NEW seq \in Seq(S), seq # <<>>
  PROVE  /\ Head(seq) \in S /\ Head(seq) \in Elements(seq)
         /\ Tail(seq) \in Seq(S)
         /\ Elements(Tail(seq)) \subseteq Elements(seq)
         /\ Injective(seq) => /\ Injective(Tail(seq))
                              /\ Elements(Tail(seq)) = Elements(seq) \ {Head(seq)}
<1>1. /\ Head(seq) = seq[1] /\ Head(seq) \in S
      /\ Tail(seq) \in Seq(S)
      /\ Len(seq) \in Nat \ {0}
      /\ Len(Tail(seq)) = Len(seq) - 1
      /\ \A i \in 1 .. Len(seq) - 1 : Tail(seq)[i] = seq[i + 1]
  BY HeadTailProperties, LenProperties, EmptySeq
<1>2. Head(seq) \in Elements(seq) /\ Elements(Tail(seq)) \subseteq Elements(seq)
  BY <1>1 DEF Elements
<1>3. ASSUME Injective(seq)
      PROVE  Injective(Tail(seq))
  BY <1>1, <1>3 DEF Injective
<1>4. ASSUME Injective(seq)
      PROVE  Elements(Tail(seq)) = Elements(seq) \ {Head(seq)}
  <2>1. ASSUME NEW e \in Elements(seq), e # Head(seq)
        PROVE  e \in Elements(Tail(seq))
    <3>1. PICK i \in 1 .. Len(seq) : seq[i] = e
      BY DEF Elements
    <3>2. i - 1 \in 1 .. Len(Tail(seq)) /\ Tail(seq)[i - 1] = e
      BY <1>1, <2>1, <3>1
    <3>3. QED
      BY <3>2 DEF Elements
  <2>2. Head(seq) \notin Elements(Tail(seq))
    BY <1>1, <1>4 DEF Elements, Injective
  <2>3. QED
    BY <1>2, <2>1, <2>2
<1>5. QED
  BY <1>1, <1>2, <1>3, <1>4

\* Popping a slot, wherever it is.
LEMMA WithoutElements ==
  ASSUME NEW S, NEW seq \in Seq(S), NEW s, Injective(seq)
  PROVE  /\ Without(seq, s) \in Seq(S)
         /\ Injective(Without(seq, s))
         /\ Elements(Without(seq, s)) = Elements(seq) \ {s}
<1>1. CASE s \notin Elements(seq)
  BY <1>1 DEF Without
<1>2. CASE s \in Elements(seq)
  <2> DEFINE k == CHOOSE i \in 1 .. Len(seq) : seq[i] = s
             before == SubSeq(seq, 1, k - 1)
             after == SubSeq(seq, k + 1, Len(seq))
             w == before \o after
  <2>1. k \in 1 .. Len(seq) /\ seq[k] = s
    BY <1>2 DEF Elements
  <2>2. Without(seq, s) = w
    BY <1>2 DEF Without
  <2> HIDE DEF k
  <2>3. /\ Len(seq) \in Nat
        /\ \A i \in 1 .. Len(seq) : seq[i] \in S
    BY LenProperties, ElementOfSeq
  <2>4. /\ before \in Seq(S) /\ Len(before) = k - 1
        /\ \A i \in 1 .. k - 1 : before[i] = seq[i]
    BY <2>1, <2>3, SubSeqProperties
  <2>5. /\ after \in Seq(S) /\ Len(after) = Len(seq) - k
        /\ \A i \in 1 .. Len(seq) - k : after[i] = seq[i + k]
    BY <2>1, <2>3, SubSeqProperties
  <2> HIDE DEF before, after
  <2>6. /\ w \in Seq(S) /\ Len(w) = Len(seq) - 1
        /\ \A i \in 1 .. Len(seq) - 1 :
             w[i] = IF i < k THEN seq[i] ELSE seq[i + 1]
    <3>1. /\ w \in Seq(S) /\ Len(w) = Len(before) + Len(after)
          /\ \A i \in 1 .. Len(before) + Len(after) :
               w[i] = IF i <= Len(before) THEN before[i] ELSE after[i - Len(before)]
      BY <2>4, <2>5, ConcatProperties
    <3>2. Len(w) = Len(seq) - 1
      BY <2>1, <2>3, <2>4, <2>5, <3>1
    <3> HIDE DEF w
    <3>3. ASSUME NEW i \in 1 .. Len(seq) - 1
          PROVE  w[i] = IF i < k THEN seq[i] ELSE seq[i + 1]
      <4>1. w[i] = IF i <= k - 1 THEN before[i] ELSE after[i - (k - 1)]
        BY <2>1, <2>3, <2>4, <2>5, <3>1
      <4>2. CASE i < k
        BY <2>1, <2>3, <2>4, <4>1, <4>2
      <4>3. CASE i >= k
        <5>1. i - (k - 1) \in 1 .. Len(seq) - k /\ w[i] = after[i - (k - 1)]
          BY <2>1, <2>3, <4>1, <4>3
        <5>2. after[i - (k - 1)] = seq[i - (k - 1) + k]
          BY <2>5, <5>1
        <5>3. i - (k - 1) + k = i + 1
          BY <2>1
        <5>4. QED
          BY <2>1, <4>3, <5>1, <5>2, <5>3
      <4>4. QED
        BY <2>1, <4>2, <4>3
    <3>4. QED
      BY <3>1, <3>2, <3>3
  <2> HIDE DEF w
  <2>7. Injective(w)
    BY <2>1, <2>3, <2>6 DEF Injective
  <2>8. ASSUME NEW e \in Elements(seq), e # s
        PROVE  e \in Elements(w)
    <3>1. PICK i \in 1 .. Len(seq) : seq[i] = e
      BY DEF Elements
    <3>2. CASE i < k
      BY <2>1, <2>3, <2>6, <3>1, <3>2 DEF Elements
    <3>3. CASE i > k
      <4>1. i - 1 \in 1 .. Len(w) /\ w[i - 1] = e
        BY <2>1, <2>3, <2>6, <3>1, <3>3
      <4>2. QED
        BY <4>1 DEF Elements
    <3>4. QED
      BY <2>1, <2>3, <2>8, <3>1, <3>2, <3>3
  <2>9. Elements(w) \subseteq Elements(seq) \ {s}
    <3>1. ASSUME NEW i \in 1 .. Len(w)
          PROVE  w[i] \in Elements(seq) /\ w[i] # s
      <4>1. CASE i < k
        BY <2>1, <2>3, <2>6, <4>1 DEF Elements, Injective
      <4>2. CASE i >= k
        BY <2>1, <2>3, <2>6, <4>2 DEF Elements, Injective
      <4>3. QED
        BY <2>1, <2>3, <4>1, <4>2
    <3>2. QED
      BY <3>1 DEF Elements
  <2>10. QED
    BY <2>2, <2>6, <2>7, <2>8, <2>9
<1>3. QED
  BY <1>1, <1>2
----------------------------------------------------------------------------
(* The inductive invariant. *)

\* Each slot is in one place: running, waiting to be active, or neither; and the
\* slots that still wait for blocks are running.
Lists ==
  /\ Injective(active) /\ Injective(pending) /\ Injective(todo)
  /\ Elements(active) \intersect Elements(pending) = {}
  /\ Elements(todo) \subseteq Elements(active)
  /\ todo # <<>> => pc = "ensure" \/ (pc = "release" /\ job.kind = "exhausted")

\* A completed request is the only one that runs, and has given its blocks back; it
\* is running until its slot is released.
CompletionOK ==
  /\ pc = "complete" => \A s, u \in Elements(active) : s = u
  /\ pc = "ack" => job.kind = "complete"
  /\ pc \in {"ack", "release"} /\ job.kind = "complete" =>
       Elements(active) = {job.slot} /\ tables[job.slot] = {}

\* What is in the cache, what is left of the prompt and what may still be
\* generated fit into MaxSeq; no running request is done when a token begins.
Fits(s) ==
  LET st == state[s] IN
  /\ st.made = 0 => st.left > 0 /\ lens[s] + st.left + st.limit <= MaxSeq
  /\ st.made > 0 => st.left = 0 /\ lens[s] + 1 + st.limit - st.made <= MaxSeq
  /\ st.made <= st.limit
MayBeDone ==
  \/ pc \in {"complete", "ack", "fail"}
  \/ pc = "release" /\ job.kind \notin {"evicted", "exhausted", "unjoined"}
LengthsFit ==
  /\ \A s \in Elements(active) : Fits(s)
  /\ \A s \in Elements(pending) : Fits(s) /\ state[s].made = 0
  /\ ~MayBeDone => \A s \in Elements(active) : state[s].made < state[s].limit

\* Messages of a connection, in their order.
Has(q, type, s) == \E i \in 1 .. Len(q) : q[i].type = type /\ q[i].slot = s
Once(q, type) == \A i, j \in 1 .. Len(q) :
  q[i].type = type /\ q[j].type = type /\ q[i].slot = q[j].slot => i = j
ClaimsFirst(q, s) == \A i \in 1 .. Len(q) : q[i].type = "claim" =>
  \E j \in i + 1 .. Len(q) : q[j].type = "release" /\ q[j].slot = s

Going(s) == Has(sent, "release", s)
Coming(s) == Has(replies, "claimed", s)
InEngine == Elements(active) \union Elements(pending)

\* A slot the engine can use is its own, and nothing about it is on the wire.
HeldSlots ==
  \A s \in InEngine \intersect opened : owner[s] = "me" /\ ~Going(s) /\ ~Coming(s)

\* A slot on its way to the engine is its own, once, and not in the engine yet.
ComingSlots ==
  /\ \A s \in Slots : Coming(s) => owner[s] = "me" /\ ~Going(s) /\ s \notin InEngine
  /\ Once(replies, "claimed")

\* A slot on its way back is released once, by its owner.
GoingSlots ==
  /\ \A s \in Slots : Going(s) => owner[s] = "me"
  /\ Once(sent, "release")

\* Only a slot whose release failed, or is under way, is without its handles. It
\* is the only one that runs, and every claim the aggregator has not read yet was
\* sent before that release.
ClosedSlots ==
  /\ Elements(pending) \subseteq opened
  /\ \A s \in Elements(active) \ opened :
       /\ Elements(active) = {s}
       /\ pc = "fail" \/ (pc = "release" /\ job.kind = "complete")
       /\ ClaimsFirst(sent, s)

SlotsApart == HeldSlots /\ ComingSlots /\ GoingSlots

IInv ==
  /\ TypeOK /\ Lists /\ CompletionOK /\ NoBlockLeak /\ LengthsFit
  /\ SlotsApart /\ ClosedSlots
----------------------------------------------------------------------------
(* Types. *)

\* A nonempty set of slots has a lowest one.
LEMMA LowestSlot ==
  ASSUME NEW T, T \subseteq Slots, T # {}
  PROVE  Lowest(T) \in T
<1> DEFINE R == {p \in Nat \X Nat : p[1] < p[2]}
<1> HIDE DEF R
<1>1. T \subseteq Nat
  BY EngineConstantsOK DEF EngineConstantsOK, Slots
<1>2. IsWellFoundedOn(R, Nat)
  BY NatLessThanWellFounded DEF R, OpToRel
<1>3. PICK x \in T : \A y \in T : ~ (<<y, x>> \in R)
  BY <1>1, <1>2, WFMin
<1>4. ASSUME NEW y \in T
      PROVE  x <= y
  <2>1. x \in Nat /\ y \in Nat /\ <<y, x>> \notin R
    BY <1>1, <1>3
  <2>2. ~ (y < x)
    BY <2>1 DEF R
  <2>3. QED
    BY <2>1, <2>2
<1>5. QED
  BY <1>3, <1>4 DEF Lowest

\* A truncated prompt leaves room for one token, and max_tokens is cut to it.
LEMMA PromptFits ==
  ASSUME NEW p \in Prompts, NEW m \in Limits
  PROVE  /\ Truncated(p) \in 1 .. MaxSeq - 1
         /\ Capped(m, Truncated(p)) \in 1 .. MaxSeq
         /\ Truncated(p) + Capped(m, Truncated(p)) <= MaxSeq
BY EngineConstantsOK DEF EngineConstantsOK, Truncated, Capped

\* A pass puts at least one token into the cache and at most what is left.
LEMMA InputLenBounds ==
  ASSUME TypeOK, NEW s \in Slots
  PROVE  /\ InputLen(s) \in Nat \ {0}
         /\ state[s].left > 0 => InputLen(s) <= state[s].left
         /\ state[s].left = 0 => InputLen(s) = 1
<1>1. state[s].left \in 0 .. MaxSeq
  BY DEF TypeOK, SlotState
<1>2. QED
  BY <1>1, EngineConstantsOK DEF EngineConstantsOK, InputLen

\* A running slot that is not done stays within MaxSeq.
LEMMA TokenFits ==
  ASSUME TypeOK, NEW s \in Slots, Fits(s), state[s].made < state[s].limit,
         NEW eos \in BOOLEAN
  PROVE  /\ lens[s] + InputLen(s) \in 0 .. MaxSeq
         /\ Sampled(s, eos) \in SlotState
         /\ LET st == Sampled(s, eos)
                len == lens[s] + InputLen(s) IN
            /\ st.made = 0 => st.left > 0 /\ len + st.left + st.limit <= MaxSeq
            /\ st.made > 0 => st.left = 0 /\ len + 1 + st.limit - st.made <= MaxSeq
            /\ st.made <= st.limit
<1> DEFINE st == state[s]
<1>1. /\ st \in SlotState
      /\ st.left \in 0 .. MaxSeq /\ st.made \in 0 .. MaxSeq /\ st.limit \in 1 .. MaxSeq
      /\ lens[s] \in 0 .. MaxSeq
      /\ MaxSeq \in Nat
  BY EngineConstantsOK DEF EngineConstantsOK, TypeOK, SlotState
<1>2. /\ st.made = 0 => st.left > 0 /\ lens[s] + st.left + st.limit <= MaxSeq
      /\ st.made > 0 => st.left = 0 /\ lens[s] + 1 + st.limit - st.made <= MaxSeq
      /\ st.made < st.limit
  BY DEF Fits
<1>3. /\ InputLen(s) \in Nat \ {0}
      /\ st.left > 0 => InputLen(s) <= st.left
      /\ st.left = 0 => InputLen(s) = 1
  BY InputLenBounds
<1>4. CASE st.left - InputLen(s) > 0
  <2>1. Sampled(s, eos) = [st EXCEPT !.left = st.left - InputLen(s)]
    BY <1>4 DEF Sampled
  <2>2. /\ Sampled(s, eos) \in SlotState
        /\ Sampled(s, eos).left = st.left - InputLen(s)
        /\ Sampled(s, eos).made = st.made /\ Sampled(s, eos).limit = st.limit
    BY <1>1, <1>3, <1>4, <2>1 DEF SlotState
  <2> HIDE DEF st
  <2>3. QED
    BY <1>1, <1>2, <1>3, <1>4, <2>2
<1>5. CASE ~ (st.left - InputLen(s) > 0)
  <2>1. Sampled(s, eos) = [st EXCEPT !.left = 0, !.made = st.made + 1, !.eos = eos]
    BY <1>5 DEF Sampled
  <2>2. /\ Sampled(s, eos) \in SlotState
        /\ Sampled(s, eos).left = 0
        /\ Sampled(s, eos).made = st.made + 1 /\ Sampled(s, eos).limit = st.limit
    <3>1. st.made + 1 \in 0 .. MaxSeq
      BY <1>1, <1>2
    <3>2. 0 \in 0 .. MaxSeq
      BY <1>1
    <3> HIDE DEF st
    <3>3. Sampled(s, eos) \in SlotState
      BY <1>1, <2>1, <3>1, <3>2, Zenon DEF SlotState
    <3>4. QED
      BY <1>1, <2>1, <3>3 DEF SlotState
  <2> HIDE DEF st
  <2>3. st.made = 0 => InputLen(s) = st.left
    BY <1>1, <1>2, <1>3, <1>5
  <2>4. QED
    BY <1>1, <1>2, <1>3, <2>2, <2>3
<1>6. QED
  BY <1>4, <1>5

\* The messages the engine and the aggregator put on the connection are messages.
LEMMA MessageTypes ==
  /\ [type |-> "claim", slot |-> -1] \in Message
  /\ \A s \in Slots : [type |-> "release", slot |-> s] \in Message
  /\ [type |-> "error", slot |-> -1] \in Reply
  /\ \A s \in Slots : [type |-> "claimed", slot |-> s] \in Reply
  /\ \A s \in Slots : [type |-> "released", slot |-> s] \in Reply
  /\ \A s \in Slots : [type |-> "error", slot |-> s] \in Reply
BY DEF Message, Reply

\* A release and a grant name a slot.
LEMMA MessageSlots ==
  /\ \A m \in Message : m.type = "release" => m.slot \in Slots
  /\ \A m \in Reply : m.type = "claimed" => m.slot \in Slots
BY DEF Message, Reply

\* Sending a release leaves everything well typed.
LEMMA SendReleaseTypes ==
  ASSUME TypeOK, NEW s \in Slots, NEW kind \in Kinds, SendRelease(s, kind)
  PROVE  /\ opened' \subseteq Slots /\ sent' \in Seq(Message)
         /\ job' \in Job /\ pc' = "release"
<1>1. sent' \in Seq(Message)
  BY MessageTypes, AppendProperties DEF SendRelease, TypeOK
<1>2. state[s].req \in Requests \union {NoRequest}
  BY DEF TypeOK, SlotState
<1>3. QED
  BY <1>1, <1>2 DEF SendRelease, TypeOK, Job

\* So does freeing the blocks of a slot.
LEMMA FreeSlotTypes ==
  ASSUME TypeOK, NEW s \in Slots, free_slot(s)
  PROVE  /\ free_blocks' \subseteq Blocks /\ dirty' \subseteq Blocks
         /\ tables' \in [Slots -> SUBSET Blocks] /\ lens' \in [Slots -> 0 .. MaxSeq]
<1>1. 0 \in 0 .. MaxSeq
  BY EngineConstantsOK DEF EngineConstantsOK
<1>2. QED
  BY <1>1 DEF free_slot, TypeOK

\* _teardown_slot keeps the types of all it writes.
LEMMA TeardownTypes ==
  ASSUME TypeOK, Injective(active), NEW s \in Slots, NEW kind \in Kinds,
         Teardown(s, kind)
  PROVE  /\ active' \in Seq(Slots)
         /\ free_blocks' \subseteq Blocks /\ dirty' \subseteq Blocks
         /\ tables' \in [Slots -> SUBSET Blocks] /\ lens' \in [Slots -> 0 .. MaxSeq]
         /\ leaves' \subseteq Slots
         /\ opened' \subseteq Slots /\ sent' \in Seq(Message)
         /\ job' \in Job /\ pc' = "release"
<1>1. active' \in Seq(Slots)
  BY WithoutElements DEF Teardown, TypeOK
<1>2. leaves' \subseteq Slots
  BY DEF Teardown, SignalLeave, TypeOK
<1>3. QED
  BY <1>1, <1>2, SendReleaseTypes, FreeSlotTypes DEF Teardown

\* Setting a future keeps its type.
LEMMA FutureTypes ==
  ASSUME TypeOK, NEW r, NEW v \in {"result", "error"}, SetFuture(r, v)
  PROVE  future' \in [Requests -> {"open", "result", "error"}]
BY DEF SetFuture, TypeOK

\* The slots in the dictionaries are slots, and the first one is among them.
LEMMA RunningSlots ==
  ASSUME TypeOK
  PROVE  /\ Elements(active) \subseteq Slots /\ Elements(pending) \subseteq Slots
         /\ Elements(todo) \subseteq Slots
         /\ active # <<>> => Head(active) \in Elements(active)
         /\ pending # <<>> => Head(pending) \in Elements(pending)
         /\ todo # <<>> => Head(todo) \in Elements(todo)
<1>1. /\ Elements(active) \subseteq Slots /\ Elements(pending) \subseteq Slots
      /\ Elements(todo) \subseteq Slots
  BY ElementOfSeq DEF TypeOK, Elements
<1>2. QED
  BY <1>1, TailElements DEF TypeOK

\* An /inference handler, whatever it does, keeps the types.
LEMMA HandlerTypes ==
  ASSUME TypeOK, NEW r \in Requests,
         Submit(r) \/ Refuse(r) \/ BadBody(r) \/ Respond(r)
  PROVE  TypeOK'
<1> USE DEF TypeOK, thread, slots, kv, wire, barrier
<1>1. CASE Submit(r)
  <2>1. queue' \in Seq(Requests)
    BY <1>1, AppendProperties DEF Submit
  <2>2. QED
    BY <1>1, <2>1 DEF Submit
<1>2. CASE Refuse(r)
  BY <1>2 DEF Refuse
<1>3. CASE BadBody(r)
  BY <1>3 DEF BadBody
<1>4. CASE Respond(r)
  BY <1>4 DEF Respond
<1>5. QED
  BY <1>1, <1>2, <1>3, <1>4

\* _accept_one keeps the types.
LEMMA AcceptTypes ==
  ASSUME TypeOK, Accepting
  PROVE  TypeOK'
<1> USE DEF TypeOK, handlers, thread, slots, kv, wire, barrier
<1>1. CASE Prune
  <2>1. queue' \in Seq(Requests)
    BY <1>1, HeadTailProperties DEF Prune
  <2>2. QED
    BY <1>1, <2>1, FutureTypes DEF Prune
<1>2. CASE AskSlot
  <2>1. queue' \in Seq(Requests) /\ Head(queue) \in Requests
    BY <1>2, HeadTailProperties DEF AskSlot
  <2>2. sent' \in Seq(Message)
    BY <1>2, MessageTypes, AppendProperties DEF AskSlot
  <2>3. job' \in Job
    BY <1>2, <2>1 DEF AskSlot, NoJob, Job, Kinds
  <2>4. QED
    BY <1>2, <2>1, <2>2, <2>3 DEF AskSlot
<1>3. CASE Claimed
  <2>1. Head(replies).slot \in Slots /\ replies' \in Seq(Reply)
    BY <1>3, HeadTailProperties, MessageSlots DEF Claimed
  <2>2. PICK p \in Prompts, m \in Limits :
          /\ lens' = [lens EXCEPT ![Head(replies).slot] = 0]
          /\ state' = [state EXCEPT ![Head(replies).slot] =
               [NoState EXCEPT !.req = job.req, !.left = Truncated(p),
                               !.limit = Capped(m, Truncated(p))]]
          /\ pending' = Append(pending, Head(replies).slot)
          /\ opened' = opened \union {Head(replies).slot}
    BY <1>3 DEF Claimed
  <2>3. 0 \in 0 .. MaxSeq /\ Truncated(p) \in 0 .. MaxSeq
    BY PromptFits, EngineConstantsOK DEF EngineConstantsOK
  <2>4. job.req \in Requests \union {NoRequest}
    BY DEF Job
  <2>5. [NoState EXCEPT !.req = job.req, !.left = Truncated(p),
                        !.limit = Capped(m, Truncated(p))] \in SlotState
    BY <2>3, <2>4, PromptFits DEF NoState, SlotState
  <2>6. pending' \in Seq(Slots)
    BY <2>1, <2>2, AppendProperties
  <2>7. NoJob \in Job
    BY DEF NoJob, Job, Kinds
  <2>8. lens' \in [Slots -> 0 .. MaxSeq] /\ state' \in [Slots -> SlotState]
        /\ opened' \subseteq Slots
    BY <2>1, <2>2, <2>3, <2>5
  <2>9. QED
    BY <1>3, <2>1, <2>6, <2>7, <2>8 DEF Claimed
<1>4. CASE ClaimFails
  <2>1. replies' \in Seq(Reply)
    <3>1. replies # <<>> => Tail(replies) \in Seq(Reply)
      BY HeadTailProperties
    <3>2. (replies # <<>> /\ replies' = Tail(replies)) \/ replies' = replies
      BY <1>4 DEF ClaimFails
    <3>3. QED
      BY <3>1, <3>2
  <2>2. NoJob \in Job
    BY DEF NoJob, Job, Kinds
  <2>3. opened' \subseteq Slots
    <3>1. replies # <<>> => Head(replies) \in Reply
      BY HeadTailProperties
    <3>2. replies # <<>> /\ Head(replies).type = "claimed" => Head(replies).slot \in Slots
      BY <3>1, MessageSlots
    <3>3. QED
      BY <1>4, <3>2 DEF ClaimFails
  <2>4. QED
    BY <1>4, <2>1, <2>2, <2>3, FutureTypes DEF ClaimFails
<1>5. CASE Accepted
  BY <1>5 DEF Accepted
<1>6. QED
  BY <1>1, <1>2, <1>3, <1>4, <1>5 DEF Accepting

\* _activate_pending keeps the types.
LEMMA ActivateTypes ==
  ASSUME TypeOK, Lists, Activating
  PROVE  TypeOK'
<1> USE DEF TypeOK, handlers, thread, slots, kv, wire, barrier
<1>1. CASE SignalJoins
  <2>1. joins' \subseteq Slots
    BY <1>1, RunningSlots DEF SignalJoins
  <2>2. \A st \in SlotState : [st EXCEPT !.joined = TRUE] \in SlotState
    BY DEF SlotState
  <2>3. state' \in [Slots -> SlotState]
    BY <1>1, <2>2 DEF SignalJoins
  <2>4. QED
    BY <1>1, <2>1, <2>3 DEF SignalJoins
<1>2. CASE ActivationTimeout
  <2>1. PICK s \in Elements(pending) :
          pending' = Without(pending, s) /\ SignalLeave(s)
            /\ SendRelease(s, "unjoined")
    BY <1>2 DEF ActivationTimeout
  <2>2. s \in Slots /\ pending' \in Seq(Slots)
    BY <2>1, RunningSlots, WithoutElements DEF Lists
  <2>3. leaves' \subseteq Slots
    BY <2>1, <2>2 DEF SignalLeave
  <2>4. QED
    BY <1>2, <2>1, <2>2, <2>3, SendReleaseTypes DEF ActivationTimeout, Kinds
<1>3. CASE Moved
  BY <1>3 DEF Moved
<1>4. ASSUME NEW s \in Slots, Move(s)
      PROVE  TypeOK'
  <2>1. pending' \in Seq(Slots) /\ active' \in Seq(Slots)
    BY <1>4, WithoutElements, AppendElements DEF Move, Lists
  <2>2. QED
    BY <1>4, <2>1 DEF Move
<1>5. QED
  BY <1>1, <1>2, <1>3, <1>4 DEF Activating

\* The one slot that runs.
LEMMA OnlySlot ==
  ASSUME TypeOK, Len(active) = 1
  PROVE  active # <<>> /\ Elements(active) = {Head(active)}
<1>1. active \in Seq(Slots)
  BY DEF TypeOK
<1>2. active # <<>>
  BY <1>1, EmptySeq
<1>3. Head(active) = active[1]
  BY <1>1, <1>2, HeadTailProperties
<1>4. QED
  BY <1>2, <1>3 DEF Elements

\* A token at its end: the running slot stays within MaxSeq.
LEMMA EndTokenTypes ==
  ASSUME TypeOK, LengthsFit, EndToken
  PROVE  TypeOK'
<1> DEFINE s == Head(active)
<1>1. active # <<>> /\ s \in Elements(active) /\ s \in Slots
  <2>1. active # <<>>
    BY OnlySlot DEF EndToken
  <2>2. QED
    BY <2>1, RunningSlots
<1>2. Fits(s) /\ state[s].made < state[s].limit
  BY <1>1 DEF LengthsFit, MayBeDone, EndToken
<1>3. PICK eos \in BOOLEAN : state' = [state EXCEPT ![s] = Sampled(s, eos)]
  BY DEF EndToken
<1>4. Sampled(s, eos) \in SlotState /\ lens[s] + InputLen(s) \in 0 .. MaxSeq
  BY <1>1, <1>2, TokenFits
<1>5. lens' = [lens EXCEPT ![s] = lens[s] + InputLen(s)]
  BY DEF EndToken, Advance
<1> HIDE DEF s
<1>6. state' \in [Slots -> SlotState] /\ lens' \in [Slots -> 0 .. MaxSeq]
  BY <1>1, <1>3, <1>4, <1>5 DEF TypeOK
<1>7. pc' \in {"complete", "token"}
  BY DEF EndToken
<1>8. QED
  BY <1>6, <1>7 DEF EndToken, TypeOK, handlers, wire, barrier

\* A token keeps the types; LengthsFit bounds what it adds to a length.
LEMMA GenerateTypes ==
  ASSUME TypeOK, Lists, LengthsFit, Generating
  PROVE  TypeOK'
<1> USE DEF TypeOK, handlers, thread, slots, kv, wire, barrier
<1>1. CASE AbortEvicted
  <2>1. PICK s \in Elements(active) : evicted' = evicted \ {s} /\ Teardown(s, "evicted")
    BY <1>1 DEF AbortEvicted
  <2>2. s \in Slots
    BY RunningSlots
  <2>3. "evicted" \in Kinds
    BY DEF Kinds
  <2>4. QED
    BY <1>1, <2>1, <2>2, <2>3, TeardownTypes DEF AbortEvicted, Lists
<1>2. CASE NothingActive
  BY <1>2 DEF NothingActive
<1>3. CASE BeginToken
  BY <1>3 DEF BeginToken
<1>4. CASE Ensure
  <2>1. todo' \in Seq(Slots) /\ Head(todo) \in Slots
    BY <1>4, HeadTailProperties DEF Ensure
  <2>2. PICK B \in SUBSET free_blocks : Allocate(Head(todo), B)
    BY <1>4 DEF Ensure
  <2>3. tables' \in [Slots -> SUBSET Blocks] /\ free_blocks' \subseteq Blocks
    BY <2>1, <2>2 DEF Allocate
  <2>4. QED
    BY <1>4, <2>1, <2>3 DEF Ensure
<1>5. CASE Exhausted
  <2>1. todo' \in Seq(Slots) /\ Head(todo) \in Slots
    BY <1>5, HeadTailProperties DEF Exhausted
  <2>2. "exhausted" \in Kinds
    BY DEF Kinds
  <2>3. QED
    BY <1>5, <2>1, <2>2, TeardownTypes DEF Exhausted, Lists
<1>6. CASE RunOps
  <2>1. Head(active) \in Slots
    BY <1>6, RunningSlots DEF RunOps
  <2>2. dirty' \subseteq Blocks
    BY <1>6, <2>1 DEF RunOps
  <2>3. QED
    BY <1>6, <2>2 DEF RunOps
<1>7. CASE EndToken
  BY <1>7, EndTokenTypes
<1>8. CASE SecondSlotRaises
  BY <1>8 DEF SecondSlotRaises
<1>9. CASE TokenRaises
  BY <1>9 DEF TokenRaises
<1>10. QED
  BY <1>1, <1>2, <1>3, <1>4, <1>5, <1>6, <1>7, <1>8, <1>9 DEF Generating, Preparing

\* Completing the finished slots keeps the types.
LEMMA CompleteTypes ==
  ASSUME TypeOK, Lists, CompletionOK, Completing
  PROVE  TypeOK'
<1> USE DEF TypeOK, handlers, slots, kv, wire, barrier
<1>1. CASE Complete
  <2>1. PICK s \in Elements(active) :
          /\ free_slot(s) /\ SignalLeave(s)
          /\ job' = [kind |-> "complete", req |-> state[s].req, slot |-> s]
    BY <1>1 DEF Complete
  <2>2. s \in Slots
    BY RunningSlots
  <2>3. leaves' \subseteq Slots
    BY <2>1, <2>2 DEF SignalLeave
  <2>4. state[s].req \in Requests \union {NoRequest}
    BY <2>2 DEF SlotState
  <2>5. job' \in Job
    BY <2>1, <2>2, <2>4 DEF Job, Kinds
  <2>6. QED
    BY <1>1, <2>1, <2>2, <2>3, <2>5, FreeSlotTypes DEF Complete
<1>2. CASE Completed
  BY <1>2 DEF Completed
<1>3. CASE LeaveAcked
  <2>1. job.slot \in Slots
    BY <1>3, RunningSlots DEF CompletionOK, LeaveAcked
  <2>2. "complete" \in Kinds
    BY DEF Kinds
  <2>3. QED
    BY <1>3, <2>1, <2>2, SendReleaseTypes DEF LeaveAcked
<1>4. QED
  BY <1>1, <1>2, <1>3 DEF Completing

\* _fail_all_slots keeps the types.
LEMMA FailTypes ==
  ASSUME TypeOK, Lists, Failing
  PROVE  TypeOK'
<1> USE DEF TypeOK, handlers, slots, kv, wire, barrier
<1>1. CASE FailActive
  <2> DEFINE s == Head(active)
  <2>1. s \in Slots
    BY <1>1, RunningSlots DEF FailActive
  <2>2. "fail" \in Kinds
    BY DEF Kinds
  <2>3. future' \in [Requests -> {"open", "result", "error"}]
    BY <1>1, FutureTypes DEF FailActive
  <2>4. CASE s \in opened
    BY <1>1, <2>1, <2>2, <2>3, <2>4, TeardownTypes DEF FailActive, Lists
  <2>5. CASE s \notin opened
    <3>1. active' \in Seq(Slots)
      BY <1>1, <2>5, WithoutElements DEF FailActive, Lists
    <3>2. leaves' \subseteq Slots
      BY <1>1, <2>1, <2>5 DEF FailActive, SignalLeave
    <3>3. free_slot(s)
      BY <1>1, <2>5 DEF FailActive
    <3>4. QED
      BY <1>1, <2>1, <2>3, <2>5, <3>1, <3>2, <3>3, FreeSlotTypes DEF FailActive
  <2>6. QED
    BY <2>4, <2>5
<1>2. CASE FailPending
  <2>1. Head(pending) \in Slots /\ pending' \in Seq(Slots)
    BY <1>2, HeadTailProperties DEF FailPending
  <2>2. "fail" \in Kinds
    BY DEF Kinds
  <2>3. QED
    BY <1>2, <2>1, <2>2, FutureTypes, SendReleaseTypes DEF FailPending
<1>3. CASE Failed
  BY <1>3 DEF Failed
<1>4. QED
  BY <1>1, <1>2, <1>3 DEF Failing

\* A release that ends leads back to where it was sent from.
LEMMA AfterPlaces ==
  ASSUME NEW kind \in Kinds
  PROVE  After(kind) \in {"complete", "token", "ensure", "activate", "fail"}
BY DEF After, Kinds

\* Waiting for the reply to a release keeps the types.
LEMMA ReleaseTypes ==
  ASSUME TypeOK, Lists, Releasing
  PROVE  TypeOK'
<1> USE DEF TypeOK, handlers, slots, kv, wire, barrier
<1>1. Without(active, job.slot) \in Seq(Slots)
  BY WithoutElements DEF Lists
<1>2. NoJob \in Job
  BY DEF NoJob, Job, Kinds
<1>3. job.kind \in Kinds
  BY DEF Job
<1>4. ASSUME Released
      PROVE  /\ active' \in Seq(Slots)
             /\ future' \in [Requests -> {"open", "result", "error"}]
             /\ pc' \in {"complete", "token", "ensure", "activate", "fail"}
  BY <1>1, <1>3, <1>4, AfterPlaces, FutureTypes DEF Released
<1>5. CASE ReleaseReply
  <2>1. replies' \in Seq(Reply)
    BY <1>5, HeadTailProperties DEF ReleaseReply
  <2>2. QED
    BY <1>2, <1>4, <1>5, <2>1 DEF ReleaseReply
<1>6. CASE ReleaseTimeout
  <2>1. CASE Released
    BY <1>2, <1>4, <1>6, <2>1 DEF ReleaseTimeout
  <2>2. CASE pc' = "fail" /\ UNCHANGED <<active, future>>
    BY <1>2, <1>6, <2>2 DEF ReleaseTimeout
  <2>3. QED
    BY <1>6, <2>1, <2>2 DEF ReleaseTimeout, Unreleased
<1>7. QED
  BY <1>5, <1>6 DEF Releasing

\* What the aggregator and the network do keeps the types.
LEMMA AggregatorTypes ==
  ASSUME TypeOK,
         \/ Connection \/ OtherClaims \/ Boundary \/ JoinsOnly
         \/ \E s \in Slots : OtherReleases(s) \/ Evict(s)
  PROVE  TypeOK'
<1> USE DEF TypeOK, handlers, thread, slots, kv, wire, barrier
<1>1. FreeSlots # {} => Lowest(FreeSlots) \in Slots
  BY LowestSlot DEF FreeSlots
<1>2. CASE HandleClaim
  <2>1. sent' \in Seq(Message)
    BY <1>2, HeadTailProperties DEF HandleClaim
  <2>2. PICK m \in Reply : replies' = Append(replies, m)
    <3>1. CASE FreeSlots = {}
      BY <1>2, <3>1, MessageTypes DEF HandleClaim
    <3>2. CASE FreeSlots # {}
      BY <1>1, <1>2, <3>2, MessageTypes DEF HandleClaim
    <3>3. QED
      BY <3>1, <3>2
  <2>3. owner' \in [Slots -> {"free", "me", "other"}] /\ evicted' \subseteq Slots
    BY <1>2 DEF HandleClaim
  <2>4. replies' \in Seq(Reply)
    BY <2>2, AppendProperties
  <2>5. QED
    BY <1>2, <2>1, <2>3, <2>4 DEF HandleClaim
<1>3. CASE HandleRelease
  <2>1. sent' \in Seq(Message) /\ Head(sent).slot \in Slots
    BY <1>3, HeadTailProperties, MessageSlots DEF HandleRelease
  <2>2. PICK m \in Reply : replies' = Append(replies, m)
    <3>1. CASE owner[Head(sent).slot] = "me"
      BY <1>3, <2>1, <3>1, MessageTypes DEF HandleRelease
    <3>2. CASE owner[Head(sent).slot] # "me"
      BY <1>3, <2>1, <3>2, MessageTypes DEF HandleRelease
    <3>3. QED
      BY <3>1, <3>2
  <2>3. replies' \in Seq(Reply)
    BY <2>2, AppendProperties
  <2>4. owner' \in [Slots -> {"free", "me", "other"}]
    BY <1>3, <2>1 DEF HandleRelease
  <2>5. QED
    BY <1>3, <2>1, <2>3, <2>4 DEF HandleRelease
<1>4. CASE OtherClaims
  BY <1>4 DEF OtherClaims
<1>5. CASE Boundary \/ JoinsOnly
  BY <1>5 DEF Boundary, JoinsOnly
<1>6. ASSUME NEW s \in Slots, OtherReleases(s)
      PROVE  TypeOK'
  BY <1>6 DEF OtherReleases
<1>7. ASSUME NEW s \in Slots, Evict(s)
      PROVE  TypeOK'
  BY <1>7 DEF Evict
<1>8. QED
  BY <1>2, <1>3, <1>4, <1>5, <1>6, <1>7 DEF Connection

\* Every step keeps the types.
LEMMA TypesStep ==
  ASSUME TypeOK, Lists, CompletionOK, LengthsFit, [Next]_vars
  PROVE  TypeOK'
<1>1. CASE UNCHANGED vars
  BY <1>1 DEF TypeOK, vars, handlers, thread, slots, kv, wire, barrier
<1>2. CASE Next
  BY <1>2, HandlerTypes, AcceptTypes, ActivateTypes, GenerateTypes, CompleteTypes,
     FailTypes, ReleaseTypes, AggregatorTypes DEF Next
<1>3. QED
  BY <1>1, <1>2
----------------------------------------------------------------------------
(* Where the slots are. *)

\* Steps of the handlers and of the aggregator move nothing in the engine.
Outside ==
  \/ \E r \in Requests : Submit(r) \/ Refuse(r) \/ BadBody(r) \/ Respond(r)
  \/ Connection \/ OtherClaims \/ Boundary \/ JoinsOnly
  \/ \E s \in Slots : OtherReleases(s) \/ Evict(s)

\* Handlers and aggregator leave the engine's own state alone.
LEMMA OutsideQuiet ==
  ASSUME Outside
  PROVE  UNCHANGED <<thread, slots, kv>>
BY DEF Outside, Submit, Refuse, BadBody, Respond, Connection, HandleClaim,
       HandleRelease, OtherClaims, Boundary, JoinsOnly, OtherReleases, Evict

\* A slot that was granted is not in the engine yet.
LEMMA ClaimedFresh ==
  ASSUME TypeOK, ComingSlots, replies # <<>>, Head(replies).type = "claimed"
  PROVE  Head(replies).slot \in Slots /\ Head(replies).slot \notin InEngine
<1> DEFINE s == Head(replies).slot
<1>1. Head(replies) \in Reply /\ Head(replies) = replies[1] /\ Len(replies) > 0
  BY HeadTailProperties, LenProperties, EmptySeq DEF TypeOK
<1>2. s \in Slots
  BY <1>1, MessageSlots
<1>3. 1 \in 1 .. Len(replies) /\ replies[1].type = "claimed" /\ replies[1].slot = s
  BY <1>1, LenProperties DEF TypeOK
<1>4. Coming(s)
  BY <1>3 DEF Coming, Has
<1>5. QED
  BY <1>2, <1>4 DEF ComingSlots

\* Accepting adds a slot only if it is not in the engine already (ClaimedFresh).
LEMMA AcceptLists ==
  ASSUME TypeOK, Lists, CompletionOK, ComingSlots, Accepting
  PROVE  Lists' /\ CompletionOK'
<1> USE DEF Lists, CompletionOK, thread, slots, kv, handlers
<1>1. CASE Prune
  BY <1>1 DEF Prune
<1>2. CASE AskSlot
  BY <1>2 DEF AskSlot
<1>3. CASE Claimed
  <2> DEFINE s == Head(replies).slot
  <2>1. s \in Slots /\ s \notin InEngine
    BY <1>3, ClaimedFresh DEF Claimed
  <2>2. /\ pending' = Append(pending, s) /\ UNCHANGED <<active, todo, tables>>
        /\ pc = "claim" /\ pc' = "accept"
    BY <1>3 DEF Claimed
  <2> HIDE DEF s
  <2>3. /\ Elements(pending') = Elements(pending) \union {s}
        /\ Injective(pending')
    BY <2>1, <2>2, AppendElements DEF InEngine, TypeOK
  <2>4. QED
    BY <2>1, <2>2, <2>3 DEF InEngine
<1>4. CASE ClaimFails
  BY <1>4 DEF ClaimFails
<1>5. CASE Accepted
  BY <1>5 DEF Accepted
<1>6. QED
  BY <1>1, <1>2, <1>3, <1>4, <1>5 DEF Accepting

\* Activating moves a slot from pending to active, or drops it.
LEMMA ActivateLists ==
  ASSUME TypeOK, Lists, CompletionOK, Activating
  PROVE  Lists' /\ CompletionOK'
<1> USE DEF Lists, CompletionOK, thread, slots, kv, handlers
<1>1. CASE SignalJoins
  BY <1>1 DEF SignalJoins
<1>2. CASE ActivationTimeout
  <2>1. PICK s \in Elements(pending) :
          pending' = Without(pending, s) /\ SendRelease(s, "unjoined")
    BY <1>2 DEF ActivationTimeout
  <2>2. Injective(pending') /\ Elements(pending') = Elements(pending) \ {s}
    BY <2>1, WithoutElements DEF TypeOK
  <2>3. QED
    BY <1>2, <2>1, <2>2 DEF ActivationTimeout, SendRelease
<1>3. CASE Moved
  BY <1>3 DEF Moved
<1>4. ASSUME NEW s \in Slots, Move(s)
      PROVE  Lists' /\ CompletionOK'
  <2>1. /\ Injective(pending') /\ Elements(pending') = Elements(pending) \ {s}
        /\ Injective(active') /\ Elements(active') = Elements(active) \union {s}
    BY <1>4, WithoutElements, AppendElements DEF Move, TypeOK
  <2>2. QED
    BY <1>4, <2>1 DEF Move
<1>5. QED
  BY <1>1, <1>2, <1>3, <1>4 DEF Activating

\* A token takes slots out of active and notes those that are done.
LEMMA GenerateLists ==
  ASSUME TypeOK, Lists, CompletionOK, Generating
  PROVE  Lists' /\ CompletionOK'
<1> USE DEF Lists, CompletionOK, thread, slots, kv, handlers
<1>1. CASE AbortEvicted
  <2>1. PICK s \in Elements(active) : Teardown(s, "evicted")
    BY <1>1 DEF AbortEvicted
  <2>2. Injective(active') /\ Elements(active') = Elements(active) \ {s}
    BY <2>1, WithoutElements DEF Teardown, TypeOK
  <2>3. /\ pc = "token" /\ UNCHANGED <<todo, pending>>
        /\ pc' = "release" /\ job'.kind = "evicted"
    BY <1>1, <2>1 DEF AbortEvicted, Teardown, SendRelease
  <2>4. todo = <<>> /\ Elements(<<>>) = {}
    BY <2>3 DEF Elements
  <2>5. QED
    BY <2>2, <2>3, <2>4
<1>2. CASE NothingActive
  <2>1. Elements(<<>>) = {} /\ Injective(<<>>)
    BY DEF Elements, Injective
  <2>2. QED
    BY <1>2, <2>1 DEF NothingActive
<1>3. CASE BeginToken
  BY <1>3 DEF BeginToken
<1>4. CASE Ensure
  <2>1. Injective(todo') /\ Elements(todo') \subseteq Elements(todo)
    BY <1>4, TailElements DEF Ensure, TypeOK
  <2>2. UNCHANGED <<pc, job, active, pending>> /\ pc = "ensure"
    BY <1>4 DEF Ensure
  <2>3. CompletionOK'
    BY <2>2
  <2>4. Lists'
    BY <2>1, <2>2
  <2>5. QED
    BY <2>3, <2>4
<1>5. CASE Exhausted
  <2> DEFINE s == Head(todo)
  <2>1. /\ s \in Elements(todo)
        /\ Injective(todo') /\ Elements(todo') = Elements(todo) \ {s}
    BY <1>5, TailElements DEF Exhausted, TypeOK
  <2>2. Injective(active') /\ Elements(active') = Elements(active) \ {s}
    BY <1>5, WithoutElements DEF Exhausted, Teardown, TypeOK
  <2>3. pc' = "release" /\ job'.kind = "exhausted" /\ pending' = pending
    BY <1>5 DEF Exhausted, Teardown, SendRelease
  <2> HIDE DEF s
  <2>4. QED
    BY <2>1, <2>2, <2>3
<1>6. CASE RunOps
  BY <1>6 DEF RunOps
<1>7. CASE EndToken
  <2>1. /\ UNCHANGED <<active, pending, todo, job>>
        /\ pc = "ops" /\ pc' \in {"complete", "token"} /\ Len(active) = 1
    BY <1>7 DEF EndToken
  <2>2. \A s, u \in Elements(active) : s = u
    BY <2>1, OnlySlot
  <2>3. QED
    BY <2>1, <2>2
<1>8. CASE SecondSlotRaises
  BY <1>8 DEF SecondSlotRaises
<1>9. CASE TokenRaises
  BY <1>9 DEF TokenRaises
<1>10. QED
  BY <1>1, <1>2, <1>3, <1>4, <1>5, <1>6, <1>7, <1>8, <1>9 DEF Generating, Preparing

\* Completing frees the blocks of a noted slot and strikes it off.
LEMMA CompleteLists ==
  ASSUME TypeOK, Lists, CompletionOK, Completing
  PROVE  Lists' /\ CompletionOK'
<1> USE DEF Lists, CompletionOK, thread, slots, kv, handlers
<1>1. CASE Complete
  <2>1. PICK s \in Elements(active) :
          free_slot(s) /\ job' = [kind |-> "complete", req |-> state[s].req, slot |-> s]
    BY <1>1 DEF Complete
  <2>2. s \in Slots
    BY RunningSlots
  <2>3. job'.kind = "complete" /\ job'.slot = s /\ tables'[s] = {}
    BY <2>1, <2>2 DEF free_slot, TypeOK
  <2>4. QED
    BY <1>1, <2>3 DEF Complete
<1>2. CASE Completed
  BY <1>2 DEF Completed
<1>3. CASE LeaveAcked
  BY <1>3 DEF LeaveAcked, SendRelease
<1>4. QED
  BY <1>1, <1>2, <1>3 DEF Completing

\* A failure takes the slots out one by one.
LEMMA FailLists ==
  ASSUME TypeOK, Lists, CompletionOK, Failing
  PROVE  Lists' /\ CompletionOK'
<1> USE DEF Lists, CompletionOK, thread, slots, kv, handlers
<1>1. CASE FailActive
  <2>1. active' = Without(active, Head(active)) /\ UNCHANGED <<pending, todo>>
    BY <1>1 DEF FailActive, Teardown
  <2>2. Injective(active') /\ Elements(active') = Elements(active) \ {Head(active)}
    BY <2>1, WithoutElements DEF TypeOK
  <2>3. todo = <<>> /\ Elements(<<>>) = {}
    BY <1>1 DEF FailActive, Elements
  <2>4. pc' = "fail" \/ (pc' = "release" /\ job'.kind = "fail")
    BY <1>1 DEF FailActive, Teardown, SendRelease
  <2>5. QED
    BY <2>1, <2>2, <2>3, <2>4
<1>2. CASE FailPending
  <2>1. Injective(pending') /\ Elements(pending') \subseteq Elements(pending)
    BY <1>2, TailElements DEF FailPending, TypeOK
  <2>2. QED
    BY <1>2, <2>1 DEF FailPending, SendRelease
<1>3. CASE Failed
  BY <1>3 DEF Failed
<1>4. QED
  BY <1>1, <1>2, <1>3 DEF Failing

\* The end of a release may take the completed or exhausted slot out.
LEMMA ReleaseLists ==
  ASSUME TypeOK, Lists, CompletionOK, Releasing
  PROVE  Lists' /\ CompletionOK'
<1> USE DEF Lists, CompletionOK, thread, slots, kv, handlers
<1>1. /\ pc = "release" /\ UNCHANGED <<pending, todo, tables>>
      /\ Released \/ (job.kind # "exhausted" /\ pc' = "fail" /\ UNCHANGED active)
  BY DEF Releasing, ReleaseReply, ReleaseTimeout, Unreleased
<1>2. CASE Released
  <2>1. Injective(active') /\ Elements(active') \subseteq Elements(active)
    BY <1>2, WithoutElements DEF Released, TypeOK
  <2>2. job.kind # "complete" => Elements(active') = Elements(active)
    BY <1>2 DEF Released
  <2>3. job.kind \in Kinds
    BY DEF TypeOK, Job
  <2>4. /\ pc' \in {"complete", "token", "ensure", "activate", "fail"}
        /\ job.kind = "exhausted" => pc' = "ensure"
    BY <1>2, <2>3, AfterPlaces DEF Released, After
  <2>5. job.kind = "complete" => todo = <<>> /\ Elements(todo) = {}
    BY <1>1 DEF Elements
  <2>6. job.kind = "complete" => Elements(active') = {}
    BY <1>1, <1>2, WithoutElements DEF Released, TypeOK
  <2>7. job.kind # "complete" => pc' # "complete"
    BY <1>2, <2>3 DEF Released, After, Kinds
  <2>8. CompletionOK'
    BY <2>4, <2>6, <2>7
  <2>9. Lists'
    BY <1>1, <2>1, <2>2, <2>4, <2>5
  <2>10. QED
    BY <2>8, <2>9
<1>3. CASE job.kind # "exhausted" /\ pc' = "fail" /\ UNCHANGED active
  BY <1>1, <1>3
<1>4. QED
  BY <1>1, <1>2, <1>3

\* The dictionaries stay apart and without repetition in every step.
LEMMA ListsStep ==
  ASSUME TypeOK, Lists, CompletionOK, ComingSlots, [Next]_vars
  PROVE  Lists' /\ CompletionOK'
<1>1. CASE UNCHANGED vars
  BY <1>1 DEF vars, thread, slots, kv, Lists, CompletionOK
<1>2. CASE Outside
  <2>1. UNCHANGED <<thread, slots, kv>>
    BY <1>2, OutsideQuiet
  <2>2. QED
    BY <2>1 DEF thread, slots, kv, Lists, CompletionOK
<1>3. CASE Next
  BY <1>2, <1>3, AcceptLists, ActivateLists, GenerateLists, CompleteLists,
     FailLists, ReleaseLists DEF Next, Outside
<1>4. QED
  BY <1>1, <1>3
----------------------------------------------------------------------------
(* The cache, used as BlockPool says. *)

\* What a step does to the blocks: nothing, and no slot with blocks stops running;
\* or one operation of BlockPool by a slot that is running.
CacheUse ==
  \/ /\ UNCHANGED <<free_blocks, tables, dirty>>
     /\ \A e \in Elements(active) \ Elements(active') : tables[e] = {}
  \/ \E s \in Elements(active) :
       Pool!GiveBack(s) /\ Elements(active) \ {s} \subseteq Elements(active')
  \/ \E s \in Elements(active), B \in SUBSET Blocks :
       Pool!Take(s, B) /\ UNCHANGED active
  \/ \E s \in Elements(active) : Pool!Write(s) /\ UNCHANGED active

\* free_slot is the GiveBack of BlockPool.
LEMMA FreeSlotGivesBack ==
  ASSUME NEW s \in Slots, free_slot(s)
  PROVE  Pool!GiveBack(s)
BY DEF free_slot, Pool!GiveBack

\* A teardown gives the blocks of its slot back before the slot leaves active.
LEMMA TeardownGivesBack ==
  ASSUME TypeOK, Lists, NEW s \in Elements(active), NEW kind, Teardown(s, kind)
  PROVE  CacheUse
<1>1. s \in Slots /\ Elements(active') = Elements(active) \ {s}
  BY RunningSlots, WithoutElements DEF Teardown, TypeOK, Lists
<1>2. Pool!GiveBack(s)
  BY <1>1, FreeSlotGivesBack DEF Teardown
<1>3. QED
  BY <1>1, <1>2 DEF CacheUse

\* A token takes blocks, writes its own, or gives all of a slot back.
LEMMA GenerateCache ==
  ASSUME TypeOK, Lists, Generating
  PROVE  CacheUse
<1> USE DEF thread, slots, kv
<1>1. CASE AbortEvicted
  BY <1>1, TeardownGivesBack DEF AbortEvicted
<1>2. CASE Ensure
  <2> DEFINE s == Head(todo)
  <2>1. s \in Elements(active)
    BY <1>2, RunningSlots DEF Ensure, Lists
  <2>2. PICK B \in SUBSET free_blocks : Allocate(s, B)
    BY <1>2 DEF Ensure
  <2>3. B \in SUBSET Blocks
    BY DEF TypeOK
  <2>4. UNCHANGED <<dirty, active>>
    BY <1>2 DEF Ensure
  <2> HIDE DEF s
  <2>5. Pool!Take(s, B)
    BY <2>2, <2>4 DEF Pool!Take, Allocate
  <2>6. QED
    BY <2>1, <2>3, <2>4, <2>5 DEF CacheUse
<1>3. CASE Exhausted
  <2>1. Head(todo) \in Elements(active)
    BY <1>3, RunningSlots DEF Exhausted, Lists
  <2>2. QED
    BY <1>3, <2>1, TeardownGivesBack DEF Exhausted
<1>4. CASE RunOps
  <2>1. Head(active) \in Elements(active)
    BY <1>4, RunningSlots DEF RunOps
  <2>2. Pool!Write(Head(active)) /\ UNCHANGED active
    BY <1>4 DEF RunOps, Pool!Write
  <2>3. QED
    BY <2>1, <2>2 DEF CacheUse
<1>5. CASE NothingActive \/ BeginToken \/ EndToken \/ SecondSlotRaises \/ TokenRaises
  <2>1. UNCHANGED <<free_blocks, tables, dirty, active>>
    BY <1>5 DEF NothingActive, BeginToken, EndToken, SecondSlotRaises, TokenRaises
  <2>2. QED
    BY <2>1 DEF CacheUse
<1>6. QED
  BY <1>1, <1>2, <1>3, <1>4, <1>5 DEF Generating, Preparing

\* No step touches the blocks in any other way.
LEMMA CacheStep ==
  ASSUME TypeOK, Lists, CompletionOK, [Next]_vars
  PROVE  CacheUse
<1> USE DEF thread, slots, kv
<1>1. ASSUME UNCHANGED <<free_blocks, tables, dirty, active>>
      PROVE  CacheUse
  BY <1>1 DEF CacheUse
<1>2. CASE UNCHANGED vars
  BY <1>1, <1>2 DEF vars
<1>3. CASE Outside
  BY <1>1, <1>3, OutsideQuiet
<1>4. CASE Accepting
  BY <1>1, <1>4 DEF Accepting, Prune, AskSlot, Claimed, ClaimFails, Accepted
<1>5. CASE Activating
  <2>1. CASE \E s \in Slots : Move(s)
    <3>1. PICK s \in Slots : Move(s)
      BY <2>1
    <3>2. Elements(active') = Elements(active) \union {s}
      BY <3>1, AppendElements DEF Move, TypeOK
    <3>3. UNCHANGED <<free_blocks, tables, dirty>>
      BY <3>1 DEF Move
    <3>4. QED
      BY <3>2, <3>3 DEF CacheUse
  <2>2. CASE SignalJoins \/ ActivationTimeout \/ Moved
    BY <1>1, <2>2 DEF SignalJoins, ActivationTimeout, Moved
  <2>3. QED
    BY <1>5, <2>1, <2>2 DEF Activating
<1>6. CASE Generating
  BY <1>6, GenerateCache
<1>7. CASE Completing
  <2>1. CASE Complete
    <3>1. PICK s \in Elements(active) : free_slot(s)
      BY <2>1 DEF Complete
    <3>2. Pool!GiveBack(s) /\ UNCHANGED active
      BY <2>1, <3>1, RunningSlots, FreeSlotGivesBack DEF Complete
    <3>3. QED
      BY <3>2 DEF CacheUse
  <2>2. CASE Completed \/ LeaveAcked
    BY <1>1, <2>2 DEF Completed, LeaveAcked
  <2>3. QED
    BY <1>7, <2>1, <2>2 DEF Completing
<1>8. CASE Failing
  <2>1. CASE FailActive
    <3> DEFINE s == Head(active)
    <3>1. s \in Elements(active) /\ s \in Slots
      BY <2>1, RunningSlots DEF FailActive
    <3>2. free_slot(s) /\ active' = Without(active, s)
      BY <2>1 DEF FailActive, Teardown
    <3>3. Elements(active') = Elements(active) \ {s}
      BY <3>2, WithoutElements DEF TypeOK, Lists
    <3>4. Pool!GiveBack(s)
      BY <3>1, <3>2, FreeSlotGivesBack
    <3> HIDE DEF s
    <3>5. QED
      BY <3>1, <3>3, <3>4 DEF CacheUse
  <2>2. CASE FailPending \/ Failed
    BY <1>1, <2>2 DEF FailPending, Failed
  <2>3. QED
    BY <1>8, <2>1, <2>2 DEF Failing
<1>9. CASE Releasing
  <2>1. pc = "release" /\ UNCHANGED <<free_blocks, tables, dirty>>
    BY <1>9 DEF Releasing, ReleaseReply, ReleaseTimeout
  <2>2. active' = active
          \/ (job.kind = "complete" /\ active' = Without(active, job.slot))
    BY <1>9 DEF Releasing, ReleaseReply, ReleaseTimeout, Released, Unreleased
  <2>3. CASE job.kind = "complete" /\ active' = Without(active, job.slot)
    <3>1. Elements(active') = Elements(active) \ {job.slot}
      BY <2>3, WithoutElements DEF TypeOK, Lists
    <3>2. tables[job.slot] = {}
      BY <2>1, <2>3 DEF CompletionOK
    <3>3. QED
      BY <2>1, <3>1, <3>2 DEF CacheUse
  <2>4. QED
    BY <1>1, <2>1, <2>2, <2>3
<1>10. QED
  BY <1>2, <1>3, <1>4, <1>5, <1>6, <1>7, <1>8, <1>9 DEF Next, Outside

\* A slot that is not running has no blocks.
LEMMA NoLeakStep ==
  ASSUME TypeOK, NoBlockLeak, CacheUse
  PROVE  NoBlockLeak'
<1> USE DEF NoBlockLeak
<1>1. CASE /\ UNCHANGED <<free_blocks, tables, dirty>>
           /\ \A e \in Elements(active) \ Elements(active') : tables[e] = {}
  BY <1>1
<1>2. ASSUME NEW s \in Elements(active), Pool!GiveBack(s),
             Elements(active) \ {s} \subseteq Elements(active')
      PROVE  NoBlockLeak'
  <2>1. s \in Slots /\ tables' = [tables EXCEPT ![s] = {}]
    BY <1>2, RunningSlots DEF Pool!GiveBack
  <2>2. QED
    BY <1>2, <2>1 DEF TypeOK
<1>3. ASSUME NEW s \in Elements(active), NEW B, Pool!Take(s, B), UNCHANGED active
      PROVE  NoBlockLeak'
  <2>1. s \in Slots /\ tables' = [tables EXCEPT ![s] = @ \union B]
    BY <1>3, RunningSlots DEF Pool!Take
  <2>2. QED
    BY <1>3, <2>1 DEF TypeOK
<1>4. ASSUME NEW s \in Elements(active), Pool!Write(s), UNCHANGED active
      PROVE  NoBlockLeak'
  BY <1>4 DEF Pool!Write
<1>5. QED
  BY <1>1, <1>2, <1>3, <1>4 DEF CacheUse
----------------------------------------------------------------------------
(* Sequences stay within MaxSeq. *)

\* It is enough that slots only leave, and that no sequence gets longer.
LEMMA LengthsShrink ==
  ASSUME TypeOK, LengthsFit, UNCHANGED state,
         Elements(active') \subseteq Elements(active),
         Elements(pending') \subseteq Elements(pending),
         \A e \in Elements(active') \union Elements(pending') :
           lens'[e] \in Nat /\ lens'[e] <= lens[e],
         \/ MayBeDone'
         \/ \A e \in Elements(active') : state[e].made < state[e].limit
  PROVE  LengthsFit'
<1>1. ASSUME NEW e \in InEngine, Fits(e), lens'[e] \in Nat, lens'[e] <= lens[e]
      PROVE  Fits(e)'
  <2>1. e \in Slots
    BY RunningSlots DEF InEngine
  <2>2. /\ state[e].left \in Nat /\ state[e].made \in Nat /\ state[e].limit \in Nat
        /\ lens[e] \in Nat /\ MaxSeq \in Nat
    BY <2>1, EngineConstantsOK DEF TypeOK, SlotState, EngineConstantsOK
  <2>3. QED
    BY <1>1, <2>2 DEF Fits
<1>2. \A e \in Elements(active') : Fits(e)'
  BY <1>1 DEF LengthsFit, InEngine
<1>3. \A e \in Elements(pending') : Fits(e)' /\ state'[e].made = 0
  BY <1>1 DEF LengthsFit, InEngine
<1>4. ~ MayBeDone' => \A e \in Elements(active') : state'[e].made < state'[e].limit
  OBVIOUS
<1> HIDE DEF MayBeDone
<1>5. QED
  BY <1>2, <1>3, <1>4 DEF LengthsFit

\* In particular it is when nothing of it changes.
LEMMA LengthsKept ==
  ASSUME TypeOK, LengthsFit, UNCHANGED <<active, pending, state, lens>>,
         MayBeDone => MayBeDone'
  PROVE  LengthsFit'
<1>1. \A e \in Elements(active) \union Elements(pending) :
        lens[e] \in Nat /\ lens[e] <= lens[e]
  BY RunningSlots, EngineConstantsOK DEF TypeOK, EngineConstantsOK
<1>2. QED
  BY <1>1, LengthsShrink DEF LengthsFit

\* A teardown leaves the lengths of the other slots alone.
LEMMA TeardownLengths ==
  ASSUME TypeOK, Lists, LengthsFit, NEW s \in Elements(active), NEW kind,
         Teardown(s, kind), UNCHANGED <<state, pending>>,
         \/ kind \notin {"evicted", "exhausted", "unjoined"}
         \/ ~ MayBeDone
  PROVE  LengthsFit'
<1>1. Elements(active') = Elements(active) \ {s}
  BY WithoutElements DEF Teardown, TypeOK, Lists
<1>2. lens' = [lens EXCEPT ![s] = 0]
  BY DEF Teardown, free_slot
<1>3. \A e \in Elements(active') \union Elements(pending) :
        lens'[e] \in Nat /\ lens'[e] <= lens[e]
  BY <1>1, <1>2, RunningSlots, EngineConstantsOK
     DEF TypeOK, EngineConstantsOK, Lists
<1>4. kind \notin {"evicted", "exhausted", "unjoined"} => MayBeDone'
  BY DEF Teardown, SendRelease, MayBeDone
<1>5. ~ MayBeDone => \A e \in Elements(active) : state[e].made < state[e].limit
  BY DEF LengthsFit
<1>6. QED
  BY <1>1, <1>3, <1>4, <1>5, LengthsShrink

\* A claimed slot starts at length zero with a prompt and a limit that fit.
LEMMA ClaimedLengths ==
  ASSUME TypeOK, Lists, ComingSlots, LengthsFit, Claimed
  PROVE  LengthsFit'
<1>1. PICK s \in Slots : s = Head(replies).slot /\ s \notin InEngine
  BY ClaimedFresh DEF Claimed
<1>2. PICK p \in Prompts, m \in Limits :
        /\ lens' = [lens EXCEPT ![s] = 0]
        /\ state' = [state EXCEPT ![s] =
             [NoState EXCEPT !.req = job.req, !.left = Truncated(p),
                             !.limit = Capped(m, Truncated(p))]]
        /\ pending' = Append(pending, s)
  BY <1>1 DEF Claimed
<1>3. active' = active /\ pc = "claim" /\ pc' = "accept"
  BY DEF Claimed
<1>4. Elements(pending') = Elements(pending) \union {s}
  BY <1>1, <1>2, AppendElements DEF TypeOK
<1>5. /\ lens'[s] = 0 /\ state'[s].made = 0
      /\ state'[s].left = Truncated(p)
      /\ state'[s].limit = Capped(m, Truncated(p))
  BY <1>1, <1>2 DEF TypeOK, NoState
<1>6. Fits(s)'
  <2> DEFINE n == Truncated(p)
             k == Capped(m, n)
  <2>1. MaxSeq \in Nat /\ n \in 1 .. MaxSeq - 1 /\ k \in 1 .. MaxSeq /\ n + k <= MaxSeq
    BY PromptFits, EngineConstantsOK DEF EngineConstantsOK
  <2>2. /\ lens'[s] = 0 /\ state'[s].made = 0
        /\ state'[s].left = n /\ state'[s].limit = k
    BY <1>5
  <2> HIDE DEF n, k
  <2>3. QED
    BY <2>1, <2>2 DEF Fits
<1>7. ASSUME NEW e \in InEngine
      PROVE  lens'[e] = lens[e] /\ state'[e] = state[e]
  BY <1>1, <1>2, <1>7, RunningSlots DEF InEngine, TypeOK
<1>8. ASSUME NEW e \in InEngine, Fits(e)
      PROVE  Fits(e)'
  BY <1>7, <1>8 DEF Fits
<1>9. /\ \A e \in Elements(active) : Fits(e)' /\ state'[e].made < state'[e].limit
      /\ \A e \in Elements(pending) : Fits(e)' /\ state'[e].made = 0
  BY <1>3, <1>7, <1>8 DEF LengthsFit, InEngine, MayBeDone
<1>10. \A e \in Elements(pending') : Fits(e)' /\ state'[e].made = 0
  BY <1>4, <1>5, <1>6, <1>9
<1>11. \A e \in Elements(active') : Fits(e)' /\ state'[e].made < state'[e].limit
  BY <1>3, <1>9
<1>12. QED
  BY <1>10, <1>11 DEF LengthsFit

\* Accepting keeps every sequence within MaxSeq.
LEMMA AcceptLengths ==
  ASSUME TypeOK, Lists, ComingSlots, LengthsFit, Accepting
  PROVE  LengthsFit'
<1> USE DEF handlers, thread, slots, kv
<1>1. CASE Prune
  BY <1>1, LengthsKept DEF Prune, MayBeDone
<1>2. CASE AskSlot
  BY <1>2, LengthsKept DEF AskSlot, MayBeDone
<1>3. CASE Claimed
  BY <1>3, ClaimedLengths
<1>4. CASE ClaimFails
  BY <1>4, LengthsKept DEF ClaimFails, MayBeDone
<1>5. CASE Accepted
  BY <1>5, LengthsKept DEF Accepted, MayBeDone
<1>6. QED
  BY <1>1, <1>2, <1>3, <1>4, <1>5 DEF Accepting

\* Activating changes no length.
LEMMA ActivateLengths ==
  ASSUME TypeOK, Lists, LengthsFit, Activating
  PROVE  LengthsFit'
<1> USE DEF handlers, thread, slots, kv
<1>1. CASE SignalJoins
  <2>1. ASSUME NEW e \in InEngine
        PROVE  /\ state'[e].left = state[e].left /\ state'[e].made = state[e].made
               /\ state'[e].limit = state[e].limit /\ lens'[e] = lens[e]
    <3>1. e \in Slots
      BY RunningSlots DEF InEngine
    <3>2. state'[e] = state[e] \/ state'[e] = [state[e] EXCEPT !.joined = TRUE]
      BY <1>1, <3>1 DEF SignalJoins
    <3>3. state[e] \in SlotState
      BY <3>1 DEF TypeOK
    <3>4. QED
      BY <1>1, <3>2, <3>3 DEF SlotState, SignalJoins
  <2>2. UNCHANGED <<active, pending>> /\ pc = "activate"
    BY <1>1 DEF SignalJoins
  <2>3. /\ \A e \in Elements(active) : Fits(e) /\ state[e].made < state[e].limit
        /\ \A e \in Elements(pending) : Fits(e) /\ state[e].made = 0
    BY <2>2 DEF LengthsFit, MayBeDone
  <2>4. ASSUME NEW e \in InEngine, Fits(e)
        PROVE  Fits(e)'
    BY <2>1, <2>4 DEF Fits
  <2>5. QED
    BY <2>1, <2>2, <2>3, <2>4 DEF LengthsFit, InEngine
<1>2. CASE ActivationTimeout
  <2>1. PICK s \in Elements(pending) : pending' = Without(pending, s)
    BY <1>2 DEF ActivationTimeout
  <2>2. Elements(pending') \subseteq Elements(pending)
    BY <2>1, WithoutElements DEF TypeOK, Lists
  <2>3. /\ UNCHANGED <<state, active, lens>> /\ pc = "activate"
    BY <1>2 DEF ActivationTimeout
  <2>4. \A e \in Elements(active) : state[e].made < state[e].limit
    BY <2>3 DEF LengthsFit, MayBeDone
  <2>5. \A e \in Elements(active) \union Elements(pending) :
          lens[e] \in Nat /\ lens[e] <= lens[e]
    BY RunningSlots, EngineConstantsOK DEF TypeOK, EngineConstantsOK
  <2>6. QED
    BY <2>2, <2>3, <2>4, <2>5, LengthsShrink
<1>3. CASE Moved
  BY <1>3, LengthsKept DEF Moved, MayBeDone
<1>4. ASSUME NEW s \in Slots, Move(s)
      PROVE  LengthsFit'
  <2>1. /\ Elements(pending') = Elements(pending) \ {s}
        /\ Elements(active') = Elements(active) \union {s}
    BY <1>4, WithoutElements, AppendElements DEF Move, TypeOK, Lists
  <2>2. /\ s \in Elements(pending) /\ UNCHANGED <<state, lens, pc, job>>
        /\ pc = "move"
    BY <1>4 DEF Move
  <2>3. state[s].made = 0 /\ 1 <= state[s].limit
    BY <2>2 DEF LengthsFit, TypeOK, SlotState
  <2>4. ASSUME NEW e \in InEngine
        PROVE  Fits(e)' /\ state'[e] = state[e]
    <3>1. Fits(e)
      BY DEF LengthsFit, InEngine
    <3>2. QED
      BY <2>2, <3>1 DEF Fits
  <2>5. \A e \in Elements(pending') : Fits(e)' /\ state'[e].made = 0
    BY <2>1, <2>4 DEF LengthsFit, InEngine
  <2>6. state[s].made < state[s].limit
    BY <1>4, <2>3 DEF TypeOK, SlotState
  <2>7. \A e \in Elements(active') : Fits(e)' /\ state'[e].made < state'[e].limit
    BY <2>1, <2>2, <2>4, <2>6 DEF LengthsFit, InEngine, MayBeDone
  <2>8. QED
    BY <2>5, <2>7 DEF LengthsFit
<1>5. QED
  BY <1>1, <1>2, <1>3, <1>4 DEF Activating

\* The end of a token adds exactly what was still to be added (TokenFits).
LEMMA EndTokenLengths ==
  ASSUME TypeOK, Lists, LengthsFit, EndToken
  PROVE  LengthsFit'
<1>1. active # <<>> /\ Elements(active) = {Head(active)}
  BY OnlySlot DEF EndToken
<1>2. PICK s \in Slots : s = Head(active) /\ s \in Elements(active)
  BY <1>1, RunningSlots
<1>3. Elements(active) = {s}
  BY <1>1, <1>2
<1>4. Fits(s) /\ state[s].made < state[s].limit
  BY <1>2 DEF LengthsFit, MayBeDone, EndToken
<1>5. PICK eos \in BOOLEAN : state' = [state EXCEPT ![s] = Sampled(s, eos)]
  BY <1>2 DEF EndToken
<1>6. lens' = [lens EXCEPT ![s] = lens[s] + InputLen(s)]
  BY <1>2 DEF EndToken, Advance
<1>7. state'[s] = Sampled(s, eos) /\ lens'[s] = lens[s] + InputLen(s)
  BY <1>5, <1>6 DEF TypeOK
<1>8. Fits(s)'
  BY <1>4, <1>7, TokenFits DEF Fits
<1>9. UNCHANGED <<active, pending>> /\ pc' \in {"complete", "token"}
      /\ (pc' = "token" => ~ (state'[s].made >= state'[s].limit))
  BY <1>2 DEF EndToken
<1>10. pc' = "token" => state'[s].made < state'[s].limit
  <2>1. state'[s] \in SlotState
    BY <1>4, <1>7, TokenFits
  <2>2. state'[s].made \in Nat /\ state'[s].limit \in Nat
    BY <2>1, EngineConstantsOK DEF SlotState, EngineConstantsOK
  <2>3. QED
    BY <1>9, <2>2
<1>11. ASSUME NEW e \in Elements(pending)
       PROVE  Fits(e)' /\ state'[e].made = 0
  <2>1. e \in Slots /\ e # s
    BY <1>2, <1>11, RunningSlots DEF Lists
  <2>2. state'[e] = state[e] /\ lens'[e] = lens[e]
    BY <1>5, <1>6, <2>1 DEF TypeOK
  <2>3. Fits(e) /\ state[e].made = 0
    BY <1>11 DEF LengthsFit
  <2>4. QED
    BY <2>2, <2>3 DEF Fits
<1>12. \A e \in Elements(active') : Fits(e)'
  BY <1>3, <1>8, <1>9
<1>13. ~ MayBeDone' => \A e \in Elements(active') : state'[e].made < state'[e].limit
  BY <1>3, <1>9, <1>10 DEF MayBeDone
<1>14. \A e \in Elements(pending') : Fits(e)' /\ state'[e].made = 0
  BY <1>9, <1>11
<1> HIDE DEF MayBeDone
<1>15. QED
  BY <1>12, <1>13, <1>14 DEF LengthsFit

\* A token keeps every sequence within MaxSeq.
LEMMA GenerateLengths ==
  ASSUME TypeOK, Lists, LengthsFit, Generating
  PROVE  LengthsFit'
<1> USE DEF handlers, thread, slots, kv
<1>1. CASE AbortEvicted
  BY <1>1, TeardownLengths DEF AbortEvicted, MayBeDone
<1>2. CASE NothingActive
  BY <1>2, LengthsKept DEF NothingActive, MayBeDone
<1>3. CASE BeginToken
  BY <1>3, LengthsKept DEF BeginToken, MayBeDone
<1>4. CASE Ensure
  BY <1>4, LengthsKept DEF Ensure, MayBeDone
<1>5. CASE Exhausted
  <2>1. Head(todo) \in Elements(active)
    BY <1>5, RunningSlots DEF Exhausted, Lists
  <2>2. QED
    BY <1>5, <2>1, TeardownLengths DEF Exhausted, MayBeDone
<1>6. CASE RunOps
  BY <1>6, LengthsKept DEF RunOps, MayBeDone
<1>7. CASE EndToken
  BY <1>7, EndTokenLengths
<1>8. CASE SecondSlotRaises
  BY <1>8, LengthsKept DEF SecondSlotRaises, MayBeDone
<1>9. CASE TokenRaises
  BY <1>9, LengthsKept DEF TokenRaises, MayBeDone
<1>10. QED
  BY <1>1, <1>2, <1>3, <1>4, <1>5, <1>6, <1>7, <1>8, <1>9 DEF Generating, Preparing

\* Completing resets one length and leaves the others alone.
LEMMA CompleteLengths ==
  ASSUME TypeOK, Lists, LengthsFit, Completing
  PROVE  LengthsFit'
<1> USE DEF handlers, thread, slots, kv
<1>1. CASE Complete
  <2>1. PICK s \in Elements(active) : lens' = [lens EXCEPT ![s] = 0]
    BY <1>1 DEF Complete, free_slot
  <2>2. \A e \in Elements(active) \union Elements(pending) :
          lens'[e] \in Nat /\ lens'[e] <= lens[e]
    BY <2>1, RunningSlots, EngineConstantsOK DEF TypeOK, EngineConstantsOK
  <2>3. UNCHANGED <<active, pending, state>> /\ MayBeDone'
    BY <1>1 DEF Complete, MayBeDone
  <2>4. QED
    BY <2>2, <2>3, LengthsShrink
<1>2. CASE Completed
  <2>1. ASSUME NEW e \in Elements(active)
        PROVE  state[e].made < state[e].limit
    <3>1. ~ (state[e].made >= state[e].limit)
      BY <1>2 DEF Completed, Done
    <3>2. state[e] \in SlotState
      BY RunningSlots DEF TypeOK
    <3>3. state[e].made \in Nat /\ state[e].limit \in Nat
      BY <3>2, EngineConstantsOK DEF SlotState, EngineConstantsOK
    <3>4. QED
      BY <3>1, <3>3
  <2>2. UNCHANGED <<active, pending, state, lens>>
    BY <1>2 DEF Completed
  <2>3. \A e \in Elements(active) \union Elements(pending) :
          lens[e] \in Nat /\ lens[e] <= lens[e]
    BY RunningSlots, EngineConstantsOK DEF TypeOK, EngineConstantsOK
  <2>4. QED
    BY <2>1, <2>2, <2>3, LengthsShrink
<1>3. CASE LeaveAcked
  BY <1>3, LengthsKept DEF LeaveAcked, SendRelease, MayBeDone
<1>4. QED
  BY <1>1, <1>2, <1>3 DEF Completing

\* A failure resets one length and leaves the others alone.
LEMMA FailLengths ==
  ASSUME TypeOK, Lists, LengthsFit, Failing
  PROVE  LengthsFit'
<1> USE DEF handlers, thread, slots, kv
<1>1. CASE FailActive
  <2>1. PICK s \in Elements(active) :
          active' = Without(active, s) /\ lens' = [lens EXCEPT ![s] = 0]
    BY <1>1, RunningSlots DEF FailActive, Teardown, free_slot
  <2>2. Elements(active') = Elements(active) \ {s}
    BY <2>1, WithoutElements DEF TypeOK, Lists
  <2>3. \A e \in Elements(active') \union Elements(pending) :
          lens'[e] \in Nat /\ lens'[e] <= lens[e]
    <3>1. \A e \in Slots : lens[e] \in Nat
      BY EngineConstantsOK DEF TypeOK, EngineConstantsOK
    <3>2. \A e \in Slots : lens'[e] = IF e = s THEN 0 ELSE lens[e]
      BY <2>1 DEF TypeOK
    <3>3. \A e \in Elements(active') \union Elements(pending) : e \in Slots
      BY <2>2, RunningSlots
    <3>4. QED
      BY <3>1, <3>2, <3>3
  <2>4. UNCHANGED <<pending, state>> /\ MayBeDone'
    BY <1>1 DEF FailActive, Teardown, SendRelease, MayBeDone
  <2>5. QED
    BY <2>2, <2>3, <2>4, LengthsShrink
<1>2. CASE FailPending
  <2>1. Elements(pending') \subseteq Elements(pending)
    BY <1>2, TailElements DEF FailPending, TypeOK
  <2>2. UNCHANGED <<active, state, lens>> /\ MayBeDone'
    BY <1>2 DEF FailPending, SendRelease, MayBeDone
  <2>3. \A e \in Elements(active) \union Elements(pending) :
          lens[e] \in Nat /\ lens[e] <= lens[e]
    BY RunningSlots, EngineConstantsOK DEF TypeOK, EngineConstantsOK
  <2>4. QED
    BY <2>1, <2>2, <2>3, LengthsShrink
<1>3. CASE Failed
  <2>1. Elements(active) = {} /\ Elements(pending) = {}
    BY <1>3 DEF Failed, Elements
  <2>2. Elements(active') = {} /\ Elements(pending') = {}
    BY <1>3, <2>1 DEF Failed
  <2>3. QED
    BY <2>2 DEF LengthsFit
<1>4. QED
  BY <1>1, <1>2, <1>3 DEF Failing

\* The end of a release only takes slots out.
LEMMA ReleaseLengths ==
  ASSUME TypeOK, Lists, LengthsFit, Releasing
  PROVE  LengthsFit'
<1> USE DEF handlers, thread, slots, kv
<1>1. /\ pc = "release" /\ UNCHANGED <<pending, state, lens>>
      /\ Released \/ (pc' = "fail" /\ UNCHANGED active)
  BY DEF Releasing, ReleaseReply, ReleaseTimeout, Unreleased
<1>2. Elements(active') \subseteq Elements(active)
  BY <1>1, WithoutElements DEF Released, TypeOK, Lists
<1>3. \A e \in Elements(active) \union Elements(pending) :
        lens[e] \in Nat /\ lens[e] <= lens[e]
  BY RunningSlots, EngineConstantsOK DEF TypeOK, EngineConstantsOK
<1>4. \/ MayBeDone'
      \/ \A e \in Elements(active) : state[e].made < state[e].limit
  <2>1. CASE job.kind \in {"evicted", "exhausted", "unjoined"}
    BY <1>1, <2>1 DEF LengthsFit, MayBeDone
  <2>2. CASE job.kind \notin {"evicted", "exhausted", "unjoined"}
    <3>1. After(job.kind) \in {"complete", "fail"}
      BY <2>2 DEF After, TypeOK, Job, Kinds
    <3>2. QED
      BY <1>1, <3>1 DEF Released, MayBeDone
  <2>3. QED
    BY <2>1, <2>2
<1> HIDE DEF MayBeDone
<1>5. QED
  BY <1>1, <1>2, <1>3, <1>4, LengthsShrink

\* What a slot holds and may still add stays within MaxSeq in every step.
LEMMA LengthsStep ==
  ASSUME TypeOK, Lists, ComingSlots, LengthsFit, [Next]_vars
  PROVE  LengthsFit'
<1>1. CASE UNCHANGED vars \/ Outside
  <2>1. UNCHANGED <<thread, slots, kv>>
    BY <1>1, OutsideQuiet DEF vars
  <2>2. QED
    BY <2>1, LengthsKept DEF thread, slots, kv, MayBeDone
<1>2. CASE Next
  BY <1>1, <1>2, AcceptLengths, ActivateLengths, GenerateLengths, CompleteLengths,
     FailLengths, ReleaseLengths DEF Next, Outside
<1>3. QED
  BY <1>1, <1>2
----------------------------------------------------------------------------
(* Messages in their order. *)

\* What a queue of messages contains once one is added at its end.
LEMMA MessagesAppend ==
  ASSUME NEW S, NEW q \in Seq(S), NEW m \in S
  PROVE  /\ \A t, s : Has(Append(q, m), t, s) <=>
              Has(q, t, s) \/ (m.type = t /\ m.slot = s)
         /\ \A t : Once(q, t) /\ (m.type = t => ~Has(q, t, m.slot))
                     => Once(Append(q, m), t)
         /\ \A s : m.type = "release" /\ m.slot = s => ClaimsFirst(Append(q, m), s)
<1> DEFINE a == Append(q, m)
<1>1. /\ Len(q) \in Nat /\ Len(a) = Len(q) + 1
      /\ \A i \in 1 .. Len(q) : a[i] = q[i]
      /\ a[Len(q) + 1] = m
  BY AppendProperties, LenProperties
<1> HIDE DEF a
<1>2. \A t, s : Has(a, t, s) <=> Has(q, t, s) \/ (m.type = t /\ m.slot = s)
  BY <1>1 DEF Has
<1>3. ASSUME NEW t, Once(q, t), m.type = t => ~Has(q, t, m.slot)
      PROVE  Once(a, t)
  <2>1. \A i \in 1 .. Len(q) : ~ (q[i].type = t /\ m.type = t /\ q[i].slot = m.slot)
    BY <1>3 DEF Has
  <2>2. ASSUME NEW i \in 1 .. Len(a), NEW j \in 1 .. Len(a),
               a[i].type = t, a[j].type = t, a[i].slot = a[j].slot
        PROVE  i = j
    <3>1. CASE i \in 1 .. Len(q) /\ j \in 1 .. Len(q)
      BY <1>1, <1>3, <2>2, <3>1 DEF Once
    <3>2. CASE i = Len(q) + 1 /\ j \in 1 .. Len(q)
      BY <1>1, <2>1, <2>2, <3>2
    <3>3. CASE j = Len(q) + 1 /\ i \in 1 .. Len(q)
      BY <1>1, <2>1, <2>2, <3>3
    <3>4. CASE i = Len(q) + 1 /\ j = Len(q) + 1
      BY <3>4
    <3>5. QED
      BY <1>1, <3>1, <3>2, <3>3, <3>4
  <2>3. QED
    BY <2>2 DEF Once
<1>4. ASSUME NEW s, m.type = "release", m.slot = s
      PROVE  ClaimsFirst(a, s)
  <2>1. ASSUME NEW i \in 1 .. Len(a), a[i].type = "claim"
        PROVE  \E j \in i + 1 .. Len(a) : a[j].type = "release" /\ a[j].slot = s
    <3>1. i # Len(q) + 1
      BY <1>1, <1>4, <2>1
    <3>2. Len(q) + 1 \in i + 1 .. Len(a)
      BY <1>1, <3>1
    <3>3. QED
      BY <1>1, <1>4, <3>2
  <2>2. QED
    BY <2>1 DEF ClaimsFirst
<1>5. QED
  BY <1>2, <1>3, <1>4 DEF a

\* What is left of it once the first is taken off.
LEMMA MessagesTail ==
  ASSUME NEW S, NEW q \in Seq(S), q # <<>>
  PROVE  /\ \A t, s : Has(Tail(q), t, s) => Has(q, t, s)
         /\ Has(q, Head(q).type, Head(q).slot)
         /\ \A t, s : Has(q, t, s) =>
              Has(Tail(q), t, s) \/ (Head(q).type = t /\ Head(q).slot = s)
         /\ \A t : Once(q, t) =>
              /\ Once(Tail(q), t)
              /\ Head(q).type = t => ~Has(Tail(q), t, Head(q).slot)
         /\ \A s : ClaimsFirst(q, s) =>
              /\ ClaimsFirst(Tail(q), s)
              /\ Head(q).type = "claim" => Has(q, "release", s)
<1> DEFINE r == Tail(q)
           h == Head(q)
<1>1. /\ Len(q) \in Nat \ {0} /\ Len(r) = Len(q) - 1
      /\ \A i \in 1 .. Len(q) - 1 : r[i] = q[i + 1]
      /\ h = q[1]
  BY HeadTailProperties, LenProperties, EmptySeq
<1> HIDE DEF r, h
<1>2. ASSUME NEW t, NEW s, Has(r, t, s)
      PROVE  \E i \in 2 .. Len(q) : q[i].type = t /\ q[i].slot = s
  <2>1. PICK i \in 1 .. Len(r) : r[i].type = t /\ r[i].slot = s
    BY <1>2 DEF Has
  <2>2. i + 1 \in 2 .. Len(q) /\ q[i + 1] = r[i]
    BY <1>1
  <2>3. QED
    BY <2>1, <2>2
<1>3. \A t, s : Has(r, t, s) => Has(q, t, s)
  BY <1>1, <1>2 DEF Has
<1>4. Has(q, h.type, h.slot)
  BY <1>1 DEF Has
<1>5. ASSUME NEW t, NEW s, Has(q, t, s), ~ (h.type = t /\ h.slot = s)
      PROVE  Has(r, t, s)
  <2>1. PICK i \in 1 .. Len(q) : q[i].type = t /\ q[i].slot = s
    BY <1>5 DEF Has
  <2>2. i # 1
    BY <1>1, <1>5, <2>1
  <2>3. i - 1 \in 1 .. Len(r) /\ r[i - 1] = q[i]
    BY <1>1, <2>2
  <2>4. QED
    BY <2>1, <2>3 DEF Has
<1>6. ASSUME NEW t, Once(q, t)
      PROVE  Once(r, t) /\ (h.type = t => ~Has(r, t, h.slot))
  <2>1. h.type = t => ~Has(r, t, h.slot)
    BY <1>1, <1>2, <1>6 DEF Once
  <2>2. ASSUME NEW i \in 1 .. Len(r), NEW j \in 1 .. Len(r),
               r[i].type = t, r[j].type = t, r[i].slot = r[j].slot
        PROVE  i = j
    <3>1. /\ i + 1 \in 1 .. Len(q) /\ r[i] = q[i + 1]
          /\ j + 1 \in 1 .. Len(q) /\ r[j] = q[j + 1]
      BY <1>1
    <3>2. i + 1 = j + 1
      BY <1>6, <2>2, <3>1 DEF Once
    <3>3. QED
      BY <1>1, <3>2
  <2>3. QED
    BY <2>1, <2>2 DEF Once
<1>7. ASSUME NEW s, ClaimsFirst(q, s)
      PROVE  /\ ClaimsFirst(r, s)
             /\ h.type = "claim" => Has(q, "release", s)
  <2>1. ASSUME NEW i \in 1 .. Len(r), r[i].type = "claim"
        PROVE  \E j \in i + 1 .. Len(r) : r[j].type = "release" /\ r[j].slot = s
    <3>1. i + 1 \in 1 .. Len(q) /\ q[i + 1].type = "claim"
      BY <1>1, <2>1
    <3>2. PICK j \in i + 1 + 1 .. Len(q) : q[j].type = "release" /\ q[j].slot = s
      BY <1>7, <3>1 DEF ClaimsFirst
    <3>3. j - 1 \in i + 1 .. Len(r) /\ r[j - 1] = q[j]
      BY <1>1
    <3>4. QED
      BY <3>2, <3>3
  <2>2. ASSUME h.type = "claim"
        PROVE  Has(q, "release", s)
    <3>1. 1 \in 1 .. Len(q) /\ q[1].type = "claim"
      BY <1>1, <2>2
    <3>2. PICK j \in 1 + 1 .. Len(q) : q[j].type = "release" /\ q[j].slot = s
      BY <1>7, <3>1 DEF ClaimsFirst
    <3>3. j \in 1 .. Len(q)
      BY <1>1
    <3>4. QED
      BY <3>2, <3>3 DEF Has
  <2>3. QED
    BY <2>1, <2>2 DEF ClaimsFirst
<1>8. QED
  BY <1>3, <1>4, <1>5, <1>6, <1>7 DEF r, h
----------------------------------------------------------------------------
(* Whose a slot is. *)

\* Nothing is sent, no slot changes hands and none comes to the engine; a reply
\* may be read, whatever it was the reply to.
LEMMA ApartKept ==
  ASSUME TypeOK, SlotsApart, UNCHANGED <<owner, sent>>,
         InEngine' \subseteq InEngine, InEngine \intersect opened' \subseteq opened,
         replies' = replies \/ (replies # <<>> /\ replies' = Tail(replies))
  PROVE  SlotsApart'
<1>1. \A s : Coming(s)' => Coming(s)
  BY MessagesTail DEF Coming, TypeOK
<1>2. \A s : Going(s)' <=> Going(s)
  BY DEF Going
<1>3. Once(replies', "claimed")
  <2>1. Once(replies, "claimed") /\ replies \in Seq(Reply)
    BY DEF TypeOK, SlotsApart, ComingSlots
  <2>2. replies # <<>> => Once(Tail(replies), "claimed")
    BY <2>1, MessagesTail
  <2>3. QED
    BY <2>1, <2>2
<1>4. HeldSlots'
  BY <1>1, <1>2 DEF SlotsApart, HeldSlots
<1>5. ComingSlots'
  BY <1>1, <1>2, <1>3 DEF SlotsApart, ComingSlots
<1>6. GoingSlots'
  BY <1>2 DEF SlotsApart, GoingSlots
<1>7. QED
  BY <1>4, <1>5, <1>6 DEF SlotsApart

\* A slot the engine can use is released.
LEMMA ApartReleased ==
  ASSUME TypeOK, SlotsApart, NEW s \in Slots, s \in InEngine, s \in opened,
         NEW kind, SendRelease(s, kind), UNCHANGED <<owner, replies>>,
         InEngine' \subseteq InEngine
  PROVE  SlotsApart'
<1> DEFINE m == [type |-> "release", slot |-> s]
<1>1. m \in Message /\ sent' = Append(sent, m) /\ opened' = opened \ {s}
  BY MessageTypes DEF SendRelease
<1>2. m.type = "release" /\ m.slot = s
  OBVIOUS
<1> HIDE DEF m
<1>3. \A e : Going(e)' <=> Going(e) \/ e = s
  BY <1>1, <1>2, MessagesAppend DEF Going, TypeOK
<1>4. \A e : Coming(e)' <=> Coming(e)
  BY DEF Coming
<1>5. owner[s] = "me" /\ ~Going(s) /\ ~Coming(s)
  BY DEF SlotsApart, HeldSlots
<1>6. Once(sent', "release")
  BY <1>1, <1>2, <1>5, MessagesAppend DEF SlotsApart, GoingSlots, Going, TypeOK
<1>7. HeldSlots'
  BY <1>1, <1>3, <1>4 DEF SlotsApart, HeldSlots
<1>8. ComingSlots'
  BY <1>3, <1>4, <1>5 DEF SlotsApart, ComingSlots
<1>9. GoingSlots'
  BY <1>3, <1>5, <1>6 DEF SlotsApart, GoingSlots
<1>10. QED
  BY <1>7, <1>8, <1>9 DEF SlotsApart

\* A claim that is sent says nothing of any slot.
LEMMA ApartAsked ==
  ASSUME TypeOK, SlotsApart, AskSlot
  PROVE  SlotsApart'
<1> DEFINE m == [type |-> "claim", slot |-> -1]
<1>1. m \in Message /\ sent' = Append(sent, m) /\ m.type = "claim"
  BY MessageTypes DEF AskSlot
<1> HIDE DEF m
<1>2. UNCHANGED <<owner, replies, opened, active, pending>>
  BY DEF AskSlot, slots
<1>3. \A e : Going(e)' <=> Going(e)
  BY <1>1, MessagesAppend DEF Going, TypeOK
<1>4. Once(sent', "release")
  BY <1>1, MessagesAppend DEF SlotsApart, GoingSlots, TypeOK
<1>5. QED
  BY <1>2, <1>3, <1>4
     DEF SlotsApart, HeldSlots, ComingSlots, GoingSlots, InEngine, Coming

\* A granted slot was coming, so it is the worker's, and becomes a held one.
LEMMA ApartClaimed ==
  ASSUME TypeOK, SlotsApart, Claimed
  PROVE  SlotsApart'
<1>1. PICK s \in Slots : s = Head(replies).slot /\ s \notin InEngine
  BY ClaimedFresh DEF Claimed, SlotsApart
<1>2. /\ replies # <<>> /\ replies' = Tail(replies) /\ Head(replies).type = "claimed"
      /\ pending' = Append(pending, s) /\ opened' = opened \union {s}
      /\ UNCHANGED <<owner, sent, active>>
  BY <1>1 DEF Claimed
<1>3. InEngine' = InEngine \union {s}
  BY <1>2, AppendElements DEF InEngine, TypeOK
<1>4. Coming(s) /\ ~Coming(s)'
  BY <1>1, <1>2, MessagesTail DEF Coming, TypeOK, SlotsApart, ComingSlots
<1>5. \A e : Coming(e)' => Coming(e)
  BY <1>2, MessagesTail DEF Coming, TypeOK
<1>6. \A e : Going(e)' <=> Going(e)
  BY <1>2 DEF Going
<1>7. Once(replies', "claimed")
  BY <1>2, MessagesTail DEF TypeOK, SlotsApart, ComingSlots
<1>8. owner[s] = "me" /\ ~Going(s)
  BY <1>4 DEF SlotsApart, ComingSlots
<1>9. HeldSlots'
  BY <1>2, <1>3, <1>4, <1>5, <1>6, <1>8 DEF SlotsApart, HeldSlots
<1>10. ComingSlots'
  BY <1>2, <1>3, <1>4, <1>5, <1>6, <1>7 DEF SlotsApart, ComingSlots
<1>11. GoingSlots'
  BY <1>2, <1>6 DEF SlotsApart, GoingSlots
<1>12. QED
  BY <1>9, <1>10, <1>11 DEF SlotsApart

\* A free slot is in nobody's hands: not even in those of an engine whose release
\* of it is still to be read.
LEMMA ApartGiven ==
  ASSUME TypeOK, SlotsApart, ClosedSlots, HandleClaim
  PROVE  SlotsApart'
<1>1. /\ sent # <<>> /\ sent' = Tail(sent) /\ Head(sent).type = "claim"
      /\ UNCHANGED <<active, pending, opened>>
  BY DEF HandleClaim, slots
<1>2. \A e : Going(e)' <=> Going(e)
  BY <1>1, MessagesTail DEF Going, TypeOK
<1>3. Once(sent', "release")
  BY <1>1, MessagesTail DEF TypeOK, SlotsApart, GoingSlots
<1>4. UNCHANGED InEngine
  BY <1>1 DEF InEngine
<1>5. CASE FreeSlots = {}
  <2> DEFINE m == [type |-> "error", slot |-> -1]
  <2>1. m \in Reply /\ replies' = Append(replies, m) /\ m.type = "error"
        /\ UNCHANGED owner
    BY <1>5, MessageTypes DEF HandleClaim
  <2> HIDE DEF m
  <2>2. \A e : Coming(e)' <=> Coming(e)
    BY <2>1, MessagesAppend DEF Coming, TypeOK
  <2>3. Once(replies', "claimed")
    BY <2>1, MessagesAppend DEF TypeOK, SlotsApart, ComingSlots
  <2>4. QED
    BY <1>1, <1>2, <1>3, <1>4, <2>1, <2>2, <2>3
       DEF SlotsApart, HeldSlots, ComingSlots, GoingSlots
<1>6. CASE FreeSlots # {}
  <2>1. PICK s \in FreeSlots : s = Lowest(FreeSlots)
    BY <1>6, LowestSlot DEF FreeSlots
  <2> DEFINE m == [type |-> "claimed", slot |-> s]
  <2>2. /\ m \in Reply /\ replies' = Append(replies, m)
        /\ m.type = "claimed" /\ m.slot = s
        /\ owner' = [owner EXCEPT ![s] = "me"]
    BY <1>6, <2>1, MessageTypes DEF HandleClaim, FreeSlots
  <2> HIDE DEF m
  <2>3. s \in Slots /\ owner[s] = "free"
    BY DEF FreeSlots
  <2>4. ~Going(s) /\ ~Coming(s)
    BY <2>3 DEF SlotsApart, ComingSlots, GoingSlots
  <2>5. s \notin InEngine
    <3>1. s \notin InEngine \intersect opened
      BY <2>3 DEF SlotsApart, HeldSlots
    <3>2. s \notin Elements(active) \ opened
      <4>1. SUFFICES ASSUME s \in Elements(active) \ opened
                     PROVE  FALSE
        OBVIOUS
      <4>2. ClaimsFirst(sent, s)
        BY <4>1 DEF ClosedSlots
      <4>3. Going(s)
        BY <1>1, <4>2, MessagesTail DEF Going, TypeOK
      <4>4. QED
        BY <2>4, <4>3
    <3>3. QED
      BY <3>1, <3>2 DEF InEngine, ClosedSlots
  <2>6. \A e : Coming(e)' <=> Coming(e) \/ e = s
    BY <2>2, MessagesAppend DEF Coming, TypeOK
  <2>7. Once(replies', "claimed")
    BY <2>2, <2>4, MessagesAppend DEF TypeOK, SlotsApart, ComingSlots, Coming
  <2>8. owner'[s] = "me" /\ \A e \in Slots \ {s} : owner'[e] = owner[e]
    BY <2>2, <2>3 DEF TypeOK
  <2>9. HeldSlots'
    BY <1>1, <1>2, <1>4, <2>5, <2>6, <2>8, RunningSlots
       DEF SlotsApart, HeldSlots, InEngine
  <2>10. ComingSlots'
    BY <1>2, <1>4, <2>4, <2>5, <2>6, <2>7, <2>8 DEF SlotsApart, ComingSlots
  <2>11. GoingSlots'
    BY <1>2, <1>3, <2>8 DEF SlotsApart, GoingSlots
  <2>12. QED
    BY <2>9, <2>10, <2>11 DEF SlotsApart
<1>7. QED
  BY <1>5, <1>6

\* A release that is read frees a slot nobody can use any more.
LEMMA ApartTaken ==
  ASSUME TypeOK, SlotsApart, HandleRelease
  PROVE  SlotsApart'
<1>1. /\ sent # <<>> /\ sent' = Tail(sent) /\ Head(sent).type = "release"
      /\ UNCHANGED <<active, pending, opened>>
  BY DEF HandleRelease, slots
<1>2. PICK s \in Slots : s = Head(sent).slot
  BY <1>1, HeadTailProperties, MessageSlots DEF TypeOK
<1>3. Going(s) /\ ~Going(s)' /\ \A e : Going(e)' => Going(e)
  BY <1>1, <1>2, MessagesTail DEF Going, TypeOK, SlotsApart, GoingSlots
<1>4. Once(sent', "release")
  BY <1>1, MessagesTail DEF TypeOK, SlotsApart, GoingSlots
<1>5. UNCHANGED InEngine
  BY <1>1 DEF InEngine
<1>6. owner[s] = "me"
  BY <1>3 DEF SlotsApart, GoingSlots
<1>7. owner' = [owner EXCEPT ![s] = "free"]
      /\ replies' = Append(replies, [type |-> "released", slot |-> s])
  BY <1>2, <1>6 DEF HandleRelease
<1> DEFINE m == [type |-> "released", slot |-> s]
<1>8. m \in Reply /\ m.type = "released" /\ replies' = Append(replies, m)
  BY <1>7, MessageTypes
<1> HIDE DEF m
<1>9. \A e : Coming(e)' <=> Coming(e)
  BY <1>8, MessagesAppend DEF Coming, TypeOK
<1>10. Once(replies', "claimed")
  BY <1>8, MessagesAppend DEF TypeOK, SlotsApart, ComingSlots
<1>11. \A e \in Slots \ {s} : owner'[e] = owner[e]
  BY <1>7 DEF TypeOK
<1>12. ~Coming(s) /\ s \notin InEngine \intersect opened
  BY <1>3 DEF SlotsApart, ComingSlots, HeldSlots
<1>13. HeldSlots'
  BY <1>1, <1>3, <1>5, <1>9, <1>11, <1>12, RunningSlots
     DEF SlotsApart, HeldSlots, InEngine
<1>14. ComingSlots'
  BY <1>3, <1>5, <1>9, <1>10, <1>11, <1>12 DEF SlotsApart, ComingSlots
<1>15. GoingSlots'
  BY <1>3, <1>4, <1>11 DEF SlotsApart, GoingSlots
<1>16. QED
  BY <1>13, <1>14, <1>15 DEF SlotsApart

\* Other workers only get slots that are free.
LEMMA ApartOthers ==
  ASSUME TypeOK, SlotsApart, UNCHANGED <<active, pending, opened, sent, replies>>,
         \A e \in Slots : owner[e] = "me" => owner'[e] = "me"
  PROVE  SlotsApart'
BY RunningSlots
   DEF SlotsApart, HeldSlots, ComingSlots, GoingSlots, InEngine, Going, Coming
----------------------------------------------------------------------------
(* Every step keeps the slots apart, and its closed slot alone. *)

\* Nothing is closed.
LEMMA ClosedOpen ==
  ASSUME Elements(active') \subseteq opened', Elements(pending') \subseteq opened'
  PROVE  ClosedSlots'
BY DEF ClosedSlots

\* Accepting keeps every slot of the worker in one place.
LEMMA AcceptWire ==
  ASSUME TypeOK, SlotsApart, ClosedSlots, Accepting
  PROVE  SlotsApart' /\ ClosedSlots'
<1> USE DEF handlers, thread, slots, kv, wire
<1>1. pc # "fail" /\ pc # "release"
  BY DEF Accepting, Prune, AskSlot, Claimed, ClaimFails, Accepted
<1>2. Elements(active) \subseteq opened /\ Elements(pending) \subseteq opened
  BY <1>1 DEF ClosedSlots
<1>3. CASE Prune \/ ClaimFails \/ Accepted
  <2>1. UNCHANGED <<active, pending, owner, sent>>
    BY <1>3 DEF Prune, ClaimFails, Accepted
  <2>2. replies' = replies \/ (replies # <<>> /\ replies' = Tail(replies))
    BY <1>3 DEF Prune, ClaimFails, Accepted
  <2>3. opened \subseteq opened' /\ InEngine \intersect opened' \subseteq opened
    <3>1. CASE UNCHANGED opened
      BY <3>1
    <3>2. CASE /\ replies # <<>> /\ Head(replies).type = "claimed"
               /\ opened' = opened \union {Head(replies).slot}
      BY <3>2, ClaimedFresh DEF SlotsApart
    <3>3. QED
      BY <1>3, <3>1, <3>2 DEF Prune, ClaimFails, Accepted
  <2>4. QED
    BY <1>2, <2>1, <2>2, <2>3, ApartKept, ClosedOpen DEF InEngine
<1>4. CASE AskSlot
  <2>1. UNCHANGED <<active, pending, opened>>
    BY <1>4 DEF AskSlot
  <2>2. QED
    BY <1>2, <1>4, <2>1, ApartAsked, ClosedOpen
<1>5. CASE Claimed
  <2>1. PICK s \in Slots : s = Head(replies).slot
    BY <1>5, ClaimedFresh DEF Claimed, SlotsApart
  <2>2. /\ pending' = Append(pending, s) /\ opened' = opened \union {s}
        /\ UNCHANGED active
    BY <1>5, <2>1 DEF Claimed
  <2>3. Elements(pending') = Elements(pending) \union {s}
    BY <2>2, AppendElements DEF TypeOK
  <2>4. QED
    BY <1>2, <1>5, <2>2, <2>3, ApartClaimed, ClosedOpen
<1>6. QED
  BY <1>3, <1>4, <1>5 DEF Accepting

\* So does activating; a slot that is dropped is released.
LEMMA ActivateWire ==
  ASSUME TypeOK, Lists, SlotsApart, ClosedSlots, Activating
  PROVE  SlotsApart' /\ ClosedSlots'
<1> USE DEF handlers, thread, slots, kv, wire
<1>1. pc # "fail" /\ pc # "release"
  BY DEF Activating, SignalJoins, ActivationTimeout, Moved, Move
<1>2. Elements(active) \subseteq opened /\ Elements(pending) \subseteq opened
  BY <1>1 DEF ClosedSlots
<1>3. CASE SignalJoins \/ Moved
  <2>1. UNCHANGED <<active, pending, owner, sent, replies, opened>>
    BY <1>3 DEF SignalJoins, Moved
  <2>2. QED
    BY <1>2, <2>1, ApartKept, ClosedOpen DEF InEngine
<1>4. CASE ActivationTimeout
  <2>1. PICK s \in Elements(pending) :
          pending' = Without(pending, s) /\ SendRelease(s, "unjoined")
    BY <1>4 DEF ActivationTimeout
  <2>2. /\ s \in Slots /\ s \in opened /\ s \notin Elements(active)
        /\ Elements(pending') = Elements(pending) \ {s}
    BY <1>2, <2>1, RunningSlots, WithoutElements DEF Lists, TypeOK
  <2>3. UNCHANGED <<active, owner, replies>> /\ opened' = opened \ {s}
    BY <1>4, <2>1 DEF ActivationTimeout, SendRelease
  <2>4. SlotsApart'
    BY <2>1, <2>2, <2>3, ApartReleased DEF InEngine
  <2>5. ClosedSlots'
    BY <1>2, <2>2, <2>3, ClosedOpen
  <2>6. QED
    BY <2>4, <2>5
<1>5. ASSUME NEW s \in Slots, Move(s)
      PROVE  SlotsApart' /\ ClosedSlots'
  <2>1. /\ Elements(pending') = Elements(pending) \ {s}
        /\ Elements(active') = Elements(active) \union {s}
        /\ s \in Elements(pending)
    BY <1>5, WithoutElements, AppendElements DEF Move, TypeOK, Lists
  <2>2. UNCHANGED <<owner, sent, replies, opened>>
    BY <1>5 DEF Move
  <2>3. QED
    BY <1>2, <2>1, <2>2, ApartKept, ClosedOpen DEF InEngine
<1>6. QED
  BY <1>3, <1>4, <1>5 DEF Activating

\* A running slot is torn down.
LEMMA TeardownWire ==
  ASSUME TypeOK, Lists, SlotsApart, ClosedSlots, Elements(active) \subseteq opened,
         NEW s \in Elements(active), NEW kind, Teardown(s, kind),
         UNCHANGED <<pending, owner, replies>>
  PROVE  SlotsApart' /\ ClosedSlots'
<1>1. s \in Slots /\ s \in opened /\ s \notin Elements(pending)
  BY RunningSlots DEF Lists
<1>2. Elements(active') = Elements(active) \ {s} /\ opened' = opened \ {s}
  BY WithoutElements DEF Teardown, SendRelease, TypeOK, Lists
<1>3. SlotsApart'
  BY <1>1, <1>2, ApartReleased DEF Teardown, InEngine
<1>4. ClosedSlots'
  BY <1>1, <1>2, ClosedOpen DEF ClosedSlots
<1>5. QED
  BY <1>3, <1>4

\* So does a token; its teardowns release what they take out.
LEMMA GenerateWire ==
  ASSUME TypeOK, Lists, SlotsApart, ClosedSlots, Generating
  PROVE  SlotsApart' /\ ClosedSlots'
<1> USE DEF handlers, thread, slots, kv, wire
<1>1. pc # "fail" /\ pc # "release"
  BY DEF Generating, Preparing, AbortEvicted, NothingActive, BeginToken, Ensure, Exhausted,
         RunOps, EndToken, SecondSlotRaises, TokenRaises
<1>2. Elements(active) \subseteq opened /\ Elements(pending) \subseteq opened
  BY <1>1 DEF ClosedSlots
<1>3. CASE AbortEvicted
  BY <1>2, <1>3, TeardownWire DEF AbortEvicted
<1>4. CASE Exhausted
  <2>1. Head(todo) \in Elements(active)
    BY <1>4, RunningSlots DEF Exhausted, Lists
  <2>2. QED
    BY <1>2, <1>4, <2>1, TeardownWire DEF Exhausted
<1>5. CASE NothingActive \/ BeginToken \/ Ensure \/ RunOps \/ EndToken
             \/ SecondSlotRaises \/ TokenRaises
  <2>1. UNCHANGED <<active, pending, owner, sent, replies, opened>>
    BY <1>5 DEF NothingActive, BeginToken, Ensure, RunOps, EndToken,
                SecondSlotRaises, TokenRaises
  <2>2. QED
    BY <1>2, <2>1, ApartKept, ClosedOpen DEF InEngine
<1>6. QED
  BY <1>3, <1>4, <1>5 DEF Generating, Preparing

\* So does completing; the slot stays active until its release is answered.
LEMMA CompleteWire ==
  ASSUME TypeOK, Lists, CompletionOK, SlotsApart, ClosedSlots, Completing
  PROVE  SlotsApart' /\ ClosedSlots'
<1> USE DEF handlers, thread, slots, kv, wire
<1>1. pc # "fail" /\ pc # "release"
  BY DEF Completing, Complete, Completed, LeaveAcked
<1>2. Elements(active) \subseteq opened /\ Elements(pending) \subseteq opened
  BY <1>1 DEF ClosedSlots
<1>3. CASE Complete \/ Completed
  <2>1. UNCHANGED <<active, pending, owner, sent, replies, opened>>
    BY <1>3 DEF Complete, Completed
  <2>2. QED
    BY <1>2, <2>1, ApartKept, ClosedOpen DEF InEngine
<1>4. CASE LeaveAcked
  <2>1. PICK s \in Elements(active) : s = job.slot /\ Elements(active) = {s}
    BY <1>4 DEF LeaveAcked, CompletionOK
  <2>2. /\ SendRelease(s, "complete")
        /\ UNCHANGED <<active, pending, owner, replies>>
    BY <1>4, <2>1 DEF LeaveAcked
  <2>3. s \in Slots /\ s \in opened /\ s \notin Elements(pending)
    BY <1>2, RunningSlots DEF Lists
  <2>4. SlotsApart'
    BY <2>2, <2>3, ApartReleased DEF InEngine
  <2> DEFINE m == [type |-> "release", slot |-> s]
  <2>5. m \in Message /\ m.type = "release" /\ m.slot = s
        /\ sent' = Append(sent, m) /\ opened' = opened \ {s}
        /\ pc' = "release" /\ job'.kind = "complete"
    BY <2>2, <2>3, MessageTypes DEF SendRelease
  <2> HIDE DEF m
  <2>6. ClaimsFirst(sent', s)
    BY <2>5, MessagesAppend DEF TypeOK
  <2>7. ClosedSlots'
    BY <1>2, <2>1, <2>2, <2>3, <2>5, <2>6 DEF ClosedSlots
  <2>8. QED
    BY <2>4, <2>7
<1>5. QED
  BY <1>3, <1>4 DEF Completing

\* So does a failure, where a slot whose release failed may be closed already.
LEMMA FailWire ==
  ASSUME TypeOK, Lists, SlotsApart, ClosedSlots, Failing
  PROVE  SlotsApart' /\ ClosedSlots'
<1> USE DEF handlers, thread, slots, kv, wire
<1>1. CASE FailActive
  <2>1. PICK s \in Elements(active) : s = Head(active)
    BY <1>1, RunningSlots DEF FailActive
  <2>2. CASE s \in opened
    <3>1. Elements(active) \subseteq opened
      BY <2>2 DEF ClosedSlots
    <3>2. Teardown(s, "fail") /\ UNCHANGED <<pending, owner, replies>>
      BY <1>1, <2>1, <2>2 DEF FailActive
    <3>3. QED
      BY <3>1, <3>2, TeardownWire
  <2>3. CASE s \notin opened
    <3>1. Elements(active) = {s} /\ active' = Without(active, s)
      BY <1>1, <2>1, <2>3 DEF FailActive, ClosedSlots
    <3>2. Elements(active') = {}
      BY <3>1, WithoutElements DEF TypeOK, Lists
    <3>3. UNCHANGED <<pending, owner, replies, opened, sent>>
      BY <1>1, <2>1, <2>3 DEF FailActive
    <3>4. SlotsApart'
      BY <3>2, <3>3, ApartKept DEF InEngine
    <3>5. ClosedSlots'
      BY <3>2, <3>3, ClosedOpen DEF ClosedSlots
    <3>6. QED
      BY <3>4, <3>5
  <2>4. QED
    BY <2>2, <2>3
<1>2. CASE FailPending
  <2>1. PICK s \in Elements(pending) : s = Head(pending)
    BY <1>2, RunningSlots DEF FailPending
  <2>2. s \in Slots /\ s \in opened
    BY RunningSlots DEF ClosedSlots
  <2>3. SendRelease(s, "fail") /\ UNCHANGED <<active, owner, replies>>
    BY <1>2, <2>1 DEF FailPending
  <2>4. Elements(pending') = Elements(pending) \ {s}
    BY <1>2, <2>1, TailElements DEF FailPending, TypeOK, Lists
  <2>5. SlotsApart'
    BY <2>2, <2>3, <2>4, ApartReleased DEF InEngine
  <2>6. Elements(active') = {} /\ opened' = opened \ {s}
    BY <1>2, <2>3 DEF FailPending, SendRelease, Elements
  <2>7. ClosedSlots'
    BY <2>4, <2>6, ClosedOpen DEF ClosedSlots
  <2>8. QED
    BY <2>5, <2>7
<1>3. CASE Failed
  <2>1. Elements(active') = {} /\ Elements(pending') = {}
    BY <1>3 DEF Failed, Elements
  <2>2. UNCHANGED <<active, pending, owner, sent, replies, opened>>
    BY <1>3 DEF Failed
  <2>3. QED
    BY <2>1, <2>2, ApartKept, ClosedOpen DEF InEngine
<1>4. QED
  BY <1>1, <1>2, <1>3 DEF Failing

\* So does the end of a release, failed or not.
LEMMA ReleaseWire ==
  ASSUME TypeOK, Lists, CompletionOK, SlotsApart, ClosedSlots, Releasing
  PROVE  SlotsApart' /\ ClosedSlots'
<1> USE DEF handlers, thread, slots, kv, wire
<1>1. /\ pc = "release" /\ UNCHANGED <<pending, owner, sent, opened>>
      /\ Released \/ (pc' = "fail" /\ UNCHANGED active)
  BY DEF Releasing, ReleaseReply, ReleaseTimeout, Unreleased
<1>2. replies' = replies \/ (replies # <<>> /\ replies' = Tail(replies))
  BY DEF Releasing, ReleaseReply, ReleaseTimeout
<1>3. Elements(active') \subseteq Elements(active)
  BY <1>1, WithoutElements DEF Released, TypeOK, Lists
<1>4. SlotsApart'
  BY <1>1, <1>2, <1>3, ApartKept DEF InEngine
<1>5. ClosedSlots'
  <2>1. CASE Released
    <3>1. job.kind = "complete" => Elements(active') = {}
      BY <1>1, <2>1, WithoutElements DEF Released, TypeOK, Lists, CompletionOK
    <3>2. job.kind # "complete" => Elements(active) \subseteq opened
      BY <1>1 DEF ClosedSlots
    <3>3. QED
      BY <1>1, <1>3, <3>1, <3>2, ClosedOpen DEF ClosedSlots
  <2>2. CASE pc' = "fail" /\ UNCHANGED active
    BY <1>1, <2>2 DEF ClosedSlots
  <2>3. QED
    BY <1>1, <2>1, <2>2
<1>6. QED
  BY <1>4, <1>5

\* So do the handlers and the aggregator, who serve the queues in order.
LEMMA OutsideWire ==
  ASSUME TypeOK, SlotsApart, ClosedSlots, Outside
  PROVE  SlotsApart' /\ ClosedSlots'
<1> USE DEF handlers, thread, slots, kv, wire
<1>1. UNCHANGED <<active, pending, pc, job>>
  BY OutsideQuiet
<1>2. SlotsApart'
  <2>1. CASE HandleClaim
    BY <2>1, ApartGiven
  <2>2. CASE HandleRelease
    BY <2>2, ApartTaken
  <2>3. CASE OtherClaims
    <3>1. PICK s \in FreeSlots : owner' = [owner EXCEPT ![s] = "other"]
      BY <2>3, LowestSlot DEF OtherClaims, FreeSlots
    <3>2. \A e \in Slots : owner[e] = "me" => owner'[e] = "me"
      BY <3>1 DEF FreeSlots, TypeOK
    <3>3. UNCHANGED <<opened, sent, replies>>
      BY <2>3 DEF OtherClaims
    <3>4. QED
      BY <1>1, <3>2, <3>3, ApartOthers
  <2>4. ASSUME NEW s \in Slots, OtherReleases(s)
        PROVE  SlotsApart'
    <3>1. \A e \in Slots : owner[e] = "me" => owner'[e] = "me"
      BY <2>4 DEF OtherReleases, TypeOK
    <3>2. UNCHANGED <<opened, sent, replies>>
      BY <2>4 DEF OtherReleases
    <3>3. QED
      BY <1>1, <3>1, <3>2, ApartOthers
  <2>5. ASSUME UNCHANGED <<owner, sent, replies, opened>>
        PROVE  SlotsApart'
    BY <1>1, <2>5, ApartKept DEF InEngine
  <2>6. CASE Boundary \/ JoinsOnly \/ \E s \in Slots : Evict(s)
    BY <2>5, <2>6 DEF Boundary, JoinsOnly, Evict
  <2>7. CASE \E r \in Requests : Submit(r) \/ Refuse(r) \/ BadBody(r) \/ Respond(r)
    BY <2>5, <2>7 DEF Submit, Refuse, BadBody, Respond
  <2>8. QED
    BY <2>1, <2>2, <2>3, <2>4, <2>6, <2>7 DEF Outside, Connection
<1>3. opened' = opened /\ (sent' = sent \/ (sent # <<>> /\ sent' = Tail(sent)))
  BY DEF Outside, Submit, Refuse, BadBody, Respond, Connection, HandleClaim,
         HandleRelease, OtherClaims, Boundary, JoinsOnly, OtherReleases, Evict
<1>4. ASSUME NEW s, ClaimsFirst(sent, s)
      PROVE  ClaimsFirst(sent', s)
  <2>1. sent \in Seq(Message)
    BY DEF TypeOK
  <2>2. sent # <<>> => ClaimsFirst(Tail(sent), s)
    BY <1>4, <2>1, MessagesTail
  <2>3. QED
    BY <1>3, <1>4, <2>2
<1>5. ClosedSlots'
  BY <1>1, <1>3, <1>4 DEF ClosedSlots
<1>6. QED
  BY <1>2, <1>5

\* Every slot of the worker stays in one place: coming, held or going.
LEMMA WireStep ==
  ASSUME TypeOK, Lists, CompletionOK, SlotsApart, ClosedSlots, [Next]_vars
  PROVE  SlotsApart' /\ ClosedSlots'
<1>1. CASE UNCHANGED vars
  <2>1. UNCHANGED <<active, pending, owner, sent, replies, opened, pc, job>>
    BY <1>1 DEF vars, thread, slots, wire
  <2>2. SlotsApart'
    BY <2>1, ApartKept DEF InEngine
  <2>3. ClosedSlots'
    BY <2>1 DEF ClosedSlots
  <2>4. QED
    BY <2>2, <2>3
<1>2. CASE Next
  BY <1>2, OutsideWire, AcceptWire, ActivateWire, GenerateWire, CompleteWire,
     FailWire, ReleaseWire DEF Next, Outside
<1>3. QED
  BY <1>1, <1>2
----------------------------------------------------------------------------
(* The theorems. *)

\* The engine starts with nothing anywhere.
LEMMA InitIInv ==
  ASSUME Init
  PROVE  IInv
<1>1. /\ <<>> \in Seq(Requests) /\ <<>> \in Seq(Slots)
      /\ <<>> \in Seq(Message) /\ <<>> \in Seq(Reply)
  BY EmptySeq
<1>2. MaxSeq \in Nat \ {0} /\ Permits \in Nat
  BY EngineConstantsOK DEF EngineConstantsOK
<1>3. NoJob \in Job
  BY DEF NoJob, Job, Kinds
<1>4. NoState \in SlotState
  BY <1>2 DEF NoState, SlotState
<1>5. TypeOK
  BY <1>1, <1>2, <1>3, <1>4 DEF Init, TypeOK
<1>6. /\ Elements(active) = {} /\ Elements(pending) = {} /\ Elements(todo) = {}
      /\ Injective(active) /\ Injective(pending) /\ Injective(todo)
  BY DEF Init, Elements, Injective
<1>7. Lists /\ CompletionOK /\ LengthsFit /\ NoBlockLeak
  BY <1>6 DEF Init, Lists, CompletionOK, LengthsFit, NoBlockLeak
<1>8. /\ \A s : ~Going(s) /\ ~Coming(s)
      /\ Once(sent, "release") /\ Once(replies, "claimed")
  BY DEF Init, Going, Coming, Has, Once
<1>9. SlotsApart /\ ClosedSlots
  BY <1>6, <1>8 DEF SlotsApart, HeldSlots, ComingSlots, GoingSlots, ClosedSlots,
     InEngine
<1>10. QED
  BY <1>5, <1>7, <1>9 DEF IInv

\* IInv is inductive: the four groups are kept by TypesStep, ListsStep, LengthsStep
\* and WireStep, and the blocks by CacheStep.
LEMMA StepIInv ==
  ASSUME IInv, [Next]_vars
  PROVE  IInv'
BY TypesStep, ListsStep, CacheStep, NoLeakStep, LengthsStep, WireStep
   DEF IInv, SlotsApart

\* The inductive invariant holds throughout, under every fault of the model.
THEOREM Inductive == Spec => []IInv
BY InitIInv, StepIInv, PTL DEF Spec

\* Every variable keeps its type: in particular no sequence grows beyond MaxSeq, and
\* there is never an index beyond a table of positions (advance_seq_lens_by).
THEOREM TypeCorrect == Spec => []TypeOK
<1>1. IInv => TypeOK
  BY DEF IInv
<1>2. QED
  BY <1>1, Inductive, PTL

\* However requests end, the blocks in use are those of running slots: eviction,
\* exhaustion, exceptions and lost replies included (_teardown_slot, free_slot).
THEOREM BlocksReturned == Spec => []NoBlockLeak
<1>1. IInv => NoBlockLeak
  BY DEF IInv
<1>2. QED
  BY <1>1, Inductive, PTL

\* The engine never runs a token in a slot of another worker, or with its handles
\* closed, although replies may be taken for one another (slot_client.py) and a
\* failed release leaves its slot active.
THEOREM SlotsOwned == Spec => []RunsInOwnSlots
<1>1. ASSUME IInv
      PROVE  RunsInOwnSlots
  <2>1. pc \in {"ensure", "ops"} => Elements(active) \subseteq opened
    BY <1>1 DEF IInv, ClosedSlots
  <2>2. \A s \in Elements(active) \intersect opened : owner[s] = "me"
    BY <1>1 DEF IInv, SlotsApart, HeldSlots, InEngine
  <2>3. QED
    BY <2>1, <2>2 DEF RunsInOwnSlots
<1>2. QED
  BY <1>1, Inductive, PTL

\* Every step of the engine is one of the pool, or leaves the blocks alone.
LEMMA PoolStep ==
  ASSUME IInv, [Next]_vars
  PROVE  [Pool!Next]_Pool!poolVars
<1>1. CacheUse
  BY CacheStep DEF IInv
<1>2. Elements(active) \subseteq Slots
  BY RunningSlots DEF IInv
<1>3. QED
  BY <1>1, <1>2 DEF CacheUse, Pool!Next, Pool!poolVars

\* The engine uses PagedKVCache as BlockPool says: it takes free blocks, writes the
\* blocks it holds and gives them all back, zeroed.
THEOREM Refinement == Spec => UsesPool
<1>1. Init => Pool!Init
  BY DEF Init, Pool!Init
<1>2. IInv /\ [Next]_vars => [Pool!Next]_Pool!poolVars
  BY PoolStep
<1>3. QED
  BY <1>1, <1>2, Inductive, PTL DEF Spec, UsesPool, Pool!Spec

\* Whatever uses the pool so keeps its blocks sound.
LEMMA PoolSound ==
  ASSUME Pool!TypeOK, BlocksSound, [Pool!Next]_Pool!poolVars
  PROVE  BlocksSound'
<1> USE DEF BlocksSound, Pool!Partitioned, Pool!FreeClean, Pool!TypeOK
<1>1. CASE UNCHANGED Pool!poolVars
  BY <1>1 DEF Pool!poolVars
<1>2. ASSUME NEW u \in Slots, Pool!Write(u)
      PROVE  BlocksSound'
  BY <1>2 DEF Pool!Write
<1>3. ASSUME NEW u \in Slots, Pool!GiveBack(u)
      PROVE  BlocksSound'
  BY <1>3 DEF Pool!GiveBack
<1>4. ASSUME NEW u \in Slots, NEW B \in SUBSET Blocks, Pool!Take(u, B)
      PROVE  BlocksSound'
  BY <1>4 DEF Pool!Take
<1>5. QED
  BY <1>1, <1>2, <1>3, <1>4 DEF Pool!Next

\* Every block is free or in one table, and a free block was zeroed ("Zero freed
\* blocks to prevent cross-request KV leakage", paged_attention.py:82).
THEOREM BlocksAlwaysSound == Spec => []BlocksSound
<1>1. Init => BlocksSound
  BY DEF Init, BlocksSound, Pool!Partitioned, Pool!FreeClean
<1>2. ASSUME IInv, BlocksSound, [Next]_vars
      PROVE  BlocksSound'
  <2>1. [Pool!Next]_Pool!poolVars
    BY <1>2, PoolStep
  <2>2. Pool!TypeOK
    BY <1>2 DEF IInv, TypeOK, Pool!TypeOK
  <2>3. QED
    BY <1>2, <2>1, <2>2, PoolSound
<1>3. QED
  BY <1>1, <1>2, Inductive, PTL DEF Spec
----------------------------------------------------------------------------
(* Without late replies: whom a leave is for. *)

\* Then no release fails, and the engine's handler finds every handle open.
FailsOpen == pc = "fail" => Elements(active) \subseteq opened

\* Only a release that fails leads to the handler with its handles closed.
LEMMA FailsOpenStep ==
  ASSUME "late" \notin Faults, IInv, FailsOpen, [Next]_vars
  PROVE  FailsOpen'
<1> USE DEF thread, slots, wire
<1>1. SUFFICES ASSUME pc' = "fail"
               PROVE  Elements(active') \subseteq opened'
  BY DEF FailsOpen
<1>2. CASE UNCHANGED <<pc, active, opened>>
  BY <1>1, <1>2 DEF FailsOpen
<1>3. CASE TokenRaises \/ SecondSlotRaises
  <2>1. pc = "ops" /\ UNCHANGED <<active, opened>>
    BY <1>3 DEF TokenRaises, SecondSlotRaises
  <2>2. QED
    BY <2>1 DEF IInv, ClosedSlots
<1>4. CASE Releasing
  <2>1. ReleaseReply
    BY <1>4 DEF Releasing, ReleaseTimeout
  <2>2. /\ pc = "release" /\ pc' = After(job.kind) /\ opened' = opened
        /\ active' = IF job.kind = "complete" THEN Without(active, job.slot) ELSE active
    BY <2>1 DEF ReleaseReply, Released
  <2>3. job.kind # "complete"
    BY <1>1, <2>2 DEF After
  <2>4. QED
    BY <2>2, <2>3 DEF IInv, ClosedSlots
<1>5. CASE Outside
  <2>1. opened' = opened
    BY <1>5 DEF Outside, Submit, Refuse, BadBody, Respond, Connection, HandleClaim,
       HandleRelease, OtherClaims, Boundary, JoinsOnly, OtherReleases, Evict
  <2>2. QED
    BY <1>2, <1>5, <2>1, OutsideQuiet
<1>6. CASE Failing
  <2>1. pc = "fail" /\ active # <<>> /\ Head(active) \notin opened
    BY <1>1, <1>6 DEF Failing, FailActive, FailPending, Failed, Teardown, SendRelease
  <2>2. QED
    BY <2>1, RunningSlots DEF FailsOpen, IInv
<1>7. ~Accepting /\ ~Activating /\ ~Completing
  BY <1>1 DEF Accepting, Prune, AskSlot, Claimed, ClaimFails, Accepted, Activating,
     SignalJoins, ActivationTimeout, Move, Moved, Completing, Complete, Completed,
     LeaveAcked, SendRelease
<1>8. CASE Generating
  BY <1>1, <1>3, <1>8 DEF Generating, Preparing, AbortEvicted, NothingActive, BeginToken, Ensure,
     Exhausted, RunOps, EndToken, Teardown, SendRelease
<1>9. CASE UNCHANGED vars
  BY <1>2, <1>9 DEF vars
<1>10. QED
  BY <1>4, <1>5, <1>6, <1>7, <1>8, <1>9 DEF Next, Outside

\* A leave is signalled for a slot the engine holds.
LEMMA LeavesStep ==
  ASSUME IInv, FailsOpen, [Next]_vars, NEW s \in leaves' \ leaves
  PROVE  owner[s] = "me"
<1>1. \A e \in InEngine \intersect opened : owner[e] = "me"
  BY DEF IInv, SlotsApart, HeldSlots
<1>2. s \in InEngine \intersect opened
  <2>1. /\ Elements(pending) \subseteq opened
        /\ pc \in {"token", "ensure", "complete", "fail"} => Elements(active) \subseteq opened
    BY DEF IInv, ClosedSlots, FailsOpen
  <2>2. CASE ActivationTimeout
    BY <2>1, <2>2 DEF ActivationTimeout, SignalLeave, InEngine
  <2>3. CASE AbortEvicted
    BY <2>1, <2>3 DEF AbortEvicted, Teardown, SignalLeave, InEngine
  <2>4. CASE Exhausted
    <3>1. Head(todo) \in Elements(active) /\ pc = "ensure"
      BY <2>4, RunningSlots DEF Exhausted, IInv, Lists
    <3>2. QED
      BY <2>1, <2>4, <3>1 DEF Exhausted, Teardown, SignalLeave, InEngine
  <2>5. CASE Complete
    BY <2>1, <2>5 DEF Complete, SignalLeave, InEngine
  <2>6. CASE FailActive
    <3>1. Head(active) \in Elements(active) /\ pc = "fail" /\ s = Head(active)
      BY <2>6, RunningSlots DEF FailActive, Teardown, SignalLeave, IInv
    <3>2. QED
      BY <2>1, <3>1 DEF InEngine
  <2>7. CASE UNCHANGED leaves
    BY <2>7
  <2>8. CASE Boundary
    BY <2>8 DEF Boundary
  <2>9. CASE Outside
    BY <2>7, <2>8, <2>9 DEF Outside, JoinsOnly, Submit, Refuse, BadBody, Respond, Connection,
       HandleClaim, HandleRelease, OtherClaims, OtherReleases, Evict, barrier
  <2>10. CASE Accepting \/ Activating
    BY <2>2, <2>7, <2>10 DEF Accepting, Prune, AskSlot, Claimed, ClaimFails, Accepted,
       Activating, SignalJoins, Move, Moved, barrier
  <2>11. CASE Generating
    BY <2>3, <2>4, <2>7, <2>11 DEF Generating, Preparing, NothingActive, BeginToken, Ensure, RunOps,
       EndToken, SecondSlotRaises, TokenRaises, barrier
  <2>12. CASE Completing \/ Failing \/ Releasing
    BY <2>5, <2>6, <2>7, <2>12 DEF Completing, Completed, LeaveAcked, Failing,
       FailPending, Failed, Releasing, ReleaseReply, ReleaseTimeout, barrier
  <2>13. CASE UNCHANGED vars
    BY <2>7, <2>13 DEF vars, barrier
  <2>14. QED
    BY <2>9, <2>10, <2>11, <2>12, <2>13 DEF Next, Outside
<1>3. QED
  BY <1>1, <1>2

\* It holds throughout.
LEMMA NoneFailsClosed == "late" \notin Faults => (Spec => [](IInv /\ FailsOpen))
<1> SUFFICES ASSUME "late" \notin Faults PROVE Spec => [](IInv /\ FailsOpen)
  OBVIOUS
<1>1. Init => IInv /\ FailsOpen
  BY InitIInv DEF Init, FailsOpen
<1>2. IInv /\ FailsOpen /\ [Next]_vars => (IInv /\ FailsOpen)'
  BY StepIInv, FailsOpenStep
<1>3. QED
  BY <1>1, <1>2, PTL DEF Spec

\* Whatever else fails, the engine tells the main loop to drop a slot only while
\* the pool has it recorded for this worker (_teardown_slot, _handle_completions,
\* _fail_all_active_slots, _try_activate_pending_slots).
THEOREM OwnLeaves == "late" \notin Faults => (Spec => LeavesOwnSlots)
<1>1. IInv /\ FailsOpen /\ [Next]_vars => [\A s \in leaves' \ leaves : owner[s] = "me"]_vars
  BY LeavesStep
<1>2. QED
  BY <1>1, NoneFailsClosed, PTL DEF Spec, LeavesOwnSlots
----------------------------------------------------------------------------
(* While no handler gives up: where the requests are, and what they hold. *)

\* Each handler that waits has a permit of its own; one that failed before it waited
\* has kept its permit.
Busy == {r \in Requests : http[r] = "waiting"}
PermitsOK ==
  /\ IsFiniteSet(Busy) /\ permits >= 0
  /\ permits + Cardinality(Busy) <= Permits

\* Each request that is queued or has a slot is in one place, and its handler still
\* waits for an answer.
Open(r) == r \in Busy /\ future[r] = "open"
Served == {state[s].req : s \in InEngine}
RequestsApart ==
  /\ Injective(queue)
  /\ \A r \in Elements(queue) : Open(r) /\ r \notin Served
  /\ \A r \in Served : Open(r)
  /\ \A s, u \in InEngine : state[s].req = state[u].req => s = u

\* The request of the claim or release under way is none of these, unless it was
\* completed: then its slot is running until the release is answered.
JobRequest ==
  /\ pc = "claim" => Open(job.req)
  /\ pc = "claim" \/ (pc = "release" /\ job.kind # "complete") =>
       job.req \notin Served \union Elements(queue)
  /\ pc \in {"ack", "release"} /\ job.kind = "complete" =>
       job.req = state[job.slot].req

\* A request that was not submitted has not been answered.
NewRequests ==
  \A r \in Requests : http[r] = "new" => future[r] = "open" /\ r # job.req

InFlight == RequestsApart /\ JobRequest /\ NewRequests

\* What the engine does to the requests it knows: it takes the first of the queue,
\* drops slots, and answers at most x, which is nowhere any more.
EngineStep(x) ==
  /\ http' = http /\ \A r \in Requests \ {x} : future'[r] = future[r]
  /\ queue' = queue \/ (queue # <<>> /\ queue' = Tail(queue))
  /\ InEngine' \subseteq InEngine
  /\ \A s \in InEngine' : state'[s].req = state[s].req
  /\ x \in {NoRequest, job.req} \union Elements(queue) \union Served
  /\ x \notin Elements(queue') \union Served'
  /\ job'.req \in {NoRequest, job.req} \union Elements(queue) \union Served

\* Such a step keeps the requests apart.
LEMMA EngineStepKeeps ==
  ASSUME TypeOK, RequestsApart, NewRequests, NEW x, EngineStep(x)
  PROVE  /\ RequestsApart' /\ NewRequests'
         /\ Served' \subseteq Served /\ Elements(queue') \subseteq Elements(queue)
<1>1. Injective(queue') /\ Elements(queue') \subseteq Elements(queue)
  <2>1. Injective(queue) /\ queue \in Seq(Requests)
    BY DEF RequestsApart, TypeOK
  <2>2. queue # <<>> => /\ Injective(Tail(queue))
                        /\ Elements(Tail(queue)) \subseteq Elements(queue)
    BY <2>1, TailElements
  <2>3. queue' = queue \/ (queue # <<>> /\ queue' = Tail(queue))
    BY DEF EngineStep
  <2>4. QED
    BY <2>1, <2>2, <2>3
<1>2. Served' \subseteq Served
  BY DEF EngineStep, Served
<1>3. ASSUME NEW r \in Elements(queue') \union Served'
      PROVE  Open(r)'
  <2>1. Open(r)
    BY <1>1, <1>2 DEF RequestsApart
  <2>2. r # x
    BY DEF EngineStep
  <2>3. QED
    BY <2>1, <2>2 DEF EngineStep, Open, Busy
<1>4. \A s, u \in InEngine' : state'[s].req = state'[u].req => s = u
  BY DEF EngineStep, RequestsApart
<1>5. RequestsApart'
  BY <1>1, <1>2, <1>3, <1>4 DEF RequestsApart
<1>6. ASSUME NEW r \in Requests, http'[r] = "new"
      PROVE  future'[r] = "open" /\ r # job'.req
  <2>1. http[r] = "new" /\ future[r] = "open" /\ r # job.req
    BY <1>6 DEF EngineStep, NewRequests
  <2>2. r \notin Elements(queue) \union Served
    BY <2>1 DEF RequestsApart, Open, Busy
  <2>3. r # NoRequest
    BY EngineConstantsOK DEF EngineConstantsOK
  <2>4. QED
    BY <2>1, <2>2, <2>3 DEF EngineStep
<1>7. QED
  BY <1>1, <1>2, <1>5, <1>6 DEF NewRequests

\* A future that is set is that of one request.
LEMMA OtherFutures ==
  ASSUME TypeOK, NEW x, NEW v, SetFuture(x, v)
  PROVE  \A r \in Requests \ {x} : future'[r] = future[r]
BY DEF SetFuture, TypeOK

\* The requests of the engine are requests.
LEMMA NotNoRequest ==
  ASSUME RequestsApart
  PROVE  NoRequest \notin Elements(queue) \union Served
BY EngineConstantsOK DEF EngineConstantsOK, RequestsApart, Open, Busy

\* What leaves the state and the slots as they are leaves Served as it is.
LEMMA ServedKept ==
  ASSUME UNCHANGED <<active, pending, state>>
  PROVE  InEngine' = InEngine /\ Served' = Served
BY DEF InEngine, Served

\* Accepting answers what it prunes, and hands what it takes from the queue to a
\* slot.
LEMMA AcceptRequests ==
  ASSUME TypeOK, Lists, ComingSlots, InFlight, Accepting
  PROVE  InFlight'
<1> USE DEF handlers, thread, slots, kv
<1>1. NoRequest \notin Elements(queue) \union Served
  BY NotNoRequest DEF InFlight
<1>2. queue # <<>> => /\ Head(queue) \in Elements(queue)
                      /\ Head(queue) \notin Elements(Tail(queue))
                      /\ Elements(Tail(queue)) \subseteq Elements(queue)
  BY TailElements DEF InFlight, RequestsApart, TypeOK
<1>3. NoJob.req = NoRequest
  BY DEF NoJob
<1>4. CASE Prune
  <2>1. UNCHANGED <<active, pending, state, pc, job, http>> /\ pc = "accept"
    BY <1>4 DEF Prune
  <2>2. \A r \in Requests \ {Head(queue)} : future'[r] = future[r]
    BY <1>4, OtherFutures DEF Prune
  <2>3. queue # <<>> /\ queue' = Tail(queue)
    BY <1>4 DEF Prune
  <2>4. Head(queue) \notin Served
    BY <1>2, <2>3 DEF InFlight, RequestsApart
  <2>5. EngineStep(Head(queue))
    BY <1>2, <2>1, <2>2, <2>3, <2>4, ServedKept DEF EngineStep
  <2>6. RequestsApart' /\ NewRequests'
    BY <2>5, EngineStepKeeps DEF InFlight
  <2>7. JobRequest'
    BY <2>1 DEF JobRequest
  <2>8. QED
    BY <2>6, <2>7 DEF InFlight
<1>5. CASE AskSlot
  <2>1. PICK r : /\ r = Head(queue) /\ queue # <<>> /\ queue' = Tail(queue)
                 /\ job'.req = r /\ job'.kind = "none" /\ pc' = "claim"
                 /\ UNCHANGED <<active, pending, state, http, future>>
    BY <1>5 DEF AskSlot, NoJob
  <2>2. EngineStep(NoRequest)
    BY <1>1, <1>2, <2>1, ServedKept DEF EngineStep
  <2>3. RequestsApart' /\ NewRequests'
    BY <2>2, EngineStepKeeps DEF InFlight
  <2>4. Open(r)' /\ r \notin Served' /\ r \notin Elements(queue')
    BY <1>2, <2>1, ServedKept DEF InFlight, RequestsApart, Open, Busy
  <2>5. JobRequest'
    BY <2>1, <2>4 DEF JobRequest
  <2>6. QED
    BY <2>3, <2>5 DEF InFlight
<1>6. CASE Claimed
  <2>1. PICK s \in Slots : s = Head(replies).slot /\ s \notin InEngine
    BY <1>6, ClaimedFresh DEF Claimed
  <2>2. /\ pc = "claim" /\ pc' = "accept" /\ job' = NoJob
        /\ UNCHANGED <<http, future, queue, active>>
        /\ pending' = Append(pending, s)
    BY <1>6, <2>1 DEF Claimed
  <2>3. state'[s].req = job.req /\ \A e \in Slots \ {s} : state'[e] = state[e]
    <3>1. PICK n, m : state' = [state EXCEPT ![s] =
                        [NoState EXCEPT !.req = job.req, !.left = n, !.limit = m]]
      BY <1>6, <2>1 DEF Claimed
    <3>2. QED
      BY <3>1 DEF TypeOK, NoState
  <2>4. InEngine' = InEngine \union {s}
    <3>1. Elements(pending') = Elements(pending) \union {s}
      BY <2>2, AppendElements DEF TypeOK
    <3>2. QED
      BY <2>2, <3>1 DEF InEngine
  <2>5. \A e \in InEngine : state'[e] = state[e]
    BY <2>1, <2>3, RunningSlots DEF InEngine
  <2>6. Served' = Served \union {job.req}
    BY <2>3, <2>4, <2>5 DEF Served
  <2>7. Open(job.req) /\ job.req \notin Served \union Elements(queue)
    BY <2>2 DEF InFlight, JobRequest
  <2>8. \A r : Open(r)' = Open(r)
    BY <2>2 DEF Open, Busy
  <2>9. \A e, u \in InEngine' : state'[e].req = state'[u].req => e = u
    <3>1. ASSUME NEW e \in InEngine
          PROVE  state'[e].req # job.req
      BY <2>5, <2>7 DEF Served
    <3>2. \A e, u \in InEngine : state'[e].req = state'[u].req => e = u
      BY <2>5 DEF InFlight, RequestsApart
    <3>3. QED
      BY <2>3, <2>4, <3>1, <3>2
  <2>10. RequestsApart'
    BY <2>2, <2>6, <2>7, <2>8, <2>9 DEF InFlight, RequestsApart
  <2>11. NewRequests'
    BY <1>3, <2>2, EngineConstantsOK DEF InFlight, NewRequests, EngineConstantsOK
  <2>12. QED
    BY <2>2, <2>10, <2>11 DEF InFlight, JobRequest
<1>7. CASE ClaimFails
  <2>1. /\ UNCHANGED <<active, pending, state, http, queue>>
        /\ pc = "claim" /\ pc' = "accept" /\ job'.req = NoRequest
    BY <1>3, <1>7 DEF ClaimFails
  <2>2. \A r \in Requests \ {job.req} : future'[r] = future[r]
    BY <1>7, OtherFutures DEF ClaimFails
  <2>3. job.req \notin Served \union Elements(queue)
    BY <2>1 DEF InFlight, JobRequest
  <2>4. EngineStep(job.req)
    BY <2>1, <2>2, <2>3, ServedKept DEF EngineStep
  <2>5. RequestsApart' /\ NewRequests'
    BY <2>4, EngineStepKeeps DEF InFlight
  <2>6. QED
    BY <2>1, <2>5 DEF InFlight, JobRequest
<1>8. CASE Accepted
  <2>1. UNCHANGED <<active, pending, state, job, http, future, queue>>
    BY <1>8 DEF Accepted
  <2>2. EngineStep(NoRequest)
    BY <1>1, <2>1, ServedKept DEF EngineStep
  <2>3. RequestsApart' /\ NewRequests'
    BY <2>2, EngineStepKeeps DEF InFlight
  <2>4. pc' \in {"activate", "token"}
    BY <1>8 DEF Accepted
  <2>5. QED
    BY <2>3, <2>4 DEF InFlight, JobRequest
<1>9. QED
  BY <1>4, <1>5, <1>6, <1>7, <1>8 DEF Accepting

\* A step inside the engine that leaves every request where it is.
LEMMA QuietRequests ==
  ASSUME TypeOK, InFlight, UNCHANGED <<http, future, queue, job>>,
         InEngine' \subseteq InEngine, \A s \in InEngine' : state'[s].req = state[s].req,
         pc' \notin {"claim", "ack", "release"}
  PROVE  InFlight'
<1>1. NoRequest \notin Elements(queue) \union Served
  BY NotNoRequest DEF InFlight
<1>2. Served' \subseteq Served
  BY DEF Served
<1>3. EngineStep(NoRequest)
  BY <1>1, <1>2 DEF EngineStep
<1>4. RequestsApart' /\ NewRequests'
  BY <1>3, EngineStepKeeps DEF InFlight
<1>5. QED
  BY <1>4 DEF InFlight, JobRequest

\* A slot leaves the engine, and its request is answered now or after the release.
LEMMA DroppedRequests ==
  ASSUME TypeOK, InFlight, NEW s \in InEngine, NEW r, r = state[s].req,
         InEngine' = InEngine \ {s}, UNCHANGED <<state, queue, http>>,
         \A q \in Requests \ {r} : future'[q] = future[q],
         \/ pc' = "release" /\ job'.req = r /\ job'.kind # "complete"
         \/ pc' \notin {"claim", "ack", "release"} /\ job' = job
  PROVE  InFlight'
<1>1. r \in Served /\ r \notin Served' /\ r \notin Elements(queue)
  BY DEF InFlight, RequestsApart, Served
<1>2. EngineStep(r)
  BY <1>1 DEF EngineStep
<1>3. RequestsApart' /\ NewRequests'
  BY <1>2, EngineStepKeeps DEF InFlight
<1>4. JobRequest'
  BY <1>1 DEF JobRequest
<1>5. QED
  BY <1>3, <1>4 DEF InFlight

\* Activating drops at most the slot whose join was not taken.
LEMMA ActivateRequests ==
  ASSUME TypeOK, Lists, InFlight, Activating
  PROVE  InFlight'
<1> USE DEF handlers, thread, slots, kv
<1>1. CASE SignalJoins
  <2>1. ASSUME NEW s \in InEngine
        PROVE  state'[s].req = state[s].req
    <3>1. s \in Slots /\ state[s] \in SlotState
      BY RunningSlots DEF InEngine, TypeOK
    <3>2. state'[s] = state[s] \/ state'[s] = [state[s] EXCEPT !.joined = TRUE]
      BY <1>1, <3>1 DEF SignalJoins
    <3>3. QED
      BY <3>1, <3>2 DEF SlotState
  <2>2. InEngine' = InEngine /\ UNCHANGED <<http, future, queue, job>> /\ pc' = "move"
    BY <1>1 DEF SignalJoins, InEngine
  <2>3. QED
    BY <2>1, <2>2, QuietRequests
<1>2. CASE ActivationTimeout
  <2>1. PICK s \in Elements(pending) :
          pending' = Without(pending, s) /\ SendRelease(s, "unjoined")
    BY <1>2 DEF ActivationTimeout
  <2>2. Elements(pending') = Elements(pending) \ {s}
    BY <2>1, WithoutElements DEF TypeOK, Lists
  <2>3. active' = active /\ UNCHANGED <<state, queue, http, future>>
    BY <1>2 DEF ActivationTimeout
  <2>4. s \in InEngine /\ InEngine' = InEngine \ {s}
    BY <2>2, <2>3 DEF Lists, InEngine
  <2>5. pc' = "release" /\ job'.req = state[s].req /\ job'.kind # "complete"
    BY <2>1 DEF SendRelease
  <2>6. QED
    BY <2>3, <2>4, <2>5, DroppedRequests
<1>3. CASE Moved
  <2>1. /\ UNCHANGED <<active, pending, state, http, future, queue, job>>
        /\ pc' \in {"token", "accept"}
    BY <1>3 DEF Moved
  <2>2. QED
    BY <2>1, QuietRequests, ServedKept
<1>4. ASSUME NEW s \in Slots, Move(s)
      PROVE  InFlight'
  <2>1. /\ Elements(pending') = Elements(pending) \ {s}
        /\ Elements(active') = Elements(active) \union {s}
    BY <1>4, WithoutElements, AppendElements DEF Move, TypeOK, Lists
  <2>2. InEngine' = InEngine
    BY <1>4, <2>1 DEF Move, InEngine
  <2>3. UNCHANGED <<state, http, future, queue, job>> /\ pc' = "move"
    BY <1>4 DEF Move
  <2>4. QED
    BY <2>2, <2>3, QuietRequests
<1>5. QED
  BY <1>1, <1>2, <1>3, <1>4 DEF Activating

\* A teardown drops its slot, whether its request was answered already or not.
LEMMA TeardownRequests ==
  ASSUME TypeOK, Lists, InFlight, NEW s \in Elements(active), NEW kind,
         kind # "complete", Teardown(s, kind), UNCHANGED <<pending, state, queue, http>>,
         \A q \in Requests \ {state[s].req} : future'[q] = future[q]
  PROVE  InFlight'
<1>1. Elements(active') = Elements(active) \ {s}
  BY WithoutElements DEF Teardown, TypeOK, Lists
<1>2. s \in InEngine /\ InEngine' = InEngine \ {s}
  BY <1>1 DEF Lists, InEngine
<1>3. pc' = "release" /\ job'.req = state[s].req /\ job'.kind # "complete"
  BY DEF Teardown, SendRelease
<1>4. QED
  BY <1>2, <1>3, DroppedRequests

\* A token drops the slots it tears down.
LEMMA GenerateRequests ==
  ASSUME TypeOK, Lists, InFlight, Generating
  PROVE  InFlight'
<1> USE DEF handlers, thread, slots, kv
<1>1. CASE AbortEvicted
  <2>1. PICK s \in Elements(active) : Teardown(s, "evicted")
    BY <1>1 DEF AbortEvicted
  <2>2. QED
    BY <1>1, <2>1, TeardownRequests DEF AbortEvicted
<1>2. CASE Exhausted
  <2>1. PICK s \in Elements(active) : Teardown(s, "exhausted")
    BY <1>2, RunningSlots DEF Exhausted, Lists
  <2>2. QED
    BY <1>2, <2>1, TeardownRequests DEF Exhausted
<1>3. CASE EndToken
  <2>1. PICK s, eos : /\ s = Head(active)
                      /\ state' = [state EXCEPT ![s] = Sampled(s, eos)]
    BY <1>3 DEF EndToken
  <2>2. s \in Slots /\ state[s] \in SlotState
    <3>1. active # <<>>
      BY <1>3, OnlySlot DEF EndToken
    <3>2. s \in Slots
      BY <2>1, <3>1, RunningSlots
    <3>3. QED
      BY <3>2 DEF TypeOK
  <2>3. Sampled(s, eos).req = state[s].req
    BY <2>2 DEF Sampled, SlotState
  <2>4. \A e \in InEngine : state'[e].req = state[e].req
    BY <2>1, <2>2, <2>3, RunningSlots DEF TypeOK, InEngine
  <2>5. /\ UNCHANGED <<active, pending, http, future, queue, job>>
        /\ pc' \in {"complete", "token"}
    BY <1>3 DEF EndToken
  <2>6. QED
    BY <2>4, <2>5, QuietRequests DEF InEngine
<1>4. CASE \/ NothingActive \/ BeginToken \/ Ensure \/ RunOps \/ SecondSlotRaises
           \/ TokenRaises
  <2>1. /\ UNCHANGED <<active, pending, state, http, future, queue, job>>
        /\ pc' \in {"accept", "ensure", "ops", "fail"}
    BY <1>4 DEF NothingActive, BeginToken, Ensure, RunOps, SecondSlotRaises, TokenRaises
  <2>2. QED
    BY <2>1, QuietRequests, ServedKept
<1>5. QED
  BY <1>1, <1>2, <1>3, <1>4 DEF Generating, Preparing

\* A completed request stays with its slot until the release is answered.
LEMMA CompleteRequests ==
  ASSUME TypeOK, Lists, CompletionOK, InFlight, Completing
  PROVE  InFlight'
<1> USE DEF handlers, slots, kv
<1>1. CASE Completed
  <2>1. /\ UNCHANGED <<active, pending, state, http, future, queue, job>>
        /\ pc' = "accept"
    BY <1>1 DEF Completed
  <2>2. QED
    BY <2>1, QuietRequests, ServedKept
<1>2. CASE Complete \/ LeaveAcked
  <2>1. PICK s \in Elements(active) :
          /\ UNCHANGED <<active, pending, state, http, future, queue>>
          /\ job' = [kind |-> "complete", req |-> state[s].req, slot |-> s]
          /\ pc' \in {"ack", "release"}
    BY <1>2 DEF Complete, LeaveAcked, SendRelease, CompletionOK
  <2>2. state[s].req \in Served
    BY DEF Served, InEngine
  <2>3. NoRequest \notin Elements(queue) \union Served
    BY NotNoRequest DEF InFlight
  <2>4. EngineStep(NoRequest)
    BY <2>1, <2>2, <2>3, ServedKept DEF EngineStep
  <2>5. RequestsApart' /\ NewRequests'
    BY <2>4, EngineStepKeeps DEF InFlight
  <2>6. JobRequest'
    BY <2>1 DEF JobRequest
  <2>7. QED
    BY <2>5, <2>6 DEF InFlight
<1>3. QED
  BY <1>1, <1>2 DEF Completing

\* A failure answers each request before its slot is released.
LEMMA FailRequests ==
  ASSUME TypeOK, Lists, InFlight, Failing
  PROVE  InFlight'
<1> USE DEF handlers, slots, kv
<1>1. CASE FailActive
  <2>1. PICK s \in Elements(active) :
          /\ s = Head(active)
          /\ active' = Without(active, s) /\ UNCHANGED <<pending, state, queue, http>>
          /\ SetFuture(state[s].req, "error")
          /\ Teardown(s, "fail") \/ UNCHANGED <<pc, job>>
    BY <1>1, RunningSlots DEF FailActive, Teardown
  <2>2. \A q \in Requests \ {state[s].req} : future'[q] = future[q]
    BY <2>1, OtherFutures
  <2>3. CASE Teardown(s, "fail")
    BY <2>1, <2>2, <2>3, TeardownRequests
  <2>4. CASE UNCHANGED <<pc, job>>
    <3>1. Elements(active') = Elements(active) \ {s}
      BY <2>1, WithoutElements DEF TypeOK, Lists
    <3>2. s \in InEngine /\ InEngine' = InEngine \ {s}
      BY <2>1, <3>1 DEF Lists, InEngine
    <3>3. pc' = "fail"
      BY <1>1, <2>4 DEF FailActive
    <3>4. QED
      BY <2>1, <2>2, <2>4, <3>2, <3>3, DroppedRequests
  <2>5. QED
    BY <2>1, <2>3, <2>4
<1>2. CASE FailPending
  <2>1. PICK s \in Elements(pending) :
          /\ s = Head(pending) /\ pending # <<>>
          /\ pending' = Tail(pending) /\ UNCHANGED <<active, state, queue, http>>
          /\ SetFuture(state[s].req, "error") /\ SendRelease(s, "fail")
    BY <1>2, RunningSlots DEF FailPending
  <2>2. \A q \in Requests \ {state[s].req} : future'[q] = future[q]
    BY <2>1, OtherFutures
  <2>3. Elements(pending') = Elements(pending) \ {s}
    BY <2>1, TailElements DEF TypeOK, Lists
  <2>4. s \in InEngine /\ InEngine' = InEngine \ {s}
    BY <2>1, <2>3 DEF Lists, InEngine
  <2>5. pc' = "release" /\ job'.req = state[s].req /\ job'.kind # "complete"
    BY <2>1 DEF SendRelease
  <2>6. QED
    BY <2>1, <2>2, <2>4, <2>5, DroppedRequests
<1>3. CASE Failed
  <2>1. /\ UNCHANGED <<active, pending, state, http, future, queue, job>>
        /\ pc' = "accept"
    BY <1>3 DEF Failed
  <2>2. QED
    BY <2>1, QuietRequests, ServedKept
<1>4. QED
  BY <1>1, <1>2, <1>3 DEF Failing

\* After a release the request that had the slot is answered, or a failure is to
\* answer it.
LEMMA ReleaseRequests ==
  ASSUME TypeOK, Lists, CompletionOK, InFlight, Releasing
  PROVE  InFlight'
<1> USE DEF handlers, slots, kv
<1>1. /\ UNCHANGED <<pending, state, http, queue>> /\ pc = "release"
      /\ job'.req = NoRequest
      /\ Released \/ (pc' = "fail" /\ UNCHANGED <<active, future>>)
  BY DEF Releasing, ReleaseReply, ReleaseTimeout, Unreleased, NoJob
<1>2. pc' \in {"complete", "token", "ensure", "activate", "fail"}
  BY <1>1, AfterPlaces DEF Released, TypeOK, Job
<1>3. NoRequest \notin Elements(queue) \union Served
  BY NotNoRequest DEF InFlight
<1>4. CASE UNCHANGED <<active, future>>
  <2>1. EngineStep(NoRequest)
    BY <1>1, <1>3, <1>4, ServedKept DEF EngineStep
  <2>2. QED
    BY <1>2, <2>1, EngineStepKeeps DEF InFlight, JobRequest
<1>5. CASE Released
  <2>1. \A q \in Requests \ {job.req} : future'[q] = future[q]
    BY <1>5, OtherFutures DEF Released
  <2>2. CASE job.kind = "complete"
    <3>1. Elements(active') = Elements(active) \ {job.slot}
      BY <1>5, <2>2, WithoutElements DEF Released, TypeOK, Lists
    <3>2. job.slot \in InEngine /\ InEngine' = InEngine \ {job.slot}
      BY <1>1, <2>2, <3>1 DEF CompletionOK, Lists, InEngine
    <3>3. job.req = state[job.slot].req
      BY <1>1, <2>2 DEF InFlight, JobRequest
    <3>4. job.req \notin Served' /\ job.req \notin Elements(queue)
      BY <1>1, <3>2, <3>3 DEF InFlight, RequestsApart, Served
    <3>5. EngineStep(job.req)
      BY <1>1, <2>1, <3>2, <3>4 DEF EngineStep
    <3>6. QED
      BY <1>2, <3>5, EngineStepKeeps DEF InFlight, JobRequest
  <2>3. CASE job.kind # "complete"
    <3>1. active' = active
      BY <1>5, <2>3 DEF Released
    <3>2. job.req \notin Served \union Elements(queue)
      BY <1>1, <2>3 DEF InFlight, JobRequest
    <3>3. EngineStep(job.req)
      BY <1>1, <2>1, <3>1, <3>2, ServedKept DEF EngineStep
    <3>4. QED
      BY <1>2, <3>3, EngineStepKeeps DEF InFlight, JobRequest
  <2>4. QED
    BY <2>2, <2>3
<1>6. QED
  BY <1>1, <1>4, <1>5

\* A handler brings a new request, or leaves with an answer; the aggregator knows of
\* slots only.
LEMMA OutsideRequests ==
  ASSUME "expire" \notin Faults, TypeOK, InFlight, Outside
  PROVE  InFlight'
<1>1. /\ UNCHANGED <<active, pending, state, pc, job>>
      /\ InEngine' = InEngine /\ Served' = Served
  BY OutsideQuiet, ServedKept DEF thread, slots
<1>2. ASSUME NEW r \in Requests, Submit(r)
      PROVE  InFlight'
  <2>1. http[r] = "new" /\ future[r] = "open" /\ r # job.req
    BY <1>2 DEF Submit, InFlight, NewRequests
  <2>2. /\ http' = [http EXCEPT ![r] = "waiting"] /\ future' = future
        /\ queue' = Append(queue, r)
    BY <1>2 DEF Submit
  <2>3. r \notin Served /\ r \notin Elements(queue)
    BY <2>1 DEF InFlight, RequestsApart, Open, Busy
  <2>4. Injective(queue') /\ Elements(queue') = Elements(queue) \union {r}
    BY <2>2, <2>3, AppendElements DEF TypeOK, InFlight, RequestsApart
  <2>5. Open(r)' /\ \A q : Open(q) => Open(q)'
    BY <2>1, <2>2 DEF Open, Busy, TypeOK
  <2>6. RequestsApart'
    BY <1>1, <2>3, <2>4, <2>5 DEF InFlight, RequestsApart
  <2>7. JobRequest'
    BY <1>1, <2>1, <2>4, <2>5 DEF InFlight, JobRequest
  <2>8. NewRequests'
    BY <1>1, <2>2 DEF InFlight, NewRequests, TypeOK
  <2>9. QED
    BY <2>6, <2>7, <2>8 DEF InFlight
<1>3. ASSUME NEW r \in Requests, Refuse(r) \/ BadBody(r) \/ Respond(r)
      PROVE  InFlight'
  <2>1. /\ http' = [http EXCEPT ![r] = "done"] /\ UNCHANGED <<future, queue>>
        /\ ~ Open(r)
    BY <1>3 DEF Refuse, BadBody, Respond, Open, Busy
  <2>2. \A q : Open(q) => Open(q)'
    BY <2>1 DEF Open, Busy, TypeOK
  <2>3. RequestsApart'
    BY <1>1, <2>1, <2>2 DEF InFlight, RequestsApart
  <2>4. JobRequest'
    BY <1>1, <2>1, <2>2 DEF InFlight, JobRequest
  <2>5. NewRequests'
    BY <1>1, <2>1 DEF InFlight, NewRequests, TypeOK
  <2>6. QED
    BY <2>3, <2>4, <2>5 DEF InFlight
<1>4. CASE UNCHANGED <<http, future, queue>>
  <2>1. \A q : Open(q)' = Open(q)
    BY <1>4 DEF Open, Busy
  <2>2. QED
    BY <1>1, <1>4, <2>1 DEF InFlight, RequestsApart, JobRequest, NewRequests
<1>5. CASE \/ Connection \/ OtherClaims \/ Boundary \/ JoinsOnly
           \/ \E s \in Slots : OtherReleases(s) \/ Evict(s)
  BY <1>4, <1>5 DEF Connection, HandleClaim, HandleRelease, OtherClaims, Boundary, JoinsOnly,
     OtherReleases, Evict, handlers
<1>6. QED
  BY <1>2, <1>3, <1>5 DEF Outside

\* So every step keeps the requests apart.
LEMMA RequestsStep ==
  ASSUME "expire" \notin Faults, IInv, InFlight, [Next]_vars
  PROVE  InFlight'
<1> USE DEF IInv, SlotsApart
<1>1. CASE UNCHANGED vars
  <2>1. UNCHANGED <<active, pending, state, pc, job, http, future, queue>>
    BY <1>1 DEF vars, handlers, thread, slots
  <2>2. \A q : Open(q)' = Open(q)
    BY <2>1 DEF Open, Busy
  <2>3. InEngine' = InEngine /\ Served' = Served
    BY <2>1, ServedKept
  <2>4. QED
    BY <2>1, <2>2, <2>3 DEF InFlight, RequestsApart, JobRequest, NewRequests
<1>2. CASE Next
  BY <1>2, OutsideRequests, AcceptRequests, ActivateRequests, GenerateRequests,
     CompleteRequests, FailRequests, ReleaseRequests DEF Next, Outside
<1>3. QED
  BY <1>1, <1>2

\* A handler takes a permit before it waits, and gives it back when it is done.
LEMMA PermitsStep ==
  ASSUME TypeOK, PermitsOK, [Next]_vars
  PROVE  PermitsOK'
<1> USE DEF handlers
<1>1. permits \in Int /\ Permits \in Nat /\ Cardinality(Busy) \in Nat
  BY FS_CardinalityType, EngineConstantsOK DEF TypeOK, PermitsOK, EngineConstantsOK
<1>2. CASE UNCHANGED <<permits, http>>
  BY <1>2 DEF PermitsOK, Busy
<1>3. ASSUME NEW r \in Requests, Submit(r)
      PROVE  PermitsOK'
  <2>1. Busy' = Busy \union {r} /\ r \notin Busy
    BY <1>3 DEF Submit, Busy, TypeOK
  <2>2. IsFiniteSet(Busy') /\ Cardinality(Busy') = Cardinality(Busy) + 1
    BY <2>1, FS_AddElement DEF PermitsOK
  <2>3. permits > 0 /\ permits' = permits - 1
    BY <1>3 DEF Submit
  <2>4. QED
    BY <1>1, <2>2, <2>3 DEF PermitsOK
<1>4. ASSUME NEW r \in Requests, Respond(r)
      PROVE  PermitsOK'
  <2>1. Busy' = Busy \ {r} /\ r \in Busy
    BY <1>4 DEF Respond, Busy, TypeOK
  <2>2. IsFiniteSet(Busy') /\ Cardinality(Busy') = Cardinality(Busy) - 1
    BY <2>1, FS_RemoveElement DEF PermitsOK
  <2>3. permits' = permits + 1
    BY <1>4 DEF Respond
  <2>4. QED
    BY <1>1, <2>2, <2>3 DEF PermitsOK
<1>5. ASSUME NEW r \in Requests, Refuse(r) \/ BadBody(r)
      PROVE  PermitsOK'
  <2>1. Busy' = Busy
    BY <1>5 DEF Refuse, BadBody, Busy, TypeOK
  <2>2. permits' = permits \/ (permits > 0 /\ permits' = permits - 1)
    BY <1>5 DEF Refuse, BadBody
  <2>3. QED
    BY <1>1, <2>1, <2>2 DEF PermitsOK
<1>6. CASE UNCHANGED vars
  BY <1>2, <1>6 DEF vars
<1>7. CASE \/ Connection \/ OtherClaims \/ Boundary \/ JoinsOnly
           \/ \E s \in Slots : OtherReleases(s) \/ Evict(s)
  BY <1>2, <1>7 DEF Connection, HandleClaim, HandleRelease, OtherClaims, Boundary, JoinsOnly,
     OtherReleases, Evict
<1>8. CASE Accepting \/ Activating
  BY <1>2, <1>8 DEF Accepting, Prune, AskSlot, Claimed, ClaimFails, Accepted, Activating,
     SignalJoins, ActivationTimeout, Move, Moved
<1>9. CASE Generating
  BY <1>2, <1>9 DEF Generating, Preparing, AbortEvicted, NothingActive, BeginToken, Ensure, Exhausted,
     RunOps, EndToken, SecondSlotRaises, TokenRaises
<1>10. CASE Completing \/ Failing \/ Releasing
  BY <1>2, <1>10 DEF Completing, Complete, Completed, LeaveAcked, Failing, FailActive,
     FailPending, Failed, Releasing, ReleaseReply, ReleaseTimeout
<1>11. QED
  BY <1>3, <1>4, <1>5, <1>6, <1>7, <1>8, <1>9, <1>10 DEF Next
----------------------------------------------------------------------------
(* No slot has more blocks than a sequence of MaxSeq tokens needs. *)

TableFits == \A s \in Slots : Cardinality(tables[s]) <= BlocksFor(MaxSeq)

\* More tokens never need fewer blocks.
LEMMA BlocksForGrows ==
  ASSUME NEW n \in Nat, NEW m \in Nat, n <= m
  PROVE  /\ BlocksFor(n) \in Nat /\ BlocksFor(m) \in Nat
         /\ BlocksFor(n) <= BlocksFor(m)
<1>1. BlockSize \in Nat \ {0}
  BY EngineConstantsOK DEF EngineConstantsOK
<1>2. (n + BlockSize - 1) \div BlockSize <= (m + BlockSize - 1) \div BlockSize
  BY <1>1
<1>3. \A a \in Nat : a \div BlockSize \in Nat
  BY <1>1
<1>4. n + BlockSize - 1 \in Nat /\ m + BlockSize - 1 \in Nat
  BY <1>1
<1>5. QED
  BY <1>2, <1>3, <1>4 DEF BlocksFor

\* A table is a finite set of blocks.
LEMMA TableSizes ==
  ASSUME TypeOK, NEW s \in Slots
  PROVE  IsFiniteSet(tables[s]) /\ Cardinality(tables[s]) \in Nat
<1>1. IsFiniteSet(Blocks) /\ tables[s] \in SUBSET Blocks
  BY EngineConstantsOK DEF EngineConstantsOK, TypeOK
<1>2. QED
  BY <1>1, FS_Subset, FS_CardinalityType

\* A slot that asks for blocks lacks no more than MaxSeq tokens would need.
LEMMA LacksFit ==
  ASSUME IInv, TableFits, NEW s \in Slots, pc = "ensure", s \in Elements(active)
  PROVE  /\ Lacks(s, InputLen(s)) \in Nat /\ BlocksFor(MaxSeq) \in Nat
         /\ Cardinality(tables[s]) + Lacks(s, InputLen(s)) <= BlocksFor(MaxSeq)
<1> DEFINE n == lens[s] + InputLen(s)
           have == Cardinality(tables[s])
<1>1. Fits(s) /\ state[s].made < state[s].limit
  BY DEF IInv, LengthsFit, MayBeDone
<1>2. n \in 0 .. MaxSeq /\ MaxSeq \in Nat
  BY <1>1, TokenFits, EngineConstantsOK DEF IInv, EngineConstantsOK
<1>3. have \in Nat /\ have <= BlocksFor(MaxSeq)
  BY TableSizes DEF IInv, TableFits
<1>4. Lacks(s, InputLen(s)) = IF BlocksFor(n) - have > 0 THEN BlocksFor(n) - have ELSE 0
  BY DEF Lacks
<1> HIDE DEF n, have
<1>5. /\ BlocksFor(n) \in Nat /\ BlocksFor(MaxSeq) \in Nat
      /\ BlocksFor(n) <= BlocksFor(MaxSeq)
  BY <1>2, BlocksForGrows
<1>6. /\ Lacks(s, InputLen(s)) \in Nat
      /\ have + Lacks(s, InputLen(s)) <= BlocksFor(MaxSeq)
  BY <1>3, <1>4, <1>5
<1>7. QED
  BY <1>5, <1>6 DEF have

\* Only ensure_blocks_for_length adds blocks to a table.
LEMMA TablesStep ==
  ASSUME IInv, TableFits, [Next]_vars
  PROVE  TableFits'
<1>1. CASE tables' = tables
  BY <1>1 DEF TableFits
<1>2. CASE Ensure
  <2>1. PICK s \in Slots, B \in SUBSET free_blocks :
          /\ s \in Elements(active) /\ pc = "ensure"
          /\ Cardinality(B) = Lacks(s, InputLen(s))
          /\ tables' = [tables EXCEPT ![s] = @ \union B]
    BY <1>2, RunningSlots DEF Ensure, Allocate, IInv, Lists
  <2>2. Lacks(s, InputLen(s)) \in Nat
        /\ Cardinality(tables[s]) + Lacks(s, InputLen(s)) <= BlocksFor(MaxSeq)
        /\ BlocksFor(MaxSeq) \in Nat
    BY <2>1, LacksFit
  <2>3. IsFiniteSet(tables[s]) /\ Cardinality(tables[s]) \in Nat
    BY TableSizes DEF IInv
  <2>4. IsFiniteSet(B)
    BY FS_Subset, EngineConstantsOK DEF EngineConstantsOK, IInv, TypeOK
  <2>5. Cardinality(tables[s] \union B) <= BlocksFor(MaxSeq)
    <3>1. IsFiniteSet(tables[s] \intersect B) /\ Cardinality(tables[s] \intersect B) \in Nat
      BY <2>3, FS_Intersection, FS_CardinalityType
    <3>2. Cardinality(tables[s] \union B)
            = Cardinality(tables[s]) + Cardinality(B) - Cardinality(tables[s] \cap B)
      BY <2>3, <2>4, FS_Union
    <3>3. QED
      BY <2>1, <2>2, <2>3, <3>1, <3>2
  <2>6. QED
    BY <2>1, <2>5 DEF TableFits, IInv, TypeOK
<1>3. ASSUME NEW s \in Slots, free_slot(s)
      PROVE  TableFits'
  <2>1. Cardinality({}) <= BlocksFor(MaxSeq)
    <3>1. BlocksFor(MaxSeq) \in Nat /\ Cardinality({}) = 0
      BY BlocksForGrows, FS_EmptySet, EngineConstantsOK DEF EngineConstantsOK
    <3>2. QED
      BY <3>1
  <2>2. QED
    BY <1>3, <2>1 DEF free_slot, TableFits, IInv, TypeOK
<1>4. CASE AbortEvicted \/ Exhausted \/ Complete \/ FailActive
  <2>1. Elements(active) \subseteq Slots /\ (active # <<>> => Head(active) \in Slots)
        /\ (todo # <<>> => Head(todo) \in Slots)
    BY RunningSlots DEF IInv
  <2>2. \E s \in Slots : free_slot(s)
    BY <1>4, <2>1 DEF AbortEvicted, Exhausted, Complete, FailActive, Teardown
  <2>3. QED
    BY <1>3, <2>2
<1>5. CASE Outside
  BY <1>1, <1>5, OutsideQuiet DEF kv
<1>6. CASE Accepting \/ Activating
  BY <1>1, <1>6 DEF Accepting, Prune, AskSlot, Claimed, ClaimFails, Accepted, Activating,
     SignalJoins, ActivationTimeout, Move, Moved, kv
<1>7. CASE Generating
  BY <1>1, <1>2, <1>4, <1>7 DEF Generating, Preparing, NothingActive, BeginToken, RunOps, EndToken,
     SecondSlotRaises, TokenRaises, kv
<1>8. CASE Completing \/ Failing \/ Releasing
  BY <1>1, <1>4, <1>8 DEF Completing, Completed, LeaveAcked, Failing, FailPending,
     Failed, Releasing, ReleaseReply, ReleaseTimeout, kv
<1>9. CASE UNCHANGED vars
  BY <1>1, <1>9 DEF vars, kv
<1>10. QED
  BY <1>5, <1>6, <1>7, <1>8, <1>9 DEF Next, Outside

\* At most a sets of at most n elements each have at most a * n elements together.
LEMMA UnionBound ==
  ASSUME NEW A, IsFiniteSet(A), NEW T, NEW n \in Nat,
         \A a \in A : IsFiniteSet(T[a]) /\ Cardinality(T[a]) <= n
  PROVE  /\ IsFiniteSet(UNION {T[a] : a \in A})
         /\ Cardinality(UNION {T[a] : a \in A}) <= Cardinality(A) * n
<1> DEFINE U == UNION {T[a] : a \in A}
           Numbers(a, f) == f \in [T[a] -> 1 .. n] /\ \A x, y \in T[a] : f[x] = f[y] => x = y
           g == [a \in A |-> CHOOSE f : Numbers(a, f)]
           in(x) == CHOOSE a \in A : x \in T[a]
           h == [x \in U |-> <<in(x), g[in(x)][x]>>]
<1>1. ASSUME NEW a \in A
      PROVE  Numbers(a, g[a])
  <2> DEFINE c == Cardinality(T[a])
  <2>1. c \in Nat /\ c <= n /\ ExistsBijection(1 .. c, T[a])
    BY FS_CardinalityType
  <2>2. ExistsBijection(T[a], 1 .. c)
    BY <2>1, Fun_ExistsBijSymmetric
  <2>3. PICK f : f \in Bijection(T[a], 1 .. c)
    BY <2>2 DEF ExistsBijection
  <2> HIDE DEF c, g, Numbers
  <2>4. f \in [T[a] -> 1 .. c] /\ \A x, y \in T[a] : f[x] = f[y] => x = y
    BY <2>3 DEF Bijection, Injection, IsInjective
  <2>5. 1 .. c \subseteq 1 .. n
    BY <2>1
  <2>6. Numbers(a, f)
    BY <2>4, <2>5 DEF Numbers
  <2>7. QED
    BY <2>6 DEF g
<1>2. ASSUME NEW x \in U
      PROVE  in(x) \in A /\ x \in T[in(x)]
  OBVIOUS
<1> HIDE DEF g, in
<1>3. h \in [U -> A \X (1 .. n)]
  BY <1>1, <1>2
<1>4. ASSUME NEW x \in U, NEW y \in U, h[x] = h[y]
      PROVE  x = y
  <2>1. in(x) = in(y) /\ g[in(x)][x] = g[in(x)][y]
    BY <1>4
  <2>2. x \in T[in(x)] /\ y \in T[in(x)] /\ in(x) \in A
    BY <1>2, <2>1
  <2>3. QED
    BY <1>1, <2>1, <2>2
<1> HIDE DEF h, Numbers
<1>5. h \in Injection(U, A \X (1 .. n))
  BY <1>3, <1>4, Fun_IsInj
<1>6. /\ IsFiniteSet(A \X (1 .. n))
      /\ Cardinality(A \X (1 .. n)) = Cardinality(A) * n
  <2>1. IsFiniteSet(1 .. n) /\ Cardinality(1 .. n) = n
    BY FS_Interval
  <2>2. QED
    BY <2>1, FS_Product
<1> HIDE DEF U
<1>7. IsFiniteSet(U) /\ Cardinality(U) <= Cardinality(A) * n
  BY <1>5, <1>6, FS_Injection
<1>8. QED
  BY <1>7 DEF U

\* As many requests run as handlers wait, at most.
LEMMA RunningBounded ==
  ASSUME IInv, PermitsOK, InFlight
  PROVE  /\ IsFiniteSet(Elements(active))
         /\ Cardinality(Elements(active)) \in Nat
         /\ Cardinality(Elements(active)) <= Permits
<1> DEFINE A == Elements(active)
           f == [e \in A |-> state[e].req]
<1>1. f \in [A -> Busy] /\ \A e, u \in A : f[e] = f[u] => e = u
  BY DEF InFlight, RequestsApart, Served, InEngine, Open
<1> HIDE DEF f
<1>2. f \in Injection(A, Busy)
  BY <1>1, Fun_IsInj
<1>3. IsFiniteSet(Busy)
  BY DEF PermitsOK
<1> HIDE DEF A
<1>4. IsFiniteSet(A) /\ Cardinality(A) <= Cardinality(Busy)
  BY <1>2, <1>3, FS_Injection
<1>5. Cardinality(A) \in Nat /\ Cardinality(Busy) \in Nat
  BY <1>3, <1>4, FS_CardinalityType
<1>6. permits \in Int /\ permits >= 0 /\ permits + Cardinality(Busy) <= Permits
  BY DEF PermitsOK, IInv, TypeOK
<1>7. Permits \in Nat
  BY EngineConstantsOK DEF EngineConstantsOK
<1>8. QED
  BY <1>4, <1>5, <1>6, <1>7 DEF A

\* One share for each permit leaves one for each slot that runs.
LEMMA Shares ==
  ASSUME NEW a \in Nat \ {0}, NEW p \in Nat, a <= p, NEW b \in Nat
  PROVE  (a - 1) * b + b <= p * b
<1>1. PICK d \in Nat : p = a + d
  BY p - a \in Nat
<1>2. p * b = a * b + d * b /\ d * b \in Nat /\ a * b \in Nat
  BY <1>1
<1>3. (a - 1) * b + b = a * b
  OBVIOUS
<1>4. QED
  BY <1>2, <1>3

\* Nobody runs out of blocks: what the other running slots have leaves a share.
LEMMA RoomLeft ==
  ASSUME IInv, BlocksSound, PermitsOK, InFlight, TableFits,
         NEW s \in Elements(active), pc = "ensure"
  PROVE  ~ (Lacks(s, InputLen(s)) > Cardinality(free_blocks))
<1> DEFINE A == Elements(active)
           share == BlocksFor(MaxSeq)
           others == UNION {tables[t] : t \in A \ {s}}
<1>1. A \subseteq Slots /\ s \in Slots
  BY RunningSlots DEF IInv
<1>2. IsFiniteSet(A) /\ Cardinality(A) \in Nat /\ Cardinality(A) <= Permits
  BY RunningBounded
<1>3. /\ Lacks(s, InputLen(s)) \in Nat /\ share \in Nat
      /\ Cardinality(tables[s]) + Lacks(s, InputLen(s)) <= share
  BY <1>1, LacksFit
<1>4. /\ IsFiniteSet(A \ {s}) /\ Cardinality(A \ {s}) = Cardinality(A) - 1
      /\ Cardinality(A) - 1 \in Nat
  <2>1. s \in A
    OBVIOUS
  <2> HIDE DEF A
  <2>2. IsFiniteSet(A \ {s}) /\ Cardinality(A \ {s}) = Cardinality(A) - 1
    BY <1>2, <2>1, FS_RemoveElement
  <2>3. QED
    BY <2>2, FS_CardinalityType
<1>5. IsFiniteSet(others) /\ Cardinality(others) <= (Cardinality(A) - 1) * share
  <2>1. \A t \in A \ {s} : IsFiniteSet(tables[t]) /\ Cardinality(tables[t]) <= share
    BY <1>1, TableSizes DEF IInv, TableFits
  <2> HIDE DEF share, A
  <2>2. QED
    BY <1>3, <1>4, <2>1, UnionBound
<1>6. Blocks = (free_blocks \union tables[s]) \union others
  <2>1. ASSUME NEW b \in Blocks, b \notin free_blocks
        PROVE  b \in tables[s] \union others
    <3>1. PICK t \in Slots : b \in tables[t]
      BY <2>1 DEF BlocksSound, Pool!Partitioned
    <3>2. t \in A
      BY <3>1 DEF IInv, NoBlockLeak
    <3>3. QED
      BY <3>1, <3>2
  <2>2. free_blocks \union tables[s] \union others \subseteq Blocks
    BY <1>1 DEF IInv, TypeOK
  <2>3. QED
    BY <2>1, <2>2
<1>7. IsFiniteSet(free_blocks) /\ IsFiniteSet(tables[s])
  BY <1>1, FS_Subset, EngineConstantsOK DEF EngineConstantsOK, IInv, TypeOK
<1>8. Cardinality(Blocks) = Permits * share /\ Permits \in Nat
  BY EngineConstantsOK DEF EngineConstantsOK
<1> DEFINE F == Cardinality(free_blocks)
           H == Cardinality(tables[s])
           O == Cardinality(others)
<1>9. F \in Nat /\ H \in Nat /\ O \in Nat
  BY <1>5, <1>7, FS_CardinalityType
<1> HIDE DEF A, share, others
<1>10. Cardinality(Blocks) <= F + H + O
  <2> DEFINE X == free_blocks \union tables[s]
  <2>1. IsFiniteSet(X) /\ Cardinality(X) = F + H - Cardinality(free_blocks \cap tables[s])
    BY <1>7, FS_Union
  <2>2. Cardinality(free_blocks \cap tables[s]) \in Nat
    BY <1>7, FS_Intersection, FS_CardinalityType
  <2>3. Cardinality(X \union others) = Cardinality(X) + O - Cardinality(X \cap others)
    BY <1>5, <2>1, FS_Union
  <2>4. Cardinality(X \cap others) \in Nat /\ Cardinality(X) \in Nat
    BY <2>1, FS_Intersection, FS_CardinalityType
  <2>5. Cardinality(Blocks) = Cardinality(X \union others)
    BY <1>6
  <2> HIDE DEF X, F, H, O
  <2>6. QED
    BY <1>9, <2>1, <2>2, <2>3, <2>4, <2>5
<1>11. (Cardinality(A) - 1) * share + share <= Permits * share
  BY <1>2, <1>3, <1>4, <1>8, Shares
<1> HIDE DEF F, H, O
<1>12. O <= (Cardinality(A) - 1) * share /\ H + Lacks(s, InputLen(s)) <= share
  BY <1>3, <1>5 DEF O, H
<1>13. (Cardinality(A) - 1) * share \in Nat /\ Permits * share \in Nat
  BY <1>3, <1>4, <1>8
<1>14. Lacks(s, InputLen(s)) <= F
  BY <1>3, <1>8, <1>9, <1>10, <1>11, <1>12, <1>13
<1>15. QED
  BY <1>3, <1>9, <1>14 DEF F

\* Only a slot that found no block is torn down as such.
LEMMA ExhaustedOnly ==
  ASSUME [Next]_vars, NeverExhausted, ~ Exhausted
  PROVE  NeverExhausted'
<1> USE DEF NeverExhausted, thread
<1>1. CASE UNCHANGED vars
  BY <1>1 DEF vars
<1>2. CASE Outside
  BY <1>2, OutsideQuiet
<1>3. CASE Accepting \/ Activating
  <2>1. NoJob.kind = "none" /\ \A r : [NoJob EXCEPT !.req = r].kind = "none"
    BY DEF NoJob
  <2>2. CASE Accepting
    BY <2>1, <2>2 DEF Accepting, Prune, AskSlot, Claimed, ClaimFails, Accepted
  <2>3. CASE Activating
    <3>1. CASE ActivationTimeout
      <4>1. PICK s : SendRelease(s, "unjoined")
        BY <3>1 DEF ActivationTimeout
      <4>2. QED
        BY <4>1 DEF SendRelease
    <3>2. CASE SignalJoins \/ Moved \/ \E s \in Slots : Move(s)
      BY <3>2 DEF SignalJoins, Move, Moved
    <3>3. QED
      BY <2>3, <3>1, <3>2 DEF Activating
  <2>4. QED
    BY <1>3, <2>2, <2>3
<1>4. CASE Generating
  <2>1. CASE AbortEvicted
    <3>1. PICK s \in Elements(active) : Teardown(s, "evicted")
      BY <2>1 DEF AbortEvicted
    <3>2. QED
      BY <3>1 DEF Teardown, SendRelease
  <2>2. QED
    BY <1>4, <2>1 DEF Generating, Preparing, NothingActive, BeginToken, Ensure, RunOps, EndToken,
       SecondSlotRaises, TokenRaises
<1>5. CASE Completing \/ Failing \/ Releasing
  BY <1>5 DEF Completing, Complete, Completed, LeaveAcked, Failing, FailActive,
     FailPending, Failed, Releasing, ReleaseReply, ReleaseTimeout, Teardown, SendRelease,
     NoJob
<1>6. QED
  BY <1>1, <1>2, <1>3, <1>4, <1>5 DEF Next, Outside

\* The inductive invariant for the cache's room.
RoomInv == IInv /\ BlocksSound /\ PermitsOK /\ InFlight /\ TableFits /\ NeverExhausted

\* It holds before anything is submitted.
LEMMA InitRoom ==
  ASSUME Init
  PROVE  RoomInv
<1>1. IInv
  BY InitIInv
<1>2. BlocksSound /\ NeverExhausted
  BY DEF Init, BlocksSound, Pool!Partitioned, Pool!FreeClean, NeverExhausted, NoJob
<1>3. PermitsOK
  <2>1. Busy = {}
    BY DEF Init, Busy
  <2>2. Permits \in Nat
    BY EngineConstantsOK DEF EngineConstantsOK
  <2>3. QED
    BY <2>1, <2>2, FS_EmptySet DEF Init, PermitsOK
<1>4. Elements(<<>>) = {} /\ Injective(<<>>)
  BY DEF Elements, Injective
<1>5. InFlight
  BY <1>4, EngineConstantsOK DEF Init, InFlight, RequestsApart, JobRequest, NewRequests,
     Served, InEngine, NoJob, EngineConstantsOK
<1>6. TableFits
  <2>1. BlocksFor(MaxSeq) \in Nat /\ Cardinality({}) = 0
    BY BlocksForGrows, FS_EmptySet, EngineConstantsOK DEF EngineConstantsOK
  <2>2. \A t \in Slots : tables[t] = {}
    BY DEF Init
  <2>3. QED
    BY <2>1, <2>2 DEF TableFits
<1>7. QED
  BY <1>1, <1>2, <1>3, <1>5, <1>6 DEF RoomInv

\* Every step keeps it: RoomLeft rules the only step out that could break it.
LEMMA StepRoom ==
  ASSUME "expire" \notin Faults, RoomInv, [Next]_vars
  PROVE  RoomInv'
<1> USE DEF RoomInv
<1>1. IInv' /\ TypeOK
  BY StepIInv DEF IInv
<1>2. BlocksSound'
  <2>1. [Pool!Next]_Pool!poolVars
    BY PoolStep
  <2>2. Pool!TypeOK
    BY <1>1 DEF TypeOK, Pool!TypeOK
  <2>3. QED
    BY <2>1, <2>2, PoolSound
<1>3. PermitsOK' /\ InFlight' /\ TableFits'
  BY <1>1, PermitsStep, RequestsStep, TablesStep
<1>4. ~ Exhausted
  <2>1. SUFFICES ASSUME Exhausted
                 PROVE  FALSE
    OBVIOUS
  <2>2. PICK s \in Elements(active) : s = Head(todo)
    BY <2>1, RunningSlots DEF Exhausted, IInv, Lists
  <2>3. ~ (Lacks(s, InputLen(s)) > Cardinality(free_blocks))
    BY <2>1, RoomLeft DEF Exhausted
  <2>4. QED
    BY <2>1, <2>2, <2>3 DEF Exhausted
<1>5. NeverExhausted'
  BY <1>4, ExhaustedOnly
<1>6. QED
  BY <1>1, <1>2, <1>3, <1>5

\* The cache never runs out of blocks, for any number of permits and requests: the
\* worker has one share of MaxSeq tokens for each permit, and a request in the engine
\* is one that a handler with a permit waits for (PagedKVCache.__init__,
\* ensure_blocks_for_length). A handler that gives up after 300 s breaks it: its
\* permit is back while its request still has its blocks.
THEOREM CacheSuffices == "expire" \notin Faults => (Spec => []NeverExhausted)
<1> SUFFICES ASSUME "expire" \notin Faults PROVE Spec => []NeverExhausted
  OBVIOUS
<1>1. Init => RoomInv
  BY InitRoom
<1>2. RoomInv /\ [Next]_vars => RoomInv'
  BY StepRoom
<1>3. RoomInv => NeverExhausted
  BY DEF RoomInv
<1>4. QED
  BY <1>1, <1>2, <1>3, PTL DEF Spec
----------------------------------------------------------------------------
(* Without late replies, and if tokenising does not fail: every RPC has one *)
(* reply, and no slot of the pool is lost.                                  *)

ClaimMessage == [type |-> "claim", slot |-> -1]
ReleaseMessage(s) == [type |-> "release", slot |-> s]

\* The connection carries one message while the engine waits for a reply, and none
\* otherwise; a release that was answered has left the slot to somebody else.
OneMessage ==
  /\ pc \notin {"claim", "release"} => sent = <<>> /\ replies = <<>>
  /\ pc = "claim" =>
       \/ sent = <<ClaimMessage>> /\ replies = <<>>
       \/ sent = <<>> /\ \E m : replies = <<m>>
  /\ pc = "release" =>
       \/ sent = <<ReleaseMessage(job.slot)>> /\ replies = <<>>
       \/ /\ sent = <<>> /\ owner[job.slot] # "me"
          /\ \E m : replies = <<m>> /\ m.type # "claimed"

\* The engine keeps a slot in mind only while it leaves it.
JobSlot == IF pc \in {"ack", "release"} THEN job.slot \in Slots ELSE job.slot = -1

\* What goes with SlotsAccounted.
SlotsInv == OneMessage /\ JobSlot /\ SlotsAccounted

\* A connection with one message, or none.
LEMMA OneTuple ==
  /\ \A m : /\ Append(<<>>, m) = <<m>> /\ Tail(<<m>>) = <<>> /\ Head(<<m>>) = m
            /\ <<m>> # <<>>
  /\ \A type, s : ~ Has(<<>>, type, s)
  /\ \A m, type, s : Has(<<m>>, type, s) <=> m.type = type /\ m.slot = s
BY DEF Has

\* SlotsAccounted, by name: where a slot of this worker may be.
Accounted(s) == s \in InEngine \/ job.slot = s \/ Coming(s)
LEMMA AccountedFor == SlotsAccounted <=> \A s \in Slots : owner[s] = "me" => Accounted(s)
BY DEF SlotsAccounted, Accounted, InEngine, Coming, Has

\* The same of the next state.
LEMMA AccountedForPrimed ==
  SlotsAccounted' <=> \A s \in Slots : owner'[s] = "me" => Accounted(s)'
BY DEF SlotsAccounted, Accounted, InEngine, Coming, Has

\* A step that loses no slot and says nothing on the connection.
LEMMA QuietSlots ==
  ASSUME SlotsInv, InEngine \subseteq InEngine', UNCHANGED <<job, sent, replies>>,
         \A s \in Slots : owner'[s] = "me" => owner[s] = "me",
         \/ pc' = pc
         \/ {pc, pc'} \intersect {"claim", "release", "ack"} = {}
  PROVE  SlotsInv'
<1>1. OneMessage' /\ JobSlot'
  BY DEF SlotsInv, OneMessage, JobSlot
<1>2. \A s \in Slots : Accounted(s) => Accounted(s)'
  BY DEF Accounted, Coming
<1>3. QED
  BY <1>1, <1>2, AccountedFor, AccountedForPrimed DEF SlotsInv

\* A step that sends the release of the slot it drops.
LEMMA SentSlots ==
  ASSUME SlotsInv, NEW s \in Slots, NEW kind, SendRelease(s, kind),
         UNCHANGED <<owner, replies>>, InEngine \ {s} \subseteq InEngine',
         pc \notin {"claim", "release"}, job.slot \in {-1, s}
  PROVE  SlotsInv'
<1>1. sent' = <<ReleaseMessage(s)>> /\ replies' = <<>> /\ pc' = "release" /\ job'.slot = s
  BY OneTuple DEF SlotsInv, OneMessage, SendRelease, ReleaseMessage
<1>2. OneMessage' /\ JobSlot'
  BY <1>1 DEF OneMessage, JobSlot, ReleaseMessage
<1>3. -1 \notin Slots
  BY DEF Slots
<1>4. ASSUME NEW e \in Slots, owner[e] = "me"
      PROVE  Accounted(e)'
  <2>1. Accounted(e) /\ ~ Coming(e)
    BY <1>4, AccountedFor, OneTuple DEF SlotsInv, OneMessage, Coming
  <2>2. QED
    BY <1>1, <1>3, <2>1 DEF Accounted
<1>5. QED
  BY <1>2, <1>4, AccountedForPrimed DEF SlotsInv

\* Accepting takes a slot from the reply to its claim.
LEMMA AcceptSlots ==
  ASSUME "late" \notin Faults, "accept" \notin Faults, IInv, SlotsInv, Accepting
  PROVE  SlotsInv'
<1> USE DEF handlers, thread, slots, kv
<1>1. CASE Prune \/ Accepted
  <2>1. /\ UNCHANGED <<active, pending, job, sent, replies, owner>>
        /\ {pc, pc'} \intersect {"claim", "release", "ack"} = {}
    BY <1>1 DEF Prune, Accepted, wire
  <2>2. QED
    BY <2>1, QuietSlots DEF InEngine
<1>2. CASE AskSlot
  <2>1. /\ UNCHANGED <<active, pending, replies, owner>>
        /\ pc = "accept" /\ pc' = "claim"
        /\ sent' = Append(sent, ClaimMessage) /\ job'.slot = -1
    BY <1>2 DEF AskSlot, ClaimMessage, NoJob
  <2>2. sent' = <<ClaimMessage>> /\ replies' = <<>> /\ job.slot = -1
    BY <2>1, OneTuple DEF SlotsInv, OneMessage, JobSlot
  <2>3. OneMessage' /\ JobSlot'
    BY <2>1, <2>2 DEF OneMessage, JobSlot
  <2>4. \A s \in Slots : Accounted(s) => Accounted(s)'
    BY <2>1, <2>2 DEF Accounted, InEngine, Coming
  <2>5. QED
    BY <2>1, <2>3, <2>4, AccountedFor, AccountedForPrimed DEF SlotsInv
<1>3. CASE Claimed \/ ClaimFails
  <2>1. pc = "claim" /\ replies # <<>> /\ replies' = Tail(replies)
    BY <1>3 DEF Claimed, ClaimFails
  <2>2. PICK m : sent = <<>> /\ replies = <<m>>
    BY <2>1 DEF SlotsInv, OneMessage
  <2>3. /\ sent' = <<>> /\ replies' = <<>> /\ pc' = "accept" /\ job'.slot = -1
        /\ owner' = owner /\ job.slot = -1
    <3>1. pc' = "accept" /\ job' = NoJob /\ UNCHANGED <<sent, owner>>
      BY <1>3 DEF Claimed, ClaimFails
    <3>2. NoJob.slot = -1
      BY DEF NoJob
    <3>3. job.slot = -1 /\ Tail(<<m>>) = <<>>
      BY <2>1, OneTuple DEF SlotsInv, JobSlot
    <3>4. QED
      BY <2>1, <2>2, <3>1, <3>2, <3>3
  <2>4. OneMessage' /\ JobSlot'
    BY <2>3 DEF OneMessage, JobSlot
  <2>5. /\ InEngine \subseteq InEngine'
        /\ m.type = "claimed" => m.slot \in InEngine'
    <3>1. CASE Claimed
      <4>1. pending' = Append(pending, m.slot) /\ active' = active
        BY <2>2, <3>1, OneTuple DEF Claimed
      <4>2. m.slot \in Slots
        BY <2>2, <3>1, ClaimedFresh, OneTuple DEF Claimed, IInv, SlotsApart
      <4>3. QED
        BY <4>1, <4>2, AppendElements DEF InEngine, IInv, TypeOK
    <3>2. CASE ClaimFails
      <4>1. m.type # "claimed"
        BY <2>2, <3>2, OneTuple DEF ClaimFails
      <4>2. UNCHANGED <<active, pending>>
        BY <3>2 DEF ClaimFails
      <4>3. QED
        BY <4>1, <4>2 DEF InEngine
    <3>3. QED
      BY <1>3, <3>1, <3>2
  <2>6. \A s \in Slots : Accounted(s) => Accounted(s)'
    BY <2>2, <2>3, <2>5, OneTuple DEF Accounted, Coming, Slots
  <2>7. QED
    BY <2>3, <2>4, <2>6, AccountedFor, AccountedForPrimed DEF SlotsInv
<1>4. QED
  BY <1>1, <1>2, <1>3 DEF Accepting

\* Activating releases the slot it drops.
LEMMA ActivateSlots ==
  ASSUME IInv, SlotsInv, Activating
  PROVE  SlotsInv'
<1> USE DEF handlers, thread, slots, kv
<1>1. CASE ActivationTimeout
  <2>1. PICK s \in Elements(pending) :
          pending' = Without(pending, s) /\ SendRelease(s, "unjoined")
    BY <1>1 DEF ActivationTimeout
  <2>2. Elements(pending') = Elements(pending) \ {s} /\ s \in Slots
    BY <2>1, WithoutElements, RunningSlots DEF IInv, TypeOK, Lists
  <2>3. UNCHANGED <<active, owner, replies>> /\ pc = "activate"
    BY <1>1 DEF ActivationTimeout
  <2>4. InEngine \ {s} \subseteq InEngine' /\ job.slot = -1
    BY <2>2, <2>3 DEF InEngine, SlotsInv, JobSlot
  <2>5. QED
    BY <2>1, <2>2, <2>3, <2>4, SentSlots
<1>2. CASE SignalJoins \/ Moved
  <2>1. /\ UNCHANGED <<active, pending, job, sent, replies, owner>>
        /\ {pc, pc'} \intersect {"claim", "release", "ack"} = {}
    BY <1>2 DEF SignalJoins, Moved, wire
  <2>2. QED
    BY <2>1, QuietSlots DEF InEngine
<1>3. ASSUME NEW s \in Slots, Move(s)
      PROVE  SlotsInv'
  <2>1. /\ Elements(pending') = Elements(pending) \ {s}
        /\ Elements(active') = Elements(active) \union {s}
    BY <1>3, WithoutElements, AppendElements DEF Move, IInv, TypeOK, Lists
  <2>2. UNCHANGED <<job, sent, replies, owner, pc>>
    BY <1>3 DEF Move, wire
  <2>3. InEngine \subseteq InEngine'
    BY <2>1 DEF InEngine
  <2>4. QED
    BY <2>2, <2>3, QuietSlots
<1>4. QED
  BY <1>1, <1>2, <1>3 DEF Activating

\* So does a teardown.
LEMMA TeardownSlots ==
  ASSUME IInv, SlotsInv, NEW s \in Elements(active), NEW kind, Teardown(s, kind),
         UNCHANGED <<owner, replies, pending>>, pc \in {"token", "ensure", "fail"}
  PROVE  SlotsInv'
<1>1. Elements(active') = Elements(active) \ {s} /\ s \in Slots
  BY WithoutElements, RunningSlots DEF Teardown, IInv, TypeOK, Lists
<1>2. InEngine \ {s} \subseteq InEngine' /\ job.slot = -1
  BY <1>1 DEF InEngine, SlotsInv, JobSlot
<1>3. QED
  BY <1>1, <1>2, SentSlots DEF Teardown

\* And a token.
LEMMA GenerateSlots ==
  ASSUME IInv, SlotsInv, Generating
  PROVE  SlotsInv'
<1> USE DEF handlers, thread, slots, kv, wire
<1>1. CASE AbortEvicted
  <2>1. PICK s \in Elements(active) : Teardown(s, "evicted")
    BY <1>1 DEF AbortEvicted
  <2>2. QED
    BY <1>1, <2>1, TeardownSlots DEF AbortEvicted
<1>2. CASE Exhausted
  <2>1. PICK s \in Elements(active) : Teardown(s, "exhausted")
    BY <1>2, RunningSlots DEF Exhausted, IInv, Lists
  <2>2. QED
    BY <1>2, <2>1, TeardownSlots DEF Exhausted
<1>3. CASE \/ NothingActive \/ BeginToken \/ Ensure \/ RunOps \/ EndToken
           \/ SecondSlotRaises \/ TokenRaises
  <2>1. /\ UNCHANGED <<active, pending, job, sent, replies, owner>>
        /\ {pc, pc'} \intersect {"claim", "release", "ack"} = {}
    BY <1>3 DEF NothingActive, BeginToken, Ensure, RunOps, EndToken, SecondSlotRaises,
       TokenRaises
  <2>2. QED
    BY <2>1, QuietSlots DEF InEngine
<1>4. QED
  BY <1>1, <1>2, <1>3 DEF Generating, Preparing

\* A completed slot runs until it was released.
LEMMA CompleteSlots ==
  ASSUME IInv, SlotsInv, Completing
  PROVE  SlotsInv'
<1> USE DEF handlers, slots, kv, wire
<1>1. CASE Completed
  <2>1. /\ UNCHANGED <<active, pending, job, sent, replies, owner>>
        /\ {pc, pc'} \intersect {"claim", "release", "ack"} = {}
    BY <1>1 DEF Completed
  <2>2. QED
    BY <2>1, QuietSlots DEF InEngine
<1>2. CASE Complete
  <2>1. PICK s \in Elements(active) : job'.slot = s
    BY <1>2 DEF Complete
  <2>2. /\ UNCHANGED <<active, pending, sent, replies, owner>>
        /\ pc = "complete" /\ pc' = "ack"
    BY <1>2 DEF Complete
  <2>3. s \in Slots /\ job.slot = -1
    BY <2>2, RunningSlots DEF IInv, SlotsInv, JobSlot
  <2>4. OneMessage' /\ JobSlot'
    BY <2>1, <2>2, <2>3 DEF SlotsInv, OneMessage, JobSlot
  <2>5. \A e \in Slots : Accounted(e) => Accounted(e)'
    BY <2>2, <2>3 DEF Accounted, InEngine, Coming, Slots
  <2>6. QED
    BY <2>2, <2>4, <2>5, AccountedFor, AccountedForPrimed DEF SlotsInv
<1>3. CASE LeaveAcked
  <2>1. /\ UNCHANGED <<active, pending, replies, owner>> /\ pc = "ack"
        /\ SendRelease(job.slot, "complete")
    BY <1>3 DEF LeaveAcked
  <2>2. PICK s \in Slots : s = job.slot
    BY <2>1 DEF SlotsInv, JobSlot
  <2>3. InEngine \ {s} \subseteq InEngine'
    BY <2>1 DEF InEngine
  <2>4. QED
    BY <2>1, <2>2, <2>3, SentSlots
<1>4. QED
  BY <1>1, <1>2, <1>3 DEF Completing

\* The engine's handler finds every handle open, and releases what it fails.
LEMMA FailSlots ==
  ASSUME IInv, FailsOpen, SlotsInv, Failing
  PROVE  SlotsInv'
<1> USE DEF handlers, slots, kv, wire
<1>1. CASE FailActive
  <2>1. PICK s \in Elements(active) : s = Head(active)
    BY <1>1, RunningSlots DEF FailActive, IInv
  <2>2. s \in opened /\ pc = "fail"
    BY <1>1, <2>1 DEF FailsOpen, FailActive
  <2>3. Teardown(s, "fail") /\ UNCHANGED <<owner, replies, pending>>
    BY <1>1, <2>1, <2>2 DEF FailActive
  <2>4. QED
    BY <2>2, <2>3, TeardownSlots
<1>2. CASE FailPending
  <2>1. PICK s \in Elements(pending) : s = Head(pending) /\ SendRelease(s, "fail")
    BY <1>2, RunningSlots DEF FailPending, IInv
  <2>2. /\ UNCHANGED <<active, owner, replies>> /\ pending # <<>>
        /\ pending' = Tail(pending) /\ pc = "fail"
    BY <1>2 DEF FailPending
  <2>3. Elements(pending') = Elements(pending) \ {s} /\ s \in Slots
    BY <2>1, <2>2, TailElements, RunningSlots DEF IInv, TypeOK, Lists
  <2>4. InEngine \ {s} \subseteq InEngine' /\ job.slot = -1
    BY <2>2, <2>3 DEF InEngine, SlotsInv, JobSlot
  <2>5. QED
    BY <2>1, <2>2, <2>3, <2>4, SentSlots
<1>3. CASE Failed
  <2>1. /\ UNCHANGED <<active, pending, job, sent, replies, owner>>
        /\ {pc, pc'} \intersect {"claim", "release", "ack"} = {}
    BY <1>3 DEF Failed
  <2>2. QED
    BY <2>1, QuietSlots DEF InEngine
<1>4. QED
  BY <1>1, <1>2, <1>3 DEF Failing

\* The reply to a release comes when the slot is not the worker's any more.
LEMMA ReleaseSlots ==
  ASSUME "late" \notin Faults, IInv, SlotsInv, Releasing
  PROVE  SlotsInv'
<1> USE DEF handlers, slots, kv
<1>1. /\ ReleaseReply /\ pc = "release" /\ replies # <<>> /\ replies' = Tail(replies)
      /\ Released /\ job'.slot = -1 /\ UNCHANGED <<owner, sent, pending>>
  BY DEF Releasing, ReleaseReply, ReleaseTimeout, NoJob
<1>2. PICK m : /\ sent = <<>> /\ owner[job.slot] # "me"
               /\ replies = <<m>> /\ m.type # "claimed"
  BY <1>1 DEF SlotsInv, OneMessage
<1>3. sent' = <<>> /\ replies' = <<>> /\ job.slot \in Slots
  BY <1>1, <1>2, OneTuple DEF SlotsInv, JobSlot
<1>4. pc' \in {"complete", "token", "ensure", "activate", "fail"}
  BY <1>1, AfterPlaces DEF Released, IInv, TypeOK, Job
<1>5. OneMessage' /\ JobSlot'
  BY <1>1, <1>3, <1>4 DEF OneMessage, JobSlot
<1>6. InEngine \ {job.slot} \subseteq InEngine'
  <2>1. active' = active \/ active' = Without(active, job.slot)
    BY <1>1 DEF Released
  <2>2. Elements(Without(active, job.slot)) = Elements(active) \ {job.slot}
    BY WithoutElements DEF IInv, TypeOK, Lists
  <2>3. Elements(active) \ {job.slot} \subseteq Elements(active')
    BY <2>1, <2>2
  <2>4. QED
    BY <1>1, <2>3 DEF InEngine
<1>7. ASSUME NEW s \in Slots, owner[s] = "me"
      PROVE  Accounted(s)'
  <2>1. Accounted(s) /\ s # job.slot /\ ~ Coming(s)
    BY <1>2, <1>7, AccountedFor, OneTuple DEF SlotsInv, Coming
  <2>2. QED
    BY <1>6, <2>1 DEF Accounted
<1>8. QED
  BY <1>1, <1>5, <1>7, AccountedForPrimed DEF SlotsInv

\* The aggregator answers what the engine waits for.
LEMMA OutsideSlots ==
  ASSUME IInv, SlotsInv, Outside
  PROVE  SlotsInv'
<1> USE DEF handlers, thread, slots, kv, wire
<1>1. UNCHANGED <<active, pending, job, pc>> /\ InEngine' = InEngine
  BY OutsideQuiet DEF InEngine
<1>2. CASE HandleClaim
  <2>1. /\ pc = "claim" /\ sent = <<ClaimMessage>> /\ replies = <<>>
        /\ job.slot = -1
    BY <1>2, OneTuple DEF HandleClaim, SlotsInv, OneMessage, ReleaseMessage, JobSlot
  <2>2. sent' = <<>>
    BY <1>2, <2>1, OneTuple DEF HandleClaim
  <2>3. CASE FreeSlots = {}
    <3>1. PICK m : replies' = <<m>> /\ owner' = owner
      BY <1>2, <2>1, <2>3, OneTuple DEF HandleClaim
    <3>2. OneMessage' /\ JobSlot'
      BY <1>1, <2>1, <2>2, <3>1 DEF OneMessage, JobSlot
    <3>3. \A s \in Slots : Accounted(s) => Accounted(s)'
      BY <1>1, <2>1, OneTuple DEF Accounted, Coming
    <3>4. QED
      BY <3>1, <3>2, <3>3, AccountedFor, AccountedForPrimed DEF SlotsInv
  <2>4. CASE FreeSlots # {}
    <3>1. PICK s \in Slots : s = Lowest(FreeSlots)
      BY <2>4, LowestSlot DEF FreeSlots
    <3>2. /\ owner' = [owner EXCEPT ![s] = "me"]
          /\ replies' = <<[type |-> "claimed", slot |-> s]>>
      BY <1>2, <2>1, <2>4, <3>1, OneTuple DEF HandleClaim
    <3>3. OneMessage' /\ JobSlot'
      BY <1>1, <2>1, <2>2, <3>2 DEF OneMessage, JobSlot
    <3>4. Coming(s)'
      BY <3>2, OneTuple DEF Coming
    <3>5. ASSUME NEW e \in Slots, owner'[e] = "me"
          PROVE  Accounted(e)'
      <4>1. CASE e = s
        BY <3>4, <4>1 DEF Accounted
      <4>2. CASE e # s
        <5>1. Accounted(e) /\ ~ Coming(e)
          BY <2>1, <3>2, <3>5, <4>2, AccountedFor, OneTuple
             DEF SlotsInv, IInv, TypeOK, Coming
        <5>2. QED
          BY <1>1, <5>1 DEF Accounted
      <4>3. QED
        BY <4>1, <4>2
    <3>6. QED
      BY <3>3, <3>5, AccountedForPrimed DEF SlotsInv
  <2>5. QED
    BY <2>3, <2>4
<1>3. CASE HandleRelease
  <2>1. /\ pc = "release" /\ sent = <<ReleaseMessage(job.slot)>> /\ replies = <<>>
        /\ job.slot \in Slots
    BY <1>3, OneTuple DEF HandleRelease, SlotsInv, OneMessage, ClaimMessage, JobSlot
  <2>2. PICK s \in Slots : s = job.slot
    BY <2>1
  <2>3. Head(sent).slot = s /\ sent' = <<>>
    BY <1>3, <2>1, <2>2, OneTuple DEF HandleRelease, ReleaseMessage
  <2>4. /\ owner'[s] # "me" /\ \A e \in Slots : owner'[e] = "me" => owner[e] = "me"
        /\ \E m : replies' = <<m>> /\ m.type # "claimed"
    <3>1. CASE owner[s] = "me"
      <4>1. /\ owner' = [owner EXCEPT ![s] = "free"]
            /\ replies' = <<[type |-> "released", slot |-> s]>>
        BY <1>3, <2>1, <2>3, <3>1, OneTuple DEF HandleRelease
      <4>2. QED
        BY <4>1 DEF IInv, TypeOK
    <3>2. CASE owner[s] # "me"
      <4>1. /\ owner' = owner
            /\ replies' = <<[type |-> "error", slot |-> s]>>
        BY <1>3, <2>1, <2>3, <3>2, OneTuple DEF HandleRelease
      <4>2. QED
        BY <3>2, <4>1
    <3>3. QED
      BY <3>1, <3>2
  <2>5. OneMessage' /\ JobSlot'
    BY <1>1, <2>1, <2>2, <2>3, <2>4 DEF OneMessage, JobSlot
  <2>6. \A e \in Slots : Accounted(e) => Accounted(e)'
    BY <1>1, <2>1, OneTuple DEF Accounted, Coming
  <2>7. QED
    BY <2>4, <2>5, <2>6, AccountedFor, AccountedForPrimed DEF SlotsInv
<1>4. CASE UNCHANGED <<sent, replies, owner>>
  BY <1>1, <1>4, QuietSlots
<1>5. CASE OtherClaims
  <2>1. PICK s \in FreeSlots : owner' = [owner EXCEPT ![s] = "other"]
    BY <1>5, LowestSlot DEF OtherClaims, FreeSlots
  <2>2. \A e \in Slots : owner'[e] = "me" => owner[e] = "me"
    BY <2>1 DEF IInv, TypeOK
  <2>3. UNCHANGED <<sent, replies>>
    BY <1>5 DEF OtherClaims
  <2>4. QED
    BY <1>1, <2>2, <2>3, QuietSlots
<1>6. ASSUME NEW s \in Slots, OtherReleases(s)
      PROVE  SlotsInv'
  <2>1. \A e \in Slots : owner'[e] = "me" => owner[e] = "me"
    BY <1>6 DEF OtherReleases, IInv, TypeOK
  <2>2. UNCHANGED <<sent, replies>>
    BY <1>6 DEF OtherReleases
  <2>3. QED
    BY <1>1, <2>1, <2>2, QuietSlots
<1>7. CASE Boundary \/ JoinsOnly \/ \E s \in Slots : Evict(s)
  BY <1>4, <1>7 DEF Boundary, JoinsOnly, Evict
<1>8. CASE \E r \in Requests : Submit(r) \/ Refuse(r) \/ BadBody(r) \/ Respond(r)
  BY <1>4, <1>8 DEF Submit, Refuse, BadBody, Respond
<1>9. QED
  BY <1>2, <1>3, <1>5, <1>6, <1>7, <1>8 DEF Outside, Connection

\* Every step keeps every slot of this worker accounted for.
LEMMA SlotsStep ==
  ASSUME "late" \notin Faults, "accept" \notin Faults, IInv, FailsOpen, SlotsInv,
         [Next]_vars
  PROVE  SlotsInv'
<1>1. CASE UNCHANGED vars
  <2>1. /\ UNCHANGED <<active, pending, job, pc, sent, replies, owner>>
        /\ InEngine' = InEngine
    BY <1>1 DEF vars, thread, slots, wire, InEngine
  <2>2. QED
    BY <2>1, QuietSlots
<1>2. CASE Next
  BY <1>2, OutsideSlots, AcceptSlots, ActivateSlots, GenerateSlots, CompleteSlots,
     FailSlots, ReleaseSlots DEF Next, Outside
<1>3. QED
  BY <1>1, <1>2

\* No way a request ends loses a slot of the pool (claim_slot, release_slot): what the
\* aggregator has recorded for the worker the engine has, or has just been told of. A
\* reply that is late leaves one behind, and so does a claim whose request then fails
\* to be tokenised.
THEOREM NoSlotLost ==
  Faults \intersect {"late", "accept"} = {} => (Spec => []SlotsAccounted)
<1> SUFFICES ASSUME Faults \intersect {"late", "accept"} = {}
             PROVE  Spec => []SlotsAccounted
  OBVIOUS
<1>1. "late" \notin Faults /\ "accept" \notin Faults
  OBVIOUS
<1>2. Init => IInv /\ FailsOpen /\ SlotsInv
  <2>1. Init => IInv
    BY InitIInv
  <2>2. Init => FailsOpen /\ SlotsInv
    BY DEF Init, FailsOpen, SlotsInv, OneMessage, JobSlot, SlotsAccounted, NoJob
  <2>3. QED
    BY <2>1, <2>2
<1>3. IInv /\ FailsOpen /\ SlotsInv /\ [Next]_vars => (IInv /\ FailsOpen /\ SlotsInv)'
  BY <1>1, StepIInv, FailsOpenStep, SlotsStep
<1>4. IInv /\ FailsOpen /\ SlotsInv => SlotsAccounted
  BY DEF SlotsInv
<1>5. QED
  BY <1>2, <1>3, <1>4, PTL DEF Spec
=============================================================================
