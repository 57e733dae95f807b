---------------------------- MODULE WorkerEngine ----------------------------
(***************************************************************************)
(* One worker process (worker_sync.py): its /inference handlers with their *)
(* semaphore, the request queue, the single engine thread, the paged KV    *)
(* cache (paged_attention.py), and the slot RPC over one TCP connection    *)
(* (slot_client.py) to the aggregator's connection thread (aggregator.py). *)
(*                                                                         *)
(* SlotBarrier has the barrier op by op and one request per engine; here a *)
(* token is one pass of the barrier, and several requests may be in the    *)
(* engine at once, which is what the code around it has to cope with.      *)
(***************************************************************************)
EXTENDS Integers, Sequences, FiniteSets

CONSTANTS
  Requests,    \* POST /inference calls that reach this worker
  Permits,     \* MAX_SLOTS of the worker: the handlers' semaphore
  NumSlots,    \* slots of the aggregator's pool, shared with other workers
  Blocks,      \* KV blocks
  BlockSize,   \* tokens of a block
  Chunk,       \* PREFILL_CHUNK_SIZE
  MaxSeq,      \* MAX_SEQ_LEN
  Prompts,     \* prompt lengths, in tokens, before truncation
  Limits,      \* max_tokens a request may ask for, clamped by the handler
  NoRequest,
  Faults       \* what may happen in this instance, a subset of FaultKinds

\* "raise":    the engine may throw in the middle of a token
\* "evict":    the aggregator may evict a slot of an engine that stalls before a token
\* "midtoken": ... or in the middle of one
\* "between":  a leave and a join may be signalled between the main loop's reads of them
\* "unjoined": a join may not be taken for 30 s
\* "unleft":   a leave may not be taken for 5 s
\* "accept":   tokenising may throw after the slot was claimed
\* "late":     a reply of the aggregator may come after the socket timeout
\* "expire":   a request may run longer than the handler waits
\* "badbody":  a handler may throw while it parses the request
FaultKinds == {"raise", "evict", "midtoken", "between", "unjoined", "unleft", "accept",
               "late", "expire", "badbody"}

Slots == 0 .. NumSlots - 1
BlocksFor(n) == (n + BlockSize - 1) \div BlockSize

\* PagedKVCache.__init__: room for Permits sequences of MaxSeq tokens.
ASSUME EngineConstantsOK ==
  /\ Permits \in Nat \ {0}
  /\ NumSlots \in Nat \ {0}
  /\ BlockSize \in Nat \ {0}
  /\ Chunk \in Nat \ {0}
  /\ MaxSeq \in Nat \ {0, 1}
  /\ IsFiniteSet(Blocks)
  /\ Cardinality(Blocks) = Permits * BlocksFor(MaxSeq)
  /\ Prompts \subseteq Nat \ {0}
  /\ Limits \subseteq 1 .. MaxSeq
  /\ NoRequest \notin Requests
  /\ Faults \subseteq FaultKinds

VARIABLES
  permits, http, future,      \* handlers, and the futures they wait for
  queue,                      \* request_queue
  pc, job, todo,              \* the engine thread; todo: slots without blocks yet
  pending, active,            \* pending_slots and active_slots, in dict order
  state,                      \* SlotState of a slot
  free_blocks, tables, lens,  \* PagedKVCache
  dirty,                      \* blocks with keys and values of some request
  opened,                     \* slots whose IPC handles the worker has open
  sent, replies,              \* the connection, one queue for each direction
  owner,                      \* the pool: "free", "me" or "other"
  joins, leaves, amask, evicted  \* bits of the control block

handlers == <<permits, http, future>>
thread == <<pc, job, todo>>
slots == <<pending, active, state>>
kv == <<free_blocks, tables, lens, dirty>>
wire == <<opened, sent, replies>>
barrier == <<joins, leaves, amask, evicted>>
vars == <<handlers, queue, thread, slots, kv, wire, owner, barrier>>

\* What a release is part of, and the slot that is released.
Kinds == {"none", "complete", "evicted", "exhausted", "unjoined", "fail"}
Job == [kind : Kinds, req : Requests \union {NoRequest},
        slot : Slots \union {-1}]
NoJob == [kind |-> "none", req |-> NoRequest, slot |-> -1]
\* left: prompt tokens that are not in the cache; made: generated_tokens;
\* limit: max_tokens of the request.
SlotState == [req : Requests \union {NoRequest}, joined : BOOLEAN,
              left : 0 .. MaxSeq, made : 0 .. MaxSeq,
              limit : 1 .. MaxSeq, eos : BOOLEAN]
NoState == [req |-> NoRequest, joined |-> FALSE, left |-> 0, made |-> 0,
            limit |-> 1, eos |-> FALSE]
Message == [type : {"claim"}, slot : {-1}] \union [type : {"release"}, slot : Slots]
Reply == [type : {"claimed", "released"}, slot : Slots]
           \union [type : {"error"}, slot : Slots \union {-1}]

Elements(seq) == {seq[i] : i \in 1 .. Len(seq)}

\* dict.pop: the elements of seq but s, in their order.
Without(seq, s) ==
  IF s \notin Elements(seq) THEN seq
  ELSE LET k == CHOOSE i \in 1 .. Len(seq) : seq[i] = s
       IN  SubSeq(seq, 1, k - 1) \o SubSeq(seq, k + 1, Len(seq))

Init ==
  /\ permits = Permits
  /\ http = [r \in Requests |-> "new"]
  /\ future = [r \in Requests |-> "open"]
  /\ queue = <<>>
  /\ pc = "accept" /\ job = NoJob /\ todo = <<>>
  /\ pending = <<>> /\ active = <<>>
  /\ state = [s \in Slots |-> NoState]
  /\ free_blocks = Blocks
  /\ tables = [s \in Slots |-> {}]
  /\ lens = [s \in Slots |-> 0]
  /\ dirty = {}
  /\ opened = {} /\ sent = <<>> /\ replies = <<>>
  /\ owner = [s \in Slots |-> "free"]
  /\ joins = {} /\ leaves = {} /\ amask = {} /\ evicted = {}
----------------------------------------------------------------------------
(* The /inference handlers, one thread each. *)

Submit(r) ==
  /\ http[r] = "new" /\ permits > 0
  /\ permits' = permits - 1
  /\ http' = [http EXCEPT ![r] = "waiting"]
  /\ queue' = Append(queue, r)
  /\ UNCHANGED <<future, thread, slots, kv, wire, owner, barrier>>

Refuse(r) ==
  /\ http[r] = "new" /\ permits = 0
  /\ http' = [http EXCEPT ![r] = "done"]
  /\ UNCHANGED <<permits, future, queue, thread, slots, kv, wire, owner,
                 barrier>>

\* The body is parsed between the acquire and the try that releases.
BadBody(r) ==
  /\ "badbody" \in Faults
  /\ http[r] = "new" /\ permits > 0
  /\ permits' = permits - 1
  /\ http' = [http EXCEPT ![r] = "done"]
  /\ UNCHANGED <<future, queue, thread, slots, kv, wire, owner, barrier>>

\* The future is set, or _INFERENCE_TIMEOUT is over: the engine goes on.
Respond(r) ==
  /\ http[r] = "waiting"
  /\ future[r] = "open" => "expire" \in Faults
  /\ permits' = permits + 1
  /\ http' = [http EXCEPT ![r] = "done"]
  /\ UNCHANGED <<future, queue, thread, slots, kv, wire, owner, barrier>>
----------------------------------------------------------------------------
(* The KV cache. *)

\* ensure_blocks_for_length: the blocks s lacks for n more tokens.
Lacks(s, n) ==
  LET short == BlocksFor(lens[s] + n) - Cardinality(tables[s])
  IN  IF short > 0 THEN short ELSE 0

Allocate(s, B) ==
  /\ tables' = [tables EXCEPT ![s] = @ \union B]
  /\ free_blocks' = free_blocks \ B

\* Mutants of free_slot: the table keeps the blocks; they are not zeroed.
FreeKeepsTable(s) ==
  /\ free_blocks' = free_blocks \union tables[s]
  /\ dirty' = dirty \ tables[s]
  /\ tables' = tables
  /\ lens' = [lens EXCEPT ![s] = 0]
FreeUnzeroed(s) ==
  /\ free_blocks' = free_blocks \union tables[s]
  /\ dirty' = dirty
  /\ tables' = [tables EXCEPT ![s] = {}]
  /\ lens' = [lens EXCEPT ![s] = 0]

free_slot(s) ==
  /\ free_blocks' = free_blocks \union tables[s]
  /\ dirty' = dirty \ tables[s]
  /\ tables' = [tables EXCEPT ![s] = {}]
  /\ lens' = [lens EXCEPT ![s] = 0]
----------------------------------------------------------------------------
(* Accepting requests. *)

SetFuture(r, v) ==
  future' = IF future[r] = "open" THEN [future EXCEPT ![r] = v] ELSE future

\* The deadline would have passed by the first token.
Prune ==
  /\ pc = "accept" /\ queue # <<>>
  /\ queue' = Tail(queue)
  /\ SetFuture(Head(queue), "result")
  /\ UNCHANGED <<permits, http, thread, slots, kv, wire, owner, barrier>>

AskSlot ==
  /\ pc = "accept" /\ queue # <<>>
  /\ queue' = Tail(queue)
  /\ sent' = Append(sent, [type |-> "claim", slot |-> -1])
  /\ job' = [NoJob EXCEPT !.req = Head(queue)]
  /\ pc' = "claim"
  /\ UNCHANGED <<handlers, todo, slots, kv, opened, replies, owner, barrier>>

\* Truncation keeps room for one token; max_tokens is cut to what is left.
NotTruncated(n) == n  \* mutant of Truncated
Truncated(n) == IF n >= MaxSeq THEN MaxSeq - 1 ELSE n
Uncapped(m, n) == m  \* mutant of Capped
Capped(m, n) == IF m > MaxSeq - n THEN MaxSeq - n ELSE m

\* Mutant: slot_id is read from whatever reply comes.
ClaimedAny ==
  /\ pc = "claim" /\ replies # <<>> /\ Head(replies).slot # -1
  /\ replies' = Tail(replies)
  /\ \E p \in Prompts, m \in Limits :
       LET s == Head(replies).slot
           n == Truncated(p)
       IN  /\ lens' = [lens EXCEPT ![s] = 0]
           /\ state' = [state EXCEPT ![s] =
                [NoState EXCEPT !.req = job.req, !.left = n, !.limit = Capped(m, n)]]
           /\ pending' = Append(pending, s)
           /\ opened' = opened \union {s}
  /\ pc' = "accept" /\ job' = NoJob
  /\ UNCHANGED <<permits, http, future, queue, todo, active, free_blocks, tables,
                 dirty, sent, owner, barrier>>

\* claim_slot got a slot: the request is pending, with a prompt of n tokens.
Claimed ==
  /\ pc = "claim" /\ replies # <<>> /\ Head(replies).type = "claimed"
  /\ replies' = Tail(replies)
  /\ \E p \in Prompts, m \in Limits :
       LET s == Head(replies).slot
           n == Truncated(p)
       IN  /\ lens' = [lens EXCEPT ![s] = 0]
           /\ state' = [state EXCEPT ![s] =
                [NoState EXCEPT !.req = job.req, !.left = n, !.limit = Capped(m, n)]]
           /\ pending' = Append(pending, s)
           /\ opened' = opened \union {s}
  /\ pc' = "accept" /\ job' = NoJob
  /\ UNCHANGED <<permits, http, future, queue, todo, active, free_blocks, tables,
                 dirty, sent, owner, barrier>>

\* It raised: no slot is free, the reply is the one to an earlier release (it
\* has no handles), no reply came within 30 s, or tokenising failed, which leaves
\* the slot claimed and its handles open.
ClaimFails ==
  /\ pc = "claim"
  /\ \/ /\ replies # <<>> /\ Head(replies).type # "claimed"
        /\ replies' = Tail(replies) /\ UNCHANGED opened
     \/ /\ "accept" \in Faults
        /\ replies # <<>> /\ Head(replies).type = "claimed"
        /\ replies' = Tail(replies)
        /\ opened' = opened \union {Head(replies).slot}
     \/ replies = <<>> /\ "late" \in Faults /\ UNCHANGED <<replies, opened>>
  /\ SetFuture(job.req, "error")
  /\ pc' = "accept" /\ job' = NoJob
  /\ UNCHANGED <<permits, http, queue, todo, slots, kv, sent, owner, barrier>>

\* The queue is drained; slots are waiting or running.
Accepted ==
  /\ pc = "accept" /\ queue = <<>>
  /\ pending # <<>> \/ active # <<>>
  /\ pc' = IF pending # <<>> THEN "activate" ELSE "token"
  /\ UNCHANGED <<handlers, queue, job, todo, slots, kv, wire, owner, barrier>>

\* _try_activate_pending_slots: signal join once, then move what is active.
SignalJoins ==
  /\ pc = "activate"
  /\ joins' = joins \union {s \in Elements(pending) : ~state[s].joined}
  /\ state' = [s \in Slots |-> IF s \in Elements(pending)
                               THEN [state[s] EXCEPT !.joined = TRUE] ELSE state[s]]
  /\ pc' = "move"
  /\ UNCHANGED <<handlers, queue, job, todo, pending, active, kv, wire, owner,
                 leaves, amask, evicted>>

\* Any of them first: the pool moves in the order of pending, which only decides
\* who is at the head of active.
Move(s) ==
  /\ pc = "move"
  /\ s \in Elements(pending) \intersect amask
  /\ pending' = Without(pending, s)
  /\ active' = Append(active, s)
  /\ UNCHANGED <<handlers, queue, thread, state, kv, wire, owner, barrier>>

Moved ==
  /\ pc = "move"
  /\ Elements(pending) \intersect amask = {}
  /\ pc' = IF active # <<>> THEN "token" ELSE "accept"
  /\ UNCHANGED <<handlers, queue, job, todo, slots, kv, wire, owner, barrier>>
----------------------------------------------------------------------------
(* Leaving a slot: every path ends in the release RPC, in the same thread. *)

\* Close the handles of s and send its release, for the sake of kind.
SendRelease(s, kind) ==
  /\ opened' = opened \ {s}
  /\ sent' = Append(sent, [type |-> "release", slot |-> s])
  /\ job' = [kind |-> kind, req |-> state[s].req, slot |-> s]
  /\ pc' = "release"

SignalLeave(s) == leaves' = leaves \union {s}

\* ... 30 s after the join, which was not taken or was followed by an eviction:
\* leave, release, then fail the request.
ActivationTimeout ==
  /\ pc = "activate"
  /\ \E s \in Elements(pending) :
       /\ state[s].joined /\ s \notin amask
       /\ s \in joins => "unjoined" \in Faults
       /\ pending' = Without(pending, s)
       /\ SignalLeave(s)
       /\ SendRelease(s, "unjoined")
  /\ UNCHANGED <<handlers, queue, todo, active, state, kv, replies, owner, joins,
                 amask, evicted>>

\* Mutants of Teardown: the blocks are kept; the slot is not released.
TeardownKeepsBlocks(s, kind) ==
  /\ active' = Without(active, s)
  /\ UNCHANGED kv
  /\ SignalLeave(s)
  /\ SendRelease(s, kind)
TeardownUnreleased(s, kind) ==
  /\ active' = Without(active, s)
  /\ free_slot(s)
  /\ SignalLeave(s)
  /\ UNCHANGED <<opened, sent>> /\ job' = NoJob /\ pc' = "token"

\* _teardown_slot, up to the reply: the slot has left the active ones.
Teardown(s, kind) ==
  /\ active' = Without(active, s)
  /\ free_slot(s)
  /\ SignalLeave(s)
  /\ SendRelease(s, kind)

\* The first step of a token: an evicted slot is torn down.
AbortEvicted ==
  /\ pc = "token"
  /\ \E s \in Elements(active) \intersect evicted :
       /\ evicted' = evicted \ {s}
       /\ Teardown(s, "evicted")
  /\ UNCHANGED <<handlers, queue, todo, pending, state, replies, owner, joins,
                 amask>>

\* Nothing is left to run: back to the queue, where the engine idles.
NothingActive ==
  /\ pc \in {"token", "ensure"} /\ active = <<>>
  /\ pc' = "accept" /\ todo' = <<>>
  /\ UNCHANGED <<handlers, queue, job, slots, kv, wire, owner, barrier>>

BeginToken ==
  /\ pc = "token" /\ active # <<>>
  /\ Elements(active) \intersect evicted = {}
  /\ todo' = active
  /\ pc' = "ensure"
  /\ UNCHANGED <<handlers, queue, job, slots, kv, wire, owner, barrier>>

\* Tokens that go into the cache in this pass: a chunk, or the last token.
InputLen(s) ==
  IF state[s].left = 0 THEN 1
  ELSE IF state[s].left > Chunk THEN Chunk ELSE state[s].left

\* Blocks are popped from the free list; which ones does not matter.
Ensure ==
  /\ pc = "ensure" /\ todo # <<>>
  /\ \E B \in SUBSET free_blocks :
       /\ Cardinality(B) = Lacks(Head(todo), InputLen(Head(todo)))
       /\ Allocate(Head(todo), B)
  /\ todo' = Tail(todo)
  /\ UNCHANGED <<handlers, queue, pc, job, slots, lens, dirty, wire, owner,
                 barrier>>

\* allocate_blocks raises: only this request fails.
Exhausted ==
  /\ pc = "ensure" /\ todo # <<>>
  /\ Lacks(Head(todo), InputLen(Head(todo))) > Cardinality(free_blocks)
  /\ todo' = Tail(todo)
  /\ Teardown(Head(todo), "exhausted")
  /\ UNCHANGED <<handlers, queue, pending, state, replies, owner, joins, amask,
                 evicted>>

\* The ops of the token start; attention writes keys and values.
RunOps ==
  /\ pc = "ensure" /\ todo = <<>> /\ active # <<>>
  /\ dirty' = dirty \union tables[Head(active)]
  /\ pc' = "ops"
  /\ UNCHANGED <<handlers, queue, job, todo, slots, free_blocks, tables, lens,
                 wire, owner, barrier>>

Done(s) == state[s].eos \/ state[s].made >= state[s].limit

\* advance_seq_lens_by.
Advance(s) == lens' = [lens EXCEPT ![s] = @ + InputLen(s)]

\* lm_head_get_all: the token of an intermediate chunk is discarded.
Sampled(s, eos) ==
  LET rest == state[s].left - InputLen(s) IN
  IF rest > 0 THEN [state[s] EXCEPT !.left = rest]
  ELSE [state[s] EXCEPT !.left = 0, !.made = @ + 1, !.eos = eos]

\* The token is complete. The tight loop goes on until a request is done or
\* something new has arrived. An engine whose slot is not in the barrier any more
\* gets here only if other workers' tokens move the epoch; else it waits for ever.
EndToken ==
  LET s == Head(active) IN
  /\ pc = "ops" /\ Len(active) = 1
  /\ Advance(s)
  /\ \E eos \in BOOLEAN : state' = [state EXCEPT ![s] = Sampled(s, eos)]
  /\ pc' = IF \/ state'[s].eos \/ state'[s].made >= state'[s].limit
              \/ queue # <<>> \/ pending # <<>>
           THEN "complete" ELSE "token"
  /\ UNCHANGED <<handlers, queue, job, todo, pending, active, free_blocks,
                 tables, dirty, wire, owner, barrier>>

\* The helpers serve the first slot only. The barrier waits for the others
\* until it evicts them; qkv_get_all then has no output of theirs.
SecondSlotRaises ==
  /\ pc = "ops" /\ Len(active) > 1
  /\ Elements(Tail(active)) \intersect amask = {}
  /\ pc' = "fail"
  /\ UNCHANGED <<handlers, queue, job, todo, slots, kv, wire, owner, barrier>>

TokenRaises ==
  /\ "raise" \in Faults
  /\ pc = "ops"
  /\ pc' = "fail"
  /\ UNCHANGED <<handlers, queue, job, todo, slots, kv, wire, owner, barrier>>

\* _handle_completions, a request that is done: free, leave, wait for the ack.
Complete ==
  /\ pc = "complete"
  /\ \E s \in Elements(active) :
       /\ Done(s)
       /\ free_slot(s)
       /\ SignalLeave(s)
       /\ job' = [kind |-> "complete", req |-> state[s].req, slot |-> s]
  /\ pc' = "ack"
  /\ UNCHANGED <<handlers, queue, todo, slots, wire, owner, joins, amask,
                 evicted>>

Completed ==
  /\ pc = "complete"
  /\ \A s \in Elements(active) : ~Done(s)
  /\ pc' = "accept"
  /\ UNCHANGED <<handlers, queue, job, todo, slots, kv, wire, owner, barrier>>

\* The slot is not active any more, or 5 s are over: the leave is not taken, or
\* it was taken together with the leave of an earlier tenant and a join.
LeaveAcked ==
  /\ pc = "ack"
  /\ job.slot \in amask \intersect leaves => "unleft" \in Faults
  /\ SendRelease(job.slot, "complete")
  /\ UNCHANGED <<handlers, queue, todo, slots, kv, replies, owner, barrier>>

\* _fail_all_active_slots, an active slot: free, leave, release. If its release
\* is what failed, its handles are closed, and closing them again raises before
\* anything is sent.
FailActive ==
  LET s == Head(active) IN
  /\ pc = "fail" /\ active # <<>>
  /\ SetFuture(state[s].req, "error")
  /\ IF s \in opened THEN Teardown(s, "fail")
     ELSE /\ active' = Without(active, s)
          /\ free_slot(s)
          /\ SignalLeave(s)
          /\ UNCHANGED <<pc, job, opened, sent>>
  /\ UNCHANGED <<permits, http, queue, todo, pending, state, replies,
                 owner, joins, amask, evicted>>

\* ... and a pending one, released without a leave.
FailPending ==
  /\ pc = "fail" /\ active = <<>> /\ pending # <<>>
  /\ SetFuture(state[Head(pending)].req, "error")
  /\ pending' = Tail(pending)
  /\ SendRelease(Head(pending), "fail")
  /\ UNCHANGED <<permits, http, queue, todo, active, state, kv, replies,
                 owner, barrier>>

Failed ==
  /\ pc = "fail" /\ active = <<>> /\ pending = <<>>
  /\ pc' = "accept"
  /\ UNCHANGED <<handlers, queue, job, todo, slots, kv, wire, owner, barrier>>

\* Where the thread goes on after a release.
After(kind) ==
  CASE kind = "complete" -> "complete"
    [] kind = "evicted" -> "token"
    [] kind = "exhausted" -> "ensure"
    [] kind = "unjoined" -> "activate"
    [] OTHER -> "fail"

\* Mutants of Released: a completed slot stays active; a torn-down request is only
\* logged.
ReleasedKeepsActive ==
  /\ active' = active
  /\ SetFuture(job.req, IF job.kind = "complete" THEN "result" ELSE "error")
  /\ pc' = After(job.kind)

ReleasedSilently ==
  /\ active' = IF job.kind = "complete" THEN Without(active, job.slot) ELSE active
  /\ IF job.kind = "complete" THEN SetFuture(job.req, "result")
     ELSE UNCHANGED future
  /\ pc' = After(job.kind)

\* What follows a release that was answered: the result, or the error.
Released ==
  /\ active' = IF job.kind = "complete" THEN Without(active, job.slot) ELSE active
  /\ SetFuture(job.req, IF job.kind = "complete" THEN "result" ELSE "error")
  /\ pc' = After(job.kind)

\* The exception leaves _handle_completions and _try_activate_pending_slots
\* for the engine's handler, which fails every slot; elsewhere it is logged.
Unreleased ==
  IF job.kind \in {"complete", "unjoined"}
  THEN pc' = "fail" /\ UNCHANGED <<active, future>>
  ELSE Released

\* Any reply will do; an error is only logged.
ReleaseReply ==
  /\ pc = "release" /\ replies # <<>>
  /\ replies' = Tail(replies)
  /\ Released
  /\ job' = NoJob
  /\ UNCHANGED <<permits, http, queue, todo, pending, state, kv, opened,
                 sent, owner, barrier>>

ReleaseTimeout ==
  /\ "late" \in Faults
  /\ pc = "release" /\ replies = <<>>
  /\ Unreleased
  /\ job' = NoJob
  /\ UNCHANGED <<permits, http, queue, todo, pending, state, kv, wire,
                 owner, barrier>>
----------------------------------------------------------------------------
(* The aggregator: this worker's connection thread, the slots of the other *)
(* workers, and the main loop as far as a worker sees it.                  *)

FreeSlots == {s \in Slots : owner[s] = "free"}
Lowest(S) == CHOOSE s \in S : \A t \in S : s <= t

HandleClaim ==
  /\ sent # <<>> /\ Head(sent).type = "claim"
  /\ sent' = Tail(sent)
  /\ IF FreeSlots = {}
     THEN /\ replies' = Append(replies, [type |-> "error", slot |-> -1])
          /\ UNCHANGED <<owner, evicted>>
     ELSE LET s == Lowest(FreeSlots) IN
          /\ owner' = [owner EXCEPT ![s] = "me"]
          /\ evicted' = evicted \ {s}
          /\ replies' = Append(replies, [type |-> "claimed", slot |-> s])
  /\ UNCHANGED <<handlers, queue, thread, slots, kv, opened, joins, leaves, amask>>

HandleRelease ==
  LET s == Head(sent).slot IN
  /\ sent # <<>> /\ Head(sent).type = "release"
  /\ sent' = Tail(sent)
  /\ IF owner[s] = "me"
     THEN /\ owner' = [owner EXCEPT ![s] = "free"]
          /\ replies' = Append(replies, [type |-> "released", slot |-> s])
     ELSE /\ owner' = owner
          /\ replies' = Append(replies, [type |-> "error", slot |-> s])
  /\ UNCHANGED <<handlers, queue, thread, slots, kv, opened, barrier>>

OtherClaims ==
  /\ FreeSlots # {}
  /\ owner' = [owner EXCEPT ![Lowest(FreeSlots)] = "other"]
  /\ evicted' = evicted \ {Lowest(FreeSlots)}
  /\ UNCHANGED <<handlers, queue, thread, slots, kv, wire, joins, leaves, amask>>

OtherReleases(s) ==
  /\ owner[s] = "other"
  /\ owner' = [owner EXCEPT ![s] = "free"]
  /\ UNCHANGED <<handlers, queue, thread, slots, kv, wire, barrier>>

\* A token boundary of the main loop: leaves, then joins.
Boundary ==
  /\ joins # {} \/ leaves # {}
  /\ amask' = (amask \ leaves) \union joins
  /\ joins' = {} /\ leaves' = {}
  /\ UNCHANGED <<handlers, queue, thread, slots, kv, wire, owner, evicted>>

\* ... at which a leave was signalled after the one read and the join, by the slot's
\* next tenant, before the other: the leave is taken at the next boundary.
JoinsOnly ==
  /\ "between" \in Faults
  /\ joins # {} /\ leaves # {}
  /\ amask' = amask \union joins
  /\ joins' = {}
  /\ UNCHANGED <<handlers, queue, thread, slots, kv, wire, owner, leaves, evicted>>

\* From the look at the evicted bits to the end of the token.
InToken == pc \in {"ensure", "ops"} \/ job.kind = "exhausted"

\* PER_SLOT_TIMEOUT: a slot that nobody serves, or whose engine stalls.
Evict(s) ==
  /\ s \in amask
  /\ \/ "evict" \in Faults /\ ~InToken
     \/ "midtoken" \in Faults /\ InToken
     \/ pc = "ops" /\ s # Head(active)
  /\ amask' = amask \ {s}
  /\ evicted' = evicted \union {s}
  /\ UNCHANGED <<handlers, queue, thread, slots, kv, wire, owner, joins, leaves>>
----------------------------------------------------------------------------
Accepting == Prune \/ AskSlot \/ Claimed \/ ClaimFails \/ Accepted
Activating ==
  SignalJoins \/ ActivationTimeout \/ Moved \/ \E s \in Slots : Move(s)
Preparing ==
  AbortEvicted \/ NothingActive \/ BeginToken \/ Ensure \/ Exhausted \/ RunOps
Generating == Preparing \/ EndToken \/ SecondSlotRaises \/ TokenRaises
Completing == Complete \/ Completed \/ LeaveAcked
Failing == FailActive \/ FailPending \/ Failed
Releasing == ReleaseReply \/ ReleaseTimeout
Connection == HandleClaim \/ HandleRelease

Next ==
  \/ \E r \in Requests : Submit(r) \/ Refuse(r) \/ BadBody(r) \/ Respond(r)
  \/ Accepting \/ Activating \/ Generating \/ Completing \/ Failing \/ Releasing
  \/ Connection
  \/ OtherClaims
  \/ \E s \in Slots : OtherReleases(s) \/ Evict(s)
  \/ Boundary \/ JoinsOnly

\* The engine thread runs, the connection thread answers, and the main loop gets to
\* its next boundary. The ops of a token end while its slot is in the barrier, where
\* the main loop waits for nobody but this engine or for other slots that it evicts;
\* an engine whose slot was taken out waits for an epoch that need not come. A slot
\* nobody serves is evicted in the end, and 30 s pass while the engine polls for an
\* activation that does not come. Nothing is assumed of exceptions, the other workers
\* or requests.
Unserved(s) == pc = "ops" /\ active # <<>> /\ s # Head(active)
InBarrier == active # <<>> /\ Head(active) \in amask
Fairness ==
  /\ WF_vars(Accepting \/ Activating \/ Preparing \/ Completing \/ Failing
               \/ Releasing)
  /\ WF_vars(InBarrier /\ (EndToken \/ SecondSlotRaises))
  /\ SF_vars(ActivationTimeout)
  /\ WF_vars(Connection)
  /\ WF_vars(Boundary)
  /\ \A s \in Slots : WF_vars(Unserved(s) /\ Evict(s))

Spec == Init /\ [][Next]_vars
FairSpec == Spec /\ Fairness
----------------------------------------------------------------------------
(* Properties. *)

Pool == INSTANCE BlockPool
          WITH Users <- Slots, free <- free_blocks, held <- tables

TypeOK ==
  /\ permits \in Int
  /\ http \in [Requests -> {"new", "waiting", "done"}]
  /\ future \in [Requests -> {"open", "result", "error"}]
  /\ queue \in Seq(Requests)
  /\ pc \in {"accept", "claim", "activate", "move", "token", "ensure", "ops",
             "complete", "ack", "release", "fail"}
  /\ job \in Job
  /\ todo \in Seq(Slots) /\ pending \in Seq(Slots) /\ active \in Seq(Slots)
  /\ state \in [Slots -> SlotState]
  /\ free_blocks \subseteq Blocks /\ dirty \subseteq Blocks
  /\ tables \in [Slots -> SUBSET Blocks]
  /\ lens \in [Slots -> 0 .. MaxSeq]
  /\ opened \subseteq Slots /\ sent \in Seq(Message) /\ replies \in Seq(Reply)
  /\ owner \in [Slots -> {"free", "me", "other"}]
  /\ joins \subseteq Slots /\ leaves \subseteq Slots
  /\ amask \subseteq Slots /\ evicted \subseteq Slots

\* Every block is on the free list or in the table of one slot, never both, and no
\* block on the free list holds keys or values of a request, however requests end
\* ("Zero freed blocks to prevent cross-request KV leakage", paged_attention.py:82).
BlocksSound == Pool!Partitioned /\ Pool!FreeClean

\* The engine uses the cache as BlockPool says: it takes blocks that are free,
\* writes what it holds, and gives back all a slot holds, zeroed (PagedKVCache).
UsesPool == Pool!Spec

\* Every block in use belongs to a slot that is running: none is left behind by
\* an eviction, an exception or a lost reply, so the cache does not shrink.
NoBlockLeak == \A s \in Slots : tables[s] # {} => s \in Elements(active)

\* A token is only run in slots the aggregator has given to this worker and whose
\* handles are open, however late its replies are and however they are mistaken
\* for one another.
RunsInOwnSlots == pc \in {"ensure", "ops"} =>
  \A s \in Elements(active) : owner[s] = "me" /\ s \in opened

\* Unless a handler gives up on a request that goes on, the cache is never
\* exhausted: truncation, the cap of max_tokens and the chunks never ask for more
\* than MaxSeq tokens, and every request in the engine has a permit.
NeverExhausted == job.kind # "exhausted"

\* Every slot the pool has recorded for this worker is one the engine knows or
\* that is on the wire: no way a request ends loses a slot of the pool.
SlotsAccounted ==
  \A s \in Slots : owner[s] = "me" =>
    \/ s \in Elements(active) \/ s \in Elements(pending)
    \/ job.slot = s
    \/ \E i \in 1 .. Len(replies) : replies[i].type = "claimed"
                                      /\ replies[i].slot = s

\* The engine tells the main loop to drop a slot only while the pool has the slot
\* recorded for it: it never tears a slot down twice, and no step that follows a
\* release signals for the slot again. When the leave is taken is not its business.
LeavesOwnSlots == [][\A s \in leaves' \ leaves : owner[s] = "me"]_vars

\* A slot has no other tenant before its leave was taken, as "Mirrors the
\* normal-completion release sequence" (worker_sync.py:1249) has it. False, as
\* _teardown_slot releases without waiting: see README, Findings.
LeavesHitOwner == \A s \in leaves : owner[s] = "me"

\* Every request that is queued gets its result or an error, without the help of
\* the 300 s timeout of its handler, unless its slot is taken out of the barrier in
\* the middle of a token (README, Findings).
EngineAnswers ==
  \A r \in Requests : http[r] = "waiting" ~> future[r] # "open"
=============================================================================
