------------------------------ MODULE BlockPool ------------------------------
(***************************************************************************)
(* What PagedKVCache (paged_attention.py) promises its engine, without     *)
(* slots, lengths or requests: blocks are taken from the free ones, written *)
(* by the user that holds them, and given back all at once, zeroed.         *)
(* WorkerEngine implements this specification.                             *)
(***************************************************************************)
CONSTANTS Users, Blocks

VARIABLES free, held, dirty

poolVars == <<free, held, dirty>>

Init ==
  /\ free = Blocks
  /\ held = [u \in Users |-> {}]
  /\ dirty = {}

Take(u, B) ==
  /\ B \subseteq free
  /\ free' = free \ B
  /\ held' = [held EXCEPT ![u] = @ \union B]
  /\ UNCHANGED dirty

Write(u) ==
  /\ dirty' = dirty \union held[u]
  /\ UNCHANGED <<free, held>>

GiveBack(u) ==
  /\ free' = free \union held[u]
  /\ held' = [held EXCEPT ![u] = {}]
  /\ dirty' = dirty \ held[u]

Next ==
  \E u \in Users : Write(u) \/ GiveBack(u) \/ \E B \in SUBSET Blocks : Take(u, B)

Spec == Init /\ [][Next]_poolVars
-----------------------------------------------------------------------------
TypeOK ==
  /\ free \subseteq Blocks /\ dirty \subseteq Blocks
  /\ held \in [Users -> SUBSET Blocks]

\* Every block is free or held by one user, never both.
Partitioned ==
  /\ free \union UNION {held[u] : u \in Users} = Blocks
  /\ \A u \in Users : held[u] \intersect free = {}
  /\ \A u, v \in Users : u # v => held[u] \intersect held[v] = {}

\* No free block holds keys or values.
FreeClean == dirty \intersect free = {}
=============================================================================
