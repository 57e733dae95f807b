--------------------------- MODULE MCWorkerEngine ---------------------------
(* Instances of WorkerEngine for TLC. *)
EXTENDS WorkerEngine, TLC

CONSTANTS r1, r2, b1, b2

TwoRequests == {r1, r2}
TwoBlocks == {b1, b2}
Symmetry == Permutations(TwoRequests) \union Permutations(TwoBlocks)
Lengths == {1, 4}

\* One request at a time: what the engine is built for.
Single == {"raise", "evict", "unjoined", "unleft"}
\* Replies that are late, requests that outlive their handler.
Rough == FaultKinds
=============================================================================
