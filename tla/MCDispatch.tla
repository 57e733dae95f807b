----------------------------- MODULE MCDispatch -----------------------------
(* Instances of Dispatch for TLC. *)
EXTENDS Dispatch, TLC

CONSTANTS r1, r2, a1, a2, none

OneRequest == {r1}
TwoRequests == {r1, r2}
TwoAdapters == {a1, a2}
Symmetry == Permutations(TwoRequests) \union Permutations(TwoAdapters)

\* What a healthy node meets every day; processes that die and ports that are
\* taken over; what overlaps although every process is well.
Calm == {"slow", "tornswap", "sparse"}
Crashes == {"die", "swapfail", "tornswap", "sparse", "noagg", "handover", "twin"}
Overlaps == {"slow", "delay", "latestart", "stop", "rebalance", "early"}
=============================================================================
