------------------------- MODULE MCGlobalInference -------------------------
(* Instances of GlobalInference for TLC. *)
EXTENDS GlobalInference, TLC

CONSTANTS n1, n2, r1, r2, r3, k1

TwoNodes == {n1, n2}
ThreeRequests == {r1, r2, r3}
OneKey == {k1}

\* One node has room for three times as many workers as the other.
Uneven == [n \in TwoNodes |-> IF n = n1 THEN 3 ELSE 1]

\* Requests are interchangeable: r1 and r2 have the key, r3 may have it.
KeyedInit == Init /\ key[r1] = k1 /\ key[r2] = k1
KeyedSpec == KeyedInit /\ [][Next]_vars /\ Fairness

\* Idle nodes, whose status nobody but the requests writes.
AloneSpec ==
  /\ KeyedInit /\ \A n \in Nodes : status[n] = "idle"
  /\ [][Next /\ ~\E n \in Nodes : StatusWritten(n)]_vars
=============================================================================
