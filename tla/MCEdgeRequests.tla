--------------------------- MODULE MCEdgeRequests ----------------------------
(***************************************************************************)
(* Three vertices, in one thread or in two.                                *)
(***************************************************************************)
EXTENDS EdgeRequests

E(i, x) == [id |-> i, val |-> x]

OneThread == [v \in 0 .. 2 |-> 0]
TwoThreads == [v \in 0 .. 2 |-> IF v = 2 THEN 2 ELSE 0]

Sparse == {[v \in 0 .. 2 |-> <<>>],
           [v \in 0 .. 2 |-> IF v = 0 THEN <<E(1, 0), E(2, 1)>>
                             ELSE IF v = 1 THEN <<E(2, 0)>> ELSE <<E(0, 1), E(2, 0)>>]}

\* No list starts with a destination another one ends with.
Lists == {<<>>, <<E(0, 1), E(1, 0)>>, <<E(0, 0), E(2, 1)>>, <<E(0, 1), E(2, 0), E(1, 1)>>}

P(w, c, n, s) == [who |-> w, calls |-> c, inCompute |-> n, supersteps |-> s]
Every == 0 .. 2
ReplaceOrIterate == {P(Every, {"set", "clear"}, 2, 3), P(Every, {"add", "remove", "modify"}, 1, 1),
                     P({0, 1}, {"add", "remove", "modify"}, 2, 1),
                     P({0, 1}, {"add", "remove"}, 1, 2)}
Replace == {P(Every, {"set", "clear"}, 2, 2)}
=============================================================================
