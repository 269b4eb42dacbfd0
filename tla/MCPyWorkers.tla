----------------------------- MODULE MCPyWorkers ------------------------------
(***************************************************************************)
(* Two workers, words of two vertices.  Of five vertices the workers take  *)
(* the words of the first four.                                            *)
(***************************************************************************)
EXTENDS PyWorkersRefinement

CONSTANTS x, y

E(uc, bc) == [uc |-> uc, bc |-> bc]

\* A ring of n vertices, the first of which has two neighbours.
Ring(n) == [v \in 0 .. n - 1 |-> IF v = 0 THEN {1, 2} \cap 0 .. n - 1 ELSE {(v + 1) % n}]
Ring5 == Ring(5)

\* Vertex 1 broadcasts whether vertex 0 does or not.  Vertex 2, which is the other
\* worker's, does not or does more often than there are vertices.  Vertex 4 is sent
\* messages.
MCProgram == [v \in 0 .. 4 |->
  CASE v = 0 -> {E({}, <<x>>), E({<<3, x>>, <<4, x>>}, <<>>)}
    [] v = 1 -> {E({}, <<y>>)}
    [] v = 2 -> {E({}, <<>>), E({<<0, x>>}, <<x, y, x, y, x, y>>)}
    [] OTHER -> {E({}, <<>>)}]
=============================================================================
