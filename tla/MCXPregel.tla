------------------------------ MODULE MCXPregel -------------------------------
(***************************************************************************)
(* Small instances of the engine.                                          *)
(***************************************************************************)
EXTENDS XPregelRefinement, TLC

CONSTANTS p1, p2, p3, v1, v2, v3, x, y

MCVertex == {v1, v2, v3}
MCOwner == (v1 :> p1) @@ (v2 :> p1) @@ (v3 :> p2)
MCOwner3 == (v1 :> p1) @@ (v2 :> p2) @@ (v3 :> p3)
MCOutEdge == (v1 :> {v2, v3}) @@ (v2 :> {v3}) @@ (v3 :> {v1})

E(uc, bc, flag) == [uc |-> uc, bc |-> bc, flag |-> flag]

\* v1 mixes unicasts and broadcasts, v2 and v3 send to one destination.
MCProgram ==
  (v1 :> {E({}, <<>>, "keep"), E({<<v3, x>>}, <<>>, "halt"), E({}, <<x, y>>, "halt"),
          E({<<v2, y>>}, <<x>>, "keep")})
  @@ (v2 :> {E({}, <<>>, "halt"), E({<<v3, x>>}, <<>>, "keep"), E({}, <<x>>, "halt")})
  @@ (v3 :> {E({}, <<>>, "halt"), E({<<v1, x>>, <<v1, y>>}, <<>>, "revive")})

\* A program that quiesces or not, for the runs about the places and not the data.
MCProgramTeam ==
  (v1 :> {E({}, <<x>>, "halt"), E({<<v2, x>>}, <<>>, "halt")})
  @@ (v2 :> {E({}, <<>>, "halt"), E({}, <<x>>, "keep")})
  @@ (v3 :> {E({}, <<>>, "halt")})
=============================================================================
