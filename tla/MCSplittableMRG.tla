--------------------------- MODULE MCSplittableMRG ---------------------------
(* W = 5: residues modulo 31, user seeds of 9 bits (four and four and one).  *)
(* Exponents of three words of two digits to the base 3.                      *)
EXTENDS SplittableMRG
MCUserSeeds == {0, 15, 256, 300, 511}
MCSkips == {<<0, 0, n>> : n \in 0 .. 8} \cup {<<0, 1, 0>>, <<0, 2, 7>>, <<0, 3, 0>>, <<1, 0, 5>>}
Extremes == {0, 30}
MCOperands == [1 .. 9 -> Extremes] \cup {<<s, a, b, 30, 30, 1, 2, a, s>> :
                  s \in {0, 30}, a \in 0 .. 30, b \in 0 .. 30}
=============================================================================
