----------------------------- MODULE MathAppend -------------------------------
(***************************************************************************)
(* The scrambling of vertex ids (MathAppend_Natives.h), by which the graph *)
(* generator hides which vertices have many edges.  Words have W bits, a   *)
(* power of two; 64 in the code.                                           *)
(***************************************************************************)
EXTENDS Integers, FiniteSetsExt

CONSTANTS W, M0, M1            \* the word and the two odd constants of scramble
ASSUME WordAssumption == /\ W \in {2, 4, 8, 16} /\ M0 \in 0 .. 2^W - 1 /\ M1 \in 0 .. 2^W - 1
                         /\ M0 % 2 = 1 /\ M1 % 2 = 1

Word(x) == x % 2^W
Bit(x, i) == (x \div 2^i) % 2
BitOr(x, y) == MapThenSumSet(LAMBDA i : 2^i * (IF Bit(x, i) + Bit(y, i) > 0 THEN 1 ELSE 0), 0 .. W - 1)

\* Every two neighbouring groups of k bits change places.
SwapGroups(x, k) ==
  MapThenSumSet(LAMBDA g : LET pair == (x \div 2^(2 * k * g)) % 2^(2 * k)
                           IN  2^(2 * k * g) * ((pair % 2^k) * 2^k + (pair \div 2^k)),
                0 .. (W \div (2 * k)) - 1)
\* From the widest groups (the bytes of a word in the code) down to single bits.
bitreverse(x) ==
  LET from[k \in Nat] == IF k = 0 THEN x ELSE SwapGroups(from[IF 2 * k = W THEN 0 ELSE 2 * k], k)
  IN  from[1]
\* The last scale bits, reversed.
bitreverse_scale(scale, x) == bitreverse(x) \div 2^(W - scale)

\* Mutant: the multiplier may be even.
MultiplierAsGiven(val, constant) == val
Multiplier(val, constant) == BitOr(val, constant)
scramble(scale, v0, val0, val1) ==
  LET v1 == Word(v0 + val0 + val1)
      v2 == bitreverse_scale(scale, Word(v1 * Multiplier(val0, M0)))
  IN  bitreverse_scale(scale, Word(v2 * Multiplier(val1, M1)))
=============================================================================
