---------------------------- MODULE SplittableMRG ----------------------------
(***************************************************************************)
(* The random number generator of util/random: a multiple recursive        *)
(* generator modulo M = P - 1 whose streams are split by skipping.  The  *)
(* graph generator gives every thread a clone of one generator that it     *)
(* skips to the thread's first edge, so a graph does not depend on how     *)
(* many threads made it: that rests on a skip being exactly so many steps. *)
(*                                                                         *)
(* Words keep their width: with P = 2^31, a 32-bit word wraps at 2 P and a *)
(* 64-bit one at 4 P P.                                                    *)
(***************************************************************************)
EXTENDS Integers, Sequences

CONSTANTS W,          \* 31
          X, Y,       \* 107374182 and 104480
          Byte,       \* 256, the values of a byte
          WordBytes,  \* 8, the bytes of an exponent word
          T,          \* 4, the bits of a user seed above the two W-1 bit fields
          UserSeeds,  \* the user seeds tried
          Operands,   \* the operand tuples <<sum, a, b, ..., h>> tried
          Skips,      \* the exponents tried: <<high, middle, low>>
          MaxDrawn    \* bound on the length of a stream

P == 2^W
M == P - 1
Residues == 0 .. M - 1
Word == 2 * P
Wide == 4 * P * P
L == P \div 2                \* a seed is cut into two fields below L
Top == 2^T                   \* and what is above them
BytePower[n \in Nat] == IF n = 0 THEN 1 ELSE Byte * BytePower[n - 1]
WordValues == BytePower[WordBytes]

(* The powers are stated to be the numbers they are: 2^31 is even, 2^4 squared is
   a residue.  For both factors k the remainder of M \div k is not greater than
   the quotient (7 and 20, 1727 and 20554), as approximate factoring needs. *)
ASSUME ConstantsAssumption ==
    /\ {X, Y, Byte, WordBytes, MaxDrawn} \subseteq Nat \ {0}
    /\ P \in Nat /\ P >= 4 /\ P % 2 = 0
    /\ Top \in Nat \ {0} /\ Top * Top < M
    /\ X < M /\ M % X <= M \div X
    /\ Y < M /\ M % Y <= M \div Y
    /\ Byte > 1
ASSUME InputsAssumption ==
    /\ UserSeeds \subseteq 0 .. L * L * Top - 1
    /\ Operands \subseteq [1 .. 9 -> Residues]
    /\ Skips \subseteq (0 .. WordValues - 1) \X (0 .. WordValues - 1) \X (0 .. WordValues - 1)

VARIABLES user,      \* the two user seeds
          state,     \* mrg_state: z1 .. z5
          drawn,     \* how many numbers were drawn or skipped since the seed
          operands   \* the arguments of the arithmetic
vars == <<user, state, drawn, operands>>

-----------------------------------------------------------------------------
(* mod_arith_64bit.h, the one in use.  ps is a sequence of factor pairs: one for
   mod_mac, two for mod_mac2, up to four for mod_mac4. *)
Product(ps, k) == IF k \in DOMAIN ps THEN ps[k][1] * ps[k][2] ELSE 0
Products(ps) == Product(ps, 1) + Product(ps, 2) + Product(ps, 3) + Product(ps, 4)
mod_add(a, b) == ((a + b) % Word) % M
mod_mul(a, b) == ((a * b) % Wide) % M
mod_mac(sum, ps) == ((Products(ps) + sum) % Wide) % M
mod_mul_x(a) == mod_mul(a, X)
mod_mul_y(a) == mod_mul(a, Y)
mod_mac_y(sum, a) == mod_mac(sum, <<<<a, Y>>>>)

(* mod_arith_32bit.h: no division.  A product is folded once at bit W. *)
(* Mutant: the last subtraction is left out. *)
FoldedOnce(n) == ((n % P) + (n \div P)) % Word
Folded(n) == LET f == ((n % P) + (n \div P)) % Word
             IN IF f >= M THEN f - M ELSE f
mod_add_32(a, b) == LET s == (a + b) % Word IN IF s >= M THEN s - M ELSE s
mod_mul_32(a, b) == Folded((a * b) % Wide)
mod_mac_32(sum, ps) ==
    LET mac(s, k) == IF k \in DOMAIN ps THEN Folded((Product(ps, k) + s) % Wide) ELSE s
    IN mac(mac(mac(mac(sum, 1), 2), 3), 4)

(* Approximate factoring for the two fixed factors: q = M \div k, r = M % k. *)
ByFactor(k, a) ==
    LET q == M \div k
        r == M % k
        result == k * (a - (a \div q) * q) - (a \div q) * r
    IN IF result < 0 THEN result + M ELSE result
mod_mul_x_32(a) == ByFactor(X, a)
mod_mul_y_32(a) == ByFactor(Y, a)
mod_mac_y_32(sum, a) == mod_add_32(sum, mod_mul_y_32(a))

(* mod_arith_xmt.h: the quotient is the upper word of a multiplication. *)
UpperQuotient(n) == ((4 * P + 4) * n + 4 * P + 3) \div Wide
mod_down(n) == (n + UpperQuotient(n)) % P
mod_add_xmt(a, b) == mod_down(a + b)
mod_mul_xmt(a, b) == mod_down((a * b) % Wide)
mod_mul_x_xmt(a) == mod_mul_xmt(a, X)
mod_mul_y_xmt(a) == mod_mul_xmt(a, Y)
mod_mac_xmt(sum, ps) == mod_down((Products(ps) + sum) % Wide)
mod_mac_y_xmt(sum, a) == mod_mac_xmt(sum, <<<<a, Y>>>>)

-----------------------------------------------------------------------------
(* A power of the transition matrix: its bottom row s, t, u, v, w and the cached
   part a, b, c, d of its first column. *)
mrg_update_cache(s, t, u, v, w) ==
    LET a == mod_add(mod_mul_x(s), t)
        b == mod_add(mod_mul_x(a), u)
        c == mod_add(mod_mul_x(b), v)
    IN [s |-> s, t |-> t, u |-> u, v |-> v, w |-> w,
        a |-> a, b |-> b, c |-> c, d |-> mod_add(mod_mul_x(c), w)]
mrg_identity == mrg_update_cache(0, 0, 0, 0, 1)
mrg_A == mrg_update_cache(0, 0, 0, 1, 0)

mrg_multiply(m, n) ==
    LET rs == mod_mac(mod_mul(m.s, n.d),
                      <<<<m.t, n.c>>, <<m.u, n.b>>, <<m.v, n.a>>, <<m.w, n.s>>>>)
        rt == mod_mac(mod_mul_y(mod_mul(m.s, n.s)),
                      <<<<m.t, n.w>>, <<m.u, n.v>>, <<m.v, n.u>>, <<m.w, n.t>>>>)
        ru == mod_mac(mod_mul_y(mod_mac(0, <<<<m.s, n.a>>, <<m.t, n.s>>>>)),
                      <<<<m.u, n.w>>, <<m.v, n.v>>, <<m.w, n.u>>>>)
        rv == mod_mac(mod_mul_y(mod_mac(0, <<<<m.s, n.b>>, <<m.t, n.a>>, <<m.u, n.s>>>>)),
                      <<<<m.v, n.w>>, <<m.w, n.v>>>>)
        rw == mod_mac(mod_mul_y(mod_mac(0,
                          <<<<m.s, n.c>>, <<m.t, n.b>>, <<m.u, n.a>>, <<m.v, n.s>>>>)),
                      <<<<m.w, n.w>>>>)
    IN mrg_update_cache(rs, rt, ru, rv, rw)

(* One turn of the loop of mrg_power, which ends when nothing of the exponent is left. *)
PowerTurn(p) ==
    IF p.exponent = 0 THEN p
    ELSE [result |-> IF p.exponent % 2 = 1 THEN mrg_multiply(p.result, p.current)
                     ELSE p.result,
          current |-> mrg_multiply(p.current, p.current),
          exponent |-> p.exponent \div 2]
mrg_power(m, exponent) ==
    LET after[i \in Nat] ==
            IF i = 0 THEN [result |-> mrg_identity, current |-> m, exponent |-> exponent]
            ELSE PowerTurn(after[i - 1])
    IN after[exponent].result

(* dump_mrg_powers: row b is for byte b of the exponent, A^(Byte^b) its unit. *)
transitions[b \in Nat] == IF b = 0 THEN mrg_A ELSE mrg_power(transitions[b - 1], Byte)
dump_mrg_powers == [b \in 0 .. 3 * WordBytes - 1 |->
    [val \in 0 .. Byte - 1 |->
        IF val = 0 THEN mrg_identity
        ELSE IF val = 1 THEN transitions[b] ELSE mrg_power(transitions[b], val)]]

(* mrg_transitions.hpp, the output of dump_mrg_powers. *)
mrg_skip_matrices == dump_mrg_powers

mrg_apply_transition(m, z) == <<
    mod_mac_y(mod_mul(m.d, z[1]),
              mod_mac(0, <<<<m.s, z[2]>>, <<m.a, z[3]>>, <<m.b, z[4]>>, <<m.c, z[5]>>>>)),
    mod_mac_y(mod_mac(0, <<<<m.c, z[1]>>, <<m.w, z[2]>>>>),
              mod_mac(0, <<<<m.s, z[3]>>, <<m.a, z[4]>>, <<m.b, z[5]>>>>)),
    mod_mac_y(mod_mac(0, <<<<m.b, z[1]>>, <<m.v, z[2]>>, <<m.w, z[3]>>>>),
              mod_mac(0, <<<<m.s, z[4]>>, <<m.a, z[5]>>>>)),
    mod_mac_y(mod_mac(0, <<<<m.a, z[1]>>, <<m.u, z[2]>>, <<m.v, z[3]>>, <<m.w, z[4]>>>>),
              mod_mul(m.s, z[5])),
    mod_mac(mod_mac(0, <<<<m.s, z[1]>>, <<m.t, z[2]>>, <<m.u, z[3]>>>>),
            <<<<m.v, z[4]>>, <<m.w, z[5]>>>>) >>

mrg_orig_step(z) == <<mod_mac_y(mod_mul_x(z[1]), z[5]), z[1], z[2], z[3], z[4]>>

(* One word of the exponent, its bytes from the lowest. *)
SkipByte(p, b) ==
    LET val == p.exponent % Byte
    IN [state |-> IF val = 0 THEN p.state
                  ELSE mrg_apply_transition(mrg_skip_matrices[b][val], p.state),
        exponent |-> p.exponent \div Byte]
SkipWord(z, first, exponent) ==
    LET after[i \in 0 .. WordBytes] ==
            IF i = 0 THEN [state |-> z, exponent |-> exponent]
            ELSE SkipByte(after[i - 1], first + i - 1)
    IN after[WordBytes].state

(* Mutant: the middle word is taken for bytes 7 to 14 instead of 8 to 15. *)
SkipOffByOne(z, e) ==
    SkipWord(SkipWord(SkipWord(z, 0, e[3]), WordBytes - 1, e[2]), 2 * WordBytes, e[1])
mrg_skip(z, e) ==
    SkipWord(SkipWord(SkipWord(z, 0, e[3]), WordBytes, e[2]), 2 * WordBytes, e[1])
Exponent(e) == (e[1] * WordValues + e[2]) * WordValues + e[3]

(* Mutant: the fifth number is not moved away from zero. *)
SeedWithZero(u1, u2) ==
    <<(u1 % L) + 1, ((u1 \div L) % L) + 1, (u2 % L) + 1, ((u2 \div L) % L) + 1,
      (u2 \div (L * L)) * (Top \div 2) + (u1 \div (L * L)) + 1>>
make_mrg_seed(u1, u2) ==
    <<(u1 % L) + 1, ((u1 \div L) % L) + 1, (u2 % L) + 1, ((u2 \div L) % L) + 1,
      (u2 \div (L * L)) * Top + (u1 \div (L * L)) + 1>>

-----------------------------------------------------------------------------
Init ==
    /\ user \in UserSeeds \X UserSeeds
    /\ state = make_mrg_seed(user[1], user[2])
    /\ drawn = 0
    /\ operands = <<>>

(* Another generator takes the place of this one. *)
Reseed ==
    /\ drawn > 0
    /\ user' \in UserSeeds \X UserSeeds
    /\ state' = make_mrg_seed(user'[1], user'[2])
    /\ drawn' = 0
    /\ UNCHANGED operands

(* mrg_get_uint_orig; the real-valued draws take one or two such steps. *)
mrg_get_uint_orig ==
    /\ drawn < MaxDrawn /\ operands = <<>>
    /\ state' = mrg_orig_step(state)
    /\ drawn' = drawn + 1
    /\ UNCHANGED <<user, operands>>

Skip(e) ==
    /\ drawn + Exponent(e) <= MaxDrawn /\ operands = <<>>
    /\ state' = mrg_skip(state, e)
    /\ drawn' = drawn + Exponent(e)
    /\ UNCHANGED <<user, operands>>

(* A call of the arithmetic, of no effect on the generator. *)
Calculate ==
    /\ drawn = 0 /\ user = <<0, 0>>
    /\ IF operands = <<>> THEN operands' \in Operands ELSE operands' = <<>>
    /\ UNCHANGED <<user, state, drawn>>

Next == mrg_get_uint_orig \/ (\E e \in Skips : Skip(e)) \/ Calculate \/ Reseed
Spec == Init /\ [][Next]_vars

-----------------------------------------------------------------------------
States == Residues \X Residues \X Residues \X Residues \X Residues
OneStep == [z \in States |-> mrg_orig_step(z)]
Steps(z, n) == LET after[i \in Nat] == IF i = 0 THEN z ELSE OneStep[after[i - 1]]
               IN after[n]

(* Drawing and skipping in any order leave the generator where so many single
   steps from the seed lead: the table of matrices, the cached entries and the
   bytes of the exponent all agree with the recurrence. *)
SkipIsSteps == state = Steps(make_mrg_seed(user[1], user[2]), drawn)

(* Every user seed gives five nonzero residues, and different user seeds give
   different states: no bit of the seeds is lost or shared by two numbers. *)
SeedsAreValid ==
    drawn = 0 =>
        /\ \A i \in 1 .. 5 : state[i] \in Residues \ {0}
        /\ \A u1, u2 \in UserSeeds :
               make_mrg_seed(u1, u2) = state => user = <<u1, u2>>

(* The three headers compute the same residues, those of the integers: no sum of
   four products wraps a 64-bit word, one fold and one subtraction are enough, and
   approximate factoring agrees for every residue. *)
ArithmeticAgrees ==
    operands # <<>> =>
        LET sum == operands[1]
            a == operands[2]
            b == operands[3]
            ps(k) == [i \in 1 .. k |-> <<operands[2 * i], operands[2 * i + 1]>>]
        IN /\ \A k \in 1 .. 4 :
                 LET exact == (sum + Products(ps(k))) % M IN
                 /\ mod_mac(sum, ps(k)) = exact
                 /\ mod_mac_32(sum, ps(k)) = exact
                 /\ k = 1 => mod_mac_xmt(sum, ps(k)) = exact
           /\ {mod_add(a, b), mod_add_32(a, b), mod_add_xmt(a, b)} = {(a + b) % M}
           /\ {mod_mul(a, b), mod_mul_32(a, b), mod_mul_xmt(a, b)} = {(a * b) % M}
           /\ {mod_mul_x_32(a), mod_mul_x_xmt(a)} = {mod_mul_x(a)}
           /\ {mod_mul_y_32(a), mod_mul_y_xmt(a)} = {mod_mul_y(a)}
           /\ {mod_mac_y_32(sum, a), mod_mac_y_xmt(sum, a)} = {mod_mac_y(sum, a)}

=============================================================================
