------------------------- MODULE SplittableMRGProofs --------------------------
(***************************************************************************)
(* The arithmetic of the random number generator agrees for every modulus, *)
(* pair of factors and tuple of residues; every pair of user seeds is      *)
(* spread into valid residues that tell it from every other; and a skip is *)
(* so many steps, whatever the exponent.                                   *)
(***************************************************************************)
EXTENDS SplittableMRG, DataLemmas

LEMMA Sizes ==
  /\ P \in Nat /\ P >= 4 /\ M = P - 1 /\ M \in Nat /\ M >= 3
  /\ X \in Nat /\ X > 0 /\ Y \in Nat /\ Y > 0
  /\ Word = 2 * P /\ Wide = 4 * P * P
BY ConstantsAssumption DEF M, Word, Wide

\* Quotient and remainder are determined by what they satisfy.
LEMMA Division ==
  ASSUME NEW m \in Nat \ {0}, NEW q \in Int, NEW r \in 0 .. m - 1
  PROVE  (q * m + r) % m = r /\ (q * m + r) \div m = q
OBVIOUS

LEMMA Quotients ==
  ASSUME NEW n \in Nat, NEW m \in Nat \ {0}
  PROVE  /\ n \div m \in Nat /\ n % m \in 0 .. m - 1
         /\ n = ((n \div m) * m) + (n % m)
OBVIOUS

\* What does not reach the width of a word is not changed by it.
LEMMA Fits ==
  ASSUME NEW n \in Nat, NEW w \in Nat, n < w
  PROVE  n % w = n
OBVIOUS

\* A multiple of the modulus can be left out.
LEMMA LessMultiple ==
  ASSUME NEW m \in Nat \ {0}, NEW q \in Int, NEW n \in Int
  PROVE  (q * m + n) % m = n % m
<1> DEFINE k == n \div m
           r == n % m
<1>1. k \in Int /\ r \in 0 .. m - 1 /\ n = k * m + r
  OBVIOUS
<1> HIDE DEF k, r
<1>2. q * m + n = (q + k) * m + r
  BY <1>1
<1>3. (q * m + n) % m = r
  BY <1>1, <1>2, Division
<1> QED
  BY <1>3 DEF r

\* One fold at bit 31 and one subtraction reduce a product of two residues plus
\* a residue.
LEMMA FoldedIsMod ==
  ASSUME NEW n \in Nat, n <= (M - 1) * M
  PROVE  Folded(n) = n % M /\ n % M \in Residues
<1> USE Sizes
<1> DEFINE q == n \div P
           r == n % P
           f == r + q
<1>1. q \in Nat /\ r \in 0 .. P - 1 /\ n = q * P + r
  <2>1. P \in Nat \ {0}
    OBVIOUS
  <2> HIDE Sizes
  <2> QED
    BY <2>1, Quotients
<1> HIDE DEF q, r
<1>2. q < M
  <2>1. SUFFICES ASSUME q >= M PROVE FALSE
    BY <1>1
  <2>2. q * P >= M * P
    BY <1>1, <2>1
  <2>3. M * P > (M - 1) * M
    OBVIOUS
  <2> QED
    BY <1>1, <2>2, <2>3
<1>3. n = q * M + f
  BY <1>1
<1>4. n % M = f % M
  <2>1. M \in Nat \ {0} /\ q \in Int /\ f \in Int
    BY <1>1
  <2>2. ((q * M) + f) % M = f % M
    BY <2>1, LessMultiple
  <2> QED
    BY <1>3, <2>2
<1>5. f \in Nat /\ f <= M + q /\ f % Word = f
  BY <1>1, <1>2, Fits
<1>6. Folded(n) = IF f >= M THEN f - M ELSE f
  BY <1>5 DEF Folded, q, r
<1>7. f < 2 * M
  BY <1>1, <1>2
<1> HIDE DEF f
<1>8. f % M = IF f >= M THEN f - M ELSE f
  BY <1>5, <1>7
<1> QED
  BY <1>4, <1>5, <1>6, <1>7, <1>8 DEF Residues

\* A product of two residues plus a residue, or plus a sum of such, is bounded.
LEMMA ProductBound ==
  ASSUME NEW a \in Residues, NEW b \in Residues
  PROVE  a * b \in Nat /\ a * b <= (M - 1) * (M - 1)
<1> USE Sizes
<1>1. a \in Nat /\ b \in Nat /\ a <= M - 1 /\ b <= M - 1
  BY DEF Residues
<1>2. a * b <= (M - 1) * b
  BY <1>1
<1>3. (M - 1) * b <= (M - 1) * (M - 1)
  BY <1>1
<1> QED
  BY <1>1, <1>2, <1>3

\* The multiplication by the upper word gives the residue of anything not greater
\* than a product of two residues plus a residue.
LEMMA UpperQuotientIsMod ==
  ASSUME NEW n \in Nat, n <= (M - 1) * M
  PROVE  mod_down(n) = n % M
<1> USE Sizes
<1> DEFINE q == n \div M
           r == n % M
<1>1. q \in Nat /\ r \in 0 .. M - 1 /\ n = q * M + r
  <2>1. M \in Nat \ {0}
    OBVIOUS
  <2> HIDE Sizes
  <2> QED
    BY <2>1, Quotients
<1> HIDE DEF q, r
<1>2. q < M
  <2>1. SUFFICES ASSUME q >= M PROVE FALSE
    BY <1>1
  <2>2. q * M >= M * M
    BY <1>1, <2>1
  <2> QED
    BY <1>1, <2>2
<1> DEFINE rest == (4 * P + 4) * r + 4 * P + 3 - 4 * q
<1>3. (4 * P + 4) * n + 4 * P + 3 = q * Wide + rest
  <2>1. (4 * P + 4) * n = (4 * P + 4) * (q * M) + (4 * P + 4) * r
    BY <1>1
  <2>2. (4 * P + 4) * (q * M) = q * (4 * P * P) - 4 * q
    BY <1>1
  <2> QED
    BY <1>1, <2>1, <2>2
<1>4. rest \in 0 .. Wide - 1
  <2>1. (4 * P + 4) * r <= (4 * P + 4) * (P - 2)
    BY <1>1
  <2>2. (4 * P + 4) * (P - 2) = 4 * P * P - 4 * P - 8
    OBVIOUS
  <2>3. (4 * P + 4) * r >= 0
    BY <1>1
  <2> QED
    BY <1>1, <1>2, <2>1, <2>2, <2>3
<1> HIDE DEF rest
<1>5. UpperQuotient(n) = q
  <2>1. Wide \in Nat \ {0}
    OBVIOUS
  <2>2. (q * Wide + rest) \div Wide = q
    BY <1>1, <1>4, <2>1, Division
  <2> QED
    BY <1>3, <2>2 DEF UpperQuotient
<1>6. n + q = q * P + r
  BY <1>1
<1>7. (q * P + r) % P = r
  BY <1>1, Division
<1> QED
  BY <1>5, <1>6, <1>7 DEF mod_down, r

-----------------------------------------------------------------------------
(* Approximate factoring. *)
LEMMA ByFactorIsMod ==
  ASSUME NEW k \in Nat \ {0}, k < M, M % k <= M \div k, NEW a \in Residues
  PROVE  ByFactor(k, a) = (a * k) % M
<1> USE Sizes
<1> DEFINE q == M \div k
           r == M % k
<1>1. q \in Nat /\ r \in 0 .. k - 1 /\ M = q * k + r /\ r <= q
  BY Quotients
<1>2. q > 0
  BY <1>1
<1> HIDE DEF q, r
<1> DEFINE h == a \div q
           l == a % q
<1>3. a \in Nat /\ a < M /\ h \in Nat /\ l \in 0 .. q - 1 /\ a = h * q + l
  BY <1>1, <1>2, Quotients DEF Residues
<1> HIDE DEF h, l
<1> DEFINE result == k * (a - h * q) - h * r
<1>4. a * k = h * M + result
  BY <1>1, <1>3
<1>5. result = k * l - h * r
  BY <1>1, <1>3
<1>6. h <= k
  <2>1. SUFFICES ASSUME h >= k + 1 PROVE FALSE
    BY <1>3
  <2>2. h * q >= (k + 1) * q
    BY <1>1, <1>3, <2>1
  <2>3. (k + 1) * q >= k * q + r
    BY <1>1
  <2> QED
    BY <1>1, <1>3, <2>2, <2>3
<1>7. result < M
  <2>1. k * l <= k * (q - 1)
    BY <1>1, <1>3
  <2>2. h * r >= 0
    BY <1>1, <1>3
  <2>3. k * (q - 1) < M
    BY <1>1
  <2> QED
    BY <1>1, <1>3, <1>5, <2>1, <2>2, <2>3
<1>8. result > - M
  <2>1. h * r <= k * r
    BY <1>1, <1>3, <1>6
  <2>2. k * r <= k * q
    BY <1>1
  <2>3. k * l >= 0
    BY <1>1, <1>3
  <2>4. CASE r = 0
    BY <1>1, <1>3, <1>5, <2>3, <2>4
  <2>5. CASE r > 0
    BY <1>1, <1>3, <1>5, <2>1, <2>2, <2>3, <2>5
  <2> QED
    BY <1>1, <2>4, <2>5
<1>9. result \in Int
  BY <1>1, <1>3
<1>10. ByFactor(k, a) = IF result < 0 THEN result + M ELSE result
  BY DEF ByFactor, h, q, r
<1> HIDE DEF result
<1>11. (a * k) % M = result % M
  <2>1. M \in Nat \ {0} /\ h \in Int
    BY <1>3
  <2>2. ((h * M) + result) % M = result % M
    BY <1>9, <2>1, LessMultiple
  <2> QED
    BY <1>4, <2>2
<1>12. CASE result >= 0
  BY <1>7, <1>9, <1>10, <1>11, <1>12, Fits
<1>13. CASE result < 0
  <2>1. result = (-1) * M + (result + M)
    BY <1>9
  <2>2. result % M = (result + M) % M
    <3>1. M \in Nat \ {0} /\ -1 \in Int /\ result + M \in Int
      BY <1>9
    <3>2. (((-1) * M) + (result + M)) % M = (result + M) % M
      BY <3>1, LessMultiple
    <3> QED
      BY <2>1, <3>2
  <2>3. (result + M) % M = result + M
    BY <1>8, <1>9, <1>13, Fits
  <2> QED
    BY <1>10, <1>11, <1>13, <2>2, <2>3
<1> QED
  BY <1>9, <1>12, <1>13

-----------------------------------------------------------------------------
(* Sums of products. *)
Pairs == UNION {[1 .. k -> Residues \X Residues] : k \in 1 .. 4}

LEMMA ProductIsSmall ==
  ASSUME NEW ps \in Pairs, NEW k \in 1 .. 4
  PROVE  Product(ps, k) \in Nat /\ Product(ps, k) <= (M - 1) * (M - 1)
<1>1. CASE k \in DOMAIN ps
  <2>1. ps[k] \in Residues \X Residues
    BY <1>1 DEF Pairs
  <2>2. ps[k][1] \in Residues /\ ps[k][2] \in Residues
    BY <2>1
  <2> QED
    BY <1>1, <2>2, ProductBound DEF Product
<1>2. CASE k \notin DOMAIN ps
  <2>1. 0 <= (M - 1) * (M - 1)
    BY Sizes
  <2> QED
    BY <1>2, <2>1 DEF Product
<1> QED
  BY <1>1, <1>2

\* No sum of four products and a residue wraps a 64-bit word.
LEMMA ProductsFit ==
  ASSUME NEW ps \in Pairs, NEW sum \in Residues
  PROVE  /\ Products(ps) + sum \in Nat
         /\ (Products(ps) + sum) % Wide = Products(ps) + sum
<1> USE Sizes
<1>1. sum \in Nat /\ sum <= M - 1
  BY DEF Residues
<1>2. \A k \in 1 .. 4 : Product(ps, k) \in Nat /\ Product(ps, k) <= (M - 1) * (M - 1)
  BY ProductIsSmall
<1>3. /\ Products(ps) \in Nat
      /\ Products(ps) <= 4 * ((M - 1) * (M - 1))
  BY <1>2 DEF Products
<1>4. 4 * ((M - 1) * (M - 1)) + (M - 1) < 4 * P * P
  OBVIOUS
<1>5. Wide \in Nat /\ Products(ps) + sum \in Nat /\ Products(ps) + sum < Wide
  BY <1>1, <1>3, <1>4
<1> QED
  BY <1>5, Fits

LEMMA ModPlus ==
  ASSUME NEW a \in Nat, NEW b \in Nat
  PROVE  (b + (a % M)) % M = (b + a) % M
<1> DEFINE q == a \div M
           r == a % M
<1>1. M \in Nat \ {0}
  BY Sizes
<1>2. q \in Int /\ r \in Nat /\ a = (q * M) + r
  BY <1>1, Quotients
<1> HIDE DEF q, r
<1>3. ((q * M) + (b + r)) % M = (b + r) % M
  <2>1. b + r \in Int
    BY <1>2
  <2> QED
    BY <1>1, <1>2, <2>1, LessMultiple
<1>4. b + a = (q * M) + (b + r)
  BY <1>1, <1>2
<1> QED
  BY <1>3, <1>4 DEF r

\* One multiplication and addition of the 32-bit header.
LEMMA MacStep ==
  ASSUME NEW ps \in Pairs, NEW k \in 1 .. 4, NEW s \in Residues
  PROVE  LET mac == IF k \in DOMAIN ps THEN Folded((Product(ps, k) + s) % Wide) ELSE s
         IN  mac = (Product(ps, k) + s) % M /\ mac \in Residues
<1> USE Sizes
<1> DEFINE p == Product(ps, k)
<1>1. p \in Nat /\ p <= (M - 1) * (M - 1) /\ s \in Nat /\ s <= M - 1
  BY ProductIsSmall DEF Residues
<1>2. k \notin DOMAIN ps => p = 0
  BY DEF Product
<1> HIDE DEF p
<1>3. p + s \in Nat /\ p + s <= (M - 1) * M
  BY <1>1
<1>4. (M - 1) * M < 4 * P * P /\ Wide \in Nat
  OBVIOUS
<1>5. (p + s) % Wide = p + s
  BY <1>3, <1>4, Fits
<1>6. Folded(p + s) = (p + s) % M /\ (p + s) % M \in Residues
  BY <1>3, FoldedIsMod
<1>7. k \notin DOMAIN ps => s = (p + s) % M
  BY <1>1, <1>2, Fits
<1> QED
  BY <1>5, <1>6, <1>7 DEF p

\* The three versions of mod_mac give the residue of the sum.
LEMMA MacAgrees ==
  ASSUME NEW ps \in Pairs, NEW sum \in Residues
  PROVE  /\ mod_mac(sum, ps) = (sum + Products(ps)) % M
         /\ mod_mac_32(sum, ps) = (sum + Products(ps)) % M
<1> USE Sizes
<1>1. Products(ps) \in Int /\ sum \in Nat
  <2>1. \A k \in 1 .. 4 : Product(ps, k) \in Nat
    BY ProductIsSmall
  <2> QED
    BY <2>1 DEF Products, Residues
<1>2. mod_mac(sum, ps) = (sum + Products(ps)) % M
  <2>1. (Products(ps) + sum) % Wide = Products(ps) + sum
    BY ProductsFit
  <2>2. Products(ps) + sum = sum + Products(ps)
    BY <1>1
  <2> QED
    BY <2>1, <2>2 DEF mod_mac
<1> DEFINE mac(s, k) == IF k \in DOMAIN ps THEN Folded((Product(ps, k) + s) % Wide) ELSE s
           p(k) == Product(ps, k)
<1>3. \A s \in Residues, k \in 1 .. 4 : mac(s, k) = (p(k) + s) % M /\ mac(s, k) \in Residues
  BY MacStep
<1>4. mod_mac_32(sum, ps) = mac(mac(mac(mac(sum, 1), 2), 3), 4)
  BY DEF mod_mac_32
<1>5. Products(ps) = p(1) + p(2) + p(3) + p(4)
  BY DEF Products
<1>6. \A k \in 1 .. 4 : p(k) \in Nat
  BY ProductIsSmall
<1> HIDE DEF mac, p
<1>7. mac(sum, 1) = (p(1) + sum) % M /\ mac(sum, 1) \in Residues
  BY <1>3
<1>8. /\ mac(mac(sum, 1), 2) = (p(2) + (p(1) + sum)) % M
      /\ mac(mac(sum, 1), 2) \in Residues
  <2>1. p(1) + sum \in Nat /\ p(2) \in Nat
    BY <1>1, <1>6
  <2>2. (p(2) + ((p(1) + sum) % M)) % M = (p(2) + (p(1) + sum)) % M
    BY <2>1, ModPlus
  <2> QED
    BY <1>3, <1>7, <2>2
<1>9. /\ mac(mac(mac(sum, 1), 2), 3) = (p(3) + (p(2) + (p(1) + sum))) % M
      /\ mac(mac(mac(sum, 1), 2), 3) \in Residues
  <2>1. p(2) + (p(1) + sum) \in Nat /\ p(3) \in Nat
    BY <1>1, <1>6
  <2>2. (p(3) + ((p(2) + (p(1) + sum)) % M)) % M = (p(3) + (p(2) + (p(1) + sum))) % M
    BY <2>1, ModPlus
  <2> QED
    BY <1>3, <1>8, <2>2
<1>10. mac(mac(mac(mac(sum, 1), 2), 3), 4) = (p(4) + (p(3) + (p(2) + (p(1) + sum)))) % M
  <2>1. p(3) + (p(2) + (p(1) + sum)) \in Nat /\ p(4) \in Nat
    BY <1>1, <1>6
  <2>2. (p(4) + ((p(3) + (p(2) + (p(1) + sum))) % M)) % M
          = (p(4) + (p(3) + (p(2) + (p(1) + sum)))) % M
    BY <2>1, ModPlus
  <2> QED
    BY <1>3, <1>9, <2>2
<1>11. p(4) + (p(3) + (p(2) + (p(1) + sum))) = sum + Products(ps)
  BY <1>1, <1>5, <1>6
<1> QED
  BY <1>2, <1>4, <1>10, <1>11

LEMMA XmtAgrees ==
  ASSUME NEW ps \in Pairs, NEW sum \in Residues, DOMAIN ps = 1 .. 1
  PROVE  mod_mac_xmt(sum, ps) = (sum + Products(ps)) % M
<1> USE Sizes
<1>1. Products(ps) = Product(ps, 1) /\ Product(ps, 1) \in Nat
  <2>1. Product(ps, 2) = 0 /\ Product(ps, 3) = 0 /\ Product(ps, 4) = 0
    BY DEF Product
  <2>2. Product(ps, 1) \in Nat
    BY ProductIsSmall
  <2> QED
    BY <2>1, <2>2 DEF Products
<1>2. Product(ps, 1) <= (M - 1) * (M - 1) /\ sum \in Nat /\ sum <= M - 1
  BY ProductIsSmall DEF Residues
<1>3. Products(ps) + sum \in Nat /\ Products(ps) + sum <= (M - 1) * M
  BY <1>1, <1>2
<1>4. mod_down(Products(ps) + sum) = (Products(ps) + sum) % M
  BY <1>3, UpperQuotientIsMod
<1>5. (Products(ps) + sum) % Wide = Products(ps) + sum
  BY ProductsFit
<1>6. Products(ps) + sum = sum + Products(ps)
  BY <1>1, <1>2
<1> QED
  BY <1>4, <1>5, <1>6 DEF mod_mac_xmt

\* Sums of two residues.
LEMMA SumsAgree ==
  ASSUME NEW a \in Residues, NEW b \in Residues
  PROVE  /\ mod_add(a, b) = (a + b) % M
         /\ mod_add_32(a, b) = (a + b) % M
         /\ mod_add_xmt(a, b) = (a + b) % M
<1> USE Sizes
<1>1. a \in Nat /\ b \in Nat /\ a <= M - 1 /\ b <= M - 1
  BY DEF Residues
<1>2. a + b \in Nat /\ a + b < 2 * M /\ (a + b) % Word = a + b
  <2>1. a + b \in Nat /\ a + b < Word /\ Word \in Nat
    BY <1>1
  <2> QED
    BY <1>1, <2>1, Fits
<1>3. (a + b) % M = IF a + b >= M THEN a + b - M ELSE a + b
  BY <1>1
<1>4. a + b <= (M - 1) * M
  <2>1. 2 * (M - 1) <= (M - 1) * M
    OBVIOUS
  <2> QED
    BY <1>1, <2>1
<1>5. mod_down(a + b) = (a + b) % M
  BY <1>2, <1>4, UpperQuotientIsMod
<1> QED
  BY <1>2, <1>3, <1>5 DEF mod_add, mod_add_32, mod_add_xmt

\* Products of two residues.
LEMMA ProductsAgree ==
  ASSUME NEW a \in Residues, NEW b \in Residues
  PROVE  /\ mod_mul(a, b) = (a * b) % M
         /\ mod_mul_32(a, b) = (a * b) % M
         /\ mod_mul_xmt(a, b) = (a * b) % M
<1> USE Sizes
<1>1. a * b \in Nat /\ a * b <= (M - 1) * (M - 1)
  BY ProductBound
<1>2. (M - 1) * (M - 1) < 4 * P * P /\ (M - 1) * (M - 1) <= (M - 1) * M
  OBVIOUS
<1>3. Wide \in Nat /\ a * b < Wide /\ a * b <= (M - 1) * M
  BY <1>1, <1>2
<1>4. (a * b) % Wide = a * b
  BY <1>1, <1>3, Fits
<1>5. Folded(a * b) = (a * b) % M
  BY <1>1, <1>3, FoldedIsMod
<1>6. mod_down(a * b) = (a * b) % M
  BY <1>1, <1>3, UpperQuotientIsMod
<1> QED
  BY <1>4, <1>5, <1>6 DEF mod_mul, mod_mul_32, mod_mul_xmt

\* The two fixed factors.
LEMMA FactorsAgree ==
  ASSUME NEW sum \in Residues, NEW a \in Residues
  PROVE  /\ mod_mul_x_32(a) = mod_mul_x(a) /\ mod_mul_x_xmt(a) = mod_mul_x(a)
         /\ mod_mul_y_32(a) = mod_mul_y(a) /\ mod_mul_y_xmt(a) = mod_mul_y(a)
         /\ mod_mac_y_32(sum, a) = mod_mac_y(sum, a)
         /\ mod_mac_y_xmt(sum, a) = mod_mac_y(sum, a)
<1> USE Sizes
<1>1. X \in Residues /\ Y \in Residues
  BY ConstantsAssumption DEF Residues
<1>2. mod_mul_x_32(a) = (a * X) % M
  BY ConstantsAssumption, ByFactorIsMod DEF mod_mul_x_32
<1>3. mod_mul_y_32(a) = (a * Y) % M
  BY ConstantsAssumption, ByFactorIsMod DEF mod_mul_y_32
<1>4. /\ mod_mul(a, X) = (a * X) % M /\ mod_mul(a, Y) = (a * Y) % M
      /\ mod_mul_xmt(a, X) = (a * X) % M /\ mod_mul_xmt(a, Y) = (a * Y) % M
  BY <1>1, ProductsAgree
<1> DEFINE ps == <<<<a, Y>>>>
<1>5. ps \in Pairs /\ DOMAIN ps = 1 .. 1 /\ Products(ps) = a * Y
  <2>1. ps \in [1 .. 1 -> Residues \X Residues] /\ DOMAIN ps = 1 .. 1
    BY <1>1
  <2>2. Product(ps, 1) = a * Y
    BY <2>1 DEF Product
  <2>3. Product(ps, 2) = 0 /\ Product(ps, 3) = 0 /\ Product(ps, 4) = 0
    BY <2>1 DEF Product
  <2>4. a * Y \in Nat
    BY <1>1, ProductBound
  <2> QED
    BY <2>1, <2>2, <2>3, <2>4 DEF Pairs, Products
<1>6. mod_mac(sum, ps) = (sum + a * Y) % M /\ mod_mac_xmt(sum, ps) = (sum + a * Y) % M
  BY <1>5, MacAgrees, XmtAgrees
<1>7. (a * Y) % M \in Residues /\ a * Y \in Nat /\ sum \in Nat
  <2>1. a * Y \in Nat /\ M \in Nat \ {0}
    BY <1>1, ProductBound
  <2>2. (a * Y) % M \in 0 .. M - 1
    BY <2>1, Quotients
  <2> QED
    BY <2>1, <2>2 DEF Residues
<1>8. mod_add_32(sum, (a * Y) % M) = (sum + ((a * Y) % M)) % M
  BY <1>7, SumsAgree
<1>9. (sum + ((a * Y) % M)) % M = (sum + a * Y) % M
  BY <1>7, ModPlus
<1> QED
  BY <1>2, <1>3, <1>4, <1>6, <1>8, <1>9
  DEF mod_mul_x, mod_mul_y, mod_mac_y, mod_mac_y_32,
      mod_mul_x_xmt, mod_mul_y_xmt, mod_mac_y_xmt

-----------------------------------------------------------------------------
(* Seeds. *)
LEMMA SeedSizes ==
  L \in Nat /\ L >= 2 /\ L <= M - 1 /\ Top \in Nat /\ Top >= 1 /\ Top * Top <= M - 1
BY ConstantsAssumption DEF L, M

\* A user seed is made of two fields below L and what is above them.
LEMMA Fields ==
  ASSUME NEW u \in 0 .. L * L * Top - 1
  PROVE  /\ u % L \in 0 .. L - 1
         /\ (u \div L) % L \in 0 .. L - 1
         /\ u \div (L * L) \in 0 .. Top - 1
         /\ u = (((u \div (L * L)) * L + ((u \div L) % L)) * L) + (u % L)
<1> USE SeedSizes
<1> DEFINE lo == u % L
           rest == u \div L
           mid == rest % L
           hi == rest \div L
<1>1. L \in Nat \ {0} /\ u \in Nat
  OBVIOUS
<1>2. lo \in 0 .. L - 1 /\ rest \in Nat /\ u = (rest * L) + lo
  BY <1>1, Quotients
<1> HIDE DEF lo, rest
<1>3. mid \in 0 .. L - 1 /\ hi \in Nat /\ rest = (hi * L) + mid
  BY <1>1, <1>2, Quotients
<1> HIDE DEF mid, hi
<1>4. u = (hi * (L * L)) + (mid * L + lo)
  BY <1>2, <1>3
<1>5. mid * L + lo \in 0 .. L * L - 1
  <2>1. mid * L <= (L - 1) * L
    BY <1>3
  <2>2. mid * L >= 0
    BY <1>3
  <2> QED
    BY <1>2, <1>3, <2>1, <2>2
<1>6. u \div (L * L) = hi
  <2>1. L * L \in Nat \ {0}
    OBVIOUS
  <2>2. ((hi * (L * L)) + (mid * L + lo)) \div (L * L) = hi
    <3>1. hi \in Int
      BY <1>3
    <3> HIDE SeedSizes
    <3> QED
      BY <1>5, <2>1, <3>1, Division
  <2> QED
    BY <1>4, <2>2
<1>7. hi <= Top - 1
  <2>1. SUFFICES ASSUME hi >= Top PROVE FALSE
    BY <1>3
  <2>2. L * L \in Nat
    OBVIOUS
  <2>3. hi * (L * L) >= Top * (L * L)
    BY <1>3, <2>1, <2>2
  <2>4. u < Top * (L * L)
    <3>1. L * L * Top = Top * (L * L)
      OBVIOUS
    <3> QED
      BY <3>1
  <2>5. hi * (L * L) \in Nat /\ Top * (L * L) \in Nat
    BY <1>3, <2>2
  <2>6. mid * L + lo \in Nat
    BY <1>2, <1>3
  <2>7. u >= hi * (L * L)
    <3> DEFINE h == hi * (L * L)
               l == mid * L + lo
    <3>1. h \in Nat /\ l \in Nat /\ u = h + l
      BY <1>4, <2>5, <2>6
    <3> HIDE DEF h, l
    <3>2. u >= h
      BY <3>1
    <3> QED
      BY <3>2 DEF h
  <2> QED
    BY <1>1, <2>3, <2>4, <2>5, <2>7
<1> QED
  BY <1>2, <1>3, <1>6, <1>7 DEF lo, rest, mid

\* The five numbers made of two user seeds are nonzero residues.
LEMMA SeedIsValid ==
  ASSUME NEW u1 \in 0 .. L * L * Top - 1, NEW u2 \in 0 .. L * L * Top - 1
  PROVE  \A i \in 1 .. 5 : make_mrg_seed(u1, u2)[i] \in Residues \ {0}
<1> USE SeedSizes, Sizes
<1>1. \A i \in 0 .. L - 1 : i + 1 \in Residues \ {0}
  BY DEF Residues
<1>2. /\ u1 % L \in 0 .. L - 1 /\ (u1 \div L) % L \in 0 .. L - 1
      /\ u2 % L \in 0 .. L - 1 /\ (u2 \div L) % L \in 0 .. L - 1
      /\ u1 \div (L * L) \in 0 .. Top - 1 /\ u2 \div (L * L) \in 0 .. Top - 1
  BY Fields
<1>3. \A h1, h2 \in 0 .. Top - 1 : h2 * Top + h1 + 1 \in Residues \ {0}
  <2> SUFFICES ASSUME NEW h1 \in 0 .. Top - 1, NEW h2 \in 0 .. Top - 1
               PROVE  h2 * Top + h1 + 1 \in Residues \ {0}
    OBVIOUS
  <2>1. h2 * Top <= (Top - 1) * Top
    OBVIOUS
  <2>2. h2 * Top >= 0
    OBVIOUS
  <2> QED
    BY <2>1, <2>2 DEF Residues
<1> DEFINE z5 == (u2 \div (L * L)) * Top + (u1 \div (L * L)) + 1
<1>4. z5 \in Residues \ {0}
  BY <1>2, <1>3
<1>5. /\ (u1 % L) + 1 \in Residues \ {0}
      /\ ((u1 \div L) % L) + 1 \in Residues \ {0}
      /\ (u2 % L) + 1 \in Residues \ {0}
      /\ ((u2 \div L) % L) + 1 \in Residues \ {0}
  BY <1>1, <1>2
<1> HIDE DEF z5
<1>6. make_mrg_seed(u1, u2) = <<(u1 % L) + 1, ((u1 \div L) % L) + 1,
                                (u2 % L) + 1, ((u2 \div L) % L) + 1, z5>>
  BY DEF make_mrg_seed, z5
<1> SUFFICES ASSUME NEW i \in 1 .. 5 PROVE make_mrg_seed(u1, u2)[i] \in Residues \ {0}
  OBVIOUS
<1>7. i = 1 \/ i = 2 \/ i = 3 \/ i = 4 \/ i = 5
  OBVIOUS
<1> QED
  BY <1>4, <1>5, <1>6, <1>7

\* The five numbers determine the two user seeds.
LEMMA SeedDetermines ==
  ASSUME NEW u1 \in 0 .. L * L * Top - 1, NEW u2 \in 0 .. L * L * Top - 1,
         NEW v1 \in 0 .. L * L * Top - 1, NEW v2 \in 0 .. L * L * Top - 1,
         make_mrg_seed(u1, u2) = make_mrg_seed(v1, v2)
  PROVE  u1 = v1 /\ u2 = v2
<1> USE SeedSizes
<1> DEFINE lo(u) == u % L
           mid(u) == (u \div L) % L
           hi(u) == u \div (L * L)
           Seeds == 0 .. L * L * Top - 1
<1>1. \A u \in Seeds : /\ lo(u) \in 0 .. L - 1 /\ mid(u) \in 0 .. L - 1
                       /\ hi(u) \in 0 .. Top - 1
                       /\ u = ((hi(u) * L + mid(u)) * L) + lo(u)
  BY Fields
<1>2. /\ lo(u1) + 1 = lo(v1) + 1 /\ mid(u1) + 1 = mid(v1) + 1
      /\ lo(u2) + 1 = lo(v2) + 1 /\ mid(u2) + 1 = mid(v2) + 1
      /\ hi(u2) * Top + hi(u1) + 1 = hi(v2) * Top + hi(v1) + 1
  BY DEF make_mrg_seed
<1> HIDE DEF lo, mid, hi
<1> HIDE SeedSizes
<1>3. u1 \in Seeds /\ u2 \in Seeds /\ v1 \in Seeds /\ v2 \in Seeds
  OBVIOUS
<1> HIDE DEF Seeds
<1>4. /\ lo(u1) = lo(v1) /\ mid(u1) = mid(v1)
      /\ lo(u2) = lo(v2) /\ mid(u2) = mid(v2)
  <2>1. \A u \in Seeds : lo(u) \in Int /\ mid(u) \in Int
    BY <1>1, SeedSizes
  <2> QED
    BY <1>2, <1>3, <2>1
<1>5. (hi(u2) * Top) + hi(u1) = (hi(v2) * Top) + hi(v1)
  <2>1. \A u \in Seeds : hi(u) \in Int
    BY <1>1, SeedSizes
  <2> QED
    BY <1>2, <1>3, <2>1, SeedSizes
<1>6. hi(u1) = hi(v1) /\ hi(u2) = hi(v2)
  <2>1. Top \in Nat \ {0}
    BY SeedSizes
  <2>5. \A u \in Seeds : hi(u) \in Int /\ hi(u) \in 0 .. Top - 1
    BY <1>1, <2>1
  <2>2. /\ ((hi(u2) * Top) + hi(u1)) \div Top = hi(u2)
        /\ ((hi(u2) * Top) + hi(u1)) % Top = hi(u1)
    BY <1>3, <2>1, <2>5, Division
  <2>3. /\ ((hi(v2) * Top) + hi(v1)) \div Top = hi(v2)
        /\ ((hi(v2) * Top) + hi(v1)) % Top = hi(v1)
    BY <1>3, <2>1, <2>5, Division
  <2> QED
    BY <1>5, <2>2, <2>3
<1>7. u1 = v1
  BY <1>1, <1>3, <1>4, <1>6
<1>8. u2 = v2
  BY <1>1, <1>3, <1>4, <1>6
<1> QED
  BY <1>7, <1>8

-----------------------------------------------------------------------------
(* Congruence modulo M. *)
Same(a, b) == a % M = b % M

LEMMA SameIff ==
  ASSUME NEW a \in Int, NEW b \in Int
  PROVE  Same(a, b) <=> \E k \in Int : a = (k * M) + b
<1>1. M \in Nat \ {0}
  BY Sizes
<1>2. ASSUME NEW k \in Int, a = (k * M) + b PROVE Same(a, b)
  BY <1>1, <1>2, LessMultiple DEF Same
<1>3. ASSUME Same(a, b) PROVE \E k \in Int : a = (k * M) + b
  <2> DEFINE k == (a \div M) - (b \div M)
  <2>1. a = ((a \div M) * M) + (a % M) /\ b = ((b \div M) * M) + (b % M)
    BY <1>1
  <2>2. (a \div M) \in Int /\ (b \div M) \in Int /\ (a % M) \in Int /\ a % M = b % M
    BY <1>1, <1>3 DEF Same
  <2>3. k \in Int /\ a = (k * M) + b
    BY <1>1, <2>1, <2>2
  <2> QED
    BY <2>3
<1> QED
  BY <1>2, <1>3

LEMMA SameSum ==
  ASSUME NEW a \in Int, NEW b \in Int, NEW c \in Int, NEW d \in Int, Same(a, b), Same(c, d)
  PROVE  Same(a + c, b + d)
<1>1. PICK k \in Int : a = (k * M) + b
  BY SameIff
<1>2. PICK l \in Int : c = (l * M) + d
  BY SameIff
<1>3. a + c = ((k + l) * M) + (b + d) /\ k + l \in Int /\ a + c \in Int /\ b + d \in Int
  BY <1>1, <1>2, Sizes
<1> QED
  BY <1>3, SameIff

LEMMA SameProduct ==
  ASSUME NEW a \in Int, NEW b \in Int, NEW c \in Int, NEW d \in Int, Same(a, b), Same(c, d)
  PROVE  Same(a * c, b * d)
<1>1. PICK k \in Int : a = (k * M) + b
  BY SameIff
<1>2. PICK l \in Int : c = (l * M) + d
  BY SameIff
<1> DEFINE q == (k * l * M) + (k * d) + (b * l)
<1>3. q \in Int /\ a * c \in Int /\ b * d \in Int /\ M \in Int
  BY Sizes
<1>4. a * c = (q * M) + (b * d)
  BY <1>1, <1>2, <1>3
<1> HIDE DEF q
<1> QED
  BY <1>3, <1>4, SameIff

LEMMA SameMod ==
  ASSUME NEW a \in Int
  PROVE  a % M \in Residues /\ Same(a % M, a)
<1>1. M \in Nat \ {0} /\ a % M \in 0 .. M - 1
  BY Sizes
<1>2. (a % M) % M = a % M
  BY <1>1, Fits
<1> QED
  BY <1>1, <1>2 DEF Same, Residues

LEMMA SameResidue ==
  ASSUME NEW a \in Residues, NEW b \in Residues, Same(a, b)
  PROVE  a = b
<1>1. a \in Nat /\ a < M /\ b \in Nat /\ b < M /\ M \in Nat
  BY Sizes DEF Residues
<1>2. a % M = a /\ b % M = b
  BY <1>1, Fits
<1> QED
  BY <1>2 DEF Same

LEMMA ResiduesAreInts == \A a \in Residues : a \in Int
BY Sizes DEF Residues

\* What the operations of the arithmetic give, up to multiples of M.
LEMMA Operations ==
  ASSUME NEW a \in Residues, NEW b \in Residues
  PROVE  /\ mod_add(a, b) \in Residues /\ Same(mod_add(a, b), a + b)
         /\ mod_mul(a, b) \in Residues /\ Same(mod_mul(a, b), a * b)
         /\ mod_mul_x(a) \in Residues /\ Same(mod_mul_x(a), a * X)
         /\ mod_mul_y(a) \in Residues /\ Same(mod_mul_y(a), a * Y)
<1>1. a \in Int /\ b \in Int /\ X \in Int /\ Y \in Int
  BY ResiduesAreInts, Sizes
<1>2. a + b \in Int /\ a * b \in Int /\ a * X \in Int /\ a * Y \in Int
  BY <1>1
<1>3. X \in Residues /\ Y \in Residues
  BY ConstantsAssumption DEF Residues, M
<1>4. /\ mod_add(a, b) = (a + b) % M /\ mod_mul(a, b) = (a * b) % M
      /\ mod_mul(a, X) = (a * X) % M /\ mod_mul(a, Y) = (a * Y) % M
  BY <1>3, SumsAgree, ProductsAgree
<1>5. \A n \in Int : n % M \in Residues /\ Same(n % M, n)
  BY SameMod
<1> QED
  BY <1>2, <1>4, <1>5 DEF mod_mul_x, mod_mul_y

LEMMA MacIs ==
  ASSUME NEW sum \in Residues, NEW ps \in Pairs
  PROVE  mod_mac(sum, ps) \in Residues /\ Same(mod_mac(sum, ps), sum + Products(ps))
<1>1. mod_mac(sum, ps) = (sum + Products(ps)) % M
  BY MacAgrees
<1>2. sum + Products(ps) \in Int
  <2>1. \A k \in 1 .. 4 : Product(ps, k) \in Nat
    BY ProductIsSmall
  <2> QED
    BY <2>1, ResiduesAreInts DEF Products
<1> QED
  BY <1>1, <1>2, SameMod

LEMMA Mac1 ==
  ASSUME NEW sum \in Residues,
         NEW a1 \in Residues, NEW b1 \in Residues
  PROVE  LET mac == mod_mac(sum, <<<<a1, b1>>>>)
         IN  mac \in Residues /\ Same(mac, sum + (a1 * b1))
<1> DEFINE ps == <<<<a1, b1>>>>
<1>1. ps \in [1 .. 1 -> Residues \X Residues]
  OBVIOUS
<1>2. ps \in Pairs
  BY <1>1 DEF Pairs
<1>3. Products(ps) = a1 * b1
  <2>1. a1 * b1 \in Int
    BY ResiduesAreInts
  <2> QED
    BY <2>1 DEF Products, Product
<1> HIDE DEF ps
<1> QED
  BY <1>2, <1>3, MacIs DEF ps

LEMMA Mac2 ==
  ASSUME NEW sum \in Residues,
         NEW a1 \in Residues, NEW b1 \in Residues, NEW a2 \in Residues, NEW b2 \in Residues
  PROVE  LET mac == mod_mac(sum, <<<<a1, b1>>, <<a2, b2>>>>)
         IN  mac \in Residues /\ Same(mac, sum + (a1 * b1 + a2 * b2))
<1> DEFINE ps == <<<<a1, b1>>, <<a2, b2>>>>
<1>1. ps \in [1 .. 2 -> Residues \X Residues]
  OBVIOUS
<1>2. ps \in Pairs
  BY <1>1 DEF Pairs
<1>3. Products(ps) = a1 * b1 + a2 * b2
  <2>1. a1 * b1 \in Int /\ a2 * b2 \in Int
    BY ResiduesAreInts
  <2> QED
    BY <2>1 DEF Products, Product
<1> HIDE DEF ps
<1> QED
  BY <1>2, <1>3, MacIs DEF ps

LEMMA Mac3 ==
  ASSUME NEW sum \in Residues,
         NEW a1 \in Residues, NEW b1 \in Residues, NEW a2 \in Residues, NEW b2 \in Residues,
         NEW a3 \in Residues, NEW b3 \in Residues
  PROVE  LET mac == mod_mac(sum, <<<<a1, b1>>, <<a2, b2>>, <<a3, b3>>>>)
         IN  mac \in Residues /\ Same(mac, sum + (a1 * b1 + a2 * b2 + a3 * b3))
<1> DEFINE ps == <<<<a1, b1>>, <<a2, b2>>, <<a3, b3>>>>
<1>1. ps \in [1 .. 3 -> Residues \X Residues]
  OBVIOUS
<1>2. ps \in Pairs
  BY <1>1 DEF Pairs
<1>3. Products(ps) = a1 * b1 + a2 * b2 + a3 * b3
  <2>1. a1 * b1 \in Int /\ a2 * b2 \in Int /\ a3 * b3 \in Int
    BY ResiduesAreInts
  <2> QED
    BY <2>1 DEF Products, Product
<1> HIDE DEF ps
<1> QED
  BY <1>2, <1>3, MacIs DEF ps

LEMMA Mac4 ==
  ASSUME NEW sum \in Residues, NEW ps \in [1 .. 4 -> Residues \X Residues]
  PROVE  /\ mod_mac(sum, ps) \in Residues
         /\ Same(mod_mac(sum, ps),
                 sum + (ps[1][1] * ps[1][2] + ps[2][1] * ps[2][2]
                          + ps[3][1] * ps[3][2] + ps[4][1] * ps[4][2]))
<1>1. ps \in Pairs
  BY DEF Pairs
<1>2. Products(ps) = ps[1][1] * ps[1][2] + ps[2][1] * ps[2][2]
                       + ps[3][1] * ps[3][2] + ps[4][1] * ps[4][2]
  BY DEF Products, Product
<1> QED
  BY <1>1, <1>2, MacIs

LEMMA MacY ==
  ASSUME NEW sum \in Residues, NEW a \in Residues
  PROVE  mod_mac_y(sum, a) \in Residues /\ Same(mod_mac_y(sum, a), sum + a * Y)
<1>1. Y \in Residues
  BY ConstantsAssumption DEF Residues, M
<1> QED
  BY <1>1, Mac1 DEF mod_mac_y

-----------------------------------------------------------------------------
(* Single steps. *)
LEMMA StepType ==
  ASSUME NEW z \in States
  PROVE  /\ mrg_orig_step(z) \in States
         /\ Same(mrg_orig_step(z)[1], z[1] * X + z[5] * Y)
         /\ \A i \in 1 .. 4 : mrg_orig_step(z)[i + 1] = z[i]
<1>1. /\ z[1] \in Residues /\ z[2] \in Residues /\ z[3] \in Residues
      /\ z[4] \in Residues /\ z[5] \in Residues
  BY DEF States
<1> DEFINE e == mod_mac_y(mod_mul_x(z[1]), z[5])
<1>2. mod_mul_x(z[1]) \in Residues /\ Same(mod_mul_x(z[1]), z[1] * X)
  BY <1>1, Operations
<1>3. e \in Residues /\ Same(e, mod_mul_x(z[1]) + z[5] * Y)
  BY <1>1, <1>2, MacY
<1>4. Same(mod_mul_x(z[1]) + z[5] * Y, z[1] * X + z[5] * Y)
  <2>1. mod_mul_x(z[1]) \in Int /\ z[1] * X \in Int /\ z[5] * Y \in Int
    BY <1>1, <1>2, ResiduesAreInts, Sizes
  <2>2. Same(z[5] * Y, z[5] * Y)
    BY DEF Same
  <2> QED
    BY <1>2, <2>1, <2>2, SameSum
<1> HIDE DEF e
<1>5. mrg_orig_step(z) = <<e, z[1], z[2], z[3], z[4]>>
  BY DEF mrg_orig_step, e
<1>6. Same(e, z[1] * X + z[5] * Y)
  BY <1>3, <1>4 DEF Same
<1>7. \A i \in 1 .. 4 : i = 1 \/ i = 2 \/ i = 3 \/ i = 4
  OBVIOUS
<1> QED
  BY <1>1, <1>3, <1>5, <1>6, <1>7 DEF States

LEMMA StepsAre ==
  ASSUME NEW z \in States
  PROVE  /\ Steps(z, 0) = z
         /\ \A n \in Nat : Steps(z, n) \in States
         /\ \A n \in Nat : Steps(z, n + 1) = mrg_orig_step(Steps(z, n))
<1> DEFINE G == [p \in Nat \X States |-> OneStep[p[2]]]
           IsAfter(g) == g = [i \in Nat |-> IF i = 0 THEN z ELSE OneStep[g[i - 1]]]
           after == CHOOSE g : IsAfter(g)
<1>1. \A y \in States : OneStep[y] = mrg_orig_step(y) /\ OneStep[y] \in States
  BY StepType DEF OneStep
<1>2. G \in [Nat \X States -> States]
  BY <1>1
<1>3. \A i \in Nat, y \in States : G[<<i, y>>] = OneStep[y]
  OBVIOUS
<1>4. PICK f \in [Nat -> States] : f[0] = z /\ \A i \in Nat : f[i + 1] = G[<<i, f[i]>>]
  <2> HIDE DEF G
  <2>1. \E f : GoesOn(f, States, z, G)
    BY <1>2, Recursion
  <2> QED
    BY <2>1 DEF GoesOn
<1>5. IsAfter(f)
  <2>1. ASSUME NEW i \in Nat, i # 0 PROVE f[i] = OneStep[f[i - 1]]
    <3>1. i - 1 \in Nat /\ (i - 1) + 1 = i
      BY <2>1
    <3>2. f[(i - 1) + 1] = G[<<i - 1, f[i - 1]>>] /\ f[i - 1] \in States
      BY <1>4, <3>1
    <3> QED
      BY <1>3, <3>1, <3>2
  <2>2. f = [i \in Nat |-> f[i]]
    BY <1>4
  <2> HIDE DEF G
  <2> QED
    BY <1>4, <2>1, <2>2
<1>6. IsAfter(after)
  BY <1>5
<1>7. \A n : Steps(z, n) = after[n]
  BY DEF Steps
<1> HIDE DEF after, G
<1>8. after[0] = z
  BY <1>6
<1>9. \A n \in Nat : after[n + 1] = OneStep[after[n]]
  <2> SUFFICES ASSUME NEW n \in Nat PROVE after[n + 1] = OneStep[after[n]]
    OBVIOUS
  <2>1. n + 1 \in Nat /\ n + 1 # 0 /\ (n + 1) - 1 = n
    OBVIOUS
  <2> QED
    BY <1>6, <2>1
<1>10. \A n \in Nat : after[n] \in States
  <2> DEFINE wrong == {n \in Nat : after[n] \notin States}
  <2>1. SUFFICES ASSUME wrong # {} PROVE FALSE
    OBVIOUS
  <2>2. PICK n \in wrong : \A k \in wrong : n <= k
    <3>1. wrong \in SUBSET Nat
      OBVIOUS
    <3> HIDE DEF wrong
    <3> QED
      BY <2>1, <3>1, Least
  <2>3. n - 1 \in Nat /\ n - 1 \notin wrong /\ (n - 1) + 1 = n
    BY <1>8, <2>2
  <2>4. after[n - 1] \in States
    BY <2>3
  <2>5. after[(n - 1) + 1] = OneStep[after[n - 1]]
    BY <1>9, <2>3
  <2> QED
    BY <1>1, <2>2, <2>3, <2>4, <2>5
<1> QED
  BY <1>1, <1>7, <1>8, <1>9, <1>10

\* So many steps, then so many more.
LEMMA StepsAdd ==
  ASSUME NEW z \in States, NEW j \in Nat, NEW k \in Nat
  PROVE  Steps(Steps(z, j), k) = Steps(z, j + k)
<1> DEFINE y == Steps(z, j)
           wrong == {n \in Nat : Steps(y, n) # Steps(z, j + n)}
<1>1. y \in States
  BY StepsAre
<1>2. SUFFICES ASSUME wrong # {} PROVE FALSE
  OBVIOUS
<1>3. PICK n \in wrong : \A i \in wrong : n <= i
  <2>1. wrong \in SUBSET Nat
    OBVIOUS
  <2> HIDE DEF wrong
  <2> QED
    BY <1>2, <2>1, Least
<1>4. n # 0
  <2>1. Steps(y, 0) = y /\ j + 0 = j
    BY <1>1, StepsAre
  <2> QED
    BY <1>3, <2>1
<1>5. n - 1 \in Nat /\ n - 1 \notin wrong /\ (n - 1) + 1 = n
  BY <1>3, <1>4
<1>6. Steps(y, n - 1) = Steps(z, j + (n - 1))
  BY <1>5
<1> HIDE DEF y
<1>7. Steps(y, (n - 1) + 1) = mrg_orig_step(Steps(y, n - 1))
  BY <1>1, <1>5, StepsAre
<1>8. Steps(z, (j + (n - 1)) + 1) = mrg_orig_step(Steps(z, j + (n - 1)))
  <2>1. j + (n - 1) \in Nat
    BY <1>5
  <2> QED
    BY <2>1, StepsAre
<1>9. (j + (n - 1)) + 1 = j + n
  BY <1>5
<1> QED
  BY <1>3, <1>5, <1>6, <1>7, <1>8, <1>9

-----------------------------------------------------------------------------
(* Powers of the transition matrix. *)
Matrices == [s : Residues, t : Residues, u : Residues, v : Residues, w : Residues,
             a : Residues, b : Residues, c : Residues, d : Residues]
Cached(m) == /\ Same(m.a, m.s * X + m.t) /\ Same(m.b, m.a * X + m.u)
             /\ Same(m.c, m.b * X + m.v) /\ Same(m.d, m.c * X + m.w)
Row(m, z) == m.s * z[1] + m.t * z[2] + m.u * z[3] + m.v * z[4] + m.w * z[5]

\* The matrix does what so many steps do: its row gives the last of the five numbers,
\* which the steps before had as the others.
Represents(m, k) ==
  m \in Matrices /\ Cached(m) /\ \A z \in States : Same(Row(m, z), Steps(z, k)[5])

\* What mrg_apply_transition computes, as integers.
App(m, z) ==
  <<m.d * z[1] + (m.s * z[2] + m.a * z[3] + m.b * z[4] + m.c * z[5]) * Y,
    m.c * z[1] + m.w * z[2] + (m.s * z[3] + m.a * z[4] + m.b * z[5]) * Y,
    m.b * z[1] + m.v * z[2] + m.w * z[3] + (m.s * z[4] + m.a * z[5]) * Y,
    m.a * z[1] + m.u * z[2] + m.v * z[3] + m.w * z[4] + (m.s * z[5]) * Y,
    Row(m, z)>>

LEMMA Products2 ==
  ASSUME NEW a \in Residues, NEW b \in Residues
  PROVE  a * b \in Int
BY ResiduesAreInts

LEMMA SameRefl == \A n : Same(n, n)
BY DEF Same

LEMMA AddSameMod ==
  ASSUME NEW a \in Residues, NEW b \in Residues, NEW p \in Int, Same(a, p)
  PROVE  mod_add(a, b) \in Residues /\ Same(mod_add(a, b), p + b)
<1>1. mod_add(a, b) \in Residues /\ Same(mod_add(a, b), a + b)
  BY Operations
<1>2. Same(a + b, p + b)
  BY ResiduesAreInts, SameRefl, SameSum
<1> QED
  BY <1>1, <1>2 DEF Same

LEMMA UpdateCache ==
  ASSUME NEW s \in Residues, NEW t \in Residues, NEW u \in Residues, NEW v \in Residues,
         NEW w \in Residues
  PROVE  LET m == mrg_update_cache(s, t, u, v, w)
         IN  /\ m \in Matrices /\ Cached(m)
             /\ m.s = s /\ m.t = t /\ m.u = u /\ m.v = v /\ m.w = w
<1> DEFINE a == mod_add(mod_mul_x(s), t)
           b == mod_add(mod_mul_x(a), u)
           c == mod_add(mod_mul_x(b), v)
           d == mod_add(mod_mul_x(c), w)
<1>1. \A x, y \in Residues : LET n == mod_add(mod_mul_x(x), y)
                             IN  n \in Residues /\ Same(n, x * X + y)
  <2> SUFFICES ASSUME NEW x \in Residues, NEW y \in Residues
               PROVE  LET n == mod_add(mod_mul_x(x), y)
                      IN  n \in Residues /\ Same(n, x * X + y)
    OBVIOUS
  <2>1. mod_mul_x(x) \in Residues /\ Same(mod_mul_x(x), x * X)
    BY Operations
  <2>2. x * X \in Int
    BY ResiduesAreInts, Sizes
  <2> QED
    BY <2>1, <2>2, AddSameMod
<1>2. a \in Residues /\ Same(a, s * X + t)
  BY <1>1
<1> HIDE DEF a
<1>3. b \in Residues /\ Same(b, a * X + u)
  BY <1>1, <1>2
<1> HIDE DEF b
<1>4. c \in Residues /\ Same(c, b * X + v)
  BY <1>1, <1>3
<1> HIDE DEF c
<1>5. d \in Residues /\ Same(d, c * X + w)
  BY <1>1, <1>4
<1> HIDE DEF d
<1>6. mrg_update_cache(s, t, u, v, w)
        = [s |-> s, t |-> t, u |-> u, v |-> v, w |-> w, a |-> a, b |-> b, c |-> c, d |-> d]
  BY DEF mrg_update_cache, a, b, c, d
<1> QED
  BY <1>2, <1>3, <1>4, <1>5, <1>6 DEF Matrices, Cached

LEMMA MacYOf ==
  ASSUME NEW sum \in Residues, NEW a \in Residues, NEW p \in Int, NEW q \in Int,
         Same(sum, p), Same(a, q)
  PROVE  mod_mac_y(sum, a) \in Residues /\ Same(mod_mac_y(sum, a), p + q * Y)
<1>1. mod_mac_y(sum, a) \in Residues /\ Same(mod_mac_y(sum, a), sum + a * Y)
  BY MacY
<1>2. sum \in Int /\ a \in Int /\ Y \in Int /\ a * Y \in Int /\ q * Y \in Int
  BY ResiduesAreInts, Sizes
<1>3. Same(a * Y, q * Y)
  BY <1>2, SameRefl, SameProduct
<1>4. Same(sum + a * Y, p + q * Y)
  BY <1>2, <1>3, SameSum
<1> QED
  BY <1>1, <1>4 DEF Same

LEMMA Zero == 0 \in Residues
BY Sizes DEF Residues

LEMMA MacZero2 ==
  ASSUME NEW a1 \in Residues, NEW b1 \in Residues, NEW a2 \in Residues, NEW b2 \in Residues
  PROVE  LET mac == mod_mac(0, <<<<a1, b1>>, <<a2, b2>>>>)
         IN  mac \in Residues /\ Same(mac, a1 * b1 + a2 * b2)
<1>1. LET mac == mod_mac(0, <<<<a1, b1>>, <<a2, b2>>>>)
      IN  mac \in Residues /\ Same(mac, 0 + (a1 * b1 + a2 * b2))
  BY Zero, Mac2
<1>2. 0 + (a1 * b1 + a2 * b2) = a1 * b1 + a2 * b2
  BY Products2
<1> QED
  BY <1>1, <1>2

LEMMA MacZero3 ==
  ASSUME NEW a1 \in Residues, NEW b1 \in Residues, NEW a2 \in Residues, NEW b2 \in Residues,
         NEW a3 \in Residues, NEW b3 \in Residues
  PROVE  LET mac == mod_mac(0, <<<<a1, b1>>, <<a2, b2>>, <<a3, b3>>>>)
         IN  mac \in Residues /\ Same(mac, a1 * b1 + a2 * b2 + a3 * b3)
<1>1. LET mac == mod_mac(0, <<<<a1, b1>>, <<a2, b2>>, <<a3, b3>>>>)
      IN  mac \in Residues /\ Same(mac, 0 + (a1 * b1 + a2 * b2 + a3 * b3))
  BY Zero, Mac3
<1>2. 0 + (a1 * b1 + a2 * b2 + a3 * b3) = a1 * b1 + a2 * b2 + a3 * b3
  BY Products2
<1> QED
  BY <1>1, <1>2

LEMMA MacZero4 ==
  ASSUME NEW ps \in [1 .. 4 -> Residues \X Residues]
  PROVE  /\ mod_mac(0, ps) \in Residues
         /\ Same(mod_mac(0, ps), ps[1][1] * ps[1][2] + ps[2][1] * ps[2][2]
                                   + ps[3][1] * ps[3][2] + ps[4][1] * ps[4][2])
<1> DEFINE e == ps[1][1] * ps[1][2] + ps[2][1] * ps[2][2]
                  + ps[3][1] * ps[3][2] + ps[4][1] * ps[4][2]
<1>1. mod_mac(0, ps) \in Residues /\ Same(mod_mac(0, ps), 0 + e)
  BY Zero, Mac4
<1>2. e \in Int
  <2>1. \A i \in 1 .. 4 : ps[i][1] * ps[i][2] \in Int
    BY Products2
  <2> QED
    BY <2>1
<1> HIDE DEF e
<1>3. 0 + e = e
  BY <1>2
<1> QED
  BY <1>1, <1>3 DEF e

LEMMA AppIs ==
  ASSUME NEW m \in Matrices, NEW z \in States
  PROVE  /\ mrg_apply_transition(m, z) \in States
         /\ \A i \in 1 .. 5 : /\ App(m, z)[i] \in Int
                              /\ Same(mrg_apply_transition(m, z)[i], App(m, z)[i])
<1>1. /\ z[1] \in Residues /\ z[2] \in Residues /\ z[3] \in Residues
      /\ z[4] \in Residues /\ z[5] \in Residues
  BY DEF States
<1>2. /\ m.s \in Residues /\ m.t \in Residues /\ m.u \in Residues /\ m.v \in Residues
      /\ m.w \in Residues /\ m.a \in Residues /\ m.b \in Residues /\ m.c \in Residues
      /\ m.d \in Residues
  BY DEF Matrices
<1>3. \A x, y \in Residues : x * y \in Int
  BY Products2
<1> DEFINE ps1 == <<<<m.s, z[2]>>, <<m.a, z[3]>>, <<m.b, z[4]>>, <<m.c, z[5]>>>>
           ps4 == <<<<m.a, z[1]>>, <<m.u, z[2]>>, <<m.v, z[3]>>, <<m.w, z[4]>>>>
           q1 == m.s * z[2] + m.a * z[3] + m.b * z[4] + m.c * z[5]
           q2 == m.s * z[3] + m.a * z[4] + m.b * z[5]
           q3 == m.s * z[4] + m.a * z[5]
           q4 == m.s * z[5]
           p1 == m.d * z[1]
           p2 == m.c * z[1] + m.w * z[2]
           p3 == m.b * z[1] + m.v * z[2] + m.w * z[3]
           p4 == m.a * z[1] + m.u * z[2] + m.v * z[3] + m.w * z[4]
<1>4. /\ q1 \in Int /\ q2 \in Int /\ q3 \in Int /\ q4 \in Int
      /\ p1 \in Int /\ p2 \in Int /\ p3 \in Int /\ p4 \in Int
  BY <1>1, <1>2, <1>3
<1>5. ps1 \in [1 .. 4 -> Residues \X Residues] /\ ps4 \in [1 .. 4 -> Residues \X Residues]
  BY <1>1, <1>2
<1>6. /\ ps1[1][1] * ps1[1][2] + ps1[2][1] * ps1[2][2]
           + ps1[3][1] * ps1[3][2] + ps1[4][1] * ps1[4][2] = q1
      /\ ps4[1][1] * ps4[1][2] + ps4[2][1] * ps4[2][2]
           + ps4[3][1] * ps4[3][2] + ps4[4][1] * ps4[4][2] = p4
  OBVIOUS
<1> DEFINE n1 == mod_mul(m.d, z[1])
           k1 == mod_mac(0, ps1)
           n2 == mod_mac(0, <<<<m.c, z[1]>>, <<m.w, z[2]>>>>)
           k2 == mod_mac(0, <<<<m.s, z[3]>>, <<m.a, z[4]>>, <<m.b, z[5]>>>>)
           n3 == mod_mac(0, <<<<m.b, z[1]>>, <<m.v, z[2]>>, <<m.w, z[3]>>>>)
           k3 == mod_mac(0, <<<<m.s, z[4]>>, <<m.a, z[5]>>>>)
           n4 == mod_mac(0, ps4)
           k4 == mod_mul(m.s, z[5])
           n5 == mod_mac(0, <<<<m.s, z[1]>>, <<m.t, z[2]>>, <<m.u, z[3]>>>>)
           r5 == mod_mac(n5, <<<<m.v, z[4]>>, <<m.w, z[5]>>>>)
<1>7. n1 \in Residues /\ Same(n1, p1) /\ k4 \in Residues /\ Same(k4, q4)
  BY <1>1, <1>2, Operations
<1>8. n2 \in Residues /\ Same(n2, p2) /\ k3 \in Residues /\ Same(k3, q3)
  BY <1>1, <1>2, MacZero2
<1>9. n3 \in Residues /\ Same(n3, p3) /\ k2 \in Residues /\ Same(k2, q2)
  BY <1>1, <1>2, MacZero3
<1>10. k1 \in Residues /\ Same(k1, q1) /\ n4 \in Residues /\ Same(n4, p4)
  <2> HIDE DEF ps1, ps4, q1, p4
  <2> QED
    BY <1>5, <1>6, MacZero4
<1>11. r5 \in Residues /\ Same(r5, Row(m, z)) /\ Row(m, z) \in Int
  <2> DEFINE x == m.s * z[1] + m.t * z[2] + m.u * z[3]
             y == m.v * z[4] + m.w * z[5]
  <2>1. n5 \in Residues /\ Same(n5, x)
    BY <1>1, <1>2, MacZero3
  <2>2. x \in Int /\ y \in Int /\ Row(m, z) = x + y
    BY <1>1, <1>2, <1>3 DEF Row
  <2> HIDE DEF n5
  <2>3. r5 \in Residues /\ Same(r5, n5 + y)
    BY <1>1, <1>2, <2>1, Mac2
  <2> HIDE DEF x, y
  <2>4. Same(n5 + y, x + y)
    BY <2>1, <2>2, ResiduesAreInts, SameRefl, SameSum
  <2> QED
    BY <2>2, <2>3, <2>4 DEF Same
<1>12. mrg_apply_transition(m, z) = <<mod_mac_y(n1, k1), mod_mac_y(n2, k2),
                                      mod_mac_y(n3, k3), mod_mac_y(n4, k4), r5>>
  BY DEF mrg_apply_transition
<1>13. App(m, z) = <<p1 + q1 * Y, p2 + q2 * Y, p3 + q3 * Y, p4 + q4 * Y, Row(m, z)>>
  BY DEF App
<1> HIDE DEF n1, n2, n3, n4, r5, k1, k2, k3, k4, p1, p2, p3, p4, q1, q2, q3, q4
<1>14. /\ mod_mac_y(n1, k1) \in Residues /\ Same(mod_mac_y(n1, k1), p1 + q1 * Y)
       /\ mod_mac_y(n2, k2) \in Residues /\ Same(mod_mac_y(n2, k2), p2 + q2 * Y)
       /\ mod_mac_y(n3, k3) \in Residues /\ Same(mod_mac_y(n3, k3), p3 + q3 * Y)
       /\ mod_mac_y(n4, k4) \in Residues /\ Same(mod_mac_y(n4, k4), p4 + q4 * Y)
  BY <1>4, <1>7, <1>8, <1>9, <1>10, MacYOf
<1>15. \A p, q \in Int : p + q * Y \in Int
  BY Sizes
<1>16. \A i \in 1 .. 5 : i = 1 \/ i = 2 \/ i = 3 \/ i = 4 \/ i = 5
  OBVIOUS
<1> DEFINE app == mrg_apply_transition(m, z)
<1>17. app \in States
  BY <1>11, <1>12, <1>14 DEF States
<1>18. /\ App(m, z)[1] \in Int /\ App(m, z)[2] \in Int /\ App(m, z)[3] \in Int
       /\ App(m, z)[4] \in Int /\ App(m, z)[5] \in Int
  BY <1>4, <1>11, <1>13, <1>15
<1>19. /\ Same(app[1], App(m, z)[1]) /\ Same(app[2], App(m, z)[2])
       /\ Same(app[3], App(m, z)[3]) /\ Same(app[4], App(m, z)[4])
       /\ Same(app[5], App(m, z)[5])
  BY <1>11, <1>12, <1>13, <1>14
<1> QED
  BY <1>16, <1>17, <1>18, <1>19

\* One more step multiplies the factors of the first two numbers into the next factor.
LEMMA Shift ==
  ASSUME NEW f \in Int, NEW next \in Int, NEW t \in Int, NEW e \in Int, NEW x \in Int,
         NEW y \in Int, NEW rest \in Int,
         Same(e, x * X + y * Y), Same(next, f * X + t)
  PROVE  Same(f * e + t * x + rest, next * x + (f * y) * Y + rest)
<1>1. X \in Int /\ Y \in Int
  BY Sizes
<1> DEFINE g == f * (x * X + y * Y)
           h == (f * X + t) * x
           k == (f * y) * Y + rest
<1>2. /\ g \in Int /\ h \in Int /\ k \in Int /\ x * X + y * Y \in Int /\ f * X + t \in Int
      /\ f * e \in Int /\ t * x + rest \in Int /\ next * x \in Int
  BY <1>1
<1>3. Same(f * e, g)
  BY <1>2, SameRefl, SameProduct
<1>4. Same(h, next * x)
  <2>1. Same(f * X + t, next)
    BY DEF Same
  <2> QED
    BY <1>2, <2>1, SameRefl, SameProduct
<1>5. g + (t * x + rest) = h + k
  BY <1>1
<1> HIDE DEF g, h, k
<1>6. Same(f * e + (t * x + rest), g + (t * x + rest))
  BY <1>2, <1>3, SameRefl, SameSum
<1>7. Same(h + k, next * x + k)
  BY <1>2, <1>4, SameRefl, SameSum
<1>8. Same(f * e + (t * x + rest), next * x + k)
  BY <1>5, <1>6, <1>7 DEF Same
<1>9. /\ f * e + t * x + rest = f * e + (t * x + rest)
      /\ next * x + (f * y) * Y + rest = next * x + k
  BY <1>1 DEF k
<1> QED
  BY <1>8, <1>9

LEMMA SameTrans ==
  ASSUME NEW a, NEW b, NEW c, Same(a, b), Same(b, c)
  PROVE  Same(a, c)
BY DEF Same

\* The row applied to the state after so many steps.
LEMMA RowOfSteps ==
  ASSUME NEW m \in Matrices, Cached(m), NEW z \in States
  PROVE  \A i \in 0 .. 4 : Same(Row(m, Steps(z, i)), App(m, z)[5 - i])
<1> DEFINE y1 == Steps(z, 1)
           y2 == Steps(z, 2)
           y3 == Steps(z, 3)
           y4 == Steps(z, 4)
<1>1. /\ y1 \in States /\ y2 \in States /\ y3 \in States /\ y4 \in States
      /\ y1 = mrg_orig_step(z) /\ y2 = mrg_orig_step(y1)
      /\ y3 = mrg_orig_step(y2) /\ y4 = mrg_orig_step(y3)
  <2>1. /\ Steps(z, 0) = z /\ \A n \in Nat : Steps(z, n) \in States
        /\ \A n \in Nat : Steps(z, n + 1) = mrg_orig_step(Steps(z, n))
    BY StepsAre
  <2>2. Steps(z, 0 + 1) = mrg_orig_step(Steps(z, 0))
    BY <2>1
  <2>3. Steps(z, 1 + 1) = mrg_orig_step(Steps(z, 1))
    BY <2>1
  <2>4. Steps(z, 2 + 1) = mrg_orig_step(Steps(z, 2))
    BY <2>1
  <2>5. Steps(z, 3 + 1) = mrg_orig_step(Steps(z, 3))
    BY <2>1
  <2> QED
    BY <2>1, <2>2, <2>3, <2>4, <2>5
<1>2. Row(m, Steps(z, 0)) = App(m, z)[5]
  BY StepsAre DEF App
<1> HIDE DEF y1, y2, y3, y4
<1> DEFINE e1 == y1[1]
           e2 == y2[1]
           e3 == y3[1]
           e4 == y4[1]
           z1 == z[1]
           z2 == z[2]
           z3 == z[3]
           z4 == z[4]
           z5 == z[5]
<1>3. /\ Same(e1, z1 * X + z5 * Y)
      /\ y1[2] = z1 /\ y1[3] = z2 /\ y1[4] = z3 /\ y1[5] = z4
  BY <1>1, StepType
<1>4. /\ Same(e2, e1 * X + z4 * Y)
      /\ y2[2] = e1 /\ y2[3] = z1 /\ y2[4] = z2 /\ y2[5] = z3
  <2>1. Same(y2[1], y1[1] * X + y1[5] * Y) /\ \A i \in 1 .. 4 : y2[i + 1] = y1[i]
    BY <1>1, StepType
  <2> QED
    BY <1>3, <2>1
<1>5. /\ Same(e3, e2 * X + z3 * Y)
      /\ y3[2] = e2 /\ y3[3] = e1 /\ y3[4] = z1 /\ y3[5] = z2
  <2>1. Same(y3[1], y2[1] * X + y2[5] * Y) /\ \A i \in 1 .. 4 : y3[i + 1] = y2[i]
    BY <1>1, StepType
  <2> QED
    BY <1>4, <2>1
<1>6. /\ Same(e4, e3 * X + z2 * Y)
      /\ y4[2] = e3 /\ y4[3] = e2 /\ y4[4] = e1 /\ y4[5] = z1
  <2>1. Same(y4[1], y3[1] * X + y3[5] * Y) /\ \A i \in 1 .. 4 : y4[i + 1] = y3[i]
    BY <1>1, StepType
  <2> QED
    BY <1>5, <2>1
<1> DEFINE s == m.s
           t == m.t
           u == m.u
           v == m.v
           w == m.w
           a == m.a
           b == m.b
           c == m.c
           d == m.d
<1>7. /\ e1 \in Int /\ e2 \in Int /\ e3 \in Int /\ e4 \in Int
      /\ z1 \in Int /\ z2 \in Int /\ z3 \in Int /\ z4 \in Int /\ z5 \in Int
  BY <1>1, ResiduesAreInts DEF States
<1>8. /\ s \in Int /\ t \in Int /\ u \in Int /\ v \in Int /\ w \in Int
      /\ a \in Int /\ b \in Int /\ c \in Int /\ d \in Int /\ X \in Int /\ Y \in Int
  BY ResiduesAreInts, Sizes DEF Matrices
<1>9. /\ Same(a, s * X + t) /\ Same(b, a * X + u) /\ Same(c, b * X + v)
      /\ Same(d, c * X + w)
  BY DEF Cached
<1>10. /\ Row(m, y1) = s * e1 + t * z1 + u * z2 + v * z3 + w * z4
       /\ Row(m, y2) = s * e2 + t * e1 + u * z1 + v * z2 + w * z3
       /\ Row(m, y3) = s * e3 + t * e2 + u * e1 + v * z1 + w * z2
       /\ Row(m, y4) = s * e4 + t * e3 + u * e2 + v * e1 + w * z1
  BY <1>3, <1>4, <1>5, <1>6 DEF Row
<1>11. /\ App(m, z)[4] = a * z1 + u * z2 + v * z3 + w * z4 + (s * z5) * Y
       /\ App(m, z)[3] = b * z1 + v * z2 + w * z3 + (s * z4 + a * z5) * Y
       /\ App(m, z)[2] = c * z1 + w * z2 + (s * z3 + a * z4 + b * z5) * Y
       /\ App(m, z)[1] = d * z1 + (s * z2 + a * z3 + b * z4 + c * z5) * Y
  BY DEF App
<1> HIDE DEF e1, e2, e3, e4, z1, z2, z3, z4, z5, s, t, u, v, w, a, b, c, d
<1>12. Same(Row(m, y1), App(m, z)[4])
  <2> DEFINE r == u * z2 + v * z3 + w * z4
  <2>1. r \in Int
    BY <1>7, <1>8
  <2>2. Row(m, y1) = s * e1 + t * z1 + r
    BY <1>7, <1>8, <1>10
  <2>3. App(m, z)[4] = a * z1 + (s * z5) * Y + r
    BY <1>7, <1>8, <1>11
  <2> HIDE DEF r
  <2>4. Same(s * e1 + t * z1 + r, a * z1 + (s * z5) * Y + r)
    BY <1>3, <1>7, <1>8, <1>9, <2>1, Shift
  <2> QED
    BY <2>2, <2>3, <2>4
<1>13. Same(Row(m, y2), App(m, z)[3])
  <2> DEFINE r == u * z1 + v * z2 + w * z3
             q == v * z2 + w * z3 + (s * z4) * Y
  <2>1. r \in Int /\ q \in Int
    BY <1>7, <1>8
  <2>2. Row(m, y2) = s * e2 + t * e1 + r
    BY <1>7, <1>8, <1>10
  <2>3. a * e1 + (s * z4) * Y + r = a * e1 + u * z1 + q
    BY <1>7, <1>8
  <2>4. App(m, z)[3] = b * z1 + (a * z5) * Y + q
    BY <1>7, <1>8, <1>11
  <2> HIDE DEF r, q
  <2>5. Same(s * e2 + t * e1 + r, a * e1 + (s * z4) * Y + r)
    BY <1>4, <1>7, <1>8, <1>9, <2>1, Shift
  <2>6. Same(a * e1 + u * z1 + q, b * z1 + (a * z5) * Y + q)
    BY <1>3, <1>7, <1>8, <1>9, <2>1, Shift
  <2> QED
    BY <2>2, <2>3, <2>4, <2>5, <2>6, SameTrans
<1>14. Same(Row(m, y3), App(m, z)[2])
  <2> DEFINE r == u * e1 + v * z1 + w * z2
             q == v * z1 + w * z2 + (s * z3) * Y
             p == w * z2 + (s * z3 + a * z4) * Y
  <2>1. r \in Int /\ q \in Int /\ p \in Int
    BY <1>7, <1>8
  <2>2. Row(m, y3) = s * e3 + t * e2 + r
    BY <1>7, <1>8, <1>10
  <2>3. a * e2 + (s * z3) * Y + r = a * e2 + u * e1 + q
    BY <1>7, <1>8
  <2>4. b * e1 + (a * z4) * Y + q = b * e1 + v * z1 + p
    BY <1>7, <1>8
  <2>5. App(m, z)[2] = c * z1 + (b * z5) * Y + p
    BY <1>7, <1>8, <1>11
  <2> HIDE DEF r, q, p
  <2>6. Same(s * e3 + t * e2 + r, a * e2 + (s * z3) * Y + r)
    BY <1>5, <1>7, <1>8, <1>9, <2>1, Shift
  <2>7. Same(a * e2 + u * e1 + q, b * e1 + (a * z4) * Y + q)
    BY <1>4, <1>7, <1>8, <1>9, <2>1, Shift
  <2>8. Same(b * e1 + v * z1 + p, c * z1 + (b * z5) * Y + p)
    BY <1>3, <1>7, <1>8, <1>9, <2>1, Shift
  <2> QED
    BY <2>2, <2>3, <2>4, <2>5, <2>6, <2>7, <2>8, SameTrans
<1>15. Same(Row(m, y4), App(m, z)[1])
  <2> DEFINE r == u * e2 + v * e1 + w * z1
             q == v * e1 + w * z1 + (s * z2) * Y
             p == w * z1 + (s * z2 + a * z3) * Y
             o == (s * z2 + a * z3 + b * z4) * Y
  <2>1. r \in Int /\ q \in Int /\ p \in Int /\ o \in Int
    BY <1>7, <1>8
  <2>2. Row(m, y4) = s * e4 + t * e3 + r
    BY <1>7, <1>8, <1>10
  <2>3. a * e3 + (s * z2) * Y + r = a * e3 + u * e2 + q
    BY <1>7, <1>8
  <2>4. b * e2 + (a * z3) * Y + q = b * e2 + v * e1 + p
    BY <1>7, <1>8
  <2>5. c * e1 + (b * z4) * Y + p = c * e1 + w * z1 + o
    BY <1>7, <1>8
  <2>6. App(m, z)[1] = d * z1 + (c * z5) * Y + o
    BY <1>7, <1>8, <1>11
  <2> HIDE DEF r, q, p, o
  <2>7. Same(s * e4 + t * e3 + r, a * e3 + (s * z2) * Y + r)
    BY <1>6, <1>7, <1>8, <1>9, <2>1, Shift
  <2>8. Same(a * e3 + u * e2 + q, b * e2 + (a * z3) * Y + q)
    BY <1>5, <1>7, <1>8, <1>9, <2>1, Shift
  <2>9. Same(b * e2 + v * e1 + p, c * e1 + (b * z4) * Y + p)
    BY <1>4, <1>7, <1>8, <1>9, <2>1, Shift
  <2>10. Same(c * e1 + w * z1 + o, d * z1 + (c * z5) * Y + o)
    BY <1>3, <1>7, <1>8, <1>9, <2>1, Shift
  <2> QED
    BY <2>2, <2>3, <2>4, <2>5, <2>6, <2>7, <2>8, <2>9, <2>10, SameTrans
<1>16. \A i \in 0 .. 4 : i = 0 \/ i = 1 \/ i = 2 \/ i = 3 \/ i = 4
  OBVIOUS
<1>17. 5 - 0 = 5 /\ 5 - 1 = 4 /\ 5 - 2 = 3 /\ 5 - 3 = 2 /\ 5 - 4 = 1
  OBVIOUS
<1>18. Same(Row(m, Steps(z, 0)), App(m, z)[5])
  BY <1>2, SameRefl
<1> QED
  BY <1>12, <1>13, <1>14, <1>15, <1>16, <1>17, <1>18 DEF y1, y2, y3, y4

LEMMA LastOfSteps ==
  ASSUME NEW z \in States, NEW k \in Nat
  PROVE  \A i \in 0 .. 4 : Steps(z, k + i)[5] = Steps(z, k)[5 - i]
<1>1. \A n \in Nat : Steps(z, n) \in States
  BY StepsAre
<1>2. \A n \in Nat : \A i \in 1 .. 4 : Steps(z, n + 1)[i + 1] = Steps(z, n)[i]
  BY <1>1, StepsAre, StepType
<1>3. \A n \in Nat : /\ Steps(z, n + 1)[5] = Steps(z, n)[4]
                     /\ Steps(z, n + 1)[4] = Steps(z, n)[3]
                     /\ Steps(z, n + 1)[3] = Steps(z, n)[2]
                     /\ Steps(z, n + 1)[2] = Steps(z, n)[1]
  <2> SUFFICES ASSUME NEW n \in Nat
               PROVE  /\ Steps(z, n + 1)[5] = Steps(z, n)[4]
                      /\ Steps(z, n + 1)[4] = Steps(z, n)[3]
                      /\ Steps(z, n + 1)[3] = Steps(z, n)[2]
                      /\ Steps(z, n + 1)[2] = Steps(z, n)[1]
    OBVIOUS
  <2>1. /\ Steps(z, n + 1)[4 + 1] = Steps(z, n)[4]
        /\ Steps(z, n + 1)[3 + 1] = Steps(z, n)[3]
        /\ Steps(z, n + 1)[2 + 1] = Steps(z, n)[2]
        /\ Steps(z, n + 1)[1 + 1] = Steps(z, n)[1]
    BY <1>2
  <2> QED
    BY <2>1
<1>4. /\ k + 1 \in Nat /\ k + 2 \in Nat /\ k + 3 \in Nat /\ k + 0 = k
      /\ (k + 1) + 1 = k + 2 /\ (k + 2) + 1 = k + 3 /\ (k + 3) + 1 = k + 4
  OBVIOUS
<1>5. Steps(z, k + 1)[5] = Steps(z, k)[4]
  BY <1>3
<1>6. Steps(z, k + 2)[5] = Steps(z, k)[3]
  BY <1>3, <1>4
<1>7. Steps(z, k + 3)[5] = Steps(z, k)[2]
  BY <1>3, <1>4
<1>8. Steps(z, k + 4)[5] = Steps(z, k)[1]
  BY <1>3, <1>4
<1>9. \A i \in 0 .. 4 : i = 0 \/ i = 1 \/ i = 2 \/ i = 3 \/ i = 4
  OBVIOUS
<1> QED
  BY <1>4, <1>5, <1>6, <1>7, <1>8, <1>9

\* Applying a matrix is making the steps it represents.
LEMMA AppliedIs ==
  ASSUME NEW m, NEW k \in Nat, Represents(m, k), NEW z \in States
  PROVE  mrg_apply_transition(m, z) = Steps(z, k)
<1> DEFINE app == mrg_apply_transition(m, z)
           y == Steps(z, k)
<1>1. m \in Matrices /\ Cached(m)
  BY DEF Represents
<1>2. /\ app \in States /\ \A i \in 1 .. 5 : Same(app[i], App(m, z)[i])
  BY <1>1, AppIs
<1>3. y \in States
  BY StepsAre
<1>4. ASSUME NEW i \in 0 .. 4 PROVE app[5 - i] = y[5 - i]
  <2>1. Steps(z, i) \in States /\ i \in Nat
    BY StepsAre
  <2>2. Same(Row(m, Steps(z, i)), Steps(Steps(z, i), k)[5])
    BY <2>1 DEF Represents
  <2>3. Steps(Steps(z, i), k) = Steps(z, k + i)
    <3>1. i + k = k + i
      OBVIOUS
    <3> QED
      BY <2>1, <3>1, StepsAdd
  <2>4. Steps(z, k + i)[5] = y[5 - i]
    BY LastOfSteps
  <2>5. Same(Row(m, Steps(z, i)), App(m, z)[5 - i])
    BY <1>1, RowOfSteps
  <2>6. 5 - i \in 1 .. 5
    OBVIOUS
  <2>7. Same(app[5 - i], y[5 - i])
    <3>1. Same(app[5 - i], App(m, z)[5 - i])
      BY <1>2, <2>6
    <3> QED
      BY <2>2, <2>3, <2>4, <2>5, <3>1 DEF Same
  <2>8. app[5 - i] \in Residues /\ y[5 - i] \in Residues
    <3>1. \A x \in States : \A j \in 1 .. 5 : x[j] \in Residues
      <4>1. \A j \in 1 .. 5 : j = 1 \/ j = 2 \/ j = 3 \/ j = 4 \/ j = 5
        OBVIOUS
      <4> QED
        BY <4>1 DEF States
    <3> QED
      BY <1>2, <1>3, <2>6, <3>1
  <2> QED
    BY <2>7, <2>8, SameResidue
<1>5. /\ app[5 - 0] = y[5 - 0] /\ app[5 - 1] = y[5 - 1] /\ app[5 - 2] = y[5 - 2]
      /\ app[5 - 3] = y[5 - 3] /\ app[5 - 4] = y[5 - 4]
  BY <1>4
<1> HIDE DEF app, y
<1>6. app[5] = y[5] /\ app[4] = y[4] /\ app[3] = y[3] /\ app[2] = y[2] /\ app[1] = y[1]
  BY <1>5
<1>7. app = <<app[1], app[2], app[3], app[4], app[5]>>
  BY <1>2 DEF States
<1>8. y = <<y[1], y[2], y[3], y[4], y[5]>>
  BY <1>3 DEF States
<1>9. app = y
  BY <1>6, <1>7, <1>8
<1> QED
  BY <1>9 DEF app, y

LEMMA SameTimes ==
  ASSUME NEW a \in Int, NEW b \in Int, NEW c \in Int, Same(a, b)
  PROVE  Same(a * c, b * c)
<1>1. Same(c, c)
  BY SameRefl
<1> QED
  BY <1>1, SameProduct

LEMMA MulY ==
  ASSUME NEW a \in Residues, NEW q \in Int, Same(a, q)
  PROVE  mod_mul_y(a) \in Residues /\ Same(mod_mul_y(a), q * Y)
<1>1. mod_mul_y(a) \in Residues /\ Same(mod_mul_y(a), a * Y)
  BY Operations
<1>2. a \in Int /\ Y \in Int
  BY ResiduesAreInts, Sizes
<1>3. Same(a * Y, q * Y)
  BY <1>2, SameTimes
<1> QED
  BY <1>1, <1>3 DEF Same

LEMMA Onto ==
  ASSUME NEW n, NEW sum \in Residues, NEW p \in Int, NEW q \in Int,
         Same(sum, p), Same(n, sum + q)
  PROVE  Same(n, p + q)
<1>1. Same(sum + q, p + q)
  BY ResiduesAreInts, SameRefl, SameSum
<1> QED
  BY <1>1 DEF Same

\* Congruent rows give congruent numbers.
LEMMA SameRows ==
  ASSUME NEW x, NEW y, NEW z,
         \A i \in 1 .. 5 : x[i] \in Int /\ y[i] \in Int /\ z[i] \in Int /\ Same(x[i], y[i])
  PROVE  Same(x[1] * z[1] + x[2] * z[2] + x[3] * z[3] + x[4] * z[4] + x[5] * z[5],
              y[1] * z[1] + y[2] * z[2] + y[3] * z[3] + y[4] * z[4] + y[5] * z[5])
<1> DEFINE p(i) == x[i] * z[i]
           q(i) == y[i] * z[i]
<1>1. \A i \in 1 .. 5 : p(i) \in Int /\ q(i) \in Int /\ Same(p(i), q(i))
  <2> SUFFICES ASSUME NEW i \in 1 .. 5
               PROVE  p(i) \in Int /\ q(i) \in Int /\ Same(p(i), q(i))
    OBVIOUS
  <2>1. x[i] \in Int /\ y[i] \in Int /\ z[i] \in Int /\ Same(x[i], y[i])
    OBVIOUS
  <2>2. Same(x[i] * z[i], y[i] * z[i])
    BY <2>1, SameTimes
  <2> QED
    BY <2>1, <2>2
<1> HIDE DEF p, q
<1>2. /\ p(1) \in Int /\ p(2) \in Int /\ p(3) \in Int /\ p(4) \in Int /\ p(5) \in Int
      /\ q(1) \in Int /\ q(2) \in Int /\ q(3) \in Int /\ q(4) \in Int /\ q(5) \in Int
      /\ Same(p(1), q(1)) /\ Same(p(2), q(2)) /\ Same(p(3), q(3)) /\ Same(p(4), q(4))
      /\ Same(p(5), q(5))
  BY <1>1
<1>3. Same(p(1) + p(2), q(1) + q(2))
  BY <1>2, SameSum
<1>4. Same(p(1) + p(2) + p(3), q(1) + q(2) + q(3))
  BY <1>2, <1>3, SameSum
<1>5. Same(p(1) + p(2) + p(3) + p(4), q(1) + q(2) + q(3) + q(4))
  BY <1>2, <1>4, SameSum
<1>6. Same(p(1) + p(2) + p(3) + p(4) + p(5), q(1) + q(2) + q(3) + q(4) + q(5))
  BY <1>2, <1>5, SameSum
<1> QED
  BY <1>6 DEF p, q

\* The row of a product is the row of the first matrix applied to what the second makes.
LEMMA MultipliedIs ==
  ASSUME NEW m \in Matrices, NEW n \in Matrices
  PROVE  /\ mrg_multiply(m, n) \in Matrices /\ Cached(mrg_multiply(m, n))
         /\ \A z \in States : Same(Row(mrg_multiply(m, n), z), Row(m, App(n, z)))
<1>1. /\ m.s \in Residues /\ m.t \in Residues /\ m.u \in Residues /\ m.v \in Residues
      /\ m.w \in Residues
  BY DEF Matrices
<1>2. /\ n.s \in Residues /\ n.t \in Residues /\ n.u \in Residues /\ n.v \in Residues
      /\ n.w \in Residues /\ n.a \in Residues /\ n.b \in Residues /\ n.c \in Residues
      /\ n.d \in Residues
  BY DEF Matrices
<1>3. \A x, y \in Residues : x * y \in Int
  BY Products2
<1>4. Y \in Int
  BY Sizes
<1> DEFINE gs == m.s * n.d
           gt == m.s * n.s
           gu == m.s * n.a + m.t * n.s
           gv == m.s * n.b + m.t * n.a + m.u * n.s
           gw == m.s * n.c + m.t * n.b + m.u * n.a + m.v * n.s
           hs == m.t * n.c + m.u * n.b + m.v * n.a + m.w * n.s
           ht == m.t * n.w + m.u * n.v + m.v * n.u + m.w * n.t
           hu == m.u * n.w + m.v * n.v + m.w * n.u
           hv == m.v * n.w + m.w * n.v
           hw == m.w * n.w
<1>5. /\ gs \in Int /\ gt \in Int /\ gu \in Int /\ gv \in Int /\ gw \in Int
      /\ hs \in Int /\ ht \in Int /\ hu \in Int /\ hv \in Int /\ hw \in Int
  BY <1>1, <1>2, <1>3
<1> DEFINE pss == <<<<m.t, n.c>>, <<m.u, n.b>>, <<m.v, n.a>>, <<m.w, n.s>>>>
           pst == <<<<m.t, n.w>>, <<m.u, n.v>>, <<m.v, n.u>>, <<m.w, n.t>>>>
           psw == <<<<m.s, n.c>>, <<m.t, n.b>>, <<m.u, n.a>>, <<m.v, n.s>>>>
           Whole(ps) == ps[1][1] * ps[1][2] + ps[2][1] * ps[2][2]
                          + ps[3][1] * ps[3][2] + ps[4][1] * ps[4][2]
<1>6. /\ pss \in [1 .. 4 -> Residues \X Residues]
      /\ pst \in [1 .. 4 -> Residues \X Residues]
      /\ psw \in [1 .. 4 -> Residues \X Residues]
  BY <1>1, <1>2
<1>7. Whole(pss) = hs /\ Whole(pst) = ht /\ Whole(psw) = gw
  OBVIOUS
<1> DEFINE ks == mod_mul(m.s, n.d)
           lt == mod_mul(m.s, n.s)
           lu == mod_mac(0, <<<<m.s, n.a>>, <<m.t, n.s>>>>)
           lv == mod_mac(0, <<<<m.s, n.b>>, <<m.t, n.a>>, <<m.u, n.s>>>>)
           lw == mod_mac(0, psw)
           kt == mod_mul_y(lt)
           ku == mod_mul_y(lu)
           kv == mod_mul_y(lv)
           kw == mod_mul_y(lw)
           rs == mod_mac(ks, pss)
           rt == mod_mac(kt, pst)
           ru == mod_mac(ku, <<<<m.u, n.w>>, <<m.v, n.v>>, <<m.w, n.u>>>>)
           rv == mod_mac(kv, <<<<m.v, n.w>>, <<m.w, n.v>>>>)
           rw == mod_mac(kw, <<<<m.w, n.w>>>>)
<1>8. mrg_multiply(m, n) = mrg_update_cache(rs, rt, ru, rv, rw)
  BY DEF mrg_multiply
<1>9. ks \in Residues /\ Same(ks, gs) /\ lt \in Residues /\ Same(lt, gt)
  BY <1>1, <1>2, Operations
<1>10. lu \in Residues /\ Same(lu, gu)
  BY <1>1, <1>2, MacZero2
<1>11. lv \in Residues /\ Same(lv, gv)
  BY <1>1, <1>2, MacZero3
<1>12. lw \in Residues /\ Same(lw, gw)
  <2> HIDE DEF psw, gw
  <2> QED
    BY <1>6, <1>7, MacZero4
<1>13. /\ kt \in Residues /\ Same(kt, gt * Y) /\ ku \in Residues /\ Same(ku, gu * Y)
       /\ kv \in Residues /\ Same(kv, gv * Y) /\ kw \in Residues /\ Same(kw, gw * Y)
  <2> HIDE DEF lt, lu, lv, lw, gt, gu, gv, gw
  <2> QED
    BY <1>5, <1>9, <1>10, <1>11, <1>12, MulY
<1> DEFINE x == <<gs + hs, gt * Y + ht, gu * Y + hu, gv * Y + hv, gw * Y + hw>>
<1>14. rs \in Residues /\ Same(rs, gs + hs)
  <2> HIDE DEF ks, pss, gs, hs
  <2>1. rs \in Residues /\ Same(rs, ks + Whole(pss))
    BY <1>6, <1>9, Mac4
  <2> QED
    BY <1>5, <1>7, <1>9, <2>1, Onto
<1>15. rt \in Residues /\ Same(rt, gt * Y + ht)
  <2> HIDE DEF kt, pst, gt, ht
  <2>1. rt \in Residues /\ Same(rt, kt + Whole(pst))
    BY <1>6, <1>13, Mac4
  <2>2. gt * Y \in Int
    BY <1>4, <1>5
  <2> QED
    BY <1>5, <1>7, <1>13, <2>1, <2>2, Onto
<1>16. ru \in Residues /\ Same(ru, gu * Y + hu)
  <2> HIDE DEF ku, gu
  <2>1. ru \in Residues /\ Same(ru, ku + hu)
    <3>1. /\ ku \in Residues /\ m.u \in Residues /\ n.w \in Residues /\ m.v \in Residues
          /\ n.v \in Residues /\ m.w \in Residues /\ n.u \in Residues
      BY <1>1, <1>2, <1>13
    <3> QED
      BY <3>1, Mac3
  <2>2. gu * Y \in Int
    BY <1>4, <1>5
  <2> HIDE DEF hu, ru
  <2> QED
    BY <1>5, <1>13, <2>1, <2>2, Onto
<1>17. rv \in Residues /\ Same(rv, gv * Y + hv)
  <2> HIDE DEF kv, gv
  <2>1. rv \in Residues /\ Same(rv, kv + hv)
    BY <1>1, <1>2, <1>13, Mac2
  <2>2. gv * Y \in Int
    BY <1>4, <1>5
  <2> HIDE DEF hv, rv
  <2> QED
    BY <1>5, <1>13, <2>1, <2>2, Onto
<1>18. rw \in Residues /\ Same(rw, gw * Y + hw)
  <2> HIDE DEF kw, gw
  <2>1. rw \in Residues /\ Same(rw, kw + hw)
    BY <1>1, <1>2, <1>13, Mac1
  <2>2. gw * Y \in Int
    BY <1>4, <1>5
  <2> HIDE DEF hw, rw
  <2> QED
    BY <1>5, <1>13, <2>1, <2>2, Onto
<1> DEFINE r == mrg_multiply(m, n)
<1>19. /\ r \in Matrices /\ Cached(r)
       /\ r.s = rs /\ r.t = rt /\ r.u = ru /\ r.v = rv /\ r.w = rw
  <2> DEFINE q == mrg_update_cache(rs, rt, ru, rv, rw)
  <2> HIDE DEF rs, rt, ru, rv, rw
  <2>1. /\ q \in Matrices /\ Cached(q)
        /\ q.s = rs /\ q.t = rt /\ q.u = ru /\ q.v = rv /\ q.w = rw
    BY <1>14, <1>15, <1>16, <1>17, <1>18, UpdateCache
  <2> QED
    BY <1>8, <2>1
<1>20. ASSUME NEW z \in States PROVE Same(Row(r, z), Row(m, App(n, z)))
  <2>1. /\ z[1] \in Residues /\ z[2] \in Residues /\ z[3] \in Residues
        /\ z[4] \in Residues /\ z[5] \in Residues
    BY DEF States
  <2> DEFINE y == <<rs, rt, ru, rv, rw>>
  <2>2. Row(r, z) = y[1] * z[1] + y[2] * z[2] + y[3] * z[3] + y[4] * z[4] + y[5] * z[5]
    BY <1>19 DEF Row
  <2>3. \A i \in 1 .. 5 : y[i] \in Int /\ x[i] \in Int /\ z[i] \in Int /\ Same(y[i], x[i])
    <3> HIDE DEF rs, rt, ru, rv, rw, gs, gt, gu, gv, gw, hs, ht, hu, hv, hw
    <3>1. \A i \in 1 .. 5 : i = 1 \/ i = 2 \/ i = 3 \/ i = 4 \/ i = 5
      OBVIOUS
    <3>2. /\ gs + hs \in Int /\ gt * Y + ht \in Int /\ gu * Y + hu \in Int
          /\ gv * Y + hv \in Int /\ gw * Y + hw \in Int
      BY <1>4, <1>5
    <3> QED
      BY <1>14, <1>15, <1>16, <1>17, <1>18, <2>1, <3>1, <3>2, ResiduesAreInts
  <2>4. Same(y[1] * z[1] + y[2] * z[2] + y[3] * z[3] + y[4] * z[4] + y[5] * z[5],
             x[1] * z[1] + x[2] * z[2] + x[3] * z[3] + x[4] * z[4] + x[5] * z[5])
    <3> HIDE DEF x, y
    <3> QED
      BY <2>3, SameRows
  <2>5. x[1] * z[1] + x[2] * z[2] + x[3] * z[3] + x[4] * z[4] + x[5] * z[5]
          = Row(m, App(n, z))
    <3>1. /\ m.s \in Int /\ m.t \in Int /\ m.u \in Int /\ m.v \in Int /\ m.w \in Int
          /\ n.s \in Int /\ n.t \in Int /\ n.u \in Int /\ n.v \in Int /\ n.w \in Int
          /\ n.a \in Int /\ n.b \in Int /\ n.c \in Int /\ n.d \in Int
          /\ z[1] \in Int /\ z[2] \in Int /\ z[3] \in Int /\ z[4] \in Int /\ z[5] \in Int
      BY <1>1, <1>2, <2>1, ResiduesAreInts
    <3>2. /\ x[1] = gs + hs /\ x[2] = gt * Y + ht /\ x[3] = gu * Y + hu
          /\ x[4] = gv * Y + hv /\ x[5] = gw * Y + hw
      OBVIOUS
    <3>3. Row(m, App(n, z)) =
            m.s * (n.d * z[1] + (n.s * z[2] + n.a * z[3] + n.b * z[4] + n.c * z[5]) * Y)
            + m.t * (n.c * z[1] + n.w * z[2] + (n.s * z[3] + n.a * z[4] + n.b * z[5]) * Y)
            + m.u * (n.b * z[1] + n.v * z[2] + n.w * z[3] + (n.s * z[4] + n.a * z[5]) * Y)
            + m.v * (n.a * z[1] + n.u * z[2] + n.v * z[3] + n.w * z[4] + (n.s * z[5]) * Y)
            + m.w * (n.s * z[1] + n.t * z[2] + n.u * z[3] + n.v * z[4] + n.w * z[5])
      BY DEF Row, App
    <3> HIDE DEF x
    <3> QED
      BY <1>4, <3>1, <3>2, <3>3
  <2> QED
    BY <2>2, <2>4, <2>5
<1> QED
  BY <1>19, <1>20

LEMMA OneIsResidue == 1 \in Residues
BY Sizes DEF Residues

LEMMA IdentityIs == Represents(mrg_identity, 0)
<1> DEFINE m == mrg_update_cache(0, 0, 0, 0, 1)
<1>1. /\ m \in Matrices /\ Cached(m)
      /\ m.s = 0 /\ m.t = 0 /\ m.u = 0 /\ m.v = 0 /\ m.w = 1
  BY Zero, OneIsResidue, UpdateCache
<1>2. mrg_identity = m
  BY DEF mrg_identity
<1> HIDE DEF m
<1>3. ASSUME NEW z \in States PROVE Same(Row(m, z), Steps(z, 0)[5])
  <2>1. z[1] \in Int /\ z[2] \in Int /\ z[3] \in Int /\ z[4] \in Int /\ z[5] \in Int
    BY ResiduesAreInts DEF States
  <2>2. Row(m, z) = z[5]
    BY <1>1, <2>1 DEF Row
  <2> QED
    BY <2>2, StepsAre, SameRefl
<1> QED
  BY <1>1, <1>2, <1>3 DEF Represents

LEMMA AIs == Represents(mrg_A, 1)
<1> DEFINE m == mrg_update_cache(0, 0, 0, 1, 0)
<1>1. /\ m \in Matrices /\ Cached(m)
      /\ m.s = 0 /\ m.t = 0 /\ m.u = 0 /\ m.v = 1 /\ m.w = 0
  BY Zero, OneIsResidue, UpdateCache
<1>2. mrg_A = m
  BY DEF mrg_A
<1> HIDE DEF m
<1>3. ASSUME NEW z \in States PROVE Same(Row(m, z), Steps(z, 1)[5])
  <2>1. z[1] \in Int /\ z[2] \in Int /\ z[3] \in Int /\ z[4] \in Int /\ z[5] \in Int
    BY ResiduesAreInts DEF States
  <2>2. Row(m, z) = z[4]
    BY <1>1, <2>1 DEF Row
  <2>3. Steps(z, 0 + 1)[5] = Steps(z, 0)[5 - 1]
    BY LastOfSteps
  <2>4. Steps(z, 1)[5] = z[4]
    BY <2>3, StepsAre
  <2> QED
    BY <2>2, <2>4, SameRefl
<1> QED
  BY <1>1, <1>2, <1>3 DEF Represents

\* A product represents the steps of both.
LEMMA ProductIs ==
  ASSUME NEW m, NEW n, NEW j \in Nat, NEW k \in Nat, Represents(m, j), Represents(n, k)
  PROVE  Represents(mrg_multiply(m, n), j + k)
<1> DEFINE r == mrg_multiply(m, n)
<1>1. m \in Matrices /\ n \in Matrices
  BY DEF Represents
<1>2. r \in Matrices /\ Cached(r) /\ \A z \in States : Same(Row(r, z), Row(m, App(n, z)))
  BY <1>1, MultipliedIs
<1> HIDE DEF r
<1>3. ASSUME NEW z \in States PROVE Same(Row(r, z), Steps(z, j + k)[5])
  <2> DEFINE y == Steps(z, k)
             app == App(n, z)
             row == <<m.s, m.t, m.u, m.v, m.w>>
  <2>1. y \in States /\ mrg_apply_transition(n, z) = y
    BY StepsAre, AppliedIs
  <2>2. \A i \in 1 .. 5 : app[i] \in Int /\ Same(y[i], app[i])
    <3>1. \A i \in 1 .. 5 : /\ App(n, z)[i] \in Int
                            /\ Same(mrg_apply_transition(n, z)[i], App(n, z)[i])
      BY <1>1, AppIs
    <3> QED
      BY <2>1, <3>1
  <2> HIDE DEF y, app
  <2>3. \A i \in 1 .. 5 : y[i] \in Int /\ row[i] \in Int
    <3>1. \A i \in 1 .. 5 : i = 1 \/ i = 2 \/ i = 3 \/ i = 4 \/ i = 5
      OBVIOUS
    <3>2. /\ y[1] \in Int /\ y[2] \in Int /\ y[3] \in Int /\ y[4] \in Int /\ y[5] \in Int
      BY <2>1, ResiduesAreInts DEF States
    <3>3. m.s \in Int /\ m.t \in Int /\ m.u \in Int /\ m.v \in Int /\ m.w \in Int
      BY <1>1, ResiduesAreInts DEF Matrices
    <3> QED
      BY <3>1, <3>2, <3>3
  <2>4. /\ row[1] = m.s /\ row[2] = m.t /\ row[3] = m.u /\ row[4] = m.v /\ row[5] = m.w
    OBVIOUS
  <2> HIDE DEF row
  <2>5. Same(y[1] * row[1] + y[2] * row[2] + y[3] * row[3] + y[4] * row[4] + y[5] * row[5],
             app[1] * row[1] + app[2] * row[2] + app[3] * row[3] + app[4] * row[4]
               + app[5] * row[5])
    BY <2>2, <2>3, SameRows
  <2>6. \A i \in 1 .. 5 : y[i] * row[i] = row[i] * y[i] /\ app[i] * row[i] = row[i] * app[i]
    BY <2>2, <2>3
  <2>7. Row(m, y) = y[1] * row[1] + y[2] * row[2] + y[3] * row[3] + y[4] * row[4] + y[5] * row[5]
    BY <2>4, <2>6 DEF Row
  <2>8. Row(m, app) = app[1] * row[1] + app[2] * row[2] + app[3] * row[3] + app[4] * row[4]
                        + app[5] * row[5]
    BY <2>4, <2>6 DEF Row
  <2>9. Same(Row(m, y), Row(m, app))
    BY <2>5, <2>7, <2>8
  <2>10. Same(Row(m, y), Steps(y, j)[5])
    BY <2>1 DEF Represents
  <2>11. Steps(y, j) = Steps(z, j + k)
    <3>1. Steps(Steps(z, k), j) = Steps(z, k + j)
      BY StepsAdd
    <3>2. k + j = j + k
      OBVIOUS
    <3> QED
      BY <3>1, <3>2 DEF y
  <2>12. Same(Row(r, z), Row(m, app))
    BY <1>2 DEF app
  <2> QED
    BY <2>9, <2>10, <2>11, <2>12 DEF Same
<1> QED
  BY <1>2, <1>3 DEF Represents, r

\* The loop of mrg_power.
PowerStates == [result : Matrices, current : Matrices, exponent : Nat]

LEMMA PowerTurnType ==
  ASSUME NEW p \in PowerStates
  PROVE  PowerTurn(p) \in PowerStates
<1>1. p.result \in Matrices /\ p.current \in Matrices /\ p.exponent \in Nat
  BY DEF PowerStates
<1>2. /\ mrg_multiply(p.result, p.current) \in Matrices
      /\ mrg_multiply(p.current, p.current) \in Matrices
  BY <1>1, MultipliedIs
<1>3. p.exponent \div 2 \in Nat
  BY <1>1
<1> QED
  BY <1>1, <1>2, <1>3 DEF PowerTurn, PowerStates

LEMMA PowerLoop ==
  ASSUME NEW m \in Matrices, NEW e \in Nat
  PROVE  \E after \in [Nat -> PowerStates] :
           /\ after[0] = [result |-> mrg_identity, current |-> m, exponent |-> e]
           /\ \A i \in Nat : after[i + 1] = PowerTurn(after[i])
           /\ mrg_power(m, e) = after[e].result
<1> DEFINE start == [result |-> mrg_identity, current |-> m, exponent |-> e]
           G == [p \in Nat \X PowerStates |-> PowerTurn(p[2])]
           IsAfter(g) == g = [i \in Nat |-> IF i = 0 THEN start ELSE PowerTurn(g[i - 1])]
           after == CHOOSE g : IsAfter(g)
<1>1. start \in PowerStates
  BY IdentityIs DEF PowerStates, Represents
<1>2. G \in [Nat \X PowerStates -> PowerStates]
  BY PowerTurnType
<1>3. \A i \in Nat, y \in PowerStates : G[<<i, y>>] = PowerTurn(y)
  OBVIOUS
<1>4. mrg_power(m, e) = after[e].result
  BY DEF mrg_power
<1> HIDE DEF G, start
<1>5. PICK f : GoesOn(f, PowerStates, start, G)
  BY <1>1, <1>2, Recursion
<1>6. IsAfter(f)
  <2>1. ASSUME NEW i \in Nat, i # 0 PROVE f[i] = PowerTurn(f[i - 1])
    <3>1. i - 1 \in Nat /\ (i - 1) + 1 = i
      BY <2>1
    <3>2. f[(i - 1) + 1] = G[<<i - 1, f[i - 1]>>] /\ f[i - 1] \in PowerStates
      BY <1>5, <3>1 DEF GoesOn
    <3> QED
      BY <1>3, <3>1, <3>2
  <2>2. f = [i \in Nat |-> f[i]]
    BY <1>5 DEF GoesOn
  <2> QED
    BY <1>5, <2>1, <2>2 DEF GoesOn
<1>7. IsAfter(after)
  BY <1>6
<1> HIDE DEF after
<1>8. after[0] = start
  BY <1>7
<1>9. \A i \in Nat : after[i + 1] = PowerTurn(after[i])
  <2> SUFFICES ASSUME NEW i \in Nat PROVE after[i + 1] = PowerTurn(after[i])
    OBVIOUS
  <2>1. i + 1 \in Nat /\ i + 1 # 0 /\ (i + 1) - 1 = i
    OBVIOUS
  <2> QED
    BY <1>7, <2>1
<1>10. \A i \in Nat : after[i] \in PowerStates
  <2> DEFINE wrong == {i \in Nat : after[i] \notin PowerStates}
  <2>1. SUFFICES ASSUME wrong # {} PROVE FALSE
    OBVIOUS
  <2>2. PICK i \in wrong : \A k \in wrong : i <= k
    <3>1. wrong \in SUBSET Nat
      OBVIOUS
    <3> HIDE DEF wrong
    <3> QED
      BY <2>1, <3>1, Least
  <2>3. i - 1 \in Nat /\ i - 1 \notin wrong /\ (i - 1) + 1 = i
    BY <1>1, <1>8, <2>2
  <2>4. after[i - 1] \in PowerStates
    BY <2>3
  <2>5. after[(i - 1) + 1] = PowerTurn(after[i - 1])
    BY <1>9, <2>3
  <2> QED
    BY <2>2, <2>3, <2>4, <2>5, PowerTurnType
<1>11. after \in [Nat -> PowerStates]
  BY <1>7, <1>10
<1> QED
  BY <1>4, <1>8, <1>9, <1>11 DEF start

LEMMA PowerTurnIs ==
  ASSUME NEW p \in PowerStates, NEW r \in Nat, NEW c \in Nat,
         Represents(p.result, r), Represents(p.current, c)
  PROVE  \E r2, c2 \in Nat :
           /\ Represents(PowerTurn(p).result, r2) /\ Represents(PowerTurn(p).current, c2)
           /\ r2 + PowerTurn(p).exponent * c2 = r + p.exponent * c
           /\ PowerTurn(p).exponent = 0 \/ PowerTurn(p).exponent < p.exponent
<1> DEFINE x == p.exponent
           y == PowerTurn(p)
           q == x \div 2
<1>1. x \in Nat
  BY DEF PowerStates
<1>2. CASE x = 0
  <2>1. y = p
    BY <1>2 DEF PowerTurn
  <2> QED
    BY <1>2, <2>1
<1>3. CASE x # 0
  <2>1. /\ y.result = (IF x % 2 = 1 THEN mrg_multiply(p.result, p.current) ELSE p.result)
        /\ y.current = mrg_multiply(p.current, p.current)
        /\ y.exponent = q
    BY <1>3 DEF PowerTurn
  <2>2. q \in Nat /\ q < x /\ x = 2 * q + (x % 2) /\ x % 2 \in {0, 1}
    <3> HIDE DEF x
    <3> QED
      BY <1>1, <1>3
  <2>3. /\ Represents(mrg_multiply(p.current, p.current), c + c)
        /\ Represents(mrg_multiply(p.result, p.current), r + c)
    BY ProductIs
  <2>4. q * (c + c) = (2 * q) * c
    BY <2>2
  <2> HIDE DEF y, q, x
  <2>5. CASE x % 2 = 1
    <3>1. Represents(y.result, r + c) /\ Represents(y.current, c + c)
      BY <2>1, <2>3, <2>5
    <3>2. x * c = (2 * q) * c + c
      BY <2>2, <2>5
    <3>3. (r + c) + y.exponent * (c + c) = r + x * c
      <4>1. (2 * q) * c \in Nat
        BY <2>2
      <4> QED
        BY <2>1, <2>4, <3>2, <4>1
    <3>4. r + c \in Nat /\ c + c \in Nat
      OBVIOUS
    <3> QED
      BY <2>1, <2>2, <3>1, <3>3, <3>4 DEF x, y
  <2>6. CASE x % 2 = 0
    <3>1. Represents(y.result, r) /\ Represents(y.current, c + c)
      BY <2>1, <2>3, <2>6
    <3>2. x * c = (2 * q) * c
      BY <2>2, <2>6
    <3>3. r + y.exponent * (c + c) = r + x * c
      BY <2>1, <2>4, <3>2
    <3>4. c + c \in Nat
      OBVIOUS
    <3> QED
      BY <2>1, <2>2, <3>1, <3>3, <3>4 DEF x, y
  <2> QED
    BY <2>2, <2>5, <2>6
<1> QED
  BY <1>2, <1>3

\* mrg_power raises to the power.
LEMMA PowerIs ==
  ASSUME NEW m, NEW k \in Nat, NEW e \in Nat, Represents(m, k)
  PROVE  Represents(mrg_power(m, e), e * k)
<1>1. m \in Matrices
  BY DEF Represents
<1>2. PICK after \in [Nat -> PowerStates] :
        /\ after[0] = [result |-> mrg_identity, current |-> m, exponent |-> e]
        /\ \A i \in Nat : after[i + 1] = PowerTurn(after[i])
        /\ mrg_power(m, e) = after[e].result
  BY <1>1, PowerLoop
<1> DEFINE Good(p, r, c) == /\ Represents(p.result, r) /\ Represents(p.current, c)
                            /\ r + p.exponent * c = e * k
           Ends(p, i) == p.exponent = 0 \/ p.exponent + i <= e
           good == {i \in Nat : /\ \E r, c \in Nat : Good(after[i], r, c)
                                /\ Ends(after[i], i)}
<1>3. 0 \in good
  <2>1. Good(after[0], 0, k)
    BY <1>2, IdentityIs
  <2>2. Ends(after[0], 0)
    BY <1>2
  <2> HIDE DEF Good, Ends
  <2> QED
    BY <2>1, <2>2
<1>4. ASSUME NEW i \in Nat, i \in good PROVE i + 1 \in good
  <2> DEFINE p == after[i]
             y == after[i + 1]
  <2>1. p \in PowerStates /\ y \in PowerStates /\ y = PowerTurn(p)
    BY <1>2
  <2>2. PICK r \in Nat, c \in Nat : Good(p, r, c)
    BY <1>4
  <2>3. Ends(p, i)
    BY <1>4
  <2> HIDE DEF p, y
  <2>4. PICK r2 \in Nat, c2 \in Nat :
          /\ Represents(y.result, r2) /\ Represents(y.current, c2)
          /\ r2 + y.exponent * c2 = r + p.exponent * c
          /\ y.exponent = 0 \/ y.exponent < p.exponent
    <3>1. \E r2, c2 \in Nat :
           /\ Represents(PowerTurn(p).result, r2) /\ Represents(PowerTurn(p).current, c2)
           /\ r2 + PowerTurn(p).exponent * c2 = r + p.exponent * c
           /\ PowerTurn(p).exponent = 0 \/ PowerTurn(p).exponent < p.exponent
      BY <2>1, <2>2, PowerTurnIs
    <3> QED
      BY <2>1, <3>1
  <2>5. Good(y, r2, c2)
    BY <2>2, <2>4
  <2>6. Ends(y, i + 1)
    <3>1. p.exponent \in Nat /\ y.exponent \in Nat
      BY <2>1 DEF PowerStates
    <3> QED
      BY <2>3, <2>4, <3>1
  <2>7. i + 1 \in Nat
    OBVIOUS
  <2> HIDE DEF Good, Ends
  <2> QED
    BY <2>5, <2>6, <2>7 DEF y
<1>5. e \in good
  <2> HIDE DEF good
  <2> QED
    BY <1>3, <1>4, Induction
<1>6. PICK r \in Nat, c \in Nat : Good(after[e], r, c)
  BY <1>5
<1>7. after[e].exponent = 0
  <2>1. after[e].exponent \in Nat
    BY <1>2 DEF PowerStates
  <2> QED
    BY <1>5, <2>1
<1>8. r = e * k
  <2>1. r + 0 * c = e * k
    BY <1>6, <1>7
  <2> QED
    BY <2>1
<1> QED
  BY <1>2, <1>6, <1>8

-----------------------------------------------------------------------------
(* The exponent and its bytes. *)
LEMMA BytePowers ==
  /\ BytePower[0] = 1
  /\ \A n \in Nat : BytePower[n] \in Nat \ {0} /\ BytePower[n + 1] = Byte * BytePower[n]
<1> DEFINE G == [p \in Nat \X Nat |-> Byte * p[2]]
           IsPower(g) == g = [n \in Nat |-> IF n = 0 THEN 1 ELSE Byte * g[n - 1]]
<1>1. Byte \in Nat \ {0}
  BY ConstantsAssumption
<1>2. G \in [Nat \X Nat -> Nat]
  BY <1>1
<1>3. \A i \in Nat, y \in Nat : G[<<i, y>>] = Byte * y
  OBVIOUS
<1>4. BytePower = CHOOSE g : IsPower(g)
  BY DEF BytePower
<1> HIDE DEF G
<1>5. PICK f : GoesOn(f, Nat, 1, G)
  BY <1>2, Recursion
<1>6. IsPower(f)
  <2>1. ASSUME NEW i \in Nat, i # 0 PROVE f[i] = Byte * f[i - 1]
    <3>1. i - 1 \in Nat /\ (i - 1) + 1 = i
      BY <2>1
    <3>2. f[(i - 1) + 1] = G[<<i - 1, f[i - 1]>>] /\ f[i - 1] \in Nat
      BY <1>5, <3>1 DEF GoesOn
    <3> QED
      BY <1>3, <3>1, <3>2
  <2>2. f = [i \in Nat |-> f[i]]
    BY <1>5 DEF GoesOn
  <2> QED
    BY <1>5, <2>1, <2>2 DEF GoesOn
<1>7. IsPower(BytePower)
  BY <1>4, <1>6
<1>8. BytePower[0] = 1
  BY <1>7
<1>9. \A n \in Nat : BytePower[n + 1] = Byte * BytePower[n]
  <2> SUFFICES ASSUME NEW n \in Nat PROVE BytePower[n + 1] = Byte * BytePower[n]
    OBVIOUS
  <2>1. n + 1 \in Nat /\ n + 1 # 0 /\ (n + 1) - 1 = n
    OBVIOUS
  <2> QED
    BY <1>7, <2>1
<1>10. \A n \in Nat : BytePower[n] \in Nat \ {0}
  <2> DEFINE good == {n \in Nat : BytePower[n] \in Nat \ {0}}
  <2>1. 0 \in good
    BY <1>8
  <2>2. ASSUME NEW i \in Nat, i \in good PROVE i + 1 \in good
    <3>1. Byte * BytePower[i] \in Nat \ {0}
      BY <1>1, <2>2
    <3> QED
      BY <1>9, <2>2, <3>1
  <2>3. \A i \in Nat : i \in good
    <3> HIDE DEF good
    <3> QED
      BY <2>1, <2>2, Induction
  <2> QED
    BY <2>3
<1> QED
  BY <1>8, <1>9, <1>10

LEMMA BytePowerSum ==
  ASSUME NEW i \in Nat, NEW j \in Nat
  PROVE  BytePower[i + j] = BytePower[i] * BytePower[j]
<1> DEFINE good == {n \in Nat : BytePower[i + n] = BytePower[i] * BytePower[n]}
<1>1. 0 \in good
  <2>1. i + 0 = i /\ BytePower[i] \in Nat
    BY BytePowers
  <2> QED
    BY <2>1, BytePowers
<1>2. ASSUME NEW n \in Nat, n \in good PROVE n + 1 \in good
  <2>1. i + (n + 1) = (i + n) + 1 /\ i + n \in Nat /\ n + 1 \in Nat
    OBVIOUS
  <2>2. BytePower[(i + n) + 1] = Byte * BytePower[i + n]
    BY <2>1, BytePowers
  <2>3. BytePower[n + 1] = Byte * BytePower[n]
    BY BytePowers
  <2>4. Byte \in Nat /\ BytePower[i] \in Nat /\ BytePower[n] \in Nat
    BY BytePowers, ConstantsAssumption
  <2>5. Byte * (BytePower[i] * BytePower[n]) = BytePower[i] * (Byte * BytePower[n])
    BY <2>4
  <2>6. BytePower[i + n] = BytePower[i] * BytePower[n]
    BY <1>2
  <2>7. BytePower[i + (n + 1)] = BytePower[i] * BytePower[n + 1]
    BY <2>1, <2>2, <2>3, <2>5, <2>6
  <2> QED
    BY <2>1, <2>7
<1> HIDE DEF good
<1>3. j \in good
  BY <1>1, <1>2, Induction
<1> QED
  BY <1>3 DEF good

\* The unit of each byte of the exponent.
LEMMA TransitionsAre ==
  \A b \in Nat : Represents(transitions[b], BytePower[b])
<1> DEFINE S == {m \in Matrices : \E k \in Nat : Represents(m, k)}
           G == [p \in Nat \X S |-> mrg_power(p[2], Byte)]
           IsTable(g) == g = [b \in Nat |-> IF b = 0 THEN mrg_A ELSE mrg_power(g[b - 1], Byte)]
<1>1. Byte \in Nat
  BY ConstantsAssumption
<1>2. \A m \in S : mrg_power(m, Byte) \in S
  <2> SUFFICES ASSUME NEW m \in S PROVE mrg_power(m, Byte) \in S
    OBVIOUS
  <2>1. PICK k \in Nat : Represents(m, k)
    OBVIOUS
  <2>2. Represents(mrg_power(m, Byte), Byte * k) /\ Byte * k \in Nat
    BY <1>1, <2>1, PowerIs
  <2>3. mrg_power(m, Byte) \in Matrices
    BY <2>2 DEF Represents
  <2> QED
    BY <2>2, <2>3
<1>3. mrg_A \in S
  <2>1. mrg_A \in Matrices
    BY AIs DEF Represents
  <2> QED
    BY <2>1, AIs
<1> HIDE DEF S
<1>4. G \in [Nat \X S -> S]
  BY <1>2
<1>5. \A i \in Nat, y \in S : G[<<i, y>>] = mrg_power(y, Byte)
  OBVIOUS
<1>6. transitions = CHOOSE g : IsTable(g)
  BY DEF transitions
<1> HIDE DEF G
<1>7. PICK f : GoesOn(f, S, mrg_A, G)
  BY <1>3, <1>4, Recursion
<1>8. IsTable(f)
  <2>1. ASSUME NEW i \in Nat, i # 0 PROVE f[i] = mrg_power(f[i - 1], Byte)
    <3>1. i - 1 \in Nat /\ (i - 1) + 1 = i
      BY <2>1
    <3>2. f[(i - 1) + 1] = G[<<i - 1, f[i - 1]>>] /\ f[i - 1] \in S
      BY <1>7, <3>1 DEF GoesOn
    <3> QED
      BY <1>5, <3>1, <3>2
  <2>2. f = [i \in Nat |-> f[i]]
    BY <1>7 DEF GoesOn
  <2> QED
    BY <1>7, <2>1, <2>2 DEF GoesOn
<1>9. IsTable(transitions)
  BY <1>6, <1>8
<1>10. transitions[0] = mrg_A
  BY <1>9
<1>11. \A b \in Nat : transitions[b + 1] = mrg_power(transitions[b], Byte)
  <2> SUFFICES ASSUME NEW b \in Nat
               PROVE  transitions[b + 1] = mrg_power(transitions[b], Byte)
    OBVIOUS
  <2>1. b + 1 \in Nat /\ b + 1 # 0 /\ (b + 1) - 1 = b
    OBVIOUS
  <2> QED
    BY <1>9, <2>1
<1> DEFINE good == {b \in Nat : Represents(transitions[b], BytePower[b])}
<1>12. 0 \in good
  BY <1>10, AIs, BytePowers
<1>13. ASSUME NEW b \in Nat, b \in good PROVE b + 1 \in good
  <2>1. BytePower[b] \in Nat /\ BytePower[b + 1] = Byte * BytePower[b]
    BY BytePowers
  <2>2. Represents(transitions[b], BytePower[b])
    BY <1>13
  <2>3. Represents(mrg_power(transitions[b], Byte), Byte * BytePower[b])
    BY <1>1, <2>1, <2>2, PowerIs
  <2>4. b + 1 \in Nat
    OBVIOUS
  <2> QED
    BY <1>11, <2>1, <2>3, <2>4
<1> HIDE DEF good
<1>14. \A b \in Nat : b \in good
  BY <1>12, <1>13, Induction
<1> QED
  BY <1>14 DEF good

LEMMA TableIs ==
  ASSUME NEW b \in 0 .. 3 * WordBytes - 1, NEW val \in 0 .. Byte - 1
  PROVE  Represents(mrg_skip_matrices[b][val], val * BytePower[b])
<1>1. Byte \in Nat /\ WordBytes \in Nat /\ b \in Nat /\ val \in Nat
  BY ConstantsAssumption
<1>2. mrg_skip_matrices[b][val] =
        IF val = 0 THEN mrg_identity
        ELSE IF val = 1 THEN transitions[b] ELSE mrg_power(transitions[b], val)
  BY DEF mrg_skip_matrices, dump_mrg_powers
<1>3. BytePower[b] \in Nat /\ Represents(transitions[b], BytePower[b])
  BY <1>1, BytePowers, TransitionsAre
<1>4. CASE val = 0
  <2>1. val * BytePower[b] = 0
    BY <1>3, <1>4
  <2> QED
    BY <1>2, <1>4, <2>1, IdentityIs
<1>5. CASE val = 1
  <2>1. val * BytePower[b] = BytePower[b]
    BY <1>3, <1>5
  <2> QED
    BY <1>2, <1>3, <1>5, <2>1
<1>6. CASE val # 0 /\ val # 1
  <2>1. Represents(mrg_power(transitions[b], val), val * BytePower[b])
    BY <1>1, <1>3, PowerIs
  <2> QED
    BY <1>2, <1>6, <2>1
<1> QED
  BY <1>4, <1>5, <1>6

\* One word of the exponent.
SkipStates == [state : States, exponent : Nat]

LEMMA SkipByteIs ==
  ASSUME NEW p \in SkipStates, NEW b \in 0 .. 3 * WordBytes - 1
  PROVE  /\ SkipByte(p, b) \in SkipStates
         /\ SkipByte(p, b).exponent = p.exponent \div Byte
         /\ SkipByte(p, b).state = Steps(p.state, (p.exponent % Byte) * BytePower[b])
<1> DEFINE val == p.exponent % Byte
           m == mrg_skip_matrices[b][val]
           n == val * BytePower[b]
           y == SkipByte(p, b)
<1>1. p.state \in States /\ p.exponent \in Nat /\ Byte \in Nat \ {0} /\ WordBytes \in Nat
  BY ConstantsAssumption DEF SkipStates
<1>2. val \in 0 .. Byte - 1 /\ p.exponent \div Byte \in Nat
  <2> DEFINE x == p.exponent
  <2>1. x \in Nat
    BY <1>1
  <2> HIDE DEF x
  <2>2. x % Byte \in 0 .. Byte - 1 /\ x \div Byte \in Nat
    BY <1>1, <2>1, Quotients
  <2> QED
    BY <2>2 DEF x
<1>3. Represents(m, n)
  BY <1>2, TableIs
<1>4. BytePower[b] \in Nat /\ n \in Nat
  <2>1. BytePower[b] \in Nat
    BY <1>1, BytePowers
  <2> QED
    BY <1>1, <1>2, <2>1
<1>5. y = [state |-> IF val = 0 THEN p.state ELSE mrg_apply_transition(m, p.state),
           exponent |-> p.exponent \div Byte]
  BY DEF SkipByte
<1>6. val = 0 => n = 0
  BY <1>4
<1> HIDE DEF val, m, n, y
<1>7. mrg_apply_transition(m, p.state) = Steps(p.state, n)
  BY <1>1, <1>3, <1>4, AppliedIs
<1>8. y.state = Steps(p.state, n) /\ y.exponent = p.exponent \div Byte
  BY <1>1, <1>5, <1>6, <1>7, StepsAre
<1>9. Steps(p.state, n) \in States
  BY <1>1, <1>4, StepsAre
<1>10. y \in SkipStates
  BY <1>2, <1>5, <1>8, <1>9 DEF SkipStates
<1> QED
  BY <1>8, <1>10 DEF y, n, val

\* The loop over the bytes of a word.
LEMMA SkipLoop ==
  ASSUME NEW z \in States, NEW first \in Nat, first + WordBytes <= 3 * WordBytes,
         NEW e \in Nat
  PROVE  \E after \in [0 .. WordBytes -> SkipStates] :
           /\ after[0] = [state |-> z, exponent |-> e]
           /\ \A i \in 0 .. WordBytes - 1 : after[i + 1] = SkipByte(after[i], first + i)
           /\ SkipWord(z, first, e) = after[WordBytes].state
<1> DEFINE start == [state |-> z, exponent |-> e]
           G == [p \in Nat \X SkipStates |->
                   IF p[1] < WordBytes THEN SkipByte(p[2], first + p[1]) ELSE p[2]]
           IsAfter(g) == g = [i \in 0 .. WordBytes |->
                                IF i = 0 THEN start ELSE SkipByte(g[i - 1], first + i - 1)]
           after == CHOOSE g : IsAfter(g)
<1>1. start \in SkipStates /\ WordBytes \in Nat
  BY ConstantsAssumption DEF SkipStates
<1>2. G \in [Nat \X SkipStates -> SkipStates]
  <2> SUFFICES ASSUME NEW i \in Nat, NEW p \in SkipStates
               PROVE  (IF i < WordBytes THEN SkipByte(p, first + i) ELSE p) \in SkipStates
    OBVIOUS
  <2>1. i < WordBytes => first + i \in 0 .. 3 * WordBytes - 1
    BY <1>1
  <2> QED
    BY <2>1, SkipByteIs
<1>3. \A i \in Nat, p \in SkipStates :
        i < WordBytes => G[<<i, p>>] = SkipByte(p, first + i)
  OBVIOUS
<1>4. SkipWord(z, first, e) = after[WordBytes].state
  BY DEF SkipWord
<1> HIDE DEF G, start
<1>5. PICK f : GoesOn(f, SkipStates, start, G)
  BY <1>1, <1>2, Recursion
<1> DEFINE g == [i \in 0 .. WordBytes |-> f[i]]
<1>6. \A i \in 0 .. WordBytes - 1 : f[i + 1] = SkipByte(f[i], first + i)
  <2> SUFFICES ASSUME NEW i \in 0 .. WordBytes - 1
               PROVE  f[i + 1] = SkipByte(f[i], first + i)
    OBVIOUS
  <2>1. i \in Nat /\ i < WordBytes
    BY <1>1
  <2> QED
    BY <1>3, <1>5, <2>1 DEF GoesOn
<1>7. IsAfter(g)
  <2>1. ASSUME NEW i \in 0 .. WordBytes, i # 0
        PROVE  g[i] = SkipByte(g[i - 1], first + i - 1)
    <3>1. i - 1 \in 0 .. WordBytes - 1 /\ (i - 1) + 1 = i /\ i - 1 \in 0 .. WordBytes
      BY <1>1, <2>1
    <3>2. first + (i - 1) = first + i - 1
      BY <3>1
    <3>3. f[(i - 1) + 1] = SkipByte(f[i - 1], first + (i - 1))
      BY <1>6, <3>1
    <3> QED
      BY <3>1, <3>2, <3>3
  <2>2. g[0] = start
    BY <1>1, <1>5 DEF GoesOn
  <2>3. g = [i \in 0 .. WordBytes |-> g[i]]
    OBVIOUS
  <2> HIDE DEF g
  <2> QED
    BY <2>1, <2>2, <2>3
<1>8. IsAfter(after)
  <2> HIDE DEF g
  <2> QED
    BY <1>7
<1> HIDE DEF after, g
<1>9. after[0] = start
  BY <1>1, <1>8
<1>10. \A i \in 0 .. WordBytes - 1 : after[i + 1] = SkipByte(after[i], first + i)
  <2> SUFFICES ASSUME NEW i \in 0 .. WordBytes - 1
               PROVE  after[i + 1] = SkipByte(after[i], first + i)
    OBVIOUS
  <2>1. i + 1 \in 0 .. WordBytes /\ i + 1 # 0 /\ (i + 1) - 1 = i
    BY <1>1
  <2>2. first + (i + 1) - 1 = first + i
    BY <1>1
  <2>3. after[i + 1] = SkipByte(after[(i + 1) - 1], first + (i + 1) - 1)
    BY <1>8, <2>1
  <2> QED
    BY <2>1, <2>2, <2>3
<1> DEFINE good == {i \in Nat : i <= WordBytes => after[i] \in SkipStates}
<1>11. 0 \in good
  BY <1>1, <1>9
<1>12. ASSUME NEW i \in Nat, i \in good PROVE i + 1 \in good
  <2> SUFFICES ASSUME i + 1 <= WordBytes PROVE after[i + 1] \in SkipStates
    OBVIOUS
  <2>1. i \in 0 .. WordBytes - 1 /\ after[i] \in SkipStates
    BY <1>1, <1>12
  <2>2. first + i \in 0 .. 3 * WordBytes - 1
    BY <1>1, <2>1
  <2> QED
    BY <1>10, <2>1, <2>2, SkipByteIs
<1>13. \A i \in Nat : i \in good
  <2> HIDE DEF good
  <2> QED
    BY <1>11, <1>12, Induction
<1>14. after \in [0 .. WordBytes -> SkipStates]
  <2>1. \A i \in 0 .. WordBytes : after[i] \in SkipStates
    BY <1>1, <1>13
  <2>2. after = [i \in 0 .. WordBytes |-> after[i]]
    BY <1>8
  <2> QED
    BY <2>1, <2>2
<1> QED
  BY <1>4, <1>9, <1>10, <1>14 DEF start

LEMMA WordIs ==
  ASSUME NEW z \in States, NEW first \in Nat, first + WordBytes <= 3 * WordBytes,
         NEW e \in 0 .. WordValues - 1
  PROVE  SkipWord(z, first, e) = Steps(z, e * BytePower[first])
<1>1. WordBytes \in Nat /\ Byte \in Nat \ {0} /\ WordValues \in Nat /\ e \in Nat
  BY ConstantsAssumption, BytePowers DEF WordValues
<1>2. PICK after \in [0 .. WordBytes -> SkipStates] :
        /\ after[0] = [state |-> z, exponent |-> e]
        /\ \A i \in 0 .. WordBytes - 1 : after[i + 1] = SkipByte(after[i], first + i)
        /\ SkipWord(z, first, e) = after[WordBytes].state
  BY <1>1, SkipLoop
<1> DEFINE Good(i, low) == /\ after[i].state = Steps(z, low * BytePower[first])
                           /\ e = low + after[i].exponent * BytePower[i]
           good == {i \in Nat : i <= WordBytes => \E low \in Nat : Good(i, low)}
<1>3. 0 \in good
  <2>1. BytePower[0] = 1 /\ 0 * BytePower[first] = 0
    <3> DEFINE f == BytePower[first]
    <3>1. f \in Nat
      BY BytePowers
    <3> HIDE DEF f
    <3>2. 0 * f = 0
      BY <3>1
    <3> QED
      BY <3>2, BytePowers DEF f
  <2>2. after[0].state = z /\ after[0].exponent = e
    BY <1>2
  <2>3. Steps(z, 0 * BytePower[first]) = z
    BY <2>1, StepsAre
  <2>4. e = 0 + e * 1
    BY <1>1
  <2>5. Good(0, 0)
    BY <2>1, <2>2, <2>3, <2>4
  <2> HIDE DEF Good
  <2> QED
    BY <2>5
<1>4. ASSUME NEW i \in Nat, i \in good PROVE i + 1 \in good
  <2> SUFFICES ASSUME i + 1 <= WordBytes PROVE \E low \in Nat : Good(i + 1, low)
    OBVIOUS
  <2>1. i \in 0 .. WordBytes - 1 /\ i \in 0 .. WordBytes
        /\ first + i \in 0 .. 3 * WordBytes - 1
    BY <1>1
  <2>2. PICK low \in Nat : Good(i, low)
    BY <1>1, <1>4, <2>1
  <2> DEFINE p == after[i]
             x == p.exponent
             val == x % Byte
             q == x \div Byte
             f == BytePower[first]
             u == BytePower[i]
  <2>3. p \in SkipStates /\ p.state \in States /\ x \in Nat
    BY <1>2, <2>1 DEF SkipStates
  <2>4. /\ after[i + 1].exponent = q
        /\ after[i + 1].state = Steps(p.state, val * BytePower[first + i])
    BY <1>2, <2>1, <2>3, SkipByteIs
  <2>5. p.state = Steps(z, low * f) /\ e = low + x * u
    BY <2>2
  <2>6. f \in Nat /\ u \in Nat /\ BytePower[first + i] = f * u
        /\ BytePower[i + 1] = Byte * u
    BY BytePowers, BytePowerSum
  <2> HIDE DEF p, x, f, u
  <2>7. val \in Nat /\ q \in Nat /\ x = q * Byte + val
    <3>1. x \div Byte \in Nat /\ x % Byte \in 0 .. Byte - 1
          /\ x = ((x \div Byte) * Byte) + (x % Byte)
      BY <1>1, <2>3, Quotients
    <3>2. val \in Nat
      BY <1>1, <3>1
    <3> QED
      BY <3>1, <3>2
  <2> HIDE DEF val, q
  <2> DEFINE k == low + val * u
  <2>8. val * u \in Nat /\ k \in Nat /\ low * f \in Nat /\ val * (f * u) \in Nat
    BY <2>6, <2>7
  <2>9. k * f = (low * f) + (val * (f * u))
    BY <2>6, <2>7
  <2>10. after[i + 1].state = Steps(z, k * f)
    <3> HIDE DEF k
    <3>1. Steps(Steps(z, low * f), val * (f * u)) = Steps(z, (low * f) + (val * (f * u)))
      BY <2>8, StepsAdd
    <3> QED
      BY <2>4, <2>5, <2>6, <2>9, <3>1
  <2>11. e = k + q * (Byte * u)
    <3>1. x * u = (q * (Byte * u)) + (val * u)
      BY <1>1, <2>6, <2>7
    <3>2. q * (Byte * u) \in Nat
      BY <1>1, <2>6, <2>7
    <3> QED
      BY <2>5, <2>8, <3>1, <3>2
  <2>12. Good(i + 1, k)
    <3> HIDE DEF k
    <3> QED
      BY <2>4, <2>6, <2>10, <2>11 DEF f
  <2> HIDE DEF Good, k
  <2> QED
    BY <2>8, <2>12
<1>5. WordBytes \in good
  <2> HIDE DEF good
  <2> QED
    BY <1>1, <1>3, <1>4, Induction
<1>6. PICK low \in Nat : Good(WordBytes, low)
  BY <1>1, <1>5
<1>7. after[WordBytes].exponent \in Nat
  BY <1>1, <1>2 DEF SkipStates
<1>8. low = e
  <2> DEFINE x == after[WordBytes].exponent
  <2>1. e = low + x * WordValues /\ e < WordValues /\ x \in Nat
    BY <1>1, <1>6, <1>7 DEF WordValues
  <2> HIDE DEF x
  <2>2. x = 0
    <3>1. x > 0 => x * WordValues >= WordValues
      BY <1>1, <2>1
    <3>2. x * WordValues \in Nat
      BY <1>1, <2>1
    <3> QED
      BY <1>1, <2>1, <3>1, <3>2
  <2>3. x * WordValues = 0
    BY <1>1, <2>2
  <2> QED
    BY <2>1, <2>3
<1> QED
  BY <1>2, <1>6, <1>8

LEMMA SkipExponent ==
  ASSUME NEW z \in States, NEW e \in Skips
  PROVE  Exponent(e) \in Nat /\ mrg_skip(z, e) = Steps(z, Exponent(e))
<1> DEFINE V == WordValues
           n0 == e[3] * BytePower[0]
           n1 == e[2] * BytePower[WordBytes]
           n2 == e[1] * BytePower[2 * WordBytes]
<1>1. e[1] \in 0 .. V - 1 /\ e[2] \in 0 .. V - 1 /\ e[3] \in 0 .. V - 1
  BY InputsAssumption
<1>2. WordBytes \in Nat /\ V \in Nat /\ V = BytePower[WordBytes]
  BY ConstantsAssumption, BytePowers DEF WordValues
<1>3. BytePower[0] = 1 /\ BytePower[2 * WordBytes] = V * V
  <2>1. 2 * WordBytes = WordBytes + WordBytes
    BY <1>2
  <2>2. BytePower[WordBytes + WordBytes] = BytePower[WordBytes] * BytePower[WordBytes]
    BY <1>2, BytePowerSum
  <2> QED
    BY <1>2, <2>1, <2>2, BytePowers
<1>4. e[1] \in Nat /\ e[2] \in Nat /\ e[3] \in Nat
  BY <1>1
<1> DEFINE z1 == SkipWord(z, 0, e[3])
           z2 == SkipWord(z1, WordBytes, e[2])
           z3 == SkipWord(z2, 2 * WordBytes, e[1])
<1>5. n0 \in Nat /\ n1 \in Nat /\ n2 \in Nat
  <2>1. V * V \in Nat
    BY <1>2
  <2> QED
    BY <1>2, <1>3, <1>4, <2>1
<1>6. z1 = Steps(z, n0) /\ z1 \in States
  <2>1. 0 + WordBytes <= 3 * WordBytes
    BY <1>2
  <2>2. z1 = Steps(z, n0)
    BY <1>1, <2>1, WordIs
  <2> QED
    BY <1>5, <2>2, StepsAre
<1>7. z2 = Steps(z1, n1) /\ z2 \in States
  <2> HIDE DEF z1
  <2>1. WordBytes + WordBytes <= 3 * WordBytes
    BY <1>2
  <2>2. z2 = Steps(z1, n1)
    BY <1>1, <1>2, <1>6, <2>1, WordIs
  <2> QED
    BY <1>5, <1>6, <2>2, StepsAre
<1>8. z3 = Steps(z2, n2)
  <2> HIDE DEF z2
  <2>1. 2 * WordBytes + WordBytes <= 3 * WordBytes /\ 2 * WordBytes \in Nat
    BY <1>2
  <2> QED
    BY <1>1, <1>7, <2>1, WordIs
<1>9. mrg_skip(z, e) = z3
  BY DEF mrg_skip
<1> HIDE DEF z1, z2, z3
<1>10. z3 = Steps(z, (n0 + n1) + n2)
  <2> HIDE DEF n0, n1, n2
  <2>1. z2 = Steps(z, n0 + n1)
    BY <1>5, <1>6, <1>7, StepsAdd
  <2>2. n0 + n1 \in Nat
    BY <1>5
  <2>3. Steps(Steps(z, n0 + n1), n2) = Steps(z, (n0 + n1) + n2)
    BY <1>5, <2>2, StepsAdd
  <2> QED
    BY <1>8, <2>1, <2>3
<1>11. (n0 + n1) + n2 = Exponent(e)
  <2> DEFINE h == e[1]
             i == e[2]
             l == e[3]
  <2>1. h \in Nat /\ i \in Nat /\ l \in Nat
    BY <1>4
  <2>2. n0 = l * 1 /\ n1 = i * V /\ n2 = h * (V * V)
    BY <1>2, <1>3
  <2>3. Exponent(e) = (h * V + i) * V + l
    BY DEF Exponent
  <2> HIDE DEF h, i, l, V, n0, n1, n2
  <2>4. (h * V + i) * V = (h * (V * V)) + (i * V)
    BY <1>2, <2>1
  <2>5. h * (V * V) \in Nat /\ i * V \in Nat
    BY <1>2, <2>1
  <2> QED
    BY <2>1, <2>2, <2>3, <2>4, <2>5
<1>12. Exponent(e) \in Nat
  <2>1. (n0 + n1) + n2 \in Nat
    BY <1>5
  <2> QED
    BY <1>11, <2>1
<1> QED
  BY <1>9, <1>10, <1>11, <1>12

-----------------------------------------------------------------------------
(* What every state satisfies. *)
GeneratorInv ==
  /\ user \in UserSeeds \X UserSeeds
  /\ drawn \in Nat
  /\ SkipIsSteps
  /\ operands \in Operands \cup {<<>>}

LEMMA SeedIsState ==
  ASSUME NEW u \in UserSeeds \X UserSeeds
  PROVE  make_mrg_seed(u[1], u[2]) \in States
<1>1. u[1] \in 0 .. L * L * Top - 1 /\ u[2] \in 0 .. L * L * Top - 1
  BY InputsAssumption
<1>2. \A i \in 1 .. 5 : make_mrg_seed(u[1], u[2])[i] \in Residues
  BY <1>1, SeedIsValid
<1>3. \E z1, z2, z3, z4, z5 : make_mrg_seed(u[1], u[2]) = <<z1, z2, z3, z4, z5>>
  BY DEF make_mrg_seed
<1> QED
  BY <1>2, <1>3 DEF States

LEMMA GeneratorStep ==
  GeneratorInv /\ [Next]_vars => GeneratorInv'
<1> SUFFICES ASSUME GeneratorInv, [Next]_vars PROVE GeneratorInv'
  OBVIOUS
<1> USE DEF GeneratorInv, SkipIsSteps
<1> DEFINE seed == make_mrg_seed(user[1], user[2])
<1>1. seed \in States
  BY SeedIsState
<1>2. CASE mrg_get_uint_orig
  <2>1. Steps(seed, drawn + 1) = mrg_orig_step(Steps(seed, drawn))
    BY <1>1, StepsAre
  <2> QED
    BY <1>2, <2>1 DEF mrg_get_uint_orig
<1>3. ASSUME NEW e \in Skips, Skip(e) PROVE GeneratorInv'
  <2>1. Exponent(e) \in Nat /\ mrg_skip(state, e) = Steps(state, Exponent(e))
    BY <1>1, StepsAre, SkipExponent
  <2>2. Steps(state, Exponent(e)) = Steps(seed, drawn + Exponent(e))
    BY <1>1, <2>1, StepsAdd
  <2> QED
    BY <1>3, <2>1, <2>2 DEF Skip
<1>4. CASE Calculate
  BY <1>4 DEF Calculate
<1>5. CASE Reseed
  <2>1. make_mrg_seed(user'[1], user'[2]) \in States
    BY <1>5, SeedIsState DEF Reseed
  <2>2. Steps(make_mrg_seed(user'[1], user'[2]), 0) = make_mrg_seed(user'[1], user'[2])
    BY <2>1, StepsAre
  <2> QED
    BY <1>5, <2>2 DEF Reseed
<1>6. CASE UNCHANGED vars
  BY <1>6 DEF vars
<1> QED
  BY <1>2, <1>3, <1>4, <1>5, <1>6 DEF Next

LEMMA GeneratorAlways == Spec => []GeneratorInv
<1>1. ASSUME Init PROVE GeneratorInv
  <2>1. make_mrg_seed(user[1], user[2]) \in States
    BY <1>1, SeedIsState DEF Init
  <2> QED
    BY <1>1, <2>1, StepsAre DEF Init, GeneratorInv, SkipIsSteps
<1> QED
  BY <1>1, GeneratorStep, PTL DEF Spec

LEMMA StateArithmetic == GeneratorInv => ArithmeticAgrees
<1> SUFFICES ASSUME GeneratorInv, operands # <<>> PROVE ArithmeticAgrees
  BY DEF ArithmeticAgrees
<1> DEFINE sum == operands[1]
           a == operands[2]
           b == operands[3]
           ps(k) == [i \in 1 .. k |-> <<operands[2 * i], operands[2 * i + 1]>>]
<1>1. operands \in [1 .. 9 -> Residues]
  BY InputsAssumption DEF GeneratorInv
<1>2. sum \in Residues /\ a \in Residues /\ b \in Residues
  BY <1>1
<1>3. \A k \in 1 .. 4 : ps(k) \in Pairs /\ DOMAIN ps(k) = 1 .. k
  <2> SUFFICES ASSUME NEW k \in 1 .. 4 PROVE ps(k) \in [1 .. k -> Residues \X Residues]
    BY DEF Pairs
  <2>1. \A i \in 1 .. k : 2 * i \in 1 .. 9 /\ 2 * i + 1 \in 1 .. 9
    OBVIOUS
  <2> QED
    BY <1>1, <2>1
<1> HIDE DEF ps, sum, a, b
<1>4. \A k \in 1 .. 4 : /\ mod_mac(sum, ps(k)) = (sum + Products(ps(k))) % M
                        /\ mod_mac_32(sum, ps(k)) = (sum + Products(ps(k))) % M
                        /\ k = 1 => mod_mac_xmt(sum, ps(k)) = (sum + Products(ps(k))) % M
  BY <1>2, <1>3, MacAgrees, XmtAgrees
<1>5. {mod_add(a, b), mod_add_32(a, b), mod_add_xmt(a, b)} = {(a + b) % M}
  BY <1>2, SumsAgree
<1>6. {mod_mul(a, b), mod_mul_32(a, b), mod_mul_xmt(a, b)} = {(a * b) % M}
  BY <1>2, ProductsAgree
<1>7. /\ {mod_mul_x_32(a), mod_mul_x_xmt(a)} = {mod_mul_x(a)}
      /\ {mod_mul_y_32(a), mod_mul_y_xmt(a)} = {mod_mul_y(a)}
      /\ {mod_mac_y_32(sum, a), mod_mac_y_xmt(sum, a)} = {mod_mac_y(sum, a)}
  BY <1>2, FactorsAgree
<1> QED
  BY <1>4, <1>5, <1>6, <1>7 DEF ArithmeticAgrees, sum, a, b, ps

LEMMA StateSeeds == GeneratorInv => SeedsAreValid
<1> SUFFICES ASSUME GeneratorInv, drawn = 0 PROVE SeedsAreValid
  BY DEF SeedsAreValid
<1>1. /\ user[1] \in UserSeeds /\ user[2] \in UserSeeds /\ user = <<user[1], user[2]>>
      /\ state = make_mrg_seed(user[1], user[2])
  BY SeedIsState, StepsAre DEF GeneratorInv, SkipIsSteps
<1>2. \A u \in UserSeeds : u \in 0 .. L * L * Top - 1
  BY InputsAssumption
<1>3. \A i \in 1 .. 5 : state[i] \in Residues \ {0}
  BY <1>1, <1>2, SeedIsValid
<1>4. ASSUME NEW u1 \in UserSeeds, NEW u2 \in UserSeeds, make_mrg_seed(u1, u2) = state
      PROVE  user = <<u1, u2>>
  <2>1. u1 = user[1] /\ u2 = user[2]
    BY <1>1, <1>2, <1>4, SeedDetermines
  <2> QED
    BY <1>1, <2>1
<1> QED
  BY <1>3, <1>4 DEF SeedsAreValid

-----------------------------------------------------------------------------
\* The arithmetic of the three headers (mod_arith_64bit.h, 32bit.h and xmt.h)
\* gives the residues of the integers, for every tuple of residues.
THEOREM ArithmeticIsExact == Spec => []ArithmeticAgrees
BY GeneratorAlways, StateArithmetic, PTL

\* make_mrg_seed: five nonzero residues from which both user seeds can be read
\* back, for all user seeds; a generator that has drawn nothing still has them.
THEOREM SeedsAreDistinct == Spec => []SeedsAreValid
BY GeneratorAlways, StateSeeds, PTL

\* mrg_skip with the table of dump_mrg_powers is so many steps of the recurrence,
\* for every modulus, pair of factors, size of bytes and words, seed and exponent:
\* a stream split by skipping is the stream that draws every number.
THEOREM SkipsAreSteps == Spec => []SkipIsSteps
<1>1. GeneratorInv => SkipIsSteps
  BY DEF GeneratorInv
<1> QED
  BY <1>1, GeneratorAlways, PTL
=============================================================================
