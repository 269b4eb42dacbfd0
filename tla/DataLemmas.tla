------------------------------ MODULE DataLemmas ------------------------------
(***************************************************************************)
(* Induction on the natural numbers, as facts about sets, what is to know  *)
(* of the sequences that FlattenSeq and SetToSeq make, and how large sets  *)
(* are that nearly agree.                                                  *)
(***************************************************************************)
EXTENDS Integers, SequencesExt, FiniteSetTheorems, SequenceTheorems, WellFoundedInduction, TLAPS

\* A set of natural numbers has a least element.
LEMMA Least ==
  ASSUME NEW T \in SUBSET Nat, T # {}
  PROVE  \E x \in T : \A y \in T : x <= y
<1> DEFINE R == {ss \in Nat \X Nat : ss[1] < ss[2]}
<1>1. IsWellFoundedOn(R, Nat)
  BY NatLessThanWellFounded DEF OpToRel
<1> HIDE DEF R
<1>2. PICK x \in T : \A y \in T : ~ (<<y, x>> \in R)
  BY <1>1, WFMin
<1>3. \A y \in T : ~ (y < x)
  BY <1>2 DEF R
<1> QED
  BY <1>3

\* What holds of 0 and goes from each number to the next holds of all.
LEMMA Induction ==
  ASSUME NEW H, 0 \in H, \A i \in Nat : i \in H => i + 1 \in H
  PROVE  \A i \in Nat : i \in H
<1> DEFINE missed == Nat \ H
<1>1. SUFFICES ASSUME missed # {} PROVE FALSE
  OBVIOUS
<1>2. PICK i \in missed : \A k \in missed : i <= k
  <2>1. missed \in SUBSET Nat
    OBVIOUS
  <2> HIDE DEF missed
  <2> QED
    BY <1>1, <2>1, Least
<1>3. i - 1 \in Nat /\ (i - 1) + 1 = i /\ i - 1 \notin missed
  BY <1>2
<1> QED
  BY <1>2, <1>3

\* f begins with a and goes on by G, all in S.
GoesOn(f, S, a, G) ==
  f \in [Nat -> S] /\ f[0] = a /\ \A i \in Nat : f[i + 1] = G[<<i, f[i]>>]

\* A function can be defined by recursion.
LEMMA Recursion ==
  ASSUME NEW S, NEW a, a \in S, NEW G, G \in [Nat \X S -> S]
  PROVE  \E f : GoesOn(f, S, a, G)
<1> DEFINE Upto(g, n) == g[0] = a /\ \A i \in Nat : i < n => g[i + 1] = G[<<i, g[i]>>]
           Missed == {n \in Nat : ~ \E g \in [Nat -> S] : Upto(g, n)}
<1>1. Missed = {}
  <2>1. SUFFICES ASSUME Missed # {} PROVE FALSE
    OBVIOUS
  <2>2. PICK n \in Missed : \A k \in Missed : n <= k
    <3>1. Missed \in SUBSET Nat
      OBVIOUS
    <3> HIDE DEF Missed
    <3> QED
      BY <2>1, <3>1, Least
  <2>3. n # 0
    <3>1. [i \in Nat |-> a] \in [Nat -> S] /\ Upto([i \in Nat |-> a], 0)
      OBVIOUS
    <3> QED
      BY <2>2, <3>1
  <2>4. n - 1 \in Nat /\ n - 1 \notin Missed
    BY <2>2, <2>3
  <2>5. PICK g \in [Nat -> S] : Upto(g, n - 1)
    BY <2>4
  <2> DEFINE h == [g EXCEPT ![n] = G[<<n - 1, g[n - 1]>>]]
  <2>6. n \in Nat /\ G[<<n - 1, g[n - 1]>>] \in S
    BY <2>2, <2>4, <2>5
  <2>7. h \in [Nat -> S] /\ h[n] = G[<<n - 1, g[n - 1]>>]
    BY <2>5, <2>6
  <2>8. \A i \in Nat : i # n => h[i] = g[i]
    BY <2>5
  <2> HIDE DEF h
  <2>9. h[0] = a
    BY <2>3, <2>5, <2>8
  <2>10. ASSUME NEW i \in Nat, i < n PROVE h[i + 1] = G[<<i, h[i]>>]
    <3>1. h[i] = g[i]
      BY <2>8, <2>10
    <3>2. CASE i = n - 1
      <4>1. i + 1 = n
        BY <2>6, <3>2
      <4> QED
        BY <2>7, <3>1, <3>2, <4>1
    <3>3. CASE i # n - 1
      <4>1. i < n - 1 /\ i + 1 # n /\ i + 1 \in Nat
        BY <2>6, <2>10, <3>3
      <4> QED
        BY <2>5, <2>8, <3>1, <4>1
    <3> QED
      BY <3>2, <3>3
  <2>11. Upto(h, n)
    BY <2>9, <2>10
  <2> QED
    BY <2>2, <2>7, <2>11
<1>2. \A n \in Nat : \E g \in [Nat -> S] : Upto(g, n)
  BY <1>1
<1>3. ASSUME NEW g, NEW h, NEW m \in Nat, NEW n \in Nat, m <= n, Upto(g, m), Upto(h, n)
      PROVE  \A i \in Nat : i <= m => g[i] = h[i]
  <2> DEFINE wrong == {i \in Nat : i <= m /\ g[i] # h[i]}
  <2>1. SUFFICES ASSUME wrong # {} PROVE FALSE
    OBVIOUS
  <2>2. PICK k \in wrong : \A j \in wrong : k <= j
    <3>1. wrong \in SUBSET Nat
      OBVIOUS
    <3> HIDE DEF wrong
    <3> QED
      BY <2>1, <3>1, Least
  <2>3. k # 0
    BY <1>3, <2>2
  <2>4. k - 1 \in Nat /\ k - 1 < m /\ k - 1 < n /\ k - 1 \notin wrong /\ (k - 1) + 1 = k
    BY <1>3, <2>2, <2>3
  <2>5. g[k - 1] = h[k - 1]
    BY <2>4
  <2>6. g[k] = G[<<k - 1, g[k - 1]>>] /\ h[k] = G[<<k - 1, h[k - 1]>>]
    <3> HIDE DEF wrong
    <3>1. g[(k - 1) + 1] = G[<<k - 1, g[k - 1]>>]
      BY <1>3, <2>4
    <3>2. h[(k - 1) + 1] = G[<<k - 1, h[k - 1]>>]
      BY <1>3, <2>4
    <3> QED
      BY <2>4, <3>1, <3>2
  <2> QED
    BY <2>2, <2>5, <2>6
<1> DEFINE approx(n) == CHOOSE g \in [Nat -> S] : Upto(g, n)
           f == [n \in Nat |-> approx(n)[n]]
<1>4. \A n \in Nat : approx(n) \in [Nat -> S] /\ Upto(approx(n), n)
  BY <1>2
<1> HIDE DEF Upto, approx
<1>5. f \in [Nat -> S]
  BY <1>4
<1>6. f[0] = a
  <2>1. f[0] = approx(0)[0]
    OBVIOUS
  <2> QED
    BY <1>4, <2>1 DEF Upto
<1>7. ASSUME NEW i \in Nat PROVE f[i + 1] = G[<<i, f[i]>>]
  <2> DEFINE g == approx(i)
             h == approx(i + 1)
  <2>1. i + 1 \in Nat /\ i <= i + 1 /\ i < i + 1
    OBVIOUS
  <2>2. f[i] = g[i] /\ f[i + 1] = h[i + 1]
    BY <2>1
  <2>3. Upto(g, i) /\ Upto(h, i + 1)
    BY <1>4, <2>1
  <2> HIDE DEF f, g, h
  <2>4. g[i] = h[i]
    BY <1>3, <2>1, <2>3
  <2>5. h[i + 1] = G[<<i, h[i]>>]
    BY <2>1, <2>3 DEF Upto
  <2> QED
    BY <2>2, <2>4, <2>5
<1> QED
  BY <1>5, <1>6, <1>7 DEF GoesOn

-----------------------------------------------------------------------------
(* Concatenations. *)
\* What FlattenSeq has when it has come to the n-th list.
Flattens(seqs, T, g) ==
  /\ g \in [Nat -> Seq(T)] /\ g[0] = <<>>
  /\ \A i \in Nat : i < Len(seqs) => g[i + 1] = g[i] \o seqs[i + 1]

LEMMA FlattenSteps ==
  ASSUME NEW T, NEW seqs \in Seq(Seq(T))
  PROVE  \E g : Flattens(seqs, T, g) /\ FlattenSeq(seqs) = g[Len(seqs)]
<1> DEFINE n == Len(seqs)
           G == [p \in Nat \X Seq(T) |-> IF p[1] < n THEN p[2] \o seqs[p[1] + 1] ELSE p[2]]
           IsFlat(h) == h = [i \in 1 .. n |-> IF i = 1 THEN seqs[i] ELSE h[i - 1] \o seqs[i]]
           flatten == CHOOSE h : IsFlat(h)
<1>1. n \in Nat /\ \A i \in 1 .. n : seqs[i] \in Seq(T)
  OBVIOUS
<1>2. <<>> \in Seq(T)
  OBVIOUS
<1>3. G \in [Nat \X Seq(T) -> Seq(T)]
  <2> SUFFICES ASSUME NEW i \in Nat, NEW s \in Seq(T)
               PROVE  (IF i < n THEN s \o seqs[i + 1] ELSE s) \in Seq(T)
    OBVIOUS
  <2>1. i < n => seqs[i + 1] \in Seq(T)
    BY <1>1
  <2> QED
    BY <2>1
<1>4. \A i \in Nat, s \in Seq(T) : i < n => G[<<i, s>>] = s \o seqs[i + 1]
  OBVIOUS
<1>5. FlattenSeq(seqs) = IF n = 0 THEN seqs ELSE flatten[n]
  BY DEF FlattenSeq
<1> HIDE DEF G, n
<1>6. PICK g : GoesOn(g, Seq(T), <<>>, G)
  BY <1>2, <1>3, Recursion
<1>7. Flattens(seqs, T, g)
  BY <1>4, <1>6 DEF GoesOn, Flattens, n
<1>8. \A i \in Nat : i < n => g[i + 1] = g[i] \o seqs[i + 1] /\ g[i] \in Seq(T)
  BY <1>7 DEF Flattens, n
<1> DEFINE h == [i \in 1 .. n |-> g[i]]
<1>9. IsFlat(h)
  <2>1. ASSUME NEW i \in 1 .. n
        PROVE  h[i] = IF i = 1 THEN seqs[i] ELSE h[i - 1] \o seqs[i]
    <3>1. i - 1 \in Nat /\ i - 1 < n /\ (i - 1) + 1 = i
      BY <1>1
    <3>2. g[i] = g[i - 1] \o seqs[i]
      BY <1>8, <3>1
    <3>3. CASE i = 1
      <4>1. g[0] = <<>> /\ seqs[1] \in Seq(T)
        BY <1>1, <1>7, <3>3 DEF Flattens
      <4>2. <<>> \o seqs[1] = seqs[1]
        BY <4>1
      <4>3. h[i] = g[i] /\ i - 1 = 0
        BY <3>3
      <4>4. g[i] = g[0] \o seqs[1]
        <5>1. g[i - 1] = g[0]
          BY <4>3
        <5>2. seqs[i] = seqs[1]
          BY <3>3
        <5> QED
          BY <3>2, <5>1, <5>2
      <4>5. h[i] = seqs[1]
        BY <4>1, <4>2, <4>3, <4>4
      <4> QED
        BY <3>3, <4>5
    <3>4. CASE i # 1
      <4>1. i - 1 \in 1 .. n
        BY <1>1, <3>4
      <4> QED
        BY <3>2, <3>4, <4>1
    <3> QED
      BY <3>3, <3>4
  <2> HIDE DEF h
  <2>2. h = [i \in 1 .. n |-> h[i]]
    BY DEF h
  <2> QED
    BY <2>1, <2>2
<1>10. IsFlat(flatten)
  <2> HIDE DEF h
  <2> QED
    BY <1>9
<1> HIDE DEF flatten, h
<1>11. ASSUME n # 0 PROVE \A i \in Nat : i + 1 <= n => flatten[i + 1] = g[i + 1]
  <2> DEFINE good == {i \in Nat : i + 1 <= n => flatten[i + 1] = g[i + 1]}
  <2>1. 0 \in good
    <3>1. flatten[1] = seqs[1] /\ g[0 + 1] = g[0] \o seqs[0 + 1]
      <4>1. 1 \in 1 .. n /\ 0 < n
        BY <1>1, <1>11
      <4> QED
        BY <1>8, <1>10, <4>1
    <3>2. g[0] = <<>> /\ seqs[1] \in Seq(T)
      BY <1>1, <1>7, <1>11 DEF Flattens
    <3>3. <<>> \o seqs[1] = seqs[1]
      BY <3>2
    <3> QED
      BY <3>1, <3>2, <3>3
  <2>2. ASSUME NEW i \in Nat, i \in good PROVE i + 1 \in good
    <3> SUFFICES ASSUME (i + 1) + 1 <= n PROVE flatten[(i + 1) + 1] = g[(i + 1) + 1]
      OBVIOUS
    <3>1. i + 1 <= n /\ i + 1 < n /\ i + 1 \in Nat /\ (i + 1) + 1 \in 1 .. n
          /\ (i + 1) + 1 # 1 /\ ((i + 1) + 1) - 1 = i + 1
      BY <1>1
    <3>2. flatten[(i + 1) + 1] = flatten[i + 1] \o seqs[(i + 1) + 1]
      BY <1>10, <3>1
    <3>3. flatten[i + 1] = g[i + 1]
      BY <2>2, <3>1
    <3> QED
      BY <1>8, <3>1, <3>2, <3>3
  <2> HIDE DEF good
  <2>3. \A i \in Nat : i \in good
    BY <2>1, <2>2, Induction
  <2> QED
    BY <2>3 DEF good
<1>12. FlattenSeq(seqs) = g[n]
  <2>1. CASE n = 0
    <3>1. seqs = <<>> /\ g[0] = <<>>
      BY <1>7, <2>1 DEF Flattens, n
    <3> QED
      BY <1>5, <2>1, <3>1
  <2>2. CASE n # 0
    <3>1. n - 1 \in Nat /\ (n - 1) + 1 = n
      BY <1>1, <2>2
    <3>2. flatten[(n - 1) + 1] = g[(n - 1) + 1]
      BY <1>11, <2>2, <3>1
    <3> QED
      BY <1>5, <2>2, <3>1, <3>2
  <2> QED
    BY <2>1, <2>2
<1> QED
  BY <1>7, <1>12 DEF n

LEMMA FlattenEmpty ==
  ASSUME NEW T, NEW seqs \in Seq(Seq(T)), Len(seqs) = 0
  PROVE  FlattenSeq(seqs) = <<>>
BY FlattenSteps DEF Flattens

\* The last list comes at the end.
LEMMA FlattenNext ==
  ASSUME NEW T, NEW n \in Nat, NEW f \in [1 .. n + 1 -> Seq(T)]
  PROVE  FlattenSeq(f) = FlattenSeq([k \in 1 .. n |-> f[k]]) \o f[n + 1]
<1> DEFINE e == [k \in 1 .. n |-> f[k]]
<1>1. f \in Seq(Seq(T)) /\ Len(f) = n + 1
  OBVIOUS
<1>2. e \in Seq(Seq(T)) /\ Len(e) = n
  OBVIOUS
<1>3. \A k \in 1 .. n : e[k] = f[k]
  OBVIOUS
<1> HIDE DEF e
<1>4. PICK g : Flattens(f, T, g) /\ FlattenSeq(f) = g[n + 1]
  BY <1>1, FlattenSteps
<1>5. PICK h : Flattens(e, T, h) /\ FlattenSeq(e) = h[n]
  BY <1>2, FlattenSteps
<1> DEFINE good == {i \in Nat : i <= n => g[i] = h[i]}
<1>6. 0 \in good
  BY <1>4, <1>5 DEF Flattens
<1>7. ASSUME NEW i \in Nat, i \in good PROVE i + 1 \in good
  <2> SUFFICES ASSUME i + 1 <= n PROVE g[i + 1] = h[i + 1]
    OBVIOUS
  <2>1. i < n /\ i < n + 1 /\ i + 1 \in 1 .. n /\ i <= n
    OBVIOUS
  <2>2. g[i + 1] = g[i] \o f[i + 1]
    BY <1>1, <1>4, <2>1 DEF Flattens
  <2>3. h[i + 1] = h[i] \o e[i + 1]
    BY <1>2, <1>5, <2>1 DEF Flattens
  <2>4. e[i + 1] = f[i + 1]
    BY <1>3, <2>1
  <2>5. g[i] = h[i]
    BY <1>7, <2>1
  <2> QED
    BY <2>2, <2>3, <2>4, <2>5
<1> HIDE DEF good
<1>8. n \in good
  BY <1>6, <1>7, Induction
<1>9. g[n] = h[n]
  BY <1>8 DEF good
<1>10. g[n + 1] = g[n] \o f[n + 1]
  <2>1. n < n + 1
    OBVIOUS
  <2> QED
    BY <1>1, <1>4, <2>1 DEF Flattens
<1> QED
  BY <1>4, <1>5, <1>9, <1>10 DEF e

-----------------------------------------------------------------------------
(* Sets and sequences. *)
LEMMA ToSetConcat ==
  ASSUME NEW T, NEW s \in Seq(T), NEW t \in Seq(T)
  PROVE  s \o t \in Seq(T) /\ ToSet(s \o t) = ToSet(s) \cup ToSet(t)
<1>1. /\ s \o t \in Seq(T) /\ Len(s) \in Nat /\ Len(t) \in Nat /\ Len(s \o t) = Len(s) + Len(t)
      /\ \A k \in 1 .. Len(s) + Len(t) : (s \o t)[k] = IF k <= Len(s) THEN s[k] ELSE t[k - Len(s)]
  OBVIOUS
<1>2. DOMAIN s = 1 .. Len(s) /\ DOMAIN t = 1 .. Len(t) /\ DOMAIN (s \o t) = 1 .. Len(s \o t)
  BY <1>1
<1>3. ASSUME NEW k \in 1 .. Len(s) + Len(t) PROVE (s \o t)[k] \in ToSet(s) \cup ToSet(t)
  <2>1. CASE k <= Len(s)
    <3>1. k \in 1 .. Len(s)
      BY <1>1, <2>1
    <3> QED
      BY <1>1, <1>2, <2>1, <3>1 DEF ToSet
  <2>2. CASE ~ k <= Len(s)
    <3>1. k - Len(s) \in 1 .. Len(t)
      BY <1>1, <2>2
    <3> QED
      BY <1>1, <1>2, <2>2, <3>1 DEF ToSet
  <2> QED
    BY <2>1, <2>2
<1>4. ASSUME NEW k \in 1 .. Len(s) PROVE s[k] \in ToSet(s \o t)
  <2>1. k \in 1 .. Len(s) + Len(t) /\ k <= Len(s)
    BY <1>1
  <2> QED
    BY <1>1, <1>2, <2>1 DEF ToSet
<1>5. ASSUME NEW k \in 1 .. Len(t) PROVE t[k] \in ToSet(s \o t)
  <2>1. Len(s) + k \in 1 .. Len(s) + Len(t) /\ ~ (Len(s) + k <= Len(s)) /\ (Len(s) + k) - Len(s) = k
    BY <1>1
  <2>2. (s \o t)[Len(s) + k] = t[k]
    BY <1>1, <2>1
  <2> QED
    BY <1>1, <1>2, <2>1, <2>2 DEF ToSet
<1>6. ToSet(s \o t) \subseteq ToSet(s) \cup ToSet(t)
  BY <1>1, <1>2, <1>3 DEF ToSet
<1>7. ToSet(s) \subseteq ToSet(s \o t)
  BY <1>2, <1>4 DEF ToSet
<1>8. ToSet(t) \subseteq ToSet(s \o t)
  BY <1>2, <1>5 DEF ToSet
<1> QED
  BY <1>1, <1>6, <1>7, <1>8

LEMMA SetToSeqIs ==
  ASSUME NEW S, IsFiniteSet(S)
  PROVE  SetToSeq(S) \in Seq(S) /\ ToSet(SetToSeq(S)) = S
<1> DEFINE n == Cardinality(S)
           f == SetToSeq(S)
<1>1. n \in Nat /\ ExistsBijection(1 .. n, S)
  BY FS_CardinalityType
<1>2. \E g \in [1 .. n -> S] : IsInjective(g)
  BY <1>1 DEF ExistsBijection, Bijection, Injection
<1>3. f \in [1 .. n -> S] /\ IsInjective(f)
  BY <1>2 DEF SetToSeq
<1> HIDE DEF f
<1>4. f \in Seq(S)
  BY <1>1, <1>3
<1>5. f \in Surjection(1 .. n, S)
  <2>1. f \in Injection(1 .. n, S)
    BY <1>3 DEF Injection
  <2>2. Cardinality(1 .. n) = n
    BY <1>1, FS_Interval
  <2> QED
    BY <2>1, <2>2, FS_Injection
<1>6. ToSet(f) = S
  BY <1>3, <1>5 DEF ToSet, Surjection
<1> QED
  BY <1>4, <1>6 DEF f

\* A function on 1 .. n is a sequence of length n.
LEMMA FunctionIsSeq ==
  ASSUME NEW T, NEW n \in Nat, NEW f \in [1 .. n -> T]
  PROVE  f \in Seq(T) /\ Len(f) = n /\ DOMAIN f = 1 .. n
OBVIOUS

\* A union is not larger than its parts together.
LEMMA AtMostBoth ==
  ASSUME NEW A, NEW B, IsFiniteSet(A), IsFiniteSet(B)
  PROVE  /\ IsFiniteSet(A \cup B) /\ Cardinality(A \cup B) \in Nat
         /\ Cardinality(A \cup B) <= Cardinality(A) + Cardinality(B)
<1>1. Cardinality(A) \in Nat /\ Cardinality(B) \in Nat /\ IsFiniteSet(A \cap B)
  BY FS_CardinalityType, FS_Intersection
<1>2. Cardinality(A \cap B) \in Nat
  BY <1>1, FS_CardinalityType
<1>3. IsFiniteSet(A \cup B) /\ Cardinality(A \cup B) = Cardinality(A) + Cardinality(B) - Cardinality(A \cap B)
  BY FS_Union
<1>4. Cardinality(A \cup B) \in Nat
  BY <1>3, FS_CardinalityType
<1> QED
  BY <1>1, <1>2, <1>3, <1>4

\* Sets that agree but for one element.
LEMMA AllButOne ==
  ASSUME NEW A, NEW B, NEW e, IsFiniteSet(A), IsFiniteSet(B), A \ {e} = B \ {e}
  PROVE  Cardinality(B) + (IF e \in A THEN 1 ELSE 0) = Cardinality(A) + (IF e \in B THEN 1 ELSE 0)
<1>1. Cardinality(A \ {e}) = IF e \in A THEN Cardinality(A) - 1 ELSE Cardinality(A)
  BY FS_RemoveElement
<1>2. Cardinality(B \ {e}) = IF e \in B THEN Cardinality(B) - 1 ELSE Cardinality(B)
  BY FS_RemoveElement
<1>3. Cardinality(A) \in Nat /\ Cardinality(B) \in Nat
  BY FS_CardinalityType
<1> QED
  BY <1>1, <1>2, <1>3

\* A sequence with two more elements.
LEMMA Joined ==
  ASSUME NEW T, NEW n \in Nat, NEW s \in Seq(T), NEW t \in Seq(T), Len(s) = n, Len(t) = 2
  PROVE  /\ s \o t \in Seq(T) /\ Len(s \o t) = n + 2 /\ DOMAIN (s \o t) = 1 .. n + 2
         /\ (s \o t)[n + 1] = t[1] /\ (s \o t)[n + 2] = t[2]
<1>1. s \o t \in Seq(T) /\ Len(s \o t) = Len(s) + Len(t)
  BY ConcatProperties
<1>2. Len(s \o t) = n + 2
  BY <1>1
<1>5. DOMAIN (s \o t) = 1 .. Len(s \o t)
  BY <1>1
<1>6. \A k \in 1 .. Len(s) + Len(t) : (s \o t)[k] = IF k <= Len(s) THEN s[k] ELSE t[k - Len(s)]
  BY ConcatProperties
<1>3. \A k \in 1 .. n + 2 : (s \o t)[k] = IF k <= n THEN s[k] ELSE t[k - n]
  BY <1>6
<1>4. n + 1 \in 1 .. n + 2 /\ n + 2 \in 1 .. n + 2 /\ ~(n + 1 <= n) /\ ~(n + 2 <= n) /\ (n + 1) - n = 1
          /\ (n + 2) - n = 2
  OBVIOUS
<1> QED
  BY <1>1, <1>2, <1>3, <1>4, <1>5
=============================================================================
