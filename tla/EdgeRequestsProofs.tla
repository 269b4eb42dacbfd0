-------------------------- MODULE EdgeRequestsProofs --------------------------
(***************************************************************************)
(* Vertices that replace their edges have afterwards those they asked for, *)
(* and read them while they compute, and the in edges follow the out       *)
(* edges.  A superstep fails exactly if a vertex is idle behind one that   *)
(* changed edges.                                                          *)
(***************************************************************************)
EXTENDS EdgeRequests, FiniteSetTheorems, SequenceTheorems, DataLemmas

(***************************************************************************)
(* What the theorems suppose of the edge lists: the edges of a list lead to *)
(* different destinations, and no list starts with a destination at which  *)
(* one that it may replace ends.  Otherwise the code does not do what was  *)
(* asked for.                                                              *)
(***************************************************************************)
EdgeLists == NewEdges \cup {<<>>} \cup {out[v] : out \in InitOut, v \in Vertex}
Distinct(list) == \A i, j \in DOMAIN list : list[i].id = list[j].id => i = j
ListsApart ==
  /\ \A list \in EdgeLists : Distinct(list)
  /\ \A list \in EdgeLists, new \in NewEdges :
       list # <<>> /\ new # <<>> => list[Len(list)].id # new[1].id

-----------------------------------------------------------------------------
(* Parts of lists. *)
\* What is chosen by a range of numbers is the part of the list with them.
LEMMA ChosenRange ==
  ASSUME NEW T, NEW list \in Seq(T), NEW a \in Nat \ {0}, NEW b \in Nat, b <= Len(list)
  PROVE  Chosen(list, a .. b) = SubSeq(list, a, b)
<1> DEFINE F == [k \in Nat |-> IF k \in a .. b THEN <<list[k]>> ELSE <<>>]
           Part(n) == FlattenSeq([k \in 1 .. n |-> F[k]])
           End(n) == IF n < b THEN n ELSE b
           Holds(n) == n <= Len(list) => Part(n) = SubSeq(list, a, End(n))
           good == {n \in Nat : Holds(n)}
<1>1. \A k \in 1 .. Len(list) : F[k] \in Seq(T)
  OBVIOUS
<1>2. Holds(0)
  <2>1. Part(0) = <<>>
    <3>1. [k \in 1 .. 0 |-> F[k]] \in Seq(Seq(T)) /\ Len([k \in 1 .. 0 |-> F[k]]) = 0
      OBVIOUS
    <3> QED
      BY <3>1, FlattenEmpty
  <2>2. SubSeq(list, a, End(0)) = <<>>
    OBVIOUS
  <2> QED
    BY <2>1, <2>2
<1>3. ASSUME NEW n \in Nat, Holds(n) PROVE Holds(n + 1)
  <2> SUFFICES ASSUME n + 1 <= Len(list) PROVE Part(n + 1) = SubSeq(list, a, End(n + 1))
    OBVIOUS
  <2>1. Part(n) = SubSeq(list, a, End(n)) /\ n + 1 \in 1 .. Len(list)
    <3> HIDE DEF Part, End
    <3>1. n <= Len(list) /\ n + 1 \in 1 .. Len(list)
      OBVIOUS
    <3> QED
      BY <1>3, <3>1
  <2> DEFINE f == [k \in 1 .. n + 1 |-> F[k]]
  <2>2. f \in [1 .. n + 1 -> Seq(T)]
    BY <1>1
  <2>3. [k \in 1 .. n |-> f[k]] = [k \in 1 .. n |-> F[k]] /\ f[n + 1] = F[n + 1]
    OBVIOUS
  <2>4. Part(n + 1) = Part(n) \o F[n + 1]
    <3> HIDE DEF f, F
    <3>1. FlattenSeq(f) = FlattenSeq([k \in 1 .. n |-> f[k]]) \o f[n + 1]
      BY <2>2, FlattenNext
    <3> QED
      BY <2>3, <3>1 DEF f
  <2>5. CASE n + 1 \in a .. b
    <3>1. F[n + 1] = <<list[n + 1]>> /\ End(n) = n /\ End(n + 1) = n + 1
      BY <2>5
    <3>2. SubSeq(list, a, n) \o <<list[n + 1]>> = SubSeq(list, a, n + 1)
      BY <2>1, <2>5
    <3> HIDE DEF Part, F, End
    <3> QED
      BY <2>1, <2>4, <3>1, <3>2
  <2>6. CASE n + 1 \notin a .. b
    <3>1. F[n + 1] = <<>>
      BY <2>6
    <3>2. SubSeq(list, a, End(n + 1)) = SubSeq(list, a, End(n))
      BY <2>6
    <3>3. SubSeq(list, a, End(n)) \in Seq(T)
      OBVIOUS
    <3>4. SubSeq(list, a, End(n)) \o <<>> = SubSeq(list, a, End(n))
      BY <3>3
    <3> HIDE DEF Part, F, End
    <3> QED
      BY <2>1, <2>4, <3>1, <3>2, <3>4
  <2> QED
    BY <2>5, <2>6
<1>4. Holds(Len(list))
  <2> HIDE DEF Holds
  <2>1. 0 \in good /\ \A n \in Nat : n \in good => n + 1 \in good
    BY <1>2, <1>3
  <2> HIDE DEF good
  <2>2. Len(list) \in good
    BY <2>1, Induction
  <2> QED
    BY <2>2 DEF good
<1>5. Part(Len(list)) = SubSeq(list, a, b)
  <2>1. End(Len(list)) = b
    OBVIOUS
  <2> HIDE DEF Part, End
  <2> QED
    BY <1>4, <2>1
<1>6. [k \in 1 .. Len(list) |-> F[k]]
        = [k \in 1 .. Len(list) |-> IF k \in a .. b THEN <<list[k]>> ELSE <<>>]
  OBVIOUS
<1> HIDE DEF F
<1> QED
  BY <1>5, <1>6 DEF Chosen

\* Concatenation.
LEMMA Concat ==
  ASSUME NEW T, NEW s \in Seq(T), NEW t \in Seq(T)
  PROVE  /\ s \o t \in Seq(T) /\ Len(s) \in Nat /\ Len(t) \in Nat
         /\ Len(s \o t) = Len(s) + Len(t)
         /\ <<>> \o s = s /\ s \o <<>> = s
OBVIOUS

\* An element at the end of the second of two sequences is at the end of both.
AtEnd(s, t, e) == Append(s \o t, e)
ToSecond(s, t, e) == s \o Append(t, e)
LEMMA AppendConcat ==
  ASSUME NEW T, NEW s \in Seq(T), NEW t \in Seq(T), NEW e \in T
  PROVE  AtEnd(s, t, e) = ToSecond(s, t, e)
BY DEF AtEnd, ToSecond

-----------------------------------------------------------------------------
(* The merge of requests that replace the end of a list. *)
LEMMA BeforeIs ==
  ASSUME NEW old \in Seq([id : Int, val : Val]), NEW i \in Nat \ {0}, NEW id \in Int,
         NEW room \in Nat, NEW n \in 0 .. room,
         /\ \A k \in i .. i + n - 1 : k <= Len(old) /\ old[k].id < id
         /\ n = room \/ i + n > Len(old) \/ old[i + n].id >= id
  PROVE  Before(old, i, id, room) = n
<1> DEFINE Is(m) == /\ \A k \in i .. i + m - 1 : k <= Len(old) /\ old[k].id < id
                    /\ m = room \/ i + m > Len(old) \/ old[i + m].id >= id
           b == CHOOSE m \in 0 .. room : Is(m)
<1>1. Is(n)
  OBVIOUS
<1>2. b \in 0 .. room /\ Is(b)
  <2> HIDE DEF Is
  <2> QED
    BY <1>1
<1>3. Before(old, i, id, room) = b
  BY DEF Before
<1> HIDE DEF b
<1>4. \A k \in 1 .. Len(old) : old[k].id \in Int
  <2> DEFINE T == [id : Int, val : Val]
  <2>1. \A t \in T : t.id \in Int
    OBVIOUS
  <2>2. old \in Seq(T)
    OBVIOUS
  <2> HIDE DEF T
  <2>3. \A k \in 1 .. Len(old) : old[k] \in T
    BY <2>2
  <2> QED
    BY <2>1, <2>3
<1>5. ~ b < n
  <2> SUFFICES ASSUME b < n PROVE FALSE
    OBVIOUS
  <2>1. i + b \in i .. i + n - 1 /\ b # room
    BY <1>2
  <2>2. i + b <= Len(old) /\ old[i + b].id < id
    BY <2>1
  <2>3. old[i + b].id >= id /\ i + b \in 1 .. Len(old)
    BY <1>2, <2>1, <2>2
  <2> QED
    BY <1>4, <2>2, <2>3
<1>6. ~ n < b
  <2> SUFFICES ASSUME n < b PROVE FALSE
    OBVIOUS
  <2>1. i + n \in i .. i + b - 1 /\ n # room
    BY <1>2
  <2>2. i + n <= Len(old) /\ old[i + n].id < id
    BY <1>2, <2>1
  <2>3. old[i + n].id >= id /\ i + n \in 1 .. Len(old)
    BY <2>1, <2>2
  <2> QED
    BY <1>4, <2>2, <2>3
<1> QED
  BY <1>2, <1>3, <1>5, <1>6

\* The requests remove what comes after the first p edges, and then add the edges of new.
Replaces(old, p, new, reqs) ==
  /\ p \in 0 .. Len(old)
  /\ Len(reqs) = (Len(old) - p) + Len(new)
  /\ \A k \in 1 .. Len(old) - p : reqs[k].op = "rmv" /\ reqs[k].id = old[p + k].id
  /\ \A k \in 1 .. Len(new) :
       /\ reqs[(Len(old) - p) + k].op = "add"
       /\ reqs[(Len(old) - p) + k].id = new[k].id
       /\ reqs[(Len(old) - p) + k].val = new[k].val
  /\ \A k \in 1 .. p : /\ \A j \in p + 1 .. Len(old) : old[k].id < old[j].id
                       /\ \A j \in 1 .. Len(new) : old[k].id < new[j].id

LEMMA CountReplacing ==
  ASSUME NEW old, NEW p, NEW new, NEW reqs,
         Replaces(old, p, new, reqs), Len(old) \in Nat, Len(new) \in Nat,
         DOMAIN reqs = 1 .. Len(reqs)
  PROVE  Count(reqs, "rmv") = Len(old) - p /\ Count(reqs, "add") = Len(new)
<1> DEFINE q == Len(old) - p
           a == Len(new)
<1>1. q \in Nat /\ a \in Nat /\ Len(reqs) = q + a
  BY DEF Replaces
<1>2. /\ \A k \in 1 .. q : reqs[k].op = "rmv"
      /\ \A k \in 1 .. a : reqs[q + k].op = "add"
  BY DEF Replaces
<1>3. Count(reqs, "rmv") = Cardinality({k \in DOMAIN reqs : reqs[k].op = "rmv"})
      /\ Count(reqs, "add") = Cardinality({k \in DOMAIN reqs : reqs[k].op = "add"})
  BY DEF Count
<1> HIDE DEF q, a
<1>4. \A k \in q + 1 .. q + a : reqs[k].op = "add"
  <2> SUFFICES ASSUME NEW k \in q + 1 .. q + a PROVE reqs[k].op = "add"
    OBVIOUS
  <2>1. k - q \in 1 .. a /\ q + (k - q) = k
    BY <1>1
  <2> QED
    BY <1>2, <2>1
<1>5. {k \in DOMAIN reqs : reqs[k].op = "rmv"} = 1 .. q
  BY <1>1, <1>2, <1>4
<1>6. {k \in DOMAIN reqs : reqs[k].op = "add"} = q + 1 .. q + a
  BY <1>1, <1>2, <1>4
<1>7. Cardinality(1 .. q) = q /\ Cardinality(q + 1 .. q + a) = a
  <2>1. 1 \in Int /\ q \in Int /\ q + 1 \in Int /\ q + a \in Int
    BY <1>1
  <2>2. Cardinality(1 .. q) = IF 1 > q THEN 0 ELSE q - 1 + 1
    BY <2>1, FS_Interval
  <2>3. Cardinality(q + 1 .. q + a) = IF q + 1 > q + a THEN 0 ELSE (q + a) - (q + 1) + 1
    BY <2>1, FS_Interval
  <2> QED
    BY <1>1, <2>2, <2>3
<1> QED
  BY <1>3, <1>5, <1>6, <1>7 DEF q, a

Merged(old, p, new) == [edges |-> SubSeq(old, 1, p) \o new, ok |-> TRUE]
LEMMA MergeReplaces ==
  ASSUME NEW old \in Seq([id : Int, val : Val]), NEW new \in Seq([id : Int, val : Val]),
         NEW reqs \in Seq([id : Int, op : {"rmv", "add", "mod"}, val : Val]),
         NEW p, NEW u, Replaces(old, p, new, reqs)
  PROVE  Merge(old, reqs, u) = Merged(old, p, new)
<1> DEFINE T == [id : Int, val : Val]
           R == [id : Int, op : {"rmv", "add", "mod"}, val : Val]
           len == Len(old)
           q == len - p
           a == Len(new)
           n == Len(reqs)
           kept == SubSeq(old, 1, p)
           part(j) == SubSeq(new, 1, j)
           newLen == Len(old) + Count(reqs, "add") - Count(reqs, "rmv")
           State(k) == [new |-> IF k = 0 THEN <<>> ELSE kept \o part(k - q),
                        i |-> IF k = 0 THEN 1 ELSE p + (IF k < q THEN k ELSE q) + 1,
                        ok |-> TRUE]
           Is(h) == h = [k \in 0 .. n |->
                           IF k = 0 THEN [new |-> <<>>, i |-> 1, ok |-> newLen >= 0]
                           ELSE MergeTurn(h[k - 1], reqs[k], old, newLen, u)]
           after == CHOOSE h : Is(h)
           end == after[n]
<1>1. /\ len \in Nat /\ a \in Nat /\ n \in Nat /\ p \in 0 .. len /\ q \in Nat
      /\ len = p + q /\ n = q + a
  BY DEF Replaces
<1>2. /\ \A k \in 1 .. q : reqs[k].op = "rmv" /\ reqs[k].id = old[p + k].id
      /\ \A k \in 1 .. a : /\ reqs[q + k].op = "add" /\ reqs[q + k].id = new[k].id
                           /\ reqs[q + k].val = new[k].val
      /\ \A k \in 1 .. p : /\ \A j \in p + 1 .. len : old[k].id < old[j].id
                           /\ \A j \in 1 .. a : old[k].id < new[j].id
  BY DEF Replaces
<1>3. newLen = p + a
  <2>1. DOMAIN reqs = 1 .. Len(reqs) /\ Len(old) \in Nat /\ Len(new) \in Nat
    OBVIOUS
  <2>2. Count(reqs, "rmv") = Len(old) - p /\ Count(reqs, "add") = Len(new)
    BY <2>1, CountReplacing
  <2> DEFINE adds == Count(reqs, "add")
             rmvs == Count(reqs, "rmv")
  <2>3. rmvs = q /\ adds = a /\ newLen = len + adds - rmvs
    BY <2>2
  <2> HIDE DEF adds, rmvs, len, a, q, newLen
  <2> QED
    BY <1>1, <2>3
<1>4. \A t \in T : t.id \in Int /\ t = [id |-> t.id, val |-> t.val]
  OBVIOUS
<1>5. \A t \in R : t.id \in Int
  OBVIOUS
<1>6. old \in Seq(T) /\ new \in Seq(T) /\ reqs \in Seq(R)
  OBVIOUS
<1>7. Merge(old, reqs, u)
        = [edges |-> end.new \o SubSeq(old, end.i, len),
           ok |-> end.ok /\ newLen - Len(end.new) = len - end.i + 1]
  BY DEF Merge
<1> HIDE DEF newLen, T, R, after, State
<1>8. kept \in Seq(T) /\ Len(kept) = p
  BY <1>1, <1>6
<1>9. /\ \A k \in 1 .. len : old[k] \in T
      /\ \A k \in 1 .. a : new[k] \in T
      /\ \A k \in 1 .. n : reqs[k] \in R
  BY <1>6
<1>10. \A j \in Int : j <= a => /\ part(j) \in Seq(T)
                                /\ Len(part(j)) = IF j <= 0 THEN 0 ELSE j
                                /\ j <= 0 => part(j) = <<>>
  BY <1>1, <1>6
<1>11. \A j \in 0 .. a - 1 : part(j + 1) = Append(part(j), new[j + 1])
  BY <1>1, <1>6
<1>12. part(a) = new /\ (a = 0 => new = <<>>)
  BY <1>6
<1>13. kept \o <<>> = kept /\ <<>> \o kept = kept
  <2> HIDE DEF kept
  <2> QED
    BY <1>8
<1>14. SubSeq(old, 1, p) = kept /\ \A j \in Nat \ {0} : SubSeq(old, j, j - 1) = <<>>
  BY <1>6
<1>15. SubSeq(old, 1, len) = old
  BY <1>6
<1> HIDE DEF len, q, a, n, kept, part
<1>16. ASSUME NEW k \in 1 .. n
       PROVE  MergeTurn(State(k - 1), reqs[k], old, newLen, u) = State(k)
  <2> DEFINE s == State(k - 1)
             new0 == s.new
             i == s.i
             r == reqs[k]
             id == r.id
             c == IF k - 1 <= q THEN 0 ELSE k - 1 - q
             room == newLen - Len(new0)
             m == IF k = 1 THEN p ELSE 0
             mid == new0 \o SubSeq(old, i, i + m - 1)
  <2>1. s.ok = TRUE /\ k \in Nat /\ k >= 1 /\ k <= n
    BY <1>1 DEF State
  <2>2. id \in Int
    BY <1>5, <1>9
  <2>3. i = IF k = 1 THEN 1 ELSE p + (IF k - 1 < q THEN k - 1 ELSE q) + 1
    BY DEF State
  <2>4. new0 = IF k = 1 THEN <<>> ELSE kept \o part((k - 1) - q)
    BY DEF State
  <2>5. part((k - 1) - q) \in Seq(T) /\ Len(part((k - 1) - q)) = c
        /\ (c = 0 => part((k - 1) - q) = <<>>)
    <3>1. (k - 1) - q \in Int /\ (k - 1) - q <= a
      BY <1>1
    <3> QED
      BY <1>1, <1>10, <3>1
  <2> HIDE DEF s, i, id, r, new0
  <2> DEFINE f == part((k - 1) - q)
  <2> HIDE DEF f, c
  <2>6. new0 \in Seq(T) /\ Len(new0) = IF k = 1 THEN 0 ELSE p + c
    <3>1. kept \o f \in Seq(T) /\ Len(kept \o f) = p + c
      BY <1>8, <2>5, Concat DEF f
    <3> QED
      BY <2>4, <3>1 DEF f
  <2>20. c = IF k - 1 <= q THEN 0 ELSE k - 1 - q
    BY DEF c
  <2>7. i \in Nat \ {0}
    BY <1>1, <2>1, <2>3
  <2>8. room \in Nat /\ m \in 0 .. room
    <3>1. Len(new0) \in Nat /\ Len(new0) <= p + a /\ (k = 1 => Len(new0) = 0)
      BY <1>1, <2>1, <2>6, <2>20
    <3> QED
      BY <1>1, <1>3, <3>1
  <2>9. k <= q => r.op = "rmv" /\ id = old[p + k].id /\ p + k \in 1 .. len
    BY <1>1, <1>2, <2>1 DEF r, id
  <2>10. k > q => /\ k - q \in 1 .. a /\ r.op = "add" /\ id = new[k - q].id
                  /\ [id |-> id, val |-> r.val] = new[k - q]
    <3> SUFFICES ASSUME k > q
                 PROVE  /\ k - q \in 1 .. a /\ r.op = "add" /\ id = new[k - q].id
                        /\ [id |-> id, val |-> r.val] = new[k - q]
      OBVIOUS
    <3>1. k - q \in 1 .. a /\ q + (k - q) = k
      BY <1>1, <2>1
    <3>2. r.op = "add" /\ id = new[k - q].id /\ r.val = new[k - q].val
      <4>1. reqs[q + (k - q)].op = "add" /\ reqs[q + (k - q)].id = new[k - q].id
            /\ reqs[q + (k - q)].val = new[k - q].val
        BY <1>2, <3>1
      <4> QED
        BY <3>1, <4>1 DEF r, id
    <3> QED
      BY <1>4, <1>9, <3>1, <3>2
  <2>11. \A j \in i .. i + m - 1 : j <= len /\ old[j].id < id
    <3> SUFFICES ASSUME NEW j \in i .. i + m - 1 PROVE j <= len /\ old[j].id < id
      OBVIOUS
    <3>1. k = 1 /\ j \in 1 .. p /\ j <= len
      BY <1>1, <2>1, <2>3
    <3>2. CASE q = 0
      BY <1>1, <1>2, <2>10, <3>1, <3>2
    <3>3. CASE q # 0
      <4>1. p + 1 \in p + 1 .. len /\ k <= q
        BY <1>1, <3>1, <3>3
      <4>2. old[j].id < old[p + 1].id /\ id = old[p + 1].id
        BY <1>2, <2>9, <3>1, <4>1
      <4> QED
        BY <3>1, <4>2
    <3> QED
      BY <3>2, <3>3
  <2>12. (k <= q => i + m = p + k) /\ (k > q => i + m = len + 1)
    BY <1>1, <2>1, <2>3
  <2>13. m = room \/ i + m > len \/ old[i + m].id >= id
    <3>1. k <= q => old[p + k].id >= id
      BY <1>4, <1>9, <2>2, <2>9
    <3> HIDE DEF m, room
    <3> QED
      BY <1>1, <2>12, <3>1
  <2>14. Before(old, i, id, room) = m
    <3> HIDE DEF room, m, len
    <3>1. old \in Seq([id : Int, val : Val])
      OBVIOUS
    <3> QED
      BY <2>2, <2>7, <2>8, <2>11, <2>13, BeforeIs DEF len
  <2>15. mid = kept \o part((k - 1) - q) /\ Len(mid) = p + c
    <3>1. mid = kept \o part((k - 1) - q)
      <4>1. CASE k = 1
        <5>1. new0 = <<>> /\ i = 1 /\ m = p /\ i + m - 1 = p
          BY <1>1, <2>3, <2>4, <4>1
        <5>2. mid = kept
          BY <1>13, <1>14, <5>1
        <5>3. part((k - 1) - q) = <<>>
          BY <1>1, <2>5, <2>20, <4>1
        <5> HIDE DEF mid
        <5> QED
          BY <1>13, <5>2, <5>3
      <4>2. CASE k # 1
        <5>1. i + m - 1 = i - 1
          BY <2>7, <4>2
        <5>2. mid = new0 \o <<>>
          BY <1>14, <2>7, <5>1
        <5>3. new0 \o <<>> = new0
          BY <2>6
        <5> QED
          BY <2>4, <4>2, <5>2, <5>3
      <4> QED
        BY <4>1, <4>2
    <3>2. Len(kept \o f) = p + c
      BY <1>8, <2>5, Concat DEF f
    <3> QED
      BY <3>1, <3>2 DEF f
  <2>16. MergeTurn(s, r, old, newLen, u)
           = CASE r.op = "rmv" -> [new |-> mid, i |-> (i + m) + 1, ok |-> TRUE]
               [] r.op = "add" -> [new |-> Append(mid, [id |-> id, val |-> r.val]),
                                   i |-> i + m, ok |-> Len(mid) < newLen]
               [] OTHER -> MergeTurn(s, r, old, newLen, u)
    <3> HIDE DEF m
    <3>1. Before(old, s.i, r.id, newLen - Len(s.new)) = m
      BY <2>14 DEF i, id, new0
    <3>2. s.ok = TRUE
      BY <2>1
    <3>3. mid = s.new \o SubSeq(old, s.i, s.i + m - 1)
      BY DEF new0, i
    <3> HIDE DEF mid
    <3>4. CASE r.op = "rmv"
      <4>1. MergeTurn(s, r, old, newLen, u) = [new |-> mid, i |-> (s.i + m) + 1, ok |-> TRUE]
        BY <3>1, <3>2, <3>3, <3>4 DEF MergeTurn
      <4> QED
        BY <3>4, <4>1 DEF i
    <3>5. CASE r.op = "add"
      <4>1. MergeTurn(s, r, old, newLen, u)
              = [new |-> Append(mid, [id |-> r.id, val |-> r.val]),
                 i |-> s.i + m, ok |-> Len(mid) < newLen]
        BY <3>1, <3>2, <3>3, <3>5 DEF MergeTurn
      <4> QED
        BY <3>5, <4>1 DEF i, id
    <3> QED
      BY <3>4, <3>5
  <2> DEFINE next == i + m
  <2> HIDE DEF m, mid, room, next
  <2>17. State(k) = [new |-> kept \o part(k - q),
                     i |-> p + (IF k < q THEN k ELSE q) + 1, ok |-> TRUE]
    <3>1. k # 0
      OBVIOUS
    <3> QED
      BY <3>1 DEF State
  <2>18. CASE k <= q
    <3>1. (i + m) + 1 = p + (IF k < q THEN k ELSE q) + 1
      <4>1. next = p + k
        BY <2>12, <2>18 DEF next
      <4>2. p + (IF k < q THEN k ELSE q) + 1 = p + k + 1
        BY <1>1, <2>1, <2>18
      <4>3. next + 1 = p + k + 1
        BY <4>1
      <4> QED
        BY <4>2, <4>3 DEF next
    <3>2. part((k - 1) - q) = <<>> /\ part(k - q) = <<>>
      BY <1>1, <1>10, <2>1, <2>5, <2>18, <2>20
    <3>3. mid = kept \o part(k - q)
      BY <2>15, <3>2
    <3>4. r.op = "rmv"
      BY <2>9, <2>18
    <3>5. MergeTurn(s, r, old, newLen, u) = [new |-> mid, i |-> (i + m) + 1, ok |-> TRUE]
      BY <2>16, <3>4
    <3> QED
      BY <2>17, <3>1, <3>3, <3>5 DEF s, r
  <2>19. CASE k > q
    <3>1. i + m = p + (IF k < q THEN k ELSE q) + 1
      <4>1. next = len + 1
        BY <2>12, <2>19 DEF next
      <4>2. p + (IF k < q THEN k ELSE q) + 1 = len + 1
        BY <1>1, <2>1, <2>19
      <4> QED
        BY <4>1, <4>2 DEF next
    <3>2. Append(mid, new[k - q]) = kept \o part(k - q)
      <4>1. (k - 1) - q \in 0 .. a - 1 /\ ((k - 1) - q) + 1 = k - q
        BY <1>1, <2>1, <2>19
      <4>2. part(k - q) = Append(part((k - 1) - q), new[k - q])
        BY <1>11, <4>1
      <4>3. new[k - q] \in T
        BY <1>9, <2>10, <2>19
      <4>4. f \in Seq(T)
        BY <2>5 DEF f
      <4>5. Append(kept \o f, new[k - q]) = kept \o Append(f, new[k - q])
        <5>1. AtEnd(kept, f, new[k - q]) = ToSecond(kept, f, new[k - q])
          BY <1>8, <4>3, <4>4, AppendConcat
        <5> QED
          BY <5>1 DEF AtEnd, ToSecond
      <4> QED
        BY <2>15, <4>2, <4>5 DEF f
    <3>3. Len(mid) < newLen
      BY <1>1, <1>3, <2>1, <2>15, <2>19, <2>20
    <3>4. r.op = "add" /\ [id |-> id, val |-> r.val] = new[k - q]
      BY <2>10, <2>19
    <3>5. MergeTurn(s, r, old, newLen, u)
            = [new |-> Append(mid, [id |-> id, val |-> r.val]),
               i |-> i + m, ok |-> Len(mid) < newLen]
      BY <2>16, <3>4
    <3> QED
      BY <2>17, <3>1, <3>2, <3>3, <3>4, <3>5 DEF s, r
  <2> QED
    BY <1>1, <2>1, <2>18, <2>19
<1>17. State(0) = [new |-> <<>>, i |-> 1, ok |-> newLen >= 0]
  <2>1. (newLen >= 0) = TRUE
    BY <1>1, <1>3
  <2> QED
    BY <2>1 DEF State
<1> DEFINE g == [k \in 0 .. n |-> State(k)]
<1>18. Is(g)
  <2>1. ASSUME NEW k \in 0 .. n, k # 0
        PROVE  g[k] = MergeTurn(g[k - 1], reqs[k], old, newLen, u)
    <3>1. k \in 1 .. n /\ k - 1 \in 0 .. n
      BY <1>1, <2>1
    <3>2. g[k] = State(k) /\ g[k - 1] = State(k - 1)
      BY <3>1
    <3> QED
      BY <1>16, <3>1, <3>2
  <2>2. g[0] = [new |-> <<>>, i |-> 1, ok |-> newLen >= 0]
    BY <1>1, <1>17
  <2>3. g = [k \in 0 .. n |-> g[k]]
    OBVIOUS
  <2> HIDE DEF g
  <2> QED
    BY <2>1, <2>2, <2>3
<1>19. Is(after)
  <2> HIDE DEF g, Is
  <2> QED
    BY <1>18 DEF after
<1> DEFINE Holds(k) == k <= n => after[k] = State(k)
           good == {k \in Nat : Holds(k)}
<1> HIDE DEF g
<1>20. Holds(0)
  BY <1>1, <1>17, <1>19
<1>21. ASSUME NEW k \in Nat, Holds(k) PROVE Holds(k + 1)
  <2> SUFFICES ASSUME k + 1 <= n PROVE after[k + 1] = State(k + 1)
    OBVIOUS
  <2>1. k + 1 \in 0 .. n /\ k + 1 \in 1 .. n /\ k + 1 # 0 /\ (k + 1) - 1 = k /\ k <= n
    BY <1>1
  <2>2. after[k + 1] = MergeTurn(after[(k + 1) - 1], reqs[k + 1], old, newLen, u)
    BY <1>19, <2>1
  <2>3. MergeTurn(State((k + 1) - 1), reqs[k + 1], old, newLen, u) = State(k + 1)
    BY <1>16, <2>1
  <2>4. after[(k + 1) - 1] = State((k + 1) - 1)
    BY <1>21, <2>1
  <2> QED
    BY <2>2, <2>3, <2>4
<1>22. end = State(n)
  <2> HIDE DEF Holds
  <2>1. 0 \in good /\ \A k \in Nat : k \in good => k + 1 \in good
    BY <1>20, <1>21
  <2> HIDE DEF good
  <2>2. n \in good
    BY <1>1, <2>1, Induction
  <2>3. Holds(n) /\ n <= n
    BY <1>1, <2>2 DEF good
  <2> QED
    BY <2>3 DEF Holds
<1> HIDE DEF Is, end, Holds, good
<1>23. CASE n = 0
  <2>1. end.new = <<>> /\ end.i = 1 /\ end.ok = TRUE
    BY <1>22, <1>23 DEF State
  <2>2. a = 0 /\ p = len
    BY <1>1, <1>23
  <2>3. SubSeq(old, 1, len) = kept /\ new = <<>>
    BY <1>12, <1>14, <2>2
  <2>4. newLen - Len(<<>>) = len - 1 + 1
    BY <1>1, <1>3, <2>2
  <2>5. SubSeq(old, end.i, len) = kept
    BY <2>1, <2>3
  <2>6. Merge(old, reqs, u) = [edges |-> kept, ok |-> TRUE]
    BY <1>7, <1>13, <2>1, <2>4, <2>5
  <2> QED
    BY <1>13, <1>14, <2>3, <2>6 DEF Merged
<1>24. CASE n # 0
  <2>1. n - q = a
    BY <1>1
  <2>2. end.new = kept \o new /\ end.ok = TRUE
    BY <1>12, <1>22, <1>24, <2>1 DEF State
  <2>3. end.i = len + 1
    <3>1. end.i = p + (IF n < q THEN n ELSE q) + 1
      BY <1>22, <1>24 DEF State
    <3> QED
      BY <1>1, <3>1
  <2>4. SubSeq(old, len + 1, len) = <<>>
    <3>1. len + 1 \in Nat \ {0} /\ (len + 1) - 1 = len
      BY <1>1
    <3> QED
      BY <1>14, <3>1
  <2> DEFINE all == kept \o new
  <2>5. all \in Seq(T) /\ Len(all) = p + a
    BY <1>6, <1>8, Concat DEF a, all
  <2> HIDE DEF all
  <2>6. end.new \o SubSeq(old, end.i, len) = all
    <3>1. all \o <<>> = all
      BY <2>5
    <3> QED
      BY <2>2, <2>3, <2>4, <3>1 DEF all
  <2>7. newLen - Len(end.new) = len - end.i + 1
    <3>1. Len(end.new) = p + a
      BY <2>2, <2>5 DEF all
    <3> QED
      BY <1>1, <1>3, <2>3, <3>1
  <2>8. Merge(old, reqs, u) = [edges |-> all, ok |-> TRUE]
    BY <1>7, <2>2, <2>6, <2>7
  <2> QED
    BY <1>14, <2>8 DEF all, Merged
<1> QED
  BY <1>23, <1>24

-----------------------------------------------------------------------------
(* The reduction of requests that replace a list. *)
LEMMA Sorted ==
  ASSUME NEW T, NEW reqs \in Seq(T), NEW m \in 0 .. Len(reqs),
         \A k \in 1 .. m : reqs[k].op = "rmv",
         \A k \in m + 1 .. Len(reqs) : reqs[k].op = "add"
  PROVE  MaskedStableSort(reqs) = reqs
<1> DEFINE n == Len(reqs)
           of(op) == Chosen(reqs, {k \in DOMAIN reqs : reqs[k].op = op})
           rmvs == SubSeq(reqs, 1, m)
           adds == SubSeq(reqs, m + 1, n)
<1>1. n \in Nat /\ DOMAIN reqs = 1 .. n /\ m \in Nat /\ m + 1 \in Nat \ {0} /\ m <= n
  OBVIOUS
<1>2. MaskedStableSort(reqs) = of("rmv") \o of("add") \o of("mod")
  BY DEF MaskedStableSort
<1>3. of("rmv") = rmvs
  <2>1. {k \in DOMAIN reqs : reqs[k].op = "rmv"} = 1 .. m
    BY <1>1
  <2>2. Chosen(reqs, 1 .. m) = SubSeq(reqs, 1, m)
    BY <1>1, ChosenRange
  <2> QED
    BY <2>1, <2>2
<1>4. of("add") = adds
  <2>1. {k \in DOMAIN reqs : reqs[k].op = "add"} = m + 1 .. n
    BY <1>1
  <2>2. Chosen(reqs, m + 1 .. n) = SubSeq(reqs, m + 1, n)
    <3>1. n <= Len(reqs)
      OBVIOUS
    <3> HIDE DEF n
    <3> QED
      BY <1>1, <3>1, ChosenRange
  <2> QED
    BY <2>1, <2>2
<1>5. of("mod") = <<>>
  <2>1. {k \in DOMAIN reqs : reqs[k].op = "mod"} = 1 .. 0
    BY <1>1
  <2>2. Chosen(reqs, 1 .. 0) = SubSeq(reqs, 1, 0)
    BY <1>1, ChosenRange
  <2>3. SubSeq(reqs, 1, 0) = <<>>
    OBVIOUS
  <2> QED
    BY <2>1, <2>2, <2>3
<1> HIDE DEF of
<1>6. rmvs \o adds = reqs
  <2>1. 1 \in 1 .. Len(reqs) + 1 /\ m \in 1 - 1 .. Len(reqs) /\ Len(reqs) \in m .. Len(reqs)
    BY <1>1
  <2>2. SubSeq(reqs, 1, m) \o SubSeq(reqs, m + 1, Len(reqs)) = SubSeq(reqs, 1, Len(reqs))
    BY <2>1, ConcatAdjacentSubSeq
  <2> QED
    BY <2>2, SubSeqFull
<1>7. reqs \o <<>> = reqs
  OBVIOUS
<1> HIDE DEF rmvs, adds
<1> QED
  BY <1>2, <1>3, <1>4, <1>5, <1>6, <1>7

\* Nothing asked for is nothing to do.
LEMMA OptimizedNone ==
  ASSUME NEW old
  PROVE  Optimized(old, <<>>) = <<>>
<1> DEFINE Is(h) == h = [k \in 0 .. 0 |->
                           IF k = 0 THEN [from |-> 1, reqs |-> <<>>]
                           ELSE OptimizeTurn(h[k - 1], k, old, <<>>)]
           after == CHOOSE h : Is(h)
<1>1. MaskedStableSort(<<>>) = <<>>
  <2>1. <<>> \in Seq({}) /\ 0 \in 0 .. Len(<<>>)
        /\ 1 .. 0 = {} /\ 0 + 1 .. Len(<<>>) = {}
    OBVIOUS
  <2> QED
    BY <2>1, Sorted
<1>2. Optimized(old, <<>>) = after[0].reqs
  BY <1>1 DEF Optimized
<1>3. Is([k \in 0 .. 0 |-> [from |-> 1, reqs |-> <<>>]])
  OBVIOUS
<1>4. Is(after)
  <2> HIDE DEF Is
  <2> QED
    BY <1>3
<1> HIDE DEF after
<1> QED
  BY <1>2, <1>4

\* The last edge of the one list and the first of the other lead elsewhere.
Apart(old, new) == old # <<>> /\ new # <<>> => old[Len(old)].id # new[1].id

LEMMA OptimizedIs ==
  ASSUME NEW old \in Seq([id : Int, val : Val]), NEW new \in Seq([id : Int, val : Val]),
         NEW reqs \in Seq([id : Int, op : {"rmv", "add", "mod"}, val : Val]),
         Replaces(old, 0, new, reqs), Distinct(old), Distinct(new), Apart(old, new)
  PROVE  Optimized(old, reqs) = reqs
<1> DEFINE R == [id : Int, op : {"rmv", "add", "mod"}, val : Val]
           q == Len(old)
           a == Len(new)
           n == Len(reqs)
           part(j) == SubSeq(reqs, 1, j)
           State(k) == [from |-> IF k <= q THEN k + 1 ELSE q + 1, reqs |-> part(k)]
           Is(h) == h = [k \in 0 .. n |-> IF k = 0 THEN [from |-> 1, reqs |-> <<>>]
                                          ELSE OptimizeTurn(h[k - 1], k, old, reqs)]
           after == CHOOSE h : Is(h)
<1>1. q \in Nat /\ a \in Nat /\ n \in Nat /\ n = q + a
  BY DEF Replaces
<1>2. /\ \A k \in 1 .. q : reqs[k].op = "rmv" /\ reqs[k].id = old[k].id
      /\ \A k \in 1 .. a : reqs[q + k].op = "add" /\ reqs[q + k].id = new[k].id
  <2>1. \A k \in 1 .. q - 0 : reqs[k].op = "rmv" /\ reqs[k].id = old[0 + k].id
    BY DEF Replaces
  <2>2. \A k \in 1 .. a : reqs[(q - 0) + k].op = "add" /\ reqs[(q - 0) + k].id = new[k].id
    BY DEF Replaces
  <2>3. q - 0 = q /\ \A k \in 1 .. q : 0 + k = k
    BY <1>1
  <2> QED
    BY <2>1, <2>2, <2>3
<1>3. \A k \in q + 1 .. n : k - q \in 1 .. a /\ reqs[k].op = "add" /\ reqs[k].id = new[k - q].id
  <2> SUFFICES ASSUME NEW k \in q + 1 .. n
               PROVE  k - q \in 1 .. a /\ reqs[k].op = "add" /\ reqs[k].id = new[k - q].id
    OBVIOUS
  <2>1. k - q \in 1 .. a /\ q + (k - q) = k
    BY <1>1
  <2> QED
    BY <1>2, <2>1
<1>4. reqs \in Seq(R)
  OBVIOUS
<1>5. /\ \A i, j \in 1 .. q : old[i].id = old[j].id => i = j
      /\ \A i, j \in 1 .. a : new[i].id = new[j].id => i = j
      /\ q > 0 /\ a > 0 => old[q].id # new[1].id
  <2>1. DOMAIN old = 1 .. q /\ DOMAIN new = 1 .. a
    OBVIOUS
  <2>2. (q > 0 => old # <<>>) /\ (a > 0 => new # <<>>)
    OBVIOUS
  <2> QED
    BY <2>1, <2>2 DEF Distinct, Apart
<1> HIDE DEF R
<1>6. part(0) = <<>> /\ part(n) = reqs
  BY <1>4
<1>7. \A k \in 1 .. n : part(k) = Append(part(k - 1), reqs[k])
  BY <1>4
<1>8. MaskedStableSort(reqs) = reqs
  <2>1. q \in 0 .. Len(reqs)
    BY <1>1
  <2>2. \A k \in 1 .. q : reqs[k].op = "rmv"
    BY <1>2
  <2>3. \A k \in q + 1 .. Len(reqs) : reqs[k].op = "add"
    BY <1>3
  <2> HIDE DEF q
  <2> QED
    BY <1>4, <2>1, <2>2, <2>3, Sorted
<1>9. Optimized(old, reqs) = after[n].reqs
  BY <1>8 DEF Optimized
<1> HIDE DEF q, a, n, part, State, after
<1>10. ASSUME NEW k \in 1 .. n
       PROVE  OptimizeTurn(State(k - 1), k, old, reqs) = State(k)
  <2> DEFINE s == State(k - 1)
             r == reqs[k]
             found == {i \in s.from .. Len(old) : old[i].id = r.id}
  <2>1. k \in Nat /\ k >= 1 /\ k <= n
    BY <1>1
  <2>2. s.from = IF k - 1 <= q THEN k ELSE q + 1
    BY <2>1 DEF State
  <2>3. s.reqs = part(k - 1)
    BY DEF State
  <2>4. s = [from |-> s.from, reqs |-> s.reqs]
    BY DEF State
  <2>5. k < n => reqs[k + 1].id # reqs[k].id
    <3> SUFFICES ASSUME k < n PROVE reqs[k + 1].id # reqs[k].id
      OBVIOUS
    <3>1. CASE k < q
      <4>1. k \in 1 .. q /\ k + 1 \in 1 .. q /\ k # k + 1
        BY <1>1, <2>1, <3>1
      <4>2. reqs[k].id = old[k].id /\ reqs[k + 1].id = old[k + 1].id
        BY <1>2, <4>1
      <4> QED
        BY <1>5, <4>1, <4>2
    <3>2. CASE k = q
      <4>1. k \in 1 .. q /\ k + 1 \in q + 1 .. n /\ (k + 1) - q = 1 /\ q > 0 /\ a > 0
        BY <1>1, <2>1, <3>2
      <4>2. reqs[k].id = old[q].id
        BY <1>2, <3>2, <4>1
      <4>3. reqs[k + 1].id = new[1].id
        BY <1>3, <4>1
      <4> QED
        BY <1>5, <4>1, <4>2, <4>3
    <3>3. CASE k > q
      <4>1. k \in q + 1 .. n /\ k + 1 \in q + 1 .. n /\ k - q # (k + 1) - q
        BY <1>1, <2>1, <3>3
      <4>2. /\ k - q \in 1 .. a /\ reqs[k].id = new[k - q].id
            /\ (k + 1) - q \in 1 .. a /\ reqs[k + 1].id = new[(k + 1) - q].id
        BY <1>3, <4>1
      <4> QED
        BY <1>5, <4>1, <4>2
    <3> QED
      BY <1>1, <2>1, <3>1, <3>2, <3>3
  <2>6. CASE k <= q
    <3>1. s.from = k /\ k \in 1 .. q
      BY <1>1, <2>1, <2>2, <2>6
    <3>2. r.op = "rmv" /\ r.id = old[k].id
      BY <1>2, <3>1
    <3>3. found = {k}
      <4>1. ASSUME NEW i \in k .. q PROVE old[i].id = r.id <=> i = k
        <5>1. i \in 1 .. q
          BY <1>1, <3>1
        <5> QED
          BY <1>5, <3>1, <3>2, <5>1
      <4>2. found = {i \in k .. q : old[i].id = r.id}
        BY <3>1 DEF q
      <4>3. k \in k .. q
        BY <1>1, <3>1
      <4> HIDE DEF found, r
      <4> QED
        BY <4>1, <4>2, <4>3
    <3> HIDE DEF found
    <3>4. (CHOOSE i \in found : \A j \in found : i <= j) = k
      <4>1. k \in found /\ \A j \in found : k <= j
        BY <2>1, <3>3
      <4>2. \A i : i \in found => i = k
        BY <3>3
      <4> QED
        BY <4>1, <4>2
    <3> HIDE DEF s, r
    <3>5. OptimizeTurn(s, k, old, reqs) = [from |-> k + 1, reqs |-> Append(s.reqs, reqs[k])]
      <4>1. ~(k < Len(reqs) /\ reqs[k + 1].id = reqs[k].id)
        BY <2>5 DEF n
      <4>2. found # {} /\ reqs[k].op # "add"
        BY <3>2, <3>3 DEF r
      <4> HIDE DEF found
      <4>3. OptimizeTurn(s, k, old, reqs)
              = [from |-> (CHOOSE i \in found : \A j \in found : i <= j) + 1,
                 reqs |-> Append(s.reqs, reqs[k])]
        BY <4>1, <4>2 DEF OptimizeTurn, found, r
      <4> QED
        BY <3>4, <4>3
    <3>6. State(k) = [from |-> k + 1, reqs |-> part(k)]
      BY <2>6 DEF State
    <3> QED
      BY <1>7, <2>3, <3>5, <3>6 DEF s
  <2>7. CASE k > q
    <3>1. s.from = q + 1
      BY <1>1, <2>1, <2>2, <2>7
    <3>2. found = {}
      <4>1. s.from .. Len(old) = {}
        BY <1>1, <3>1 DEF q
      <4> QED
        BY <4>1
    <3>3. r.op = "add"
      <4>1. k \in q + 1 .. n
        BY <1>1, <2>1, <2>7
      <4> QED
        BY <1>3, <4>1
    <3> HIDE DEF found, s, r
    <3>4. OptimizeTurn(s, k, old, reqs) = [s EXCEPT !.reqs = Append(s.reqs, reqs[k])]
      <4>1. ~(k < Len(reqs) /\ reqs[k + 1].id = reqs[k].id)
        BY <2>5 DEF n
      <4>2. reqs[k].op # "rmv"
        BY <3>3 DEF r
      <4>3. {i \in s.from .. Len(old) : old[i].id = reqs[k].id} = {}
        BY <3>2 DEF found, r
      <4> QED
        BY <4>1, <4>2, <4>3 DEF OptimizeTurn
    <3>5. [s EXCEPT !.reqs = Append(s.reqs, reqs[k])]
            = [from |-> s.from, reqs |-> Append(s.reqs, reqs[k])]
      <4> DEFINE f == s.from
                 l == s.reqs
                 e == Append(s.reqs, reqs[k])
      <4>1. s = [from |-> f, reqs |-> l]
        BY <2>4
      <4> HIDE DEF f, l, e
      <4>2. [s EXCEPT !.reqs = e] = [from |-> f, reqs |-> e]
        BY <4>1
      <4> QED
        BY <4>2 DEF f, e
    <3>6. State(k) = [from |-> q + 1, reqs |-> part(k)]
      <4>1. ~ k <= q
        BY <1>1, <2>1, <2>7
      <4> QED
        BY <4>1 DEF State
    <3> QED
      BY <1>7, <2>3, <3>1, <3>4, <3>5, <3>6 DEF s
  <2> QED
    BY <1>1, <2>1, <2>6, <2>7
<1>11. State(0) = [from |-> 1, reqs |-> <<>>]
  BY <1>1, <1>6 DEF State
<1> DEFINE g == [k \in 0 .. n |-> State(k)]
<1>12. Is(g)
  <2>1. ASSUME NEW k \in 0 .. n, k # 0
        PROVE  g[k] = OptimizeTurn(g[k - 1], k, old, reqs)
    <3>1. k \in 1 .. n /\ k - 1 \in 0 .. n
      BY <1>1, <2>1
    <3>2. g[k] = State(k) /\ g[k - 1] = State(k - 1)
      BY <3>1
    <3> QED
      BY <1>10, <3>1, <3>2
  <2>2. g[0] = [from |-> 1, reqs |-> <<>>]
    BY <1>1, <1>11
  <2>3. g = [k \in 0 .. n |-> g[k]]
    OBVIOUS
  <2> HIDE DEF g
  <2> QED
    BY <2>1, <2>2, <2>3
<1>13. Is(after)
  <2> HIDE DEF g, Is
  <2> QED
    BY <1>12 DEF after
<1> DEFINE Holds(k) == k <= n => after[k] = State(k)
           good == {k \in Nat : Holds(k)}
<1> HIDE DEF g
<1>14. Holds(0)
  BY <1>1, <1>11, <1>13
<1>15. ASSUME NEW k \in Nat, Holds(k) PROVE Holds(k + 1)
  <2> SUFFICES ASSUME k + 1 <= n PROVE after[k + 1] = State(k + 1)
    OBVIOUS
  <2>1. k + 1 \in 0 .. n /\ k + 1 \in 1 .. n /\ k + 1 # 0 /\ (k + 1) - 1 = k /\ k <= n
    BY <1>1
  <2>2. after[k + 1] = OptimizeTurn(after[(k + 1) - 1], k + 1, old, reqs)
    BY <1>13, <2>1
  <2>3. OptimizeTurn(State((k + 1) - 1), k + 1, old, reqs) = State(k + 1)
    BY <1>10, <2>1
  <2>4. after[(k + 1) - 1] = State((k + 1) - 1)
    BY <1>15, <2>1
  <2> QED
    BY <2>2, <2>3, <2>4
<1>16. after[n] = State(n)
  <2> HIDE DEF Holds
  <2>1. 0 \in good /\ \A k \in Nat : k \in good => k + 1 \in good
    BY <1>14, <1>15
  <2> HIDE DEF good
  <2>2. n \in good
    BY <1>1, <2>1, Induction
  <2>3. Holds(n) /\ n <= n
    BY <1>1, <2>2 DEF good
  <2> QED
    BY <2>3 DEF Holds
<1> QED
  BY <1>6, <1>9, <1>16 DEF State

-----------------------------------------------------------------------------
(* The requests of a call that replaces the edges of a vertex. *)
LEMMA PrefixKept ==
  ASSUME NEW T, NEW l \in Seq(T), NEW s \in 0 .. Len(l), NEW r \in Seq(T)
  PROVE  /\ SubSeq(l, 1, s) \o r \in Seq(T)
         /\ Len(SubSeq(l, 1, s) \o r) = s + Len(r)
         /\ SubSeq(SubSeq(l, 1, s) \o r, s + 1, s + Len(r)) = r
         /\ \A a \in Nat \ {0}, b \in 0 .. s :
              SubSeq(SubSeq(l, 1, s) \o r, a, b) = SubSeq(l, a, b)
<1> DEFINE p == SubSeq(l, 1, s)
           all == p \o r
<1>1. p \in Seq(T) /\ Len(p) = s /\ \A i \in 1 .. s : p[i] = l[i]
  OBVIOUS
<1>2. s \in Nat /\ Len(r) \in Nat
  OBVIOUS
<1> HIDE DEF p
<1>3. /\ all \in Seq(T) /\ Len(all) = s + Len(r)
      /\ \A i \in 1 .. s : all[i] = p[i]
      /\ \A i \in 1 .. Len(r) : all[s + i] = r[i]
  <2>1. Len(p) + Len(r) = s + Len(r)
    BY <1>1
  <2>2. all \in Seq(T) /\ Len(all) = Len(p) + Len(r)
    BY <1>1, Concat
  <2>3. \A i \in 1 .. Len(p) + Len(r) : all[i] = IF i <= Len(p) THEN p[i] ELSE r[i - Len(p)]
    BY <1>1, ConcatProperties
  <2>4. ASSUME NEW i \in 1 .. s PROVE all[i] = p[i]
    <3>1. i \in 1 .. Len(p) + Len(r) /\ i <= Len(p)
      BY <1>1, <1>2
    <3> HIDE DEF all
    <3> QED
      BY <2>3, <3>1
  <2>5. ASSUME NEW i \in 1 .. Len(r) PROVE all[s + i] = r[i]
    <3>1. s + i \in 1 .. Len(p) + Len(r) /\ ~ s + i <= Len(p) /\ (s + i) - Len(p) = i
      BY <1>1, <1>2
    <3> HIDE DEF all
    <3> QED
      BY <2>3, <3>1
  <2> QED
    BY <2>1, <2>2, <2>4, <2>5
<1> HIDE DEF all
<1>4. SubSeq(all, s + 1, s + Len(r)) = r
  <2> DEFINE t == SubSeq(all, s + 1, s + Len(r))
  <2>1. \A i \in s + 1 .. s + Len(r) : all[i] \in T
    BY <1>2, <1>3
  <2>2. /\ t \in Seq(T)
        /\ Len(t) = IF s + 1 <= s + Len(r) THEN (s + Len(r)) - (s + 1) + 1 ELSE 0
        /\ \A i \in 1 .. (s + Len(r)) - (s + 1) + 1 : t[i] = all[(s + 1) + i - 1]
    <3>1. s + 1 \in Int /\ s + Len(r) \in Int
      BY <1>2
    <3> QED
      BY <2>1, <3>1, SubSeqProperties
  <2> HIDE DEF t
  <2>3. Len(t) = Len(r)
    BY <1>2, <2>2
  <2>4. ASSUME NEW i \in 1 .. Len(r) PROVE t[i] = r[i]
    <3>1. i \in 1 .. (s + Len(r)) - (s + 1) + 1 /\ (s + 1) + i - 1 = s + i
      BY <1>2
    <3> QED
      BY <1>3, <2>2, <3>1
  <2>5. t = r
    BY <2>2, <2>3, <2>4, SeqEqual
  <2> QED
    BY <2>5 DEF t
<1>5. ASSUME NEW a \in Nat \ {0}, NEW b \in 0 .. s PROVE SubSeq(all, a, b) = SubSeq(l, a, b)
  <2> DEFINE t == SubSeq(all, a, b)
             w == SubSeq(l, a, b)
  <2>0. a \in Int /\ b \in Int
    BY <1>2
  <2>1. \A i \in a .. b : all[i] \in T /\ all[i] = l[i]
    <3> SUFFICES ASSUME NEW i \in a .. b PROVE all[i] \in T /\ all[i] = l[i]
      OBVIOUS
    <3>1. i \in 1 .. s /\ i \in 1 .. Len(all)
      BY <1>2, <1>3
    <3> QED
      BY <1>1, <1>3, <3>1
  <2>2. /\ t \in Seq(T) /\ Len(t) = IF a <= b THEN b - a + 1 ELSE 0
        /\ \A i \in 1 .. b - a + 1 : t[i] = all[a + i - 1]
    BY <2>0, <2>1, SubSeqProperties
  <2>3. /\ w \in Seq(T) /\ Len(w) = IF a <= b THEN b - a + 1 ELSE 0
        /\ \A i \in 1 .. b - a + 1 : w[i] = l[a + i - 1]
    <3>1. \A i \in a .. b : l[i] \in T
      BY <2>1
    <3> QED
      BY <2>0, <3>1, SubSeqProperties
  <2> HIDE DEF t, w
  <2>4. ASSUME NEW i \in 1 .. Len(t) PROVE t[i] = w[i]
    <3>1. i \in 1 .. b - a + 1 /\ a + i - 1 \in a .. b
      BY <2>0, <2>2
    <3> QED
      BY <2>1, <2>2, <2>3, <3>1
  <2>5. t = w
    BY <2>2, <2>3, <2>4, SeqEqual
  <2> QED
    BY <2>5 DEF t, w
<1> QED
  BY <1>3, <1>4, <1>5 DEF all, p

LEMMA Vertices ==
  /\ Cardinality(Vertex) \in Nat /\ Vertex = 0 .. Cardinality(Vertex) - 1
  /\ FirstOf \in [Vertex -> Vertex] /\ None \in Val
  /\ Thread \subseteq Vertex /\ \A v \in Vertex : FirstOf[v] \in Thread
<1>1. None \in Val
  BY EdgeAssumption DEF None
<1> QED
  BY <1>1, EdgeAssumption, FS_CardinalityType DEF Thread

\* The edges of the states and of the arguments.
LEMMA EdgeListsAre ==
  /\ EdgeLists \subseteq Seq([id : Vertex, val : Val])
  /\ \A list \in EdgeLists : list \in Seq([id : Int, val : Val])
  /\ <<>> \in EdgeLists /\ NewEdges \subseteq EdgeLists
<1> DEFINE T == [id : Vertex, val : Val]
<1>1. NewEdges \subseteq Seq(T) /\ InitOut \subseteq [Vertex -> Seq(T)]
  BY EdgeAssumption
<1>2. T \subseteq [id : Int, val : Val]
  BY Vertices
<1>3. \A list \in Seq(T) : list \in Seq([id : Int, val : Val])
  BY <1>2, SeqMonotonic
<1> HIDE DEF T
<1>4. <<>> \in Seq(T)
  OBVIOUS
<1>5. \A out \in InitOut, v \in Vertex : out[v] \in Seq(T)
  BY <1>1
<1>6. ASSUME NEW list \in EdgeLists PROVE list \in Seq(T)
  <2>1. list \in NewEdges \/ list = <<>> \/ \E out \in InitOut, v \in Vertex : list = out[v]
    BY DEF EdgeLists
  <2> QED
    BY <1>1, <1>4, <1>5, <2>1
<1>7. <<>> \in EdgeLists /\ NewEdges \subseteq EdgeLists
  BY DEF EdgeLists
<1>8. EdgeLists \subseteq Seq(T) /\ \A list \in EdgeLists : list \in Seq([id : Int, val : Val])
  BY <1>3, <1>6
<1> QED
  BY <1>7, <1>8 DEF T

LEMMA RequestsAre ==
  ASSUME NEW edges \in Seq([id : Vertex, val : Val]), NEW op \in {"rmv", "add", "mod"}
  PROVE  /\ Requests(edges, op) \in Seq(Request)
         /\ Len(Requests(edges, op)) = Len(edges)
         /\ \A k \in 1 .. Len(edges) : Requests(edges, op)[k].op = op
                                       /\ Requests(edges, op)[k].id = edges[k].id
                                       /\ Requests(edges, op)[k].val = edges[k].val
<1> DEFINE T == [id : Vertex, val : Val]
           f == Requests(edges, op)
           n == Len(edges)
<1>1. f = [i \in 1 .. n |-> [id |-> edges[i].id, op |-> op, val |-> edges[i].val]]
  BY DEF Requests
<1>2. n \in Nat
  OBVIOUS
<1>3. \A e \in T : e.id \in Vertex /\ e.val \in Val
  OBVIOUS
<1>4. edges \in Seq(T)
  OBVIOUS
<1> HIDE DEF T
<1>5. \A i \in 1 .. n : edges[i] \in T
  BY <1>4
<1>6. \A i \in 1 .. n : [id |-> edges[i].id, op |-> op, val |-> edges[i].val] \in Request
  BY <1>3, <1>5 DEF Request
<1> HIDE DEF f, n
<1>7. f \in [1 .. n -> Request]
  BY <1>1, <1>6
<1>8. f \in Seq(Request) /\ Len(f) = n
  BY <1>2, <1>7
<1>9. \A k \in 1 .. n : f[k].op = op /\ f[k].id = edges[k].id /\ f[k].val = edges[k].val
  BY <1>1
<1> QED
  BY <1>8, <1>9 DEF f, n

LEMMA RemovalsAre ==
  ASSUME NEW v \in Vertex, outEdge[v] \in Seq([id : Vertex, val : Val])
  PROVE  /\ Removals(v) \in Seq(Request)
         /\ Len(Removals(v)) = Len(outEdge[v])
         /\ \A k \in 1 .. Len(outEdge[v]) : Removals(v)[k].op = "rmv"
                                            /\ Removals(v)[k].id = outEdge[v][k].id
<1> DEFINE T == [id : Vertex, val : Val]
           old == outEdge[v]
           n == Len(old)
           edges == [i \in 1 .. n |-> [old[i] EXCEPT !.val = None]]
<1>1. n \in Nat /\ old \in Seq(T)
  OBVIOUS
<1>2. \A e \in T : [e EXCEPT !.val = None] \in T /\ [e EXCEPT !.val = None].id = e.id
  BY Vertices
<1> HIDE DEF T
<1>3. \A i \in 1 .. n : old[i] \in T
  BY <1>1
<1> HIDE DEF n
<1>4. \A i \in 1 .. n : [old[i] EXCEPT !.val = None] \in T
                        /\ [old[i] EXCEPT !.val = None].id = old[i].id
  BY <1>2, <1>3
<1>5. edges \in [1 .. n -> T] /\ \A i \in 1 .. n : edges[i].id = old[i].id
  BY <1>4
<1>6. Removals(v) = Requests(edges, "rmv")
  BY DEF Removals, n
<1> HIDE DEF edges
<1>7. edges \in Seq(T) /\ Len(edges) = n
  BY <1>1, <1>5
<1>8. /\ Requests(edges, "rmv") \in Seq(Request)
      /\ Len(Requests(edges, "rmv")) = Len(edges)
      /\ \A k \in 1 .. Len(edges) : Requests(edges, "rmv")[k].op = "rmv"
                                    /\ Requests(edges, "rmv")[k].id = edges[k].id
  BY <1>7, RequestsAre DEF T
<1> QED
  BY <1>5, <1>6, <1>7, <1>8 DEF n

LEMMA ReplacingRequests ==
  ASSUME NEW v \in Vertex, outEdge[v] \in Seq([id : Vertex, val : Val]),
         NEW list \in Seq([id : Vertex, val : Val])
  PROVE  /\ Removals(v) \o Requests(list, "add") \in Seq(Request)
         /\ Replaces(outEdge[v], 0, list, Removals(v) \o Requests(list, "add"))
<1> DEFINE q == Len(outEdge[v])
           a == Len(list)
           r == Removals(v)
           s == Requests(list, "add")
           all == r \o s
<1>1. q \in Nat /\ a \in Nat
  OBVIOUS
<1>2. r \in Seq(Request) /\ Len(r) = q
      /\ \A k \in 1 .. q : r[k].op = "rmv" /\ r[k].id = outEdge[v][k].id
  BY RemovalsAre
<1>3. s \in Seq(Request) /\ Len(s) = a
      /\ \A k \in 1 .. a : s[k].op = "add" /\ s[k].id = list[k].id /\ s[k].val = list[k].val
  BY RequestsAre
<1> HIDE DEF r, s
<1>4. all \in Seq(Request) /\ Len(all) = Len(r) + Len(s)
  <2>1. r \in Seq(Request) /\ s \in Seq(Request)
    BY <1>2, <1>3
  <2> QED
    BY <2>1, Concat
<1>5. \A i \in 1 .. Len(r) + Len(s) : all[i] = IF i <= Len(r) THEN r[i] ELSE s[i - Len(r)]
  BY <1>2, <1>3, ConcatProperties
<1> HIDE DEF all, q, a
<1>6. ASSUME NEW k \in 1 .. q PROVE all[k].op = "rmv" /\ all[k].id = outEdge[v][k].id
  <2>1. k \in 1 .. Len(r) + Len(s) /\ k <= Len(r)
    BY <1>1, <1>2, <1>3
  <2>2. all[k] = r[k]
    BY <1>5, <2>1
  <2> QED
    BY <1>2, <2>2
<1>7. ASSUME NEW k \in 1 .. a
      PROVE  all[q + k].op = "add" /\ all[q + k].id = list[k].id /\ all[q + k].val = list[k].val
  <2>1. q + k \in 1 .. Len(r) + Len(s) /\ ~ q + k <= Len(r) /\ (q + k) - Len(r) = k
    BY <1>1, <1>2, <1>3
  <2>2. all[q + k] = s[k]
    BY <1>5, <2>1
  <2> QED
    BY <1>3, <2>2
<1>8. Replaces(outEdge[v], 0, list, all)
  <2>1. 0 \in 0 .. q /\ q - 0 = q /\ Len(all) = (q - 0) + a /\ 1 .. 0 = {}
    BY <1>1, <1>2, <1>3, <1>4
  <2>2. \A k \in 1 .. q - 0 : all[k].op = "rmv" /\ all[k].id = outEdge[v][0 + k].id
    <3> SUFFICES ASSUME NEW k \in 1 .. q PROVE all[k].op = "rmv" /\ all[k].id = outEdge[v][0 + k].id
      BY <2>1
    <3>1. 0 + k = k
      BY <1>1
    <3> QED
      BY <1>6, <3>1
  <2>3. \A k \in 1 .. a : /\ all[(q - 0) + k].op = "add" /\ all[(q - 0) + k].id = list[k].id
                          /\ all[(q - 0) + k].val = list[k].val
    BY <1>7, <2>1
  <2> QED
    BY <2>1, <2>2, <2>3 DEF Replaces, q, a
<1> QED
  BY <1>4, <1>8 DEF all, r, s

-----------------------------------------------------------------------------
(* What every state satisfies in which edges have only been replaced. *)
Types ==
  /\ cur \in 0 .. Cardinality(Vertex) /\ calls \in Nat /\ changed \in BOOLEAN
  /\ calls = 0 \/ cur \notin Vertex => ~changed
  /\ ends \in [Vertex -> Nat] /\ log \in [Thread -> Seq(Request)]
  /\ changedUntilNow \in [Thread -> BOOLEAN]
  /\ outEdge \in [Vertex -> EdgeLists] /\ DOMAIN want = Vertex

\* The requests are those of a vertex that asked for a list, or for nothing.
Asked(v, reqs) ==
  \E list \in NewEdges \cup {<<>>} :
    Replaces(outEdge[v], 0, list, reqs) /\ want[v] = AsSet(list)
Content(v) == want[v] = AsSet(outEdge[v])
Silent(v, reqs) == reqs = <<>> /\ Content(v)

\* The requests of a vertex that has computed are in the log of its thread, before
\* those of the vertex that computes, unless an end comes before the start: then
\* some assertion is going to fail.
Behind(v) ==
  /\ start(v) <= ends[v] /\ ends[v] <= Len(log[FirstOf[v]])
  /\ cur \in Vertex /\ FirstOf[cur] = FirstOf[v] => ends[v] <= start(cur)
  /\ Silent(v, ReqsOf(v)) \/ Asked(v, ReqsOf(v))
AllBehind == (\E v \in 0 .. cur - 1 : start(v) > ends[v]) \/ \A v \in 0 .. cur - 1 : Behind(v)

\* A vertex of a thread that has not changed anything.
Quiet == \A v \in 0 .. cur - 1 : ~changedUntilNow[FirstOf[v]] => ends[v] = 0 /\ Content(v)

\* The vertex that computes, and those that have not yet.
AtWork ==
  cur \in Vertex =>
    /\ start(cur) <= Len(log[FirstOf[cur]])
    /\ changed => Asked(cur, SubSeq(log[FirstOf[cur]], start(cur) + 1, Len(log[FirstOf[cur]])))
Ahead == \A v \in Vertex : v > cur \/ (v = cur /\ ~changed) => ends[v] = 0 /\ Content(v)

ReplaceInv == Replacing /\ ~failed => Types /\ AllBehind /\ Quiet /\ AtWork /\ Ahead

LEMMA StartIs ==
  ASSUME ends \in [Vertex -> Nat], NEW v \in Vertex
  PROVE  /\ start(v) \in Nat /\ v \in Nat /\ FirstOf[v] \in Thread
         /\ FirstOf[v] # v => v - 1 \in Vertex /\ FirstOf[v - 1] = FirstOf[v]
<1>1. v \in Nat /\ FirstOf[v] \in Nat /\ FirstOf[v] <= v
  BY Vertices, EdgeAssumption
<1>2. ASSUME FirstOf[v] # v PROVE v - 1 \in Vertex /\ FirstOf[v - 1] = FirstOf[v]
  <2>1. v - 1 \in FirstOf[v] .. v
    BY <1>1, <1>2
  <2>2. v - 1 \in Vertex
    BY <1>1, <1>2, Vertices
  <2>3. FirstOf[v - 1] = FirstOf[v]
    BY <2>1, EdgeAssumption
  <2> QED
    BY <2>2, <2>3
<1> QED
  BY <1>1, <1>2, Vertices DEF start

LEMMA InitReplaceInv == Init => ReplaceInv
<1> SUFFICES ASSUME Init PROVE Types /\ AllBehind /\ Quiet /\ AtWork /\ Ahead
  BY DEF ReplaceInv
<1>1. cur = 0 /\ calls = 0 /\ changed = FALSE /\ 0 .. cur - 1 = {}
  BY DEF Init
<1>2. \A v \in Vertex : ends[v] = 0 /\ Content(v)
  BY DEF Init, Content
<1>3. outEdge \in [Vertex -> EdgeLists]
  <2>1. outEdge \in InitOut /\ outEdge \in [Vertex -> Seq([id : Vertex, val : Val])]
    BY EdgeAssumption DEF Init
  <2>2. \A v \in Vertex : outEdge[v] \in EdgeLists
    BY <2>1 DEF EdgeLists
  <2> QED
    BY <2>1, <2>2
<1>4. ends \in [Vertex -> Nat] /\ log \in [Thread -> Seq(Request)]
      /\ changedUntilNow \in [Thread -> BOOLEAN] /\ DOMAIN want = Vertex
  <2>1. <<>> \in Seq(Request)
    OBVIOUS
  <2> QED
    BY <2>1 DEF Init
<1>5. Types
  <2>1. cur \in 0 .. Cardinality(Vertex) /\ calls \in Nat /\ changed \in BOOLEAN
    <3>1. Cardinality(Vertex) \in Nat
      BY Vertices
    <3>2. 0 \in 0 .. Cardinality(Vertex)
      BY <3>1
    <3> QED
      BY <1>1, <3>2
  <2> QED
    BY <1>1, <1>3, <1>4, <2>1 DEF Types
<1>6. AtWork
  <2> SUFFICES ASSUME 0 \in Vertex PROVE start(0) <= Len(log[FirstOf[0]])
    BY <1>1 DEF AtWork
  <2>1. FirstOf[0] = 0
    BY Vertices, EdgeAssumption
  <2>2. log[0] = <<>>
    BY <2>1, Vertices DEF Init
  <2> QED
    BY <2>1, <2>2 DEF start
<1> QED
  BY <1>1, <1>2, <1>5, <1>6 DEF AllBehind, Quiet, Ahead

\* A call that replaces the edges of the vertex that computes.
LEMMA ReplaceHolds ==
  ASSUME ReplaceInv, Replacing, ~failed, cur \in Vertex,
         NEW list \in NewEdges \cup {<<>>}, NEW reqs \in Seq(Request),
         Replaces(outEdge[cur], 0, list, reqs),
         changed' = TRUE, calls' = calls + 1,
         UNCHANGED <<outEdge, cur, changedUntilNow>>,
         log' = [log EXCEPT ![FirstOf[cur]] = SubSeq(log[FirstOf[cur]], 1, start(cur)) \o reqs],
         ends' = [ends EXCEPT ![cur] = IF changed THEN start(cur) ELSE @],
         want' = [want EXCEPT ![cur] = AsSet(list)]
  PROVE  Types' /\ AllBehind' /\ Quiet' /\ AtWork' /\ Ahead'
<1> DEFINE f == FirstOf[cur]
           l == log[f]
           s == start(cur)
           l1 == SubSeq(l, 1, s) \o reqs
<1>1. Types /\ AllBehind /\ Quiet /\ AtWork /\ Ahead
  BY DEF ReplaceInv
<1>2. /\ ends \in [Vertex -> Nat] /\ log \in [Thread -> Seq(Request)]
      /\ changedUntilNow \in [Thread -> BOOLEAN] /\ outEdge \in [Vertex -> EdgeLists]
      /\ DOMAIN want = Vertex /\ calls \in Nat /\ changed \in BOOLEAN
      /\ cur \in 0 .. Cardinality(Vertex)
  BY <1>1 DEF Types
<1>3. f \in Thread /\ s \in Nat /\ l \in Seq(Request) /\ s \in 0 .. Len(l)
  <2>1. f \in Thread /\ s \in Nat
    BY <1>2, StartIs
  <2>2. s <= Len(l)
    BY <1>1 DEF AtWork
  <2>3. l \in Seq(Request)
    BY <1>2, <2>1
  <2> HIDE DEF s, l, f
  <2> QED
    BY <2>1, <2>2, <2>3
<1>4. /\ l1 \in Seq(Request) /\ Len(l1) = s + Len(reqs)
      /\ SubSeq(l1, s + 1, s + Len(reqs)) = reqs
      /\ \A a \in Nat \ {0}, b \in 0 .. s : SubSeq(l1, a, b) = SubSeq(l, a, b)
  <2> HIDE DEF s, l
  <2> QED
    BY <1>3, PrefixKept
<1>5. log' \in [Thread -> Seq(Request)] /\ log'[f] = l1
      /\ \A g \in Thread : g # f => log'[g] = log[g]
  <2> HIDE DEF l1
  <2>1. log' = [log EXCEPT ![f] = l1]
    BY DEF l1
  <2> QED
    BY <1>2, <1>3, <1>4, <2>1
<1>6. ends' \in [Vertex -> Nat] /\ \A v \in Vertex : v # cur => ends'[v] = ends[v]
  <2> HIDE DEF s
  <2>1. ends' = [ends EXCEPT ![cur] = IF changed THEN s ELSE @]
    BY DEF s
  <2> QED
    BY <1>2, <1>3, <2>1
<1>7. DOMAIN want' = Vertex /\ want'[cur] = AsSet(list)
      /\ \A v \in Vertex : v # cur => want'[v] = want[v]
  BY <1>2
<1>8. \A v \in 0 .. cur : v \in Vertex /\ start(v)' = start(v)
  <2> SUFFICES ASSUME NEW v \in 0 .. cur PROVE v \in Vertex /\ start(v)' = start(v)
    OBVIOUS
  <2>1. v \in Vertex
    BY Vertices
  <2>2. FirstOf[v] # v => v - 1 \in Vertex /\ v - 1 # cur
    <3>1. FirstOf[v] # v => v - 1 \in Vertex
      BY <1>2, <2>1, StartIs
    <3>2. v - 1 # cur
      BY <1>2
    <3> QED
      BY <3>1, <3>2
  <2> QED
    BY <1>6, <2>1, <2>2 DEF start
<1> HIDE DEF l1, s, l, f
<1>9. Types'
  <2>1. calls' \in Nat /\ calls' # 0
    BY <1>2
  <2> QED
    BY <1>2, <1>5, <1>6, <1>7, <2>1 DEF Types
<1>10. ASSUME NEW v \in 0 .. cur - 1 PROVE Content(v)' = Content(v) /\ ends'[v] = ends[v]
                                          /\ v \in Vertex /\ v # cur /\ start(v)' = start(v)
                                          /\ want'[v] = want[v]
  <2>1. v \in 0 .. cur /\ v # cur
    BY Vertices
  <2>2. v \in Vertex /\ start(v)' = start(v)
    BY <1>8, <2>1
  <2> QED
    BY <1>6, <1>7, <2>1, <2>2 DEF Content
<1>11. AllBehind'
  <2>1. CASE \E v \in 0 .. cur - 1 : start(v) > ends[v]
    <3>1. PICK v \in 0 .. cur - 1 : start(v) > ends[v]
      BY <2>1
    <3>2. start(v)' > ends'[v]
      BY <1>10, <3>1
    <3> QED
      BY <3>2 DEF AllBehind
  <2>2. CASE \A v \in 0 .. cur - 1 : Behind(v)
    <3>1. ASSUME NEW v \in 0 .. cur - 1 PROVE Behind(v)'
      <4>1. /\ start(v) <= ends[v] /\ ends[v] <= Len(log[FirstOf[v]])
            /\ f = FirstOf[v] => ends[v] <= s
            /\ Silent(v, ReqsOf(v)) \/ Asked(v, ReqsOf(v))
        BY <2>2 DEF Behind, f, s
      <4>2. v \in Vertex /\ start(v)' = start(v) /\ ends'[v] = ends[v] /\ FirstOf[v] \in Thread
            /\ start(v) \in Nat /\ ends[v] \in Nat /\ s' = s
        <5>1. cur \in 0 .. cur
          BY Vertices
        <5> QED
          BY <1>2, <1>8, <1>10, <5>1, StartIs DEF s
      <4>3. ends[v] <= Len(log'[FirstOf[v]])
            /\ SubSeq(log'[FirstOf[v]], start(v) + 1, ends[v])
                 = SubSeq(log[FirstOf[v]], start(v) + 1, ends[v])
        <5>1. CASE FirstOf[v] = f
          <6>1. start(v) + 1 \in Nat \ {0} /\ ends[v] \in 0 .. s
            BY <1>3, <4>1, <4>2, <5>1
          <6>2. Len(reqs) \in Nat
            OBVIOUS
          <6>3. ends[v] <= s + Len(reqs)
            BY <1>3, <6>1, <6>2
          <6> QED
            BY <1>4, <1>5, <5>1, <6>1, <6>3 DEF l
        <5>2. CASE FirstOf[v] # f
          BY <1>5, <4>1, <4>2, <5>2
        <5> QED
          BY <5>1, <5>2
      <4>4. ReqsOf(v)' = ReqsOf(v)
        BY <4>2, <4>3 DEF ReqsOf
      <4>5. cur' \in Vertex /\ FirstOf[cur'] = FirstOf[v] => ends'[v] <= start(cur)'
        <5>1. start(cur)' = s /\ cur' = cur
          BY <4>2 DEF s
        <5> QED
          BY <4>1, <4>2, <5>1 DEF f
      <4>6. Silent(v, ReqsOf(v))' \/ Asked(v, ReqsOf(v))'
        <5>1. CASE Silent(v, ReqsOf(v))
          BY <1>10, <4>4, <5>1 DEF Silent
        <5>2. CASE Asked(v, ReqsOf(v))
          <6> HIDE DEF ReqsOf
          <6> QED
            BY <1>10, <4>4, <5>2 DEF Asked
        <5> QED
          BY <4>1, <5>1, <5>2
      <4> QED
        BY <4>1, <4>2, <4>3, <4>5, <4>6 DEF Behind
    <3> QED
      BY <3>1 DEF AllBehind
  <2> QED
    BY <1>1, <2>1, <2>2 DEF AllBehind
<1>12. Quiet'
  BY <1>1, <1>10 DEF Quiet
<1>13. AtWork'
  <2>1. start(cur)' = s /\ log'[f] = l1
    <3>1. cur \in 0 .. cur
      BY Vertices
    <3> QED
      BY <1>5, <1>8, <3>1 DEF s
  <2>2. s <= Len(l1)
    <3>1. Len(reqs) \in Nat
      OBVIOUS
    <3> QED
      BY <1>3, <1>4, <3>1
  <2>3. Asked(cur, reqs)'
    BY <1>7 DEF Asked
  <2>4. SubSeq(l1, s + 1, Len(l1)) = reqs
    BY <1>4
  <2> QED
    BY <2>1, <2>2, <2>3, <2>4 DEF AtWork, f
<1>14. Ahead'
  <2> SUFFICES ASSUME NEW v \in Vertex, v > cur PROVE ends'[v] = 0 /\ Content(v)'
    BY DEF Ahead
  <2>1. v # cur
    BY Vertices
  <2> QED
    BY <1>1, <1>6, <1>7, <2>1 DEF Ahead, Content
<1> QED
  BY <1>9, <1>11, <1>12, <1>13, <1>14

\* compute of a vertex is over.
LEMMA EndVertexHolds ==
  ASSUME ReplaceInv, Replacing, EndVertex
  PROVE  Types' /\ AllBehind' /\ Quiet' /\ AtWork' /\ Ahead'
<1> DEFINE f == FirstOf[cur]
           l == log[f]
           s == start(cur)
           e == ends'[cur]
<1>1. Types /\ AllBehind /\ Quiet /\ AtWork /\ Ahead /\ ~failed /\ cur \in Vertex
  BY DEF ReplaceInv, EndVertex
<1>2. /\ ends \in [Vertex -> Nat] /\ log \in [Thread -> Seq(Request)]
      /\ changedUntilNow \in [Thread -> BOOLEAN] /\ outEdge \in [Vertex -> EdgeLists]
      /\ DOMAIN want = Vertex /\ changed \in BOOLEAN
  BY <1>1 DEF Types
<1>3. /\ cur' = cur + 1 /\ calls' = 0 /\ changed' = FALSE
      /\ log' = log /\ outEdge' = outEdge /\ want' = want
      /\ ends' = [ends EXCEPT ![cur] = IF changed THEN Len(l) ELSE @]
      /\ changedUntilNow' = [changedUntilNow EXCEPT ![f] = @ \/ changed]
  BY DEF EndVertex
<1>4. f \in Thread /\ s \in Nat /\ l \in Seq(Request) /\ s <= Len(l) /\ Len(l) \in Nat
  <2>1. f \in Thread /\ s \in Nat
    BY <1>1, <1>2, StartIs
  <2>2. s <= Len(l)
    BY <1>1 DEF AtWork
  <2>3. l \in Seq(Request)
    BY <1>2, <2>1
  <2> HIDE DEF s, l, f
  <2> QED
    BY <2>1, <2>2, <2>3
<1>5. ~changed => ends[cur] = 0 /\ Content(cur)
  BY <1>1 DEF Ahead
<1>6. changed => Asked(cur, SubSeq(l, s + 1, Len(l)))
  BY <1>1 DEF AtWork
<1> HIDE DEF s, l
<1>7. /\ ends' \in [Vertex -> Nat] /\ \A v \in Vertex : v # cur => ends'[v] = ends[v]
      /\ e \in Nat /\ e <= Len(l) /\ (changed => e = Len(l)) /\ (~changed => e = 0)
  BY <1>1, <1>2, <1>3, <1>4, <1>5
<1>8. \A v \in 0 .. cur : v \in Vertex /\ start(v)' = start(v) /\ start(v) \in Nat
                          /\ FirstOf[v] \in Thread
  <2> SUFFICES ASSUME NEW v \in 0 .. cur
               PROVE  v \in Vertex /\ start(v)' = start(v) /\ start(v) \in Nat
                      /\ FirstOf[v] \in Thread
    OBVIOUS
  <2>1. v \in Vertex
    BY <1>1, Vertices
  <2>2. FirstOf[v] # v => v - 1 \in Vertex /\ v - 1 # cur
    <3>1. FirstOf[v] # v => v - 1 \in Vertex
      BY <1>2, <2>1, StartIs
    <3>2. cur \in Nat
      BY <1>1, Vertices
    <3>3. v - 1 # cur
      BY <3>2
    <3> QED
      BY <3>1, <3>3
  <2> QED
    BY <1>2, <1>7, <2>1, <2>2, StartIs DEF start
<1>9. \A v \in 0 .. cur - 1 : v \in 0 .. cur /\ v # cur
  BY <1>1, Vertices
<1>10. \A v \in 0 .. cur : Content(v)' = Content(v)
  BY <1>3 DEF Content
<1>11. ASSUME NEW v \in 0 .. cur, cur' \in Vertex, FirstOf[cur'] = FirstOf[v]
       PROVE  FirstOf[v] = f /\ start(cur)' = e
  <2>1. cur + 1 \in Vertex /\ FirstOf[cur + 1] = FirstOf[v] /\ v \in Vertex
    BY <1>3, <1>8, <1>11
  <2>2. FirstOf[v] <= v /\ FirstOf[v] \in Nat /\ cur \in Nat
    BY <1>1, <2>1, EdgeAssumption, Vertices
  <2>3. FirstOf[cur + 1] # cur + 1 /\ (cur + 1) - 1 = cur
    BY <2>1, <2>2
  <2>4. FirstOf[(cur + 1) - 1] = FirstOf[cur + 1]
    BY <1>2, <2>1, <2>3, StartIs
  <2>5. start(cur)' = ends'[(cur + 1) - 1]
    BY <1>3, <2>3 DEF start
  <2> QED
    BY <2>1, <2>3, <2>4, <2>5
<1>12. Types'
  <2>1. cur' \in 0 .. Cardinality(Vertex)
    <3>1. Cardinality(Vertex) \in Nat
      BY Vertices
    <3>2. cur \in 0 .. Cardinality(Vertex) - 1
      BY <1>1, Vertices
    <3> QED
      BY <1>3, <3>1, <3>2
  <2>2. changedUntilNow' \in [Thread -> BOOLEAN]
    BY <1>2, <1>3
  <2> QED
    BY <1>2, <1>3, <1>7, <2>1, <2>2 DEF Types
<1>13. 0 .. cur' - 1 = 0 .. cur /\ 0 .. cur = (0 .. cur - 1) \cup {cur}
  <2>1. cur \in Nat
    BY <1>1, Vertices
  <2> QED
    BY <1>3, <2>1
<1>14. AllBehind'
  <2>1. CASE \E v \in 0 .. cur - 1 : start(v) > ends[v]
    <3>1. PICK v \in 0 .. cur - 1 : start(v) > ends[v]
      BY <2>1
    <3>2. start(v)' > ends'[v] /\ v \in 0 .. cur
      BY <1>7, <1>8, <1>9, <3>1
    <3> QED
      BY <1>13, <3>2 DEF AllBehind
  <2>2. CASE s > e
    <3>1. start(cur)' > ends'[cur] => TRUE
      OBVIOUS
    <3>2. cur \in 0 .. cur /\ \A v \in 0 .. cur : v = cur => start(v)' > ends'[v]
      <4>1. cur \in 0 .. cur
        BY <1>1, Vertices
      <4> QED
        BY <1>8, <2>2, <4>1 DEF s
    <3> QED
      BY <1>13, <3>2 DEF AllBehind
  <2>3. CASE ~ s > e /\ \A v \in 0 .. cur - 1 : Behind(v)
    <3>1. ASSUME NEW v \in 0 .. cur - 1 PROVE Behind(v)'
      <4>1. /\ start(v) <= ends[v] /\ ends[v] <= Len(log[FirstOf[v]])
            /\ f = FirstOf[v] => ends[v] <= s
            /\ Silent(v, ReqsOf(v)) \/ Asked(v, ReqsOf(v))
        BY <1>1, <2>3 DEF Behind, s
      <4>2. v \in 0 .. cur /\ start(v)' = start(v) /\ ends'[v] = ends[v] /\ ends[v] \in Nat
        BY <1>2, <1>7, <1>8, <1>9
      <4>3. ReqsOf(v)' = ReqsOf(v)
        BY <1>3, <4>2 DEF ReqsOf
      <4>4. cur' \in Vertex /\ FirstOf[cur'] = FirstOf[v] => ends'[v] <= start(cur)'
        <5> SUFFICES ASSUME cur' \in Vertex, FirstOf[cur'] = FirstOf[v]
                     PROVE  ends'[v] <= start(cur)'
          OBVIOUS
        <5>1. FirstOf[v] = f /\ start(cur)' = e
          BY <1>11, <4>2
        <5> QED
          BY <1>4, <1>7, <2>3, <4>1, <4>2, <5>1
      <4>5. Silent(v, ReqsOf(v))' \/ Asked(v, ReqsOf(v))'
        <5> HIDE DEF ReqsOf
        <5> QED
          BY <1>3, <1>10, <4>1, <4>2, <4>3 DEF Silent, Asked
      <4> QED
        BY <1>3, <4>1, <4>2, <4>4, <4>5 DEF Behind
    <3>2. ASSUME NEW v \in {cur} PROVE Behind(v)'
      <4>1. v = cur /\ v \in 0 .. cur /\ start(v)' = s /\ ends'[v] = e /\ FirstOf[v] = f
        <5>1. cur \in 0 .. cur
          BY <1>1, Vertices
        <5> QED
          BY <1>8, <5>1 DEF s
      <4>2. ReqsOf(v)' = SubSeq(l, s + 1, e)
        BY <1>3, <4>1 DEF ReqsOf, l
      <4>3. cur' \in Vertex /\ FirstOf[cur'] = FirstOf[v] => ends'[v] <= start(cur)'
        BY <1>7, <1>11, <4>1
      <4>4. Silent(v, ReqsOf(v))' \/ Asked(v, ReqsOf(v))'
        <5>1. CASE changed
          <6>1. Asked(cur, SubSeq(l, s + 1, e))
            BY <1>6, <1>7, <5>1
          <6>2. PICK list \in NewEdges \cup {<<>>} :
                  Replaces(outEdge[cur], 0, list, SubSeq(l, s + 1, e)) /\ want[cur] = AsSet(list)
            BY <6>1 DEF Asked
          <6>3. Replaces(outEdge[v]', 0, list, ReqsOf(v)') /\ want'[v] = AsSet(list)
            BY <1>3, <4>1, <4>2, <6>2
          <6> HIDE DEF ReqsOf
          <6>4. Asked(v, ReqsOf(v))'
            BY <6>3 DEF Asked
          <6> QED
            BY <6>4
        <5>2. CASE ~changed
          <6>1. e = 0 /\ s = 0
            BY <1>4, <1>7, <2>3, <5>2
          <6>2. SubSeq(l, s + 1, e) = <<>>
            BY <1>4, <6>1
          <6>3. Content(v)'
            BY <1>5, <1>10, <4>1, <5>2
          <6> HIDE DEF ReqsOf
          <6>4. Silent(v, ReqsOf(v))'
            BY <4>2, <6>2, <6>3 DEF Silent
          <6> QED
            BY <6>4
        <5> QED
          BY <5>1, <5>2
      <4>5. s <= e /\ e <= Len(log'[FirstOf[v]])
        BY <1>3, <1>4, <1>7, <2>3, <4>1 DEF l
      <4> QED
        BY <4>1, <4>3, <4>4, <4>5 DEF Behind
    <3>3. \A v \in 0 .. cur : Behind(v)'
      BY <1>13, <3>1, <3>2
    <3> QED
      BY <1>13, <3>3 DEF AllBehind
  <2> QED
    BY <1>1, <2>1, <2>2, <2>3 DEF AllBehind
<1>15. Quiet'
  <2> SUFFICES ASSUME NEW v \in 0 .. cur, ~changedUntilNow'[FirstOf[v]]
               PROVE  ends'[v] = 0 /\ Content(v)'
    BY <1>13 DEF Quiet
  <2>1. ~changedUntilNow[FirstOf[v]] /\ (FirstOf[v] = f => ~changed)
    BY <1>2, <1>3, <1>4, <1>8
  <2>2. CASE v = cur
    BY <1>5, <1>7, <1>10, <2>1, <2>2
  <2>3. CASE v \in 0 .. cur - 1
    BY <1>1, <1>7, <1>8, <1>9, <1>10, <2>1, <2>3 DEF Quiet
  <2> QED
    BY <1>13, <2>2, <2>3
<1>16. AtWork'
  <2> SUFFICES ASSUME cur' \in Vertex PROVE start(cur)' <= Len(log'[FirstOf[cur']])
    BY <1>3 DEF AtWork
  <2>1. CASE FirstOf[cur'] = cur'
    <3>1. FirstOf[cur'] \in Thread
      BY Vertices
    <3>2. log[FirstOf[cur']] \in Seq(Request)
      BY <1>2, <3>1
    <3>3. Len(log[FirstOf[cur']]) \in Nat
      BY <3>2
    <3>4. start(cur)' = 0
      BY <2>1 DEF start
    <3> QED
      BY <1>3, <3>3, <3>4
  <2>2. CASE FirstOf[cur'] # cur'
    <3>1. FirstOf[cur' - 1] = FirstOf[cur'] /\ cur' - 1 = cur
      <4>1. cur' - 1 = cur
        BY <1>1, <1>3, Vertices
      <4> QED
        BY <1>2, <2>2, <4>1, StartIs
    <3>2. cur \in 0 .. cur
      BY <1>1, Vertices
    <3>3. start(cur)' = e
      BY <1>11, <3>1, <3>2
    <3> QED
      BY <1>3, <1>7, <3>1, <3>3 DEF l
  <2> QED
    BY <2>1, <2>2
<1>17. Ahead'
  <2> SUFFICES ASSUME NEW v \in Vertex, v > cur' \/ v = cur' PROVE ends'[v] = 0 /\ Content(v)'
    BY <1>3 DEF Ahead
  <2>1. v > cur /\ v # cur
    BY <1>1, <1>3, Vertices
  <2> QED
    BY <1>1, <1>3, <1>7, <2>1 DEF Ahead, Content
<1> QED
  BY <1>12, <1>14, <1>15, <1>16, <1>17

\* What the requests of a vertex make of its list.
LEMMA MergeNone ==
  ASSUME NEW old \in Seq([id : Int, val : Val]), NEW u
  PROVE  Merge(old, <<>>, u) = [edges |-> old, ok |-> TRUE]
<1> DEFINE T == [id : Int, val : Val]
           R == [id : Int, op : {"rmv", "add", "mod"}, val : Val]
           n == Len(old)
<1>1. <<>> \in Seq(T) /\ <<>> \in Seq(R) /\ n \in Nat /\ Len(<<>>) = 0
  OBVIOUS
<1>2. Replaces(old, n, <<>>, <<>>)
  <2>1. n \in 0 .. n /\ n - n = 0 /\ 1 .. 0 = {} /\ n + 1 .. n = {} /\ 0 = 0 + 0
    BY <1>1
  <2> HIDE DEF n
  <2> QED
    BY <1>1, <2>1 DEF Replaces, n
<1> HIDE DEF n
<1>3. Merge(old, <<>>, u) = [edges |-> SubSeq(old, 1, n) \o <<>>, ok |-> TRUE]
  <2>1. old \in Seq(T) /\ <<>> \in Seq(T) /\ <<>> \in Seq(R)
    BY <1>1
  <2>2. Merge(old, <<>>, u) = Merged(old, n, <<>>)
    BY <1>2, <2>1, MergeReplaces
  <2> QED
    BY <2>2 DEF Merged
<1>4. SubSeq(old, 1, n) = old /\ old \o <<>> = old
  BY SubSeqFull, Concat DEF n
<1> QED
  BY <1>3, <1>4

LEMMA MergeAsked ==
  ASSUME ListsApart, outEdge \in [Vertex -> EdgeLists], NEW v \in Vertex,
         NEW reqs \in Seq(Request), NEW u, NEW list \in NewEdges \cup {<<>>},
         Replaces(outEdge[v], 0, list, reqs)
  PROVE  /\ Optimized(outEdge[v], reqs) = reqs
         /\ Merge(outEdge[v], reqs, u) = [edges |-> list, ok |-> TRUE]
<1> DEFINE T == [id : Int, val : Val]
           R == [id : Int, op : {"rmv", "add", "mod"}, val : Val]
           old == outEdge[v]
<1>1. old \in EdgeLists /\ list \in EdgeLists
  BY EdgeListsAre
<1>2. old \in Seq(T) /\ list \in Seq(T)
  BY <1>1, EdgeListsAre
<1>3. reqs \in Seq(R)
  <2>1. Request \subseteq R
    <3>1. Vertex \cup Unwritten \subseteq Int
      <4>1. Vertex \subseteq Int
        BY Vertices
      <4>2. Unwritten \subseteq Int
        BY EdgeAssumption
      <4> QED
        BY <4>1, <4>2
    <3> QED
      BY <3>1 DEF Request
  <2> HIDE DEF R
  <2> QED
    BY <2>1, SeqMonotonic
<1>4. Distinct(old) /\ Distinct(list)
  BY <1>1 DEF ListsApart
<1>5. Apart(old, list)
  BY <1>1 DEF ListsApart, Apart
<1> HIDE DEF old
<1>6. Replaces(old, 0, list, reqs)
  BY DEF old
<1>7. Optimized(old, reqs) = reqs
  BY <1>2, <1>3, <1>4, <1>5, <1>6, OptimizedIs
<1>8. Merge(old, reqs, u) = [edges |-> SubSeq(old, 1, 0) \o list, ok |-> TRUE]
  <2>1. Merge(old, reqs, u) = Merged(old, 0, list)
    BY <1>2, <1>3, <1>6, MergeReplaces
  <2> QED
    BY <2>1 DEF Merged
<1>9. SubSeq(old, 1, 0) = <<>> /\ <<>> \o list = list
  BY <1>2, SubSeqEmpty, Concat
<1> QED
  BY <1>7, <1>8, <1>9 DEF old

-----------------------------------------------------------------------------
(* The end of the superstep. *)
\* All vertices have computed, and no end comes before its start.
Finished == ReplaceInv /\ Replacing /\ ~failed /\ cur \notin Vertex /\ OffsetsOrdered

LEMMA FinishedRequests ==
  ASSUME Finished, NEW v \in Vertex
  PROVE  /\ ReqsOf(v) \in Seq(Request)
         /\ Silent(v, ReqsOf(v)) \/ Asked(v, ReqsOf(v))
<1>1. Types /\ AllBehind /\ ends \in [Vertex -> Nat] /\ log \in [Thread -> Seq(Request)]
      /\ OffsetsOrdered
  BY DEF Finished, ReplaceInv, Types
<1>2. v \in 0 .. cur - 1 /\ 0 .. cur - 1 = Vertex
  <2>1. Cardinality(Vertex) \in Nat /\ Vertex = 0 .. Cardinality(Vertex) - 1
    BY Vertices
  <2>2. cur \in 0 .. Cardinality(Vertex) /\ cur \notin 0 .. Cardinality(Vertex) - 1
    BY <1>1, <2>1 DEF Types, Finished
  <2>3. cur = Cardinality(Vertex)
    BY <2>1, <2>2
  <2> QED
    BY <2>1, <2>3
<1>3. \A w \in Vertex : start(w) <= ends[w] /\ start(w) \in Nat /\ ends[w] \in Nat
  BY <1>1, StartIs DEF OffsetsOrdered
<1>4. Behind(v)
  <2>1. ~ \E w \in 0 .. cur - 1 : start(w) > ends[w]
    <3> SUFFICES ASSUME NEW w \in 0 .. cur - 1 PROVE ~ start(w) > ends[w]
      OBVIOUS
    <3>1. start(w) <= ends[w] /\ start(w) \in Nat /\ ends[w] \in Nat
      BY <1>2, <1>3
    <3> QED
      BY <3>1
  <2> QED
    BY <1>1, <1>2, <2>1 DEF AllBehind
<1>5. ReqsOf(v) \in Seq(Request)
  <2> DEFINE l == log[FirstOf[v]]
             a == start(v) + 1
             b == ends[v]
  <2>1. l \in Seq(Request) /\ a \in Nat \ {0} /\ b \in Nat /\ b <= Len(l)
    BY <1>1, <1>3, <1>4, StartIs DEF Behind
  <2>2. ReqsOf(v) = SubSeq(l, a, b)
    BY DEF ReqsOf
  <2> HIDE DEF l, a, b
  <2>3. SubSeq(l, a, b) \in Seq(Request)
    BY <2>1
  <2> QED
    BY <2>2, <2>3
<1> QED
  BY <1>4, <1>5 DEF Behind

\* The requests of a vertex need no reduction, and its list becomes what it asked for.
LEMMA OutUpdated ==
  ASSUME ListsApart, Finished, NEW v \in Vertex, NEW u
  PROVE  /\ Optimized(outEdge[v], ReqsOf(v)) = ReqsOf(v)
         /\ Merge(outEdge[v], ReqsOf(v), u).ok
         /\ Merge(outEdge[v], ReqsOf(v), u).edges \in EdgeLists
         /\ want[v] = AsSet(Merge(outEdge[v], ReqsOf(v), u).edges)
<1> DEFINE reqs == ReqsOf(v)
           old == outEdge[v]
<1>1. reqs \in Seq(Request) /\ (Silent(v, reqs) \/ Asked(v, reqs))
  BY FinishedRequests
<1>2. outEdge \in [Vertex -> EdgeLists]
  BY DEF Finished, ReplaceInv, Types
<1> HIDE DEF reqs
<1>3. CASE Silent(v, reqs)
  <2>1. reqs = <<>> /\ want[v] = AsSet(old)
    BY <1>3 DEF Silent, Content
  <2>2. old \in EdgeLists /\ old \in Seq([id : Int, val : Val])
    BY <1>2, EdgeListsAre
  <2> HIDE DEF old
  <2>3. Optimized(old, <<>>) = <<>>
    BY OptimizedNone
  <2>4. Merge(old, <<>>, u) = [edges |-> old, ok |-> TRUE]
    BY <2>2, MergeNone
  <2> QED
    BY <2>1, <2>2, <2>3, <2>4 DEF reqs, old
<1>4. CASE Asked(v, reqs)
  <2>1. PICK list \in NewEdges \cup {<<>>} :
          Replaces(outEdge[v], 0, list, reqs) /\ want[v] = AsSet(list)
    BY <1>4 DEF Asked
  <2>2. /\ Optimized(outEdge[v], reqs) = reqs
        /\ Merge(outEdge[v], reqs, u) = [edges |-> list, ok |-> TRUE]
    BY <1>1, <1>2, <2>1, MergeAsked
  <2>3. list \in EdgeLists
    BY EdgeListsAre
  <2> QED
    BY <2>1, <2>2, <2>3 DEF reqs
<1> QED
  BY <1>1, <1>3, <1>4

LEMMA EndSuperstepHolds ==
  ASSUME ListsApart, ReplaceInv, Replacing, EndSuperstep, ~failed'
  PROVE  Types' /\ AllBehind' /\ Quiet' /\ AtWork' /\ Ahead'
<1> DEFINE some == \E f \in Thread : changedUntilNow[f]
           reqsOf == [v \in Vertex |-> Optimized(outEdge[v], ReqsOf(v))]
<1>1. Types /\ AllBehind /\ Quiet /\ ~failed /\ cur \notin Vertex
  BY DEF ReplaceInv, EndSuperstep
<1>2. /\ log' = [f \in Thread |-> <<>>] /\ ends' = [v \in Vertex |-> 0]
      /\ changedUntilNow' = [f \in Thread |-> FALSE] /\ cur' = 0
      /\ calls' = calls /\ changed' = changed /\ want' = want
  BY DEF EndSuperstep, ResetEnds, Replacing
<1>3. 0 .. cur - 1 = Vertex
  <2>1. Cardinality(Vertex) \in Nat /\ Vertex = 0 .. Cardinality(Vertex) - 1
    BY Vertices
  <2>2. cur \in 0 .. Cardinality(Vertex) /\ cur \notin 0 .. Cardinality(Vertex) - 1
    BY <1>1, <2>1 DEF Types
  <2>3. cur = Cardinality(Vertex)
    BY <2>1, <2>2
  <2> QED
    BY <2>1, <2>3
<1>4. PICK unwritten \in Unwritten :
        LET out == UpdatedOut(reqsOf, unwritten)
            in == UpdatedIn(reqsOf, unwritten)
        IN IF some /\ (~OffsetsOrdered \/ \E v \in Vertex : ~out[v].ok \/ ~in[v].ok)
           THEN failed' = TRUE /\ UNCHANGED <<outEdge, inEdge>>
           ELSE /\ outEdge' = IF some THEN [v \in Vertex |-> out[v].edges] ELSE outEdge
                /\ inEdge' = IF some THEN [v \in Vertex |-> in[v].edges] ELSE inEdge
                /\ UNCHANGED failed
  BY DEF EndSuperstep
<1> HIDE DEF reqsOf
<1>5. /\ some => OffsetsOrdered
      /\ outEdge' = IF some THEN [v \in Vertex |-> UpdatedOut(reqsOf, unwritten)[v].edges]
                    ELSE outEdge
  <2> HIDE DEF some
  <2> QED
    BY <1>4
<1>6. outEdge' \in [Vertex -> EdgeLists] /\ \A v \in Vertex : Content(v)'
  <2>1. CASE some
    <3>1. Finished
      BY <1>1, <1>5, <2>1 DEF Finished
    <3>2. outEdge' = [v \in Vertex |-> UpdatedOut(reqsOf, unwritten)[v].edges]
      BY <1>5, <2>1
    <3>3. ASSUME NEW v \in Vertex
          PROVE  outEdge'[v] \in EdgeLists /\ want[v] = AsSet(outEdge'[v])
      <4>1. reqsOf[v] = ReqsOf(v)
        BY <3>1, OutUpdated DEF reqsOf
      <4>2. UpdatedOut(reqsOf, unwritten)[v] = Merge(outEdge[v], ReqsOf(v), unwritten)
        BY <4>1 DEF UpdatedOut
      <4>3. outEdge'[v] = Merge(outEdge[v], ReqsOf(v), unwritten).edges
        BY <3>2, <4>2
      <4>4. /\ Merge(outEdge[v], ReqsOf(v), unwritten).edges \in EdgeLists
            /\ want[v] = AsSet(Merge(outEdge[v], ReqsOf(v), unwritten).edges)
        BY <3>1, OutUpdated
      <4> QED
        BY <4>3, <4>4
    <3>4. outEdge' \in [Vertex -> EdgeLists]
      BY <3>2, <3>3
    <3> QED
      BY <1>2, <3>3, <3>4 DEF Content
  <2>2. CASE ~some
    <3>1. outEdge' = outEdge
      BY <1>5, <2>2
    <3>2. \A v \in Vertex : ~changedUntilNow[FirstOf[v]]
      BY <2>2, Vertices
    <3>3. \A v \in Vertex : Content(v)
      BY <1>1, <1>3, <3>2 DEF Quiet
    <3> QED
      BY <1>1, <1>2, <3>1, <3>3 DEF Content, Types
  <2> QED
    BY <2>1, <2>2
<1>7. ~changed' /\ calls' \in Nat
  BY <1>1, <1>2 DEF Types
<1>8. 0 .. cur' - 1 = {}
  BY <1>2
<1>9. Types'
  <2>1. cur' \in 0 .. Cardinality(Vertex)
    <3>1. Cardinality(Vertex) \in Nat
      BY Vertices
    <3> QED
      BY <1>2, <3>1
  <2>2. <<>> \in Seq(Request)
    OBVIOUS
  <2>3. ends' \in [Vertex -> Nat] /\ log' \in [Thread -> Seq(Request)]
        /\ changedUntilNow' \in [Thread -> BOOLEAN]
    BY <1>2, <2>2
  <2>4. DOMAIN want' = Vertex
    BY <1>1, <1>2 DEF Types
  <2>5. changed' \in BOOLEAN
    BY <1>1, <1>2 DEF Types
  <2> QED
    BY <1>6, <1>7, <2>1, <2>3, <2>4, <2>5 DEF Types
<1>10. AllBehind' /\ Quiet'
  BY <1>8 DEF AllBehind, Quiet
<1>11. AtWork'
  <2> SUFFICES ASSUME 0 \in Vertex PROVE start(cur)' <= Len(log'[FirstOf[0]])
    BY <1>2, <1>7 DEF AtWork
  <2>1. FirstOf[0] = 0 /\ 0 \in Thread
    BY Vertices, EdgeAssumption
  <2>2. start(cur)' = 0 /\ log'[0] = <<>>
    BY <1>2, <2>1 DEF start
  <2> QED
    BY <2>1, <2>2
<1>12. Ahead'
  BY <1>2, <1>6 DEF Ahead
<1> QED
  BY <1>9, <1>10, <1>11, <1>12

-----------------------------------------------------------------------------
LEMMA ClearedIs ==
  ASSUME Types, AtWork, cur \in Vertex, NEW list \in NewEdges \cup {<<>>}
  PROVE  /\ Removals(cur) \o Requests(list, "add") \in Seq(Request)
         /\ Replaces(outEdge[cur], 0, list, Removals(cur) \o Requests(list, "add"))
         /\ Cleared(cur) \o Requests(list, "add")
              = SubSeq(log[FirstOf[cur]], 1, start(cur)) \o (Removals(cur) \o Requests(list, "add"))
<1> DEFINE T == [id : Vertex, val : Val]
           l == log[FirstOf[cur]]
           s == start(cur)
           p == SubSeq(l, 1, s)
           r == Removals(cur)
           a == Requests(list, "add")
<1>1. outEdge[cur] \in Seq(T) /\ list \in Seq(T)
  <2>1. outEdge[cur] \in EdgeLists /\ list \in EdgeLists
    BY EdgeListsAre DEF Types
  <2> QED
    BY <2>1, EdgeListsAre
<1>2. r \in Seq(Request) /\ a \in Seq(Request) /\ r \o a \in Seq(Request)
      /\ Replaces(outEdge[cur], 0, list, r \o a)
  BY <1>1, RemovalsAre, RequestsAre, ReplacingRequests
<1>3. p \in Seq(Request)
  <2>1. l \in Seq(Request) /\ s \in Nat /\ s <= Len(l)
    BY StartIs DEF Types, AtWork
  <2> HIDE DEF l, s
  <2> QED
    BY <2>1
<1>4. Cleared(cur) = p \o r
  BY DEF Cleared
<1> HIDE DEF p, r, a
<1>5. (p \o r) \o a = p \o (r \o a)
  BY <1>2, <1>3, ConcatAssociative
<1> QED
  BY <1>2, <1>4, <1>5 DEF p, r, a

LEMMA ClearedType ==
  ASSUME Types, AtWork, cur \in Vertex
  PROVE  Cleared(cur) \in Seq(Request)
<1> DEFINE l == log[FirstOf[cur]]
           s == start(cur)
           p == SubSeq(l, 1, s)
<1>1. outEdge[cur] \in EdgeLists
  BY DEF Types
<1>2. Removals(cur) \in Seq(Request)
  BY <1>1, EdgeListsAre, RemovalsAre
<1>3. l \in Seq(Request) /\ s \in Nat /\ s <= Len(l)
  BY StartIs DEF Types, AtWork
<1>4. p \in Seq(Request)
  <2> HIDE DEF l, s
  <2> QED
    BY <1>3
<1>5. Cleared(cur) = p \o Removals(cur)
  BY DEF Cleared
<1> HIDE DEF p
<1> QED
  BY <1>2, <1>4, <1>5, Concat

LEMMA NextReplaceInv ==
  ASSUME ListsApart, ReplaceInv, [Next]_vars
  PROVE  ReplaceInv'
<1> SUFFICES ASSUME Replacing', ~failed' PROVE Types' /\ AllBehind' /\ Quiet' /\ AtWork' /\ Ahead'
  BY DEF ReplaceInv
<1>1. plan' = plan
  BY DEF Next, vars, AddOutEdge, ClearOutEdges, SetOutEdges, RemoveEdge, ModifyValue, Iterate,
         MayCall, EndVertex, EndSuperstep
<1>2. Replacing
  BY <1>1 DEF Replacing
<1>3. ASSUME NEW list \in NewEdges \cup {<<>>}, cur \in Vertex, ~failed,
             changed' = TRUE, calls' = calls + 1,
             UNCHANGED <<outEdge, cur, changedUntilNow>>,
             log' = [log EXCEPT ![FirstOf[cur]] = Cleared(cur) \o Requests(list, "add")],
             ends' = [ends EXCEPT ![cur] = IF changed THEN start(cur) ELSE @],
             want' = [want EXCEPT ![cur] = AsSet(list)]
      PROVE  Types' /\ AllBehind' /\ Quiet' /\ AtWork' /\ Ahead'
  <2> DEFINE reqs == Removals(cur) \o Requests(list, "add")
  <2>1. Types /\ AtWork
    BY <1>2, <1>3 DEF ReplaceInv
  <2>2. /\ reqs \in Seq(Request) /\ Replaces(outEdge[cur], 0, list, reqs)
        /\ Cleared(cur) \o Requests(list, "add")
             = SubSeq(log[FirstOf[cur]], 1, start(cur)) \o reqs
    BY <1>3, <2>1, ClearedIs
  <2> HIDE DEF reqs
  <2>3. log' = [log EXCEPT ![FirstOf[cur]] = SubSeq(log[FirstOf[cur]], 1, start(cur)) \o reqs]
    BY <1>3, <2>2
  <2> QED
    BY <1>2, <1>3, <2>2, <2>3, ReplaceHolds
<1>4. CASE ClearOutEdges
  <2>1. Requests(<<>>, "add") = <<>>
    BY DEF Requests
  <2>2. Types /\ AtWork /\ cur \in Vertex /\ ~failed
    BY <1>2, <1>4 DEF ReplaceInv, ClearOutEdges, MayCall
  <2>3. Cleared(cur) \o Requests(<<>>, "add") = Cleared(cur)
    BY <2>1, <2>2, ClearedType, Concat
  <2>4. AsSet(<<>>) = {}
    BY DEF AsSet
  <2>5. /\ log' = [log EXCEPT ![FirstOf[cur]] = Cleared(cur) \o Requests(<<>>, "add")]
        /\ want' = [want EXCEPT ![cur] = AsSet(<<>>)]
    BY <1>4, <2>3, <2>4 DEF ClearOutEdges
  <2>6. /\ changed' = TRUE /\ calls' = calls + 1 /\ UNCHANGED <<outEdge, cur, changedUntilNow>>
        /\ ends' = [ends EXCEPT ![cur] = IF changed THEN start(cur) ELSE @]
    BY <1>4 DEF ClearOutEdges, MayCall
  <2> QED
    BY <1>3, <2>2, <2>5, <2>6
<1>5. ASSUME NEW list \in NewEdges, SetOutEdges(list)
      PROVE  Types' /\ AllBehind' /\ Quiet' /\ AtWork' /\ Ahead'
  <2>1. /\ cur \in Vertex /\ ~failed /\ changed' = TRUE /\ calls' = calls + 1
        /\ UNCHANGED <<outEdge, cur, changedUntilNow>>
        /\ log' = [log EXCEPT ![FirstOf[cur]] = Cleared(cur) \o Requests(list, "add")]
        /\ ends' = [ends EXCEPT ![cur] = IF changed THEN start(cur) ELSE @]
        /\ want' = [want EXCEPT ![cur] = AsSet(list)]
    BY <1>5 DEF SetOutEdges, MayCall
  <2> QED
    BY <1>3, <2>1
<1>6. ASSUME NEW name \in {"add", "remove", "modify"}, MayCall(name) PROVE FALSE
  BY <1>2, <1>6 DEF MayCall, Replacing
<1>7. CASE EndVertex
  BY <1>2, <1>7, EndVertexHolds
<1>8. CASE EndSuperstep
  BY <1>2, <1>8, EndSuperstepHolds
<1>9. CASE UNCHANGED vars
  <2>1. Types /\ AllBehind /\ Quiet /\ AtWork /\ Ahead
    BY <1>2, <1>9 DEF ReplaceInv, vars
  <2> QED
    BY <1>9, <2>1 DEF vars, Types, AllBehind, Behind, Quiet, AtWork, Ahead, start, ReqsOf,
                      Silent, Asked, Content
<1> QED
  BY <1>4, <1>5, <1>6, <1>7, <1>8, <1>9
     DEF Next, AddOutEdge, RemoveEdge, ModifyValue, Iterate

LEMMA ReplaceInvHolds ==
  ASSUME ListsApart
  PROVE  Spec => []ReplaceInv
<1>1. Init => ReplaceInv
  BY InitReplaceInv
<1>2. ReplaceInv /\ [Next]_vars => ReplaceInv'
  BY NextReplaceInv
<1> QED
  BY <1>1, <1>2, PTL DEF Spec

\* A list whose edges lead to different destinations has as many as the set of them.
LEMMA SameAsSet ==
  ASSUME ListsApart, NEW list \in EdgeLists
  PROVE  Same(list, AsSet(list))
<1> DEFINE n == Len(list)
           f == [i \in 1 .. n |-> list[i]]
<1>1. n \in Nat /\ DOMAIN list = 1 .. n
  <2>1. list \in Seq([id : Vertex, val : Val])
    BY EdgeListsAre
  <2> QED
    BY <2>1
<1>2. Distinct(list)
  BY DEF ListsApart
<1> HIDE DEF n
<1>3. f \in Bijection(1 .. n, AsSet(list))
  <2>1. f \in [1 .. n -> AsSet(list)]
    BY <1>1 DEF AsSet
  <2>2. \A i, j \in 1 .. n : f[i] = f[j] => i = j
    BY <1>1, <1>2 DEF Distinct
  <2>3. \A e \in AsSet(list) : \E i \in 1 .. n : f[i] = e
    BY <1>1 DEF AsSet
  <2> QED
    BY <2>1, <2>2, <2>3 DEF Bijection, Injection, Surjection, IsInjective
<1>4. IsFiniteSet(1 .. n) /\ Cardinality(1 .. n) = n
  BY <1>1, FS_Interval
<1>5. Cardinality(AsSet(list)) = n
  <2>1. ExistsBijection(1 .. n, AsSet(list))
    BY <1>3 DEF ExistsBijection
  <2> QED
    BY <1>4, <2>1, FS_Bijection
<1> QED
  BY <1>5 DEF Same, n

(* A vertex that replaces its edges reads, while it computes, those it has asked for: the   *)
(* listing merges the requests of this compute into the stored list (outEdges).  For all    *)
(* graphs, threads and lists, as long as the lists are apart.                               *)
THEOREM WritesAreRead ==
  ASSUME ListsApart
  PROVE  Spec => []ReadYourWrites
<1>1. ReplaceInv => ReadYourWrites
  <2> SUFFICES ASSUME ReplaceInv, cur \in Vertex, Replacing, ~failed, NEW u \in Unwritten
               PROVE  Listing(cur, u).ok /\ Same(Listing(cur, u).edges, want[cur])
    BY DEF ReadYourWrites
  <2>1. Types /\ AtWork /\ Ahead /\ outEdge \in [Vertex -> EdgeLists]
    BY DEF ReplaceInv, Types
  <2>2. CASE changed
    <3> DEFINE l == log[FirstOf[cur]]
               reqs == SubSeq(l, start(cur) + 1, Len(l))
    <3>1. Asked(cur, reqs)
      BY <2>1, <2>2 DEF AtWork
    <3>2. reqs \in Seq(Request)
      <4>1. l \in Seq(Request) /\ start(cur) \in Nat
        BY <2>1, StartIs DEF Types
      <4> HIDE DEF l
      <4> QED
        BY <4>1
    <3>3. Listing(cur, u) = Merge(outEdge[cur], reqs, u)
      BY <2>2 DEF Listing
    <3> HIDE DEF reqs
    <3>4. PICK list \in NewEdges \cup {<<>>} :
            Replaces(outEdge[cur], 0, list, reqs) /\ want[cur] = AsSet(list)
      BY <3>1 DEF Asked
    <3>5. Merge(outEdge[cur], reqs, u) = [edges |-> list, ok |-> TRUE]
      BY <2>1, <3>2, <3>4, MergeAsked
    <3>6. Same(list, AsSet(list))
      BY EdgeListsAre, SameAsSet
    <3> QED
      BY <3>3, <3>4, <3>5, <3>6
  <2>3. CASE ~changed
    <3>1. want[cur] = AsSet(outEdge[cur])
      BY <2>1, <2>3 DEF Ahead, Content
    <3>2. Same(outEdge[cur], AsSet(outEdge[cur]))
      BY <2>1, SameAsSet
    <3>3. Listing(cur, u) = [edges |-> outEdge[cur], ok |-> TRUE]
      BY <2>3 DEF Listing
    <3> QED
      BY <3>1, <3>2, <3>3
  <2> QED
    BY <2>1, <2>2, <2>3 DEF Types
<1>2. Spec => []ReplaceInv
  BY ReplaceInvHolds
<1> QED
  BY <1>1, <1>2, PTL

(* After a superstep the vertices have exactly the edges they asked for, whatever the order *)
(* of their calls (updateOutEdge), when all they do is to replace them.                     *)
THEOREM EdgesAreThoseAskedFor ==
  ASSUME ListsApart
  PROVE  Spec => []OutEdgesAsRequested
<1>1. ReplaceInv => OutEdgesAsRequested
  <2> SUFFICES ASSUME ReplaceInv, Replacing, Between, NEW v \in Vertex
               PROVE  Same(outEdge[v], want[v])
    BY DEF OutEdgesAsRequested
  <2>1. Types /\ Ahead /\ outEdge \in [Vertex -> EdgeLists] /\ cur = 0 /\ ~changed
    BY DEF ReplaceInv, Types, Between
  <2>2. want[v] = AsSet(outEdge[v])
    <3>1. v > 0 \/ v = 0
      BY Vertices
    <3> QED
      BY <2>1, <3>1 DEF Ahead, Content
  <2> QED
    BY <2>1, <2>2, SameAsSet
<1>2. Spec => []ReplaceInv
  BY ReplaceInvHolds
<1> QED
  BY <1>1, <1>2, PTL

-----------------------------------------------------------------------------
(* In edges: lists with ascending sources. *)
Lists(s, S) ==
  /\ \A i, j \in 1 .. Len(s) : i < j => s[i].id < s[j].id
  /\ {s[i].id : i \in 1 .. Len(s)} = S

LEMMA ListsConcat ==
  ASSUME NEW T, NEW s \in Seq(T), NEW t \in Seq(T), \A e \in T : e.id \in Int,
         NEW A, NEW B, Lists(s, A), Lists(t, B), \A a \in A, b \in B : a < b
  PROVE  Lists(s \o t, A \cup B)
<1> DEFINE m == Len(s)
           n == Len(t)
           r == s \o t
<1>1. m \in Nat /\ n \in Nat
  OBVIOUS
<1>2. r \in Seq(T) /\ Len(r) = m + n
      /\ \A i \in 1 .. m + n : r[i] = IF i <= m THEN s[i] ELSE t[i - m]
  BY Concat, ConcatProperties
<1>3. /\ \A i, j \in 1 .. m : i < j => s[i].id < s[j].id
      /\ \A i, j \in 1 .. n : i < j => t[i].id < t[j].id
      /\ A = {s[i].id : i \in 1 .. m} /\ B = {t[i].id : i \in 1 .. n}
  BY DEF Lists
<1> HIDE DEF m, n, r
<1>4. \A i \in 1 .. m : i \in 1 .. m + n /\ r[i] = s[i] /\ s[i].id \in A
  BY <1>1, <1>2, <1>3
<1>5. \A i \in 1 .. n : m + i \in 1 .. m + n /\ r[m + i] = t[i] /\ t[i].id \in B
  <2> SUFFICES ASSUME NEW i \in 1 .. n
               PROVE  m + i \in 1 .. m + n /\ r[m + i] = t[i] /\ t[i].id \in B
    OBVIOUS
  <2>1. m + i \in 1 .. m + n /\ ~ m + i <= m /\ (m + i) - m = i
    BY <1>1
  <2>2. r[m + i] = t[(m + i) - m]
    BY <1>2, <2>1
  <2> QED
    BY <1>3, <2>1, <2>2
<1>6. \A k \in 1 .. m + n : k \in 1 .. m \/ (k - m \in 1 .. n /\ m + (k - m) = k)
  BY <1>1
<1>7. ASSUME NEW i \in 1 .. m + n, NEW j \in 1 .. m + n, i < j PROVE r[i].id < r[j].id
  <2>1. CASE j \in 1 .. m
    <3>1. i \in 1 .. m
      BY <1>1, <1>7, <2>1
    <3> QED
      BY <1>3, <1>4, <1>7, <2>1, <3>1
  <2>2. CASE j \notin 1 .. m /\ i \in 1 .. m
    <3>1. j - m \in 1 .. n /\ m + (j - m) = j
      BY <1>6, <2>2
    <3>2. r[j] = t[j - m] /\ t[j - m].id \in B
      BY <1>5, <3>1
    <3> QED
      BY <1>4, <2>2, <3>2
  <2>3. CASE j \notin 1 .. m /\ i \notin 1 .. m
    <3>1. j - m \in 1 .. n /\ m + (j - m) = j /\ i - m \in 1 .. n /\ m + (i - m) = i
      BY <1>6, <2>3
    <3>2. r[j] = t[j - m] /\ r[i] = t[i - m]
      BY <1>5, <3>1
    <3>3. i - m < j - m
      BY <1>1, <1>7
    <3> QED
      BY <1>3, <3>1, <3>2, <3>3
  <2> QED
    BY <2>1, <2>2, <2>3
<1>8. {r[i].id : i \in 1 .. m + n} = A \cup B
  <2>1. ASSUME NEW i \in 1 .. m + n PROVE r[i].id \in A \cup B
    <3>1. CASE i \in 1 .. m
      BY <1>4, <3>1
    <3>2. CASE i \notin 1 .. m
      <4>1. i - m \in 1 .. n /\ m + (i - m) = i
        BY <1>6, <3>2
      <4> QED
        BY <1>5, <4>1
    <3> QED
      BY <3>1, <3>2
  <2>2. ASSUME NEW a \in A PROVE \E i \in 1 .. m + n : r[i].id = a
    BY <1>3, <1>4
  <2>3. ASSUME NEW b \in B PROVE \E i \in 1 .. m + n : r[i].id = b
    <3>1. PICK i \in 1 .. n : b = t[i].id
      BY <1>3
    <3> QED
      BY <1>5, <3>1
  <2> QED
    BY <2>1, <2>2, <2>3
<1> QED
  BY <1>2, <1>7, <1>8 DEF Lists, r

\* At most one element for every vertex, one vertex after the other.
LEMMA ByVertexLists ==
  ASSUME NEW T, \A e \in T : e.id \in Int, NEW f \in [Vertex -> Seq(T)],
         \A u \in Vertex : Len(f[u]) <= 1 /\ \A i \in 1 .. Len(f[u]) : f[u][i].id = u
  PROVE  ByVertex(f) \in Seq(T) /\ Lists(ByVertex(f), {u \in Vertex : f[u] # <<>>})
<1> DEFINE N == Cardinality(Vertex)
           g == [k \in 1 .. N |-> f[k - 1]]
           Part(n) == FlattenSeq([k \in 1 .. n |-> g[k]])
           Set(n) == {u \in 0 .. n - 1 : f[u] # <<>>}
           Holds(n) == n <= N => Part(n) \in Seq(T) /\ Lists(Part(n), Set(n))
           good == {n \in Nat : Holds(n)}
<1>1. N \in Nat /\ Vertex = 0 .. N - 1
  BY Vertices
<1> HIDE DEF N
<1>2. \A k \in 1 .. N : k - 1 \in Vertex /\ g[k] = f[k - 1] /\ g[k] \in Seq(T)
  BY <1>1
<1>3. ByVertex(f) = Part(N)
  <2>1. g = [k \in 1 .. N |-> g[k]]
    OBVIOUS
  <2>2. ByVertex(f) = FlattenSeq(g)
    BY DEF ByVertex, N
  <2> HIDE DEF g
  <2> QED
    BY <2>1, <2>2
<1> HIDE DEF g
<1>4. Holds(0)
  <2>1. [k \in 1 .. 0 |-> g[k]] \in Seq(Seq(T)) /\ Len([k \in 1 .. 0 |-> g[k]]) = 0
    OBVIOUS
  <2>2. Part(0) = <<>>
    BY <2>1, FlattenEmpty
  <2>3. Set(0) = {}
    OBVIOUS
  <2>4. <<>> \in Seq(T) /\ Lists(<<>>, {})
    BY DEF Lists
  <2> QED
    BY <2>2, <2>3, <2>4
<1>5. ASSUME NEW n \in Nat, Holds(n) PROVE Holds(n + 1)
  <2> SUFFICES ASSUME n + 1 <= N PROVE Part(n + 1) \in Seq(T) /\ Lists(Part(n + 1), Set(n + 1))
    OBVIOUS
  <2>1. n <= N /\ n + 1 \in 1 .. N /\ (n + 1) - 1 = n /\ n \in Vertex
    BY <1>1
  <2>2. Part(n) \in Seq(T) /\ Lists(Part(n), Set(n))
    <3> HIDE DEF Part, Set
    <3> QED
      BY <1>5, <2>1
  <2>3. g[n + 1] = f[n] /\ f[n] \in Seq(T)
    BY <1>2, <2>1
  <2>4. Part(n + 1) = Part(n) \o f[n]
    <3> DEFINE h == [k \in 1 .. n + 1 |-> g[k]]
    <3>1. h \in [1 .. n + 1 -> Seq(T)]
      BY <1>1, <1>2, <2>1
    <3>2. h[n + 1] = g[n + 1] /\ [k \in 1 .. n |-> h[k]] = [k \in 1 .. n |-> g[k]]
      OBVIOUS
    <3> HIDE DEF h
    <3>3. FlattenSeq(h) = FlattenSeq([k \in 1 .. n |-> h[k]]) \o h[n + 1]
      BY <3>1, FlattenNext
    <3> QED
      BY <2>3, <3>2, <3>3 DEF h
  <2> DEFINE B == IF f[n] # <<>> THEN {n} ELSE {}
  <2>5. Lists(f[n], B)
    <3>1. Len(f[n]) \in Nat /\ Len(f[n]) <= 1 /\ \A i \in 1 .. Len(f[n]) : f[n][i].id = n
      BY <2>1, <2>3
    <3>2. CASE Len(f[n]) = 0
      <4>1. f[n] = <<>>
        BY <2>3, <3>2
      <4> QED
        BY <4>1 DEF Lists
    <3>3. CASE Len(f[n]) = 1
      <4>1. f[n] # <<>> /\ f[n][1].id = n
        BY <3>1, <3>3
      <4>2. 1 .. Len(f[n]) = {1}
        BY <3>3
      <4> QED
        BY <4>1, <4>2 DEF Lists
    <3>4. Len(f[n]) = 0 \/ Len(f[n]) = 1
      <4> DEFINE x == Len(f[n])
      <4>1. x \in Nat /\ x <= 1
        BY <3>1
      <4> HIDE DEF x
      <4>2. x = 0 \/ x = 1
        BY <4>1
      <4> QED
        BY <4>2 DEF x
    <3> QED
      BY <3>2, <3>3, <3>4
  <2>6. Set(n + 1) = Set(n) \cup B /\ \A a \in Set(n), b \in B : a < b
    <3>1. \A u : u \in 0 .. (n + 1) - 1 <=> u \in 0 .. n - 1 \/ u = n
      OBVIOUS
    <3> QED
      BY <3>1
  <2> HIDE DEF Part, Set, B
  <2>7. Lists(Part(n) \o f[n], Set(n) \cup B)
    BY <2>2, <2>3, <2>5, <2>6, ListsConcat
  <2>8. Part(n) \o f[n] \in Seq(T)
    BY <2>2, <2>3, Concat
  <2> QED
    BY <2>4, <2>6, <2>7, <2>8
<1>6. Holds(N)
  <2> HIDE DEF Holds
  <2>1. 0 \in good /\ \A n \in Nat : n \in good => n + 1 \in good
    BY <1>4, <1>5
  <2> HIDE DEF good
  <2>2. N \in good
    BY <1>1, <2>1, Induction
  <2> QED
    BY <2>2 DEF good
<1>7. Set(N) = {u \in Vertex : f[u] # <<>>} /\ N <= N
  BY <1>1
<1> HIDE DEF Part, Set
<1> QED
  BY <1>3, <1>6, <1>7

\* A list of edges has at most one to a vertex.
LEMMA OneEdge ==
  ASSUME ListsApart, NEW out \in [Vertex -> EdgeLists], NEW u \in Vertex, NEW v
  PROVE  /\ \A i, j \in DOMAIN out[u] : out[u][i].id = v /\ out[u][j].id = v => i = j
         /\ u \in Sources(out, v) <=> \E k \in DOMAIN out[u] : out[u][k].id = v
<1>1. Distinct(out[u])
  BY DEF ListsApart
<1> QED
  BY <1>1 DEF Distinct, Sources, AsSet

LEMMA InEdgesAreSources ==
  ASSUME ListsApart, NEW out \in [Vertex -> EdgeLists], NEW v \in Vertex
  PROVE  /\ InEdgesOf(out)[v] \in Seq([id : Vertex, val : Val])
         /\ Lists(InEdgesOf(out)[v], Sources(out, v))
<1> DEFINE T == [id : Vertex, val : Val]
           K(u) == {k \in DOMAIN out[u] : out[u][k].id = v}
           f == [u \in Vertex |-> [i \in 1 .. Cardinality(K(u)) |-> [id |-> u, val |-> None]]]
<1>1. InEdgesOf(out)[v] = ByVertex(f)
  BY DEF InEdgesOf
<1>2. \A e \in T : e.id \in Int
  BY Vertices
<1>3. \A u \in Vertex : [id |-> u, val |-> None] \in T /\ [id |-> u, val |-> None].id = u
  BY Vertices
<1> HIDE DEF T
<1>4. ASSUME NEW u \in Vertex
      PROVE  /\ f[u] \in Seq(T) /\ Len(f[u]) <= 1
             /\ \A i \in 1 .. Len(f[u]) : f[u][i].id = u
             /\ f[u] # <<>> <=> u \in Sources(out, v)
  <2> DEFINE n == Cardinality(K(u))
  <2>1. f[u] = [i \in 1 .. n |-> [id |-> u, val |-> None]]
    OBVIOUS
  <2>2. n = IF u \in Sources(out, v) THEN 1 ELSE 0
    <3>1. CASE u \in Sources(out, v)
      <4>1. PICK k \in DOMAIN out[u] : out[u][k].id = v
        BY <3>1, OneEdge
      <4>2. K(u) = {k}
        <5>1. \A j \in DOMAIN out[u] : out[u][j].id = v => j = k
          BY <4>1, OneEdge
        <5> QED
          BY <4>1, <5>1
      <4>3. Cardinality({k}) = 1
        BY FS_Singleton
      <4> HIDE DEF K
      <4> QED
        BY <3>1, <4>2, <4>3
    <3>2. CASE u \notin Sources(out, v)
      <4>1. K(u) = {}
        BY <3>2, OneEdge
      <4>2. Cardinality({}) = 0
        BY FS_EmptySet
      <4> HIDE DEF K
      <4> QED
        BY <3>2, <4>1, <4>2
    <3> QED
      BY <3>1, <3>2
  <2> HIDE DEF n, f
  <2>3. n \in Nat /\ n <= 1
    BY <2>2
  <2>4. f[u] \in [1 .. n -> T]
    BY <1>3, <2>1
  <2>5. f[u] \in Seq(T) /\ Len(f[u]) = n /\ (f[u] # <<>> <=> n # 0)
    BY <2>3, <2>4
  <2>6. \A i \in 1 .. n : f[u][i].id = u
    BY <1>3, <2>1
  <2> QED
    BY <2>2, <2>3, <2>5, <2>6
<1>5. f \in [Vertex -> Seq(T)]
  <2>1. f = [u \in Vertex |-> f[u]]
    OBVIOUS
  <2> HIDE DEF f
  <2> QED
    BY <1>4, <2>1
<1>6. {u \in Vertex : f[u] # <<>>} = Sources(out, v)
  <2> HIDE DEF f
  <2> QED
    BY <1>4 DEF Sources
<1> HIDE DEF f
<1>7. \A u \in Vertex : Len(f[u]) <= 1 /\ \A i \in 1 .. Len(f[u]) : f[u][i].id = u
  BY <1>4
<1>8. ByVertex(f) \in Seq(T) /\ Lists(ByVertex(f), {u \in Vertex : f[u] # <<>>})
  BY <1>2, <1>5, <1>7, ByVertexLists
<1> QED
  BY <1>1, <1>6, <1>8 DEF T

LEMMA ChosenOne ==
  ASSUME NEW T, NEW list \in Seq(T), NEW K \in SUBSET DOMAIN list, \A i, j \in K : i = j
  PROVE  (K = {} => Chosen(list, K) = <<>>) /\ \A k \in K : Chosen(list, K) = <<list[k]>>
<1>1. ASSUME K = {} PROVE Chosen(list, K) = <<>>
  <2>1. K = 1 .. 0
    BY <1>1
  <2>2. Chosen(list, 1 .. 0) = SubSeq(list, 1, 0)
    <3>1. 1 \in Nat \ {0} /\ 0 \in Nat /\ 0 <= Len(list)
      OBVIOUS
    <3> QED
      BY <3>1, ChosenRange
  <2>3. SubSeq(list, 1, 0) = <<>>
    OBVIOUS
  <2> QED
    BY <2>1, <2>2, <2>3
<1>2. ASSUME NEW k \in K PROVE Chosen(list, K) = <<list[k]>>
  <2>1. k \in 1 .. Len(list) /\ k \in Nat \ {0} /\ k <= Len(list) /\ k \in Nat
    OBVIOUS
  <2>2. K = k .. k
    BY <2>1
  <2>3. Chosen(list, k .. k) = SubSeq(list, k, k)
    BY <2>1, ChosenRange
  <2>4. SubSeq(list, k, k) = <<list[k]>>
    <3> DEFINE t == SubSeq(list, k, k)
    <3>1. \A i \in k .. k : list[i] \in T
      BY <2>1
    <3>2. /\ t \in Seq(T) /\ Len(t) = IF k <= k THEN k - k + 1 ELSE 0
          /\ \A i \in 1 .. k - k + 1 : t[i] = list[k + i - 1]
      BY <2>1, <3>1, SubSeqProperties
    <3> HIDE DEF t
    <3>3. Len(t) = 1 /\ 1 \in 1 .. k - k + 1 /\ k + 1 - 1 = k
      BY <2>1, <3>2
    <3>4. t[1] = list[k] /\ list[k] \in T
      BY <2>1, <3>2, <3>3
    <3>5. t = <<list[k]>>
      <4> DEFINE x == list[k]
      <4>1. t[1] = x /\ x \in T
        BY <3>4
      <4> HIDE DEF x
      <4>2. <<x>> \in Seq(T) /\ Len(<<x>>) = 1 /\ <<x>>[1] = x
        BY <4>1
      <4>3. \A i \in 1 .. Len(t) : t[i] = <<x>>[i]
        BY <3>3, <4>1, <4>2
      <4>4. t = <<x>>
        BY <3>2, <3>3, <4>2, <4>3, SeqEqual
      <4> QED
        BY <4>4 DEF x
    <3> QED
      BY <3>5 DEF t
  <2> QED
    BY <2>2, <2>3, <2>4
<1> QED
  BY <1>1, <1>2

\* The requests with an operation for the edges to a vertex.
For(reqs, v, op) == {k \in DOMAIN reqs : reqs[k].id = v /\ reqs[k].op = op}

LEMMA ArrivedLists ==
  ASSUME NEW reqsOf \in [Vertex -> Seq(Request)], NEW v \in Vertex, NEW op,
         \A u \in Vertex : \A i, j \in For(reqsOf[u], v, op) : i = j
  PROVE  /\ Arrived(v, op, reqsOf) \in Seq([id : Vertex, op : {op}, val : Val])
         /\ Lists(Arrived(v, op, reqsOf), {u \in Vertex : For(reqsOf[u], v, op) # {}})
<1> DEFINE T == [id : Vertex, op : {op}, val : Val]
           to(u) == Chosen(reqsOf[u], For(reqsOf[u], v, op))
           f == [u \in Vertex |-> [i \in 1 .. Len(to(u)) |-> [to(u)[i] EXCEPT !.id = u]]]
<1>1. Arrived(v, op, reqsOf) = ByVertex(f)
  BY DEF Arrived, For
<1>2. \A e \in T : e.id \in Int
  BY Vertices
<1>3. \A r \in Request, u \in Vertex :
        r.op = op => [r EXCEPT !.id = u] \in T /\ [r EXCEPT !.id = u].id = u
  BY DEF Request
<1> HIDE DEF T
<1>4. ASSUME NEW u \in Vertex
      PROVE  /\ f[u] \in Seq(T) /\ Len(f[u]) <= 1
             /\ \A i \in 1 .. Len(f[u]) : f[u][i].id = u
             /\ f[u] # <<>> <=> For(reqsOf[u], v, op) # {}
  <2> DEFINE reqs == reqsOf[u]
             K == For(reqs, v, op)
             t == to(u)
  <2>1. f[u] = [i \in 1 .. Len(t) |-> [t[i] EXCEPT !.id = u]]
    OBVIOUS
  <2>2. reqs \in Seq(Request) /\ K \in SUBSET DOMAIN reqs /\ (\A i, j \in K : i = j)
        /\ \A k \in K : reqs[k] \in Request /\ reqs[k].op = op
    BY DEF For
  <2>3. t = Chosen(reqs, K)
    OBVIOUS
  <2> HIDE DEF reqs, K, t, f
  <2>4. (K = {} => t = <<>>) /\ \A k \in K : t = <<reqs[k]>>
    BY <2>2, <2>3, ChosenOne
  <2>5. CASE K = {}
    <3>1. t = <<>> /\ Len(t) = 0
      BY <2>4, <2>5
    <3>2. f[u] = <<>>
      BY <2>1, <3>1
    <3> QED
      BY <2>5, <3>2 DEF K, reqs
  <2>6. CASE K # {}
    <3>1. PICK k \in K : TRUE
      BY <2>6
    <3> DEFINE r == reqs[k]
               e == [r EXCEPT !.id = u]
    <3>2. t = <<r>> /\ r \in Request /\ r.op = op
      BY <2>2, <2>4
    <3>3. e \in T /\ e.id = u
      BY <1>3, <3>2
    <3> HIDE DEF r
    <3>4. Len(t) = 1 /\ t[1] = r
      BY <3>2
    <3>5. f[u] = [i \in 1 .. 1 |-> [t[i] EXCEPT !.id = u]]
      BY <2>1, <3>4
    <3>6. \A i \in 1 .. 1 : [t[i] EXCEPT !.id = u] = e
      BY <3>4
    <3> HIDE DEF e
    <3>7. f[u] = [i \in 1 .. 1 |-> e]
      BY <3>5, <3>6
    <3>8. f[u] \in Seq(T) /\ Len(f[u]) = 1 /\ \A i \in 1 .. 1 : f[u][i] = e
      BY <3>3, <3>7
    <3>9. f[u] # <<>>
      BY <3>8
    <3> QED
      BY <2>6, <3>3, <3>8, <3>9 DEF K, reqs
  <2> QED
    BY <2>5, <2>6
<1>5. f \in [Vertex -> Seq(T)]
  <2>1. f = [u \in Vertex |-> f[u]]
    OBVIOUS
  <2> HIDE DEF f
  <2> QED
    BY <1>4, <2>1
<1>6. {u \in Vertex : f[u] # <<>>} = {u \in Vertex : For(reqsOf[u], v, op) # {}}
  <2> HIDE DEF f
  <2> QED
    BY <1>4
<1> HIDE DEF f
<1>7. \A u \in Vertex : Len(f[u]) <= 1 /\ \A i \in 1 .. Len(f[u]) : f[u][i].id = u
  BY <1>4
<1>8. ByVertex(f) \in Seq(T) /\ Lists(ByVertex(f), {u \in Vertex : f[u] # <<>>})
  BY <1>2, <1>5, <1>7, ByVertexLists
<1> QED
  BY <1>1, <1>6, <1>8 DEF T

\* What a vertex that replaces its list asks of the in edges of v.
LEMMA ForReplacing ==
  ASSUME ListsApart, NEW out \in [Vertex -> EdgeLists], NEW new \in [Vertex -> EdgeLists],
         NEW u \in Vertex, NEW v, NEW reqs \in Seq(Request), Replaces(out[u], 0, new[u], reqs)
  PROVE  /\ \A i, j \in For(reqs, v, "rmv") : i = j
         /\ For(reqs, v, "rmv") # {} <=> u \in Sources(out, v)
         /\ \A i, j \in For(reqs, v, "add") : i = j
         /\ For(reqs, v, "add") # {} <=> u \in Sources(new, v)
         /\ For(reqs, v, "mod") = {}
<1> DEFINE q == Len(out[u])
           a == Len(new[u])
<1>1. /\ q \in Nat /\ a \in Nat /\ DOMAIN out[u] = 1 .. q /\ DOMAIN new[u] = 1 .. a
  <2>1. out[u] \in Seq([id : Vertex, val : Val]) /\ new[u] \in Seq([id : Vertex, val : Val])
    BY EdgeListsAre
  <2> QED
    BY <2>1
<1>2. DOMAIN reqs = 1 .. q + a
  <2>1. Len(reqs) = (q - 0) + a /\ q - 0 = q
    BY <1>1 DEF Replaces
  <2> QED
    BY <2>1
<1>3. \A k \in 1 .. q : reqs[k].op = "rmv" /\ reqs[k].id = out[u][k].id
  <2>1. \A k \in 1 .. q - 0 : reqs[k].op = "rmv" /\ reqs[k].id = out[u][0 + k].id
    BY DEF Replaces
  <2>2. q - 0 = q /\ \A k \in 1 .. q : 0 + k = k
    BY <1>1
  <2> QED
    BY <2>1, <2>2
<1>4. \A k \in 1 .. a : reqs[q + k].op = "add" /\ reqs[q + k].id = new[u][k].id
  <2>1. \A k \in 1 .. a : reqs[(q - 0) + k].op = "add" /\ reqs[(q - 0) + k].id = new[u][k].id
    BY DEF Replaces
  <2>2. q - 0 = q
    BY <1>1
  <2> QED
    BY <2>1, <2>2
<1> HIDE DEF q, a
<1>5. \A k \in 1 .. q + a : k \in 1 .. q \/ (k - q \in 1 .. a /\ q + (k - q) = k)
  BY <1>1
<1>6. \A k \in 1 .. q + a : k \notin 1 .. q =>
        k - q \in 1 .. a /\ q + (k - q) = k /\ reqs[k].op = "add" /\ reqs[k].id = new[u][k - q].id
  <2> SUFFICES ASSUME NEW k \in 1 .. q + a, k \notin 1 .. q
               PROVE  k - q \in 1 .. a /\ q + (k - q) = k /\ reqs[k].op = "add"
                      /\ reqs[k].id = new[u][k - q].id
    OBVIOUS
  <2>1. k - q \in 1 .. a /\ q + (k - q) = k
    BY <1>5
  <2>2. reqs[q + (k - q)].op = "add" /\ reqs[q + (k - q)].id = new[u][k - q].id
    BY <1>4, <2>1
  <2> QED
    BY <2>1, <2>2
<1>7. For(reqs, v, "rmv") = {k \in DOMAIN out[u] : out[u][k].id = v}
  <2>1. \A k \in 1 .. q : k \in 1 .. q + a
    BY <1>1
  <2>2. ASSUME NEW k \in For(reqs, v, "rmv") PROVE k \in 1 .. q /\ out[u][k].id = v
    <3>1. k \in 1 .. q + a /\ reqs[k].op = "rmv" /\ reqs[k].id = v
      BY <1>2 DEF For
    <3>2. k \in 1 .. q
      BY <1>6, <3>1
    <3> QED
      BY <1>3, <3>1, <3>2
  <2>3. ASSUME NEW k \in 1 .. q, out[u][k].id = v PROVE k \in For(reqs, v, "rmv")
    BY <1>2, <1>3, <2>1, <2>3 DEF For
  <2> QED
    BY <1>1, <2>2, <2>3
<1>8. \A k \in For(reqs, v, "add") : k - q \in DOMAIN new[u] /\ new[u][k - q].id = v
                                     /\ q + (k - q) = k
  <2> SUFFICES ASSUME NEW k \in For(reqs, v, "add")
               PROVE  k - q \in DOMAIN new[u] /\ new[u][k - q].id = v /\ q + (k - q) = k
    OBVIOUS
  <2>1. k \in 1 .. q + a /\ reqs[k].op = "add" /\ reqs[k].id = v
    BY <1>2 DEF For
  <2>2. k \notin 1 .. q
    BY <1>3, <2>1
  <2> QED
    BY <1>1, <1>6, <2>1, <2>2
<1>9. \A k \in DOMAIN new[u] : new[u][k].id = v => q + k \in For(reqs, v, "add")
  <2> SUFFICES ASSUME NEW k \in 1 .. a, new[u][k].id = v PROVE q + k \in For(reqs, v, "add")
    BY <1>1
  <2>1. q + k \in 1 .. q + a
    BY <1>1
  <2> QED
    BY <1>2, <1>4, <2>1 DEF For
<1>10. For(reqs, v, "mod") = {}
  <2> SUFFICES ASSUME NEW k \in For(reqs, v, "mod") PROVE FALSE
    OBVIOUS
  <2>1. k \in 1 .. q + a /\ reqs[k].op = "mod"
    BY <1>2 DEF For
  <2> QED
    BY <1>3, <1>6, <2>1
<1>11. /\ \A i, j \in For(reqs, v, "rmv") : i = j
       /\ For(reqs, v, "rmv") # {} <=> u \in Sources(out, v)
  BY <1>7, OneEdge
<1>12. /\ \A i, j \in DOMAIN new[u] : new[u][i].id = v /\ new[u][j].id = v => i = j
       /\ u \in Sources(new, v) <=> \E k \in DOMAIN new[u] : new[u][k].id = v
  BY OneEdge
<1>13. ASSUME NEW i \in For(reqs, v, "add"), NEW j \in For(reqs, v, "add") PROVE i = j
  <2>1. i - q = j - q
    BY <1>8, <1>12
  <2>2. q + (i - q) = i /\ q + (j - q) = j
    BY <1>8
  <2> QED
    BY <2>1, <2>2
<1>14. For(reqs, v, "add") # {} <=> u \in Sources(new, v)
  BY <1>8, <1>9, <1>12
<1> QED
  BY <1>10, <1>11, <1>13, <1>14

-----------------------------------------------------------------------------
(* The merge of removals and then additions, wherever they are. *)
\* Before is the number of edges before id, or the room.
LEMMA BeforeExists ==
  ASSUME NEW old \in Seq([id : Int, val : Val]), NEW i \in Nat \ {0}, NEW id \in Int,
         NEW room \in Nat
  PROVE  LET b == Before(old, i, id, room)
         IN  /\ b \in 0 .. room
             /\ \A k \in i .. i + b - 1 : k <= Len(old) /\ old[k].id < id
<1> DEFINE Comes(k) == k <= Len(old) /\ old[k].id < id
           Ends(m) == m = room \/ i + m > Len(old) \/ old[i + m].id >= id
           Is(m) == (\A k \in i .. i + m - 1 : Comes(k)) /\ Ends(m)
           b == CHOOSE m \in 0 .. room : Is(m)
           stops == {m \in Nat : m = room \/ ~Comes(i + m)}
<1>1. PICK m \in stops : \A j \in stops : m <= j
  <2>1. room \in stops /\ stops \in SUBSET Nat
    OBVIOUS
  <2> HIDE DEF stops
  <2> QED
    BY <2>1, Least
<1>2. m \in 0 .. room /\ m \in Nat
  BY <1>1
<1>3. Is(m)
  <2>1. ASSUME NEW k \in i .. i + m - 1 PROVE Comes(k)
    <3>1. k - i \in Nat /\ k - i < m /\ i + (k - i) = k
      BY <1>2
    <3>2. k - i \notin stops
      <4> HIDE DEF stops
      <4> QED
        BY <1>1, <1>2, <3>1
    <3> QED
      BY <3>1, <3>2
  <2>2. Ends(m)
    <3>1. \A k \in 1 .. Len(old) : old[k].id \in Int
      <4> DEFINE T == [id : Int, val : Val]
      <4>1. old \in Seq(T) /\ \A t \in T : t.id \in Int
        OBVIOUS
      <4> HIDE DEF T
      <4>2. \A k \in 1 .. Len(old) : old[k] \in T
        BY <4>1
      <4> QED
        BY <4>1, <4>2
    <3>2. m = room \/ ~Comes(i + m)
      BY <1>1
    <3>3. i + m \in Nat \ {0} /\ Len(old) \in Nat
      BY <1>2
    <3> QED
      BY <3>1, <3>2, <3>3
  <2> HIDE DEF Comes, Ends
  <2> QED
    BY <2>1, <2>2
<1>4. b \in 0 .. room /\ Is(b)
  <2> HIDE DEF Is
  <2> QED
    BY <1>2, <1>3
<1>5. Before(old, i, id, room) = b
  BY DEF Before
<1> HIDE DEF b
<1> QED
  BY <1>4, <1>5

\* A set of states of which one is the end of the merge.
EndsIn(E, old, reqs, u, newLen) ==
  \E e \in E : /\ Merge(old, reqs, u).edges = e.new \o SubSeq(old, e.i, Len(old))
              /\ Merge(old, reqs, u).ok = (e.ok /\ newLen - Len(e.new) = Len(old) - e.i + 1)

\* One turn after the other, each from a set of states to the next, the merge comes to
\* a state of the last set.
LEMMA MergeRun ==
  ASSUME NEW old, NEW reqs, NEW u, NEW newLen, Len(reqs) \in Nat,
         newLen = Len(old) + Count(reqs, "add") - Count(reqs, "rmv"),
         NEW I, [new |-> <<>>, i |-> 1, ok |-> newLen >= 0] \in I[0],
         \A k \in 1 .. Len(reqs) : \A s \in I[k - 1] : MergeTurn(s, reqs[k], old, newLen, u) \in I[k]
  PROVE  EndsIn(I[Len(reqs)], old, reqs, u, newLen)
<1> DEFINE n == Len(reqs)
           first == [new |-> <<>>, i |-> 1, ok |-> newLen >= 0]
           S == UNION {I[k] : k \in 0 .. n}
           Turn(k, s) == MergeTurn(s, reqs[k], old, newLen, u)
           G == [p \in Nat \X S |-> IF p[1] < n /\ p[2] \in I[p[1]] THEN Turn(p[1] + 1, p[2]) ELSE p[2]]
           Is(h) == h = [k \in 0 .. n |-> IF k = 0 THEN first ELSE Turn(k, h[k - 1])]
           after == CHOOSE h : Is(h)
<1>1. n \in Nat /\ first \in I[0] /\ \A k \in 1 .. n : \A s \in I[k - 1] : Turn(k, s) \in I[k]
  OBVIOUS
<1>2. /\ Merge(old, reqs, u).edges = after[n].new \o SubSeq(old, after[n].i, Len(old))
      /\ Merge(old, reqs, u).ok
           = (after[n].ok /\ newLen - Len(after[n].new) = Len(old) - after[n].i + 1)
  BY DEF Merge
<1> HIDE DEF first, n, Turn, after
<1>3. \A k \in 0 .. n : I[k] \subseteq S
  OBVIOUS
<1>4. first \in S
  BY <1>1, <1>3
<1>5. G \in [Nat \X S -> S]
  <2> SUFFICES ASSUME NEW k \in Nat, NEW s \in S, k < n, s \in I[k] PROVE Turn(k + 1, s) \in S
    OBVIOUS
  <2>1. k + 1 \in 1 .. n /\ k + 1 \in 0 .. n /\ (k + 1) - 1 = k
    BY <1>1
  <2>2. Turn(k + 1, s) \in I[k + 1]
    BY <1>1, <2>1
  <2> QED
    BY <1>3, <2>1, <2>2
<1>6. \A k \in Nat, s \in S : G[<<k, s>>] = IF k < n /\ s \in I[k] THEN Turn(k + 1, s) ELSE s
  OBVIOUS
<1> HIDE DEF G, S
<1>7. PICK f : GoesOn(f, S, first, G)
  BY <1>4, <1>5, Recursion
<1>8. f \in [Nat -> S] /\ f[0] = first /\ \A k \in Nat : f[k + 1] = G[<<k, f[k]>>]
  BY <1>7 DEF GoesOn
<1>9. \A k \in 0 .. n : f[k] \in I[k]
  <2> DEFINE good == {k \in Nat : k <= n => f[k] \in I[k]}
  <2>1. 0 \in good
    BY <1>1, <1>8
  <2>2. ASSUME NEW k \in Nat, k \in good PROVE k + 1 \in good
    <3> SUFFICES ASSUME k + 1 <= n PROVE f[k + 1] \in I[k + 1]
      OBVIOUS
    <3>1. k < n /\ k + 1 \in 1 .. n /\ (k + 1) - 1 = k /\ k <= n
      BY <1>1
    <3>2. f[k] \in I[k] /\ f[k] \in S
      BY <1>8, <2>2, <3>1
    <3>3. f[k + 1] = Turn(k + 1, f[k])
      BY <1>6, <1>8, <3>1, <3>2
    <3> QED
      BY <1>1, <3>1, <3>2, <3>3
  <2> HIDE DEF good
  <2>3. \A k \in Nat : k \in good
    BY <2>1, <2>2, Induction
  <2> QED
    BY <1>1, <2>3 DEF good
<1>10. ASSUME NEW k \in 1 .. n PROVE f[k] = Turn(k, f[k - 1])
  <2>1. k - 1 \in Nat /\ k - 1 < n /\ (k - 1) + 1 = k /\ k - 1 \in 0 .. n
    BY <1>1
  <2>2. f[k - 1] \in I[k - 1] /\ f[k - 1] \in S
    BY <1>8, <1>9, <2>1
  <2>3. f[(k - 1) + 1] = G[<<k - 1, f[k - 1]>>]
    BY <1>8, <2>1
  <2> QED
    BY <1>6, <2>1, <2>2, <2>3
<1> DEFINE g == [k \in 0 .. n |-> f[k]]
<1>11. Is(g)
  <2>1. ASSUME NEW k \in 0 .. n, k # 0 PROVE g[k] = Turn(k, g[k - 1])
    <3>1. k \in 1 .. n /\ k - 1 \in 0 .. n
      BY <1>1, <2>1
    <3> QED
      BY <1>10, <3>1
  <2>2. 0 \in 0 .. n => g[0] = first
    BY <1>8
  <2>3. g = [k \in 0 .. n |-> g[k]]
    OBVIOUS
  <2> HIDE DEF g
  <2> QED
    BY <2>1, <2>2, <2>3
<1>12. Is(after)
  <2>1. after = CHOOSE h : Is(h)
    BY DEF after, Turn, first, n
  <2> HIDE DEF Is, g
  <2> QED
    BY <1>11, <2>1
<1>13. \A k \in 0 .. n : after[k] \in I[k]
  <2> DEFINE good == {k \in Nat : k <= n => after[k] \in I[k]}
  <2>1. 0 \in good
    BY <1>1, <1>12
  <2>2. ASSUME NEW k \in Nat, k \in good PROVE k + 1 \in good
    <3> SUFFICES ASSUME k + 1 <= n PROVE after[k + 1] \in I[k + 1]
      OBVIOUS
    <3>1. k + 1 \in 0 .. n /\ k + 1 \in 1 .. n /\ k + 1 # 0 /\ (k + 1) - 1 = k /\ k <= n
      BY <1>1
    <3>2. after[k + 1] = Turn(k + 1, after[k])
      BY <1>12, <3>1
    <3> QED
      BY <1>1, <2>2, <3>1, <3>2
  <2> HIDE DEF good, Is
  <2>3. \A k \in Nat : k \in good
    BY <2>1, <2>2, Induction
  <2> QED
    BY <1>1, <2>3 DEF good
<1>14. after[n] \in I[n]
  BY <1>1, <1>13
<1> HIDE DEF g, Is
<1>15. \E e \in I[n] :
         /\ Merge(old, reqs, u).edges = e.new \o SubSeq(old, e.i, Len(old))
         /\ Merge(old, reqs, u).ok = (e.ok /\ newLen - Len(e.new) = Len(old) - e.i + 1)
  BY <1>2, <1>14
<1> QED
  BY <1>15 DEF n, EndsIn

\* The ids of the edges of a list.
Ids(s) == {s[i].id : i \in 1 .. Len(s)}

LEMMA IdsConcat ==
  ASSUME NEW T, NEW s \in Seq(T), NEW t \in Seq(T)
  PROVE  s \o t \in Seq(T) /\ Len(s \o t) = Len(s) + Len(t) /\ Ids(s \o t) = Ids(s) \cup Ids(t)
<1> DEFINE m == Len(s)
           n == Len(t)
           r == s \o t
<1>1. /\ m \in Nat /\ n \in Nat /\ r \in Seq(T) /\ Len(r) = m + n
      /\ \A i \in 1 .. m + n : r[i] = IF i <= m THEN s[i] ELSE t[i - m]
  BY ConcatProperties
<1> HIDE DEF m, n, r
<1>2. Ids(r) \subseteq Ids(s) \cup Ids(t)
  <2> SUFFICES ASSUME NEW i \in 1 .. m + n PROVE r[i].id \in Ids(s) \cup Ids(t)
    BY <1>1 DEF Ids
  <2>1. i \in 1 .. m \/ (~ i <= m /\ i - m \in 1 .. n)
    BY <1>1
  <2> QED
    BY <1>1, <2>1 DEF Ids, m, n
<1>3. Ids(s) \subseteq Ids(r)
  <2> SUFFICES ASSUME NEW i \in 1 .. m PROVE s[i].id \in Ids(r)
    BY DEF Ids, m
  <2>1. i \in 1 .. m + n /\ i <= m
    BY <1>1
  <2>2. r[i] = s[i]
    BY <1>1, <2>1
  <2> QED
    BY <1>1, <2>1, <2>2 DEF Ids
<1>4. Ids(t) \subseteq Ids(r)
  <2> SUFFICES ASSUME NEW i \in 1 .. n PROVE t[i].id \in Ids(r)
    BY DEF Ids, n
  <2>1. m + i \in 1 .. m + n /\ ~ m + i <= m /\ (m + i) - m = i
    BY <1>1
  <2>2. r[m + i] = t[i]
    BY <1>1, <2>1
  <2> QED
    BY <1>1, <2>1, <2>2 DEF Ids
<1> QED
  BY <1>1, <1>2, <1>3, <1>4 DEF m, n, r

LEMMA IdsPart ==
  ASSUME NEW T, NEW s \in Seq(T), NEW a \in Nat \ {0}, NEW b \in Int, b >= a - 1, b <= Len(s)
  PROVE  /\ SubSeq(s, a, b) \in Seq(T) /\ Len(SubSeq(s, a, b)) = b - a + 1
         /\ Ids(SubSeq(s, a, b)) = {s[j].id : j \in a .. b}
<1> DEFINE p == SubSeq(s, a, b)
<1>1. Len(s) \in Nat /\ \A i \in a .. b : s[i] \in T
  OBVIOUS
<1>2. /\ p \in Seq(T) /\ Len(p) = b - a + 1
      /\ \A i \in 1 .. b - a + 1 : p[i] = s[a + i - 1]
  <2>1. /\ p \in Seq(T) /\ Len(p) = IF a <= b THEN b - a + 1 ELSE 0
        /\ \A i \in 1 .. b - a + 1 : p[i] = s[a + i - 1]
    BY <1>1, SubSeqProperties
  <2> HIDE DEF p
  <2> QED
    BY <2>1
<1> HIDE DEF p
<1>3. ASSUME NEW i \in 1 .. b - a + 1 PROVE p[i].id \in {s[j].id : j \in a .. b}
  <2>1. a + i - 1 \in a .. b
    OBVIOUS
  <2> QED
    BY <1>2, <2>1
<1>4. ASSUME NEW j \in a .. b PROVE s[j].id \in {p[i].id : i \in 1 .. b - a + 1}
  <2>1. j - a + 1 \in 1 .. b - a + 1 /\ a + (j - a + 1) - 1 = j
    OBVIOUS
  <2>2. p[j - a + 1] = s[j]
    BY <1>2, <2>1
  <2> QED
    BY <2>1, <2>2
<1> QED
  BY <1>2, <1>3, <1>4 DEF Ids, p

LEMMA IdsAppend ==
  ASSUME NEW T, NEW s \in Seq(T), NEW e \in T
  PROVE  /\ Append(s, e) \in Seq(T) /\ Len(Append(s, e)) = Len(s) + 1
         /\ Ids(Append(s, e)) = Ids(s) \cup {e.id}
<1> DEFINE n == Len(s)
           r == Append(s, e)
<1>1. /\ n \in Nat /\ r \in Seq(T) /\ Len(r) = n + 1
      /\ \A i \in 1 .. n : r[i] = s[i]
      /\ r[n + 1] = e
  BY AppendProperties
<1> HIDE DEF n, r
<1>2. 1 .. n + 1 = 1 .. n \cup {n + 1}
  BY <1>1
<1>3. Ids(r) = {r[i].id : i \in 1 .. n} \cup {r[n + 1].id}
  BY <1>1, <1>2 DEF Ids
<1> QED
  BY <1>1, <1>3 DEF Ids, n, r

\* The requests are r removals and then a additions.
RemovalsFirst(reqs, r, a) ==
  /\ Len(reqs) = r + a
  /\ \A k \in 1 .. r : reqs[k].op = "rmv"
  /\ \A k \in r + 1 .. r + a : reqs[k].op = "add"

LEMMA CountRequests ==
  ASSUME NEW T, NEW reqs \in Seq(T), NEW r \in Nat, NEW a \in Nat, RemovalsFirst(reqs, r, a)
  PROVE  Count(reqs, "rmv") = r /\ Count(reqs, "add") = a
<1>1. DOMAIN reqs = 1 .. r + a
  BY DEF RemovalsFirst
<1>2. {k \in DOMAIN reqs : reqs[k].op = "rmv"} = 1 .. r
  BY <1>1 DEF RemovalsFirst
<1>3. {k \in DOMAIN reqs : reqs[k].op = "add"} = r + 1 .. r + a
  BY <1>1 DEF RemovalsFirst
<1>4. Cardinality(1 .. r) = r /\ Cardinality(r + 1 .. r + a) = a
  <2>1. Cardinality(1 .. r) = IF 1 > r THEN 0 ELSE r - 1 + 1
    BY FS_Interval
  <2>2. Cardinality(r + 1 .. r + a) = IF r + 1 > r + a THEN 0 ELSE (r + a) - (r + 1) + 1
    BY FS_Interval
  <2> QED
    BY <2>1, <2>2
<1> QED
  BY <1>2, <1>3, <1>4 DEF Count

\* A turn copies the edges before the request, as far as there is room.
TurnGoes(V, old, s, r, newLen, u) ==
  LET b == Before(old, s.i, r.id, newLen - Len(s.new))
      mid == s.new \o SubSeq(old, s.i, s.i + b - 1)
  IN  /\ b \in 0 .. newLen - Len(s.new) /\ (b # 0 => s.i + b - 1 <= Len(old))
      /\ mid \in Seq([id : V, val : Val]) /\ Len(mid) = Len(s.new) + b
      /\ Ids(mid) = Ids(s.new) \cup {old[j].id : j \in s.i .. s.i + b - 1}
      /\ MergeTurn(s, r, old, newLen, u)
           = IF r.op = "rmv" THEN [new |-> mid, i |-> s.i + b + 1, ok |-> TRUE]
             ELSE [new |-> Append(mid, [id |-> r.id, val |-> r.val]),
                   i |-> s.i + b, ok |-> Len(mid) < newLen]

LEMMA TurnIs ==
  ASSUME NEW V \in SUBSET Int, NEW old \in Seq([id : V, val : Val]),
         NEW s \in [new : Seq([id : V, val : Val]), i : Nat \ {0}, ok : BOOLEAN], s.ok,
         NEW r \in [id : V, op : {"rmv", "add"}, val : Val], NEW newLen \in Int, NEW u,
         Len(s.new) <= newLen
  PROVE  TurnGoes(V, old, s, r, newLen, u)
<1> DEFINE T == [id : V, val : Val]
           room == newLen - Len(s.new)
           b == Before(old, s.i, r.id, room)
           part == SubSeq(old, s.i, s.i + b - 1)
           mid == s.new \o part
<1>1. s.new \in Seq(T) /\ old \in Seq(T) /\ s.i \in Nat \ {0} /\ r.id \in Int
      /\ T \subseteq [id : Int, val : Val] /\ Len(s.new) \in Nat
  <2>1. s.new \in Seq(T) /\ s.i \in Nat \ {0} /\ r.id \in Int /\ old \in Seq(T)
    OBVIOUS
  <2>2. T \subseteq [id : Int, val : Val]
    OBVIOUS
  <2> HIDE DEF T
  <2>3. Len(s.new) \in Nat
    BY <2>1
  <2> QED
    BY <2>1, <2>2, <2>3
<1>2. room \in Nat
  BY <1>1
<1>3. b \in 0 .. room /\ \A k \in s.i .. s.i + b - 1 : k <= Len(old)
  <2> HIDE DEF room, T
  <2>1. old \in Seq([id : Int, val : Val])
    BY <1>1, SeqMonotonic
  <2> QED
    BY <1>1, <1>2, <2>1, BeforeExists
<1> HIDE DEF T, room, b
<1>4. b # 0 => s.i + b - 1 <= Len(old)
  <2> SUFFICES ASSUME b # 0 PROVE s.i + b - 1 <= Len(old)
    OBVIOUS
  <2>1. s.i + b - 1 \in s.i .. s.i + b - 1
    BY <1>1, <1>2, <1>3
  <2> QED
    BY <1>3, <2>1
<1>5. part \in Seq(T) /\ Len(part) = b /\ Ids(part) = {old[j].id : j \in s.i .. s.i + b - 1}
  <2>1. CASE b = 0
    <3>1. s.i + b - 1 = s.i - 1
      BY <1>1, <2>1
    <3>2. part = <<>>
      <4>1. SubSeq(old, s.i, s.i - 1) = <<>>
        BY <1>1
      <4> QED
        BY <3>1, <4>1
    <3>3. s.i .. s.i + b - 1 = {}
      BY <1>1, <3>1
    <3>4. <<>> \in Seq(T) /\ Len(<<>>) = 0 /\ Ids(<<>>) = {}
      BY DEF Ids
    <3> HIDE DEF part
    <3> QED
      BY <2>1, <3>2, <3>3, <3>4
  <2>2. CASE b # 0
    <3> DEFINE from == s.i
               to == s.i + b - 1
    <3>1. to \in Int /\ to >= from - 1 /\ to - from + 1 = b /\ from \in Nat \ {0} /\ to <= Len(old)
      BY <1>1, <1>2, <1>3, <1>4, <2>2
    <3> HIDE DEF from, to
    <3>2. /\ SubSeq(old, from, to) \in Seq(T) /\ Len(SubSeq(old, from, to)) = to - from + 1
          /\ Ids(SubSeq(old, from, to)) = {old[j].id : j \in from .. to}
      BY <1>1, <3>1, IdsPart
    <3>3. to - from + 1 = b
      BY <3>1
    <3> QED
      BY <3>2, <3>3 DEF from, to
  <2> QED
    BY <2>1, <2>2
<1> HIDE DEF part
<1>6. /\ mid \in Seq(T) /\ Len(mid) = Len(s.new) + b
      /\ Ids(mid) = Ids(s.new) \cup {old[j].id : j \in s.i .. s.i + b - 1}
  <2> DEFINE x == s.new
  <2>1. x \in Seq(T) /\ part \in Seq(T) /\ Len(part) = b
    BY <1>1, <1>5
  <2> HIDE DEF x
  <2>2. x \o part \in Seq(T) /\ Len(x \o part) = Len(x) + Len(part)
        /\ Ids(x \o part) = Ids(x) \cup Ids(part)
    BY <2>1, IdsConcat
  <2> QED
    BY <1>5, <2>1, <2>2 DEF x
<1>7. MergeTurn(s, r, old, newLen, u)
        = IF r.op = "rmv" THEN [new |-> mid, i |-> s.i + b + 1, ok |-> TRUE]
          ELSE [new |-> Append(mid, [id |-> r.id, val |-> r.val]),
                i |-> s.i + b, ok |-> Len(mid) < newLen]
  <2>1. CASE r.op = "rmv"
    BY <2>1 DEF MergeTurn, mid, part, b, room
  <2>2. CASE r.op = "add"
    BY <2>2 DEF MergeTurn, mid, part, b, room
  <2> QED
    BY <2>1, <2>2
<1> QED
  BY <1>3, <1>4, <1>6, <1>7 DEF TurnGoes, T, mid, part, b, room

LEMMA MergeLength ==
  ASSUME NEW V \in SUBSET Int, NEW old \in Seq([id : V, val : Val]),
         NEW reqs \in Seq([id : V, op : {"rmv", "add"}, val : Val]),
         NEW r \in Nat, NEW a \in Nat, RemovalsFirst(reqs, r, a), NEW u
  PROVE  /\ Merge(old, reqs, u).edges \in Seq([id : V, val : Val])
         /\ Merge(old, reqs, u).ok => Len(Merge(old, reqs, u).edges) = Len(old) + a - r
<1> DEFINE T == [id : V, val : Val]
           R == [id : V, op : {"rmv", "add"}, val : Val]
           n == Len(reqs)
           len == Len(old)
           newLen == len + Count(reqs, "add") - Count(reqs, "rmv")
           S == [new : Seq(T), i : Nat \ {0}, ok : BOOLEAN]
           Fits == {s \in S : s.ok => Len(s.new) <= newLen}
           I == [k \in 0 .. n |-> Fits]
<1>1. n \in Nat /\ len \in Nat /\ newLen = len + a - r /\ newLen \in Int
  <2>1. Count(reqs, "rmv") = r /\ Count(reqs, "add") = a
    BY CountRequests
  <2> QED
    BY <2>1
<1>2. \A k \in 1 .. n : reqs[k] \in R
  <2>1. reqs \in Seq(R)
    OBVIOUS
  <2> HIDE DEF R
  <2> QED
    BY <2>1
<1>3. old \in Seq(T) /\ <<>> \in Seq(T) /\ Len(<<>>) = 0
      /\ \A x \in V, y \in Val : [id |-> x, val |-> y] \in T
  OBVIOUS
<1> HIDE DEF newLen, n, len
<1>4. [new |-> <<>>, i |-> 1, ok |-> newLen >= 0] \in I[0]
  <2> DEFINE ok == newLen >= 0
             s == [new |-> <<>>, i |-> 1, ok |-> ok]
  <2>1. ok \in BOOLEAN /\ (ok => 0 <= newLen)
    BY <1>1
  <2> HIDE DEF T, ok
  <2>2. s \in S /\ Len(s.new) = 0 /\ s.ok = ok
    BY <1>3, <2>1
  <2>3. s \in Fits
    <3> HIDE DEF s, S
    <3> QED
      BY <2>1, <2>2
  <2> QED
    BY <1>1, <2>3 DEF ok
<1>5. ASSUME NEW k \in 1 .. n, NEW s \in I[k - 1]
      PROVE  MergeTurn(s, reqs[k], old, newLen, u) \in I[k]
  <2>1. s \in Fits /\ k \in 0 .. n /\ k - 1 \in 0 .. n
    BY <1>1
  <2> SUFFICES MergeTurn(s, reqs[k], old, newLen, u) \in Fits
    BY <2>1
  <2>2. CASE ~s.ok
    BY <2>1, <2>2 DEF MergeTurn
  <2>3. CASE s.ok
    <3> DEFINE b == Before(old, s.i, reqs[k].id, newLen - Len(s.new))
               mid == s.new \o SubSeq(old, s.i, s.i + b - 1)
               e == [id |-> reqs[k].id, val |-> reqs[k].val]
    <3>1. s \in S /\ Len(s.new) <= newLen
      BY <2>1, <2>3
    <3>2. /\ b \in 0 .. newLen - Len(s.new) /\ mid \in Seq(T) /\ Len(mid) = Len(s.new) + b
          /\ MergeTurn(s, reqs[k], old, newLen, u)
                = IF reqs[k].op = "rmv" THEN [new |-> mid, i |-> s.i + b + 1, ok |-> TRUE]
                  ELSE [new |-> Append(mid, e), i |-> s.i + b, ok |-> Len(mid) < newLen]
      <4> DEFINE q == reqs[k]
      <4>1. /\ s \in [new : Seq([id : V, val : Val]), i : Nat \ {0}, ok : BOOLEAN]
            /\ q \in [id : V, op : {"rmv", "add"}, val : Val]
            /\ old \in Seq([id : V, val : Val]) /\ newLen \in Int /\ s.ok
            /\ Len(s.new) <= newLen
        BY <1>1, <1>2, <2>3, <3>1
      <4> HIDE DEF q, R, S, Fits, I
      <4>2. TurnGoes(V, old, s, q, newLen, u)
        BY <4>1, TurnIs
      <4> QED
        BY <4>2 DEF q, TurnGoes
    <3>3. e \in T
      BY <1>2, <1>3
    <3>4. s.i \in Nat \ {0} /\ Len(s.new) \in Nat
      <4>1. s.new \in Seq(T) /\ s.i \in Nat \ {0}
        BY <3>1
      <4> HIDE DEF T
      <4> QED
        BY <4>1
    <3> HIDE DEF mid, e, b, T
    <3>5. Append(mid, e) \in Seq(T) /\ Len(Append(mid, e)) = Len(mid) + 1 /\ Len(mid) \in Nat
      BY <3>2, <3>3
    <3>6. CASE reqs[k].op = "rmv"
      <4> DEFINE t == [new |-> mid, i |-> s.i + b + 1, ok |-> TRUE]
      <4>1. Len(mid) <= newLen /\ s.i + b + 1 \in Nat \ {0}
        BY <1>1, <3>2, <3>4
      <4>2. t \in S /\ Len(t.new) <= newLen
        BY <3>2, <4>1
      <4>3. MergeTurn(s, reqs[k], old, newLen, u) = t
        BY <3>2, <3>6
      <4> HIDE DEF t, S
      <4> QED
        BY <4>2, <4>3
    <3>7. CASE reqs[k].op # "rmv"
      <4> DEFINE ok == Len(mid) < newLen
                 new == Append(mid, e)
                 t == [new |-> new, i |-> s.i + b, ok |-> ok]
      <4>1. ok \in BOOLEAN /\ s.i + b \in Nat \ {0} /\ (ok => Len(new) <= newLen)
        <5>1. Len(mid) \in Nat /\ Len(new) = Len(mid) + 1
          BY <3>5
        <5>2. s.i \in Nat \ {0} /\ b \in Nat /\ newLen \in Int
          BY <1>1, <3>2, <3>4
        <5> HIDE DEF new, R, S, Fits, I
        <5> QED
          BY <5>1, <5>2
      <4>2. new \in Seq(T)
        BY <3>5
      <4>3. MergeTurn(s, reqs[k], old, newLen, u) = t
        BY <3>2, <3>7
      <4> HIDE DEF ok, new
      <4>4. t \in S /\ t.ok = ok /\ t.new = new
        BY <4>1, <4>2
      <4> HIDE DEF t, S
      <4> QED
        BY <4>1, <4>3, <4>4
    <3> QED
      BY <3>6, <3>7
  <2> QED
    BY <2>2, <2>3
<1>6. PICK e \in I[n] :
        /\ Merge(old, reqs, u).edges = e.new \o SubSeq(old, e.i, len)
        /\ Merge(old, reqs, u).ok = (e.ok /\ newLen - Len(e.new) = len - e.i + 1)
  <2>1. n = Len(reqs) /\ len = Len(old)
        /\ newLen = Len(old) + Count(reqs, "add") - Count(reqs, "rmv")
    BY DEF n, len, newLen
  <2>2. \A k \in 1 .. Len(reqs) : \A s \in I[k - 1] : MergeTurn(s, reqs[k], old, newLen, u) \in I[k]
    <3> HIDE DEF I
    <3> QED
      BY <1>5, <2>1
  <2>3. Len(reqs) \in Nat /\ [new |-> <<>>, i |-> 1, ok |-> newLen >= 0] \in I[0]
    BY <1>1, <1>4, <2>1
  <2> HIDE DEF I
  <2>4. EndsIn(I[Len(reqs)], old, reqs, u, newLen)
    BY <2>1, <2>2, <2>3, MergeRun
  <2> QED
    BY <2>1, <2>4 DEF EndsIn
<1>7. e \in Fits
  BY <1>1, <1>6
<1> DEFINE x == e.new
           i == e.i
           y == SubSeq(old, i, len)
<1>8. x \in Seq(T) /\ i \in Nat \ {0}
  BY <1>7
<1>9. y \in Seq(T) /\ Len(x) \in Nat /\ Len(y) = IF i <= len THEN len - i + 1 ELSE 0
  <2> HIDE DEF T, x, i
  <2>1. len = Len(old)
    BY DEF len
  <2>2. \A j \in i .. len : old[j] \in T
    BY <1>3, <1>8, <2>1
  <2> QED
    BY <1>1, <1>8, <2>2, SubSeqProperties
<1>10. x \o y \in Seq(T) /\ Len(x \o y) = Len(x) + Len(y)
  <2> HIDE DEF T, x, y
  <2> QED
    BY <1>8, <1>9, Concat
<1>11. ASSUME Merge(old, reqs, u).ok PROVE Len(x \o y) = newLen
  <2>1. e.ok /\ newLen - Len(x) = len - i + 1
    BY <1>6, <1>11
  <2>2. Len(x) <= newLen
    BY <1>7, <2>1
  <2> HIDE DEF x, i, y
  <2>3. i \in Int /\ Len(x) \in Int /\ newLen \in Int /\ len \in Int
    BY <1>1, <1>8, <1>9
  <2>4. Len(y) = len - i + 1
    BY <1>9, <2>1, <2>2, <2>3
  <2> QED
    BY <1>10, <2>1, <2>3, <2>4
<1> QED
  BY <1>1, <1>6, <1>10, <1>11 DEF len, T

(***************************************************************************)
(* The merge of removals of edges of the list, in the order of the list,   *)
(* and then of additions leaves exactly the ids one expects.  Without the  *)
(* order a removal deletes the edge before which it happens to come.       *)
(***************************************************************************)
Mergeable(old, reqs, r, a) ==
  /\ Ascending(old)
  /\ RemovalsFirst(reqs, r, a)
  /\ \A k, l \in 1 .. r : k < l => reqs[k].id < reqs[l].id
  /\ \A k \in 1 .. r : reqs[k].id \in Ids(old)

\* Where the edge of the k-th removal is.
At(old, reqs, k) == CHOOSE p \in 1 .. Len(old) : old[p].id = reqs[k].id
IsAt(old, reqs, k) == At(old, reqs, k) \in 1 .. Len(old) /\ old[At(old, reqs, k)].id = reqs[k].id

LEMMA RemovalPlaces ==
  ASSUME NEW V \in SUBSET Int, NEW old \in Seq([id : V, val : Val]), NEW reqs,
         NEW r \in Nat, NEW a \in Nat, Mergeable(old, reqs, r, a)
  PROVE  /\ \A k \in 1 .. r : IsAt(old, reqs, k) /\ At(old, reqs, k) <= Len(old) - (r - k)
         /\ \A k, l \in 1 .. r : k < l => At(old, reqs, k) < At(old, reqs, l)
<1> DEFINE p(k) == At(old, reqs, k)
           len == Len(old)
           T == [id : V, val : Val]
<1>1. len \in Nat /\ \A j \in 1 .. len : old[j].id \in Int
  <2>1. old \in Seq(T) /\ \A t \in T : t.id \in Int
    OBVIOUS
  <2> HIDE DEF T
  <2> QED
    BY <2>1
<1>2. \A k \in 1 .. r : p(k) \in 1 .. len /\ old[p(k)].id = reqs[k].id
  <2> TAKE k \in 1 .. r
  <2>1. PICK j \in 1 .. len : old[j].id = reqs[k].id
    BY DEF Mergeable, Ids
  <2> QED
    BY <2>1 DEF At
<1> HIDE DEF p, len
<1>3. ASSUME NEW k \in 1 .. r, NEW l \in 1 .. r, k < l PROVE p(k) < p(l)
  <2>1. reqs[k].id < reqs[l].id /\ reqs[k].id \in Int /\ reqs[l].id \in Int
    BY <1>1, <1>2, <1>3 DEF Mergeable
  <2>2. \A i, j \in 1 .. len : i < j => old[i].id < old[j].id
    BY DEF Mergeable, Ascending, len
  <2>3. p(k) # p(l)
    BY <1>2, <2>1
  <2>4. ~ p(l) < p(k)
    <3> SUFFICES ASSUME p(l) < p(k) PROVE FALSE
      OBVIOUS
    <3>1. p(l) \in 1 .. len /\ p(k) \in 1 .. len
      BY <1>2
    <3>2. old[p(l)].id < old[p(k)].id
      BY <2>2, <3>1
    <3>3. reqs[l].id < reqs[k].id
      BY <1>2, <3>2
    <3> QED
      BY <2>1, <3>3
  <2>5. p(k) \in Int /\ p(l) \in Int
    BY <1>1, <1>2
  <2> QED
    BY <2>3, <2>4, <2>5
<1>4. ASSUME NEW k \in 1 .. r PROVE p(k) <= len - (r - k)
  <2> DEFINE good == {d \in Nat : d < r => p(r - d) <= len - d}
  <2>1. 0 \in good
    <3>1. r - 0 = r /\ len - 0 = len /\ (0 < r => r \in 1 .. r)
      BY <1>1
    <3>2. 0 < r => p(r) <= len
      BY <1>1, <1>2, <3>1
    <3>3. 0 < r => p(r - 0) <= len - 0
      BY <3>1, <3>2
    <3> QED
      BY <3>3
  <2>2. ASSUME NEW d \in Nat, d \in good PROVE d + 1 \in good
    <3> SUFFICES ASSUME d + 1 < r PROVE p(r - (d + 1)) <= len - (d + 1)
      OBVIOUS
    <3>1. r - (d + 1) \in 1 .. r /\ r - d \in 1 .. r /\ r - (d + 1) < r - d /\ d < r
      OBVIOUS
    <3>2. p(r - (d + 1)) < p(r - d) /\ p(r - d) <= len - d
      BY <1>3, <2>2, <3>1
    <3>3. p(r - (d + 1)) \in Int /\ p(r - d) \in Int
      BY <1>1, <1>2, <3>1
    <3> QED
      BY <1>1, <3>2, <3>3
  <2> HIDE DEF good
  <2>3. \A d \in Nat : d \in good
    BY <2>1, <2>2, Induction
  <2>4. r - k \in Nat /\ r - k < r /\ r - (r - k) = k
    OBVIOUS
  <2>5. r - k \in good
    BY <2>3, <2>4
  <2> QED
    BY <2>4, <2>5 DEF good
<1> QED
  BY <1>2, <1>3, <1>4 DEF p, len, IsAt

IdsTo(old, i) == {old[j].id : j \in 1 .. i - 1}
Removed(reqs, r, k) == {reqs[m].id : m \in {m \in 1 .. k : m <= r}}
Added(reqs, r, k) == {reqs[m].id : m \in r + 1 .. k}

\* The states of the merge after k requests.
Midway(V, old, reqs, r, k) ==
  {s \in [new : Seq([id : V, val : Val]), i : Nat \ {0}, ok : BOOLEAN] :
     /\ s.ok /\ s.i <= Len(old) + 1
     /\ Len(s.new) = IF k <= r THEN s.i - 1 - k ELSE s.i - 1 + k - 2 * r
     /\ Ids(s.new) = (IdsTo(old, s.i) \ Removed(reqs, r, k)) \cup Added(reqs, r, k)
     /\ k <= r => s.i = IF k = 0 THEN 1 ELSE At(old, reqs, k) + 1
     /\ \A m \in 1 .. r : m <= k => At(old, reqs, m) < s.i}

\* A removal comes to its edge, and past it.
LEMMA RemovalTurn ==
  ASSUME NEW V \in SUBSET Int, NEW old \in Seq([id : V, val : Val]),
         NEW reqs \in Seq([id : V, op : {"rmv", "add"}, val : Val]),
         NEW r \in Nat, NEW a \in Nat, Mergeable(old, reqs, r, a), NEW u,
         NEW k \in 1 .. r, NEW s \in Midway(V, old, reqs, r, k - 1)
  PROVE  MergeTurn(s, reqs[k], old, Len(old) + a - r, u) \in Midway(V, old, reqs, r, k)
<1> DEFINE T == [id : V, val : Val]
           R == [id : V, op : {"rmv", "add"}, val : Val]
           S == [new : Seq(T), i : Nat \ {0}, ok : BOOLEAN]
           len == Len(old)
           newLen == len + a - r
           q == reqs[k]
           p == At(old, reqs, k)
           i == s.i
           new == s.new
           b == Before(old, i, q.id, newLen - Len(new))
           mid == new \o SubSeq(old, i, i + b - 1)
<1>1. /\ len \in Nat /\ newLen \in Int /\ \A j \in 1 .. len : old[j].id \in Int
      /\ \A j, l \in 1 .. len : j < l => old[j].id < old[l].id
  <2>1. old \in Seq(T) /\ \A t \in T : t.id \in Int
    OBVIOUS
  <2>2. len \in Nat /\ \A j \in 1 .. len : old[j].id \in Int
    <3> HIDE DEF T
    <3> QED
      BY <2>1
  <2> QED
    BY <2>2 DEF Mergeable, Ascending
<1>2. q \in R /\ q.op = "rmv"
  <2>1. reqs \in Seq(R) /\ Len(reqs) = r + a /\ q.op = "rmv"
    BY DEF Mergeable, RemovalsFirst
  <2> HIDE DEF R
  <2> QED
    BY <2>1
<1>3. /\ p \in 1 .. len /\ old[p].id = q.id /\ p <= len - (r - k)
      /\ \A m \in 1 .. r : At(old, reqs, m) \in Int
      /\ \A m \in 1 .. r : m < k => At(old, reqs, m) < p
  <2>1. /\ \A m \in 1 .. r : IsAt(old, reqs, m) /\ At(old, reqs, m) <= len - (r - m)
        /\ \A m, l \in 1 .. r : m < l => At(old, reqs, m) < At(old, reqs, l)
    BY RemovalPlaces
  <2>2. \A m \in 1 .. r : At(old, reqs, m) \in Int
    BY <1>1, <2>1 DEF IsAt
  <2> HIDE DEF len
  <2>3. p \in 1 .. len /\ old[p].id = q.id /\ p <= len - (r - k)
    BY <2>1 DEF IsAt, len
  <2> HIDE DEF p
  <2> QED
    BY <2>1, <2>2, <2>3 DEF p
<1>4. /\ s \in S /\ s.ok /\ i <= len + 1 /\ i \in Nat \ {0}
      /\ Len(new) = i - 1 - (k - 1)
      /\ Ids(new) = (IdsTo(old, i) \ Removed(reqs, r, k - 1)) \cup Added(reqs, r, k - 1)
      /\ i = IF k - 1 = 0 THEN 1 ELSE At(old, reqs, k - 1) + 1
      /\ \A m \in 1 .. r : m <= k - 1 => At(old, reqs, m) < i
  <2>1. k - 1 <= r
    OBVIOUS
  <2> QED
    BY <2>1 DEF Midway
<1>5. i <= p
  <2>1. CASE k - 1 = 0
    BY <1>3, <1>4, <2>1
  <2>2. CASE k - 1 # 0
    <3>1. k - 1 \in 1 .. r /\ k - 1 < k
      BY <2>2
    <3>2. At(old, reqs, k - 1) < p
      BY <1>3, <3>1
    <3>3. At(old, reqs, k - 1) \in Int
      BY <1>3, <3>1
    <3> QED
      BY <1>1, <1>3, <1>4, <2>2, <3>2, <3>3
  <2> QED
    BY <2>1, <2>2
<1>6. p - i \in 0 .. newLen - Len(new) /\ newLen - Len(new) \in Nat /\ Len(new) <= newLen
  <2> DEFINE l == Len(new)
  <2>1. newLen = len + a - r /\ l = i - k /\ p <= len - (r - k) /\ i <= p /\ k <= r
        /\ l \in Int /\ i \in Int /\ p \in Int /\ len \in Int /\ newLen \in Int
    BY <1>1, <1>3, <1>4, <1>5
  <2> HIDE DEF l, newLen, len, p, i
  <2>2. p - i \in 0 .. newLen - l /\ newLen - l \in Nat /\ l <= newLen
    BY <2>1
  <2> QED
    BY <2>2 DEF l
<1> HIDE DEF len, newLen, q, p, i, T, R, S
<1>7. b = p - i
  <2> DEFINE n == p - i
             room == newLen - Len(new)
  <2>1. \A j \in i .. i + n - 1 : j <= Len(old) /\ old[j].id < q.id
    <3> TAKE j \in i .. i + n - 1
    <3>1. i + n = p /\ i \in Nat \ {0} /\ p \in 1 .. len
      BY <1>1, <1>3, <1>4
    <3>2. j \in Int /\ i <= j /\ j <= p - 1
      BY <3>1
    <3>3. j \in 1 .. len /\ j < p
      BY <1>1, <3>1, <3>2
    <3> QED
      BY <1>1, <1>3, <3>3 DEF len
  <2>2. i + n = p /\ old[i + n].id >= q.id
    <3>1. i + n = p
      BY <1>1, <1>3, <1>4
    <3> QED
      BY <1>1, <1>3, <3>1
  <2>3. old \in Seq([id : Int, val : Val]) /\ q.id \in Int
    <3>1. q.id \in Int /\ T \subseteq [id : Int, val : Val] /\ old \in Seq(T)
      BY <1>2 DEF R, T
    <3> QED
      BY <3>1, SeqMonotonic
  <2>4. n \in 0 .. room /\ room \in Nat /\ i \in Nat \ {0}
    BY <1>4, <1>6
  <2> HIDE DEF n, room
  <2>5. Before(old, i, q.id, room) = n
    BY <2>1, <2>2, <2>3, <2>4, BeforeIs
  <2> QED
    BY <2>5 DEF n, room
<1>8. TurnGoes(V, old, s, q, newLen, u)
  <2>1. /\ s \in [new : Seq([id : V, val : Val]), i : Nat \ {0}, ok : BOOLEAN]
        /\ q \in [id : V, op : {"rmv", "add"}, val : Val]
        /\ newLen \in Int /\ s.ok /\ Len(s.new) <= newLen
    BY <1>1, <1>2, <1>4, <1>6 DEF R, S, T
  <2> QED
    BY <2>1, TurnIs
<1> DEFINE t == [new |-> mid, i |-> p + 1, ok |-> TRUE]
<1>9. /\ mid \in Seq(T) /\ Len(mid) = Len(new) + (p - i)
      /\ Ids(mid) = Ids(new) \cup {old[j].id : j \in i .. p - 1}
      /\ MergeTurn(s, q, old, newLen, u) = t
  <2>1. i + b + 1 = p + 1 /\ i + b - 1 = p - 1
    <3>1. b = p - i /\ i \in Int /\ p \in 1 .. len
      BY <1>3, <1>4, <1>7
    <3> HIDE DEF b
    <3> QED
      BY <1>1, <3>1
  <2>2. /\ mid \in Seq(T) /\ Len(mid) = Len(new) + b
        /\ Ids(mid) = Ids(new) \cup {old[j].id : j \in i .. i + b - 1}
        /\ MergeTurn(s, q, old, newLen, u) = [new |-> mid, i |-> i + b + 1, ok |-> TRUE]
    BY <1>2, <1>8 DEF TurnGoes, T, i
  <2> HIDE DEF mid, b
  <2> QED
    BY <1>7, <2>1, <2>2
<1> HIDE DEF mid, b, new
<1>10. Len(mid) = (p + 1) - 1 - k /\ p + 1 \in Nat \ {0} /\ p + 1 <= len + 1
  <2> DEFINE l == Len(new)
  <2>1. l = i - 1 - (k - 1) /\ Len(mid) = l + (p - i) /\ i \in Int /\ p \in 1 .. len
    BY <1>3, <1>4, <1>9
  <2> HIDE DEF l
  <2> QED
    BY <1>1, <2>1
<1>11. Ids(mid) = (IdsTo(old, p + 1) \ Removed(reqs, r, k)) \cup Added(reqs, r, k)
  <2> DEFINE X == IdsTo(old, i)
             Y == {old[j].id : j \in i .. p - 1}
             Z == Removed(reqs, r, k - 1)
             d == q.id
  <2>1. IdsTo(old, p + 1) = X \cup Y \cup {d}
    <3>1. 1 .. (p + 1) - 1 = 1 .. i - 1 \cup i .. p - 1 \cup {p}
      BY <1>1, <1>3, <1>4, <1>5
    <3> QED
      BY <1>3, <3>1 DEF IdsTo
  <2>2. Removed(reqs, r, k) = Z \cup {d}
    <3>1. {m \in 1 .. k : m <= r} = {m \in 1 .. k - 1 : m <= r} \cup {k}
      OBVIOUS
    <3> QED
      BY <3>1 DEF Removed, q
  <2>3. Added(reqs, r, k) = {} /\ Added(reqs, r, k - 1) = {}
    <3>1. r + 1 .. k = {} /\ r + 1 .. k - 1 = {}
      OBVIOUS
    <3> QED
      BY <3>1 DEF Added
  <2>4. d \notin X /\ d \notin Y
    <3>1. ASSUME NEW j \in 1 .. p - 1 PROVE old[j].id # d
      <4>1. j \in 1 .. len /\ j < p
        BY <1>1, <1>3
      <4> QED
        BY <1>1, <1>3, <4>1
    <3>2. \A j \in 1 .. i - 1 : j \in 1 .. p - 1
      BY <1>1, <1>3, <1>4, <1>5
    <3>3. \A j \in i .. p - 1 : j \in 1 .. p - 1
      BY <1>1, <1>3, <1>4, <1>5
    <3> HIDE DEF d
    <3> QED
      BY <3>1, <3>2, <3>3 DEF IdsTo
  <2>5. Y \cap Z = {}
    <3> SUFFICES ASSUME NEW j \in i .. p - 1, NEW m \in 1 .. k - 1, m <= r,
                        old[j].id = reqs[m].id
                 PROVE  FALSE
      BY DEF Removed
    <3>1. m \in 1 .. r /\ m <= k - 1
      OBVIOUS
    <3>2. At(old, reqs, m) < i /\ IsAt(old, reqs, m)
      BY <1>4, <3>1, RemovalPlaces
    <3>3. At(old, reqs, m) \in 1 .. len /\ old[At(old, reqs, m)].id = old[j].id
      BY <3>2 DEF IsAt, len
    <3>4. j \in 1 .. len /\ At(old, reqs, m) < j
      <4> DEFINE h == At(old, reqs, m)
      <4>1. h < i /\ h \in 1 .. len /\ i \in Nat \ {0} /\ p \in 1 .. len
        BY <1>3, <1>4, <3>2, <3>3
      <4> HIDE DEF h
      <4>2. j \in 1 .. len /\ h < j
        BY <1>1, <4>1
      <4> QED
        BY <4>2 DEF h
    <3> QED
      BY <1>1, <3>3, <3>4
  <2>6. Ids(mid) = (X \ Z) \cup Y
    BY <1>4, <1>9, <2>3
  <2> HIDE DEF X, Y, Z, d
  <2> QED
    BY <2>1, <2>2, <2>3, <2>4, <2>5, <2>6
<1>12. \A m \in 1 .. r : m <= k => At(old, reqs, m) < p + 1
  <2> TAKE m \in 1 .. r
  <2>1. m < k => At(old, reqs, m) < p /\ At(old, reqs, m) \in Int
    BY <1>3
  <2>2. m = k => At(old, reqs, m) = p
    BY DEF p
  <2> QED
    BY <1>1, <1>3, <2>1, <2>2
<1>13. t \in S /\ t.ok /\ t.i = p + 1 /\ t.new = mid
  BY <1>9, <1>10 DEF S
<1>14. t \in Midway(V, old, reqs, r, k)
  <2>1. k <= r /\ k # 0
    OBVIOUS
  <2> HIDE DEF t
  <2> QED
    BY <1>10, <1>11, <1>12, <1>13, <2>1 DEF Midway, S, T, len, p
<1> QED
  BY <1>9, <1>14 DEF q, newLen, len

\* An addition comes somewhere behind the last removal, and leaves room for the others.
LEMMA AdditionTurn ==
  ASSUME NEW V \in SUBSET Int, NEW old \in Seq([id : V, val : Val]),
         NEW reqs \in Seq([id : V, op : {"rmv", "add"}, val : Val]),
         NEW r \in Nat, NEW a \in Nat, Mergeable(old, reqs, r, a), NEW u,
         NEW k \in r + 1 .. r + a, NEW s \in Midway(V, old, reqs, r, k - 1)
  PROVE  MergeTurn(s, reqs[k], old, Len(old) + a - r, u) \in Midway(V, old, reqs, r, k)
<1> DEFINE T == [id : V, val : Val]
           R == [id : V, op : {"rmv", "add"}, val : Val]
           S == [new : Seq(T), i : Nat \ {0}, ok : BOOLEAN]
           len == Len(old)
           newLen == len + a - r
           q == reqs[k]
           i == s.i
           new == s.new
           b == Before(old, i, q.id, newLen - Len(new))
           mid == new \o SubSeq(old, i, i + b - 1)
           e == [id |-> q.id, val |-> q.val]
<1>1. /\ len \in Nat /\ newLen \in Int /\ \A j \in 1 .. len : old[j].id \in Int
      /\ \A j, l \in 1 .. len : j < l => old[j].id < old[l].id
  <2>1. old \in Seq(T) /\ \A t \in T : t.id \in Int
    OBVIOUS
  <2>2. len \in Nat /\ \A j \in 1 .. len : old[j].id \in Int
    <3> HIDE DEF T
    <3> QED
      BY <2>1
  <2>3. \A j, l \in 1 .. len : j < l => old[j].id < old[l].id
    BY DEF Mergeable, Ascending
  <2>4. newLen \in Int
    BY <2>2
  <2> QED
    BY <2>2, <2>3, <2>4
<1>2. q \in R /\ q.op = "add" /\ e \in T
  <2>1. reqs \in Seq(R) /\ Len(reqs) = r + a /\ q.op = "add"
    BY DEF Mergeable, RemovalsFirst
  <2>2. \A x \in R : x.id \in V /\ x.val \in Val
    OBVIOUS
  <2>3. q \in R
    <3> HIDE DEF R
    <3> QED
      BY <2>1
  <2>4. q.id \in V /\ q.val \in Val
    <3> HIDE DEF R, q
    <3> QED
      BY <2>2, <2>3
  <2> QED
    BY <2>1, <2>3, <2>4
<1>3. /\ s \in S /\ s.ok /\ i <= len + 1 /\ i \in Nat \ {0}
      /\ Len(new) = i - 1 + (k - 1) - 2 * r
      /\ Ids(new) = (IdsTo(old, i) \ Removed(reqs, r, k - 1)) \cup Added(reqs, r, k - 1)
      /\ \A m \in 1 .. r : At(old, reqs, m) < i /\ IsAt(old, reqs, m)
  <2>1. /\ s \in S /\ s.ok /\ i <= len + 1 /\ i \in Nat \ {0}
        /\ Len(new) = IF k - 1 <= r THEN i - 1 - (k - 1) ELSE i - 1 + (k - 1) - 2 * r
        /\ Ids(new) = (IdsTo(old, i) \ Removed(reqs, r, k - 1)) \cup Added(reqs, r, k - 1)
        /\ \A m \in 1 .. r : m <= k - 1 => At(old, reqs, m) < i
    BY DEF Midway
  <2>2. \A m \in 1 .. r : m <= k - 1 /\ IsAt(old, reqs, m)
    <3>1. \A m \in 1 .. r : m <= k - 1
      OBVIOUS
    <3>2. \A m \in 1 .. r : IsAt(old, reqs, m)
      BY RemovalPlaces
    <3> QED
      BY <3>1, <3>2
  <2>3. Len(new) = i - 1 + (k - 1) - 2 * r
    <3> DEFINE l == Len(new)
    <3>1. l = (IF k - 1 <= r THEN i - 1 - (k - 1) ELSE i - 1 + (k - 1) - 2 * r)
          /\ i \in Int
      BY <2>1
    <3> HIDE DEF l, i
    <3>2. l = i - 1 + (k - 1) - 2 * r
      BY <3>1
    <3> QED
      BY <3>2 DEF l
  <2> QED
    BY <2>1, <2>2, <2>3
<1>4. /\ newLen - Len(new) = (len - i + 1) + (a - (k - 1 - r)) /\ Len(new) <= newLen
      /\ a - (k - 1 - r) >= 1
  <2> DEFINE l == Len(new)
  <2>1. newLen = len + a - r /\ l = i - 1 + (k - 1) - 2 * r /\ i <= len + 1 /\ l \in Int
        /\ i \in Int /\ len \in Int
    BY <1>1, <1>3
  <2> HIDE DEF l, newLen, len, i
  <2>2. /\ newLen - l = (len - i + 1) + (a - (k - 1 - r)) /\ l <= newLen
        /\ a - (k - 1 - r) >= 1
    BY <2>1
  <2> QED
    BY <2>2 DEF l
<1> HIDE DEF len, newLen, q, i, T, R, S
<1>5. TurnGoes(V, old, s, q, newLen, u)
  <2>1. /\ s \in [new : Seq([id : V, val : Val]), i : Nat \ {0}, ok : BOOLEAN]
        /\ q \in [id : V, op : {"rmv", "add"}, val : Val]
        /\ newLen \in Int /\ s.ok /\ Len(s.new) <= newLen
    BY <1>1, <1>2, <1>3, <1>4 DEF R, S, T
  <2> QED
    BY <2>1, TurnIs
<1> DEFINE ok == Len(mid) < newLen
           t == [new |-> Append(mid, e), i |-> i + b, ok |-> ok]
<1>6. /\ b \in 0 .. newLen - Len(new) /\ (b # 0 => i + b - 1 <= len)
      /\ mid \in Seq(T) /\ Len(mid) = Len(new) + b
      /\ Ids(mid) = Ids(new) \cup {old[j].id : j \in i .. i + b - 1}
      /\ MergeTurn(s, q, old, newLen, u) = t
  BY <1>2, <1>5 DEF TurnGoes, T, i, len
<1> HIDE DEF mid, e, b
<1>7. b \in Nat /\ i + b <= len + 1 /\ i + b \in Nat \ {0} /\ ok
      /\ Len(mid) + 1 = (i + b) - 1 + k - 2 * r
  <2> DEFINE l == Len(new)
             z == Len(mid)
  <2>1. /\ l = i - 1 + (k - 1) - 2 * r /\ z = l + b /\ b \in 0 .. newLen - l
        /\ newLen - l = (len - i + 1) + (a - (k - 1 - r)) /\ a - (k - 1 - r) >= 1
        /\ l \in Int /\ i \in Nat \ {0} /\ i <= len + 1 /\ (b # 0 => i + b - 1 <= len)
    BY <1>3, <1>4, <1>6
  <2> HIDE DEF l, z, new
  <2>2. b \in Nat /\ i + b <= len + 1 /\ i + b \in Nat \ {0} /\ z < newLen
        /\ z + 1 = (i + b) - 1 + k - 2 * r
    BY <1>1, <2>1
  <2> QED
    BY <2>2 DEF z
<1> HIDE DEF new
<1>8. /\ Append(mid, e) \in Seq(T) /\ Len(Append(mid, e)) = Len(mid) + 1
      /\ Ids(Append(mid, e)) = Ids(mid) \cup {e.id}
  BY <1>2, <1>6, IdsAppend
<1>9. Ids(Append(mid, e))
        = (IdsTo(old, i + b) \ Removed(reqs, r, k)) \cup Added(reqs, r, k)
  <2> DEFINE X == IdsTo(old, i)
             Y == {old[j].id : j \in i .. i + b - 1}
             Z == Removed(reqs, r, k)
             A == Added(reqs, r, k - 1)
             d == q.id
  <2>1. IdsTo(old, i + b) = X \cup Y
    <3>1. 1 .. (i + b) - 1 = 1 .. i - 1 \cup i .. i + b - 1
      BY <1>3, <1>7
    <3> QED
      BY <3>1 DEF IdsTo
  <2>2. Removed(reqs, r, k - 1) = Z
    <3>1. {m \in 1 .. k : m <= r} = {m \in 1 .. k - 1 : m <= r}
      OBVIOUS
    <3> QED
      BY <3>1 DEF Removed
  <2>3. Added(reqs, r, k) = A \cup {d}
    <3>1. r + 1 .. k = r + 1 .. k - 1 \cup {k}
      OBVIOUS
    <3> QED
      BY <3>1 DEF Added, q
  <2>4. Y \cap Z = {}
    <3> SUFFICES ASSUME NEW j \in i .. i + b - 1, NEW m \in 1 .. k, m <= r,
                        old[j].id = reqs[m].id
                 PROVE  FALSE
      BY DEF Removed
    <3>1. m \in 1 .. r
      OBVIOUS
    <3>2. At(old, reqs, m) < i /\ At(old, reqs, m) \in 1 .. len
          /\ old[At(old, reqs, m)].id = old[j].id
      BY <1>3, <3>1 DEF IsAt, len
    <3> DEFINE h == At(old, reqs, m)
    <3>3. j \in 1 .. len /\ h < j /\ h \in 1 .. len
      <4>1. h < i /\ h \in 1 .. len /\ i \in Nat \ {0} /\ i + b <= len + 1 /\ b \in Nat
        BY <1>3, <1>7, <3>2
      <4> HIDE DEF h
      <4> QED
        BY <1>1, <4>1
    <3> QED
      BY <1>1, <3>2, <3>3
  <2>5. Ids(Append(mid, e)) = ((X \ Z) \cup A) \cup Y \cup {d}
    BY <1>3, <1>6, <1>8, <2>2 DEF e
  <2>6. \A y \in Y : y \notin Z
    BY <2>4
  <2> HIDE DEF X, Y, Z, A, d
  <2>7. ((X \ Z) \cup A) \cup Y \cup {d} = ((X \cup Y) \ Z) \cup (A \cup {d})
    BY <2>6
  <2>8. (IdsTo(old, i + b) \ Removed(reqs, r, k)) \cup Added(reqs, r, k)
          = ((X \cup Y) \ Z) \cup (A \cup {d})
    BY <2>1, <2>3 DEF Z
  <2> QED
    BY <2>5, <2>7, <2>8
<1>10. \A m \in 1 .. r : m <= k => At(old, reqs, m) < i + b
  <2> TAKE m \in 1 .. r
  <2> DEFINE h == At(old, reqs, m)
  <2>1. h < i /\ h \in 1 .. len /\ i \in Nat /\ b \in Nat
    BY <1>3, <1>7 DEF IsAt, len
  <2> HIDE DEF h
  <2>2. h < i + b
    BY <1>1, <2>1
  <2> QED
    BY <2>2 DEF h
<1>11. t \in S /\ t.ok /\ t.i = i + b /\ t.new = Append(mid, e)
  BY <1>7, <1>8 DEF S
<1>12. t \in Midway(V, old, reqs, r, k)
  <2>1. ~ k <= r
    OBVIOUS
  <2> HIDE DEF t
  <2> QED
    BY <1>7, <1>8, <1>9, <1>10, <1>11, <2>1 DEF Midway, S, T, len
<1> QED
  BY <1>6, <1>12 DEF q, newLen, len

MergedIds(old, reqs, r, a) ==
  (Ids(old) \ {reqs[k].id : k \in 1 .. r}) \cup {reqs[k].id : k \in r + 1 .. r + a}

LEMMA MergeIds ==
  ASSUME NEW V \in SUBSET Int, NEW old \in Seq([id : V, val : Val]),
         NEW reqs \in Seq([id : V, op : {"rmv", "add"}, val : Val]),
         NEW r \in Nat, NEW a \in Nat, Mergeable(old, reqs, r, a), NEW u
  PROVE  /\ Merge(old, reqs, u).ok
         /\ Ids(Merge(old, reqs, u).edges) = MergedIds(old, reqs, r, a)
<1> DEFINE T == [id : V, val : Val]
           R == [id : V, op : {"rmv", "add"}, val : Val]
           n == Len(reqs)
           len == Len(old)
           newLen == len + a - r
           I == [k \in 0 .. n |-> Midway(V, old, reqs, r, k)]
<1>1. /\ n = r + a /\ len \in Nat /\ newLen = len + Count(reqs, "add") - Count(reqs, "rmv")
      /\ newLen \in Int
  BY CountRequests DEF Mergeable, RemovalsFirst
<1>2. \A j \in 1 .. len : old[j].id \in Int
  <2>1. old \in Seq(T) /\ \A t \in T : t.id \in Int
    OBVIOUS
  <2> HIDE DEF T
  <2> QED
    BY <2>1
<1>3. \A j, l \in 1 .. len : j < l => old[j].id < old[l].id
  BY DEF Mergeable, Ascending
<1>4. r <= len
  <2>1. CASE r = 0
    BY <1>1, <2>1
  <2>2. CASE r # 0
    <3>1. 1 \in 1 .. r /\ r \in 1 .. r
      BY <2>2
    <3>2. IsAt(old, reqs, 1) /\ At(old, reqs, 1) <= len - (r - 1)
      BY <3>1, RemovalPlaces
    <3> DEFINE h == At(old, reqs, 1)
    <3>3. h \in 1 .. len /\ h <= len - (r - 1)
      BY <3>2 DEF IsAt
    <3> HIDE DEF h, len
    <3> QED
      BY <1>1, <3>3
  <2> QED
    BY <2>1, <2>2
<1> HIDE DEF newLen
<1>5. [new |-> <<>>, i |-> 1, ok |-> newLen >= 0] \in I[0]
  <2> DEFINE ok == newLen >= 0
             s == [new |-> <<>>, i |-> 1, ok |-> ok]
  <2>1. ok
    BY <1>1, <1>4 DEF newLen
  <2>2. /\ <<>> \in Seq(T) /\ Len(<<>>) = 0 /\ Ids(<<>>) = {} /\ IdsTo(old, 1) = {}
        /\ Added(reqs, r, 0) = {}
    BY DEF Ids, IdsTo, Added
  <2> HIDE DEF ok
  <2>3. s \in [new : Seq(T), i : Nat \ {0}, ok : BOOLEAN] /\ s.ok /\ s.i = 1 /\ s.new = <<>>
    BY <2>1, <2>2
  <2> HIDE DEF s
  <2>4. s \in Midway(V, old, reqs, r, 0)
    BY <1>1, <2>2, <2>3 DEF Midway
  <2>5. 0 \in 0 .. n
    BY <1>1
  <2> QED
    BY <2>4, <2>5 DEF s, ok
<1>6. ASSUME NEW k \in 1 .. n, NEW s \in I[k - 1]
      PROVE  MergeTurn(s, reqs[k], old, newLen, u) \in I[k]
  <2>1. k \in 0 .. n /\ k - 1 \in 0 .. n /\ (k \in 1 .. r \/ k \in r + 1 .. r + a)
    BY <1>1
  <2>2. s \in Midway(V, old, reqs, r, k - 1)
    BY <2>1
  <2>3. MergeTurn(s, reqs[k], old, newLen, u) \in Midway(V, old, reqs, r, k)
    BY <2>1, <2>2, RemovalTurn, AdditionTurn DEF newLen
  <2> QED
    BY <2>1, <2>3
<1>7. PICK e \in Midway(V, old, reqs, r, r + a) :
        /\ Merge(old, reqs, u).edges = e.new \o SubSeq(old, e.i, len)
        /\ Merge(old, reqs, u).ok = (e.ok /\ newLen - Len(e.new) = len - e.i + 1)
  <2>1. Len(reqs) \in Nat /\ n \in 0 .. n
    BY <1>1
  <2>2. I[n] = Midway(V, old, reqs, r, r + a)
    BY <1>1, <2>1
  <2> HIDE DEF I
  <2>3. EndsIn(I[Len(reqs)], old, reqs, u, newLen)
    BY <1>1, <1>5, <1>6, <2>1, MergeRun
  <2> QED
    BY <2>2, <2>3 DEF EndsIn
<1> DEFINE i == e.i
           new == e.new
           tail == SubSeq(old, i, len)
<1>8. /\ e.ok /\ i \in Nat \ {0} /\ i <= len + 1 /\ new \in Seq(T)
      /\ Len(new) = i - 1 + a - r
      /\ Ids(new) = (IdsTo(old, i) \ Removed(reqs, r, r + a)) \cup Added(reqs, r, r + a)
      /\ \A m \in 1 .. r : At(old, reqs, m) < i /\ IsAt(old, reqs, m)
  <2>1. /\ e.ok /\ i \in Nat \ {0} /\ i <= len + 1 /\ new \in Seq(T)
        /\ Len(new) = IF r + a <= r THEN i - 1 - (r + a) ELSE i - 1 + (r + a) - 2 * r
        /\ Ids(new) = (IdsTo(old, i) \ Removed(reqs, r, r + a)) \cup Added(reqs, r, r + a)
        /\ \A m \in 1 .. r : m <= r + a => At(old, reqs, m) < i
    BY DEF Midway
  <2>2. \A m \in 1 .. r : m <= r + a /\ IsAt(old, reqs, m)
    <3>1. \A m \in 1 .. r : m <= r + a
      OBVIOUS
    <3>2. \A m \in 1 .. r : IsAt(old, reqs, m)
      BY RemovalPlaces
    <3> QED
      BY <3>1, <3>2
  <2>3. Len(new) = i - 1 + a - r
    <3> DEFINE l == Len(new)
    <3>1. l = (IF r + a <= r THEN i - 1 - (r + a) ELSE i - 1 + (r + a) - 2 * r) /\ i \in Int
      BY <2>1
    <3> HIDE DEF l, i
    <3>2. l = i - 1 + a - r
      BY <3>1
    <3> QED
      BY <3>2 DEF l
  <2> QED
    BY <2>1, <2>2, <2>3
<1>9. newLen - Len(new) = len - i + 1
  <2> DEFINE l == Len(new)
  <2>1. l = i - 1 + a - r /\ i \in Int /\ len \in Int /\ newLen = len + a - r
    BY <1>1, <1>8 DEF newLen
  <2> HIDE DEF l, i, len, newLen
  <2>2. newLen - l = len - i + 1
    BY <2>1
  <2> QED
    BY <2>2 DEF l
<1>10. tail \in Seq(T) /\ Ids(tail) = {old[j].id : j \in i .. len}
  <2>1. len \in Int /\ len >= i - 1 /\ len <= Len(old)
    BY <1>1, <1>8
  <2> HIDE DEF T, i, len
  <2>2. old \in Seq(T)
    BY DEF T
  <2> QED
    BY <1>8, <2>1, <2>2, IdsPart
<1> HIDE DEF tail, new, i, T
<1>11. Ids(new \o tail) = Ids(new) \cup Ids(tail)
  BY <1>8, <1>10, IdsConcat
<1>12. Ids(new \o tail) = (Ids(old) \ Removed(reqs, r, r + a)) \cup Added(reqs, r, r + a)
  <2> DEFINE X == IdsTo(old, i)
             Y == {old[j].id : j \in i .. len}
             Z == Removed(reqs, r, r + a)
             A == Added(reqs, r, r + a)
  <2>1. Ids(old) = X \cup Y
    <3>1. 1 .. len = 1 .. i - 1 \cup i .. len
      BY <1>1, <1>8
    <3> QED
      BY <3>1 DEF Ids, IdsTo, len
  <2>2. Y \cap Z = {}
    <3> SUFFICES ASSUME NEW j \in i .. len, NEW m \in 1 .. r + a, m <= r,
                        old[j].id = reqs[m].id
                 PROVE  FALSE
      BY DEF Removed
    <3> DEFINE h == At(old, reqs, m)
    <3>1. m \in 1 .. r
      OBVIOUS
    <3>2. h < i /\ h \in 1 .. len /\ old[h].id = old[j].id
      BY <1>8, <3>1 DEF IsAt
    <3>3. j \in 1 .. len /\ h < j /\ h \in 1 .. len
      <4>1. h < i /\ h \in 1 .. len /\ i \in Nat \ {0}
        BY <1>8, <3>2
      <4> HIDE DEF h, len
      <4> QED
        BY <1>1, <4>1
    <3> HIDE DEF h, len
    <3> QED
      BY <1>2, <1>3, <3>2, <3>3
  <2>3. Ids(new \o tail) = ((X \ Z) \cup A) \cup Y
    BY <1>8, <1>10, <1>11
  <2>4. \A y \in Y : y \notin Z
    BY <2>2
  <2> HIDE DEF X, Y, Z, A
  <2>5. ((X \ Z) \cup A) \cup Y = ((X \cup Y) \ Z) \cup A
    BY <2>4
  <2> QED
    BY <2>1, <2>3, <2>5 DEF Z, A
<1>13. Removed(reqs, r, r + a) = {reqs[k].id : k \in 1 .. r}
  <2>1. {m \in 1 .. r + a : m <= r} = 1 .. r
    OBVIOUS
  <2> QED
    BY <2>1 DEF Removed
<1> QED
  BY <1>7, <1>8, <1>9, <1>12, <1>13 DEF Added, MergedIds, tail, new, i

-----------------------------------------------------------------------------
(* What a superstep does to the in edges. *)
\* The vertices of C have replaced their lists, and the others nothing.
Parts(out, new, reqsOf, C) ==
  /\ \A u \in Vertex : u \notin C => reqsOf[u] = <<>> /\ new[u] = out[u]
  /\ \A u \in Vertex : u \in C => Replaces(out[u], 0, new[u], reqsOf[u])

\* v gets the removals of its sources in C, and additions from those in C that come to be.
LEMMA InRequestsAre ==
  ASSUME ListsApart, NEW out \in [Vertex -> EdgeLists], NEW new \in [Vertex -> EdgeLists],
         NEW reqsOf \in [Vertex -> Seq(Request)], NEW C, NEW v \in Vertex,
         Parts(out, new, reqsOf, C)
  PROVE  /\ Arrived(v, "rmv", reqsOf) \in Seq([id : Vertex, op : {"rmv"}, val : Val])
         /\ Lists(Arrived(v, "rmv", reqsOf), Sources(out, v) \cap C)
         /\ Arrived(v, "add", reqsOf) \in Seq([id : Vertex, op : {"add"}, val : Val])
         /\ Lists(Arrived(v, "add", reqsOf), Sources(new, v) \cap C)
         /\ Arrived(v, "mod", reqsOf) = <<>>
<1>1. \A op : For(<<>>, v, op) = {}
  BY DEF For
<1>2. \A u \in Vertex : u \in C =>
        /\ \A i, j \in For(reqsOf[u], v, "rmv") : i = j
        /\ For(reqsOf[u], v, "rmv") # {} <=> u \in Sources(out, v)
        /\ \A i, j \in For(reqsOf[u], v, "add") : i = j
        /\ For(reqsOf[u], v, "add") # {} <=> u \in Sources(new, v)
        /\ For(reqsOf[u], v, "mod") = {}
  <2> SUFFICES ASSUME NEW u \in Vertex, u \in C
               PROVE  /\ \A i, j \in For(reqsOf[u], v, "rmv") : i = j
                      /\ For(reqsOf[u], v, "rmv") # {} <=> u \in Sources(out, v)
                      /\ \A i, j \in For(reqsOf[u], v, "add") : i = j
                      /\ For(reqsOf[u], v, "add") # {} <=> u \in Sources(new, v)
                      /\ For(reqsOf[u], v, "mod") = {}
    OBVIOUS
  <2>1. Replaces(out[u], 0, new[u], reqsOf[u]) /\ reqsOf[u] \in Seq(Request)
    BY DEF Parts
  <2> QED
    BY <2>1, ForReplacing
<1>3. \A u \in Vertex : u \notin C => \A op : For(reqsOf[u], v, op) = {}
  BY <1>1 DEF Parts
<1>6. \A u \in Vertex : /\ \A i, j \in For(reqsOf[u], v, "rmv") : i = j
                        /\ \A i, j \in For(reqsOf[u], v, "add") : i = j
                        /\ \A i, j \in For(reqsOf[u], v, "mod") : i = j
  BY <1>2, <1>3
<1>7. {u \in Vertex : For(reqsOf[u], v, "rmv") # {}} = Sources(out, v) \cap C
  BY <1>2, <1>3 DEF Sources
<1>8. {u \in Vertex : For(reqsOf[u], v, "add") # {}} = Sources(new, v) \cap C
  BY <1>2, <1>3 DEF Sources
<1>9. {u \in Vertex : For(reqsOf[u], v, "mod") # {}} = {}
  BY <1>2, <1>3
<1>10. /\ Arrived(v, "rmv", reqsOf) \in Seq([id : Vertex, op : {"rmv"}, val : Val])
       /\ Lists(Arrived(v, "rmv", reqsOf), Sources(out, v) \cap C)
  <2>1. \A u \in Vertex : \A i, j \in For(reqsOf[u], v, "rmv") : i = j
    BY <1>6
  <2>2. /\ Arrived(v, "rmv", reqsOf) \in Seq([id : Vertex, op : {"rmv"}, val : Val])
        /\ Lists(Arrived(v, "rmv", reqsOf), {u \in Vertex : For(reqsOf[u], v, "rmv") # {}})
    BY <2>1, ArrivedLists
  <2> QED
    BY <1>7, <2>2
<1>11. /\ Arrived(v, "add", reqsOf) \in Seq([id : Vertex, op : {"add"}, val : Val])
       /\ Lists(Arrived(v, "add", reqsOf), Sources(new, v) \cap C)
  <2>1. \A u \in Vertex : \A i, j \in For(reqsOf[u], v, "add") : i = j
    BY <1>6
  <2>2. /\ Arrived(v, "add", reqsOf) \in Seq([id : Vertex, op : {"add"}, val : Val])
        /\ Lists(Arrived(v, "add", reqsOf), {u \in Vertex : For(reqsOf[u], v, "add") # {}})
    BY <2>1, ArrivedLists
  <2> QED
    BY <1>8, <2>2
<1>12. Arrived(v, "mod", reqsOf) = <<>>
  <2> DEFINE s == Arrived(v, "mod", reqsOf)
             T == [id : Vertex, op : {"mod"}, val : Val]
  <2>1. s \in Seq(T) /\ Lists(s, {})
    <3>1. \A u \in Vertex : \A i, j \in For(reqsOf[u], v, "mod") : i = j
      BY <1>6
    <3>2. s \in Seq(T) /\ Lists(s, {u \in Vertex : For(reqsOf[u], v, "mod") # {}})
      BY <3>1, ArrivedLists
    <3> QED
      BY <1>9, <3>2
  <2> HIDE DEF s, T
  <2>2. {s[i].id : i \in 1 .. Len(s)} = {}
    BY <2>1 DEF Lists
  <2>3. \A i \in 1 .. Len(s) : FALSE
    BY <2>2
  <2>4. Len(s) \in Nat
    BY <2>1
  <2>5. Len(s) = 0
    BY <2>3, <2>4
  <2>6. s = <<>>
    BY <2>1, <2>5
  <2> QED
    BY <2>6 DEF s
<1> QED
  BY <1>10, <1>11, <1>12

LEMMA ListsLength ==
  ASSUME NEW T, NEW s \in Seq(T), \A e \in T : e.id \in Int, NEW S, Lists(s, S)
  PROVE  IsFiniteSet(S) /\ Len(s) = Cardinality(S)
<1> DEFINE n == Len(s)
           f == [i \in 1 .. n |-> s[i].id]
<1>1. n \in Nat /\ \A i \in 1 .. n : s[i] \in T
  OBVIOUS
<1>2. \A i \in 1 .. n : s[i].id \in Int
  BY <1>1
<1> HIDE DEF n
<1>3. f \in Bijection(1 .. n, S)
  <2>1. f \in [1 .. n -> S] /\ \A e \in S : \E i \in 1 .. n : f[i] = e
    BY DEF Lists, n
  <2>2. ASSUME NEW i \in 1 .. n, NEW j \in 1 .. n, f[i] = f[j] PROVE i = j
    <3>1. ~ i < j /\ ~ j < i
      BY <1>2, <2>2 DEF Lists, n
    <3> QED
      BY <1>1, <3>1
  <2> QED
    BY <2>1, <2>2 DEF Bijection, Injection, Surjection, IsInjective
<1>4. IsFiniteSet(1 .. n) /\ Cardinality(1 .. n) = n
  BY <1>1, FS_Interval
<1> QED
  BY <1>3, <1>4, FS_Bijection DEF ExistsBijection, n

\* The requests that come to v: a removal of every old edge from C, in their order, and
\* an addition of every new one.
ComeTo(reqs, old, new, r, a) ==
  /\ RemovalsFirst(reqs, r, a) /\ reqs \in Seq([id : Vertex, op : {"rmv", "add"}, val : Val])
  /\ r = Cardinality(old) /\ a = Cardinality(new)
  /\ {reqs[k].id : k \in 1 .. r} = old /\ {reqs[k].id : k \in r + 1 .. r + a} = new
  /\ \A k, l \in 1 .. r : k < l => reqs[k].id < reqs[l].id

LEMMA InRequestsComeTo ==
  ASSUME ListsApart, NEW out \in [Vertex -> EdgeLists], NEW new \in [Vertex -> EdgeLists],
         NEW reqsOf \in [Vertex -> Seq(Request)], NEW C, NEW v \in Vertex,
         Parts(out, new, reqsOf, C)
  PROVE  \E r, a \in Nat : ComeTo(InRequests(v, reqsOf), Sources(out, v) \cap C,
                                  Sources(new, v) \cap C, r, a)
<1> DEFINE R == [id : Vertex, op : {"rmv", "add"}, val : Val]
           X == [id : Vertex, op : {"rmv"}, val : Val]
           Y == [id : Vertex, op : {"add"}, val : Val]
           rmv == Arrived(v, "rmv", reqsOf)
           add == Arrived(v, "add", reqsOf)
           r == Len(rmv)
           a == Len(add)
           reqs == rmv \o add
           S == Sources(out, v) \cap C
           N == Sources(new, v) \cap C
<1>1. /\ rmv \in Seq(X) /\ Lists(rmv, S) /\ add \in Seq(Y) /\ Lists(add, N)
      /\ Arrived(v, "mod", reqsOf) = <<>>
  BY InRequestsAre
<1>2. /\ \A e \in X : e.id \in Int /\ e.op = "rmv"
      /\ \A e \in Y : e.id \in Int /\ e.op = "add"
      /\ X \subseteq R /\ Y \subseteq R
  BY Vertices
<1> HIDE DEF rmv, add, S, N, R, X, Y
<1>3. r = Cardinality(S) /\ a = Cardinality(N)
  BY <1>1, <1>2, ListsLength
<1>4. rmv \in Seq(R) /\ add \in Seq(R) /\ r \in Nat /\ a \in Nat
  <2>1. r \in Nat /\ a \in Nat
    BY <1>1
  <2> QED
    BY <1>1, <1>2, <2>1, SeqMonotonic
<1>5. /\ reqs \in Seq(R) /\ Len(reqs) = r + a
      /\ \A k \in 1 .. r + a : reqs[k] = IF k <= r THEN rmv[k] ELSE add[k - r]
  BY <1>4, ConcatProperties
<1>6. InRequests(v, reqsOf) = reqs
  <2>1. reqs \o <<>> = reqs
    <3> HIDE DEF reqs
    <3> QED
      BY <1>5, Concat
  <2>2. InRequests(v, reqsOf) = reqs \o Arrived(v, "mod", reqsOf)
    BY DEF InRequests, rmv, add
  <2> QED
    BY <1>1, <2>1, <2>2
<1> HIDE DEF r, a, reqs
<1>7. \A k \in 1 .. r : reqs[k] = rmv[k]
  <2> TAKE k \in 1 .. r
  <2>1. k \in 1 .. r + a /\ k <= r
    BY <1>4
  <2> QED
    BY <1>5, <2>1
<1>8. \A k \in r + 1 .. r + a : reqs[k] = add[k - r] /\ k - r \in 1 .. a
  <2> TAKE k \in r + 1 .. r + a
  <2>1. k \in 1 .. r + a /\ ~ k <= r /\ k - r \in 1 .. a
    BY <1>4
  <2> QED
    BY <1>5, <2>1
<1>9. (\A k \in 1 .. r : rmv[k].op = "rmv") /\ \A k \in 1 .. a : add[k].op = "add"
  <2>1. (\A k \in 1 .. r : rmv[k] \in X) /\ \A k \in 1 .. a : add[k] \in Y
    BY <1>1 DEF r, a
  <2> QED
    BY <1>2, <2>1
<1>10. RemovalsFirst(reqs, r, a)
  BY <1>5, <1>7, <1>8, <1>9 DEF RemovalsFirst
<1>11. {reqs[k].id : k \in 1 .. r} = S
  <2>1. {rmv[k].id : k \in 1 .. r} = S
    BY <1>1 DEF Lists, r
  <2> QED
    BY <1>7, <2>1
<1>12. {reqs[k].id : k \in r + 1 .. r + a} = N
  <2>1. {add[k].id : k \in 1 .. a} = N
    BY <1>1 DEF Lists, a
  <2>2. \A k \in 1 .. a : r + k \in r + 1 .. r + a /\ (r + k) - r = k
    BY <1>4
  <2>3. \A k \in 1 .. a : reqs[r + k] = add[k]
    BY <1>8, <2>2
  <2>4. \A x \in N : \E k \in r + 1 .. r + a : reqs[k].id = x
    <3> TAKE x \in N
    <3>1. PICK k \in 1 .. a : add[k].id = x
      BY <2>1
    <3> QED
      BY <2>2, <2>3, <3>1
  <2>5. \A k \in r + 1 .. r + a : reqs[k].id \in N
    BY <1>8, <2>1
  <2> QED
    BY <2>4, <2>5
<1>13. \A k, l \in 1 .. r : k < l => reqs[k].id < reqs[l].id
  BY <1>1, <1>7 DEF Lists, r
<1>14. ComeTo(reqs, S, N, r, a)
  BY <1>3, <1>5, <1>10, <1>11, <1>12, <1>13 DEF ComeTo, R
<1> QED
  BY <1>4, <1>6, <1>14 DEF S, N

Replaced(out, new, reqsOf, C) ==
  /\ out \in [Vertex -> EdgeLists] /\ new \in [Vertex -> EdgeLists]
  /\ reqsOf \in [Vertex -> Seq(Request)] /\ Parts(out, new, reqsOf, C)

ManyAs(list, out, v) == Len(list) = Cardinality(Sources(out, v))
Of(list, out, v) == Ids(list) = Sources(out, v)

\* A merge that does not fail keeps the number of in edges that of the sources.
LEMMA InLength ==
  ASSUME ListsApart, NEW out, NEW new, NEW reqsOf, NEW C,
         Replaced(out, new, reqsOf, C), NEW v \in Vertex, NEW u,
         NEW old \in Seq([id : Vertex, val : Val]), Len(old) = Cardinality(Sources(out, v)),
         Merge(old, InRequests(v, reqsOf), u).ok
  PROVE  /\ Merge(old, InRequests(v, reqsOf), u).edges \in Seq([id : Vertex, val : Val])
         /\ ManyAs(Merge(old, InRequests(v, reqsOf), u).edges, new, v)
<1> DEFINE reqs == InRequests(v, reqsOf)
           S == Sources(out, v)
           N == Sources(new, v)
<1>1. PICK r \in Nat, a \in Nat : ComeTo(reqs, S \cap C, N \cap C, r, a)
  BY InRequestsComeTo DEF Replaced
<1> HIDE DEF reqs
<1>2. /\ Merge(old, reqs, u).edges \in Seq([id : Vertex, val : Val])
      /\ Merge(old, reqs, u).ok => Len(Merge(old, reqs, u).edges) = Len(old) + a - r
  <2>1. Vertex \in SUBSET Int
    BY Vertices
  <2>2. reqs \in Seq([id : Vertex, op : {"rmv", "add"}, val : Val]) /\ RemovalsFirst(reqs, r, a)
    BY <1>1 DEF ComeTo
  <2> QED
    BY <2>1, <2>2, MergeLength
<1>3. S \ C = N \ C
  BY DEF Replaced, Parts, S, N, Sources
<1>4. IsFiniteSet(S) /\ IsFiniteSet(N)
  <2>1. IsFiniteSet(Vertex) /\ S \subseteq Vertex /\ N \subseteq Vertex
    BY EdgeAssumption DEF S, N, Sources
  <2> QED
    BY <2>1, FS_Subset
<1> HIDE DEF S, N
<1>5. ASSUME NEW X, IsFiniteSet(X)
      PROVE  /\ Cardinality(X) = Cardinality(X \cap C) + Cardinality(X \ C)
             /\ Cardinality(X \cap C) \in Nat /\ Cardinality(X \ C) \in Nat
  <2>1. IsFiniteSet(X \cap C) /\ IsFiniteSet(X \ C)
    BY <1>5, FS_Subset
  <2>2. Cardinality((X \cap C) \cup (X \ C))
          = Cardinality(X \cap C) + Cardinality(X \ C) - Cardinality((X \cap C) \cap (X \ C))
    BY <2>1, FS_Union
  <2>3. (X \cap C) \cup (X \ C) = X /\ (X \cap C) \cap (X \ C) = {}
    OBVIOUS
  <2>4. Cardinality({}) = 0 /\ Cardinality(X \cap C) \in Nat /\ Cardinality(X \ C) \in Nat
    BY <2>1, FS_EmptySet, FS_CardinalityType
  <2>5. Cardinality(X) = Cardinality(X \cap C) + Cardinality(X \ C) - 0
    BY <2>2, <2>3, <2>4
  <2> QED
    BY <2>4, <2>5
<1>6. Cardinality(S) + a - r = Cardinality(N)
  <2>1. r = Cardinality(S \cap C) /\ a = Cardinality(N \cap C)
    BY <1>1 DEF ComeTo
  <2>2. /\ Cardinality(S) = Cardinality(S \cap C) + Cardinality(S \ C)
        /\ Cardinality(S \cap C) \in Nat /\ Cardinality(S \ C) \in Nat
    BY <1>4, <1>5
  <2>3. /\ Cardinality(N) = Cardinality(N \cap C) + Cardinality(N \ C)
        /\ Cardinality(N \cap C) \in Nat
    BY <1>4, <1>5
  <2>4. Cardinality(S \ C) = Cardinality(N \ C)
    BY <1>3
  <2> QED
    BY <2>1, <2>2, <2>3, <2>4
<1> QED
  BY <1>2, <1>6 DEF ManyAs, reqs, S, N

\* If the in edges of v ascend and are its sources, then the merge does not fail, and they
\* are its new sources.
LEMMA InIds ==
  ASSUME ListsApart, NEW out, NEW new, NEW reqsOf, NEW C,
         Replaced(out, new, reqsOf, C), NEW v \in Vertex, NEW u,
         NEW old \in Seq([id : Vertex, val : Val]), Ascending(old), Ids(old) = Sources(out, v)
  PROVE  /\ Merge(old, InRequests(v, reqsOf), u).ok
         /\ Of(Merge(old, InRequests(v, reqsOf), u).edges, new, v)
<1> DEFINE reqs == InRequests(v, reqsOf)
           S == Sources(out, v)
           N == Sources(new, v)
<1>1. PICK r \in Nat, a \in Nat : ComeTo(reqs, S \cap C, N \cap C, r, a)
  BY InRequestsComeTo DEF Replaced
<1> HIDE DEF reqs
<1>2. Mergeable(old, reqs, r, a)
  <2>1. \A k \in 1 .. r : reqs[k].id \in S \cap C
    BY <1>1 DEF ComeTo
  <2> QED
    BY <1>1, <2>1 DEF Mergeable, ComeTo
<1>3. /\ Merge(old, reqs, u).ok
      /\ Ids(Merge(old, reqs, u).edges) = MergedIds(old, reqs, r, a)
  <2>1. Vertex \in SUBSET Int
    BY Vertices
  <2>2. reqs \in Seq([id : Vertex, op : {"rmv", "add"}, val : Val])
    BY <1>1 DEF ComeTo
  <2> QED
    BY <1>2, <2>1, <2>2, MergeIds
<1>4. Ids(Merge(old, reqs, u).edges) = (S \ (S \cap C)) \cup (N \cap C)
  BY <1>1, <1>3 DEF ComeTo, MergedIds
<1>5. S \ C = N \ C
  BY DEF Replaced, Parts, S, N, Sources
<1> HIDE DEF S, N
<1>6. (S \ (S \cap C)) \cup (N \cap C) = N
  BY <1>5
<1> QED
  BY <1>3, <1>4, <1>6 DEF Of, reqs, N

-----------------------------------------------------------------------------
(* The end of a superstep, of any threads and idle vertices. *)
\* The lists of the vertices that asked for one become it, and those of the others stay.
LEMMA SuperstepParts ==
  ASSUME ListsApart, Finished, NEW u, NEW reqsOf, NEW new,
         reqsOf = [v \in Vertex |-> Optimized(outEdge[v], ReqsOf(v))],
         new = [v \in Vertex |-> UpdatedOut(reqsOf, u)[v].edges]
  PROVE  /\ new \in [Vertex -> EdgeLists] /\ reqsOf \in [Vertex -> Seq(Request)]
         /\ \A v \in Vertex : UpdatedOut(reqsOf, u)[v].ok
         /\ Parts(outEdge, new, reqsOf, {v \in Vertex : reqsOf[v] # <<>>})
<1>1. outEdge \in [Vertex -> EdgeLists]
  BY DEF Finished, ReplaceInv, Types
<1>2. ASSUME NEW v \in Vertex
      PROVE  /\ reqsOf[v] = ReqsOf(v) /\ UpdatedOut(reqsOf, u)[v] = Merge(outEdge[v], ReqsOf(v), u)
             /\ new[v] = Merge(outEdge[v], ReqsOf(v), u).edges
             /\ reqsOf[v] \in Seq(Request) /\ new[v] \in EdgeLists
             /\ UpdatedOut(reqsOf, u)[v].ok
  <2>1. reqsOf[v] = ReqsOf(v)
    BY OutUpdated
  <2>2. UpdatedOut(reqsOf, u)[v] = Merge(outEdge[v], ReqsOf(v), u)
    BY <2>1 DEF UpdatedOut
  <2> QED
    BY <2>1, <2>2, OutUpdated, FinishedRequests
<1>3. ASSUME NEW v \in Vertex, reqsOf[v] = <<>> PROVE new[v] = outEdge[v]
  <2>1. outEdge[v] \in Seq([id : Int, val : Val])
    BY <1>1, EdgeListsAre
  <2>2. Merge(outEdge[v], <<>>, u) = [edges |-> outEdge[v], ok |-> TRUE]
    BY <2>1, MergeNone
  <2> QED
    BY <1>2, <1>3, <2>2
<1>4. ASSUME NEW v \in Vertex, reqsOf[v] # <<>> PROVE Replaces(outEdge[v], 0, new[v], reqsOf[v])
  <2> DEFINE reqs == ReqsOf(v)
  <2>1. reqs \in Seq(Request) /\ Asked(v, reqs)
    BY <1>2, <1>4, FinishedRequests DEF Silent
  <2> HIDE DEF reqs
  <2>2. PICK list \in NewEdges \cup {<<>>} : Replaces(outEdge[v], 0, list, reqs)
    BY <2>1 DEF Asked
  <2>3. Merge(outEdge[v], reqs, u) = [edges |-> list, ok |-> TRUE]
    BY <1>1, <2>1, <2>2, MergeAsked
  <2>4. new[v] = list /\ reqsOf[v] = reqs
    BY <1>2, <2>3 DEF reqs
  <2> QED
    BY <2>2, <2>4
<1>5. new \in [Vertex -> EdgeLists] /\ reqsOf \in [Vertex -> Seq(Request)]
  BY <1>2
<1> QED
  BY <1>2, <1>3, <1>4, <1>5 DEF Parts

Changes == \E f \in Thread : changedUntilNow[f]
InMerge(v, reqsOf, u) == Merge(inEdge[v], InRequests(v, reqsOf), u)

\* The ends are in order, and nothing can fail but a merge of in edges.
Merges(new, reqsOf, C, u) ==
  /\ Changes /\ OffsetsOrdered
  /\ new \in [Vertex -> EdgeLists] /\ reqsOf \in [Vertex -> Seq(Request)]
  /\ Parts(outEdge, new, reqsOf, C)
  /\ \/ failed' /\ \E v \in Vertex : ~InMerge(v, reqsOf, u).ok
     \/ /\ ~failed' /\ outEdge' = new
        /\ inEdge' = [v \in Vertex |-> InMerge(v, reqsOf, u).edges]
        /\ \A v \in Vertex : InMerge(v, reqsOf, u).ok

LEMMA SuperstepIs ==
  ASSUME ListsApart, ReplaceInv, Replacing, EndSuperstep
  PROVE  \/ ~Changes /\ ~failed' /\ UNCHANGED <<outEdge, inEdge>>
         \/ Changes /\ ~OffsetsOrdered /\ failed'
         \/ \E new, reqsOf, C, u : Merges(new, reqsOf, C, u)
<1> DEFINE reqsOf == [v \in Vertex |-> Optimized(outEdge[v], ReqsOf(v))]
<1>1. ~failed /\ cur \notin Vertex
  BY DEF EndSuperstep
<1>2. PICK u \in Unwritten :
        LET out == UpdatedOut(reqsOf, u)
            in == UpdatedIn(reqsOf, u)
        IN IF Changes /\ (~OffsetsOrdered \/ \E v \in Vertex : ~out[v].ok \/ ~in[v].ok)
           THEN failed' = TRUE /\ UNCHANGED <<outEdge, inEdge>>
           ELSE /\ outEdge' = IF Changes THEN [v \in Vertex |-> out[v].edges] ELSE outEdge
                /\ inEdge' = IF Changes THEN [v \in Vertex |-> in[v].edges] ELSE inEdge
                /\ UNCHANGED failed
  BY DEF EndSuperstep, Changes
<1> DEFINE new == [v \in Vertex |-> UpdatedOut(reqsOf, u)[v].edges]
<1> HIDE DEF reqsOf
<1>3. CASE ~Changes
  BY <1>1, <1>2, <1>3
<1>4. CASE Changes /\ ~OffsetsOrdered
  BY <1>2, <1>4
<1>5. CASE Changes /\ OffsetsOrdered
  <2>1. Finished
    BY <1>1, <1>5 DEF Finished
  <2> DEFINE C == {v \in Vertex : reqsOf[v] # <<>>}
  <2>2. /\ new \in [Vertex -> EdgeLists] /\ reqsOf \in [Vertex -> Seq(Request)]
        /\ \A v \in Vertex : UpdatedOut(reqsOf, u)[v].ok
        /\ Parts(outEdge, new, reqsOf, C)
    <3> DEFINE f == new
    <3>1. f = [v \in Vertex |-> UpdatedOut(reqsOf, u)[v].edges]
          /\ reqsOf = [v \in Vertex |-> Optimized(outEdge[v], ReqsOf(v))]
      BY DEF reqsOf
    <3> HIDE DEF f
    <3> QED
      BY <2>1, <3>1, SuperstepParts DEF f
  <2>3. \A v \in Vertex : UpdatedIn(reqsOf, u)[v] = InMerge(v, reqsOf, u)
    BY DEF UpdatedIn, InMerge
  <2>4. IF \E v \in Vertex : ~InMerge(v, reqsOf, u).ok
        THEN failed' = TRUE
        ELSE /\ outEdge' = new /\ failed' = failed
             /\ inEdge' = [v \in Vertex |-> InMerge(v, reqsOf, u).edges]
    <3> HIDE DEF C
    <3>1. IF \E v \in Vertex : ~UpdatedOut(reqsOf, u)[v].ok \/ ~UpdatedIn(reqsOf, u)[v].ok
          THEN failed' = TRUE
          ELSE /\ outEdge' = new /\ failed' = failed
               /\ inEdge' = [v \in Vertex |-> UpdatedIn(reqsOf, u)[v].edges]
      BY <1>2, <1>5
    <3>2. (\E v \in Vertex : ~UpdatedOut(reqsOf, u)[v].ok \/ ~UpdatedIn(reqsOf, u)[v].ok)
            <=> \E v \in Vertex : ~InMerge(v, reqsOf, u).ok
      BY <2>2, <2>3
    <3>3. [v \in Vertex |-> UpdatedIn(reqsOf, u)[v].edges]
            = [v \in Vertex |-> InMerge(v, reqsOf, u).edges]
      BY <2>3
    <3> HIDE DEF new
    <3> QED
      BY <3>1, <3>2, <3>3
  <2> HIDE DEF new, C
  <2>5. Merges(new, reqsOf, C, u)
    BY <1>1, <1>5, <2>2, <2>4 DEF Merges
  <2> QED
    BY <2>5
<1> QED
  BY <1>3, <1>4, <1>5

\* An end comes before its start only if it was never written: its vertex is idle behind
\* one that changed edges.
Upward == \A v \in 0 .. cur - 1 : ends[v] = 0 \/ start(v) <= ends[v]

InDegrees ==
  /\ inEdge \in [Vertex -> Seq([id : Vertex, val : Val])]
  /\ \A v \in Vertex : Len(inEdge[v]) = Cardinality(Sources(outEdge, v))

EdgesInv == ReplaceInv /\ (Replacing /\ ~failed => Upward /\ InDegrees)

LEMMA InitEdgesInv ==
  ASSUME ListsApart, Init
  PROVE  EdgesInv
<1>1. ReplaceInv
  BY InitReplaceInv
<1>2. Upward
  BY DEF Init, Upward
<1>3. outEdge \in [Vertex -> EdgeLists]
  <2>1. outEdge \in InitOut /\ outEdge \in [Vertex -> Seq([id : Vertex, val : Val])]
    BY EdgeAssumption DEF Init
  <2>2. \A v \in Vertex : outEdge[v] \in EdgeLists
    BY <2>1 DEF EdgeLists
  <2> QED
    BY <2>1, <2>2
<1>4. ASSUME NEW v \in Vertex
      PROVE  /\ inEdge[v] \in Seq([id : Vertex, val : Val])
             /\ Len(inEdge[v]) = Cardinality(Sources(outEdge, v))
  <2> DEFINE T == [id : Vertex, val : Val]
             s == inEdge[v]
  <2>1. s \in Seq(T) /\ Lists(s, Sources(outEdge, v))
    BY <1>3, InEdgesAreSources DEF Init
  <2>2. \A e \in T : e.id \in Int
    BY Vertices
  <2> HIDE DEF T, s
  <2>3. Len(s) = Cardinality(Sources(outEdge, v))
    BY <2>1, <2>2, ListsLength
  <2> QED
    BY <2>1, <2>3 DEF T, s
<1>5. inEdge \in [Vertex -> Seq([id : Vertex, val : Val])]
  <2>1. inEdge = [v \in Vertex |-> inEdge[v]]
    BY DEF Init, InEdgesOf
  <2> QED
    BY <1>4, <2>1
<1> QED
  BY <1>1, <1>2, <1>4, <1>5 DEF EdgesInv, InDegrees

LEMMA UpwardHolds ==
  ASSUME ReplaceInv, Replacing, ~failed, Upward, EndVertex
  PROVE  Upward'
<1>1. Types /\ AtWork /\ Ahead /\ cur \in Vertex /\ cur \in Nat
  BY Vertices DEF ReplaceInv, EndVertex
<1>2. /\ ends' = [ends EXCEPT ![cur] = IF changed THEN Len(log[FirstOf[cur]]) ELSE @]
      /\ cur' = cur + 1 /\ ends \in [Vertex -> Nat]
  BY <1>1 DEF EndVertex, Types
<1>3. ASSUME NEW v \in Vertex, v <= cur PROVE start(v)' = start(v)
  <2>1. FirstOf[v] # v => v - 1 \in Vertex /\ v - 1 # cur
    BY <1>1, <1>2, <1>3, StartIs
  <2> QED
    BY <1>2, <2>1 DEF start
<1>4. ASSUME NEW v \in 0 .. cur' - 1 PROVE ends'[v] = 0 \/ start(v)' <= ends'[v]
  <2>1. v \in Vertex /\ v <= cur /\ (v \in 0 .. cur - 1 \/ v = cur)
    BY <1>1, <1>2, Vertices
  <2>2. start(v)' = start(v)
    BY <1>3, <2>1
  <2>3. CASE v = cur
    <3>1. CASE changed
      <4>1. ends'[v] = Len(log[FirstOf[cur]])
        BY <1>1, <1>2, <2>3, <3>1
      <4> QED
        BY <1>1, <2>2, <2>3, <4>1 DEF AtWork
    <3>2. CASE ~changed
      <4>1. ends'[v] = ends[v] /\ ends[v] = 0
        BY <1>1, <1>2, <2>1, <2>3, <3>2 DEF Ahead
      <4> QED
        BY <4>1
    <3> QED
      BY <3>1, <3>2
  <2>4. CASE v # cur
    <3>1. ends'[v] = ends[v] /\ v \in 0 .. cur - 1
      BY <1>2, <2>1, <2>4
    <3> QED
      BY <2>2, <3>1 DEF Upward
  <2> QED
    BY <2>3, <2>4
<1> QED
  BY <1>4 DEF Upward

LEMMA CallUpward ==
  ASSUME ReplaceInv, Replacing, ~failed, Upward, cur \in Vertex, cur' = cur,
         ends' = [ends EXCEPT ![cur] = IF changed THEN start(cur) ELSE @]
  PROVE  Upward'
<1>1. ends \in [Vertex -> Nat] /\ cur \in Nat
  BY Vertices DEF ReplaceInv, Types
<1>2. ASSUME NEW v \in 0 .. cur - 1 PROVE ends'[v] = ends[v] /\ start(v)' = start(v)
  <2>1. v \in Vertex /\ v # cur
    BY <1>1, Vertices
  <2>2. FirstOf[v] # v => v - 1 \in Vertex /\ v - 1 # cur
    BY <1>1, <2>1, StartIs
  <2> QED
    BY <1>1, <2>1, <2>2 DEF start
<1> QED
  BY <1>2 DEF Upward

LEMMA InDegreesHold ==
  ASSUME ListsApart, ReplaceInv, Replacing, InDegrees, EndSuperstep, ~failed'
  PROVE  InDegrees'
<1>1. CASE UNCHANGED <<outEdge, inEdge>>
  BY <1>1 DEF InDegrees, Sources, AsSet
<1>2. ASSUME NEW new, NEW reqsOf, NEW C, NEW u, Merges(new, reqsOf, C, u)
      PROVE  InDegrees'
  <2>1. /\ outEdge' = new /\ inEdge' = [v \in Vertex |-> InMerge(v, reqsOf, u).edges]
        /\ \A v \in Vertex : InMerge(v, reqsOf, u).ok
        /\ new \in [Vertex -> EdgeLists] /\ reqsOf \in [Vertex -> Seq(Request)]
        /\ Parts(outEdge, new, reqsOf, C) /\ outEdge \in [Vertex -> EdgeLists]
    BY <1>2 DEF Merges, ReplaceInv, Types, EndSuperstep
  <2>2. ASSUME NEW v \in Vertex
        PROVE  /\ inEdge'[v] \in Seq([id : Vertex, val : Val])
               /\ Len(inEdge'[v]) = Cardinality(Sources(new, v))
    <3> DEFINE old == inEdge[v]
    <3>1. old \in Seq([id : Vertex, val : Val]) /\ Len(old) = Cardinality(Sources(outEdge, v))
      BY DEF InDegrees
    <3>2. inEdge'[v] = Merge(old, InRequests(v, reqsOf), u).edges
          /\ Merge(old, InRequests(v, reqsOf), u).ok
      BY <2>1 DEF InMerge
    <3> HIDE DEF old
    <3>3. /\ Merge(old, InRequests(v, reqsOf), u).edges \in Seq([id : Vertex, val : Val])
          /\ Len(Merge(old, InRequests(v, reqsOf), u).edges) = Cardinality(Sources(new, v))
      <4>1. Replaced(outEdge, new, reqsOf, C)
        BY <2>1 DEF Replaced
      <4>2. Merge(old, InRequests(v, reqsOf), u).edges \in Seq([id : Vertex, val : Val])
        BY <3>1, <3>2, <4>1, InLength
      <4>3. ManyAs(Merge(old, InRequests(v, reqsOf), u).edges, new, v)
        BY <3>1, <3>2, <4>1, InLength
      <4> QED
        BY <4>2, <4>3 DEF ManyAs
    <3> QED
      BY <3>2, <3>3
  <2>3. \A v \in Vertex : Sources(outEdge, v)' = Sources(new, v)
    BY <2>1 DEF Sources, AsSet
  <2>4. inEdge' \in [Vertex -> Seq([id : Vertex, val : Val])]
    BY <2>1, <2>2
  <2> QED
    BY <2>2, <2>3, <2>4 DEF InDegrees
<1>3. \/ UNCHANGED <<outEdge, inEdge>>
      \/ \E new, reqsOf, C, u : Merges(new, reqsOf, C, u)
  BY SuperstepIs
<1> QED
  BY <1>1, <1>2, <1>3

LEMMA NextEdgesInv ==
  ASSUME ListsApart, EdgesInv, [Next]_vars
  PROVE  EdgesInv'
<1>1. ReplaceInv'
  BY NextReplaceInv DEF EdgesInv
<1> SUFFICES ASSUME Replacing', ~failed' PROVE Upward' /\ InDegrees'
  BY <1>1 DEF EdgesInv
<1>2. plan' = plan
  BY DEF Next, vars, AddOutEdge, ClearOutEdges, SetOutEdges, RemoveEdge, ModifyValue, Iterate,
         MayCall, EndVertex, EndSuperstep
<1>3. Replacing
  BY <1>2 DEF Replacing
<1>4. ReplaceInv /\ (~failed => Upward /\ InDegrees)
  BY <1>3 DEF EdgesInv
<1>5. UNCHANGED <<outEdge, inEdge>> /\ InDegrees => InDegrees'
  BY DEF InDegrees, Sources, AsSet
<1>6. ASSUME NEW list \in NewEdges, ClearOutEdges \/ SetOutEdges(list)
      PROVE  Upward' /\ InDegrees'
  <2>1. /\ ~failed /\ cur \in Vertex /\ cur' = cur /\ UNCHANGED <<outEdge, inEdge>>
        /\ ends' = [ends EXCEPT ![cur] = IF changed THEN start(cur) ELSE @]
    BY <1>6 DEF ClearOutEdges, SetOutEdges, MayCall
  <2> QED
    BY <1>3, <1>4, <1>5, <2>1, CallUpward
<1>7. CASE ClearOutEdges
  <2>1. /\ ~failed /\ cur \in Vertex /\ cur' = cur /\ UNCHANGED <<outEdge, inEdge>>
        /\ ends' = [ends EXCEPT ![cur] = IF changed THEN start(cur) ELSE @]
    BY <1>7 DEF ClearOutEdges, MayCall
  <2> QED
    BY <1>3, <1>4, <1>5, <2>1, CallUpward
<1>8. ASSUME NEW name \in {"add", "remove", "modify"}, MayCall(name) PROVE FALSE
  BY <1>3, <1>8 DEF MayCall, Replacing
<1>9. CASE EndVertex
  <2>1. ~failed /\ UNCHANGED <<outEdge, inEdge>>
    BY <1>9 DEF EndVertex
  <2> QED
    BY <1>3, <1>4, <1>5, <1>9, <2>1, UpwardHolds
<1>10. CASE EndSuperstep
  <2>1. ~failed /\ cur' = 0 /\ 0 .. cur' - 1 = {}
    BY <1>10 DEF EndSuperstep
  <2>2. Upward'
    BY <2>1 DEF Upward
  <2> QED
    BY <1>3, <1>4, <1>10, <2>1, <2>2, InDegreesHold
<1>11. CASE UNCHANGED vars
  BY <1>3, <1>4, <1>5, <1>11 DEF vars, Upward, start
<1> QED
  BY <1>6, <1>7, <1>8, <1>9, <1>10, <1>11
     DEF Next, AddOutEdge, RemoveEdge, ModifyValue, Iterate

LEMMA EdgesInvHolds ==
  ASSUME ListsApart
  PROVE  Spec => []EdgesInv
<1>1. Init => EdgesInv
  BY InitEdgesInv
<1>2. EdgesInv /\ [Next]_vars => EdgesInv'
  BY NextEdgesInv
<1> QED
  BY <1>1, <1>2, PTL DEF Spec

LEMMA OnlyEndSuperstep ==
  ASSUME [Next]_vars, ss' # ss
  PROVE  EndSuperstep
BY DEF Next, vars, AddOutEdge, ClearOutEdges, SetOutEdges, RemoveEdge, ModifyValue, Iterate,
       MayCall, EndVertex

\* Ascending in edges that are the reverse of the out edges become those of the new ones.
LEMMA Reversed ==
  ASSUME ListsApart, ReplaceInv, Replacing, EndSuperstep, InDegrees,
         InEdgesAscend, InEdgesReverse,
         NEW new, NEW reqsOf, NEW C, NEW u, Merges(new, reqsOf, C, u), NEW v \in Vertex
  PROVE  InMerge(v, reqsOf, u).ok /\ Ids(InMerge(v, reqsOf, u).edges) = Sources(new, v)
<1> DEFINE old == inEdge[v]
<1>1. Replaced(outEdge, new, reqsOf, C)
  BY DEF Replaced, Merges, ReplaceInv, Types, EndSuperstep
<1>2. old \in Seq([id : Vertex, val : Val]) /\ Ascending(old)
  BY DEF InDegrees, InEdgesAscend
<1>3. Ids(old) = Sources(outEdge, v)
  <2>1. {e.id : e \in AsSet(old)} = Sources(outEdge, v)
    BY DEF InEdgesReverse
  <2>2. DOMAIN old = 1 .. Len(old)
    BY <1>2
  <2> HIDE DEF old
  <2>3. {e.id : e \in AsSet(old)} = Ids(old)
    BY <2>2 DEF AsSet, Ids
  <2> QED
    BY <2>1, <2>3
<1> HIDE DEF old
<1>4. Merge(old, InRequests(v, reqsOf), u).ok
  BY <1>1, <1>2, <1>3, InIds
<1>5. Of(Merge(old, InRequests(v, reqsOf), u).edges, new, v)
  BY <1>1, <1>2, <1>3, InIds
<1> QED
  BY <1>4, <1>5 DEF InMerge, Of, old

(* Between supersteps every vertex has as many in edges as there are vertices with an edge   *)
(* to it (updateFewInEdge), for all threads and idle vertices: every removal that is sent    *)
(* takes one away and every addition brings one.                                             *)
THEOREM InDegreesFollow ==
  ASSUME ListsApart
  PROVE  Spec => []InDegreesFollowOut
<1>1. EdgesInv => InDegreesFollowOut
  BY DEF EdgesInv, InDegrees, InDegreesFollowOut, Between
<1>2. Spec => []EdgesInv
  BY EdgesInvHolds
<1> QED
  BY <1>1, <1>2, PTL

(* A superstep that starts with ascending in edges that are the reverse of the out edges      *)
(* ends with the reverse of the new out edges (updateFewInEdge and updateInEdge).             *)
THEOREM InEdgesFollow ==
  ASSUME ListsApart
  PROVE  Spec => InEdgesFollowOut
<1> DEFINE Follow == ss' # ss /\ ~failed' /\ Replacing /\ InEdgesAscend /\ InEdgesReverse
                       => InEdgesReverse'
<1>1. ASSUME EdgesInv, [Next]_vars PROVE Follow
  <2> SUFFICES ASSUME ss' # ss, ~failed', Replacing, InEdgesAscend, InEdgesReverse
               PROVE  InEdgesReverse'
    OBVIOUS
  <2>1. EndSuperstep /\ ReplaceInv /\ InDegrees
    BY <1>1, OnlyEndSuperstep DEF EdgesInv, EndSuperstep
  <2>2. CASE UNCHANGED <<outEdge, inEdge>>
    BY <2>2 DEF InEdgesReverse, Sources, AsSet
  <2>3. ASSUME NEW new, NEW reqsOf, NEW C, NEW u, Merges(new, reqsOf, C, u)
        PROVE  InEdgesReverse'
    <3>1. outEdge' = new /\ inEdge' = [v \in Vertex |-> InMerge(v, reqsOf, u).edges]
      BY <2>3 DEF Merges
    <3>2. InDegrees'
      BY <2>1, InDegreesHold
    <3> SUFFICES ASSUME NEW v \in Vertex
                 PROVE  {e.id : e \in AsSet(inEdge'[v])} = Sources(new, v)
      BY <3>1 DEF InEdgesReverse, Sources, AsSet
    <3> DEFINE now == inEdge'[v]
    <3>3. Ids(now) = Sources(new, v)
      BY <2>1, <2>3, <3>1, Reversed
    <3>4. DOMAIN now = 1 .. Len(now)
      <4>1. now \in Seq([id : Vertex, val : Val])
        BY <3>2 DEF InDegrees
      <4> QED
        BY <4>1
    <3> HIDE DEF now
    <3>5. {e.id : e \in AsSet(now)} = Ids(now)
      BY <3>4 DEF AsSet, Ids
    <3> QED
      BY <3>3, <3>5 DEF now
  <2>4. \/ UNCHANGED <<outEdge, inEdge>>
        \/ \E new, reqsOf, C, u : Merges(new, reqsOf, C, u)
    BY <2>1, SuperstepIs
  <2> QED
    BY <2>2, <2>3, <2>4
<1>2. Spec => []EdgesInv
  BY EdgesInvHolds
<1>3. EdgesInv /\ [Next]_vars => [Follow]_vars
  BY <1>1
<1> QED
  BY <1>2, <1>3, PTL DEF Spec, InEdgesFollowOut

(* While edges are replaced a superstep fails if and only if a vertex is idle behind one of    *)
(* its thread that changed edges: the end of its requests is left at zero, and                 *)
(* assert(reqEndIdx - reqStartIdx + 1 >= 0) fails.  Nothing else makes it fail.                *)
THEOREM FailuresAreIdleVertices ==
  ASSUME ListsApart
  PROVE  Spec => OnlyIdleVerticesFail
<1> DEFINE Only == ss' # ss /\ Replacing /\ InEdgesAscend /\ InEdgesReverse
                     => (failed' <=> \E v \in Vertex : IdleBehindChange(v))
<1>1. ASSUME EdgesInv, [Next]_vars PROVE Only
  <2> SUFFICES ASSUME ss' # ss, Replacing, InEdgesAscend, InEdgesReverse
               PROVE  failed' <=> \E v \in Vertex : IdleBehindChange(v)
    OBVIOUS
  <2>1. /\ EndSuperstep /\ ReplaceInv /\ Upward /\ InDegrees /\ Types /\ Quiet
        /\ ~failed /\ cur \notin Vertex
    BY <1>1, OnlyEndSuperstep DEF EdgesInv, ReplaceInv, EndSuperstep
  <2>2. 0 .. cur - 1 = Vertex
    <3>1. Cardinality(Vertex) \in Nat /\ Vertex = 0 .. Cardinality(Vertex) - 1
      BY Vertices
    <3>2. cur \in 0 .. Cardinality(Vertex) /\ cur \notin 0 .. Cardinality(Vertex) - 1
      BY <2>1, <3>1 DEF Types
    <3>3. cur = Cardinality(Vertex)
      BY <3>1, <3>2
    <3> QED
      BY <3>1, <3>3
  <2>3. \A v \in Vertex : ends[v] \in Nat /\ start(v) \in Nat
    BY <2>1, StartIs DEF Types
  <2>4. OffsetsOrdered <=> ~ \E v \in Vertex : IdleBehindChange(v)
    <3>1. ASSUME NEW v \in Vertex PROVE start(v) <= ends[v] <=> ~IdleBehindChange(v)
      <4>1. ends[v] = 0 \/ start(v) <= ends[v]
        BY <2>1, <2>2 DEF Upward
      <4> QED
        BY <2>3, <4>1 DEF IdleBehindChange
    <3> QED
      BY <3>1 DEF OffsetsOrdered
  <2>5. ASSUME ~Changes, NEW v \in Vertex PROVE ~IdleBehindChange(v)
    <3>1. \A w \in Vertex : ~changedUntilNow[FirstOf[w]]
      BY <2>5, StartIs, <2>1 DEF Changes, Types
    <3>2. \A w \in Vertex : ends[w] = 0
      BY <2>1, <2>2, <3>1 DEF Quiet
    <3>3. start(v) = 0
      BY <2>1, <3>2, StartIs DEF start, Types
    <3> QED
      BY <3>3 DEF IdleBehindChange
  <2>6. CASE ~Changes /\ ~failed'
    BY <2>5, <2>6
  <2>7. CASE ~OffsetsOrdered /\ failed'
    BY <2>4, <2>7
  <2>8. ASSUME NEW new, NEW reqsOf, NEW C, NEW u, Merges(new, reqsOf, C, u)
        PROVE  OffsetsOrdered /\ ~failed'
    <3>1. \A v \in Vertex : InMerge(v, reqsOf, u).ok
      BY <2>1, <2>8, Reversed
    <3> QED
      BY <2>8, <3>1 DEF Merges
  <2>9. \/ ~Changes /\ ~failed'
        \/ ~OffsetsOrdered /\ failed'
        \/ \E new, reqsOf, C, u : Merges(new, reqsOf, C, u)
    BY <2>1, SuperstepIs
  <2> QED
    BY <2>4, <2>6, <2>7, <2>8, <2>9
<1>2. Spec => []EdgesInv
  BY EdgesInvHolds
<1>3. EdgesInv /\ [Next]_vars => [Only]_vars
  BY <1>1
<1> QED
  BY <1>2, <1>3, PTL DEF Spec, OnlyIdleVerticesFail
=============================================================================
