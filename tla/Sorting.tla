------------------------------- MODULE Sorting --------------------------------
(***************************************************************************)
(* Sorting several arrays by the first (NativeAlgorithm.h, Algorithm.x10): *)
(* std::sort is given iterators over tuples of references, one into each   *)
(* array, so what it exchanges are not values but places.  An array set is *)
(* a sequence of arrays of one length, the keys first.                     *)
(***************************************************************************)
EXTENDS Integers, SequencesExt

\* How std::sort exchanges two elements: before C++11 through a value of its own,
\* from C++11 on by the swap of the references.  The build does not say which.
CONSTANT ExchangesByValue
ASSUME ExchangesByValueAssumption == ExchangesByValue \in BOOLEAN

Tuple(arrays, i) == [c \in DOMAIN arrays |-> arrays[c][i]]      \* a value: a copy
Assign(arrays, i, t) == [c \in DOMAIN arrays |-> [arrays[c] EXCEPT ![i] = t[c]]]

\* tmp is a third reference to the place of r1: what was there is lost.
swap_tri(arrays, i, j) ==
  LET first == Assign(arrays, i, Tuple(arrays, j)) IN Assign(first, j, Tuple(first, i))
\* tmp holds the values of r1.
swap_pair(arrays, i, j) ==
  LET tmp == Tuple(arrays, i) IN Assign(Assign(arrays, i, Tuple(arrays, j)), j, tmp)

Exchange(arrays, i, j) ==
  IF Len(arrays) = 3 /\ ~ExchangesByValue THEN swap_tri(arrays, i, j) ELSE swap_pair(arrays, i, j)
\* std::sort, as exchanges of neighbours; less compares two keys.
Sort(arrays, less(_, _)) ==
  LET n == Len(arrays[1])
      places == FlattenSeq([r \in 1 .. n |-> [i \in 1 .. n - r |-> i]])
  IN  FoldLeft(LAMBDA a, i : IF less(a[1][i + 1], a[1][i]) THEN Exchange(a, i, i + 1) ELSE a,
               arrays, places)
sort2(arrays) == Sort(arrays, LAMBDA a, b : a < b)
sort2Gt(arrays) == Sort(arrays, LAMBDA a, b : a > b)
sort3(arrays) == Sort(arrays, LAMBDA a, b : a < b)

\* Algorithm.sort: elements go to chunks by the high bits of their keys, each chunk
\* is sorted.  Chunks are 0 .. 2^logChunks - 1.
Chunk(key, rangeScale, numShift) == (key % 2^rangeScale) \div 2^numShift
Distributed(arrays, chunkOf(_), offsets) ==
  FoldLeft(LAMBDA st, i :
             LET c == chunkOf(arrays[1][i])
             IN  [dst |-> Assign(st.dst, st.offsets[c] + 1, Tuple(arrays, i)),
                  offsets |-> [st.offsets EXCEPT ![c] = @ + 1]],
           [dst |-> arrays, offsets |-> offsets],
           [i \in 1 .. Len(arrays[1]) |-> i])
Offsets(counts) == [c \in DOMAIN counts |-> FoldFunctionOnSet(+, 0, counts, 0 .. c - 1)]
SortByChunks(arrays, rangeScale, logChunks) ==
  LET numShift == rangeScale - logChunks
      chunkOf(key) == Chunk(key, rangeScale, numShift)
      keys == arrays[1]
      counts == [c \in 0 .. 2^logChunks - 1 |->
                   Cardinality({i \in DOMAIN keys : chunkOf(keys[i]) = c})]
      put == Distributed(arrays, chunkOf, Offsets(counts))
      starts == Offsets(counts)
      sorted(c) ==
        LET part == [k \in DOMAIN arrays |->
                       SubSeq(put.dst[k], starts[c] + 1, starts[c] + counts[c])]
        IN  Sort(part, LAMBDA a, b : a < b)
  IN  IF numShift > 0
      THEN [k \in DOMAIN arrays |-> FlattenSeq([c \in 1 .. 2^logChunks |-> sorted(c - 1)[k]])]
      ELSE put.dst
=============================================================================
