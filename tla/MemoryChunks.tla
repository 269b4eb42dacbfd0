----------------------------- MODULE MemoryChunks ------------------------------
(***************************************************************************)
(* What MemoryChunk does with its memory: the alignment of blocks, copies  *)
(* within and between chunks, GrowableMemory, and sending a chunk to       *)
(* another place, by value or piece by piece.                              *)
(***************************************************************************)
EXTENDS Integers, Sequences, SequencesExt, FiniteSetsExt

CONSTANT MaxPiece   \* 2^30, the bytes moved by one remote copy

ASSUME MemoryAssumption == MaxPiece \in Nat \ {0}

(* Bytes asked for, and where the elements begin in a block that begins at allocMem. *)
ByteSize(alignment, numElements, elemSize) == alignment + (numElements * elemSize)
AlignedMem(allocMem, alignment) ==
  IF alignment > 0 THEN ((allocMem + alignment - 1) \div alignment) * alignment ELSE allocMem

-------------------------------------------------------------------------------
(* Copies within one memory, from 0: objects are assigned one after the other, from
   the first ... *)
Assigned(mem, srcIndex, dstIndex, n) ==
  LET after[i \in 0 .. n] ==
        IF i = 0 THEN mem
        ELSE [after[i - 1] EXCEPT ![i + dstIndex] = after[i - 1][i + srcIndex]]
  IN  after[n]
(* ... values move at once (memmove). *)
Moved(mem, srcIndex, dstIndex, n) ==
  [i \in DOMAIN mem |-> IF i - 1 \in dstIndex .. dstIndex + n - 1
                        THEN mem[i - dstIndex + srcIndex] ELSE mem[i]]
copy(kind, mem, srcIndex, dstIndex, n) ==
  IF kind = "value" THEN Moved(mem, srcIndex, dstIndex, n) ELSE Assigned(mem, srcIndex, dstIndex, n)

(* GrowableMemory: the backing store and how much of it is used. *)
Unwritten == 0
Growable(items) == [mc |-> items, size |-> Len(items)]
grow(g, reqCapacity) ==
  LET cap[c \in Nat] == IF c >= reqCapacity THEN c ELSE cap[2 * c]
      newCapacity == cap[IF Len(g.mc) < 8 THEN 8 ELSE Len(g.mc)]
  IN  IF reqCapacity < g.size THEN g
      ELSE [g EXCEPT !.mc = [i \in 1 .. newCapacity |-> IF i <= g.size THEN g.mc[i] ELSE Unwritten]]
insert(kind, g, p, items) ==
  LET addLen == Len(items)
      newLen == g.size + addLen
      movLen == g.size - p
      big == IF newLen > Len(g.mc) THEN grow(g, newLen) ELSE g
      room == IF movLen > 0 THEN copy(kind, big.mc, p, p + addLen, movLen) ELSE big.mc
  IN  [mc |-> [i \in DOMAIN room |-> IF i - 1 \in p .. p + addLen - 1 THEN items[i - p] ELSE room[i]],
       size |-> newLen]
shrink(g, newCapacity) ==
  [g EXCEPT !.mc = [i \in 1 .. Max({newCapacity, g.size}) |-> IF i <= g.size THEN g.mc[i] ELSE Unwritten]]
Items(g) == SubSeq(g.mc, 1, g.size)

-------------------------------------------------------------------------------
(* A buffer of words.  Values without pointers are copied as memory; objects follow
   one another, each behind what lets later objects refer to it. *)
Reference == 99
serializeValues(mem, buf) == Append(buf, Len(mem)) \o mem
serializeObjects(mem, buf) ==
  FoldLeft(LAMBDA b, e : b \o <<Reference, e>>, Append(buf, Len(mem)), mem)
serialize(kind, mem, buf) ==
  IF kind = "value" THEN serializeValues(mem, buf) ELSE serializeObjects(mem, buf)
\* The chunk read from position at on, and the position behind it.
deserializeValues(buf, at) ==
  [mem |-> SubSeq(buf, at + 1, at + buf[at]), at |-> at + 1 + buf[at]]
deserializeObjects(buf, at) ==
  [mem |-> [i \in 1 .. buf[at] |-> buf[at + (2 * i)]], at |-> at + 1 + (2 * buf[at])]
deserialize(kind, buf, at) ==
  IF kind = "value" THEN deserializeValues(buf, at) ELSE deserializeObjects(buf, at)

(* asyncCopy: the pieces <<first element, elements>> that are sent one by one. *)
PiecesOf(size, mx) ==
  LET from[l \in 0 .. size] ==
        IF l = size THEN <<>>
        ELSE LET c == IF size - l < mx THEN size - l ELSE mx
             IN  <<<<l, c>>>> \o from[l + c]
  IN  from[0]
Pieces(size, elemSize) == PiecesOf(size, MaxPiece \div elemSize)
Arrived(src, dst, dstIndex, elemSize) ==
  FoldLeft(LAMBDA d, p : [i \in DOMAIN d |->
             IF i - 1 - dstIndex \in p[1] .. p[1] + p[2] - 1 THEN src[i - dstIndex] ELSE d[i]],
           dst, Pieces(Len(src), elemSize))
===============================================================================
