------------------------------ MODULE BlockFiles ------------------------------
(***************************************************************************)
(* Files of the block format (io/fbio): named attributes, each distributed *)
(* over the places, written as a header and blocks, into one file or into  *)
(* one part for the header and one for every place, and read again by a    *)
(* team of any size.                                                       *)
(*                                                                         *)
(* A file is its size and its fields <<at, bytes, value>>, at the offsets  *)
(* the code computes; a value is a tuple of numbers.  An attribute has a   *)
(* name and the size of its elements, 0 for strings; an element has bytes  *)
(* and a content.                                                          *)
(***************************************************************************)
EXTENDS NativeFiles, SequencesExt, FiniteSetsExt

CONSTANTS numBlocksPerPlace, minNumBlocks, minBlockSize, maxBlockSize,
          ArithmeticException

ASSUME BlockAssumption ==
  numBlocksPerPlace > 0 /\ minBlockSize > 0 /\ minBlockSize <= maxBlockSize

(* HEADER_NONE, HEADER_GRAPH, HEADER_MATRIX and HEADER_VECTOR, by the fields of what
   follows the block table; an empty struct has one byte. *)
HeaderTypes == 0 .. 3
udhFields(datatype) == IF datatype = 1 THEN <<8, 8, 4, 4>> ELSE <<>>
Total(seq) == FoldLeft(+, 0, seq)
udhSize(datatype) == CASE datatype = 0 -> 0
                       [] datatype = 1 -> Total(udhFields(datatype))
                       [] OTHER -> 1

align(offset, length) == ((offset + length - 1) \div length) * length

-------------------------------------------------------------------------------
(* Partitioning.  data: name and size of the attributes, elems[place][attribute]. *)
\* String elements carry their length before them.
elementBytes(size, e) == IF size = 0 THEN 4 + align(e.bytes, 4) ELSE size
numBytes(size, elems) == Total([i \in DOMAIN elems |-> elementBytes(size, elems[i])])
getAppropriateNumBlocks(numTotalBytes, numPlaces) ==
  LET guide == Max({numBlocksPerPlace, (minNumBlocks + numPlaces - 1) \div numPlaces})
      ceil(b) == (numTotalBytes + b - 1) \div b
  IN  IF numTotalBytes < guide * minBlockSize THEN ceil(minBlockSize)
      ELSE IF numTotalBytes > guide * maxBlockSize THEN ceil(maxBlockSize) ELSE guide
BytesAt(data, p) ==
  Total([a \in DOMAIN data.size |-> numBytes(data.size[a], data.elems[p][a])])
numLocalBlocks(data, p) == getAppropriateNumBlocks(BytesAt(data, p), Len(data.elems))
\* The b-th of n shares of a sequence, the first ones longer by one.
Share(seq, n, b) ==
  LET per == Len(seq) \div n
      extra == Len(seq) % n
      from == ((b - 1) * per) + Min({b - 1, extra})
  IN  SubSeq(seq, from + 1, from + per + (IF b <= extra THEN 1 ELSE 0))
LocalBlocks(data, p) ==
  LET n == numLocalBlocks(data, p) IN
  [b \in 1 .. n |-> [a \in DOMAIN data.size |-> Share(data.elems[p][a], n, b)]]
(* Mutant: the attributes of a block are not rounded up to eight bytes. *)
BlockSizeUnpadded(data, block) ==
  Total([a \in DOMAIN block |-> numBytes(data.size[a], block[a])])
BlockSize(data, block) ==
  Total([a \in DOMAIN block |-> align(numBytes(data.size[a], block[a]), 8)])
\* The blocks of all places one after the other; where they begin, and where the last ends.
Blocks(data) == FlattenSeq([p \in DOMAIN data.elems |-> LocalBlocks(data, p)])
OffsetsOf(sizes) == [b \in 1 .. Len(sizes) + 1 |-> Total(SubSeq(sizes, 1, b - 1))]
BlockOffsets(data) ==
  LET blocks == Blocks(data) IN OffsetsOf([b \in DOMAIN blocks |-> BlockSize(data, blocks[b])])
\* No elements at a place: the shares are computed by dividing by zero.
DividesByZero(data) == \E p \in DOMAIN data.elems : numLocalBlocks(data, p) = 0

-------------------------------------------------------------------------------
(* Writing. *)
HeaderSize == 40
attrSize(data) == 4 + Total([a \in DOMAIN data.name |-> 8 + align(data.name[a], 4)])
blockInfoSize(data) == 8 + ((8 + (16 * Len(data.name))) * Len(Blocks(data)))
totalHeaderSize(data) ==
  HeaderSize + align(attrSize(data), 8) + align(blockInfoSize(data), 8)
    + align(udhSize(data.datatype), 8)
Magic == 1146241606
\* Fields one behind the other; where each begins.
InRow(at, lens, vals) ==
  LET off == OffsetsOf(lens) IN {<<at + off[i], lens[i], vals[i]>> : i \in DOMAIN lens}
\* A name is a number for every attribute: its position.
writeHeaders(data) ==
  LET n == Len(data.name)
      blocks == Blocks(data)
      A == HeaderSize
      B == A + align(attrSize(data), 8)
      U == B + align(blockInfoSize(data), 8)
      attrAt == OffsetsOf([a \in 1 .. n |-> align(8 + data.name[a], 4)])
      chunk(b, a) == LET c == blocks[b][a] IN
                     <<<<numBytes(data.size[a], c)>>, <<Len(c)>>>>
      udh == udhFields(data.datatype)
  IN  InRow(0, <<4, 1, 1, 2, 8, 8, 8, 8>>,
            <<<<Magic>>, <<1>>, <<data.datatype>>, <<0>>, <<attrSize(data)>>,
              <<blockInfoSize(data)>>, <<udhSize(data.datatype)>>, <<Last(BlockOffsets(data))>>>>)
      \cup {<<A, 4, <<n>>>>}
      \cup UNION {InRow(A + 4 + attrAt[a], <<4, 4, data.name[a]>>,
                        <<<<data.size[a]>>, <<data.name[a]>>, <<a>>>>) : a \in 1 .. n}
      \cup InRow(B, <<4, 4>>, <<<<Len(blocks)>>, <<0>>>>)
      \cup UNION {InRow(B + 8 + ((b - 1) * (8 + (16 * n))), [i \in 1 .. 1 + (2 * n) |-> 8],
                        <<<<totalHeaderSize(data) + BlockOffsets(data)[b]>>>>
                          \o FlattenSeq([a \in 1 .. n |-> chunk(b, a)])) : b \in DOMAIN blocks}
      \cup InRow(U, udh, [i \in DOMAIN udh |-> <<i, data.datatype>>])

\* The elements of one attribute of a block, from at on, and zeros up to eight bytes.
writePrimitives(at, size, elems) ==
  LET end == at + (size * Len(elems)) IN
  {<<at + ((i - 1) * size), size, elems[i].content>> : i \in DOMAIN elems}
    \cup {<<end, align(end - at, 8) - (end - at), <<0>>>>}
writeStrings(at, elems) ==
  LET off == OffsetsOf([i \in DOMAIN elems |-> elementBytes(0, elems[i])]) IN
  UNION {{<<at + off[i], 4, <<elems[i].bytes>>>>,
          <<at + off[i] + 4, elems[i].bytes, elems[i].content>>,
          <<at + off[i] + 4 + elems[i].bytes,
            align(elems[i].bytes, 4) - elems[i].bytes, <<0>>>>} : i \in DOMAIN elems}
\* writeStrings is given the bytes rounded up and throws if they are not the sum.
StringsRefused(data) ==
  \E b \in DOMAIN Blocks(data), a \in DOMAIN data.size :
    data.size[a] = 0 /\ numBytes(0, Blocks(data)[b][a]) % 8 # 0
writeBlock(data, at, block) ==
  LET off == OffsetsOf([a \in DOMAIN block |-> align(numBytes(data.size[a], block[a]), 8)])
  IN  UNION {IF data.size[a] = 0 THEN writeStrings(at + off[a], block[a])
             ELSE writePrimitives(at + off[a], data.size[a], block[a]) : a \in DOMAIN block}

\* Where the parts begin: all in one file, or the header and every place in its own.
partOffsets(data, scatter) ==
  LET first(p) == 1 + Total([q \in 1 .. p - 1 |-> numLocalBlocks(data, q)]) IN
  <<0>> \o [p \in DOMAIN data.elems |->
              IF scatter THEN totalHeaderSize(data) + BlockOffsets(data)[first(p)] ELSE 0]
\* The fields every part receives: the header, then each place its blocks.
partFields(data, scatter) ==
  LET at == partOffsets(data, scatter)
      blocks == Blocks(data)
      owner(b) == Min({p \in DOMAIN data.elems :
                         b <= Total([q \in 1 .. p |-> numLocalBlocks(data, q)])})
      mine(p) == UNION {writeBlock(data, totalHeaderSize(data) + BlockOffsets(data)[b] - at[p + 1],
                                   blocks[b]) : b \in {c \in DOMAIN blocks : owner(c) = p}}
  IN  <<writeHeaders(data)>> \o [p \in DOMAIN data.elems |-> mine(p)]
fileOf(fields, size) ==
  [fields |-> {f \in fields : f[2] > 0}, size |-> Max({size} \cup {f[1] + f[2] : f \in fields})]
filesOf(parts, scatter, headerSize) ==
  IF scatter THEN [i \in DOMAIN parts |-> fileOf(parts[i], IF i = 1 THEN headerSize ELSE 0)]
  ELSE <<fileOf(UNION Range(parts), headerSize)>>
write(data, scatter) ==
  IF DividesByZero(data) THEN ArithmeticException
  ELSE IF StringsRefused(data) THEN IOException
  ELSE filesOf(partFields(data, scatter), scatter, totalHeaderSize(data))

-------------------------------------------------------------------------------
(* Reading. *)
Unknown == <<-1>>
valueAt(file, at, len) ==
  LET found == {f \in file.fields : f[1] = at /\ f[2] = len} IN
  IF len = 0 THEN <<>> ELSE IF found = {} THEN Unknown ELSE (CHOOSE f \in found : TRUE)[3]
num(file, at, len) == valueAt(file, at, len)[1]

readHeaders(file) ==
  LET seclen(i) == num(file, 8 + (8 * i), 8)
      A == HeaderSize
      B == A + align(seclen(0), 8)
      U == B + align(seclen(1), 8)
      n == num(file, A, 4)
      attrAt[a \in 1 .. n] ==
        IF a = 1 THEN A + 4
        ELSE attrAt[a - 1] + align(8 + num(file, attrAt[a - 1] + 4, 4), 4)
      blockAt(b) == B + 8 + ((b - 1) * (8 + (16 * n)))
      datatype == num(file, 5, 1)
      udh == udhFields(datatype)
  IN  IF num(file, 0, 4) # Magic \/ seclen(2) # udhSize(datatype) THEN IOException
      ELSE [datatype |-> datatype,
            size |-> [a \in 1 .. n |-> num(file, attrAt[a], 4)],
            name |-> [a \in 1 .. n |-> num(file, attrAt[a] + 4, 4)],
            spelling |-> [a \in 1 .. n |->
                            valueAt(file, attrAt[a] + 8, num(file, attrAt[a] + 4, 4))],
            blocks |-> [b \in 1 .. num(file, B, 4) |->
                          [offset |-> num(file, blockAt(b), 8),
                           numBytes |-> [a \in 1 .. n |-> num(file, blockAt(b) + (16 * a) - 8, 8)],
                           numElements |-> [a \in 1 .. n |-> num(file, blockAt(b) + (16 * a), 8)]]],
            udh |-> LET off == OffsetsOf(udh) IN
                    [i \in DOMAIN udh |-> valueAt(file, U + off[i], udh[i])]]

readPrimitives(file, at, size, numElements) ==
  [i \in 1 .. numElements |->
     [bytes |-> size, content |-> valueAt(file, at + ((i - 1) * size), size)]]
readStrings(file, at, numElements) ==
  LET start[i \in 1 .. numElements] ==
        IF i = 1 THEN at
        ELSE start[i - 1] + 4 + align(num(file, start[i - 1], 4), 4)
  IN  [i \in 1 .. numElements |->
         LET length == num(file, start[i], 4) IN
         [bytes |-> length, content |-> valueAt(file, start[i] + 4, length)]]
\* ScatteredFileManager.index: the part an offset is in.
fileOffset(parts) == OffsetsOf([i \in DOMAIN parts |-> parts[i].size])
index(parts, offset) ==
  Min({i \in DOMAIN parts : offset < fileOffset(parts)[i + 1]})
readBlock(parts, h, block) ==
  LET i == IF Len(parts) = 1 THEN 1 ELSE index(parts, block.offset)
      at == block.offset - fileOffset(parts)[i]
      off == OffsetsOf([a \in DOMAIN h.size |-> align(block.numBytes[a], 8)])
  IN  [a \in DOMAIN h.size |->
         IF h.size[a] = 0 THEN readStrings(parts[i], at + off[a], block.numElements[a])
         ELSE readPrimitives(parts[i], at + off[a], h.size[a], block.numElements[a])]
\* The places of the reading team take the blocks in order, the first ones one more.
readData(parts, h, teamSize) ==
  LET given(p) == Share(h.blocks, teamSize, p)
  IN  IF h = IOException THEN h
      ELSE [datatype |-> h.datatype, size |-> h.size, name |-> h.name,
            spelling |-> h.spelling, udh |-> h.udh,
            elems |-> [p \in 1 .. teamSize |->
              LET blocks == [b \in DOMAIN given(p) |-> readBlock(parts, h, given(p)[b])] IN
              [a \in DOMAIN h.size |-> FlattenSeq([b \in DOMAIN blocks |-> blocks[b][a]])]]]
read(parts, teamSize) == readData(parts, readHeaders(parts[1]), teamSize)
===============================================================================
