----------------------------- MODULE Conversions ------------------------------
(***************************************************************************)
(* The functions of ScaleGraph that keep no state, called with every input *)
(* of small sets, each compared with what it is for.                       *)
(***************************************************************************)
EXTENDS Strings, Sorting, MathAppend, MemoryChunks, BlockFiles, CommandLine

CONSTANTS
  ScrambleValues, \* what scramble is given beside the id
  MaxScale,     \* bits of the largest id
  MaxArray,     \* the longest array sorted
  Chars,        \* characters of the texts
  MaxText,      \* the longest text
  NumeralBytes, \* bytes of what is read as a number
  MaxNumeral,   \* how many of them
  Lengths,      \* lengths of what a builder holds before a number is added
  MaxChunk,     \* the longest chunk
  AttrSizes,    \* sizes of the elements of an attribute, 0 for strings
  MaxElems,     \* elements of an attribute at a place
  FileSteps,    \* calls on an open file
  MaxFileSteps, \* how many of them
  Inputs,       \* of a call from Python: where the graph comes from
  Outputs,      \* where the results go
  Flows,        \* source and sink of a flow
  ExtraOptions, \* options passed on as they are
  Worlds,       \* which of the commands it starts fail
  Disks         \* the files that are there

VARIABLE call   \* the last call: a sequence, the name of the group first
vars == <<call>>

SeqsUpTo(S, n) == UNION {[1 .. k -> S] : k \in 0 .. n}

\* A text in front of one more character, in one chunk; what is searched; a character.
TextCalls == {<<"text", text, behind, pat, c>> :
                text \in SeqsUpTo(Chars, MaxText), behind \in Chars,
                pat \in SeqsUpTo(Chars, 2), c \in Chars}
\* A part of a chunk, from byte at on.
NumberCalls == {<<"number", mem, at, size>> :
                  mem \in [1 .. MaxNumeral -> NumeralBytes], at \in 0 .. 1,
                  size \in 0 .. MaxNumeral - 1}
FormatCalls == {<<"format", prefix, type, v>> :
                  prefix \in Lengths, type \in Signed \cup Unsigned, v \in ValuesOf("Int")}
\* Keys of two bits, and what goes with them: two or three arrays.
SortCalls == {<<"sort", keys, columns, logChunks>> :
                keys \in UNION {[1 .. n -> 0 .. 3] : n \in 1 .. MaxArray},
                columns \in 2 .. 3, logChunks \in 0 .. 2}
ScrambleCalls == {<<"scramble", scale, val0, val1>> :
                    scale \in 1 .. MaxScale, val0 \in ScrambleValues, val1 \in ScrambleValues}
\* A chunk of so many elements, a second one put in at p, the size of an element,
\* where the block or the destination begins.
MemoryCalls == {<<"chunk", n, k, p, elemSize, at>> : n \in 0 .. MaxChunk, k \in 0 .. 3,
                  p \in 0 .. MaxChunk, elemSize \in {1, 2, 3, 4, 8}, at \in 0 .. 5}

Init == call = <<"none">>
CallText == call = <<"none">> /\ call' \in TextCalls
CallNumber == call = <<"none">> /\ call' \in NumberCalls
CallFormat == call = <<"none">> /\ call' \in {f \in FormatCalls : f[4] \in ValuesOf(f[3])}
CallSort == call = <<"none">> /\ call' \in SortCalls
CallScramble == call = <<"none">> /\ call' \in ScrambleCalls
CallMemory == call = <<"none">> /\ call' \in MemoryCalls
\* Attributes; how many elements of each every place has; the readers; one file or many.
CallFile ==
  /\ call = <<"none">>
  /\ \E n \in 1 .. 2 : \E sizes \in [1 .. n -> AttrSizes],
        counts \in [1 .. 2 -> [1 .. n -> 0 .. MaxElems]],
        datatype \in HeaderTypes, teamSize \in 1 .. 3, scatter \in BOOLEAN :
       call' = <<"file", sizes, counts, datatype, teamSize, scatter>>
\* Two handles of one file, opened one after the other, and what is done with them.
CallNative ==
  /\ call = <<"none">>
  /\ \E content \in {Absent, <<7, 8>>}, mode1, mode2 \in 0 .. 6, access1, access2 \in 0 .. 3,
        steps \in SeqsUpTo(FileSteps, MaxFileSteps) :
       call' = <<"native", content, mode1, access1, mode2, access2, steps>>
\* A call of an algorithm; only a flow has a source and a sink, and no output.
CallCommand ==
  /\ call = <<"none">>
  /\ \E in \in Inputs, extra \in ExtraOptions, world \in Worlds, disk \in Disks :
       \/ \E alg \in {GenerateGraph, PageRank, DegreeDistribution, BetweennessCentrality, HyperANF,
                      StronglyConnectedComponent, MinimumSpanningTree, SpectralClustering},
             out \in Outputs :
            call' = <<"command", alg, in @@ out @@ [extra_options |-> extra], world, disk>>
       \/ \E flow \in Flows :
            call' = <<"command", MaxFlow, in @@ flow @@ [extra_options |-> extra], world, disk>>
Return == call # <<"none">> /\ call' = <<"none">>
Next == CallText \/ CallNumber \/ CallFormat \/ CallSort \/ CallScramble \/ CallMemory
        \/ CallFile \/ CallNative \/ CallCommand \/ Return
Spec == Init /\ [][Next]_vars

------------------------------------------------------------------------------
Is(group) == call[1] = group

(* Strings.  The reference is the sequence of characters. *)
Chosen == charsToUTF8(call[2])
\* The same text with a character behind it in the chunk.
Part == substring(charsToUTF8(Append(call[2], call[3])), 0, Chosen.size)
Offset(k) == charsToUTF8(SubSeq(call[2], 1, k)).size
Occurrences(text, pat) ==
  {k \in 0 .. Len(text) - Len(pat) : SubSeq(text, k + 1, k + Len(pat)) = pat}

(* Coding characters and decoding the bytes gives the characters back, also of a
   part of a longer text; the count is their number.  For code points below
   65536: those above lose bits in decoding. *)
CharactersSurvive ==
  Is("text") => /\ UTF8ToChars(Part) = call[2]
                /\ UTF8charsCount(Part) = Len(call[2])

(* A search by bytes finds what a search by characters finds, and nothing in the
   middle of a character or across the end of the string, though the chunk goes on. *)
SearchFindsCharacters ==
  Is("text") /\ call[4] # <<>> =>
    LET pat == Bytes(charsToUTF8(call[4]))
        at == Occurrences(call[2], call[4])
    IN  /\ StringIndexOf(Part, pat, 0) = IF at = {} THEN -1 ELSE Offset(Min(at))
        /\ StringLastIndexOf(Part, pat, 0) = IF at = {} THEN -1 ELSE Offset(Max(at))

(* The order of strings is that of their characters, though bytes are compared
   and stored signed; equality, prefix and suffix agree with it. *)
ComparedByCharacter ==
  Is("text") =>
    LET a == call[2]
        b == Append(call[4], call[5])
        t == charsToUTF8(b)
        cmp == StringCompare(Part, t)
        same == {i \in 0 .. Min({Len(a), Len(b)}) : SubSeq(a, 1, i) = SubSeq(b, 1, i)}
        i == Max(same) + 1
        less == \/ i > Len(a) /\ i <= Len(b)
                \/ i <= Len(a) /\ i <= Len(b) /\ a[i] < b[i]
    IN  /\ (cmp < 0) = less
        /\ (cmp = 0) = (a = b)
        /\ StringEqual(Part, t) = (a = b)
        /\ StringStartsWith(Part, t) = IsPrefix(b, a)
        /\ StringEndsWith(Part, t) = IsSuffix(b, a)

(* The tokens of a split, joined by the splitter, are the string, or the string
   but for a splitter at its end; no token contains the splitter.  replace maps
   every occurrence of the character and nothing else. *)
SplitsAndReplaces ==
  Is("text") =>
    /\ call[4] # <<>> =>
         \A pat \in {Bytes(charsToUTF8(call[4]))} : \A tokens \in {split(Part, pat)} :
         LET joined == FlattenSeq([i \in DOMAIN tokens |->
                          Bytes(tokens[i]) \o (IF i < Len(tokens) THEN pat ELSE <<>>)])
         IN  /\ Bytes(Part) \in {joined, joined \o pat}
             /\ \A i \in DOMAIN tokens : StringIndexOf(tokens[i], pat, 0) = -1
    /\ UTF8ToChars(replace(Part, call[5], call[3]))
         = [i \in DOMAIN call[2] |-> IF call[2][i] = call[5] THEN call[3] ELSE call[2][i]]

(* A string is a number when all of it is one, whatever follows it in the chunk:
   the value read is that of the numeral, or an exception is thrown.  Not so of an
   unsigned short, which is read as a short: the upper half of its values is not
   read, and of a negative numeral the remainder is.  Values that do not fit the int
   they pass through are left out: they are cut to its width, and "" is zero. *)
Through(type) == CASE type \in {"Long", "ULong"} -> type
                   [] type \in {"Byte", "Short", "Int", "UShort"} -> "Int"
                   [] type \in {"UByte", "UInt"} -> "UInt"
NumbersReadWhole ==
  Is("number") =>
    \A s \in {SString(Append(call[2], NUL), call[3], Min({call[4], MaxNumeral - call[3]}))} :
    LET v == Strtol(Append(Bytes(s), NUL))
        half == 2^(ShortBits - 1)
    IN  /\ \A type \in Signed \cup Unsigned :
             v.value \in ValuesOf(Through(type)) =>
               StringToNumber(type, s) =
                 CASE v.end = s.size /\ type # "UShort" /\ v.value \in ValuesOf(type) -> v.value
                   [] v.end = s.size /\ type = "UShort" /\ v.value \in 0 .. half - 1 -> v.value
                   [] v.end = s.size /\ type = "UShort" /\ v.value \in 0 - half .. -1 ->
                        v.value + 2^ShortBits
                   [] OTHER -> NumberFormatException
        /\ StringToReal(s) = IF Strtod(Append(Bytes(s), NUL)) = s.size
                             THEN Bytes(s) ELSE NumberFormatException

(* Whatever a builder holds and however full its buffer is, the text of a number is
   put behind it whole, without the zero byte that vsnprintf writes, and the builder
   is returned; read again it is the number, but for an unsigned short of the upper
   half, which is refused.  Bytes are written in base 16, and not read back. *)
FormattedReadsBack ==
  Is("format") =>
    \A before \in {GrowableAdd(EmptyBuffer, [i \in 1 .. call[2] |-> 65])} :
    \A after \in {StringBuilderAdd(before, call[3], call[4])} :
    LET number == substring(result(after), before.size, after.size)
        text == Formatted(call[3], call[4])
    IN  /\ SubSeq(Content(after), 1, call[2]) = Content(before)
        /\ Bytes(number) = text
        /\ Content(StringBuilderAddReference(before, text)) = Content(after)
        /\ Content(StringBuilderFmtAdd(before, text)) = Content(after)
        /\ Bytes(StringFormat(text)) = text
        /\ Returned(call[3], after) = {after}
        /\ call[3] \notin {"Byte", "UByte"} =>
             StringToNumber(call[3], number) =
               IF call[3] = "UShort" /\ call[4] >= 2^(ShortBits - 1)
               THEN NumberFormatException ELSE call[4]

(* A builder to which strings and characters are added, each by a call of its own,
   holds them one behind the other.  What such a call returns is undefined, so a
   second one chained to it is not made. *)
BuildsText ==
  Is("text") =>
    LET first == StringBuilderAdd(EmptyBuffer, "SString", Part)
        second == StringBuilderAdd(first, "Char", call[5])
        third == StringBuilderAdd(second, "SString", charsToUTF8(call[4]))
    IN  UTF8ToChars(result(third)) = Append(call[2], call[5]) \o call[4]

(* Strings are kept as bytes, and every operation on them is one on characters. *)
StringsAreCharacters ==
  CharactersSurvive /\ SearchFindsCharacters /\ ComparedByCharacter /\ SplitsAndReplaces
  /\ BuildsText

(* A text read as a number gives its value or an exception, and a number written as a
   text is read back; of an unsigned short, only if it is one of a short as well. *)
NumbersReadBack == NumbersReadWhole /\ FormattedReadsBack

------------------------------------------------------------------------------
(* Sorting.  What goes with the i-th key is i and, of three arrays, i + 10. *)
Arrays == LET which == [i \in DOMAIN call[2] |-> i]
          IN  IF call[3] = 2 THEN <<call[2], which>>
              ELSE <<call[2], which, [i \in DOMAIN which |-> i + 10]>>
Rearranged(arrays) ==
  LET which == arrays[2]
  IN  /\ IsInjective(which) /\ \A i \in DOMAIN which : arrays[1][i] = call[2][which[i]]
      /\ Len(arrays) = 3 => \A i \in DOMAIN which : arrays[3][i] = which[i] + 10

(* The sorted arrays hold every tuple of the given ones once, the keys in order: no
   element is lost where one that is still needed is overwritten, also when they are
   first put in chunks by the high bits, of which one may hold all or none. *)
TuplesStayTogether ==
  Is("sort") =>
    LET ascending(a) == \A i \in 1 .. Len(a[1]) - 1 : a[1][i] <= a[1][i + 1]
        results == {sort3(Arrays), SortByChunks(Arrays, 2, call[4])}
                     \cup (IF call[3] = 2 THEN {sort2(Arrays)} ELSE {})
    IN  /\ \A a \in results : ascending(a) /\ Rearranged(a)
        /\ call[3] = 2 => LET gt == sort2Gt(Arrays)
                          IN  Rearranged(gt) /\ \A i \in 1 .. Len(gt[1]) - 1 : gt[1][i] >= gt[1][i + 1]

(* Two vertices of a generated graph are never scrambled to one id, and none to an id
   beyond the scale, whatever the values: multiplying by an odd number and reversing
   the low bits lose nothing of them. *)
IdsStayDistinct ==
  Is("scramble") =>
    {scramble(call[2], v, call[3], call[4]) : v \in 0 .. 2^call[2] - 1} = 0 .. 2^call[2] - 1
------------------------------------------------------------------------------
(* Memory. *)

(* Aligned elements lie inside the block that was asked for, wherever it begins. *)
AlignedInside ==
  Is("chunk") =>
    \A alignment \in {0, 1, 2, 4, 8} :
      LET n == call[2]
          first == AlignedMem(call[6], alignment)
      IN  /\ call[6] <= first
          /\ first + (n * call[5]) <= call[6] + ByteSize(alignment, n, call[5])
          /\ alignment > 0 => first % alignment = 0

(* Inserting into a growable memory of values moves what is behind and loses nothing,
   however full it is; of objects, as long as what moves does not overlap where it
   goes: they are assigned one by one from the first. *)
Old == [i \in 1 .. call[2] |-> i]
New == [i \in 1 .. call[3] |-> 100 + i]
InsertedBetween ==
  Is("chunk") /\ call[4] <= call[2] =>
    LET p == call[4]
        wanted == SubSeq(Old, 1, p) \o New \o SubSeq(Old, p + 1, call[2])
        full == Growable(Old)
        roomy == grow(full, call[2] + call[6])
    IN  \A g \in {full, roomy, shrink(roomy, call[6])} :
          /\ Items(g) = Old
          /\ Items(insert("value", g, p, New)) = wanted
          /\ call[2] - p <= call[3] => Items(insert("object", g, p, New)) = wanted

(* Two chunks written one behind the other are read back, each to its own end. *)
ChunksTravel ==
  Is("chunk") =>
    \A a, b \in {"value", "object"} :
      LET buf == serialize(b, New, serialize(a, Old, <<>>))
          first == deserialize(a, buf, 1)
          second == deserialize(b, buf, first.at)
      IN  first.mem = Old /\ second.mem = New /\ second.at = Len(buf) + 1

(* The pieces of a remote copy, none larger than one transfer may be, bring every
   element to its place and touch nothing beside them. *)
PiecesMakeTheWhole ==
  Is("chunk") =>
    LET dst == [i \in 1 .. call[2] + call[6] + 1 |-> 0] IN
    /\ \A i \in DOMAIN Pieces(call[2], call[5]) :
         Pieces(call[2], call[5])[i][2] * call[5] \in 1 .. MaxPiece
    /\ Arrived(Old, dst, call[6], call[5])
         = [i \in DOMAIN dst |-> IF i - call[6] \in 1 .. call[2] THEN i - call[6] ELSE 0]

(* Memory holds what was put into it: the alignment of a block, copies within a chunk,
   insertions, and copies between places. *)
MemoryAsAsked == AlignedInside /\ InsertedBetween /\ ChunksTravel /\ PiecesMakeTheWhole
------------------------------------------------------------------------------
(* Files.  Names and strings of many lengths, elements told apart by where they are. *)
Data ==
  [datatype |-> call[4], size |-> call[2],
   name |-> [a \in DOMAIN call[2] |-> (3 * call[3][1][a]) + a],
   elems |-> [p \in DOMAIN call[3] |-> [a \in DOMAIN call[2] |->
                [i \in 1 .. call[3][p][a] |->
                   LET bytes == IF call[2][a] = 0 THEN (p + i + call[3][1][1]) % 6 ELSE call[2][a] IN
                   [bytes |-> bytes, content |-> IF bytes = 0 THEN <<>> ELSE <<p, a, i>>]]]]]

(* What a team has written, header, names and the elements in their order, a team of
   any size reads again, from one file or from parts; no two fields share a byte.
   The write fails if a place has nothing to write, or if the strings of a block do
   not fill a multiple of eight bytes. *)
FilesReadBack ==
  Is("file") => \A parts \in {write(Data, call[6])} :
    LET all(elems) == [a \in DOMAIN call[2] |->
                         FlattenSeq([p \in DOMAIN elems |-> elems[p][a]])]
        refused == DividesByZero(Data) \/ StringsRefused(Data)
    IN  IF refused THEN parts \in {IOException, ArithmeticException}
        ELSE \A back \in {read(parts, call[5])} :
             /\ \A i \in DOMAIN parts : \A f, g \in parts[i].fields :
                  f = g \/ f[1] + f[2] <= g[1] \/ g[1] + g[2] <= f[1]
             /\ <<back.datatype, back.size, back.name>> = <<Data.datatype, Data.size, Data.name>>
             /\ back.spelling = [a \in DOMAIN call[2] |-> <<a>>]
             /\ back.udh = [i \in DOMAIN udhFields(call[4]) |-> <<i, call[4]>>]
             /\ Len(back.elems) = call[5] /\ all(back.elems) = all(Data.elems)

(* Handles that append never overwrite one another, wherever they read or seek between
   their writes: the file holds what was in it and every byte written, in the order of
   the writes.  A file created new is created once.  A file of HDFS written by one
   handle, created or appended to, holds the same as one of the operating system, and
   its size is what the file system then says. *)
AppendersKeepEverything ==
  Is("native") =>
    \A opened \in {constructor(Fresh(call[2]), "OS", call[3], call[4])} :
    \A both \in {constructor(opened, "OS", call[5], call[6])} :
    LET content == call[2]
        os == AfterSteps(both, call[7])
        writes(i) == LET h == call[7][i][1] IN
                     /\ call[7][i][2] = "write"
                     /\ \A k \in 1 .. i - 1 : call[7][k][1] = h => call[7][k][2] # "close"
        all == SetToSortSeq({i \in DOMAIN call[7] : writes(i)}, <)
        written == [k \in DOMAIN all |-> call[7][all[k]][3]]
        before == IF content = Absent THEN <<>> ELSE content
        steps == SelectSeq(call[7], LAMBDA step : step[1] = 1 /\ step[2] # "seek")
        alone(fs) == AfterSteps(constructor(Fresh(content), fs, call[3], call[4]), steps)
    IN  /\ {call[3], call[5]} = {AppendMode} /\ {call[4], call[6]} \subseteq {1, 2} =>
             os.content = before \o written
        /\ {call[3], call[5]} = {CreateNew} /\ call[4] \in 0 .. 2 =>
             /\ (opened.handle[1].error = <<>>) = (content = Absent)
             /\ ~both.handle[2].open
        /\ call[3] \in {AppendMode, Create} /\ call[4] = 1 =>
             /\ alone("HDFS").content = alone("OS").content
             /\ hdfsFileInfo("file", Len(alone("HDFS").content)).size = Len(alone("OS").content)
------------------------------------------------------------------------------
(* Calls from Python. *)
Alg == call[2]
Arg == call[3]
Asked == {<<Arg.fs[o], Arg.path[o][2]>> : o \in ToSet(Alg.outputs)}
\* What the driver takes for the paths: the text up to the next "=", of the last option.
Received == {<<Arg.fs[o], <<Head(Arg.path[o][2])>>>> :
               o \in {o \in ToSet(Alg.outputs) : Arg.path[o][2] # <<>>}}
Overriding == Arg.extra_options[1] = "list"
              /\ \E i \in DOMAIN Arg.extra_options[2] : Arg.extra_options[2][i][1] \in DOMAIN FileOf
FromFile == Alg # GenerateGraph /\ Arg.input = "FILE"
Plain == /\ FromFile => Len(Arg.input_path[2]) = 1
         /\ Asked = Received /\ Cardinality(Asked) = Len(Alg.outputs) /\ ~Overriding

(* A call that Python refuses leaves the disk as it was.  One that returns has read the
   graph it was given, as it was before the call, and counted the parts that its own
   driver wrote and no older ones, though the old output is deleted by one program,
   written by another and counted by a third: as long as rm deletes, no path contains
   "=" and the outputs are different places.  Such a call with a readable graph returns
   when every command works, but for the two algorithms that write a directory and
   look for a file. *)
CallsDoWhatWasAsked ==
  Is("command") => \A run \in {runAlgorithm(Alg, Arg, call[4], call[5])} :
    LET world == call[4]
        disk == call[5]
        returns == run.outcome \notin {ArgumentError, ConfigError, ScaleGraphError}
        graph == At(disk, Arg.input_fs, Arg.input_path[2])
    IN  /\ run.outcome = ArgumentError => run.disk = disk
        /\ \A key \in DOMAIN disk \ (Asked \cup Received) :
             key \in DOMAIN run.disk /\ run.disk[key] = disk[key]
        /\ returns /\ FromFile /\ Len(Arg.input_path[2]) = 1 => run.result.read = graph
        /\ returns /\ Plain /\ "keeps" \notin {world.os, world.hdfs} =>
             \A i \in DOMAIN Alg.outputs :
               run.outcome[i].numFiles = IF Alg.check = "dir" THEN Places ELSE 1
        /\ /\ world = [os |-> "ok", hdfs |-> "ok", mpirun |-> "ok"]
           /\ Plain /\ Arguments(Alg, Arg) # ArgumentError /\ Arg.extra_options[2] = <<>>
           /\ FromFile => /\ <<Arg.input_fs, Arg.input_path[2]>> \notin Asked
                          /\ graph # NoFile /\ "weight" \in graph.parts[0].header
           /\ Alg = MaxFlow => Numerals[Arg.source_id[2]] >= 0
           => returns = (Alg \notin {MinimumSpanningTree, SpectralClustering})
=============================================================================
