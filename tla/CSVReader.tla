------------------------------ MODULE CSVReader -------------------------------
(***************************************************************************)
(* CSV files written by CSVWriter or by another program, and read into a   *)
(* table by CSVReader at the places of a team.  The files are cut into     *)
(* splits, a list of them for each place (InputSplitter.split).  At each   *)
(* place one activity reads a split into the back buffer, chunk by chunk,  *)
(* exchanges the buffers and launches a subtask, which cuts the front      *)
(* buffer at the ends of lines into one part for each thread and has the   *)
(* parts parsed (SplitterContext).  The threads' rows are merged at the    *)
(* end (mergeResultHelper).                                                *)
(*                                                                         *)
(* Offsets count bytes from 0.  FileReader's own buffer is left out: its   *)
(* state is the offset in the file.                                        *)
(***************************************************************************)
EXTENDS CSVHelper

CONSTANTS Jobs,           \* what is read, by whom
          TypeName,       \* the name of a type in a header, for each type
          EOFException

ASSUME JobsAssumption ==
  \A j \in Jobs : {j.teamSize, j.nthreads} \subseteq Nat \ {0}

VARIABLES job, header, phase, splits, reader, buffers, front, numLauchTasks, subtask, rows, chunkSize
vars == <<job, header, phase, splits, reader, buffers, front, numLauchTasks, subtask, rows, chunkSize>>

Places == 0 .. job.teamSize - 1
Threads == 0 .. job.nthreads - 1
s_chunk_size == job.T_CHUNK_SIZE * job.nthreads
file(f) == job.files[f]

------------------------------------------------------------------------------
(* CSVWriter: a header at the first place, then the rows of the place.      *)

Join(parts) == FlattenSeq([i \in DOMAIN parts |->
                 IF i < Len(parts) THEN Append(parts[i], Comma) ELSE parts[i]])
InQuotes(s) == <<Quote>> \o s \o <<Quote>>
makeString(types, row) ==
  Join([c \in DOMAIN row |-> IF types[c] = "String" THEN InQuotes(row[c]) ELSE Numeral(row[c], 10)])
    \o <<LF>>
HeaderLine(types, names) ==
  Join([c \in DOMAIN types |->
         LET h == names[c] \o <<60>> \o TypeName[types[c]] \o <<62>>
         IN  IF types[c] = "String" THEN InQuotes(h) ELSE h]) \o <<LF>>
CSVWriter(types, names, parts) ==
  [r \in DOMAIN parts |->
     (IF r = 1 THEN HeaderLine(types, names) ELSE <<>>)
       \o FlattenSeq([i \in DOMAIN parts[r] |-> makeString(types, parts[r][i])])]

------------------------------------------------------------------------------
(* FileReader, and the splitters' steps over a line                         *)

\* Of a line with a carriage return anywhere the last byte is left out.
LineUpTo(text, at, stop) ==
  LET line == SubSeq(text, at + 1, stop - 1)
  IN  IF stop > Len(text) THEN [data |-> line, next |-> Len(text)]
      ELSE [data |-> IF CR \in ToSet(line) THEN Front(line) ELSE line, next |-> stop]
fastReadLine(text, at) ==
  IF at >= Len(text) THEN EOFException
  ELSE LineUpTo(text, at, Scan(text, at + 1, Len(text) + 1, LAMBDA b : b = LF))

\* Behind a quote in front of a comma or of the end of the line: the place of that
\* comma, or the end; 0 if there is none.  Behind another quote a byte is not looked at.
ClosingQuote(line) ==
  LET from[i \in 1 .. Len(line) + 2] ==
        LET next == skipSpace(line, i + 1, Len(line) + 1)
        IN  CASE i > Len(line) -> 0
              [] i <= Len(line) -> IF line[i] # Quote THEN from[i + 1]
                                   ELSE IF ReadableAt(line, next) \in {NUL, Comma} THEN next
                                   ELSE from[next + 1]
  IN  from[1]
QuotesFrom(line, i) == Cardinality({j \in i .. Len(line) : line[j] = Quote})

\* The lines up to one with such a quote, and on to where the quotes are even.
InFrontOf(data, rest) == IF rest = EOFException THEN rest ELSE [rest EXCEPT !.data = data \o @]
DQNextBreak(text, at) ==
  LET even[pos \in at .. Len(text), count \in 0 .. Len(text)] ==
        LET line == fastReadLine(text, pos)
        IN  IF count % 2 = 0 THEN [data |-> <<>>, next |-> pos]
            ELSE IF line = EOFException THEN EOFException
            ELSE InFrontOf(line.data, even[line.next, count + QuotesFrom(line.data, 1)])
      from[pos \in at .. Len(text)] ==
        LET line == fastReadLine(text, pos)
            stop == ClosingQuote(line.data)
        IN  IF line = EOFException THEN EOFException
            ELSE InFrontOf(line.data, IF stop = 0 THEN from[line.next]
                                      ELSE even[line.next, QuotesFrom(line.data, stop)])
  IN  IF at > Len(text) THEN EOFException ELSE from[at]

nextBreakData(text, ptr) ==
  IF header.includeDQ THEN DQCSVNextBreak(text, ptr) ELSE LineNextBreak(text, ptr)
nextBreakReader(text, at) ==
  IF header.includeDQ THEN DQNextBreak(text, at) ELSE fastReadLine(text, at)
numElems == Len(job.columnDef)

------------------------------------------------------------------------------
(* The splits                                                               *)

fileOffset(f) == IF f = 1 THEN header.dataOffset ELSE 0
numFiles == Len(job.files)
allSize == FoldLeft(LAMBDA sum, f : sum + Len(file(f)) - fileOffset(f), 0, [f \in 1 .. numFiles |-> f])
p_chunk_size == (allSize + job.teamSize - 1) \div job.teamSize

\* The reader starts at the beginning of the file, also where a header is left out.
FileSplits(f) ==
  LET size == Len(file(f))
      from[start \in 0 .. size, pos \in 0 .. size] ==
        LET next == nextBreakReader(file(f), pos + p_chunk_size)
        IN  IF size - start < (p_chunk_size * 3) \div 2
            THEN <<[path |-> f, start |-> start, end |-> size]>>
            ELSE IF next = EOFException THEN <<EOFException>>
            ELSE <<[path |-> f, start |-> start, end |-> next.next]>> \o from[next.next, next.next]
  IN  IF size = 0 THEN <<>> ELSE from[fileOffset(f), 0]
AllSplits ==
  IF numFiles = job.teamSize
  THEN [f \in 1 .. numFiles |-> [path |-> f, start |-> fileOffset(f), end |-> Len(file(f))]]
  ELSE FlattenSeq([f \in 1 .. numFiles |-> FileSplits(f)])

splits_per_place == (Len(splits) + job.teamSize - 1) \div job.teamSize
splits_here(p) ==
  SubSeq(splits, p * splits_per_place + 1, Min({(p + 1) * splits_per_place, Len(splits)}))

------------------------------------------------------------------------------
Init ==
  /\ job \in Jobs
  /\ header = NULL /\ phase = "header" /\ splits = <<>>
  /\ reader = [p \in Places |-> [pc |-> "open", split |-> 1, offset |-> 0, last |-> FALSE]]
  /\ buffers = [p \in Places |-> [b \in {0, 1} |-> <<>>]]
  /\ front = [p \in Places |-> 0]
  /\ numLauchTasks = [p \in Places |-> 0]
  /\ subtask = [p \in Places |-> {}]
  /\ rows = [p \in Places |-> [t \in Threads |-> <<>>]]
  /\ chunkSize = [p \in Places |-> [t \in Threads |-> <<>>]]
placeVars == <<reader, buffers, front, numLauchTasks, subtask, rows, chunkSize>>

(* The columns: the type a header names goes before the one that was asked for. *)
readHeader ==
  /\ phase = "header" /\ job.includeHeader
  /\ \E line \in {fastReadLine(file(1), 0)} : \E attrs \in {NativeCSVHeader(line.data)} :
     LET types(c) == IF attrs[c].type = NULL THEN {job.columnDef[c]}
                     ELSE {t \in DOMAIN TypeName : TypeName[t] = attrs[c].type}
     IN IF Len(attrs) < numElems \/ \E c \in 1 .. numElems : types(c) = {}
        THEN phase' = "thrown" /\ UNCHANGED header
        ELSE /\ phase' = "split"
             /\ header' = [names |-> [c \in 1 .. numElems |-> attrs[c].name],
                           types |-> [c \in 1 .. numElems |-> CHOOSE t \in types(c) : TRUE],
                           doubleQuoated |-> [c \in 1 .. numElems |-> attrs[c].doubleQuoated],
                           includeDQ |-> \E c \in 1 .. numElems : attrs[c].doubleQuoated,
                           dataOffset |-> line.next]
  /\ UNCHANGED <<job, splits, placeVars>>

(* Without a header the first byte of the data tells whether elements are quoted. *)
guessQuotes ==
  /\ phase = "header" /\ ~job.includeHeader
  /\ LET quoted == file(1)[skipSpace(file(1), 1, Len(file(1)))] = Quote
     IN header' = [names |-> NULL, types |-> job.columnDef,
                   doubleQuoated |-> [c \in 1 .. numElems |-> quoted],
                   includeDQ |-> quoted, dataOffset |-> 0]
  /\ phase' = "split"
  /\ UNCHANGED <<job, splits, placeVars>>

splitFiles ==
  /\ phase = "split"
  /\ splits' = AllSplits
  /\ phase' = IF EOFException \in ToSet(splits') THEN "thrown" ELSE "reading"
  /\ UNCHANGED <<job, header, placeVars>>

\* The next split of the place is opened; behind the last one the subtasks are awaited.
open(p) ==
  /\ phase = "reading" /\ reader[p].pc = "open"
  /\ LET k == reader[p].split IN
     reader' = [reader EXCEPT ![p] =
                  IF k > Len(splits_here(p)) THEN [@ EXCEPT !.pc = "finish"]
                  ELSE [@ EXCEPT !.pc = "fill", !.offset = splits_here(p)[k].start]]
  /\ UNCHANGED <<job, header, phase, splits, buffers, front, numLauchTasks, subtask, rows, chunkSize>>

\* A chunk and the rest of its last line, or all that remains.
fill(p) ==
  /\ reader[p].pc = "fill"
  /\ LET here == splits_here(p)[reader[p].split]
         text == file(here.path)
         start == reader[p].offset
         last == here.end - start < (s_chunk_size * 3) \div 2
         rest == nextBreakReader(text, start + s_chunk_size)
         data == IF last THEN SubSeq(text, start + 1, here.end)
                 ELSE SubSeq(text, start + 1, start + s_chunk_size) \o rest.data
     IN IF ~last /\ rest = EOFException
        THEN reader' = [reader EXCEPT ![p].pc = "finish"] /\ UNCHANGED buffers
        ELSE /\ buffers' = [buffers EXCEPT ![p][1 - front[p]] = data]
             /\ reader' = [reader EXCEPT ![p] =
                  [@ EXCEPT !.pc = "cycle", !.last = last,
                            !.offset = IF last THEN here.end ELSE rest.next]]
  /\ UNCHANGED <<job, header, phase, splits, front, numLauchTasks, subtask, rows, chunkSize>>

\* Mutant: no wait for the subtask before.
AnyTime(p) == TRUE
SubtasksDone(p) == numLauchTasks[p] = 0
cycleBuffers(p) ==
  /\ reader[p].pc = "cycle" /\ SubtasksDone(p)
  /\ front' = [front EXCEPT ![p] = 1 - @]
  /\ numLauchTasks' = [numLauchTasks EXCEPT ![p] = 1]
  /\ subtask' = [subtask EXCEPT ![p] = @ \cup
       {[split |-> reader[p].split, end |-> reader[p].offset, buffer |-> 0, parts |-> <<>>, left |-> {}]}]
  /\ reader' = [reader EXCEPT ![p] =
       IF @.last THEN [@ EXCEPT !.pc = "open", !.split = @ + 1] ELSE [@ EXCEPT !.pc = "fill"]]
  /\ UNCHANGED <<job, header, phase, splits, buffers, rows, chunkSize>>

\* One part for each thread, from the end of the last one to the end of a line.
Parts(data) ==
  LET size == Len(data)
      t_chunk_size == (size + job.nthreads - 1) \div job.nthreads
      end[t \in Threads] ==
        LET offset == IF t = 0 THEN 0 ELSE end[t - 1]
        IN  nextBreakData(data, Min({offset + t_chunk_size, size}) + 1) - 1
  IN  [t \in Threads |-> [start |-> Min({IF t = 0 THEN 0 ELSE end[t - 1], size}), end |-> end[t]]]
startSubtask(p, s) ==
  /\ s.parts = <<>>
  /\ subtask' = [subtask EXCEPT ![p] = (@ \ {s}) \cup
       {[s EXCEPT !.buffer = front[p], !.parts = Parts(buffers[p][front[p]]), !.left = Threads]}]
  /\ UNCHANGED <<job, header, phase, splits, reader, buffers, front, numLauchTasks, rows, chunkSize>>

ParseColumn(c, column) ==
  CASE header.types[c] = "None" -> column
    [] header.types[c] = "String" -> CSVParseStringElements(header.doubleQuoated[c], column)
    [] OTHER -> CSVParseElements(header.types[c], column)
ParseRows(elems) ==
  [i \in DOMAIN elems |->
     [c \in 1 .. numElems |-> ParseColumn(c, [k \in DOMAIN elems |-> elems[k][c]])[i]]]
\* Chunks of H_CHUNK_SIZE lines to the end of the part, column by column.  The part is
\* of the buffer as it was; should other data have come since, they may be shorter.
ReaderBuffer(buffer, part) ==
  LET data == buffer \o [i \in 1 .. Max({0, part.end - Len(buffer)}) |-> NUL]
      terminal == part.end + 1
      from[at \in part.start + 1 .. terminal] ==
        LET then(chunk) == ParseRows(chunk.rows) \o from[chunk.next]
        IN  IF at = terminal THEN <<>>
            ELSE then(CSVReaderParseChunk(data, at, terminal, H_CHUNK_SIZE, numElems))
  IN  from[part.start + 1]
\* Mutant: a chunk of which the thread has no lines is not counted.
NonEmptyCounted(sizes, n) == IF n = 0 THEN sizes ELSE Append(sizes, n)
Counted(sizes, n) == Append(sizes, n)
parse(p, s, t) ==
  /\ t \in s.left
  /\ \E parsed \in {ReaderBuffer(buffers[p][s.buffer], s.parts[t])} :
     /\ rows' = [rows EXCEPT ![p][t] = @ \o parsed]
     /\ chunkSize' = [chunkSize EXCEPT ![p][t] = Counted(@, Len(parsed))]
  /\ subtask' = [subtask EXCEPT ![p] = (@ \ {s}) \cup {[s EXCEPT !.left = @ \ {t}]}]
  /\ UNCHANGED <<job, header, phase, splits, reader, buffers, front, numLauchTasks>>

notifySubtaskCompletion(p, s) ==
  /\ s.parts # <<>> /\ s.left = {}
  /\ numLauchTasks' = [numLauchTasks EXCEPT ![p] = @ - 1]
  /\ subtask' = [subtask EXCEPT ![p] = @ \ {s}]
  /\ UNCHANGED <<job, header, phase, splits, reader, buffers, front, rows, chunkSize>>

merge ==
  /\ phase = "reading"
  /\ \A p \in Places : reader[p].pc = "finish" /\ subtask[p] = {}
  /\ phase' = "done"
  /\ UNCHANGED <<job, header, splits, placeVars>>

\* So that a state without a step is one where a place waits for ever.
ended == phase \in {"done", "thrown"} /\ UNCHANGED vars

Subtask(p) == \E s \in subtask[p] :
  \/ startSubtask(p, s)
  \/ \E t \in Threads : parse(p, s, t)
  \/ notifySubtaskCompletion(p, s)
Next == \/ readHeader \/ guessQuotes \/ splitFiles \/ merge \/ ended
        \/ \E p \in Places : open(p) \/ fill(p) \/ cycleBuffers(p) \/ Subtask(p)
Spec == Init /\ [][Next]_vars

------------------------------------------------------------------------------
(* The rows of a place, chunk by chunk and in each chunk thread by thread.  *)
mergeResult(p) ==
  LET before(t, k) == FoldLeft(+, 0, SubSeq(chunkSize[p][t], 1, k - 1))
      numChunks == Len(chunkSize[p][0])
      part(t, k) == SubSeq(rows[p][t], before(t, k) + 1, before(t, k + 1))
  IN  FlattenSeq([k \in 1 .. numChunks |->
        FlattenSeq([t \in 1 .. job.nthreads |-> part(t - 1, k)])])
Enabled == {c \in 1 .. numElems : header.types[c] # "None"}
Result == FlattenSeq([p \in 1 .. job.teamSize |-> mergeResult(p - 1)])

(* The names and types a header gives are those of the table. *)
HeaderAsWritten ==
  job.includeHeader /\ phase # "header" => header # NULL /\
    \A c \in 1 .. numElems : /\ header.names[c] = job.names[c]
                             /\ header.types[c] \in {job.types[c], "None"}

(* The table that is read is the table that was written, with its names and types:
   every row once, in the order of the files, with the values it was written from,
   wherever places, chunks and threads divide the text.  Reading fails for a table
   without rows only, of which there is nothing to divide. *)
RowsReadOnce ==
  /\ HeaderAsWritten
  /\ phase = "thrown" => job.data = <<>>
  /\ phase = "done" =>
       /\ Len(Result) = Len(job.data)
       /\ \A i \in DOMAIN Result, c \in Enabled : Result[i][c] = job.data[i][c]

(* The two buffers of a place.  A subtask parses the one in front while the reader
   fills the other; from when a buffer is filled until it is parsed nothing is
   written to it. *)
Unparsed(p) == (IF reader[p].pc = "cycle" THEN {1 - front[p]} ELSE {})
                 \cup (IF subtask[p] = {} THEN {} ELSE {front[p]})
FrontIsParsed == \A p \in Places : \A s \in subtask[p] : s.parts # <<>> => s.buffer = front[p]
BuffersKept == \A p \in Places : \A b \in Unparsed(p) : buffers'[p][b] = buffers[p][b]

(* "We must call the parse closure even if the data length is zero so that the parse
   closure can count the number of chunks": when the rows are merged all threads of a
   place have counted the same number of chunks, which is asked of the first only. *)
ChunksCounted ==
  phase = "done" =>
    \A p \in Places : \A t \in Threads : Len(chunkSize[p][t]) = Len(chunkSize[p][0])

(* No step writes to a buffer that is to be parsed, leaves a subtask with another
   buffer than the one in front, or merges what the threads have not all counted. *)
ChunksInTurn == [][BuffersKept /\ FrontIsParsed' /\ ChunksCounted']_vars
=============================================================================
