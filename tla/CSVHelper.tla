------------------------------ MODULE CSVHelper -------------------------------
(***************************************************************************)
(* The parser of CSV files (CSVHelper.cc): where an element ends, where a  *)
(* line ends, the columns a header names, the elements of a chunk of lines *)
(* and the values they stand for.                                          *)
(*                                                                         *)
(* A text is a sequence of bytes, a pointer an index into it, and terminal *)
(* the index behind its last byte; a byte there can be read and is not a   *)
(* quote.  An element the parser does not find is NULL.                    *)
(***************************************************************************)
EXTENDS Strings

CONSTANTS H_CHUNK_SIZE,   \* lines whose elements are converted at once
          NULL

LF == 10
CR == 13
Quote == 34
Comma == 44
ReadableAt(text, i) == IF i \in DOMAIN text THEN text[i] ELSE NUL
\* The first place from ptr on with a byte of the kind, or terminal.
Scan(text, ptr, terminal, Is(_)) ==
  Min({i \in ptr .. terminal - 1 : Is(text[i])} \cup {terminal})

------------------------------------------------------------------------------
(* Elements                                                                 *)

Element(start, end, next, last, quoted) ==
  [start |-> start, end |-> end, next |-> next, lastElement |-> last, doubleQuoated |-> quoted]

\* Of a run of quotes every second one closes, unless a quote follows it.
Closes(text, start, i) ==
  /\ text[i] = Quote /\ ReadableAt(text, i + 1) # Quote
  /\ Cardinality({j \in start .. i : text[j] = Quote}) % 2 = 1
QuotedElement(text, start, terminal) ==
  LET end == Min({i \in start .. terminal - 1 : Closes(text, start, i)} \cup {terminal})
      stop == Scan(text, end, terminal, LAMBDA b : b \in {LF, Comma})
  IN  IF stop = terminal THEN Element(start, end, terminal, TRUE, TRUE)
      ELSE Element(start, end, stop + 1, text[stop] = LF, TRUE)

\* A carriage return ends the element, the last one where there are several.
PlainElement(text, start, terminal) ==
  LET stop == Scan(text, start, terminal, LAMBDA b : b \in {LF, Comma})
      crs == {i \in start .. stop - 1 : text[i] = CR}
  IN  IF stop = terminal THEN Element(start, terminal, terminal, TRUE, FALSE)
      ELSE IF text[stop] = LF
      THEN Element(start, IF crs = {} THEN stop ELSE Max(crs), stop + 1, TRUE, FALSE)
      ELSE Element(start, stop, stop + 1, FALSE, FALSE)

ElementAt(text, p, terminal) ==
  IF p = terminal THEN Element(p, p, p, TRUE, FALSE)
  ELSE CASE text[p] = LF -> Element(p, p, p + 1, TRUE, FALSE)
         [] text[p] = Quote -> QuotedElement(text, p + 1, terminal)
         [] OTHER -> PlainElement(text, p, terminal)
nextElement(text, ptr, terminal) ==
  ElementAt(text, Scan(text, ptr, terminal, LAMBDA b : b = LF \/ b >= 32), terminal)

\* A byte is signed: those of characters of several bytes count as spaces.
IsSpace(b) == b <= 32 \/ b >= 128
skipSpace(text, ptr, end) == Scan(text, ptr, end, LAMBDA b : ~IsSpace(b))
trimSpace(text, end, begin) ==
  Max({i \in begin .. end - 1 : ~IsSpace(text[i])} \cup {begin - 1}) + 1

------------------------------------------------------------------------------
(* The header line: name<type>, the type left out or not                    *)

CSVAttribute(text, p) ==
  LET name == skipSpace(text, p.start, p.end)
      open == Scan(text, name, p.end, LAMBDA b : b = 60)
      type == skipSpace(text, open + 1, p.end)
      close == Scan(text, type, p.end, LAMBDA b : b = 62)
      includeType == open < p.end /\ close < p.end
      nameEnd == trimSpace(text, open, name)
  IN  [name |-> SubSeq(text, name, nameEnd - 1),
       type |-> IF includeType THEN SubSeq(text, type, trimSpace(text, close, type) - 1)
                ELSE NULL,
       doubleQuoated |-> p.doubleQuoated]
NativeCSVHeader(line) ==
  LET terminal == Len(line) + 1
      from[ptr \in 1 .. terminal] ==
        LET p == nextElement(line, ptr, terminal)
        IN  <<CSVAttribute(line, p)>> \o (IF p.lastElement THEN <<>> ELSE from[p.next])
  IN  from[1]

------------------------------------------------------------------------------
(* Where a text can be cut: behind the line that reaches over the place     *)

LineNextBreak(text, ptr) ==
  Min({Scan(text, ptr, Len(text) + 1, LAMBDA b : b = LF) + 1, Len(text) + 1})
LineEndAndNextBreak(text, ptr) ==
  LET stop == Scan(text, ptr, Len(text) + 1, LAMBDA b : b = LF)
      cr == \E i \in ptr .. stop - 1 : text[i] = CR
  IN  <<IF cr THEN stop - 1 ELSE stop, LineNextBreak(text, ptr)>>
\* The search for a separator behind a quote begins at the quote itself and gives up
\* there, whatever follows: a text with quoted elements is never cut in memory.
DQCSVNextBreak(text, ptr) == Len(text) + 1

------------------------------------------------------------------------------
(* The elements of a chunk                                                  *)

\* The elements of a line in the order of the columns; those behind them are skipped.
ParseLine(text, ptr, terminal, numElems) ==
  LET from[k \in 1 .. numElems + 1, at \in ptr .. terminal] ==
        LET p == nextElement(text, at, terminal)
            here == IF k > numElems THEN <<>> ELSE <<SubSeq(text, p.start, p.end - 1)>>
        IN  IF p.lastElement
            THEN [elems |-> here \o [j \in 1 .. numElems - k |-> NULL], next |-> p.next]
            ELSE [from[Min({k + 1, numElems + 1}), p.next] EXCEPT !.elems = here \o @]
  IN  from[1, ptr]

\* At most stride lines, and where the next one begins.
CSVReaderParseChunk(text, ptr, terminal, stride, numElems) ==
  LET from[i \in 0 .. stride, at \in ptr .. terminal] ==
        IF i = stride \/ (i > 0 /\ at = terminal) THEN [rows |-> <<>>, next |-> at]
        ELSE LET then(line) == [from[i + 1, line.next] EXCEPT !.rows = <<line.elems>> \o @]
             IN  then(ParseLine(text, at, terminal, numElems))
  IN  from[0, ptr]

------------------------------------------------------------------------------
(* Values of elements                                                       *)

\* The element as a C string, its first zero byte behind it.
strtot(type, elem) ==
  LET c == Append(elem, NUL)
      s == SString(c, 0, Len(elem))
      v == Strtol(c).value
  IN  CASE type = "Boolean" -> StringToBoolean(s)
        [] type = "Char" -> UTF8_DECODE_CHAR(s, 0)
        [] type \in {"Byte", "UByte", "Short", "UShort"} -> Truncated(Truncated(v, "Int"), type)
        [] type \in {"Int", "UInt", "Long", "ULong"} -> Truncated(v, type)
        [] type \in {"Float", "Double"} -> SubSeq(c, 1, Strtod(c))

Zero(type) == CASE type = "Boolean" -> FALSE
                [] type \in {"Float", "Double"} -> <<48>>
                [] OTHER -> 0
CSVParseElements(type, elems) ==
  [i \in DOMAIN elems |-> IF elems[i] = NULL THEN Zero(type) ELSE strtot(type, elems[i])]

\* Of two quotes in a quoted element one is kept.
Undoubled(elem) ==
  LET from[off \in 1 .. Len(elem) + 1] ==
        IF off > Len(elem) THEN <<>>
        ELSE LET at == IF elem[off] = Quote /\ ReadableAt(elem, off + 1) = Quote
                       THEN off + 1 ELSE off
             IN  <<elem[at]>> \o from[at + 1]
  IN  from[1]
CSVParseStringElements(doubleQuoated, elems) ==
  [i \in DOMAIN elems |-> CASE elems[i] = NULL -> <<>>
                            [] elems[i] # NULL -> IF doubleQuoated THEN Undoubled(elems[i])
                                                  ELSE elems[i]]
=============================================================================
