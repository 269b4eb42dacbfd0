----------------------------- MODULE MCCSVReader ------------------------------
(* Tables of a few short rows of different lengths, as CSVWriter writes them  *)
(* and as other programs do: carriage returns, no header, no line end at the  *)
(* end of the file, spaces, columns that are left out.                        *)
EXTENDS CSVReader

MCTypeName == [t \in {"Long", "String"} |-> IF t = "Long" THEN <<76>> ELSE <<83>>]
names == <<<<110>>, <<109, 50>>>>
Value(type, k) == IF type = "Long" THEN <<5, -12, 107>>[k] ELSE <<<<97>>, <<>>, <<98, 99, 100>>>>[k]
Row(types, k, j) == [c \in DOMAIN types |-> Value(types[c], IF c = 1 THEN k ELSE j)]

Job(types, data, files, teamSize, nthreads, T, includeHeader, columnDef) ==
  [types |-> types, names |-> SubSeq(names, 1, Len(types)), data |-> data, files |-> files,
   teamSize |-> teamSize, nthreads |-> nthreads, T_CHUNK_SIZE |-> T,
   includeHeader |-> includeHeader, columnDef |-> columnDef]

Pairs == (1 .. 3) \X {1, 2}
Tables(types, n) == {[i \in 1 .. m |-> Row(types, ks[i][1], ks[i][2])] :
                        <<m, ks>> \in UNION {{k} \X [1 .. k -> Pairs] : k \in 0 .. n}}

\* Written by one or two places, read by one or two.
Written(types, n, chunks, teams) ==
  {Job(types, data, CSVWriter(types, names, IF team[1] = 1 THEN <<data>>
          ELSE <<SubSeq(data, 1, Min({1, Len(data)})), SubSeq(data, 2, Len(data))>>),
       team[2], nthreads, T, TRUE, types) :
     data \in Tables(types, n), team \in teams, nthreads \in 1 .. 2, T \in chunks}

\* Another program's line ends, with a tab in front of the first element, a third column,
\* a header with spaces and with one type, or none, and nothing behind the last line.
\* Strings without quotes, a second column that is not wanted.
Line(row) == <<9>> \o Join([c \in DOMAIN row |-> row[c]] \o <<<<120>>>>) \o <<CR, LF>>
Texts(types, data) ==
  FlattenSeq([i \in DOMAIN data |-> Line([c \in DOMAIN types |->
    IF types[c] = "Long" THEN Numeral(data[i][c], 10) ELSE data[i][c]])])
Titles == <<names[1] \o <<32, 60, 32, 76, 32, 62>>, names[2] \o <<32>>>>
Foreign(types, includeHeader) ==
  {Job(types, data, <<(IF includeHeader THEN Line(Titles) ELSE <<>>)
                        \o SubSeq(Texts(types, data), 1, Len(Texts(types, data)) - 2)>>,
       teamSize, nthreads, T, includeHeader, columnDef) :
     data \in Tables(types, 2) \ {<<>>}, teamSize \in 1 .. 2, nthreads \in 1 .. 2, T \in {2, 4},
     columnDef \in {types, <<types[1], "None">>, <<types[1]>>}}

\* Elements with separators in quotes and with doubled quotes, in one chunk.
Odd == <<<<44, 10>>, <<34>>, <<97, 34, 34, 44>>>>
Doubled(e) == FlattenSeq([i \in DOMAIN e |-> IF e[i] = Quote THEN <<Quote, Quote>> ELSE <<e[i]>>])
OddStrings ==
  {Job(<<"String", "String">>, <<<<e, f>>, <<f, e>>>>,
       <<HeaderLine(<<"String", "String">>, names)
           \o FlattenSeq([i \in 1 .. 2 |-> Join(<<InQuotes(Doubled(<<e, f>>[i])),
                                                 InQuotes(Doubled(<<f, e>>[i]))>>) \o <<LF>>])>>,
       1, nthreads, 40, TRUE, <<"String", "String">>) : e, f \in ToSet(Odd), nthreads \in 1 .. 2}

AllTeams == (1 .. 2) \X (1 .. 2)
\* Elements in quotes are cut at the ends of files only.
WholeFiles == AllTeams \ {<<1, 2>>}
MCJobs == Written(<<"Long", "Long">>, 2, {1, 3}, AllTeams)
          \cup Written(<<"String">>, 2, {40}, WholeFiles)
          \cup Written(<<"Long", "String">>, 1, {40}, WholeFiles)
          \cup Foreign(<<"Long", "Long">>, FALSE) \cup Foreign(<<"Long", "String">>, TRUE)
          \cup OddStrings
MCQuotedJobs == Written(<<"String", "Long">>, 2, {3}, {<<1, 1>>, <<1, 2>>})
=============================================================================
