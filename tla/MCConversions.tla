---------------------------- MODULE MCConversions -----------------------------
(* Characters of one, two and three bytes, at the ends of their ranges: two of *)
(* them have bytes in common.  " -189.": blank, sign, digits, point.           *)
EXTENDS Conversions
MCChars == {65, 233, 8364, 65535}
MCFileSteps == {<<i, "write", 10 + i>> : i \in 1 .. 2} \cup {<<1, "read">>, <<2, "close">>}
               \cup {<<i, "seek", 0, 0>> : i \in 1 .. 2}
MCNumeralBytes == {32, 45, 46, 49, 56}

\* Calls from Python.  A path of two parts has a "=" in it.
Str(path) == <<"str", path>>
In(input, path, fs, scale) ==
  [input |-> input, input_path |-> path, input_fs |-> fs, input_rmat_scale |-> scale]
MCInputs == {In("FILE", Str(<<"in">>), fs, <<"int", "8">>) : fs \in {"OS", "HDFS", "other"}}
            \cup {In("FILE", path, "OS", <<"int", "8">>) : path \in {<<"None", <<>>>>, Str(<<"in", "x">>)}}
            \cup {In("RMAT", Str(<<"in">>), "OS", <<type, "1">>) : type \in {"int", "str"}}
            \cup {In("other", Str(<<"in">>), "OS", <<"int", "8">>)}
Out(path, fs, path2, fs2) ==
  [path |-> [o \in {"output", "output1", "output2"} |-> IF o = "output2" THEN path2 ELSE path],
   fs |-> [o \in {"output", "output1", "output2"} |-> IF o = "output2" THEN fs2 ELSE fs]]
MCOutputs == {Out(Str(<<"out">>), fs, Str(<<"out2">>), fs2) : fs, fs2 \in {"OS", "HDFS"}}
             \cup {Out(Str(<<"out">>), "OS", Str(<<"out">>), fs2) : fs2 \in {"OS", "other"}}
             \cup {Out(path, "OS", Str(<<"out2">>), "OS") :
                     path \in {Str(<<"in">>), Str(<<"out", "x">>), <<"None", <<>>>>}}
MCFlows == {[source_id |-> s, sink_id |-> <<"int", "1">>] :
              s \in {<<"int", "0">>, <<"str", "1">>, <<"str", "x">>, <<"int", "-1">>, <<"None", "x">>}}
MCExtraOptions ==
  {<<"str", <<>>>>}
  \cup {<<"list", options>> : options \in
         {<< >>, << <<"--unknown">> >>, << <<"--pr-niter">> >>, << <<"--pr-niter", "x">> >>,
          << <<"--output-data-file", "other">> >>, << <<"--bc-weighted", "true">> >>,
          << <<"--input-data-file-weight-constant", "0">>, <<"--bc-weighted", "true">> >>,
          << <<"--input-data-file-weight-random">>, <<"--input-data-file-renumbering">> >>}}
World(os, hdfs, mpirun) == [os |-> os, hdfs |-> hdfs, mpirun |-> mpirun]
MCWorlds == {World("ok", "ok", m) : m \in {"ok", "raises", "dies before", "dies after"}}
            \cup {World(fails, "ok", "ok") : fails \in {"raises", "keeps"}}
            \cup {World("ok", fails, "ok") : fails \in {"raises", "no dir", "keeps"}}
\* The graph, with or without weights, or none; what an earlier run of more places left.
Before(n, header) == [p \in 0 .. n - 1 |-> [by |-> "before", lines |-> 2, header |-> header]]
Graphs == {<<>>} \cup {[key \in {<<fs, <<"in">>>> : fs \in {"OS", "HDFS"}} |->
                         [form |-> "file", parts |-> Before(1, {"source", "target"} \cup more)] ] :
                       more \in {{}, {"weight"}}}
Leftovers == {<<>>} \cup {[key \in {<<fs, <<o>>>> : fs \in {"OS", "HDFS"}, o \in {"out", "out2"}} |->
                             [form |-> form, parts |-> Before(IF form = "dir" THEN 3 ELSE 1, {"old"})]] :
                           form \in {"dir", "file"}}
MCDisks == {graph @@ old : graph \in Graphs, old \in Leftovers}
=============================================================================
