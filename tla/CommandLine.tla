------------------------------ MODULE CommandLine ------------------------------
(***************************************************************************)
(* python/scalegraph/graphalgorithm.py and the program it starts,          *)
(* api/ApiDriver.x10: a call of an algorithm from Python deletes the old   *)
(* output, runs the driver under mpirun and counts what it wrote.          *)
(*                                                                         *)
(* The two agree on nothing but text: options "--name=value", where the    *)
(* driver looks only as far as the second "=", a line of JSON, and files.  *)
(* A text is a sequence of its parts between "=".  A Python value is a     *)
(* pair of its type and its text.  Paths are not empty; options that only  *)
(* set a parameter of an algorithm stand for each other.                   *)
(*                                                                         *)
(* The disk maps <<file system, path>> to a file or a directory: its parts *)
(* by number, each with its lines and its header, and who wrote it.  The   *)
(* commands that are started may fail: "raises" means they cannot be       *)
(* started, "keeps" that nothing is deleted, for rm's status is not read.  *)
(***************************************************************************)
EXTENDS Integers, SequencesExt

CONSTANTS Places,   \* how many places mpirun starts
          NoFile,   \* no file
          ArgumentError, ConfigError, ScaleGraphError

At(disk, fs, path) == IF <<fs, path>> \in DOMAIN disk THEN disk[<<fs, path>>] ELSE NoFile
Without(disk, fs, path) == [key \in DOMAIN disk \ {<<fs, path>>} |-> disk[key]]

-----------------------------------------------------------------------------
(***************************************************************************)
(* Python: arguments become options.                                       *)
(***************************************************************************)
FileArgument(file, os, hdfs, path, fs) ==
  IF path[1] = "str" /\ fs \in {"OS", "HDFS"}
  THEN << <<file>> \o path[2], <<IF fs = "OS" THEN os ELSE hdfs>> >>
  ELSE ArgumentError

ScaleArgument(scale) ==
  IF scale[1] = "int" THEN << <<"--input-data-rmat-scale", scale[2]>> >> ELSE ArgumentError

checkInputArgument(a) ==
  CASE a.input = "FILE" ->
         FileArgument("--input-data-file", "--input-fs-os", "--input-fs-hdfs", a.input_path, a.input_fs)
    [] a.input = "RMAT" ->
         IF ScaleArgument(a.input_rmat_scale) = ArgumentError THEN ArgumentError
         ELSE << <<"--input-data-rmat">> >> \o ScaleArgument(a.input_rmat_scale)
    [] OTHER -> ArgumentError

checkOutputArgument(a) ==
  FileArgument("--output-data-file", "--output-fs-os", "--output-fs-hdfs",
               a.path["output"], a.fs["output"])
checkOutput1Argument(a) ==
  FileArgument("--output1-data-file", "--output1-fs-os", "--output1-fs-hdfs",
               a.path["output1"], a.fs["output1"])
checkOutput2Argument(a) ==
  FileArgument("--output2-data-file", "--output2-fs-os", "--output2-fs-hdfs",
               a.path["output2"], a.fs["output2"])

checkExtraArgument(a) ==
  IF a.extra_options[1] = "list" THEN a.extra_options[2] ELSE ArgumentError

(* What int() and Int.parse make of a text. *)
Numerals == [t \in {"-1", "0", "1", "8"} |->
               CASE t = "-1" -> -1 [] t = "0" -> 0 [] t = "1" -> 1 [] t = "8" -> 8]
checkSourceSinkArgument(a) ==
  LET ids == {a.source_id, a.sink_id} IN
  IF \/ \E id \in ids : id[1] = "None" \/ id[2] \notin DOMAIN Numerals
     \/ a.source_id[2] = a.sink_id[2]
  THEN ArgumentError
  ELSE << <<"--mf-source-id", a.source_id[2]>>, <<"--mf-sink-id", a.sink_id[2]>> >>

-----------------------------------------------------------------------------
(***************************************************************************)
(* The algorithms: the name the driver knows, the outputs and the check    *)
(* that counts them.                                                       *)
(***************************************************************************)
Algorithm(name, outputs, check) ==
  [algorithmName |-> name, outputs |-> outputs, check |-> check]
GenerateGraph              == Algorithm("gen", <<"output">>, "dir")
PageRank                   == Algorithm("pr", <<"output">>, "dir")
DegreeDistribution         == Algorithm("dd", <<"output">>, "dir")
BetweennessCentrality      == Algorithm("bc", <<"output">>, "dir")
HyperANF                   == Algorithm("hanf", <<"output">>, "file")
StronglyConnectedComponent == Algorithm("scc", <<"output1", "output2">>, "dir")
MinimumSpanningTree        == Algorithm("mst", <<"output">>, "file")
MaxFlow                    == Algorithm("mf", <<>>, "result")
SpectralClustering         == Algorithm("sc", <<"output">>, "file")

Arguments(alg, a) ==
  LET checked == << IF alg = GenerateGraph THEN ScaleArgument(a.input_rmat_scale)
                    ELSE checkInputArgument(a) >>
                 \o [i \in DOMAIN alg.outputs |->
                       CASE alg.outputs[i] = "output" -> checkOutputArgument(a)
                         [] alg.outputs[i] = "output1" -> checkOutput1Argument(a)
                         [] alg.outputs[i] = "output2" -> checkOutput2Argument(a)]
                 \o (IF alg = MaxFlow THEN <<checkSourceSinkArgument(a)>> ELSE <<>>)
                 \o <<checkExtraArgument(a)>>
  IN  IF \E i \in DOMAIN checked : checked[i] = ArgumentError THEN ArgumentError
      ELSE FlattenSeq(checked)

-----------------------------------------------------------------------------
(***************************************************************************)
(* Python: the old output is deleted, the new output is counted.           *)
(***************************************************************************)
cleanOutputOS(world, disk, path) ==
  CASE world.os = "raises" -> ConfigError
    [] world.os = "keeps" -> disk
    [] OTHER -> Without(disk, "OS", path)

checkAvailHDFS(world) == world.hdfs \notin {"raises", "no dir"}
cleanOutputHDFS(world, disk, path) ==
  IF world.hdfs = "keeps" THEN disk ELSE Without(disk, "HDFS", path)

(* Mutant: output of the operating system's files is left where it is. *)
cleanOutputOnHDFS(world, disk, path, fs) ==
  CASE fs = "OS" -> disk
    [] fs = "HDFS" /\ ~checkAvailHDFS(world) -> ConfigError
    [] OTHER -> cleanOutputHDFS(world, disk, path)
cleanOutput(world, disk, path, fs) ==
  CASE fs = "OS" -> cleanOutputOS(world, disk, path)
    [] fs = "HDFS" /\ ~checkAvailHDFS(world) -> ConfigError
    [] OTHER -> cleanOutputHDFS(world, disk, path)

(* ls, wc and head, where there is what they look for. *)
Lines(content) == FoldFunction(LAMBDA part, sum : sum + part.lines, 0, content.parts)
Counted(content, form) ==
  IF content # NoFile /\ content.form = form /\ 0 \in DOMAIN content.parts
  THEN [numFiles |-> Cardinality(DOMAIN content.parts), numLines |-> Lines(content),
        header |-> content.parts[0].header]
  ELSE ConfigError
checkOutputDirOS(disk, path)    == Counted(At(disk, "OS", path), "dir")
checkOutputFileOS(disk, path)   == Counted(At(disk, "OS", path), "file")
checkOutputDirHDFS(disk, path)  == Counted(At(disk, "HDFS", path), "dir")
checkOutputFileHDFS(disk, path) == Counted(At(disk, "HDFS", path), "file")
checkOutputDir(disk, path, fs) ==
  IF fs = "OS" THEN checkOutputDirOS(disk, path) ELSE checkOutputDirHDFS(disk, path)
checkOutputFile(disk, path, fs) ==
  IF fs = "OS" THEN checkOutputFileOS(disk, path) ELSE checkOutputFileHDFS(disk, path)

-----------------------------------------------------------------------------
(***************************************************************************)
(* The driver: options become settings.                                    *)
(***************************************************************************)
SUCCESS == 0
ERROR_INVALID_OPTION == 30002
ERROR_NO_OPTION_VALUE == 30004
ERROR_INVALID_OPTION_VALUE == 30005
ERROR_OPTION_REQUIRED == 30006
ERROR_INTERNAL == 39999

OutputNames == {"output", "output1", "output2"}
FsOf == [option \in {"--output-fs-os", "--output-fs-hdfs", "--output1-fs-os", "--output1-fs-hdfs",
                     "--output2-fs-os", "--output2-fs-hdfs"} |->
           CASE option = "--output-fs-os"    -> <<"output", "OS">>
             [] option = "--output-fs-hdfs"  -> <<"output", "HDFS">>
             [] option = "--output1-fs-os"   -> <<"output1", "OS">>
             [] option = "--output1-fs-hdfs" -> <<"output1", "HDFS">>
             [] option = "--output2-fs-os"   -> <<"output2", "OS">>
             [] option = "--output2-fs-hdfs" -> <<"output2", "HDFS">>]
FileOf == [option \in {"--output-data-file", "--output1-data-file", "--output2-data-file"} |->
             CASE option = "--output-data-file" -> "output"
               [] option = "--output1-data-file" -> "output1"
               [] option = "--output2-data-file" -> "output2"]
Switches == {"--input-fs-os", "--input-fs-hdfs", "--input-data-rmat",
             "--input-data-file-renumbering", "--input-data-file-weight-csv",
             "--input-data-file-weight-random"} \cup DOMAIN FsOf
NumberOptions == {"--input-data-rmat-scale", "--input-data-file-weight-constant",
                  "--mf-source-id", "--mf-sink-id", "--pr-niter"}
Valued == {"--input-data-file", "--bc-weighted"} \cup NumberOptions \cup DOMAIN FileOf
dirArgKeywords == Switches \cup Valued

(* The weights of an algorithm unless options say more. *)
DefaultWeight(name) ==
  CASE name = "gen" -> "random" [] name \in {"mst", "mf", "sc"} -> "csv" [] OTHER -> "constant"
Settings(name) ==
  [inputFs |-> "OS", input |-> "RMAT", inputFile |-> <<>>, scale |-> 8,
   weight |-> DefaultWeight(name), constant |-> 0,
   fs |-> [o \in OutputNames |-> "OS"], file |-> [o \in OutputNames |-> <<>>],
   source |-> -1, sink |-> -1, status |-> SUCCESS]

(* One option that has its value; only the part behind the first "=" is used. *)
Taken(s, option) ==
  LET name == option[1]
      value == option[2]
  IN  CASE name = "--input-fs-os"    -> [s EXCEPT !.inputFs = "OS"]
        [] name = "--input-fs-hdfs"  -> [s EXCEPT !.inputFs = "HDFS"]
        [] name = "--input-data-file" -> [s EXCEPT !.input = "FILE", !.inputFile = <<value>>]
        [] name = "--input-data-file-renumbering" -> [s EXCEPT !.input = "FILE"]
        [] name = "--input-data-rmat" -> [s EXCEPT !.input = "RMAT"]
        [] name = "--input-data-rmat-scale" -> [s EXCEPT !.scale = Numerals[value]]
        [] name = "--input-data-file-weight-csv" -> [s EXCEPT !.weight = "csv"]
        [] name = "--input-data-file-weight-random" -> [s EXCEPT !.weight = "random"]
        [] name = "--input-data-file-weight-constant" ->
             [s EXCEPT !.weight = "constant", !.constant = Numerals[value]]
        [] name = "--bc-weighted" ->
             IF value = "true" /\ s.weight = "constant" /\ s.constant = 0
             THEN [s EXCEPT !.weight = "csv"] ELSE s
        [] name \in DOMAIN FsOf -> [s EXCEPT !.fs[FsOf[name][1]] = FsOf[name][2]]
        [] name \in DOMAIN FileOf -> [s EXCEPT !.file[FileOf[name]] = <<value>>]
        [] name = "--mf-source-id" -> [s EXCEPT !.source = Numerals[value]]
        [] name = "--mf-sink-id" -> [s EXCEPT !.sink = Numerals[value]]
        [] OTHER -> s

WithOption(s, option) ==
  CASE s.status # SUCCESS -> s
    [] option[1] \notin dirArgKeywords -> [s EXCEPT !.status = ERROR_INVALID_OPTION]
    [] option[1] \in Valued /\ Len(option) < 2 -> [s EXCEPT !.status = ERROR_NO_OPTION_VALUE]
    [] option[1] \in NumberOptions /\ Len(option) > 1 /\ option[2] \notin DOMAIN Numerals ->
         [s EXCEPT !.status = ERROR_INVALID_OPTION_VALUE]
    [] OTHER -> Taken(s, option)

checkOptionValidity(name, s) ==
  CASE name \in {"gen", "pr", "mst", "bc", "hanf", "sc"} /\ s.file["output"] = <<>> ->
         ERROR_OPTION_REQUIRED
    [] name = "scc" /\ <<>> \in {s.file["output1"], s.file["output2"]} -> ERROR_OPTION_REQUIRED
    [] name = "mf" /\ (s.source < 0 \/ s.sink < 0) -> ERROR_OPTION_REQUIRED
    [] name = "mf" /\ s.source = s.sink -> ERROR_INVALID_OPTION_VALUE
    [] OTHER -> SUCCESS

-----------------------------------------------------------------------------
(***************************************************************************)
(* The driver: a graph is read or made, and the results are written.       *)
(***************************************************************************)
Generated == [form |-> "generated"]
Headers == [name \in {"gen", "pr", "dd", "bc", "hanf", "mst", "sc"} |->
              IF name = "gen" THEN {"source", "target", "weight"} ELSE {name}]

(* The columns are found by their names. *)
makeGraphFromFile(disk, s) ==
  LET content == At(disk, s.inputFs, s.inputFile)
      columns == {"source", "target"} \cup (IF s.weight = "csv" THEN {"weight"} ELSE {})
  IN  IF content # NoFile /\ 0 \in DOMAIN content.parts /\ columns \subseteq content.parts[0].header
      THEN content ELSE NoFile
makeGraph(disk, s) == IF s.input = "RMAT" THEN Generated ELSE makeGraphFromFile(disk, s)

NewPart(p, header) == [by |-> "now", lines |-> p + 1, header |-> header]
(* CSV.write: a part for each place in a directory, made if it is not there; a place
   that cannot open its part prints the exception and goes on. *)
WriteDir(disk, fs, path, header) ==
  LET old == At(disk, fs, path)
      parts == [p \in 0 .. Places - 1 |-> NewPart(p, header)]
  IN  CASE old = NoFile -> (<<fs, path>> :> [form |-> "dir", parts |-> parts]) @@ disk
        [] old # NoFile /\ old.form = "file" -> disk
        [] OTHER -> (<<fs, path>> :> [form |-> "dir", parts |-> parts @@ old.parts]) @@ disk
(* FileWriter: cannot open a directory. *)
WriteFile(disk, fs, path, header) ==
  LET old == At(disk, fs, path) IN
  IF old # NoFile /\ old.form = "dir" THEN NoFile
  ELSE (<<fs, path>> :> [form |-> "file", parts |-> (0 :> NewPart(0, header))]) @@ disk

callHyperANF(disk, s) == WriteFile(disk, s.fs["output"], s.file["output"], Headers["hanf"])
callStronglyConnectedComponent(disk, s) ==
  WriteDir(WriteDir(disk, s.fs["output1"], s.file["output1"], {"sccA"}),
           s.fs["output2"], s.file["output2"], {"sccB"})
callOther(name, disk, s) == WriteDir(disk, s.fs["output"], s.file["output"], Headers[name])

(* The status that goes to the standard output, the disk and what was read. *)
ExecuteWith(disk, name, s) ==
  LET status == IF s.status # SUCCESS THEN s.status ELSE checkOptionValidity(name, s)
      graph == makeGraph(disk, s)
      written == CASE name = "mf" -> disk
                   [] name = "hanf" -> callHyperANF(disk, s)
                   [] name = "scc" -> callStronglyConnectedComponent(disk, s)
                   [] OTHER -> callOther(name, disk, s)
  IN  CASE status # SUCCESS -> [status |-> status, disk |-> disk, read |-> NoFile, settings |-> s]
        [] status = SUCCESS /\ (graph = NoFile \/ written = NoFile) ->
             [status |-> ERROR_INTERNAL, disk |-> disk, read |-> graph, settings |-> s]
        [] OTHER -> [status |-> SUCCESS, disk |-> written, read |-> graph, settings |-> s]
execute(disk, name, args) ==
  ExecuteWith(disk, name, FoldLeft(WithOption, Settings(name), args))

-----------------------------------------------------------------------------
(***************************************************************************)
(* Python: a call.                                                         *)
(***************************************************************************)
(* mpirun may not start, or stop before or after the driver has done its work. *)
AfterDriver(world, disk, result) ==
  LET failed(d) == [error |-> ConfigError, disk |-> d, result |-> result]
  IN  CASE world.mpirun \in {"raises", "dies before"} -> failed(disk)
        [] world.mpirun = "dies after" -> failed(result.disk)
        [] OTHER -> [error |-> IF result.status = SUCCESS THEN SUCCESS ELSE ScaleGraphError,
                     disk |-> result.disk, result |-> result]
callApiDriver(world, disk, alg, args) ==
  AfterDriver(world, disk, execute(disk, alg.algorithmName, args))

(* One output after the other: what has been deleted is gone when the next one fails. *)
Cleaned(world, disk, alg, a) ==
  FoldLeft(LAMBDA d, o : LET after == cleanOutput(world, d.disk, a.path[o][2], a.fs[o]) IN
             CASE d.error # SUCCESS -> d
               [] d.error = SUCCESS /\ after = ConfigError -> [d EXCEPT !.error = ConfigError]
               [] OTHER -> [d EXCEPT !.disk = after],
           [error |-> SUCCESS, disk |-> disk], alg.outputs)

Summaries(disk, alg, a) ==
  [i \in DOMAIN alg.outputs |->
     LET o == alg.outputs[i] IN
     IF alg.check = "dir" THEN checkOutputDir(disk, a.path[o][2], a.fs[o])
     ELSE checkOutputFile(disk, a.path[o][2], a.fs[o])]

(* The run method: its exception, or the summaries of the outputs. *)
Stop(e, disk) == [outcome |-> e, disk |-> disk, result |-> NoFile]
Summarised(alg, a, done) ==
  LET sums == Summaries(done.disk, alg, a)
  IN  IF done.error # SUCCESS THEN Stop(done.error, done.disk)
      ELSE [outcome |-> IF \E i \in DOMAIN sums : sums[i] = ConfigError THEN ConfigError ELSE sums,
            disk |-> done.disk, result |-> done.result]
runAlgorithm(alg, a, world, disk) ==
  LET args == Arguments(alg, a)
      driven(cleaned) == IF cleaned.error # SUCCESS THEN Stop(cleaned.error, cleaned.disk)
                         ELSE Summarised(alg, a, callApiDriver(world, cleaned.disk, alg, args))
  IN  IF args = ArgumentError THEN Stop(ArgumentError, disk)
      ELSE driven(Cleaned(world, disk, alg, a))
=============================================================================
