# ScaleGraph: models, checks and proofs

ScaleGraph is a library of distributed graph algorithms written in X10. One
process (a *place*) runs on every node; the places form a *team* and meet in MPI
collectives. Most algorithms are programs for XPregel, a vertex-centric engine
in the style of Pregel. Under the engine lie chunks of memory, strings of bytes,
random streams and parallel file formats; above it, programs in Python that run in
worker processes, and a command line.

This directory models the parts where the order of events, or the edge of a
range, decides; checks the models with TLC on small instances and proves the main
invariants with TLAPS for every instance.

Paths are relative to `src/org/scalegraph/` of the repository unless they begin
with `cpp/`, `python/` (under its `src/`) or `include/`.

## 1. Inventory

| component | state | operations | hard behaviour | what makes it correct |
|---|---|---|---|---|
| XPregel engine: `xpregel/WorkerPlaceGraph`, `MessageCommunicator`, `VertexContext`, `XPregelGraph` | per place: active flags, vertex values, in and out edges; per run: message buffers of the threads, send and receive buffers, the in-edge mask, statistics | `iterate` (a run of supersteps), `once`, `updateInEdge`, `sendMessage`, `sendMessageToAllNeighbors`, `voteToHalt`, `revive`, `aggregate`, `output` | places decide separately which collectives they enter; fast places are a phase ahead; buffers are reused between supersteps; an exception at one place | the places stay in step and every run is a sequence of supersteps in which each message sent arrives once, one superstep later |
| edge changes: `xpregel/EdgeProvider`, `WorkerPlaceGraph.updateFewInEdge` | a log of requests per thread, offsets per vertex, edge lists in compressed-row form | add, set, clear, remove and modify edges; merge at the end of a superstep | positional indices into a shared log, sorted merge, in edges changed at other places | after a superstep the edges are those asked for and the in edges their reverse |
| Python XPregel: `api/PyXPregel`, `xpregel/PyWorkerPlaceGraph`, `api/NativePyXPregelAdapter`, `cpp/pyxpregelworker`, `python/scalegraph` | worker processes, pipes, shared memory segments, memory views | fork workers, send a command, wait for the answer, exchange messages through segments | several processes, blocking pipes, failure of a worker, memory mapped and replaced under views | every command is answered, memory is not reused while it is read, a program sees its own arrays |
| embedded Python: `python/Native*` | an interpreter inside the place: objects with counts of references, an error indicator, a main dictionary | import, call, build and take apart lists, tuples, dictionaries, buffers; load and call closures | ownership of references by convention, errors left behind, programs that raise | no object is used after it is gone, results belong to the call that made them |
| other utilities: `util/*` | memory chunks, hash map, bitmaps, scatter/gather | parallel scans and partitions, sorting, collectives (`Team2`), serialization | elements exchanged by reference, overlapping copies, ranges shared by threads | results equal the sequential definition |
| strings and random numbers: `util/SString`, `StringHelperImpl.cc`, `util/random/*` | a chunk of bytes and a range of it; the five words of a generator | conversion, search, compare, numbers as text; draw, skip, split | parts without a zero byte at the end; products that wrap; matrices precomputed | operations are those on characters; a skip is so many draws |
| files: `io/*`, `io/impl/*`, `io/fbio/*` | splits of a file, two buffers per reader, rows of each thread; headers and blocks | read and write CSV and block files; open, append, seek | a record across two splits, buffers exchanged while they are parsed, teams of another size | every row is read once and in order |
| command line: `python/scalegraph/graphalgorithm.py`, `api/ApiDriver` | options, files | run an algorithm from Python | three programs agree on paths and directories only | the result counted is the one just written |
| graph and ids: `graph/*`, `graph/id/*` | distributed edge lists, vertex names and values | ids between vertex, place and local index; translation of names to ids; construction of sparse matrices | rounds of exchange, index arithmetic | ids are one to one; no edge is lost |
| algorithms on XPregel: `api/PageRank`, `StronglyConnectedComponent`, `MaxFlow`, `HyperANF`, `metrics/*Impl` | vertex values | several runs with different programs on one graph | messages of different kinds, phases, termination | the result is the one the problem defines |
| visitors: `visitor/LsBfsVisitor`, `DeltaSteppingVisitor`, `metrics/DistBetweennessCentrality*` | frontier, buffers per destination, buckets | level-synchronous search | buffers flushed by several threads, rounds, termination | distances are shortest, every vertex is visited once |
| linear algebra, logging, profiling, configuration | | | | not modelled: computation with floats, bindings, output |

The components interact by calls, except: places interact only through
collectives of `Team2`; the threads of a place share the place's arrays and
write disjoint parts of them (`foreachVertexes` cuts the vertices into ranges,
one per thread); the Python engine and its workers
interact through pipes and shared memory; Python's command line, the driver and
the shell through files.

## 2. Plan

1. *Done.* The superstep engine (`XPregel`), the abstract machine it implements
   (`Supersteps`), the team's invariant and its proof (`XPregelProofs`).
2. *Done.* Edge changes (`EdgeRequests`).
3. *Done.* The Python engine (`PyWorkers`), against the same `Supersteps`, with its
   proofs; the memory it shares with its workers (`WorkerMemory`).
4. *Done.* Random streams (`SplittableMRG`); the functions that keep no state (`Conversions` over `Strings`,
   `Sorting`, `MathAppend`, `MemoryChunks`, `BlockFiles`, `NativeFiles`).
5. *Done.* The reader of CSV files (`CSVReader`), the embedded interpreter
   (`EmbeddedPython`), calls from Python (`CommandLine`).
6. *Left.* A composition of edge changes with the engine (in edges that grow during a
   run against the in-edge mask made once) and the sequence of `iterate`, `once` and
   `updateInEdge` calls on one graph.
7. *Left.* Algorithms as programs of `Supersteps` (strongly connected components,
   breadth-first distances), resting on the refinement of 1; the visitors with their
   rounds and buffers; ids and construction (`graph/id`, `VertexTranslator`).
8. *Left.* The scans and partitions of `Parallel`, `ScatterGather`, `HashMap`.
9. *Done.* Proofs: the engine implements `Supersteps` (`XPregelProofs`), and so does the
   Python engine but for its import, whose disagreement with the workers is stated
   (`PyWorkersProofs`); the shared memory of the workers and the embedded interpreter
   (`PythonMemoryProofs`); the arithmetic, the seeds and the skips of the generator
   (`SplittableMRGProofs`); the buffers of the reader (`CSVReaderProofs`); edges that
   are replaced, with any threads and any vertices idle (`EdgeRequestsProofs`).
10. *Left.* Proofs: single edges that are added, removed or modified.

Modules that are to be proved about reach no RECURSIVE operator: recursion is written
as recursive functions, folds or bounded cases. Parameters are CONSTANTS with named
assumptions; invariants are conjunctions of named parts.

## 3. What is modelled

| module | models | composes |
|---|---|---|
| `Supersteps` | abstract: what a run promises a vertex program | |
| `XPregel` | `WorkerPlaceGraph.run` with the `MessageCommunicator` of the run, at every place | |
| `XPregelRefinement` | the mapping from the engine's state to `Supersteps`, and the invariant (`BufferInv`) that makes it one | `XPregel`, two instances of `Supersteps` |
| `XPregelProofs` | theorems about `XPregel`, and that it implements `Supersteps` | `XPregelRefinement` |
| `EdgeRequests` | `EdgeProvider`, the edge calls of `VertexContext`, `updateFewInEdge` | |
| `EdgeRequestsProofs` | theorems about `EdgeRequests` | `EdgeRequests`, `DataLemmas` |
| `PyWorkers` | `PyWorkerPlaceGraph.run`, `fork`, `pyxpregelworker`, `xpregelworker.py` | |
| `PyWorkersRefinement` | the mapping from the Python engine's state to `Supersteps`, the one step that is none of it (`Imports`), and the invariant (`SuperstepInv`) behind it | `PyWorkers`, `Supersteps` |
| `PyWorkersProofs` | theorems about `PyWorkers`, and that it implements `Supersteps` | `PyWorkersRefinement`, `DataLemmas` |
| `WorkerMemory` | the segments between a place and its workers: `shmem.cc`, `x10xpregeladapter.cc`, the segments of `PyWorkerPlaceGraph` | |
| `EmbeddedPython` | `NativePython`, `NativePyException`, their callers | |
| `EmbeddedPythonInv` | why the interpreter works: who owns its references, and the invariant (`PythonInv`) | `EmbeddedPython` |
| `PythonMemoryProofs` | theorems about `WorkerMemory` and about `EmbeddedPython` | `WorkerMemory`, `EmbeddedPythonInv`, `DataLemmas` |
| `SplittableMRG` | `util/random`: generator, skip, seeds, modular arithmetic of three headers | |
| `SplittableMRGProofs` | theorems about `SplittableMRG` | `SplittableMRG`, `DataLemmas` |
| `Strings` | `SString`, `SStringBuilder`, `StringHelperImpl.cc` | |
| `Sorting`, `MathAppend` | `NativeAlgorithm.h`, `Algorithm`; `scramble` | |
| `MemoryChunks` | chunks and growable memory, copies, serialization, remote copies | |
| `NativeFiles` | `NativeOSFile`, `NativeHDFSFile`: modes, append, seek | |
| `BlockFiles` | `io/fbio`, `include/fbio_fmt.h` | `NativeFiles` |
| `CSVHelper` | the parser of `CSVHelper.cc` | `Strings` |
| `CSVReader` | `CSVReader`, `InputSplitter`, `CSVAttributeHandler`, `CSVWriter` | `CSVHelper` |
| `CSVReaderProofs` | theorems about `CSVReader` | `CSVReader` |
| `CommandLine` | `graphalgorithm.py`, `ApiDriver` | |
| `Conversions` | one call of any function without state, and what it is for | `Strings`, `Sorting`, `MathAppend`, `MemoryChunks`, `BlockFiles`, `CommandLine` |
| `DataLemmas` | induction and recursion on the natural numbers as facts about sets and functions; lists joined to one, sets made lists, how large sets are | |
| `MC...` | small instances; `MCPythonMemory` takes the interpreter and the segments side by side | |

Definitions named *Mutant* in a comment are not part of a model: each is a
plausible mistake in the definition after it, and `PROJECT.json` says which
property fails when it takes that definition's place.

### 3.1 The engine

`pc[p]` and `ready[p]` say where place `p` is in the loop of `run`: computing,
blocked in a collective (`ready = FALSE`), or resumed from it. A collective
completes for all places at once when all are blocked in it (`Complete...`); the
code between two collectives is one action of one place. So places interleave in
every way the collectives allow, and a fast place computes superstep `s + 1` while
a slow one has not left the last collective of `s`.

| action | code (`WorkerPlaceGraph`, `MessageCommunicator`) |
|---|---|
| `Compute`, `RunCompute` | one iteration of the vertex loop, with everything `compute` may call on its `VertexContext`; threads visit vertices in any order |
| `EndCompute` | `deleteMessages`, `sqweezeMessage`, `updateOutEdge` |
| `UpdateInEdge`, `DirectionOptimize`, `PreProcess` | the stretches between the in-edge exchange, the sum of broadcasts, the aggregation and `gatherInformation` |
| `ProcessUnicast`, `ProcessBroadcast` | `process`: combining, packing by place, selection by the in-edge mask |
| `BeginExchange`, `EndUnicast`, `NextSuperstep` | `exchangeMessages` and the end of the loop |
| `Terminate`, `Throw` | the two ways out of `run`; the third is the superstep limit |

A message carries its source, destination, value and how it was sent. Values are
abstract, a combined message is the set of the messages combined. Statistics are
BOOLEAN: only whether a sum is positive is ever tested. `active` starts with any
value, because `setVertexShouldBeActive` of an earlier run may have set any.
Vertices do not change edges during the run in this model.

### 3.2 Edge changes

One action per call of `VertexContext` that changes edges, `EndVertex` for the end
of `compute` or a vertex that is not computed, `EndSuperstep` for `updateOutEdge`,
`updateFewInEdge` and the reset. The log, the offsets, the masked sort, the
reduction and the merge are translated with their positions, because these are what
goes wrong; `Unwritten` stands for what newly allocated memory may hold. `want` is
a history variable: what the comments of the API say the vertex's edges are.
Threads share nothing while they compute, so vertices are visited in sequence. Any
vertex may change nothing in any superstep, and the vertices may lie in any number
of threads (`FirstOf`). An assertion or a bounds check that fails stops the program
(`failed`).

### 3.3 The Python engine

One place, alone in its team, with its workers; each process takes steps of its
own. `stdin` and `stdout` are pipes, `shm`, `seg` and `view` shared memory: `view`
is what a worker has mapped, which stays as it was when the place unlinks the
segment and makes a new one. `Leave` reads the end of stdin, for which every copy
of its write end must be closed, the inherited ones too. The range of
vertices a worker computes, `rangeThreadLocalVertices` in the code, is `RangeOf`,
with Python's rounding of a half to the even neighbour in `Chunks`. With `MayFail`,
`fork` fails, or a worker dies between reading a command and answering it;
`ReadNothing` and `CommandFails` are what the place then does, with any numbers in
the place of those that were not read, as long as they stay within the segments
(beyond them the process ends in a bus error).

`Import` is what `importSentMessagesOnShmem` does, not what it should: the k-th
broadcast in a worker's segment goes out in the name of vertex k - 1, whoever made
it, a worker that is read later overwrites those of the same name, and broadcasts
beyond the number of vertices go past the arrays of the place (where bounds are
checked it throws, where they are not it goes on). `RangeOf` likewise leaves out the
vertices that the workers' rounding leaves out (`Uncovered`). The step that imports is
therefore no step of `Supersteps`. `Imports` says what it is instead: vertices
no worker has computed are given up with their messages, unicast messages go on as
they were sent, and broadcasts go on as `Misnamed`, which is how they were sent if
they came in turn (`InTurn`). `ImplementsSupersteps` allows this one step and
nothing else.

`WorkerMemory` looks into the segments that are whole values in `PyWorkers`. A
mapping has an address; a view is an address, a length and a format, and shows
whatever is mapped there at the time. Mapping takes any address nothing is mapped
at, also one that was used before, which is the case that could go wrong. The steps
are as fine as the processes can meet: each segment a worker maps, each word of a
bitmap it reads and writes back (two steps), each segment it sends from and each
answer is a step of its own. Segments are found by the name the place and the worker
each compute. Here workers do not die. `MemoryAssumption` and `ViewsAssumption` say
only of what kind the constants are.

### 3.4 The embedded interpreter

Every function of `NativePython` is the set of its outcomes: the interpreter after
it, what it returns, what it throws, given that the call of CPython inside it may
fail as its documentation says. Objects have counts and contents; X10 holds
addresses and counts nothing, so an object whose count falls to zero is gone though
X10 may still use its address. The callers are the closures of
`PyWorkerPlaceGraph` (load, aggregate, terminate) and the calls of the repository's
test program `TestPython`.

### 3.5 Files, strings, numbers

Texts are sequences of bytes. Widths are parameters: a byte has `ByteBits` bits, a
long `LongBits`, a residue of the generator `W` instead of 31 bits, and the
constants that depend on them (carry masks, the split of products, the exponent of
a skip) are computed from the widths the way the code's constants depend on its
own. A word of the generator wraps at 2 `P`, a double word at 4 `P P`, where `P` is
2^`W`. `ConstantsAssumption` states what the arithmetic needs of `P` and of the seed's
fields as properties of the numbers, because the provers know no powers; TLC evaluates
it for the instance, and it is true of the code's own constants (`P` = 2^31, factors
107374182 and 104480). The loops of `mrg_power` and `mrg_skip` and the table of
`dump_mrg_powers` are recursive functions, one turn each; the loops of the code end
when nothing of the exponent is left, those of the model take turns that change nothing
from there on. `Steps` goes through the function `OneStep` because TLC evaluates
applications of functions eagerly and a stream is some hundred steps deep. `mod_mac2` to `mod_mac4` of the
XMT header do not reduce far enough for more than one product (the macro for the
Cray machine, never built here), so `ArithmeticAgrees` compares it for one.
In `CSVReader` one activity of a place reads chunk after chunk into the back
buffer while a subtask parses the front one, which is where threads can meet; the
splits, the cuts at line ends, the numbering of rows and the merge follow the code.

### 3.6 Calls from Python

`runAlgorithm` is `run` of the nine classes: check the arguments, delete the old
output, start the driver, count the output. `execute` is the driver from its option
table to the files. The commands that are started may fail in the ways Python can
see or not see (`world`), and the disk holds what earlier calls left (`disk`).

## 4. What the runs show

| run | instance | shows |
|---|---|---|
| `xpregel_core` | 2 places, 3 vertices, 2 values, 4 supersteps, combiner | no stale sends (`NoStaleSend`, by the inductive `SendInv`); the engine implements `Supersteps`, by the inductive `BufferInv` |
| `xpregel_direction` | 3 places, aggregator, end closure that may stop the run, limit 3 for the switch to unicasts, no combiner | collectives match; still implements `Supersteps` |
| `xpregel_live` | 3 places, fairness, two vertices may throw | every run ends, or somebody threw and then the whole team waits in the next collective |
| `edges_merge` | 3 vertices in two threads, any of them idle, 3 supersteps of set and clear (2 calls per compute); or 1 or 2 supersteps of add, remove and modify (1 or 2 calls) | edges that are replaced are those asked for, vertices read their own writes, in edges are as many as they should be and from the right vertices, a superstep fails exactly when a vertex is idle behind one that changed edges; single edges are neither lost nor made up |
| `py_engine` | 2 workers, 5 vertices of which one is no worker's, 3 supersteps, broadcasts out of turn and more than there are vertices, failures | implements `Supersteps`, but for the import, unless a worker dies; fresh messages and exact imports even then (by the inductive `TurnsInv`); runs and workers end |
| `python_memory` | 2 workers, 3 vertices, 2 bits a word, values of 4, 8 bytes and of a type without a format, a program that asks for a view itself; 2 supersteps and 2 runs in all; the interpreter with 6 calls and 2 runs | a view shows the segment it is for, imports find what was sent, flags arrive, no dead object is used, results are those of the call |
| `random_streams` | the generator modulo 31, 25 seeds, streams of up to 100 numbers, skips by exponents of three words of two digits to the base 3, at every digit but the highest, and of nothing; the operands at both ends, and all pairs of factors | a skip is so many draws, seeds are valid, the three headers compute the same |
| `conversions` | about a million calls, each with small inputs; see below | each function against a definition of its own |
| `csv_read` | up to 2 rows of one or two columns, 1 or 2 files, 1 or 2 places of 1 or 2 threads, chunks of 1 to 4 bytes or the whole file | rows are read once, in order and under their columns' names (`RowsReadOnce`); a buffer is not written while it is parsed and the threads count the same chunks (`ChunksInTurn`); no deadlock |

In `conversions` texts have up to three characters of one, two and three bytes,
so that every cut inside a character and every overlap of a pattern with itself
occurs; a numeral of four bytes out of blank, sign, digits and point reaches both
ends of a 6-bit int from either side; sorted arrays have up to four elements of two
bits, with every number of equal keys; all ids up to 5 bits are scrambled; chunks
have up to six elements with every gap; block files have one or two attributes, two
writers and one to three readers; two handles do three things to one file; a call
from Python is made of eight inputs, nine outputs, eight lists of options, nine
states of the installation and nine disks.

Two places show every order of two places; the third matters only for the team
(someone is ahead, someone behind, someone between), where `xpregel_direction` has
it. Three vertices give a place with two vertices and one with one, a vertex with
two neighbours and a cycle. A message lives for one superstep, the mask is made in
one superstep and reused in the next, and what a superstep leaves behind shows in
the one after it: three or four supersteps have every combination. In
`edges_merge` a thread of two vertices has one that may be idle behind one that is
not, and one of one vertex whose log is its own; what three vertices of one thread do
is in `edges_idle`. Two calls a compute replace what was replaced, and order removals
and additions either way. In `py_engine` two workers suffice for pipes
that one inherits from the other, words of two vertices give ranges of more than
one vertex, and of the three words of five vertices the workers take two. Vertex 1
broadcasts whether vertex 0 does or not, so the first broadcast of the first worker is
sometimes not vertex 0's; the one of the other worker that broadcasts does so six times
or not at all. In `python_memory` three vertices with two bits a word make two words,
of which the workers share one.

`CHECK_DEADLOCK FALSE` is used where the system stops by design: after the bound on
supersteps or after a failed assertion (edges), when a place threw and the others wait (live), when the
processes have ended or hang after a failure (Python). Elsewhere deadlock is checked
and is part of the result: no reader of a CSV file waits for ever. (That reader's
liveness is not stated as a formula: the run is finite and has no cycle, so freedom
from deadlock already says that it ends.)

Fairness is assumed in `xpregel_live` and `py_engine`: a place and a process run until
they block, which the operating system's scheduler provides, and a collective that all
places have joined completes, which MPI provides. Nothing is assumed of `Throw`, `Die`
and `ForkFails`.

### Disagreements with the documentation

Each of these runs has one property, and TLC refutes it.

| run | what happens |
|---|---|
| `xpregel_mixed` | broadcasts are lost in a superstep in which any place sends a unicast message |
| `edges_idle` | a vertex that changes no edges behind one of its thread that does fails the assertion of `optimizeReqEdge` (`EdgeProvider:330`), though both do only what the interface allows |
| `csv_quoted` | a CSV file with elements in quotes is not read back when it is cut between places or between chunks: the search for the next line joins lines or runs into the end of the file |

Further ones were met while modelling. They have no run of their own; the passing
runs avoid them by the bounds named here.

*Engine.*
- With `mEnableStatistics` false, `run` decides on the unicast exchange from memory
  nobody wrote (`WorkerPlaceGraph:784`). The theorems on the team assume it true.
- A second broadcast of a vertex in one superstep replaces the first. Because of
  `xpregel_mixed`, `Supersteps` may lose broadcasts (`MayDrop`).
- `isHalted` returns `mVertexActive` (`VertexContext:389`); an idle thread's slot of
  the aggregate is never written (`WorkerPlaceGraph:687`); `stealOutput` checks its
  index with `>` (`:796`); the in-edge mask is made once per run, before edges are
  added (`MessageCommunicator:375`).

*Edges.*
- `setOutEdges` whose first edge is the last old one leaves its id unwritten (`:265`),
  and so does modifying the value of an edge; `clearOutEdges` on a vertex with two
  edges to one destination leaves one (`:338`). The lists of `edges_merge` avoid both,
  `SingleEdgesAsRequested` does not speak of modified edges.
- The merge looks for the edge of a request behind that of the one before, so of
  removals that do not come in the order of the edges some are dropped.
  `SingleEdgesAsRequested` allows that and nothing else.
- The requests for in edges arrive by source and are sorted by operation
  (`WorkerPlaceGraph:217`), so additions come behind every entry the removals have
  passed. When some vertices replace their lists and others do not, the in edges of a
  vertex need not ascend afterwards (of 0, 1, 2 the first and the last are replaced:
  1, 0, 2), and later removals delete the entry before which they come to stand instead
  of their own. The number of in edges is right even then (`InDegreesFollowOut`); which
  they are is stated of supersteps that start with ascending ones (`InEdgesFollowOut`).

*Python XPregel.*
- The i-th broadcast of a worker is sent in the name of vertex i
  (`PyWorkerPlaceGraph:1364`), and the ranges of the workers may miss the last
  vertices (`python/scalegraph/xpregelworker.py:26`). Both are in the model and in
  `py_engine`; `Imports` says what becomes of the messages. A worker that broadcasts
  more often than its place has vertices makes the place write past its arrays: with
  bounds checks it throws, but the repository's `Makefile:29` compiles without them.
- One `try` surrounds the commands to all workers (`:701`): if a write fails, those
  after it get none. Nobody reads the workers' stderr (`:679`).
- The bound of the bitmaps lets an index pass that is as large as the number of bits,
  and the error path returns NULL without an exception and without releasing the
  buffer; a view whose segment could not be found comes from uninitialised memory.
  A slice of a view a program keeps from one superstep shows the messages of a later
  one, or nothing mapped at all. The program of the model keeps no slices.

*Embedded interpreter.*
- A Python exception without message or traceback leaves `NULL` in
  `NativePyException`, and the handlers' `DECREF` of it ends the place; null closures
  do that. A message that is not ASCII leaves the error indicator set, so that the
  next successful call throws. `objectStr`, `unicodeFromString` and
  `dictSetItemString` leave it set too.
- `listFromRail` and `tupleFromRail` lose the list when an item is `NULL`;
  `objectCallObject` releases arguments it only borrowed; the tests survive because
  they never release theirs. One reference to a memory view is lost per call.

*Memory.*
- `GrowableMemory.insert` in front of more objects than it inserts repeats some and
  loses others (elements are copied forward one by one); chunks of values are right.
- An aligned small chunk keeps only its aligned address, which is what `del` releases
  (`MemoryChunkData.h:304`), and `isValid` is true of every small chunk, deleted or not (`:350`).
- `del` frees the pointer of the copy it is called on without a test (`:574`), so a
  chunk deleted through two copies is freed twice.

*Strings and numbers.*
- The mask of four-byte UTF-8 sequences is 0x08 for 0x07: code points from 65536 on
  come back changed. Conversions to `Byte` and `Short` pass through an `int`, which
  cuts what does not fit (`StringHelperImpl.cc:399`); an empty text is zero; a split
  by an empty text does not end.
- `toUShort` is bound to the conversion to `Short` (`SString.x10:259`), and
  `StringToUShort_` is used by nobody: of the numbers that `UShort` has, those from
  32768 on are not read back, and `-1` is accepted. `NumbersReadBack` states both.
- `StringBuilderAdd_` for `SString` and `Char` end without a return
  (`StringHelperImpl.cc:510`, `:537`), so what they return is undefined. Nothing in the
  repository calls on what they return; the model stands for the buffer they fill.
- `swap` of three arrays' references exchanges only the references
  (`NativeAlgorithm.h`); the sort that is used does not call it.
- Real numbers drawn in [0, 1) may be 1 in single precision
  (`splittable_mrg.cc:285`); `Random.nextLong` multiplies by one too few.

*Files.*
- Strings of a block whose size is not a multiple of eight cannot be written
  (`io/fbio/NativeSupport.cc:303`), and a place with nothing to write divides by
  zero. `FilesReadBack` states both as the only refusals.
- A file of HDFS opened for writing is truncated by any mode but append, and
  `CreateNew` is not exclusive there.
- A CSV file of a header only makes several places fail with `EOFException`; a cut
  between CR and LF leaves a CR in the last element; an exception in a parsing
  subtask never counts it as done, so that the reader waits for ever
  (`InputSplitter:134`); `CSVWriter` does not double the quotes in elements, and its
  exceptions at a place are printed and forgotten.

*Calls from Python.*
- `MinimumSpanningTree` and `SpectralClustering` always raise `ConfigError`: the driver
  writes a directory and Python looks for a file. `CallsDoWhatWasAsked` says so.
- A path that contains `=` arrives cut at it; the status of `rm` is not looked at;
  the old output is gone before the driver has looked at the options; an output path
  that is the input deletes the input. For strongly connected components the first
  output is gone though the second one's file system is found missing.
- `--input-data-file-weight-constant=0` before `--bc-weighted=true` is overridden, and
  `--input-data-file-renumbering` without a file is an internal error.

## 5. What is proved

`XPregelProofs` proves the following for every team, graph, program and superstep
limit, from `GraphAssumption`, `ProgramAssumption` and `OptionAssumption`, which say
only of what shape the constants are and that there is a place and each vertex's
program does something.

| theorem | states |
|---|---|
| `TypeCorrect` | `Spec => []TypeOK` |
| `TeamAgrees` | `Spec => []TeamInv`, with statistics enabled |
| `TeamCollectivesMatch`, `TeamLockStep`, `TeamAllOrNone` | follow from `TeamInv`: places never wait in different collectives; none is more than a superstep ahead, or ahead of one that still computes; `run` returns normally everywhere or nowhere |
| `SendCorrect` | `Spec => []SendInv` |
| `SendNoStale` | `Spec => []NoStaleSend` |
| `BuffersHold` | `Spec => []BufferInv`, with statistics enabled |
| `EngineImplementsSupersteps` | `Spec => ImplementsSupersteps`, with statistics enabled: every behaviour of the engine is one of the abstract machine |

Statistics are enabled wherever the engine runs: `mEnableStatistics` is initialised
to true (`WorkerPlaceGraph:77`) and nothing in the repository clears it.

`PyWorkersProofs` proves for every number of workers and vertices, graph and program,
with failures and without, from `PyAssumption`, which says only of what shape the
constants are:

| theorem | states |
|---|---|
| `TurnsTaken` | `Spec => []TurnsInv` |
| `MessagesAreFresh` | `Spec => []FreshMessages` |
| `ImportsAreExact` | `Spec => []ImportsWhatWasSent` |
| `PythonImplementsSupersteps` | `Spec => ImplementsSupersteps`: as long as no worker dies, every step of the processes is one of the abstract machine, changes nothing it sees, or is the import as `Imports` states it |

The last theorem has no hypothesis on the program, on its broadcasts or on the ranges
of the workers. It follows that an engine whose workers have all vertices between them
(`Uncovered` is empty) and whose programs broadcast in turn (`InTurn`) is one of the
abstract machine's, and what it is otherwise: `Misnamed` says which broadcasts arrive
instead. That no vertex of the abstract machine halts is no restriction of the
programs either: the context a program in Python is given has no `voteToHalt`, and a
worker computes every vertex of its range.

`PythonMemoryProofs` proves for every number of workers, vertices, runs and
supersteps, every size of a word, all types of values and whatever is sent, from
`MemoryAssumption` and `ViewsAssumption`:

| theorem | states |
|---|---|
| `MemoryKept` | `AdapterSpec => []MemoryInv` |
| `MemoryTypes` | `AdapterSpec => []AdapterTypeOK` |
| `ViewsAreRight` | `AdapterSpec => []ViewsShowTheirSegments` |
| `ImportsAreOfThisSuperstep` | `AdapterSpec => []ImportedAsSent` |
| `NoFlagIsLost` | `AdapterSpec => []FlagsAsSet` |

and of the embedded interpreter, for every number of calls and runs (`MaxCalls` and
`MaxRuns` need not even be numbers) and from no assumption:

| theorem | states |
|---|---|
| `PythonInvariant` | `PythonSpec => []PythonInv` |
| `AliveHandles` | `PythonSpec => []HandlesAlive` |
| `FreshResults` | `PythonSpec => []ResultsAreFresh` |
| `Releases` | releasing a reference that is owned leaves all counts right |

`SplittableMRGProofs` proves for every modulus, pair of factors, size of a byte and of
a word and set of inputs that `ConstantsAssumption` and `InputsAssumption` allow:

| theorem | states |
|---|---|
| `ArithmeticIsExact` | `Spec => []ArithmeticAgrees` |
| `SeedsAreDistinct` | `Spec => []SeedsAreValid` |
| `SkipsAreSteps` | `Spec => []SkipIsSteps` |

`CSVReaderProofs` proves for all files, places, threads and sizes of chunks, from
`JobsAssumption`:

| theorem | states |
|---|---|
| `ChunksAreParsedInTurn` | `Spec => ChunksInTurn` |

`EdgeRequestsProofs` proves for every graph, ranges of threads, edge values and lists,
from `EdgeAssumption` and `ListsApart`, with any vertices idle in any superstep:

| theorem | states |
|---|---|
| `WritesAreRead` | `Spec => []ReadYourWrites` |
| `EdgesAreThoseAskedFor` | `Spec => []OutEdgesAsRequested` |
| `InDegreesFollow` | `Spec => []InDegreesFollowOut` |
| `InEdgesFollow` | `Spec => InEdgesFollowOut` |
| `FailuresAreIdleVertices` | `Spec => OnlyIdleVerticesFail`: the assertion of `EdgeProvider:330` fails exactly when a vertex is idle behind one of its thread that changed edges, and nothing else fails |

`ListsApart` leaves out two cases of section 4 in which the code does otherwise: the
edges of a list lead to different destinations, and no list starts with the destination
at which one it may replace ends (`EdgeProvider:265`, `:338`). The constants of
`edges_merge` satisfy it.

`DataLemmas` has the one form of induction the provers can use here: a set of natural
numbers that is not empty has a least element (`Least`); with it, what passes from each
number to the next holds of all (`Induction`), and a function that is defined by
recursion satisfies its equations (`Recursion`), which TLA+ does not promise of a
`CHOOSE`. From them follow what `FlattenSeq` and `SetToSeq` of the community modules
return. It ends with lemmas on the sizes of sets that differ by one element.

*The team.* That blocked places wait in the same collective is not inductive: a
place that has resumed decides from its own copies of the statistics which
collectives it skips. `TeamInv` therefore speaks of every place's *gate*, the
collective, or the end, it will come to next given what it knows: all gates are
equal, and the copies the decisions depend on are equal while they are used. An
action of one place does not change its gate; a collective, which needs all places
at the gate, moves all gates to the same next one. With statistics disabled the
decision on the unicast exchange is read from uninitialised memory and the theorem
is false.

*The buffers.* That a place which computes holds only messages of this superstep
rests on buffers being emptied exactly when they are sent. They are emptied only if
the sum over the team says there is something to send, so the invariant says, at
every stage, that the place's own counters tell whether its buffers are empty, and
that the sums are no smaller than the counters: `SendInv`.

*The refinement.* `Supersteps` delivers the messages of a superstep at once and keeps
them in one set per kind; the engine moves them through five kinds of buffers at every
place while other places are a phase ahead. The mapping collects the set from the
buffers by the place's stage, so it needs to be known which buffers are empty at which
stage (`SentAt`, `ReceivedAt`, `WiredAt`), that the mask lets every broadcast through
that has a neighbour at the place although it was made in an earlier superstep
(`MaskedAt`), that what the vertices read is what the exchange filled (`EnabledAt`),
and that the team's sum tells whether messages were combined anywhere
(`CombinedAsSent`). `BufferInv` is these with `TeamInv` and `SendInv`. Given it, each
action is shown to be a step of `Supersteps` or to change nothing it sees:
`RunCompute` is `Visit`, the last exchange is `NextSuperstep`, the collective that ends
the run is `Terminate`.

*The turns.* That the place may read a worker's segments, and replace the messages
it has mapped, needs no lock because of what is in the pipes: at any time a worker
has either one command to read, or works at it, or has one answer in its pipe, or
nothing at all, and in every stage of the place the workers it is done with have
nothing (`TurnsInv`). A worker that dies leaves nothing in its pipes. The invariant
is inductive together with the types it needs (`Shape`). A place that lost a worker
while commands were being written may wait for an answer nobody will give, but
never reads a wrong one of a living worker.

*The workers' supersteps.* While no worker is dead, a worker is ahead of nobody and reads
a superstep's command once (`StepInTurn`); it computes the vertices of its range in
ascending order and keeps what it has sent, first in its memory and then in its segments,
until it reads the next command (`WorkKept`); its answer counts its range (`Counted`); and
the place holds messages only between the import and the end of the decision (`Holds`). So
the vertices computed in a superstep, and what they have sent, can be read off the workers
until the import and off the place after it: that is the mapping. A call of `compute` is
`Visit`, the decision to go on with the export is `Continue`. A vertex that broadcasts
again replaces what it has broadcast in this superstep (`LatestConcat`), and as its worker
computes it once, the later ones stand behind those of other vertices. At the import all
workers are done, so the vertices that are left are those no worker has, and what the
place then holds is what the numbers of the places in the segments make of it
(`ImportIs`, `ImportPasses`); if the k-th broadcast of each worker is vertex k - 1's, no
two workers have one of the same number, and that is what was sent (`InTurnKept`). That
the place goes on although nothing arrived needs a vertex that was computed: the answers
would all be zero otherwise, and the place would stop (`NoneProcessed`). With single
messages in the superstep the export loses the broadcasts, which `MayDrop` allows. `SuperstepInv` says all
this of the states without a dead worker; workers stay dead, so it is inductive.

*The memory of the workers.* A worker's view is right because of four things at
different processes: the property segment of the run tells the sizes (`Described`);
the worker's mappings are at different addresses, and those of the views it has asked
for are of the segments that are there (`Mapped`), which must hold through every stage
in which it replaces some of them; the place makes segments anew only while nobody is
between asking and answering (`AllInStep`); and what a worker has made in this
superstep stays under its name until the place has opened it (`AllMade`). For the
bitmap it must be shown that the ranges of two workers share no word, whatever the
rounding of `Chunks` does; then a worker that holds a word between reading and writing
holds what it still is (`WordsKept`).

*The interpreter.* That a handle is alive needs more than that counts are not zero: its
object must still be counted for somebody. `Counted(py, Own)` gives every reference
outside a container an owner. The ledger `Own` lists them: what is always there (`__main__`,
`None`, the dictionary of the call), what the variables of the script own, what the error
indicator holds and what an exception that is being handled holds. An object's count is at
least the number of places in living containers that hold it and of the entries that name it;
it may be more, for the code loses references. Every call of CPython then has a lemma of
one line: it appends an object, takes an entry out of the ledger, or moves one from the
ledger into a container or an error. The hard one is `Releases`: as an object dies all that it
held is released, others may die of it, and so on; what is kept through the rounds is that the
counts are right for the containers that live and for those that have just died (`Falling`).
No more rounds are needed than there are objects, since each has at least one dead. What a
variable owns depends on the script: what a list, a tuple or a call has stolen is the
variable's no more (`Unstolen`), and what `dictGetItemString` returned never was. So
`Ahead` says that no statement still to come uses numbers that are stolen or writes the
dictionary something is borrowed from, `Borrows` that what is borrowed is what the dictionary
holds, and `ThreeMade` and `TwoMade` that the items of the rails are those made
before. `ScriptsCut` checks this order for each of the fifteen scripts. That results are
fresh follows each call statement by statement (`FreshValues`, `FreshAnswer`): the view is
of memory made for this call, the dictionary holds that view when the program reads it,
and what is taken out of the dictionary afterwards is what the program has put there.
A call that fails leaves its references behind and the handler releases those of the
exception only; that is a leak, which the invariant allows, and no result.

*The arithmetic.* Every word operation is shown to stay below its width for residues
(four products and a residue are less than 2^64), so that only a remainder by `M` is
left. One fold at bit `W` leaves less than 2 `M`; the quotient of the XMT header is
exact because the error of its reciprocal is below one; Schrage's factoring is exact
when the remainder of `M` by the factor is not greater than the quotient, which
`ConstantsAssumption` asks and the code's factors satisfy.

*The seeds.* Two fields and a rest determine a user seed, and the fifth number holds
both rests without overlap. That a generator which has drawn nothing is still as seeded
follows from `SkipIsSteps`, which `GeneratorInv` contains.

*The skip.* A matrix is known by its bottom row and a cached part of its first column.
`Represents(m, k)` says that the cache agrees with the row and that the row times any
state is, modulo `M`, the last of the five numbers `k` steps later. As each step moves
the numbers on by one place, the other four of them are the last ones of later steps:
from this `mrg_apply_transition` gives all five (`AppliedIs`), and `mrg_multiply` gives a
matrix for the steps of both factors (`ProductIs`), whatever the factors `X` and `Y`.
The loop of `mrg_power` keeps "the steps of the result, and the exponent left times those
of the current power, are all together those asked for" (`PowerIs`); so row `b` of the
table has as unit the steps of byte `b` (`TransitionsAre`), and the bytes of a word add
up to it, low ones done and high ones left (`WordIs`).

*The reader.* `ReaderInv` says that a place has at most one subtask, that it parses the
buffer in front once it has started, and that each thread has counted as many chunks as
the others or has the one at hand still to count. The exchange of the buffers waits for
the count of subtasks to be zero, and so for the front one to be parsed.

*Edges that are replaced.* `ReplaceInv` follows a superstep through the log of requests:
the requests of a vertex that has computed lie before those of the one that computes, and
they are nothing, or replace its list by what it asked for (`AllBehind`); those of the
vertex at work replace its list by what it wants so far (`AtWork`). Requests that remove
the end of a list from some place on and then add new edges are merged to what is before
that place and the new edges (`MergeReplaces`), and their reduction leaves requests of
this form (`OptimizedIs`); both go through the sort of the requests by destination, and
this is where `ListsApart` is needed. Because an offset nobody has written is zero, what
a vertex that changed nothing takes for its requests may end before it starts, which
`AllBehind` allows and the reduction asserts.

*In edges.* Sorted by operation, the requests of a vertex's in edges are removals and
then additions, each with ascending sources (`InRequestsAre`). The merge is followed turn
by turn: `MergeRun` says that a property of the list built so far, of the place in the
old list and of the room left, which every turn keeps, holds at the end. With it
`MergeLength` counts: each removal takes one entry out, whichever it is, each addition
puts one in, and nothing else does; as the removals of a superstep are the sources that
had an edge and changed their list, and the additions those that have one now, the number
of in edges stays that of the vertices with an edge (`InDegrees`). If the list was
ascending and had these sources, every removal stands at its own entry (`RemovalPlaces`,
`Midway`), and what is left are the ids one expects (`MergeIds`). That only an idle vertex
makes a superstep fail follows from `Upward`: an end that comes before its start is one
that was never written, hence zero; where the ends ascend, the requests are of the form
`AllBehind` gives, and merges of that form stay within the lists.

Only model-checked:

- liveness (`RunReturns`, `ThrowStopsTeam`, `RunEnds`, `WorkersEnd`),
  which TLAPS cannot treat;
- the edges of vertices that add and remove single ones (`SingleEdgesAsRequested`): which
  they have then depends on how their calls are sorted (section 4);
- all of `Conversions` and the rest of `CSVReader` (`RowsReadOnce`): what a parser or a
  conversion computes for every text would need induction over data, through folds and
  recursive operators.

## 6. What is not modelled

The components of section 1 without a module: graphs and ids, the algorithms and
visitors (planned, section 2), linear algebra (floats, ARPACK, METIS), configuration
and profiling. Besides:

- engine: the values of aggregation, `output`/`stealOutput`, edge values, the layout
  and growth of buffers, the choice of threads, the sequence of runs on one graph
  (`XPregelGraph:291`);
- Python engine: several places, the capacity of pipes, output of user code to stdout,
  which would mix with the answers, pickling; what a worker sees whose
  view has an address nobody wrote (`stray`), and segments left behind when a run ends;
- memory: the allocator beside the collected heap with its finalizers and collections
  (`MemoryChunkData.h`, `.cc`), which is compiled out: `USEEXP` is defined as `false`
  (`MemoryChunkData.h:15`), so every chunk is made by the plain branch (`:295`);
- interpreter: failing allocations, the search path;
- utilities: the scans of `Parallel` (with ranges shorter than the threads they are for,
  `Parallel:947`), `HashMap.put` of keys that are there, the bitmaps, scatter/gather;
- strings and numbers: formatting of real numbers, draws of real numbers;
- files: `DistributedReader`, errors of the file system in the middle of a transfer,
  HDFS itself;
- command line: options that only set a parameter of an algorithm (one stands for all),
  the log's options, the passage to `xpregel`.
