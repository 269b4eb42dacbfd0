----------------------------- MODULE WorkerMemory -----------------------------
(***************************************************************************)
(* The shared memory between one place and its Python workers.             *)
(*                                                                         *)
(* PyWorkerPlaceGraph.run makes a segment for every array of the graph and *)
(* describes their sizes in a property segment.  Every worker maps the     *)
(* property, makes one memoryview per array (x10xpregeladapter, Shmem),    *)
(* and in every superstep replaces the two views of the received messages, *)
(* whose segments the place has unlinked and made anew.  It leaves what it *)
(* sends in segments named after its thread, which the place opens.        *)
(*                                                                         *)
(* A segment is unlinked by name: who has mapped it keeps it.  A memory    *)
(* view is an address and a length: it shows whatever is mapped there now. *)
(* Closed pipes, failing forks and dying workers are in PyWorkers.         *)
(***************************************************************************)
EXTENDS Integers, Sequences, FiniteSets, Functions

CONSTANTS
  NumWorkers,     \* numThreads
  NumVertexes,    \* numLocalVertexes of the place
  BitsPerWord,    \* 64 in the code
  NumOutEdges, NumInEdges,
  ValueTypes,     \* the types a vertex value or a message may have
  AskedViews,     \* the views a program asks for itself
  Counts,         \* how many messages a worker may send, or a place receive
  NumRuns,        \* how often run is called on the graph
  MaxSupersteps   \* how many supersteps all runs have together

Threads == 0 .. NumWorkers - 1
Vertexes == 0 .. NumVertexes - 1

Types == {"Boolean", "Byte", "UByte", "Short", "UShort", "Char", "Int", "Float", "UInt",
          "Long", "Double", "ULong"}

\* Type::SizeOf, in bytes.
SizeOf(type) == CASE type \in {"Boolean", "Byte", "UByte"} -> 1
                  [] type \in {"Short", "UShort", "Char"}  -> 2
                  [] type \in {"Int", "Float", "UInt"}     -> 4
                  [] type \in {"Long", "Double", "ULong"}  -> 8
WordBytes == 8

\* Type::PyFormat: another type is an assertion that fails.
PyFormat(type) == type \in {"Int", "Long", "Float", "Double", "UInt", "ULong"}

ASSUME MemoryAssumption ==
  /\ NumWorkers \in Nat \ {0} /\ BitsPerWord \in Nat \ {0} /\ NumVertexes \in Nat
  /\ NumOutEdges \in Nat /\ NumInEdges \in Nat /\ ValueTypes \subseteq Types
  /\ Counts \subseteq Nat /\ NumRuns \in Nat \ {0} /\ MaxSupersteps \in Nat

\* Bitmap.numWords at the place, of mVertexActive and the other bitmaps.
NumWords == (NumVertexes + BitsPerWord - 1) \div BitsPerWord

\* round((a + b - 1) / b - 0.5), where round takes a half to the even neighbour.
Chunks(a, b) ==
  LET n == a + b - 1
      q == n \div b
  IN  IF n % b = 0 /\ q % 2 = 1 THEN q - 1 ELSE q

\* rangeThreadLocalVertices: whole words of the bitmaps.
ChunkWords == LET c == Chunks(Chunks(NumVertexes, BitsPerWord), NumWorkers) IN IF c < 1 THEN 1 ELSE c

\* Mutant: the vertices are dealt out one by one, not in whole words.
DealtOut(t) == {v \in Vertexes : v % NumWorkers = t}

RangeOf(t) ==
  {v \in Vertexes : /\ t * ChunkWords * BitsPerWord <= v
                    /\ v < (t + 1) * ChunkWords * BitsPerWord}

GraphViews == <<"outEdge.offsets", "outEdge.vertices", "inEdge.offsets",
                "inEdge.vertices", "vertexValue", "vertexA", "vertexSBA">>
MessageViews == <<"message.values", "message.offsets">>
\* The views the context does not hold.
OtherViews == {"sendMsgN_values", "sendMsgN_flags"}
ASSUME ViewsAssumption == AskedViews \subseteq OtherViews
ContextViews == {GraphViews[n] : n \in DOMAIN GraphViews}
                  \cup {MessageViews[n] : n \in DOMAIN MessageViews}
SentBuffers == <<"sendMsg_values", "sendMsg_dstIds",
                 "sendMsgN_values", "sendMsgN_srcIds">>

VARIABLES
  place,      \* the place: pc, run, step, and the types of the run
  property,   \* NativePyXPregelAdapter.property
  shared,     \* shared[r]: what the property segment made in run r holds
  segment,    \* segment[name]: the segment a name stands for
  buffer,     \* buffer[name, thread]: the same for the segments workers make
  active,     \* the bits of the segment vertexA
  worker,     \* worker[t]: the process forked for thread t in this run
  answer,     \* answer[t]: how much it says it has sent, or NoAnswer
  imported,   \* what the place has read from the segments of each thread
  wanted      \* wanted[v]: the flag last asked for by the worker of v

adapterVars == <<place, property, shared, segment, buffer, active, worker, answer, imported, wanted>>

-----------------------------------------------------------------------------
(* Segments.  The value of a segment is its identity: who made it, when, and how
   long it is.                                                                 *)
NoSegment == [name |-> "none", run |-> 0, step |-> 0, by |-> -1, len |-> 0]
Segment(name, by, len) ==
  [name |-> name, run |-> place.run, step |-> place.step, by |-> by, len |-> len]

\* createShmemMemoryChunk: unlink, open with Create, ftruncate.
createShmem(table, name, len) == [table EXCEPT ![name] = Segment(name, -1, len)]

\* The name of a buffer a worker sends.
\* Mutant: the thread is left out.
UnnumberedBuffer(t, name) == <<name, 0>>
ShmemBufferName(t, name) == <<name, t>>

(* The memory of a worker: maps[a] is the segment mapped at address a, info[v] the
   MapInfo of view v, view[v] the memoryview.                                    *)
NULL == 0
MAP_FAILED == -1
NoInfo == [addr |-> NULL, size |-> 0]
NewWorker == [pc |-> "start", n |-> 0, property |-> 0, step |-> -1,
              maps |-> <<>>,
              info |-> [v \in ContextViews \cup OtherViews |-> NoInfo],
              view |-> [v \in ContextViews |-> NoInfo],
              sends |-> <<0, 0>>, word |-> {}, stray |-> FALSE]

munmap(maps, info) == Restrict(maps, DOMAIN maps \ {info.addr})

\* The lowest free address: an address that was just unmapped is used again.
Free(maps) == CHOOSE a \in 1 .. Cardinality(DOMAIN maps) + 1 :
                /\ a \notin DOMAIN maps
                /\ \A b \in 1 .. a - 1 : b \in DOMAIN maps

\* Shmem::MMapShmem once the old mapping is gone: a length of 0 is the length of the
\* segment, and no bytes at all cannot be mapped.
mmap(maps, seg, size) ==
  LET len == IF size = 0 THEN seg.len ELSE size
      at  == IF len = 0 THEN MAP_FAILED ELSE Free(maps)
  IN  [maps |-> IF len = 0 THEN maps
                ELSE [a \in DOMAIN maps \cup {at} |-> IF a = at THEN seg ELSE maps[a]],
       info |-> [addr |-> at, size |-> len]]

\* The MapInfo a view function passes.  sendMsgN_flags passes that of the values.
\* Mutant: message_offsets passes that of the values as well.
SharedInfo(v) == IF v = "message.offsets" THEN "message.values" ELSE v
InfoOf(v) == IF v = "sendMsgN_flags" THEN "sendMsgN_values" ELSE v

\* The name of the segment it maps: sendMsgN_flags maps the values.
NameOf(v) == IF v = "sendMsgN_flags" THEN "sendMsgN_values" ELSE v

\* The length it asks for, from the property segment.
SizeFor(v, p) ==
  CASE v = "outEdge.offsets"  -> p.outEdge_offsets_size * SizeOf("Long")
    [] v = "outEdge.vertices" -> p.outEdge_vertices_size * SizeOf("Long")
    [] v = "inEdge.offsets"   -> p.inEdge_offsets_size * SizeOf("Long")
    [] v = "inEdge.vertices"  -> p.inEdge_vertices_size * SizeOf("Long")
    [] v = "vertexValue"      -> p.numLocalVertices * SizeOf(p.vertexValue_type)
    [] v \in {"vertexA", "sendMsgN_flags"} -> p.vertexActive_mc_size * WordBytes
    [] v = "vertexSBA"        -> p.vertexShouldBeActive_mc_size * WordBytes
    [] v = "message.values"   -> p.message_values_size * SizeOf(p.message_value_type)
    [] v = "message.offsets"  -> p.message_offsets_size * SizeOf("Long")
    [] v = "sendMsgN_values"  -> p.numLocalVertices * SizeOf(p.message_value_type)

\* What the property segment a worker has mapped says now.
PropertyOf(w) == shared[w.property]

\* A view function: the worker after it, and the view.  The assertion that the segment
\* is long enough, and the exit when there is none, are in CanMap.
CanMap(w, v) == /\ segment[NameOf(v)] # NoSegment
                /\ segment[NameOf(v)].len >= SizeFor(v, PropertyOf(w))
MMapShmem(w, v) ==
  LET size == SizeFor(v, PropertyOf(w))
      m == mmap(munmap(w.maps, w.info[InfoOf(v)]), segment[NameOf(v)], size)
  IN  [worker |-> [w EXCEPT !.maps = m.maps, !.info[InfoOf(v)] = m.info],
       view   |-> [addr |-> m.info.addr, size |-> size]]

-----------------------------------------------------------------------------
(* The place. *)
NoProperty == [numLocalVertices |-> 0, outEdge_offsets_size |-> 0,
               outEdge_vertices_size |-> 0, inEdge_offsets_size |-> 0,
               inEdge_vertices_size |-> 0, vertexValue_type |-> "Long",
               vertexActive_mc_size |-> 0, vertexShouldBeActive_mc_size |-> 0,
               message_values_size |-> 0, message_offsets_size |-> 0,
               message_value_type |-> "Long"]
NoAnswer == <<-1, -1>>
Names == ContextViews \cup OtherViews \cup {"closure", "place"}
BufferNames == {SentBuffers[n] : n \in DOMAIN SentBuffers} \X Threads

\* createShmemProperty makes the property segment of a run anew: it holds nothing until
\* updateShmemProperty.
AdapterInit ==
  /\ place = [pc |-> "run", run |-> 1, step |-> 0, done |-> 0, value |-> "Long", message |-> "Long"]
  /\ property = NoProperty
  /\ shared = [r \in 0 .. NumRuns |-> NoProperty]
  /\ segment = [n \in Names |-> NoSegment]
  /\ buffer = [n \in BufferNames |-> NoSegment]
  /\ active = Vertexes
  /\ worker = [t \in Threads |-> NewWorker]
  /\ answer = [t \in Threads |-> NoAnswer]
  /\ imported = [t \in Threads |-> <<>>]
  /\ wanted = [v \in Vertexes |-> TRUE]

\* exportShmemReceivedMessages: the segments of n messages of type M, and the property.
WithMessages(table, n, M) ==
  createShmem(createShmem(table, "message.values", n * SizeOf(M)),
              "message.offsets", (NumVertexes + 1) * SizeOf("Long"))
\* Mutant: the property keeps the number of the superstep before.
CountForgotten(p, n, M) ==
  [p EXCEPT !.message_offsets_size = NumVertexes + 1, !.message_value_type = M]
MessageProperty(p, n, M) ==
  [p EXCEPT !.message_values_size = n, !.message_offsets_size = NumVertexes + 1,
            !.message_value_type = M]

\* The segments of the graph, with the properties createShmem* set on the way.
GraphLength(v, V) ==
  CASE v \in {"outEdge.offsets", "inEdge.offsets"} -> (NumVertexes + 1) * SizeOf("Long")
    [] v = "outEdge.vertices" -> NumOutEdges * SizeOf("Long")
    [] v = "inEdge.vertices"  -> NumInEdges * SizeOf("Long")
    [] v = "vertexValue"      -> NumVertexes * SizeOf(V)
    [] OTHER                  -> NumWords * WordBytes
GraphProperty(p, V) ==
  [p EXCEPT !.numLocalVertices = NumVertexes,
            !.outEdge_offsets_size = NumVertexes + 1, !.outEdge_vertices_size = NumOutEdges,
            !.inEdge_offsets_size = NumVertexes + 1,  !.inEdge_vertices_size = NumInEdges,
            !.vertexValue_type = V,
            !.vertexActive_mc_size = NumWords, !.vertexShouldBeActive_mc_size = NumWords]

updateShmemProperty(p) == [shared EXCEPT ![place.run] = p]

\* run, until the workers are forked.  The property segment comes last.
Export ==
  /\ place.pc = "run"
  /\ \E V, M \in ValueTypes :
       LET graph == [n \in Names |->
                       IF n \in ContextViews THEN Segment(n, -1, GraphLength(n, V))
                       ELSE IF n = "sendMsgN_flags" THEN Segment(n, -1, NumWords * WordBytes)
                       ELSE IF n = "sendMsgN_values" THEN Segment(n, -1, NumVertexes * SizeOf(M))
                       ELSE Segment(n, -1, 1)]
       IN  /\ segment' = WithMessages(graph, 0, M)
           /\ property' = MessageProperty(GraphProperty(property, V), 0, M)
           /\ shared' = updateShmemProperty(property')
           /\ place' = [place EXCEPT !.pc = "command", !.value = V, !.message = M]
  /\ active' = Vertexes /\ wanted' = [v \in Vertexes |-> TRUE]
  /\ worker' = [t \in Threads |-> NewWorker]
  /\ answer' = [t \in Threads |-> NoAnswer]
  /\ imported' = [t \in Threads |-> <<>>]
  /\ UNCHANGED buffer

\* "superstep n" to every worker.
Command ==
  /\ place.pc = "command"
  /\ place' = [place EXCEPT !.pc = "wait"]
  /\ answer' = [t \in Threads |-> NoAnswer]
  /\ imported' = [t \in Threads |-> <<>>]
  /\ UNCHANGED <<property, shared, segment, buffer, active, worker, wanted>>

\* waitSuperStepOnThread of all threads, then importSentMessagesOnShmem: the segments
\* of a thread that says it has sent something.
Import ==
  /\ place.pc = "wait"
  /\ \A t \in Threads : answer[t] # NoAnswer
  /\ imported' = [t \in Threads |->
       [n \in 1 .. 4 |-> IF answer[t][(n + 1) \div 2] > 0
                           THEN buffer[<<SentBuffers[n], t>>] ELSE NoSegment]]
  /\ place' = [place EXCEPT !.pc = "decide", !.done = @ + 1]
  /\ UNCHANGED <<property, shared, segment, buffer, active, worker, answer, wanted>>

\* The messages arrived for the next superstep are exported.
NextSuperstep ==
  /\ place.pc = "decide" /\ place.done < MaxSupersteps
  /\ \E n \in Counts :
       /\ segment' = WithMessages(segment, n, place.message)
       /\ property' = MessageProperty(property, n, place.message)
  /\ shared' = updateShmemProperty(property')
  /\ place' = [place EXCEPT !.pc = "command", !.step = @ + 1]
  /\ UNCHANGED <<buffer, active, worker, answer, imported, wanted>>

\* The run ends.  The next one makes all its segments anew.
EndRun ==
  /\ place.pc = "decide"
  /\ place' = IF place.run < NumRuns /\ place.done < MaxSupersteps
                THEN [place EXCEPT !.pc = "run", !.run = @ + 1, !.step = 0]
                ELSE [place EXCEPT !.pc = "done"]
  /\ UNCHANGED <<property, shared, segment, buffer, active, worker, answer, imported, wanted>>

-----------------------------------------------------------------------------
(* A worker. *)
Set(t, w) == worker' = [worker EXCEPT ![t] = w]
OnlyWorker == UNCHANGED <<place, property, shared, segment, buffer, active, answer, imported, wanted>>

\* The worker asks for view v and keeps it in its context; then it is at pc with n.
MapView(t, v, pc, n) ==
  LET w == worker[t]
      m == MMapShmem(w, v)
  IN  Set(t, IF CanMap(w, v) THEN [m.worker EXCEPT !.view[v] = m.view, !.pc = pc, !.n = n]
                             ELSE [w EXCEPT !.pc = "aborted"])

\* main maps the property; XPregelContext asks for the formats of both types.
MMapShmemProperty == [NewWorker EXCEPT !.property = place.run]
Start(t) ==
  /\ worker[t].pc = "start" /\ place.pc \in {"command", "wait"}
  /\ LET w == MMapShmemProperty
         formats == /\ PyFormat(PropertyOf(w).vertexValue_type)
                    /\ PyFormat(PropertyOf(w).message_value_type)
     IN  Set(t, [w EXCEPT !.pc = IF formats THEN "context" ELSE "aborted", !.n = 1])
  /\ OnlyWorker

\* XPregelContext asks for the arrays of the graph, one after the other.
Context(t) ==
  /\ worker[t].pc = "context"
  /\ LET n == worker[t].n IN
     MapView(t, GraphViews[n], IF n = Len(GraphViews) THEN "closure" ELSE "context", n + 1)
  /\ OnlyWorker

\* loadClosureFromShmem: new_memoryview_from_shmem passes a MapInfo it has not set.  The
\* stack holds nothing that looks like a mapping, or still the last one, which is then
\* unmapped.  The view of the closure is dropped later, its mapping never.  The worker
\* waits for commands.
LoadClosure(t) ==
  /\ worker[t].pc = "closure"
  /\ \E left \in {NoInfo, worker[t].info[GraphViews[Len(GraphViews)]]} :
       Set(t, [worker[t] EXCEPT !.maps = mmap(munmap(@, left), segment["closure"], 0).maps,
                                !.stray = left # NoInfo, !.pc = "ready"])
  /\ OnlyWorker

\* The command is read: beforeSuperstep.
Superstep(t) ==
  /\ worker[t].pc = "ready" /\ place.pc = "wait" /\ worker[t].step < place.step
  /\ Set(t, [worker[t] EXCEPT !.step = place.step, !.n = 1, !.pc = "messages"])
  /\ OnlyWorker

\* newReceiveMessageBuffer asks for the views of the messages.
newReceiveMessageBuffer(t) ==
  /\ worker[t].pc = "messages"
  /\ IF worker[t].n = 1 THEN MapView(t, MessageViews[1], "messages", 2)
                        ELSE MapView(t, MessageViews[2], "compute", 0)
  /\ OnlyWorker

\* A program asks for one of the views that the context does not hold.
AskForView(t, v) ==
  /\ worker[t].pc = "compute" /\ CanMap(worker[t], v)
  /\ Set(t, MMapShmem(worker[t], v).worker)
  /\ OnlyWorker

\* bitmap_get and bitmap_set of a bitmap of so many bytes: an index of up to 64 bits
\* for every byte passes.
IndexAccepted(index, bytes) == index <= bytes * BitsPerWord
WordOf(v) == {u \in Vertexes : u \div BitsPerWord = v \div BitsPerWord}

\* compute of the next vertex changes its flag, whatever it is: bitmap_set loads the word.
bitmap_get(t, v) ==
  /\ worker[t].pc = "compute"
  /\ v \in RangeOf(t) /\ v >= worker[t].n
  /\ \A u \in RangeOf(t) : u < v => u < worker[t].n
  /\ IndexAccepted(v, worker[t].view["vertexA"].size)
  /\ Set(t, [worker[t] EXCEPT !.pc = "store", !.n = v, !.word = active \cap WordOf(v)])
  /\ OnlyWorker

\* It stores the word with the flag set or cleared.
bitmap_set(t) ==
  LET v == worker[t].n
      flag == ~wanted[v]
      word == IF flag THEN worker[t].word \cup {v} ELSE worker[t].word \ {v}
  IN  /\ worker[t].pc = "store"
      /\ active' = (active \ WordOf(v)) \cup word
      /\ wanted' = [wanted EXCEPT ![v] = flag]
      /\ Set(t, [worker[t] EXCEPT !.pc = "compute", !.n = v + 1, !.word = {}])
      /\ UNCHANGED <<place, property, shared, segment, buffer, answer, imported>>

\* The vertices are done, and so much was sent.
Computed(t) ==
  /\ worker[t].pc = "compute"
  /\ \A u \in RangeOf(t) : u < worker[t].n
  /\ \E uc, bc \in Counts :
       Set(t, [worker[t] EXCEPT !.pc = "write", !.n = 1, !.sends = <<uc, bc>>])
  /\ OnlyWorker

\* write_buffer_to_shmem: CreateShmemBuffer unlinks and makes the segment, which is
\* unmapped again once it is written.
write_buffer_to_shmem(table, t, n) ==
  LET item == IF n % 2 = 1 THEN SizeOf(PropertyOf(worker[t]).message_value_type)
                           ELSE SizeOf("Long")
      len == worker[t].sends[(n + 1) \div 2] * item
  IN  [table EXCEPT ![ShmemBufferName(t, SentBuffers[n])] = Segment(SentBuffers[n], t, len)]

\* writeSendMessageBuffer, then writeSendMessageToAllNeighborsBuffer: two buffers each.
WriteBuffers(t) ==
  /\ worker[t].pc = "write"
  /\ LET n == worker[t].n IN
     /\ buffer' = write_buffer_to_shmem(write_buffer_to_shmem(buffer, t, n), t, n + 1)
     /\ Set(t, [worker[t] EXCEPT !.n = IF n = 1 THEN 3 ELSE 1,
                                 !.pc = IF n = 1 THEN "write" ELSE "answer"])
  /\ UNCHANGED <<place, property, shared, segment, active, answer, imported, wanted>>

\* afterSuperstep: returnValue writes the numbers to stdout (write_buffer_to_stdout).
Answer(t) ==
  /\ worker[t].pc = "answer"
  /\ answer' = [answer EXCEPT ![t] = worker[t].sends]
  /\ Set(t, [worker[t] EXCEPT !.pc = "ready", !.sends = <<0, 0>>])
  /\ UNCHANGED <<place, property, shared, segment, buffer, active, imported, wanted>>

WorkerStep(t) ==
  \/ Start(t) \/ Context(t) \/ LoadClosure(t)
  \/ Superstep(t) \/ newReceiveMessageBuffer(t)
  \/ bitmap_set(t) \/ Computed(t) \/ WriteBuffers(t) \/ Answer(t)
  \/ \E v \in AskedViews : AskForView(t, v)
  \/ \E v \in Vertexes : bitmap_get(t, v)

\* Nothing is left to do, or a worker has aborted and the place waits for it.
Stopped ==
  /\ place.pc = "done" \/ \E t \in Threads : worker[t].pc = "aborted"
  /\ UNCHANGED adapterVars

AdapterNext == Export \/ Command \/ Import \/ NextSuperstep \/ EndRun \/ Stopped
          \/ \E t \in Threads : WorkerStep(t)
AdapterSpec == AdapterInit /\ [][AdapterNext]_adapterVars

-----------------------------------------------------------------------------
Computing(t) == worker[t].pc \in {"compute", "store", "write"}
Shown(w, v) == IF w.view[v].addr \in DOMAIN w.maps THEN w.maps[w.view[v].addr] ELSE NoSegment

(* While a worker computes, each view of its context shows, in full length, the
   segment the place made last for that array: no view is left at an address that was
   unmapped or mapped to something else, and none has an old length.  A view of no
   bytes shows nothing.  (A worker whose uninitialised MapInfo happened to hold an
   address is out.)                                                              *)
ViewsShowTheirSegments ==
  \A t \in Threads : \A v \in ContextViews :
    Computing(t) /\ ~worker[t].stray =>
      /\ worker[t].view[v].size = segment[v].len
      /\ segment[v].len > 0 => Shown(worker[t], v) = segment[v]

(* What the place imports for a thread was written by that thread, in this superstep
   of this run, and has the length its numbers of messages say.                   *)
ImportedAsSent ==
  place.pc = "decide" =>
    \A t \in Threads : \A n \in 1 .. 4 :
      LET count == answer[t][(n + 1) \div 2]
          item == IF n % 2 = 1 THEN SizeOf(place.message) ELSE SizeOf("Long")
      IN  count > 0 => imported[t][n] = Segment(SentBuffers[n], t, count * item)

(* Workers set the flags of their own vertices in one shared bitmap by reading and
   writing whole words, without locks: no flag is lost.                          *)
FlagsAsSet ==
  (\A t \in Threads : worker[t].pc # "store") => active = {v \in Vertexes : wanted[v]}
-----------------------------------------------------------------------------
(* The inductive invariant behind the three properties. *)
Views == ContextViews \cup OtherViews
Property == [numLocalVertices : Nat, outEdge_offsets_size : Nat, outEdge_vertices_size : Nat,
             inEdge_offsets_size : Nat, inEdge_vertices_size : Nat, vertexValue_type : Types,
             vertexActive_mc_size : Nat, vertexShouldBeActive_mc_size : Nat,
             message_values_size : Nat, message_offsets_size : Nat,
             message_value_type : Types]
Places == [pc : {"run", "command", "wait", "decide", "done"}, run : 1 .. NumRuns,
           step : Nat, done : Nat, value : Types, message : Types]
SegmentNames == Names \cup {SentBuffers[n] : n \in 1 .. 4} \cup {"none"}
Segments == [name : SegmentNames, run : Nat, step : Nat, by : Int, len : Nat]
Infos == [addr : Int, size : Nat]
Stages == {"start", "context", "closure", "ready", "messages", "compute", "store", "write",
           "answer", "aborted"}
Workers ==
  [pc : Stages, n : Nat, property : 0 .. NumRuns, step : Int,
   maps : UNION {[A -> Segments] : A \in SUBSET (Nat \ {0})},
   info : [Views -> Infos], view : [ContextViews -> Infos],
   sends : Nat \X Nat, word : SUBSET Vertexes, stray : BOOLEAN]

AdapterTypeOK ==
  /\ place \in Places
  /\ property \in Property /\ shared \in [0 .. NumRuns -> Property]
  /\ segment \in [Names -> Segments] /\ buffer \in [BufferNames -> Segments]
  /\ active \subseteq Vertexes /\ wanted \in [Vertexes -> BOOLEAN]
  /\ worker \in [Threads -> Workers]
  /\ answer \in [Threads -> Int \X Int] /\ imported \in [Threads -> Seq(Segments)]
  /\ \A t \in Threads : IsFiniteSet(DOMAIN worker[t].maps)

\* What a worker may be doing while the place is where it is.
InStep(t) ==
  LET w == worker[t]
      steady == place.pc = "decide" \/ (place.pc = "wait" /\ answer[t] # NoAnswer)
  IN  /\ steady => w.pc = "ready" /\ w.step = place.step
      /\ place.pc \in {"run", "done"} => w.pc \in {"start", "ready"}
      /\ w.pc \in {"messages", "compute", "store", "write", "answer"}
           => place.pc = "wait" /\ answer[t] = NoAnswer /\ w.step = place.step
      /\ w.pc \in {"context", "closure"} => ~w.stray
      /\ w.pc = "context" => w.n \in 1 .. Len(GraphViews)
      /\ w.pc = "messages" => w.n \in 1 .. 2
      /\ w.pc = "write" => w.n \in {1, 3}
      /\ place.pc # "run" /\ w.pc # "start" => w.property = place.run
AllInStep == \A t \in Threads : InStep(t)

\* A worker in the middle of bitmap_set still holds what the word is.
WordsKept ==
  /\ active = {v \in Vertexes : wanted[v]}
  /\ \A t \in Threads : worker[t].pc = "store" =>
       worker[t].n \in RangeOf(t) /\ worker[t].word = active \cap WordOf(worker[t].n)

\* The property segment of the run describes the segments.
Described ==
  place.pc # "run" =>
    /\ shared[place.run] = property /\ property.message_value_type = place.message
    /\ \A v \in ContextViews : segment[v].len = SizeFor(v, property)

\* A worker has different mappings at the addresses its MapInfos hold, and those of the
\* views it has asked for are of the segments that are there.
Asked(w) ==
  CASE w.pc \in {"closure", "ready"}                      -> {GraphViews[n] : n \in 1 .. 7}
    [] w.pc = "context"                                   -> {GraphViews[n] : n \in 1 .. w.n - 1}
    [] w.pc = "messages"                                  ->
         {GraphViews[n] : n \in 1 .. 7} \cup {MessageViews[n] : n \in 1 .. w.n - 1}
    [] w.pc \in {"compute", "store", "write", "answer"}   -> ContextViews
    [] OTHER                                              -> {}
MapsDistinct(w) ==
  /\ \A v \in Views : w.info[v].addr > 0 => w.info[v].addr \in DOMAIN w.maps
  /\ \A u, v \in Views : u # v /\ w.info[u].addr > 0 => w.info[u].addr # w.info[v].addr
  /\ \A v \in ContextViews : w.view[v].addr = w.info[v].addr
ShowsSegment(w, v) ==
  /\ w.view[v].size = segment[v].len
  /\ segment[v].len > 0 => w.info[v].addr > 0 /\ w.maps[w.info[v].addr] = segment[v]
Mapped ==
  place.pc # "run" => \A t \in Threads : ~worker[t].stray =>
    MapsDistinct(worker[t]) /\ \A v \in Asked(worker[t]) : ShowsSegment(worker[t], v)

\* The segments a worker has made in the superstep, until the place imports them.
MadeFor(t, n, counts) ==
  buffer[<<SentBuffers[n], t>>] =
    Segment(SentBuffers[n], t, counts[(n + 1) \div 2]
                               * IF n % 2 = 1 THEN SizeOf(place.message) ELSE SizeOf("Long"))
Made(t) ==
  LET w == worker[t] IN
  /\ w.pc = "write" /\ w.n = 3 => \A n \in 1 .. 2 : MadeFor(t, n, w.sends)
  /\ w.pc = "answer" => \A n \in 1 .. 4 : MadeFor(t, n, w.sends)
  /\ place.pc \in {"wait", "decide"} /\ answer[t] # NoAnswer
       => \A n \in 1 .. 4 : MadeFor(t, n, answer[t])
  /\ place.pc = "decide" =>
       /\ answer[t] # NoAnswer
       /\ \A n \in 1 .. 4 :
            answer[t][(n + 1) \div 2] > 0 => imported[t][n] = buffer[<<SentBuffers[n], t>>]
AllMade == \A t \in Threads : Made(t)

MemoryInv == /\ AdapterTypeOK /\ AllInStep /\ WordsKept
             /\ Described /\ Mapped /\ AllMade
=============================================================================
