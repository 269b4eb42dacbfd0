-------------------------- MODULE PythonMemoryProofs ---------------------------
(***************************************************************************)
(* What holds of the memory the Python workers share, for any number of    *)
(* workers, vertices, supersteps and runs, whatever programs send; and of  *)
(* the interpreter embedded beside it, for any number of calls and runs,   *)
(* whatever fails.                                                         *)
(***************************************************************************)
EXTENDS WorkerMemory, EmbeddedPythonInv, FiniteSetTheorems, SequenceTheorems, DataLemmas, TLAPS

-----------------------------------------------------------------------------
(***************************************************************************)
(* The words of the bitmap.                                                *)
(***************************************************************************)
LEMMA ChunksType ==
  ASSUME NEW a \in Int, NEW b \in Nat \ {0}
  PROVE  Chunks(a, b) \in Int
BY DEF Chunks

LEMMA ChunkWordsType == ChunkWords \in Nat \ {0}
<1>1. Chunks(Chunks(NumVertexes, BitsPerWord), NumWorkers) \in Int
  BY ChunksType, MemoryAssumption
<1> QED
  BY <1>1 DEF ChunkWords

\* The words of a vertex of thread t are words of thread t.
LEMMA WordInChunk ==
  ASSUME NEW t \in Nat, NEW c \in Nat \ {0}, NEW b \in Nat \ {0}, NEW v \in Nat,
         t * c * b <= v, v < (t + 1) * c * b
  PROVE  t * c <= v \div b /\ v \div b < (t + 1) * c
OBVIOUS

\* No two threads have vertices in one word.
LEMMA OwnWords ==
  ASSUME NEW s \in Threads, NEW t \in Threads, NEW u \in RangeOf(s), NEW v \in RangeOf(t),
         WordOf(u) \cap WordOf(v) # {}
  PROVE  s = t
<1>1. s \in Nat /\ t \in Nat /\ u \in Nat /\ v \in Nat
  BY MemoryAssumption DEF Threads, RangeOf, Vertexes
<1>2. u \div BitsPerWord = v \div BitsPerWord
  BY DEF WordOf
<1>3. /\ s * ChunkWords <= u \div BitsPerWord /\ u \div BitsPerWord < (s + 1) * ChunkWords
      /\ t * ChunkWords <= v \div BitsPerWord /\ v \div BitsPerWord < (t + 1) * ChunkWords
  BY <1>1, WordInChunk, ChunkWordsType, MemoryAssumption DEF RangeOf
<1>4. u \div BitsPerWord \in Nat
  BY <1>1, MemoryAssumption
<1>5. ASSUME NEW a \in Nat, NEW d \in Nat, a < d, NEW c \in Nat, NEW k \in Nat,
             d * c <= k, k < (a + 1) * c
      PROVE  FALSE
  <2>1. (a + 1) * c <= d * c
    BY <1>5
  <2> QED
    BY <1>5, <2>1
<1> QED
  BY <1>1, <1>2, <1>3, <1>4, <1>5, ChunkWordsType

-----------------------------------------------------------------------------
(***************************************************************************)
(* Addresses and mappings.                                                 *)
(***************************************************************************)
LEMMA FreeIsFree ==
  ASSUME NEW maps, IsFiniteSet(DOMAIN maps), DOMAIN maps \subseteq Nat \ {0}
  PROVE  Free(maps) \in Nat \ {0} /\ Free(maps) \notin DOMAIN maps
<1> DEFINE D == DOMAIN maps
           T == (1 .. Cardinality(D) + 1) \ D
<1>1. Cardinality(D) \in Nat
  BY FS_CardinalityType
<1>2. \E a \in 1 .. Cardinality(D) + 1 : a \notin D
  <2> SUFFICES ASSUME 1 .. Cardinality(D) + 1 \subseteq D PROVE FALSE
    OBVIOUS
  <2>1. Cardinality(1 .. Cardinality(D) + 1) = Cardinality(D) + 1
    BY <1>1, FS_Interval
  <2> QED
    BY <1>1, <2>1, FS_Subset
<1>3. PICK a \in T : \A b \in T : a <= b
  <2>1. T \in SUBSET Nat /\ T # {}
    BY <1>1, <1>2
  <2> HIDE DEF T
  <2> QED
    BY <2>1, Least
<1>4. a \in 1 .. Cardinality(D) + 1 /\ a \notin D /\ \A b \in 1 .. a - 1 : b \in D
  BY <1>1, <1>3
<1> QED
  BY <1>1, <1>4 DEF Free

Mapping == UNION {[A -> Segments] : A \in SUBSET (Nat \ {0})}

LEMMA MappingDomain ==
  ASSUME NEW maps
  PROVE  maps \in Mapping
           <=> /\ maps = [a \in DOMAIN maps |-> maps[a]] /\ DOMAIN maps \subseteq Nat \ {0}
               /\ \A a \in DOMAIN maps : maps[a] \in Segments
<1>1. ASSUME maps \in Mapping
      PROVE  /\ maps = [a \in DOMAIN maps |-> maps[a]] /\ DOMAIN maps \subseteq Nat \ {0}
             /\ \A a \in DOMAIN maps : maps[a] \in Segments
  <2>1. PICK A \in SUBSET (Nat \ {0}) : maps \in [A -> Segments]
    BY <1>1 DEF Mapping
  <2> QED
    BY <2>1
<1>2. ASSUME maps = [a \in DOMAIN maps |-> maps[a]], DOMAIN maps \subseteq Nat \ {0},
             \A a \in DOMAIN maps : maps[a] \in Segments
      PROVE  maps \in Mapping
  <2>1. maps \in [DOMAIN maps -> Segments]
    BY <1>2
  <2> QED
    BY <1>2, <2>1 DEF Mapping
<1> QED
  BY <1>1, <1>2

\* munmap takes one address away, mmap adds one that is free.
LEMMA Unmapped ==
  ASSUME NEW maps \in Mapping, IsFiniteSet(DOMAIN maps), NEW info
  PROVE  LET m == munmap(maps, info) IN
         /\ m \in Mapping /\ IsFiniteSet(DOMAIN m)
         /\ DOMAIN m = DOMAIN maps \ {info.addr}
         /\ \A a \in DOMAIN m : m[a] = maps[a]
<1> DEFINE m == munmap(maps, info)
<1>1. /\ m = [a \in DOMAIN m |-> m[a]] /\ DOMAIN m = DOMAIN maps \ {info.addr}
      /\ \A a \in DOMAIN m : m[a] = maps[a]
  BY DEF munmap, Restrict
<1>2. IsFiniteSet(DOMAIN m)
  BY <1>1, FS_Subset
<1> HIDE DEF m
<1>3. m \in Mapping
  BY <1>1, MappingDomain
<1> QED
  BY <1>1, <1>2, <1>3 DEF m

LEMMA MappedAtFree ==
  ASSUME NEW maps \in Mapping, IsFiniteSet(DOMAIN maps), NEW seg \in Segments, NEW size \in Nat
  PROVE  LET m == mmap(maps, seg, size)
             len == IF size = 0 THEN seg.len ELSE size
         IN  /\ m.maps \in Mapping /\ IsFiniteSet(DOMAIN m.maps) /\ m.info \in Infos
             /\ len = 0 => m.maps = maps /\ m.info.addr = MAP_FAILED
             /\ len # 0 => /\ m.info.addr \in Nat \ {0} /\ m.info.addr \notin DOMAIN maps
                           /\ DOMAIN m.maps = DOMAIN maps \cup {m.info.addr}
                           /\ m.maps[m.info.addr] = seg
             /\ \A a \in DOMAIN maps : a \in DOMAIN m.maps /\ m.maps[a] = maps[a]
<1> DEFINE len == IF size = 0 THEN seg.len ELSE size
           m == mmap(maps, seg, size)
<1>0. len \in Nat
  BY DEF Segments
<1>1. CASE len = 0
  BY <1>1 DEF mmap, Infos, MAP_FAILED
<1>2. CASE len # 0
  <2> DEFINE at == Free(maps)
             grown == [a \in DOMAIN maps \cup {at} |-> IF a = at THEN seg ELSE maps[a]]
  <2>1. at \in Nat \ {0} /\ at \notin DOMAIN maps
    BY FreeIsFree, MappingDomain
  <2>2. m = [maps |-> grown, info |-> [addr |-> at, size |-> len]]
    BY <1>2 DEF mmap
  <2> HIDE DEF at, m
  <2>3. /\ DOMAIN grown = DOMAIN maps \cup {at} /\ grown[at] = seg
        /\ \A a \in DOMAIN maps : grown[a] = maps[a]
    BY <2>1
  <2>4. grown = [a \in DOMAIN grown |-> grown[a]]
    OBVIOUS
  <2> HIDE DEF grown
  <2>5. grown \in Mapping
    BY <2>1, <2>3, <2>4, MappingDomain
  <2>6. IsFiniteSet(DOMAIN grown)
    BY <2>3, FS_AddElement
  <2>7. /\ m.maps \in Mapping /\ IsFiniteSet(DOMAIN m.maps) /\ m.info \in Infos
        /\ m.info.addr \in Nat \ {0} /\ m.info.addr \notin DOMAIN maps
        /\ DOMAIN m.maps = DOMAIN maps \cup {m.info.addr}
        /\ m.maps[m.info.addr] = seg
        /\ \A a \in DOMAIN maps : a \in DOMAIN m.maps /\ m.maps[a] = maps[a]
    BY <1>0, <2>1, <2>2, <2>3, <2>5, <2>6 DEF Infos
  <2> QED
    BY <1>2, <2>7 DEF m
<1> QED
  BY <1>1, <1>2

-----------------------------------------------------------------------------
(***************************************************************************)
(* Views, sizes and what a step does to one worker.                        *)
(***************************************************************************)
LEMMA ViewNames ==
  /\ GraphViews[1] = "outEdge.offsets" /\ GraphViews[2] = "outEdge.vertices"
  /\ GraphViews[3] = "inEdge.offsets" /\ GraphViews[4] = "inEdge.vertices"
  /\ GraphViews[5] = "vertexValue" /\ GraphViews[6] = "vertexA" /\ GraphViews[7] = "vertexSBA"
  /\ Len(GraphViews) = 7
  /\ MessageViews[1] = "message.values" /\ MessageViews[2] = "message.offsets"
  /\ ContextViews = {"outEdge.offsets", "outEdge.vertices", "inEdge.offsets",
                     "inEdge.vertices", "vertexValue", "vertexA", "vertexSBA",
                     "message.values", "message.offsets"}
BY DEF GraphViews, MessageViews, ContextViews

LEMMA ViewInfos ==
  /\ \A v \in Views : InfoOf(v) \in Views /\ NameOf(v) \in Names
  /\ \A v \in ContextViews : InfoOf(v) = v /\ NameOf(v) = v
  /\ \A v \in OtherViews : InfoOf(v) = "sendMsgN_values"
  /\ "sendMsgN_values" \in Views \ ContextViews
  /\ \A n \in 1 .. 7 : GraphViews[n] \in ContextViews
  /\ \A n \in 1 .. 2 : MessageViews[n] \in ContextViews
BY ViewNames DEF Views, OtherViews, InfoOf, NameOf, Names

LEMMA SizeOfType == \A type \in Types : SizeOf(type) \in Nat
BY DEF SizeOf, Types

LEMMA SizeForType ==
  ASSUME NEW p \in Property, NEW v \in Views
  PROVE  SizeFor(v, p) \in Nat
<1>1. /\ SizeOf("Long") \in Nat /\ SizeOf(p.vertexValue_type) \in Nat
      /\ SizeOf(p.message_value_type) \in Nat /\ WordBytes \in Nat
  BY SizeOfType DEF Property, Types, WordBytes
<1>2. v \in {"outEdge.offsets", "outEdge.vertices", "inEdge.offsets",
             "inEdge.vertices", "vertexValue", "vertexA", "vertexSBA",
             "message.values", "message.offsets", "sendMsgN_values", "sendMsgN_flags"}
  BY ViewNames DEF Views, OtherViews
<1> QED
  BY <1>1, <1>2 DEF SizeFor, Property

LEMMA SegmentType ==
  ASSUME AdapterTypeOK, NEW name \in SegmentNames, NEW by \in Int, NEW len \in Nat
  PROVE  Segment(name, by, len) \in Segments
BY DEF AdapterTypeOK, Places, Segment, Segments

LEMMA OthersAlone ==
  ASSUME AdapterTypeOK, NEW t \in Threads, NEW w, Set(t, w)
  PROVE  /\ worker'[t] = w
         /\ \A u \in Threads : u # t => worker'[u] = worker[u]
BY DEF AdapterTypeOK, Set

\* A worker that maps a view stays well typed; nothing but its mappings and the MapInfo
\* it passes changes.
LEMMA ViewMapped ==
  ASSUME AdapterTypeOK, NEW t \in Threads, NEW v \in Views
  PROVE  LET w == worker[t]
             m == MMapShmem(w, v)
         IN  /\ m.worker \in Workers /\ IsFiniteSet(DOMAIN m.worker.maps)
             /\ m.view \in Infos
             /\ m.worker = [w EXCEPT !.maps = m.worker.maps, !.info = m.worker.info]
<1> DEFINE w == worker[t]
           i == InfoOf(v)
           size == SizeFor(v, PropertyOf(w))
           um == munmap(w.maps, w.info[i])
           mm == mmap(um, segment[NameOf(v)], size)
           m == MMapShmem(w, v)
<1>0. w \in Workers /\ IsFiniteSet(DOMAIN w.maps) /\ w.maps \in Mapping
      /\ i \in Views /\ segment[NameOf(v)] \in Segments
  BY ViewInfos DEF AdapterTypeOK, Workers, Mapping
<1>1. PropertyOf(w) \in Property
  BY <1>0 DEF AdapterTypeOK, PropertyOf, Workers
<1>2. size \in Nat
  BY <1>1, SizeForType
<1>3. um \in Mapping /\ IsFiniteSet(DOMAIN um)
  BY <1>0, Unmapped
<1>4. mm.maps \in Mapping /\ IsFiniteSet(DOMAIN mm.maps) /\ mm.info \in Infos
  BY <1>0, <1>2, <1>3, MappedAtFree
<1>5. m = [worker |-> [w EXCEPT !.maps = mm.maps, !.info[i] = mm.info],
           view |-> [addr |-> mm.info.addr, size |-> size]]
  BY DEF MMapShmem
<1> HIDE DEF mm, um, size, m, i
<1>6. m.view \in Infos
  BY <1>2, <1>4, <1>5 DEF Infos
<1>7. m.worker = [w EXCEPT !.maps = mm.maps, !.info = [w.info EXCEPT ![i] = mm.info]]
  BY <1>5
<1>8. [w.info EXCEPT ![i] = mm.info] \in [Views -> Infos]
  BY <1>0, <1>4 DEF Workers
<1>9. m.worker \in Workers /\ m.worker.maps = mm.maps
  BY <1>0, <1>4, <1>7, <1>8 DEF Workers, Mapping
<1>10. m.worker = [w EXCEPT !.maps = m.worker.maps, !.info = m.worker.info]
  BY <1>0, <1>7 DEF Workers
<1> QED
  BY <1>4, <1>6, <1>9, <1>10 DEF m

-----------------------------------------------------------------------------
(***************************************************************************)
(* Types.                                                                  *)
(***************************************************************************)
LEMMA NewWorkerType == NewWorker \in Workers /\ IsFiniteSet(DOMAIN NewWorker.maps)
<1>1. /\ <<>> = [a \in DOMAIN <<>> |-> <<>>[a]] /\ DOMAIN <<>> = {}
  OBVIOUS
<1>2. <<>> \in Mapping
  BY <1>1, MappingDomain
<1>3. IsFiniteSet({})
  BY FS_EmptySet
<1>4. 0 \in 0 .. NumRuns
  BY MemoryAssumption
<1>5. NoInfo \in Infos
  BY DEF NoInfo, Infos, NULL
<1> QED
  BY <1>1, <1>2, <1>3, <1>4, <1>5 DEF NewWorker, Workers, Mapping, Stages, Views

LEMMA NoSegmentType == NoSegment \in Segments
BY DEF NoSegment, Segments, SegmentNames

LEMMA NoAnswerType == NoAnswer \in Int \X Int
BY DEF NoAnswer

LEMMA InitTypes == AdapterInit => AdapterTypeOK
<1> SUFFICES ASSUME AdapterInit PROVE AdapterTypeOK
  OBVIOUS
<1>1. NoProperty \in Property /\ "Long" \in Types
  BY DEF NoProperty, Property, Types
<1>2. NoSegment \in Segments
  BY NoSegmentType
<1>3. NoAnswer \in Int \X Int /\ <<>> \in Seq(Segments)
  BY NoAnswerType
<1>4. 1 \in 1 .. NumRuns
  BY MemoryAssumption
<1>5. place \in Places
  BY <1>1, <1>4 DEF AdapterInit, Places
<1> QED
  BY <1>1, <1>2, <1>3, <1>5, NewWorkerType DEF AdapterInit, AdapterTypeOK

\* A worker changed at most t's record, and what it is now is well typed.
LEMMA WorkerTypes ==
  ASSUME AdapterTypeOK, NEW t \in Threads, NEW w \in Workers, IsFiniteSet(DOMAIN w.maps),
         Set(t, w)
  PROVE  worker' \in [Threads -> Workers] /\ \A u \in Threads : IsFiniteSet(DOMAIN worker'[u].maps)
BY DEF AdapterTypeOK, Set

LEMMA MapViewTypes ==
  ASSUME AdapterTypeOK, NEW t \in Threads, NEW v \in ContextViews, NEW pc \in Stages, NEW n \in Nat,
         MapView(t, v, pc, n), OnlyWorker
  PROVE  AdapterTypeOK'
<1> DEFINE w == worker[t]
           m == MMapShmem(w, v)
           mapped == [m.worker EXCEPT !.view[v] = m.view, !.pc = pc, !.n = n]
           aborted == [w EXCEPT !.pc = "aborted"]
<1>1. /\ m.worker \in Workers /\ IsFiniteSet(DOMAIN m.worker.maps) /\ m.view \in Infos
  BY ViewMapped DEF Views
<1>2. w \in Workers /\ IsFiniteSet(DOMAIN w.maps)
  BY DEF AdapterTypeOK
<1>3. Set(t, IF CanMap(w, v) THEN mapped ELSE aborted)
  BY DEF MapView
<1> HIDE DEF m
<1>4. mapped = [m.worker EXCEPT !.view = [m.worker.view EXCEPT ![v] = m.view], !.pc = pc, !.n = n]
  OBVIOUS
<1>5. [m.worker.view EXCEPT ![v] = m.view] \in [ContextViews -> Infos]
  BY <1>1 DEF Workers
<1>6. mapped \in Workers /\ IsFiniteSet(DOMAIN mapped.maps)
  BY <1>1, <1>4, <1>5 DEF Workers
<1>7. aborted \in Workers /\ IsFiniteSet(DOMAIN aborted.maps)
  BY <1>2 DEF Workers, Stages
<1> HIDE DEF mapped, aborted
<1>8. worker' \in [Threads -> Workers] /\ \A u \in Threads : IsFiniteSet(DOMAIN worker'[u].maps)
  <2>1. CASE CanMap(w, v)
    BY <1>3, <1>6, <2>1, WorkerTypes
  <2>2. CASE ~CanMap(w, v)
    BY <1>3, <1>7, <2>2, WorkerTypes
  <2> QED
    BY <2>1, <2>2
<1> QED
  BY <1>8 DEF OnlyWorker, AdapterTypeOK

LEMMA MessagePropertyType ==
  ASSUME NEW p \in Property, NEW n \in Nat, NEW M \in Types
  PROVE  MessageProperty(p, n, M) \in Property
<1>1. NumVertexes + 1 \in Nat
  BY MemoryAssumption
<1> QED
  BY <1>1 DEF MessageProperty, Property

LEMMA GraphPropertyType ==
  ASSUME NEW p \in Property, NEW V \in Types
  PROVE  GraphProperty(p, V) \in Property
<1> DEFINE k == NumVertexes + 1
<1>1. /\ k \in Nat /\ NumVertexes \in Nat /\ NumOutEdges \in Nat /\ NumInEdges \in Nat
      /\ NumWords \in Nat
  BY MemoryAssumption DEF NumWords
<1> HIDE DEF k
<1>2. [p EXCEPT
         !.numLocalVertices = NumVertexes,
         !.outEdge_offsets_size = k, !.outEdge_vertices_size = NumOutEdges,
         !.inEdge_offsets_size = k, !.inEdge_vertices_size = NumInEdges,
         !.vertexValue_type = V, !.vertexActive_mc_size = NumWords,
         !.vertexShouldBeActive_mc_size = NumWords] \in Property
  BY <1>1 DEF Property
<1> QED
  BY <1>2 DEF GraphProperty, k

LEMMA WithMessagesType ==
  ASSUME AdapterTypeOK, NEW table \in [Names -> Segments], NEW n \in Nat, NEW M \in Types
  PROVE  WithMessages(table, n, M) \in [Names -> Segments]
<1>1. /\ n * SizeOf(M) \in Nat /\ (NumVertexes + 1) * SizeOf("Long") \in Nat
  BY MemoryAssumption, SizeOfType DEF Types
<1>2. "message.values" \in SegmentNames /\ "message.offsets" \in SegmentNames
  BY ViewNames DEF SegmentNames, Names
<1>3. /\ Segment("message.values", -1, n * SizeOf(M)) \in Segments
      /\ Segment("message.offsets", -1, (NumVertexes + 1) * SizeOf("Long")) \in Segments
  BY <1>1, <1>2, SegmentType
<1> QED
  BY <1>3 DEF WithMessages, createShmem

LEMMA PlaceMoves ==
  ASSUME AdapterTypeOK, NEW pc \in {"run", "command", "wait", "decide", "done"}
  PROVE  /\ [place EXCEPT !.pc = pc] \in Places
         /\ [place EXCEPT !.pc = pc, !.done = @ + 1] \in Places
         /\ [place EXCEPT !.pc = pc, !.step = @ + 1] \in Places
         /\ place.run < NumRuns => [place EXCEPT !.pc = pc, !.run = @ + 1, !.step = 0] \in Places
<1>1. NumRuns \in Nat
  BY MemoryAssumption
<1>2. place \in Places
  BY DEF AdapterTypeOK
<1>3. place.done \in Nat /\ place.step \in Nat /\ place.run \in 1 .. NumRuns
  BY <1>2 DEF Places
<1>4. place.done + 1 \in Nat /\ place.step + 1 \in Nat
  BY <1>3
<1>5. place.run < NumRuns => place.run + 1 \in 1 .. NumRuns
  BY <1>1, <1>3
<1> QED
  BY <1>2, <1>4, <1>5 DEF Places

LEMMA ExportTypes ==
  ASSUME AdapterTypeOK, Export
  PROVE  AdapterTypeOK'
<1>1. PICK V \in ValueTypes, M \in ValueTypes :
        /\ segment' = WithMessages([n \in Names |->
                       IF n \in ContextViews THEN Segment(n, -1, GraphLength(n, V))
                       ELSE IF n = "sendMsgN_flags" THEN Segment(n, -1, NumWords * WordBytes)
                       ELSE IF n = "sendMsgN_values" THEN Segment(n, -1, NumVertexes * SizeOf(M))
                       ELSE Segment(n, -1, 1)], 0, M)
        /\ property' = MessageProperty(GraphProperty(property, V), 0, M)
        /\ shared' = updateShmemProperty(property')
        /\ place' = [place EXCEPT !.pc = "command", !.value = V, !.message = M]
  BY DEF Export
<1>2. /\ V \in Types /\ M \in Types /\ SizeOf(V) \in Nat /\ SizeOf(M) \in Nat
      /\ SizeOf("Long") \in Nat /\ NumWords \in Nat /\ WordBytes \in Nat
      /\ NumVertexes \in Nat /\ NumVertexes + 1 \in Nat
      /\ NumOutEdges \in Nat /\ NumInEdges \in Nat
  BY MemoryAssumption, SizeOfType DEF Types, NumWords, WordBytes
<1>3. place' \in Places
  BY <1>1, <1>2 DEF AdapterTypeOK, Places
<1>4. property' \in Property
  <2>1. property \in Property
    BY DEF AdapterTypeOK
  <2>2. GraphProperty(property, V) \in Property
    BY <1>2, <2>1, GraphPropertyType
  <2> QED
    BY <1>1, <1>2, <2>2, MessagePropertyType
<1>5. shared' \in [0 .. NumRuns -> Property]
  BY <1>1, <1>4 DEF AdapterTypeOK, updateShmemProperty
<1>6. \A v \in ContextViews : GraphLength(v, V) \in Nat
  BY <1>2 DEF GraphLength
<1>7. Names \subseteq SegmentNames
  BY DEF SegmentNames
<1> DEFINE graph == [n \in Names |->
              IF n \in ContextViews THEN Segment(n, -1, GraphLength(n, V))
              ELSE IF n = "sendMsgN_flags" THEN Segment(n, -1, NumWords * WordBytes)
              ELSE IF n = "sendMsgN_values" THEN Segment(n, -1, NumVertexes * SizeOf(M))
              ELSE Segment(n, -1, 1)]
<1>8. segment' \in [Names -> Segments]
  <2>1. NumWords * WordBytes \in Nat /\ NumVertexes * SizeOf(M) \in Nat
    BY <1>2
  <2>2. graph \in [Names -> Segments]
    BY <1>6, <1>7, <2>1, SegmentType
  <2>3. segment' = WithMessages(graph, 0, M)
    BY <1>1
  <2> HIDE DEF graph
  <2> QED
    BY <1>2, <2>2, <2>3, WithMessagesType
<1>9. worker' \in [Threads -> Workers] /\ \A t \in Threads : IsFiniteSet(DOMAIN worker'[t].maps)
  BY NewWorkerType DEF Export
<1>10. answer' \in [Threads -> Int \X Int] /\ imported' \in [Threads -> Seq(Segments)]
  BY NoAnswerType DEF Export
<1>11. active' \subseteq Vertexes /\ wanted' \in [Vertexes -> BOOLEAN] /\ buffer' = buffer
  BY DEF Export
<1> QED
  BY <1>3, <1>4, <1>5, <1>8, <1>9, <1>10, <1>11 DEF AdapterTypeOK

LEMMA PlaceTypes ==
  ASSUME AdapterTypeOK, Command \/ Import \/ NextSuperstep \/ EndRun \/ Stopped
  PROVE  AdapterTypeOK'
<1>1. CASE Command
  BY <1>1, PlaceMoves, NoAnswerType DEF Command, AdapterTypeOK
<1>2. CASE Import
  <2>1. ASSUME NEW t \in Threads, NEW n \in 1 .. 4
        PROVE  buffer[<<SentBuffers[n], t>>] \in Segments
    BY DEF AdapterTypeOK, BufferNames, SentBuffers
  <2>3. imported' \in [Threads -> Seq(Segments)]
    BY <1>2, <2>1, NoSegmentType DEF Import
  <2> QED
    BY <1>2, <2>3, PlaceMoves DEF Import, AdapterTypeOK
<1>3. CASE NextSuperstep
  <2>1. PICK n \in Counts : /\ segment' = WithMessages(segment, n, place.message)
                            /\ property' = MessageProperty(property, n, place.message)
    BY <1>3 DEF NextSuperstep
  <2>2. /\ n \in Nat /\ place.message \in Types /\ SizeOf(place.message) \in Nat
        /\ SizeOf("Long") \in Nat /\ NumVertexes \in Nat
    BY MemoryAssumption, SizeOfType DEF AdapterTypeOK, Places, Types
  <2>3. property' \in Property
    BY <2>1, <2>2, MessagePropertyType DEF AdapterTypeOK
  <2>4. shared' \in [0 .. NumRuns -> Property]
    BY <1>3, <2>3 DEF NextSuperstep, AdapterTypeOK, updateShmemProperty
  <2>5. segment' \in [Names -> Segments]
    BY <2>1, <2>2, WithMessagesType DEF AdapterTypeOK
  <2> QED
    BY <1>3, <2>3, <2>4, <2>5, PlaceMoves DEF NextSuperstep, AdapterTypeOK
<1>4. CASE EndRun
  BY <1>4, PlaceMoves DEF EndRun, AdapterTypeOK
<1>5. CASE Stopped
  BY <1>5 DEF Stopped, adapterVars, AdapterTypeOK
<1> QED
  BY <1>1, <1>2, <1>3, <1>4, <1>5

LEMMA WrittenType ==
  ASSUME AdapterTypeOK, NEW t \in Threads, NEW n \in 1 .. 4,
         NEW table \in [BufferNames -> Segments]
  PROVE  write_buffer_to_shmem(table, t, n) \in [BufferNames -> Segments]
<1> DEFINE item == IF n % 2 = 1 THEN SizeOf(PropertyOf(worker[t]).message_value_type)
                                ELSE SizeOf("Long")
           len == worker[t].sends[(n + 1) \div 2] * item
<1>1. PropertyOf(worker[t]) \in Property
  BY DEF AdapterTypeOK, PropertyOf, Workers
<1>2. item \in Nat
  BY <1>1, SizeOfType DEF Property, Types
<1>3. (n + 1) \div 2 \in 1 .. 2
  OBVIOUS
<1>4. worker[t].sends[(n + 1) \div 2] \in Nat
  BY <1>3 DEF AdapterTypeOK, Workers
<1>5. len \in Nat
  BY <1>2, <1>4
<1>6. t \in Int /\ SentBuffers[n] \in SegmentNames
  BY MemoryAssumption DEF Threads, SegmentNames
<1> HIDE DEF item, len
<1>7. Segment(SentBuffers[n], t, len) \in Segments
  BY <1>5, <1>6, SegmentType
<1> QED
  BY <1>7 DEF write_buffer_to_shmem, len, item

LEMMA WorkerStepTypes ==
  ASSUME AdapterTypeOK, AllInStep, WordsKept, NEW t \in Threads, WorkerStep(t)
  PROVE  AdapterTypeOK'
<1> DEFINE w == worker[t]
<1>0. /\ w \in Workers /\ w.maps \in Mapping /\ IsFiniteSet(DOMAIN w.maps)
      /\ place.run \in 0 .. NumRuns /\ place.step \in Nat
  BY DEF AdapterTypeOK, Places, Workers, Mapping
<1>1. CASE Start(t)
  <2>1. PICK pc \in {"context", "aborted"} :
          Set(t, [[NewWorker EXCEPT !.property = place.run] EXCEPT !.pc = pc, !.n = 1])
    BY <1>1 DEF Start, MMapShmemProperty
  <2> DEFINE new == [[NewWorker EXCEPT !.property = place.run] EXCEPT !.pc = pc, !.n = 1]
  <2>2. new \in Workers /\ new.maps = NewWorker.maps
    BY <1>0, NewWorkerType DEF Workers, Stages
  <2> HIDE DEF new
  <2> QED
    BY <1>1, <2>1, <2>2, NewWorkerType, WorkerTypes DEF new, Start, OnlyWorker, AdapterTypeOK
<1>2. CASE Context(t)
  <2>1. w.n \in 1 .. 7 /\ w.n + 1 \in Nat
    BY <1>2, ViewNames DEF Context, AllInStep, InStep
  <2>2. PICK pc \in {"closure", "context"} : MapView(t, GraphViews[w.n], pc, w.n + 1)
    BY <1>2 DEF Context
  <2> QED
    BY <1>2, <2>1, <2>2, ViewInfos, MapViewTypes DEF Context, Stages
<1>3. CASE LoadClosure(t)
  <2>1. PICK left : Set(t, [w EXCEPT !.maps = mmap(munmap(w.maps, left), segment["closure"], 0).maps,
                                     !.stray = left # NoInfo, !.pc = "ready"])
    BY <1>3 DEF LoadClosure
  <2> DEFINE maps == mmap(munmap(w.maps, left), segment["closure"], 0).maps
             new == [w EXCEPT !.maps = maps, !.stray = left # NoInfo, !.pc = "ready"]
  <2>2. segment["closure"] \in Segments
    BY DEF AdapterTypeOK, Names
  <2>3. maps \in Mapping /\ IsFiniteSet(DOMAIN maps)
    BY <1>0, <2>2, Unmapped, MappedAtFree
  <2> HIDE DEF maps
  <2>4. new \in Workers /\ new.maps = maps
    BY <1>0, <2>3 DEF Workers, Stages, Mapping
  <2>5. Set(t, new)
    BY <2>1 DEF maps
  <2> HIDE DEF new
  <2> QED
    BY <1>3, <2>3, <2>4, <2>5, WorkerTypes DEF LoadClosure, OnlyWorker, AdapterTypeOK
<1>4. CASE Superstep(t)
  <2> DEFINE new == [w EXCEPT !.step = place.step, !.n = 1, !.pc = "messages"]
  <2>1. new \in Workers /\ new.maps = w.maps
    <3>1. place.step \in Int /\ 1 \in Nat /\ "messages" \in Stages
      BY <1>0 DEF Stages
    <3> QED
      BY <1>0, <3>1 DEF Workers
  <2>2. Set(t, new)
    BY <1>4 DEF Superstep
  <2> HIDE DEF new
  <2> QED
    BY <1>0, <1>4, <2>1, <2>2, WorkerTypes DEF Superstep, OnlyWorker, AdapterTypeOK
<1>5. CASE newReceiveMessageBuffer(t)
  BY <1>5, ViewInfos, MapViewTypes DEF newReceiveMessageBuffer, Stages
<1>6. CASE bitmap_set(t)
  <2> DEFINE v == w.n
             word == IF ~wanted[v] THEN w.word \cup {v} ELSE w.word \ {v}
             new == [w EXCEPT !.pc = "compute", !.n = v + 1, !.word = {}]
  <2>1. new \in Workers /\ new.maps = w.maps
    <3>1. v + 1 \in Nat
      BY <1>0 DEF Workers
    <3> QED
      BY <1>0, <3>1 DEF Workers, Stages
  <2>2. Set(t, new) /\ active' = (active \ WordOf(v)) \cup word
        /\ wanted' = [wanted EXCEPT ![v] = ~wanted[v]]
    BY <1>6 DEF bitmap_set
  <2>3. v \in Vertexes /\ w.word \subseteq Vertexes
    BY <1>0, <1>6 DEF bitmap_set, WordsKept, RangeOf, Workers
  <2>4. active' \subseteq Vertexes /\ wanted' \in [Vertexes -> BOOLEAN]
    BY <2>2, <2>3 DEF AdapterTypeOK
  <2> HIDE DEF new
  <2> QED
    BY <1>0, <1>6, <2>1, <2>2, <2>4, WorkerTypes DEF bitmap_set, AdapterTypeOK
<1>7. CASE Computed(t)
  <2>1. PICK uc \in Counts, bc \in Counts :
          Set(t, [w EXCEPT !.pc = "write", !.n = 1, !.sends = <<uc, bc>>])
    BY <1>7 DEF Computed
  <2> DEFINE new == [w EXCEPT !.pc = "write", !.n = 1, !.sends = <<uc, bc>>]
  <2>2. new \in Workers /\ new.maps = w.maps /\ Set(t, new)
    BY <1>0, <2>1, MemoryAssumption DEF Workers, Stages
  <2> HIDE DEF new
  <2> QED
    BY <1>0, <1>7, <2>2, WorkerTypes DEF Computed, OnlyWorker, AdapterTypeOK
<1>8. CASE WriteBuffers(t)
  <2> DEFINE n == w.n
             b == write_buffer_to_shmem(write_buffer_to_shmem(buffer, t, n), t, n + 1)
             new == [w EXCEPT !.n = IF n = 1 THEN 3 ELSE 1,
                              !.pc = IF n = 1 THEN "write" ELSE "answer"]
  <2>1. new \in Workers /\ new.maps = w.maps
    BY <1>0 DEF Workers, Stages
  <2>2. Set(t, new) /\ buffer' = b
    BY <1>8 DEF WriteBuffers
  <2>3. n \in {1, 3}
    BY <1>8 DEF WriteBuffers, AllInStep, InStep
  <2>4. b \in [BufferNames -> Segments]
    <3>1. buffer \in [BufferNames -> Segments] /\ n \in 1 .. 4 /\ n + 1 \in 1 .. 4
      BY <2>3 DEF AdapterTypeOK
    <3>2. write_buffer_to_shmem(buffer, t, n) \in [BufferNames -> Segments]
      BY <3>1, WrittenType
    <3> QED
      BY <3>1, <3>2, WrittenType
  <2> HIDE DEF new, b
  <2> QED
    BY <1>0, <1>8, <2>1, <2>2, <2>4, WorkerTypes DEF WriteBuffers, AdapterTypeOK
<1>9. CASE Answer(t)
  <2> DEFINE new == [w EXCEPT !.pc = "ready", !.sends = <<0, 0>>]
  <2>1. new \in Workers /\ new.maps = w.maps /\ Set(t, new)
    BY <1>0, <1>9 DEF Answer, Workers, Stages
  <2>2. answer' \in [Threads -> Int \X Int]
    BY <1>0, <1>9 DEF Answer, Workers, AdapterTypeOK
  <2> HIDE DEF new
  <2> QED
    BY <1>0, <1>9, <2>1, <2>2, WorkerTypes DEF Answer, AdapterTypeOK
<1>10. ASSUME NEW v \in AskedViews, AskForView(t, v) PROVE AdapterTypeOK'
  <2>1. /\ MMapShmem(w, v).worker \in Workers
        /\ IsFiniteSet(DOMAIN MMapShmem(w, v).worker.maps)
    BY ViewMapped, ViewsAssumption DEF Views
  <2> QED
    BY <1>10, <2>1, WorkerTypes DEF AskForView, OnlyWorker, AdapterTypeOK
<1>11. ASSUME NEW v \in Vertexes, bitmap_get(t, v) PROVE AdapterTypeOK'
  <2> DEFINE new == [w EXCEPT !.pc = "store", !.n = v, !.word = active \cap WordOf(v)]
  <2>1. v \in Nat /\ active \cap WordOf(v) \subseteq Vertexes
    BY MemoryAssumption DEF Vertexes, WordOf
  <2>2. new \in Workers /\ new.maps = w.maps /\ Set(t, new)
    BY <1>0, <1>11, <2>1 DEF bitmap_get, Workers, Stages
  <2> HIDE DEF new
  <2> QED
    BY <1>0, <1>11, <2>2, WorkerTypes DEF bitmap_get, OnlyWorker, AdapterTypeOK
<1> QED
  BY <1>1, <1>2, <1>3, <1>4, <1>5, <1>6, <1>7, <1>8, <1>9, <1>10, <1>11 DEF WorkerStep

-----------------------------------------------------------------------------
(***************************************************************************)
(* What a worker does goes with where the place is.                        *)
(***************************************************************************)
\* A view is asked for: the worker gets on, or aborts.
LEMMA MapViewMoves ==
  ASSUME AdapterTypeOK, NEW t \in Threads, NEW v \in ContextViews, NEW pc \in Stages, NEW n \in Nat,
         MapView(t, v, pc, n)
  PROVE  /\ \/ worker'[t].pc = "aborted" /\ worker'[t].n = worker[t].n
            \/ worker'[t].pc = pc /\ worker'[t].n = n
         /\ worker'[t].step = worker[t].step /\ worker'[t].property = worker[t].property
         /\ worker'[t].sends = worker[t].sends /\ worker'[t].word = worker[t].word
         /\ worker'[t].stray = worker[t].stray
         /\ \A u \in Threads : u # t => worker'[u] = worker[u]
<1> DEFINE w == worker[t]
           m == MMapShmem(w, v)
           mapped == [m.worker EXCEPT !.view[v] = m.view, !.pc = pc, !.n = n]
           aborted == [w EXCEPT !.pc = "aborted"]
<1>1. /\ m.worker \in Workers
      /\ m.worker = [w EXCEPT !.maps = m.worker.maps, !.info = m.worker.info]
  BY ViewMapped DEF Views
<1>2. w \in Workers
  BY DEF AdapterTypeOK
<1>3. Set(t, IF CanMap(w, v) THEN mapped ELSE aborted)
  BY DEF MapView
<1>4. worker'[t] = (IF CanMap(w, v) THEN mapped ELSE aborted)
      /\ \A u \in Threads : u # t => worker'[u] = worker[u]
  BY <1>3, OthersAlone
<1> HIDE DEF m
<1>5. /\ m.worker.step = w.step /\ m.worker.property = w.property /\ m.worker.sends = w.sends
      /\ m.worker.word = w.word /\ m.worker.stray = w.stray
  BY <1>1, <1>2 DEF Workers
<1>6. mapped = [m.worker EXCEPT !.view = [m.worker.view EXCEPT ![v] = m.view], !.pc = pc, !.n = n]
  OBVIOUS
<1>7. /\ mapped.pc = pc /\ mapped.n = n /\ mapped.step = w.step
      /\ mapped.property = w.property /\ mapped.sends = w.sends /\ mapped.word = w.word
      /\ mapped.stray = w.stray
  BY <1>1, <1>5, <1>6 DEF Workers
<1>8. /\ aborted.pc = "aborted" /\ aborted.n = w.n /\ aborted.step = w.step
      /\ aborted.property = w.property /\ aborted.sends = w.sends /\ aborted.word = w.word
      /\ aborted.stray = w.stray
  BY <1>2 DEF Workers
<1> HIDE DEF mapped, aborted
<1> QED
  BY <1>4, <1>7, <1>8

LEMMA InitInStep == AdapterInit => AllInStep
BY DEF AdapterInit, AllInStep, InStep, NewWorker, NoAnswer

LEMMA PlaceInStep ==
  ASSUME AdapterTypeOK, AllInStep,
         Export \/ Command \/ Import \/ NextSuperstep \/ EndRun \/ Stopped
  PROVE  AllInStep'
<1> SUFFICES ASSUME NEW t \in Threads PROVE InStep(t)'
  BY DEF AllInStep
<1> USE DEF AllInStep, InStep
<1>0. place \in Places /\ place.step \in Nat /\ worker[t] \in Workers
  BY DEF AdapterTypeOK, Places
<1>1. CASE Export
  <2>1. worker'[t].pc = "start" /\ answer'[t] = NoAnswer
    BY <1>1 DEF Export, NewWorker
  <2>2. place'.pc = "command"
    BY <1>0, <1>1 DEF Export, Places
  <2> QED
    BY <2>1, <2>2
<1>2. CASE Command
  BY <1>0, <1>2 DEF Command, Places
<1>3. CASE Import
  BY <1>0, <1>3 DEF Import, Places
<1>4. CASE NextSuperstep
  BY <1>0, <1>4 DEF NextSuperstep, Places
<1>5. CASE EndRun
  BY <1>0, <1>5 DEF EndRun, Places
<1>6. CASE Stopped
  BY <1>6 DEF Stopped, adapterVars
<1> QED
  BY <1>1, <1>2, <1>3, <1>4, <1>5, <1>6

LEMMA WorkerInStep ==
  ASSUME AdapterTypeOK, AllInStep, NEW t \in Threads, WorkerStep(t)
  PROVE  AllInStep'
<1> DEFINE w == worker[t]
<1>0. w \in Workers /\ place.step \in Int /\ InStep(t)
  BY DEF AdapterTypeOK, Places, AllInStep
<1>1. SUFFICES /\ place' = place
               /\ \A u \in Threads : u # t => worker'[u] = worker[u] /\ answer'[u] = answer[u]
               /\ InStep(t)'
  BY <1>1 DEF AllInStep, InStep
<1>2. CASE Start(t)
  <2>1. PICK pc \in {"context", "aborted"} :
          Set(t, [[NewWorker EXCEPT !.property = place.run] EXCEPT !.pc = pc, !.n = 1])
    BY <1>2 DEF Start, MMapShmemProperty
  <2>2. /\ worker'[t].pc = pc /\ worker'[t].n = 1 /\ worker'[t].property = place.run
        /\ worker'[t].stray = FALSE
        /\ \A u \in Threads : u # t => worker'[u] = worker[u]
    BY <2>1 DEF Set, NewWorker, AdapterTypeOK
  <2> QED
    BY <1>0, <1>2, <2>2, ViewNames DEF Start, OnlyWorker, InStep
<1>3. CASE Context(t)
  <2>1. w.n \in 1 .. 7 /\ w.n + 1 \in Nat
    BY <1>3, <1>0, ViewNames DEF Context, InStep
  <2>2. MapView(t, GraphViews[w.n], IF w.n = 7 THEN "closure" ELSE "context", w.n + 1)
    BY <1>3, ViewNames DEF Context
  <2>3. /\ \/ worker'[t].pc = "aborted"
           \/ w.n = 7 /\ worker'[t].pc = "closure"
           \/ w.n # 7 /\ worker'[t].pc = "context" /\ worker'[t].n = w.n + 1
        /\ worker'[t].property = w.property /\ worker'[t].stray = w.stray
        /\ \A u \in Threads : u # t => worker'[u] = worker[u]
    BY <2>1, <2>2, ViewInfos, MapViewMoves DEF Stages
  <2> QED
    BY <1>0, <1>3, <2>1, <2>3, ViewNames DEF Context, OnlyWorker, InStep
<1>4. CASE LoadClosure(t)
  <2>1. /\ worker'[t].pc = "ready" /\ worker'[t].step = w.step /\ worker'[t].property = w.property
        /\ \A u \in Threads : u # t => worker'[u] = worker[u]
    BY <1>0, <1>4 DEF LoadClosure, Set, Workers, AdapterTypeOK
  <2> QED
    BY <1>0, <1>4, <2>1 DEF LoadClosure, OnlyWorker, InStep
<1>5. CASE Superstep(t)
  <2>1. /\ worker'[t].pc = "messages" /\ worker'[t].step = place.step /\ worker'[t].n = 1
        /\ worker'[t].property = w.property
        /\ \A u \in Threads : u # t => worker'[u] = worker[u]
    BY <1>0, <1>5 DEF Superstep, Set, Workers, AdapterTypeOK
  <2>2. answer[t] = NoAnswer
    BY <1>0, <1>5 DEF Superstep, InStep, Workers
  <2> QED
    BY <1>0, <1>5, <2>1, <2>2 DEF Superstep, OnlyWorker, InStep
<1>6. CASE newReceiveMessageBuffer(t)
  <2>1. PICK n \in {0, 2}, v \in ContextViews, pc \in {"messages", "compute"} :
          MapView(t, v, pc, n) /\ (pc = "messages" => n = 2)
    BY <1>6, ViewInfos DEF newReceiveMessageBuffer
  <2>2. /\ \/ worker'[t].pc = "aborted"
           \/ worker'[t].pc = pc /\ worker'[t].n = n
        /\ worker'[t].property = w.property /\ worker'[t].step = w.step
        /\ \A u \in Threads : u # t => worker'[u] = worker[u]
    BY <2>1, MapViewMoves DEF Stages
  <2> QED
    BY <1>0, <1>6, <2>1, <2>2 DEF newReceiveMessageBuffer, OnlyWorker, InStep
<1>7. CASE bitmap_set(t)
  <2>1. /\ worker'[t].pc = "compute" /\ worker'[t].step = w.step /\ worker'[t].property = w.property
        /\ \A u \in Threads : u # t => worker'[u] = worker[u]
    BY <1>0, <1>7 DEF bitmap_set, Set, Workers, AdapterTypeOK
  <2> QED
    BY <1>0, <1>7, <2>1 DEF bitmap_set, InStep
<1>8. CASE Computed(t)
  <2>1. /\ worker'[t].pc = "write" /\ worker'[t].step = w.step /\ worker'[t].n = 1
        /\ worker'[t].property = w.property
        /\ \A u \in Threads : u # t => worker'[u] = worker[u]
    BY <1>0, <1>8 DEF Computed, Set, Workers, AdapterTypeOK
  <2> QED
    BY <1>0, <1>8, <2>1 DEF Computed, OnlyWorker, InStep
<1>9. CASE WriteBuffers(t)
  <2>1. /\ worker'[t].pc \in {"write", "answer"} /\ worker'[t].step = w.step
        /\ worker'[t].n \in {1, 3} /\ worker'[t].property = w.property
        /\ \A u \in Threads : u # t => worker'[u] = worker[u]
    BY <1>0, <1>9 DEF WriteBuffers, Set, Workers, AdapterTypeOK
  <2> QED
    BY <1>0, <1>9, <2>1 DEF WriteBuffers, InStep
<1>10. CASE Answer(t)
  <2>1. /\ worker'[t].pc = "ready" /\ worker'[t].step = w.step /\ worker'[t].property = w.property
        /\ \A u \in Threads : u # t => worker'[u] = worker[u] /\ answer'[u] = answer[u]
    BY <1>0, <1>10 DEF Answer, Set, Workers, AdapterTypeOK
  <2> QED
    BY <1>0, <1>10, <2>1 DEF Answer, InStep
<1>11. ASSUME NEW v \in AskedViews, AskForView(t, v)
       PROVE  /\ place' = place
              /\ \A u \in Threads : u # t => worker'[u] = worker[u] /\ answer'[u] = answer[u]
              /\ InStep(t)'
  <2> DEFINE m == MMapShmem(w, v).worker
  <2>1. m \in Workers /\ m = [w EXCEPT !.maps = m.maps, !.info = m.info]
    BY ViewMapped, ViewsAssumption DEF Views
  <2>2. worker'[t] = m /\ \A u \in Threads : u # t => worker'[u] = worker[u]
    BY <1>11, OthersAlone DEF AskForView
  <2> HIDE DEF m
  <2>3. m.pc = w.pc /\ m.step = w.step /\ m.n = w.n /\ m.property = w.property
    BY <1>0, <2>1 DEF Workers
  <2> QED
    BY <1>0, <1>11, <2>2, <2>3 DEF AskForView, OnlyWorker, InStep
<1>12. ASSUME NEW v \in Vertexes, bitmap_get(t, v)
       PROVE  /\ place' = place
              /\ \A u \in Threads : u # t => worker'[u] = worker[u] /\ answer'[u] = answer[u]
              /\ InStep(t)'
  <2>1. /\ worker'[t].pc = "store" /\ worker'[t].step = w.step /\ worker'[t].property = w.property
        /\ \A u \in Threads : u # t => worker'[u] = worker[u]
    BY <1>0, <1>12 DEF bitmap_get, Set, Workers, AdapterTypeOK
  <2> QED
    BY <1>0, <1>12, <2>1 DEF bitmap_get, OnlyWorker, InStep
<1> QED
  BY <1>2, <1>3, <1>4, <1>5, <1>6, <1>7, <1>8, <1>9, <1>10, <1>11, <1>12 DEF WorkerStep

-----------------------------------------------------------------------------
(***************************************************************************)
(* The bitmap.                                                             *)
(***************************************************************************)
LEMMA InitWords == AdapterInit => WordsKept
BY DEF AdapterInit, WordsKept, NewWorker

\* A step that leaves the bitmap alone keeps the words, unless a worker of it loads one.
LEMMA WordsUntouched ==
  ASSUME WordsKept, NEW t \in Threads, active' = active, wanted' = wanted,
         worker'[t].pc # "store", \A u \in Threads : u # t => worker'[u] = worker[u]
  PROVE  WordsKept'
BY DEF WordsKept

LEMMA PlaceWords ==
  ASSUME AdapterTypeOK, WordsKept, Export \/ Command \/ Import \/ NextSuperstep \/ EndRun \/ Stopped
  PROVE  WordsKept'
<1>1. CASE Export
  BY <1>1 DEF Export, WordsKept, NewWorker
<1>2. CASE Command \/ Import \/ NextSuperstep \/ EndRun \/ Stopped
  <2>1. active' = active /\ wanted' = wanted /\ worker' = worker
    BY <1>2 DEF Command, Import, NextSuperstep, EndRun, Stopped, adapterVars
  <2> QED
    BY <2>1 DEF WordsKept
<1> QED
  BY <1>1, <1>2

\* bitmap_set changes one flag, and no word that another worker holds.
LEMMA SetKeepsWords ==
  ASSUME AdapterTypeOK, WordsKept, NEW t \in Threads, bitmap_set(t)
  PROVE  WordsKept'
<1> DEFINE w == worker[t]
           v == w.n
           word == IF ~wanted[v] THEN w.word \cup {v} ELSE w.word \ {v}
<1>1. /\ active' = (active \ WordOf(v)) \cup word /\ wanted' = [wanted EXCEPT ![v] = ~wanted[v]]
      /\ w.pc = "store"
  BY DEF bitmap_set
<1>2. worker'[t].pc = "compute" /\ \A u \in Threads : u # t => worker'[u] = worker[u]
  BY DEF bitmap_set, Set, Workers, AdapterTypeOK
<1>3. v \in RangeOf(t) /\ v \in Vertexes /\ w.word = active \cap WordOf(v)
  BY <1>1 DEF WordsKept, RangeOf
<1>4. v \in WordOf(v) /\ word \subseteq WordOf(v)
  BY <1>3 DEF WordOf
<1>5. active' = {x \in Vertexes : wanted'[x]}
  <2>1. \A x \in Vertexes : x \in active <=> wanted[x]
    BY DEF WordsKept
  <2>2. active' \subseteq Vertexes
    BY <1>1, <1>3, <1>4 DEF WordOf, AdapterTypeOK
  <2>3. ASSUME NEW x \in Vertexes PROVE x \in active' <=> wanted'[x]
    <3>1. CASE x = v
      BY <1>1, <1>3, <1>4, <3>1 DEF AdapterTypeOK
    <3>2. CASE x # v
      <4>1. wanted'[x] = wanted[x]
        BY <1>1, <3>2 DEF AdapterTypeOK
      <4>2. x \in active' <=> x \in active
        BY <1>1, <1>3, <3>2
      <4> QED
        BY <2>1, <4>1, <4>2
    <3> QED
      BY <3>1, <3>2
  <2> QED
    BY <2>2, <2>3
<1>6. ASSUME NEW u \in Threads, worker'[u].pc = "store"
      PROVE  worker'[u].n \in RangeOf(u) /\ worker'[u].word = active' \cap WordOf(worker'[u].n)
  <2>1. u # t /\ worker'[u] = worker[u]
    BY <1>2, <1>6
  <2>2. worker[u].n \in RangeOf(u) /\ worker[u].word = active \cap WordOf(worker[u].n)
    BY <1>6, <2>1 DEF WordsKept
  <2>3. WordOf(v) \cap WordOf(worker[u].n) = {}
    BY <1>3, <2>1, <2>2, OwnWords
  <2>4. active' \cap WordOf(worker[u].n) = active \cap WordOf(worker[u].n)
    BY <1>1, <1>4, <2>3
  <2> QED
    BY <2>1, <2>2, <2>4
<1> QED
  BY <1>5, <1>6 DEF WordsKept

LEMMA WorkerWords ==
  ASSUME AdapterTypeOK, AllInStep, WordsKept, NEW t \in Threads, WorkerStep(t)
  PROVE  WordsKept'
<1> DEFINE w == worker[t]
<1>0. w \in Workers
  BY DEF AdapterTypeOK
<1>1. CASE Start(t)
  <2>1. worker'[t].pc # "store" /\ \A u \in Threads : u # t => worker'[u] = worker[u]
    BY <1>1 DEF Start, MMapShmemProperty, NewWorker, Set, AdapterTypeOK
  <2> QED
    BY <1>1, <2>1, WordsUntouched DEF Start, OnlyWorker
<1>2. CASE Context(t)
  <2>1. w.n \in 1 .. 7 /\ w.n + 1 \in Nat
    BY <1>2, ViewNames DEF Context, AllInStep, InStep
  <2>2. PICK pc \in {"closure", "context"} : MapView(t, GraphViews[w.n], pc, w.n + 1)
    BY <1>2 DEF Context
  <2>3. worker'[t].pc # "store" /\ \A u \in Threads : u # t => worker'[u] = worker[u]
    BY <2>1, <2>2, ViewInfos, MapViewMoves DEF Stages
  <2> QED
    BY <1>2, <2>3, WordsUntouched DEF Context, OnlyWorker
<1>3. CASE newReceiveMessageBuffer(t)
  <2>1. PICK n \in {0, 2}, v \in ContextViews, pc \in {"messages", "compute"} : MapView(t, v, pc, n)
    BY <1>3, ViewInfos DEF newReceiveMessageBuffer
  <2>2. worker'[t].pc # "store" /\ \A u \in Threads : u # t => worker'[u] = worker[u]
    BY <2>1, MapViewMoves DEF Stages
  <2> QED
    BY <1>3, <2>2, WordsUntouched DEF newReceiveMessageBuffer, OnlyWorker
<1>4. CASE LoadClosure(t) \/ Superstep(t) \/ Computed(t) \/ WriteBuffers(t) \/ Answer(t)
  <2>1. active' = active /\ wanted' = wanted
    BY <1>4 DEF LoadClosure, Superstep, Computed, WriteBuffers, Answer, OnlyWorker
  <2>2. worker'[t].pc # "store" /\ \A u \in Threads : u # t => worker'[u] = worker[u]
    <3>1. CASE LoadClosure(t)
      BY <1>0, <3>1 DEF LoadClosure, Set, Workers, AdapterTypeOK
    <3>2. CASE Superstep(t)
      BY <1>0, <3>2 DEF Superstep, Set, Workers, AdapterTypeOK
    <3>3. CASE Computed(t)
      BY <1>0, <3>3 DEF Computed, Set, Workers, AdapterTypeOK
    <3>4. CASE WriteBuffers(t)
      BY <1>0, <3>4 DEF WriteBuffers, Set, Workers, AdapterTypeOK
    <3>5. CASE Answer(t)
      BY <1>0, <3>5 DEF Answer, Set, Workers, AdapterTypeOK
    <3> QED
      BY <1>4, <3>1, <3>2, <3>3, <3>4, <3>5
  <2> QED
    BY <2>1, <2>2, WordsUntouched
<1>5. CASE bitmap_set(t)
  BY <1>5, SetKeepsWords
<1>6. ASSUME NEW v \in AskedViews, AskForView(t, v) PROVE WordsKept'
  <2> DEFINE m == MMapShmem(w, v).worker
  <2>1. m \in Workers /\ m = [w EXCEPT !.maps = m.maps, !.info = m.info]
    BY ViewMapped, ViewsAssumption DEF Views
  <2>2. worker'[t] = m /\ \A u \in Threads : u # t => worker'[u] = worker[u]
    BY <1>6, OthersAlone DEF AskForView
  <2>3. w.pc = "compute"
    BY <1>6 DEF AskForView
  <2> HIDE DEF m
  <2>4. worker'[t].pc # "store"
    BY <1>0, <2>1, <2>2, <2>3 DEF Workers
  <2> QED
    BY <1>6, <2>2, <2>4, WordsUntouched DEF AskForView, OnlyWorker
<1>7. ASSUME NEW v \in Vertexes, bitmap_get(t, v) PROVE WordsKept'
  <2>1. /\ worker'[t].n = v /\ worker'[t].word = active \cap WordOf(v)
        /\ \A u \in Threads : u # t => worker'[u] = worker[u]
    BY <1>0, <1>7 DEF bitmap_get, Set, Workers, AdapterTypeOK
  <2>2. active' = active /\ wanted' = wanted /\ v \in RangeOf(t)
    BY <1>7 DEF bitmap_get, OnlyWorker
  <2> QED
    BY <2>1, <2>2 DEF WordsKept
<1> QED
  BY <1>1, <1>2, <1>3, <1>4, <1>5, <1>6, <1>7 DEF WorkerStep

-----------------------------------------------------------------------------
(***************************************************************************)
(* The property segment.                                                   *)
(***************************************************************************)
LEMMA ExportDescribes ==
  ASSUME AdapterTypeOK, Export
  PROVE  Described'
<1>1. PICK V \in ValueTypes, M \in ValueTypes :
        /\ segment' = WithMessages([n \in Names |->
                       IF n \in ContextViews THEN Segment(n, -1, GraphLength(n, V))
                       ELSE IF n = "sendMsgN_flags" THEN Segment(n, -1, NumWords * WordBytes)
                       ELSE IF n = "sendMsgN_values" THEN Segment(n, -1, NumVertexes * SizeOf(M))
                       ELSE Segment(n, -1, 1)], 0, M)
        /\ property' = MessageProperty(GraphProperty(property, V), 0, M)
        /\ shared' = updateShmemProperty(property')
        /\ place' = [place EXCEPT !.pc = "command", !.value = V, !.message = M]
  BY DEF Export
<1>2. place'.run = place.run /\ place'.message = M /\ place.run \in 0 .. NumRuns
  BY <1>1 DEF AdapterTypeOK, Places
<1>3. shared'[place'.run] = property'
  BY <1>1, <1>2 DEF updateShmemProperty, AdapterTypeOK
<1> DEFINE q == GraphProperty(property, V)
<1>4. /\ q \in Property /\ q.numLocalVertices = NumVertexes
      /\ q.outEdge_offsets_size = NumVertexes + 1 /\ q.outEdge_vertices_size = NumOutEdges
      /\ q.inEdge_offsets_size = NumVertexes + 1 /\ q.inEdge_vertices_size = NumInEdges
      /\ q.vertexValue_type = V /\ q.vertexActive_mc_size = NumWords
      /\ q.vertexShouldBeActive_mc_size = NumWords
  <2>1. property \in Property /\ V \in Types
    BY MemoryAssumption DEF AdapterTypeOK
  <2>2. q \in Property
    BY <2>1, GraphPropertyType
  <2> QED
    BY <2>1, <2>2 DEF GraphProperty, Property
<1> HIDE DEF q
<1>5. property' = [q EXCEPT !.message_values_size = 0, !.message_offsets_size = NumVertexes + 1,
                            !.message_value_type = M]
  BY <1>1 DEF MessageProperty, q
<1>6. /\ property'.message_value_type = M /\ property'.message_values_size = 0
      /\ property'.message_offsets_size = NumVertexes + 1
      /\ property'.numLocalVertices = NumVertexes
      /\ property'.outEdge_offsets_size = NumVertexes + 1
      /\ property'.outEdge_vertices_size = NumOutEdges
      /\ property'.inEdge_offsets_size = NumVertexes + 1
      /\ property'.inEdge_vertices_size = NumInEdges
      /\ property'.vertexValue_type = V /\ property'.vertexActive_mc_size = NumWords
      /\ property'.vertexShouldBeActive_mc_size = NumWords
  BY <1>4, <1>5 DEF Property
<1>7. ASSUME NEW v \in ContextViews PROVE segment'[v].len = SizeFor(v, property')
  <2>1. v \in Names /\ "message.values" \in Names /\ "message.offsets" \in Names
    BY ViewNames DEF Names
  <2>2. CASE v = "message.values"
    <3>1. segment'[v] = Segment("message.values", -1, 0 * SizeOf(M))
      BY <1>1, <2>1, <2>2 DEF WithMessages, createShmem
    <3> QED
      BY <1>6, <2>2, <3>1 DEF SizeFor, Segment
  <2>3. CASE v = "message.offsets"
    <3>1. segment'[v] = Segment("message.offsets", -1, (NumVertexes + 1) * SizeOf("Long"))
      BY <1>1, <2>1, <2>3 DEF WithMessages, createShmem
    <3> QED
      BY <1>6, <2>3, <3>1 DEF SizeFor, Segment
  <2>4. CASE v \notin {"message.values", "message.offsets"}
    <3>1. segment'[v] = Segment(v, -1, GraphLength(v, V))
      BY <1>1, <2>1, <2>4 DEF WithMessages, createShmem
    <3>2. v \in {"outEdge.offsets", "outEdge.vertices", "inEdge.offsets",
                 "inEdge.vertices", "vertexValue", "vertexA", "vertexSBA"}
      BY <2>4, ViewNames
    <3>3. GraphLength(v, V) = SizeFor(v, property')
      BY <1>6, <3>2 DEF GraphLength, SizeFor
    <3> QED
      BY <3>1, <3>3 DEF Segment
  <2> QED
    BY <2>2, <2>3, <2>4
<1> QED
  BY <1>2, <1>3, <1>6, <1>7 DEF Described

LEMMA NextSuperstepDescribes ==
  ASSUME AdapterTypeOK, Described, NextSuperstep
  PROVE  /\ Described'
         /\ \A v \in ContextViews \ {"message.values", "message.offsets"} : segment'[v] = segment[v]
<1>1. PICK n \in Counts : /\ segment' = WithMessages(segment, n, place.message)
                          /\ property' = MessageProperty(property, n, place.message)
  BY DEF NextSuperstep
<1>2. /\ shared' = updateShmemProperty(property') /\ place.pc = "decide"
      /\ place'.run = place.run /\ place'.message = place.message /\ place.run \in 0 .. NumRuns
  BY DEF NextSuperstep, AdapterTypeOK, Places
<1>3. shared'[place'.run] = property'
  BY <1>2 DEF updateShmemProperty, AdapterTypeOK
<1>4. property \in Property
  BY DEF AdapterTypeOK
<1> DEFINE P == property
<1>5. /\ property'.message_value_type = place.message /\ property'.message_values_size = n
      /\ property'.message_offsets_size = NumVertexes + 1
      /\ property'.numLocalVertices = P.numLocalVertices
      /\ property'.outEdge_offsets_size = P.outEdge_offsets_size
      /\ property'.outEdge_vertices_size = P.outEdge_vertices_size
      /\ property'.inEdge_offsets_size = P.inEdge_offsets_size
      /\ property'.inEdge_vertices_size = P.inEdge_vertices_size
      /\ property'.vertexValue_type = P.vertexValue_type
      /\ property'.vertexActive_mc_size = P.vertexActive_mc_size
      /\ property'.vertexShouldBeActive_mc_size = P.vertexShouldBeActive_mc_size
  BY <1>1, <1>4 DEF MessageProperty, Property
<1>6. segment \in [Names -> Segments]
  BY DEF AdapterTypeOK
<1>7. ASSUME NEW v \in ContextViews
      PROVE  /\ segment'[v].len = SizeFor(v, property')
             /\ v \notin {"message.values", "message.offsets"} => segment'[v] = segment[v]
  <2>1. v \in Names /\ "message.values" \in Names /\ "message.offsets" \in Names
    BY ViewNames DEF Names
  <2>2. CASE v = "message.values"
    <3>1. segment'[v] = Segment("message.values", -1, n * SizeOf(place.message))
      BY <1>1, <1>6, <2>1, <2>2 DEF WithMessages, createShmem
    <3> QED
      BY <1>5, <2>2, <3>1 DEF SizeFor, Segment
  <2>3. CASE v = "message.offsets"
    <3>1. segment'[v] = Segment("message.offsets", -1, (NumVertexes + 1) * SizeOf("Long"))
      BY <1>1, <1>6, <2>1, <2>3 DEF WithMessages, createShmem
    <3> QED
      BY <1>5, <2>3, <3>1 DEF SizeFor, Segment
  <2>4. CASE v \notin {"message.values", "message.offsets"}
    <3>1. segment'[v] = segment[v]
      BY <1>1, <1>6, <2>1, <2>4 DEF WithMessages, createShmem
    <3>2. segment[v].len = SizeFor(v, property)
      BY <1>2 DEF Described
    <3>3. v \in {"outEdge.offsets", "outEdge.vertices", "inEdge.offsets",
                 "inEdge.vertices", "vertexValue", "vertexA", "vertexSBA"}
      BY <2>4, ViewNames
    <3>4. SizeFor(v, property') = SizeFor(v, property)
      BY <1>5, <3>3 DEF SizeFor
    <3> QED
      BY <2>4, <3>1, <3>2, <3>4
  <2> QED
    BY <2>2, <2>3, <2>4
<1> QED
  BY <1>2, <1>3, <1>5, <1>7 DEF Described

LEMMA KeptDescribed ==
  ASSUME AdapterTypeOK, Described, AdapterNext
  PROVE  Described'
<1>1. CASE Export
  BY <1>1, ExportDescribes
<1>2. CASE NextSuperstep
  BY <1>2, NextSuperstepDescribes
<1>3. CASE Command \/ Import \/ EndRun \/ Stopped
  <2>1. /\ shared' = shared /\ property' = property /\ segment' = segment
    BY <1>3 DEF Command, Import, EndRun, Stopped, adapterVars
  <2>2. place'.pc # "run" => /\ place.pc # "run" /\ place'.run = place.run
                             /\ place'.message = place.message
    BY <1>3 DEF Command, Import, EndRun, Stopped, adapterVars, AdapterTypeOK, Places
  <2> QED
    BY <2>1, <2>2 DEF Described
<1>4. ASSUME NEW t \in Threads, WorkerStep(t) PROVE Described'
  <2>1. shared' = shared /\ property' = property /\ segment' = segment /\ place' = place
    BY <1>4 DEF WorkerStep, Start, Context, LoadClosure, Superstep, newReceiveMessageBuffer,
                bitmap_set, Computed, WriteBuffers, Answer, AskForView, bitmap_get, OnlyWorker
  <2> QED
    BY <2>1 DEF Described
<1> QED
  BY <1>1, <1>2, <1>3, <1>4 DEF AdapterNext

-----------------------------------------------------------------------------
(***************************************************************************)
(* The views.                                                              *)
(***************************************************************************)
LEMMA AskedInContext ==
  ASSUME NEW w \in Workers, w.pc = "context" => w.n \in 1 .. 7, w.pc = "messages" => w.n \in 1 .. 2
  PROVE  Asked(w) \subseteq ContextViews
<1>1. /\ \A n \in 1 .. 7 : GraphViews[n] \in ContextViews
      /\ \A n \in 1 .. 2 : MessageViews[n] \in ContextViews
  BY ViewInfos
<1>2. CASE w.pc \in {"closure", "ready"}
  BY <1>1, <1>2 DEF Asked
<1>3. CASE w.pc = "context"
  BY <1>1, <1>3 DEF Asked
<1>4. CASE w.pc = "messages"
  BY <1>1, <1>4 DEF Asked
<1>5. CASE w.pc \notin {"closure", "ready", "context", "messages"}
  BY <1>5 DEF Asked
<1> QED
  BY <1>2, <1>3, <1>4, <1>5

\* What a view function does to the mappings of a worker: the mapping of the MapInfo it
\* passes is replaced, at an address no other MapInfo holds, and the others stay.
LEMMA MapsStayDistinct ==
  ASSUME AdapterTypeOK, NEW t \in Threads, NEW v \in Views, MapsDistinct(worker[t])
  PROVE  LET w == worker[t]
             m == MMapShmem(w, v)
             x == m.worker
             i == InfoOf(v)
             size == SizeFor(v, PropertyOf(w))
             seg == segment[NameOf(v)]
         IN  /\ \A u \in Views : x.info[u].addr > 0 => x.info[u].addr \in DOMAIN x.maps
             /\ \A u, z \in Views : u # z /\ x.info[u].addr > 0 => x.info[u].addr # x.info[z].addr
             /\ \A u \in Views : u # i =>
                  /\ x.info[u] = w.info[u]
                  /\ w.info[u].addr > 0 => x.maps[w.info[u].addr] = w.maps[w.info[u].addr]
             /\ m.view = [addr |-> x.info[i].addr, size |-> size]
             /\ (size # 0 \/ seg.len # 0) => x.info[i].addr > 0 /\ x.maps[x.info[i].addr] = seg
<1> DEFINE w == worker[t]
           i == InfoOf(v)
           size == SizeFor(v, PropertyOf(w))
           seg == segment[NameOf(v)]
           um == munmap(w.maps, w.info[i])
           mm == mmap(um, seg, size)
           m == MMapShmem(w, v)
           x == m.worker
<1>0. /\ w \in Workers /\ IsFiniteSet(DOMAIN w.maps) /\ w.maps \in Mapping
      /\ i \in Views /\ seg \in Segments /\ w.info \in [Views -> Infos]
  BY ViewInfos DEF AdapterTypeOK, Workers, Mapping
<1>1. size \in Nat
  BY <1>0, SizeForType DEF AdapterTypeOK, PropertyOf, Workers
<1>2. /\ um \in Mapping /\ IsFiniteSet(DOMAIN um)
      /\ DOMAIN um = DOMAIN w.maps \ {w.info[i].addr}
      /\ \A a \in DOMAIN um : um[a] = w.maps[a]
  BY <1>0, Unmapped
<1> DEFINE len == IF size = 0 THEN seg.len ELSE size
<1>3. /\ mm.maps \in Mapping /\ IsFiniteSet(DOMAIN mm.maps) /\ mm.info \in Infos
      /\ len = 0 => mm.maps = um /\ mm.info.addr = MAP_FAILED
      /\ len # 0 => /\ mm.info.addr \in Nat \ {0} /\ mm.info.addr \notin DOMAIN um
                    /\ DOMAIN mm.maps = DOMAIN um \cup {mm.info.addr}
                    /\ mm.maps[mm.info.addr] = seg
      /\ \A a \in DOMAIN um : a \in DOMAIN mm.maps /\ mm.maps[a] = um[a]
  BY <1>0, <1>1, <1>2, MappedAtFree
<1>4. m = [worker |-> [w EXCEPT !.maps = mm.maps, !.info[i] = mm.info],
           view |-> [addr |-> mm.info.addr, size |-> size]]
  BY DEF MMapShmem
<1> HIDE DEF mm, um, m, i, size, seg
<1>5. /\ x = [w EXCEPT !.maps = mm.maps, !.info = [w.info EXCEPT ![i] = mm.info]]
      /\ m.view = [addr |-> mm.info.addr, size |-> size]
  BY <1>4
<1> HIDE DEF x
<1>6. /\ x.maps = mm.maps /\ x.info[i] = mm.info
      /\ \A u \in Views : u # i => x.info[u] = w.info[u]
  BY <1>0, <1>5 DEF Workers
<1>7. /\ \A u \in Views : w.info[u].addr > 0 => w.info[u].addr \in DOMAIN w.maps
      /\ \A u \in Views : u # i /\ w.info[u].addr > 0 => w.info[u].addr # w.info[i].addr
      /\ \A u, z \in Views : u # z /\ w.info[u].addr > 0 => w.info[u].addr # w.info[z].addr
  BY <1>0 DEF MapsDistinct
<1>8. ASSUME NEW u \in Views, u # i, w.info[u].addr > 0
      PROVE  /\ w.info[u].addr \in DOMAIN um /\ w.info[u].addr \in DOMAIN mm.maps
             /\ mm.maps[w.info[u].addr] = w.maps[w.info[u].addr]
             /\ w.info[u].addr # mm.info.addr
  <2>1. w.info[u].addr \in DOMAIN um
    BY <1>2, <1>7, <1>8
  <2>2. w.info[u].addr # mm.info.addr
    BY <1>3, <1>8, <2>1 DEF MAP_FAILED
  <2> QED
    BY <1>2, <1>3, <2>1, <2>2
<1>9. mm.info.addr > 0 => len # 0 /\ mm.info.addr \in DOMAIN mm.maps
  BY <1>3 DEF MAP_FAILED
<1>10. ASSUME NEW u \in Views, x.info[u].addr > 0 PROVE x.info[u].addr \in DOMAIN x.maps
  BY <1>6, <1>8, <1>9, <1>10
<1>11. ASSUME NEW u \in Views, NEW z \in Views, u # z, x.info[u].addr > 0
       PROVE  x.info[u].addr # x.info[z].addr
  <2>1. CASE u = i
    <3>1. z # i /\ x.info[z] = w.info[z] /\ x.info[u] = mm.info
      BY <1>6, <1>11, <2>1
    <3>2. w.info[z].addr > 0 => w.info[z].addr # mm.info.addr
      BY <1>8, <3>1
    <3> QED
      BY <1>11, <3>1, <3>2
  <2>2. CASE z = i
    BY <1>6, <1>8, <1>11, <2>2
  <2>3. CASE u # i /\ z # i
    BY <1>6, <1>7, <1>11, <2>3
  <2> QED
    BY <2>1, <2>2, <2>3
<1>12. (size # 0 \/ seg.len # 0) => x.info[i].addr > 0 /\ x.maps[x.info[i].addr] = seg
  BY <1>3, <1>6
<1>13. ASSUME NEW u \in Views, u # i
       PROVE  /\ x.info[u] = w.info[u]
              /\ w.info[u].addr > 0 => x.maps[w.info[u].addr] = w.maps[w.info[u].addr]
  BY <1>6, <1>8, <1>13
<1>14. m.view = [addr |-> x.info[i].addr, size |-> size]
  BY <1>5, <1>6
<1> QED
  BY <1>10, <1>11, <1>12, <1>13, <1>14 DEF m, x, i, size, seg

\* A worker of the context that asks for a view sees its segment, and still sees the others.
LEMMA ContextViewMapped ==
  ASSUME AdapterTypeOK, Described, place.pc # "run", NEW t \in Threads, NEW v \in ContextViews,
         NEW pc \in Stages, NEW n \in Nat, MapView(t, v, pc, n),
         MapsDistinct(worker[t]), worker[t].property = place.run, worker'[t].pc # "aborted"
  PROVE  /\ MapsDistinct(worker'[t]) /\ ShowsSegment(worker'[t], v)
         /\ \A u \in ContextViews : ShowsSegment(worker[t], u) => ShowsSegment(worker'[t], u)
<1> DEFINE w == worker[t]
           m == MMapShmem(w, v)
           x == m.worker
           mapped == [x EXCEPT !.view[v] = m.view, !.pc = pc, !.n = n]
           aborted == [w EXCEPT !.pc = "aborted"]
           size == SizeFor(v, PropertyOf(w))
<1>1. /\ x \in Workers /\ w \in Workers /\ m.view \in Infos
      /\ x = [w EXCEPT !.maps = x.maps, !.info = x.info]
  BY ViewMapped DEF Views, AdapterTypeOK
<1>2. worker'[t] = (IF CanMap(w, v) THEN mapped ELSE aborted)
  BY OthersAlone DEF MapView
<1>3. aborted.pc = "aborted"
  BY <1>1 DEF Workers
<1>4. worker'[t] = mapped
  BY <1>2, <1>3
<1>5. size = segment[v].len
  BY DEF Described, PropertyOf
<1>6. InfoOf(v) = v /\ NameOf(v) = v /\ v \in Views
  BY ViewInfos DEF Views
<1>7. /\ \A u \in Views : x.info[u].addr > 0 => x.info[u].addr \in DOMAIN x.maps
      /\ \A u, z \in Views : u # z /\ x.info[u].addr > 0 => x.info[u].addr # x.info[z].addr
      /\ \A u \in Views : u # v =>
           /\ x.info[u] = w.info[u]
           /\ w.info[u].addr > 0 => x.maps[w.info[u].addr] = w.maps[w.info[u].addr]
      /\ m.view = [addr |-> x.info[v].addr, size |-> size]
      /\ (size # 0 \/ segment[v].len # 0)
           => x.info[v].addr > 0 /\ x.maps[x.info[v].addr] = segment[v]
  BY <1>6, MapsStayDistinct
<1> HIDE DEF m, x, size
<1>8. mapped = [x EXCEPT !.view = [x.view EXCEPT ![v] = m.view], !.pc = pc, !.n = n]
  OBVIOUS
<1>9. x.view = w.view /\ x.view \in [ContextViews -> Infos]
  BY <1>1 DEF Workers
<1>10. /\ mapped.maps = x.maps /\ mapped.info = x.info /\ mapped.view[v] = m.view
       /\ \A u \in ContextViews : u # v => mapped.view[u] = w.view[u]
  BY <1>1, <1>8, <1>9 DEF Workers
<1> HIDE DEF mapped
<1>11. \A u \in ContextViews : w.view[u].addr = w.info[u].addr
  BY DEF MapsDistinct
<1>12. \A u \in ContextViews : mapped.view[u].addr = mapped.info[u].addr
  BY <1>7, <1>10, <1>11 DEF Views
<1>13. MapsDistinct(mapped)
  BY <1>7, <1>10, <1>12 DEF MapsDistinct
<1>14. ShowsSegment(mapped, v)
  <2>1. mapped.view[v].size = segment[v].len
    BY <1>5, <1>7, <1>10
  <2>2. segment[v].len > 0 => segment[v].len # 0
    OBVIOUS
  <2> QED
    BY <1>7, <1>10, <2>1, <2>2 DEF ShowsSegment
<1>15. ASSUME NEW u \in ContextViews, ShowsSegment(w, u)
       PROVE  ShowsSegment(mapped, u)
  <2>1. CASE u = v
    BY <1>14, <2>1
  <2>2. CASE u # v
    BY <1>7, <1>10, <1>15, <2>2 DEF ShowsSegment, Views
  <2> QED
    BY <2>1, <2>2
<1> QED
  BY <1>4, <1>13, <1>14, <1>15

\* Shown for a worker t that has not been interrupted by a stray unmapping.
Showing(t) ==
  ~worker[t].stray =>
    MapsDistinct(worker[t]) /\ \A v \in Asked(worker[t]) : ShowsSegment(worker[t], v)

LEMMA InitMapped == AdapterInit => Mapped
BY DEF AdapterInit, Mapped

LEMMA PlaceMapped ==
  ASSUME AdapterTypeOK, AllInStep, Described, Mapped,
         Export \/ Command \/ Import \/ NextSuperstep \/ EndRun \/ Stopped
  PROVE  Mapped'
<1>1. CASE Export
  <2>1. ASSUME NEW t \in Threads
        PROVE  MapsDistinct(worker'[t]) /\ Asked(worker'[t]) = {}
    <3>1. worker'[t] = NewWorker
      BY <1>1 DEF Export
    <3>2. \A v \in Views : NewWorker.info[v].addr = 0
      BY DEF NewWorker, NoInfo, NULL, Views
    <3>3. \A v \in ContextViews : NewWorker.view[v].addr = NewWorker.info[v].addr
      BY DEF NewWorker, NoInfo, NULL
    <3>4. Asked(NewWorker) = {}
      BY DEF Asked, NewWorker
    <3> HIDE DEF NewWorker
    <3> QED
      BY <3>1, <3>2, <3>3, <3>4 DEF MapsDistinct
  <2> QED
    BY <2>1 DEF Mapped, Asked
<1>2. CASE NextSuperstep
  <2>1. \A v \in ContextViews \ {"message.values", "message.offsets"} : segment'[v] = segment[v]
    BY <1>2, NextSuperstepDescribes
  <2>2. worker' = worker /\ place.pc = "decide"
    BY <1>2 DEF NextSuperstep
  <2>3. ASSUME NEW t \in Threads, NEW v \in Asked(worker[t])
        PROVE  v \in ContextViews \ {"message.values", "message.offsets"}
    <3>1. worker[t].pc = "ready"
      BY <2>2 DEF AllInStep, InStep
    <3>2. v \in {GraphViews[n] : n \in 1 .. 7}
      BY <2>3, <3>1 DEF Asked
    <3> QED
      BY <3>2, ViewNames
  <2> QED
    BY <2>1, <2>2, <2>3 DEF Mapped, ShowsSegment, MapsDistinct, Asked
<1>3. CASE Command \/ Import \/ EndRun \/ Stopped
  <2>1. worker' = worker /\ segment' = segment
    BY <1>3 DEF Command, Import, EndRun, Stopped, adapterVars
  <2>2. place'.pc # "run" => place.pc # "run"
    BY <1>3 DEF Command, Import, EndRun, Stopped, adapterVars
  <2> QED
    BY <2>1, <2>2 DEF Mapped, ShowsSegment, MapsDistinct, Asked
<1> QED
  BY <1>1, <1>2, <1>3

\* A step of worker t that leaves its mappings and views, and does not count more views.
LEMMA ViewsUntouched ==
  ASSUME NEW t \in Threads, Showing(t), segment' = segment,
         worker'[t].maps = worker[t].maps, worker'[t].info = worker[t].info,
         worker'[t].view = worker[t].view, worker'[t].stray = worker[t].stray,
         Asked(worker'[t]) \subseteq Asked(worker[t])
  PROVE  Showing(t)'
BY DEF Showing, MapsDistinct, ShowsSegment, Asked

LEMMA MapViewAborts ==
  ASSUME AdapterTypeOK, NEW t \in Threads, NEW v \in ContextViews,
         NEW pc \in Stages \ {"aborted"}, NEW n \in Nat,
         MapView(t, v, pc, n), worker'[t].pc = "aborted"
  PROVE  /\ worker'[t].maps = worker[t].maps /\ worker'[t].info = worker[t].info
         /\ worker'[t].view = worker[t].view
<1> DEFINE w == worker[t]
           m == MMapShmem(w, v)
           mapped == [m.worker EXCEPT !.view[v] = m.view, !.pc = pc, !.n = n]
           aborted == [w EXCEPT !.pc = "aborted"]
<1>1. m.worker \in Workers /\ w \in Workers
  BY ViewMapped DEF Views, AdapterTypeOK
<1>2. worker'[t] = (IF CanMap(w, v) THEN mapped ELSE aborted)
  BY OthersAlone DEF MapView
<1> HIDE DEF m
<1>3. mapped = [m.worker EXCEPT !.view = [m.worker.view EXCEPT ![v] = m.view], !.pc = pc, !.n = n]
  OBVIOUS
<1>4. mapped.pc = pc
  BY <1>1, <1>3 DEF Workers
<1>5. worker'[t] = aborted
  BY <1>2, <1>4
<1> QED
  BY <1>1, <1>5 DEF Workers

\* A view the context asks for is shown from then on, with those it asked for before.
LEMMA ContextViewShows ==
  ASSUME AdapterTypeOK, AllInStep, Described, NEW t \in Threads, Showing(t), place.pc # "run",
         NEW v \in ContextViews, NEW pc \in Stages \ {"aborted"}, NEW n \in Nat,
         MapView(t, v, pc, n), OnlyWorker, worker[t].pc # "start",
         Asked(worker[t]) \subseteq ContextViews,
         worker'[t].pc = pc /\ worker'[t].n = n => Asked(worker'[t]) \subseteq Asked(worker[t]) \cup {v}
  PROVE  Showing(t)'
<1> DEFINE w == worker[t]
           x == worker'[t]
<1>0. segment' = segment
  BY DEF OnlyWorker
<1>1. /\ \/ x.pc = "aborted"
         \/ x.pc = pc /\ x.n = n
      /\ x.stray = w.stray
  BY MapViewMoves
<1>2. CASE x.pc = "aborted"
  <2>1. x.maps = w.maps /\ x.info = w.info /\ x.view = w.view
    BY <1>2, MapViewAborts
  <2>2. Asked(x) = {}
    BY <1>2 DEF Asked
  <2> QED
    BY <1>0, <1>1, <2>1, <2>2, ViewsUntouched
<1>3. CASE x.pc # "aborted"
  <2>1. w.property = place.run
    BY DEF AllInStep, InStep
  <2>2. SUFFICES ASSUME ~w.stray
                 PROVE  MapsDistinct(x) /\ \A u \in Asked(x) : ShowsSegment(x, u)
    BY <1>0, <1>1 DEF Showing, MapsDistinct, ShowsSegment, Asked
  <2>3. MapsDistinct(w) /\ \A u \in Asked(w) : ShowsSegment(w, u)
    BY <2>2 DEF Showing
  <2>4. /\ MapsDistinct(x) /\ ShowsSegment(x, v)
        /\ \A u \in ContextViews : ShowsSegment(w, u) => ShowsSegment(x, u)
    BY <1>3, <2>1, <2>3, ContextViewMapped
  <2> QED
    BY <1>1, <1>3, <2>3, <2>4
<1> QED
  BY <1>2, <1>3

LEMMA ContextShows ==
  ASSUME AdapterTypeOK, AllInStep, Described, NEW t \in Threads, Showing(t), place.pc # "run",
         Context(t) \/ newReceiveMessageBuffer(t)
  PROVE  Showing(t)'
<1> DEFINE w == worker[t]
           x == worker'[t]
<1>0. w \in Workers /\ OnlyWorker
  BY DEF AdapterTypeOK, Context, newReceiveMessageBuffer
<1>1. w.pc = "context" => w.n \in 1 .. 7
  BY ViewNames DEF AllInStep, InStep
<1>2. w.pc = "messages" => w.n \in 1 .. 2
  BY DEF AllInStep, InStep
<1>3. Asked(w) \subseteq ContextViews
  BY <1>0, <1>1, <1>2, AskedInContext
<1>4. CASE Context(t)
  <2>1. w.pc = "context" /\ w.n \in 1 .. 7 /\ w.n + 1 \in Nat
    BY <1>1, <1>4 DEF Context
  <2>2. PICK pc \in {"closure", "context"} :
          /\ MapView(t, GraphViews[w.n], pc, w.n + 1)
          /\ pc = "closure" => w.n = 7
    BY <1>4, ViewNames DEF Context
  <2>3. ASSUME x.pc = pc, x.n = w.n + 1
        PROVE  Asked(x) \subseteq Asked(w) \cup {GraphViews[w.n]}
    <3>1. Asked(w) = {GraphViews[n] : n \in 1 .. w.n - 1}
      BY <2>1 DEF Asked
    <3>2. CASE pc = "context"
      <4>1. Asked(x) = {GraphViews[n] : n \in 1 .. w.n}
        BY <2>1, <2>3, <3>2 DEF Asked
      <4> QED
        BY <2>1, <3>1, <4>1
    <3>3. CASE pc = "closure"
      <4>1. Asked(x) = {GraphViews[n] : n \in 1 .. 7}
        BY <2>3, <3>3 DEF Asked
      <4> QED
        BY <2>1, <2>2, <3>1, <3>3, <4>1
    <3> QED
      BY <3>2, <3>3
  <2> QED
    BY <1>0, <1>3, <2>1, <2>2, <2>3, ViewInfos, ContextViewShows DEF Stages
<1>5. CASE newReceiveMessageBuffer(t)
  <2>1. w.pc = "messages" /\ w.n \in 1 .. 2
    BY <1>2, <1>5 DEF newReceiveMessageBuffer
  <2>2. Asked(w) = {GraphViews[n] : n \in 1 .. 7} \cup {MessageViews[n] : n \in 1 .. w.n - 1}
    BY <2>1 DEF Asked
  <2>3. CASE w.n = 1
    <3>1. MapView(t, MessageViews[1], "messages", 2)
      BY <1>5, <2>3 DEF newReceiveMessageBuffer
    <3>2. ASSUME x.pc = "messages", x.n = 2
          PROVE  Asked(x) \subseteq Asked(w) \cup {MessageViews[1]}
      <4>1. Asked(x) = {GraphViews[n] : n \in 1 .. 7} \cup {MessageViews[n] : n \in 1 .. 1}
        BY <3>2 DEF Asked
      <4> QED
        BY <2>2, <4>1
    <3> QED
      BY <1>0, <1>3, <2>1, <3>1, <3>2, ViewInfos, ContextViewShows DEF Stages
  <2>4. CASE w.n = 2
    <3>1. MapView(t, MessageViews[2], "compute", 0)
      BY <1>5, <2>4 DEF newReceiveMessageBuffer
    <3>2. ASSUME x.pc = "compute"
          PROVE  Asked(x) \subseteq Asked(w) \cup {MessageViews[2]}
      <4>1. Asked(x) = ContextViews
        BY <3>2 DEF Asked
      <4>2. /\ \A n \in 1 .. 7 : GraphViews[n] \in Asked(w)
            /\ MessageViews[1] \in Asked(w)
        BY <2>2, <2>4
      <4> QED
        BY <4>1, <4>2, ViewNames
    <3> QED
      BY <1>0, <1>3, <2>1, <3>1, <3>2, ViewInfos, ContextViewShows DEF Stages
  <2> QED
    BY <2>1, <2>3, <2>4
<1> QED
  BY <1>4, <1>5

LEMMA StartShows ==
  ASSUME AdapterTypeOK, NEW t \in Threads, Start(t)
  PROVE  Showing(t)'
<1> DEFINE x == worker'[t]
<1>1. PICK pc \in {"context", "aborted"} :
        Set(t, [[NewWorker EXCEPT !.property = place.run] EXCEPT !.pc = pc, !.n = 1])
  BY DEF Start, MMapShmemProperty
<1>2. x = [[NewWorker EXCEPT !.property = place.run] EXCEPT !.pc = pc, !.n = 1]
  BY <1>1, OthersAlone
<1>3. x.pc = pc /\ x.n = 1 /\ x.info = NewWorker.info /\ x.view = NewWorker.view
  BY <1>2 DEF NewWorker
<1>4. Asked(x) = {}
  BY <1>3 DEF Asked
<1>5. /\ \A v \in Views : x.info[v].addr = 0
      /\ \A v \in ContextViews : x.view[v].addr = x.info[v].addr
  BY <1>3 DEF NewWorker, NoInfo, NULL, Views
<1>6. MapsDistinct(x)
  BY <1>5 DEF MapsDistinct
<1> QED
  BY <1>4, <1>6 DEF Showing, MapsDistinct, Asked

\* The mapping of the closure comes beside the others.
LEMMA ClosureShows ==
  ASSUME AdapterTypeOK, AllInStep, NEW t \in Threads, Showing(t), LoadClosure(t)
  PROVE  Showing(t)'
<1> DEFINE w == worker[t]
           x == worker'[t]
<1>0. /\ w \in Workers /\ w.maps \in Mapping /\ IsFiniteSet(DOMAIN w.maps)
      /\ segment["closure"] \in Segments /\ segment' = segment /\ w.pc = "closure"
  BY DEF AdapterTypeOK, Workers, Mapping, Names, LoadClosure, OnlyWorker
<1>1. PICK left : Set(t, [w EXCEPT !.maps = mmap(munmap(w.maps, left), segment["closure"], 0).maps,
                                   !.stray = left # NoInfo, !.pc = "ready"])
  BY DEF LoadClosure
<1> DEFINE um == munmap(w.maps, left)
           mm == mmap(um, segment["closure"], 0)
<1>2. x = [w EXCEPT !.maps = mm.maps, !.stray = left # NoInfo, !.pc = "ready"]
  BY <1>1, OthersAlone
<1> HIDE DEF mm
<1>3. /\ x.maps = mm.maps /\ x.stray = (left # NoInfo) /\ x.pc = "ready"
      /\ x.info = w.info /\ x.view = w.view
  BY <1>0, <1>2 DEF Workers
<1>4. Asked(x) = Asked(w)
  BY <1>0, <1>3 DEF Asked
<1>5. CASE x.stray
  BY <1>5 DEF Showing
<1>6. CASE ~x.stray
  <2>1. left = NoInfo
    BY <1>3, <1>6
  <2>2. /\ um \in Mapping /\ IsFiniteSet(DOMAIN um) /\ DOMAIN um = DOMAIN w.maps \ {0}
        /\ \A a \in DOMAIN um : um[a] = w.maps[a]
    <3>1. left.addr = 0
      BY <2>1 DEF NoInfo, NULL
    <3> HIDE DEF um
    <3>2. /\ um \in Mapping /\ IsFiniteSet(DOMAIN um) /\ DOMAIN um = DOMAIN w.maps \ {left.addr}
          /\ \A a \in DOMAIN um : um[a] = w.maps[a]
      BY <1>0, Unmapped DEF um
    <3> QED
      BY <3>1, <3>2
  <2>3. \A a \in DOMAIN um : a \in DOMAIN mm.maps /\ mm.maps[a] = um[a]
    BY <1>0, <2>2, MappedAtFree DEF mm
  <2> HIDE DEF um
  <2>4. 0 \notin DOMAIN w.maps
    BY <1>0, MappingDomain
  <2>5. \A a \in DOMAIN w.maps : a \in DOMAIN x.maps /\ x.maps[a] = w.maps[a]
    BY <1>3, <2>2, <2>3, <2>4
  <2>6. ~w.stray
    BY <1>0 DEF AllInStep, InStep
  <2>7. MapsDistinct(w) /\ \A v \in Asked(w) : ShowsSegment(w, v)
    BY <2>6 DEF Showing
  <2>8. MapsDistinct(x)
    BY <1>3, <2>5, <2>7 DEF MapsDistinct
  <2>9. Asked(w) \subseteq Views
    BY <1>0, ViewInfos DEF Asked, Views
  <2>10. \A v \in Asked(x) : ShowsSegment(x, v)
    BY <1>3, <1>4, <2>5, <2>7, <2>9 DEF ShowsSegment, MapsDistinct
  <2> QED
    BY <1>0, <2>8, <2>10 DEF Showing, MapsDistinct, ShowsSegment, Asked
<1> QED
  BY <1>5, <1>6

\* A view that the context does not hold has a MapInfo of its own.
LEMMA AskedForShows ==
  ASSUME AdapterTypeOK, AllInStep, NEW t \in Threads, Showing(t), NEW v \in AskedViews, AskForView(t, v)
  PROVE  Showing(t)'
<1> DEFINE w == worker[t]
           x == worker'[t]
           i == "sendMsgN_values"
<1>0. w \in Workers /\ v \in Views /\ v \in OtherViews /\ InfoOf(v) = i /\ i \in Views \ ContextViews
      /\ segment' = segment
  BY ViewsAssumption, ViewInfos DEF AdapterTypeOK, Views, AskForView, OnlyWorker
<1>1. x = MMapShmem(w, v).worker
  BY OthersAlone DEF AskForView
<1>2. x \in Workers /\ x = [w EXCEPT !.maps = x.maps, !.info = x.info]
  BY <1>0, <1>1, ViewMapped
<1>3. x.view = w.view /\ x.stray = w.stray /\ x.pc = w.pc /\ x.n = w.n
  BY <1>0, <1>2 DEF Workers
<1>4. Asked(x) = Asked(w) /\ Asked(w) \subseteq ContextViews
  <2>1. Asked(x) = Asked(w)
    BY <1>3 DEF Asked
  <2>2. w.pc = "compute"
    BY DEF AskForView
  <2> QED
    BY <2>1, <2>2 DEF Asked
<1>5. SUFFICES ASSUME ~w.stray
               PROVE  MapsDistinct(x) /\ \A u \in Asked(x) : ShowsSegment(x, u)
  BY <1>0, <1>3 DEF Showing, MapsDistinct, ShowsSegment, Asked
<1>6. MapsDistinct(w) /\ \A u \in Asked(w) : ShowsSegment(w, u)
  BY <1>5 DEF Showing
<1> DEFINE y == MMapShmem(w, v).worker
<1>7. /\ \A u \in Views : y.info[u].addr > 0 => y.info[u].addr \in DOMAIN y.maps
      /\ \A u, z \in Views : u # z /\ y.info[u].addr > 0 => y.info[u].addr # y.info[z].addr
      /\ \A u \in Views : u # InfoOf(v) =>
           /\ y.info[u] = w.info[u]
           /\ w.info[u].addr > 0 => y.maps[w.info[u].addr] = w.maps[w.info[u].addr]
  BY <1>0, <1>6, MapsStayDistinct
<1> HIDE DEF y
<1>8. \A u \in ContextViews : u \in Views /\ u # i
  BY <1>0 DEF Views
<1>9. x = y
  BY <1>1 DEF y
<1> HIDE DEF x
<1>10. MapsDistinct(x)
  BY <1>0, <1>3, <1>6, <1>7, <1>8, <1>9 DEF MapsDistinct
<1>11. \A u \in Asked(x) : ShowsSegment(x, u)
  BY <1>0, <1>3, <1>4, <1>6, <1>7, <1>8, <1>9 DEF ShowsSegment
<1> QED
  BY <1>10, <1>11

LEMMA WorkerMapped ==
  ASSUME AdapterTypeOK, AllInStep, Described, Mapped, NEW t \in Threads, WorkerStep(t)
  PROVE  Mapped'
<1> DEFINE w == worker[t]
           x == worker'[t]
<1>0. w \in Workers
  BY DEF AdapterTypeOK
<1>1. /\ segment' = segment /\ place' = place
      /\ \A u \in Threads : u # t => worker'[u] = worker[u]
  BY DEF WorkerStep, Start, Context, LoadClosure, Superstep, newReceiveMessageBuffer, MapView,
         bitmap_set, Computed, WriteBuffers, Answer, AskForView, bitmap_get, OnlyWorker,
         Set, AdapterTypeOK
<1>2. SUFFICES ASSUME place.pc # "run" PROVE Mapped'
  BY <1>1 DEF Mapped
<1>3. \A u \in Threads : Showing(u)
  BY <1>2 DEF Mapped, Showing
<1>4. SUFFICES Showing(t)'
  BY <1>1, <1>3, <1>4 DEF Mapped, Showing, MapsDistinct, ShowsSegment, Asked
<1>5. CASE Start(t)
  BY <1>5, StartShows
<1>6. CASE Context(t) \/ newReceiveMessageBuffer(t)
  BY <1>2, <1>3, <1>6, ContextShows
<1>7. CASE LoadClosure(t)
  BY <1>3, <1>7, ClosureShows
<1>8. CASE Superstep(t) \/ bitmap_set(t) \/ Computed(t) \/ WriteBuffers(t) \/ Answer(t)
           \/ \E v \in Vertexes : bitmap_get(t, v)
  <2>1. CASE Superstep(t)
    <3>1. x.maps = w.maps /\ x.info = w.info /\ x.view = w.view /\ x.stray = w.stray
      BY <1>0, <2>1 DEF Superstep, Set, Workers, AdapterTypeOK
    <3>2. w.pc = "ready"
      BY <2>1 DEF Superstep
    <3>3. x.pc = "messages" /\ x.n = 1
      BY <1>0, <2>1 DEF Superstep, Set, Workers, AdapterTypeOK
    <3>4. Asked(x) \subseteq Asked(w)
      BY <3>2, <3>3 DEF Asked
    <3> QED
      BY <1>1, <1>3, <3>1, <3>4, ViewsUntouched
  <2>2. CASE bitmap_set(t)
    <3>1. x.maps = w.maps /\ x.info = w.info /\ x.view = w.view /\ x.stray = w.stray
      BY <1>0, <2>2 DEF bitmap_set, Set, Workers, AdapterTypeOK
    <3>2. w.pc = "store"
      BY <2>2 DEF bitmap_set
    <3>3. x.pc = "compute"
      BY <1>0, <2>2 DEF bitmap_set, Set, Workers, AdapterTypeOK
    <3>4. Asked(x) \subseteq Asked(w)
      BY <3>2, <3>3 DEF Asked
    <3> QED
      BY <1>1, <1>3, <3>1, <3>4, ViewsUntouched
  <2>3. CASE Computed(t)
    <3>1. x.maps = w.maps /\ x.info = w.info /\ x.view = w.view /\ x.stray = w.stray
      BY <1>0, <2>3 DEF Computed, Set, Workers, AdapterTypeOK
    <3>2. w.pc = "compute"
      BY <2>3 DEF Computed
    <3>3. x.pc = "write"
      BY <1>0, <2>3 DEF Computed, Set, Workers, AdapterTypeOK
    <3>4. Asked(x) \subseteq Asked(w)
      BY <3>2, <3>3 DEF Asked
    <3> QED
      BY <1>1, <1>3, <3>1, <3>4, ViewsUntouched
  <2>4. CASE WriteBuffers(t)
    <3>1. x.maps = w.maps /\ x.info = w.info /\ x.view = w.view /\ x.stray = w.stray
      BY <1>0, <2>4 DEF WriteBuffers, Set, Workers, AdapterTypeOK
    <3>2. w.pc = "write"
      BY <2>4 DEF WriteBuffers
    <3>3. x.pc \in {"write", "answer"}
      BY <1>0, <2>4 DEF WriteBuffers, Set, Workers, AdapterTypeOK
    <3>4. Asked(x) \subseteq Asked(w)
      BY <3>2, <3>3 DEF Asked
    <3> QED
      BY <1>1, <1>3, <3>1, <3>4, ViewsUntouched
  <2>5. CASE Answer(t)
    <3>1. x.maps = w.maps /\ x.info = w.info /\ x.view = w.view /\ x.stray = w.stray
      BY <1>0, <2>5 DEF Answer, Set, Workers, AdapterTypeOK
    <3>2. w.pc = "answer"
      BY <2>5 DEF Answer
    <3>3. x.pc = "ready"
      BY <1>0, <2>5 DEF Answer, Set, Workers, AdapterTypeOK
    <3>4. Asked(x) \subseteq Asked(w)
      BY <3>2, <3>3, ViewInfos DEF Asked
    <3> QED
      BY <1>1, <1>3, <3>1, <3>4, ViewsUntouched
  <2>6. CASE \E v \in Vertexes : bitmap_get(t, v)
    <3>1. x.maps = w.maps /\ x.info = w.info /\ x.view = w.view /\ x.stray = w.stray
      BY <1>0, <2>6 DEF bitmap_get, Set, Workers, AdapterTypeOK
    <3>2. w.pc = "compute"
      BY <2>6 DEF bitmap_get
    <3>3. x.pc = "store"
      BY <1>0, <2>6 DEF bitmap_get, Set, Workers, AdapterTypeOK
    <3>4. Asked(x) \subseteq Asked(w)
      BY <3>2, <3>3 DEF Asked
    <3> QED
      BY <1>1, <1>3, <3>1, <3>4, ViewsUntouched
  <2> QED
    BY <1>8, <2>1, <2>2, <2>3, <2>4, <2>5, <2>6
<1>9. ASSUME NEW v \in AskedViews, AskForView(t, v) PROVE Showing(t)'
  BY <1>3, <1>9, AskedForShows
<1> QED
  BY <1>5, <1>6, <1>7, <1>8, <1>9 DEF WorkerStep

-----------------------------------------------------------------------------
(***************************************************************************)
(* The segments the workers make.                                          *)
(***************************************************************************)
LEMMA InitMade == AdapterInit => AllMade
BY DEF AdapterInit, AllMade, Made, NewWorker

LEMMA PlaceMade ==
  ASSUME AdapterTypeOK, AllInStep, AllMade,
         Export \/ Command \/ Import \/ NextSuperstep \/ EndRun \/ Stopped
  PROVE  AllMade'
<1> SUFFICES ASSUME NEW t \in Threads PROVE Made(t)'
  BY DEF AllMade
<1>0. place \in Places /\ Made(t) /\ InStep(t)
  BY DEF AdapterTypeOK, AllMade, AllInStep
<1>1. CASE Export
  <2>1. worker'[t].pc = "start" /\ place'.pc = "command"
    BY <1>0, <1>1 DEF Export, NewWorker, Places
  <2> QED
    BY <2>1 DEF Made
<1>2. CASE Command
  <2>1. worker' = worker /\ answer'[t] = NoAnswer /\ place'.pc = "wait" /\ place.pc = "command"
    BY <1>0, <1>2 DEF Command, Places
  <2>2. worker[t].pc \notin {"write", "answer"}
    BY <1>0, <2>1 DEF InStep
  <2> QED
    BY <2>1, <2>2 DEF Made
<1>3. CASE Import
  <2>1. /\ worker' = worker /\ answer' = answer /\ buffer' = buffer
        /\ place'.pc = "decide" /\ place.pc = "wait" /\ answer[t] # NoAnswer
        /\ place'.run = place.run /\ place'.step = place.step /\ place'.message = place.message
    BY <1>0, <1>3 DEF Import, Places
  <2>2. imported'[t] = [n \in 1 .. 4 |-> IF answer[t][(n + 1) \div 2] > 0
                                         THEN buffer[<<SentBuffers[n], t>>] ELSE NoSegment]
    BY <1>3 DEF Import
  <2>3. \A n \in 1 .. 4 :
          answer'[t][(n + 1) \div 2] > 0 => imported'[t][n] = buffer'[<<SentBuffers[n], t>>]
    BY <2>1, <2>2
  <2>4. \A n \in 1 .. 4 : MadeFor(t, n, answer[t]) => MadeFor(t, n, answer[t])'
    BY <2>1 DEF MadeFor, Segment
  <2>5. worker[t].pc \notin {"write", "answer"}
    BY <1>0, <2>1 DEF InStep
  <2> QED
    BY <1>0, <2>1, <2>3, <2>4, <2>5 DEF Made
<1>4. CASE NextSuperstep \/ EndRun
  <2>1. worker' = worker /\ place.pc = "decide" /\ place'.pc \in {"command", "run", "done"}
    BY <1>0, <1>4 DEF NextSuperstep, EndRun, Places
  <2>2. worker[t].pc \notin {"write", "answer"}
    BY <1>0, <2>1 DEF InStep
  <2> QED
    BY <2>1, <2>2 DEF Made
<1>5. CASE Stopped
  BY <1>0, <1>5 DEF Stopped, adapterVars, Made, MadeFor, Segment
<1> QED
  BY <1>1, <1>2, <1>3, <1>4, <1>5

\* A step that leaves the segments and the answer of a worker, and does not bring it
\* to the point where it has made any.
LEMMA MadeUntouched ==
  ASSUME NEW u \in Threads, Made(u), place' = place, answer'[u] = answer[u],
         imported' = imported, \A n \in 1 .. 4 : buffer'[<<SentBuffers[n], u>>] = buffer[<<SentBuffers[n], u>>],
         \/ worker'[u] = worker[u]
         \/ worker'[u].pc # "answer" /\ ~(worker'[u].pc = "write" /\ worker'[u].n = 3)
  PROVE  Made(u)'
<1>1. \A n \in 1 .. 4 : MadeFor(u, n, answer[u]) => MadeFor(u, n, answer[u])'
  BY DEF MadeFor, Segment
<1>2. CASE worker'[u] = worker[u]
  <2>1. \A n \in 1 .. 4 : MadeFor(u, n, worker[u].sends) => MadeFor(u, n, worker[u].sends)'
    BY <1>2 DEF MadeFor, Segment
  <2> QED
    BY <1>1, <1>2, <2>1 DEF Made
<1>3. CASE worker'[u].pc # "answer" /\ ~(worker'[u].pc = "write" /\ worker'[u].n = 3)
  BY <1>1, <1>3 DEF Made
<1> QED
  BY <1>2, <1>3

LEMMA BufferWritten ==
  ASSUME AdapterTypeOK, NEW t \in Threads, NEW n \in {1, 3}, WriteBuffers(t), worker[t].n = n
  PROVE  LET w == worker[t]
             item == SizeOf(PropertyOf(w).message_value_type)
             sent == w.sends[(n + 1) \div 2]
         IN  /\ buffer'[<<SentBuffers[n], t>>] = Segment(SentBuffers[n], t, sent * item)
             /\ buffer'[<<SentBuffers[n + 1], t>>]
                  = Segment(SentBuffers[n + 1], t, sent * SizeOf("Long"))
             /\ \A u \in Threads, m \in 1 .. 4 :
                  u # t \/ m \notin {n, n + 1}
                    => buffer'[<<SentBuffers[m], u>>] = buffer[<<SentBuffers[m], u>>]
<1> DEFINE w == worker[t]
           item == SizeOf(PropertyOf(w).message_value_type)
           long == SizeOf("Long")
           sent == w.sends[(n + 1) \div 2]
           a == <<SentBuffers[n], t>>
           b == <<SentBuffers[n + 1], t>>
           s == Segment(SentBuffers[n], t, sent * item)
           z == Segment(SentBuffers[n + 1], t, sent * long)
<1>1. /\ n % 2 = 1 /\ (n + 1) % 2 # 1 /\ (n + 1 + 1) \div 2 = (n + 1) \div 2
  OBVIOUS
<1>2. buffer' = [[buffer EXCEPT ![a] = s] EXCEPT ![b] = z]
  BY <1>1 DEF WriteBuffers, write_buffer_to_shmem, ShmemBufferName
<1>3. \A m, k \in 1 .. 4 : m # k => SentBuffers[m] # SentBuffers[k]
  BY DEF SentBuffers
<1>4. \A m \in 1 .. 4, u \in Threads : <<SentBuffers[m], u>> \in BufferNames
  BY DEF SentBuffers, BufferNames
<1>5. a \in BufferNames /\ b \in BufferNames /\ a # b /\ n \in 1 .. 4 /\ n + 1 \in 1 .. 4
  BY <1>3, <1>4
<1>6. \A u \in Threads, m \in 1 .. 4 :
        u # t \/ m \notin {n, n + 1} => <<SentBuffers[m], u>> # a /\ <<SentBuffers[m], u>> # b
  BY <1>3, <1>5
<1>7. DOMAIN buffer = BufferNames
  BY DEF AdapterTypeOK
<1> HIDE DEF a, b, s, z
<1>8. buffer'[a] = s /\ buffer'[b] = z
  BY <1>2, <1>5, <1>7
<1>9. \A c \in BufferNames : c # a /\ c # b => buffer'[c] = buffer[c]
  BY <1>2, <1>7
<1> QED
  BY <1>4, <1>6, <1>8, <1>9 DEF a, b, s, z

LEMMA WorkerMade ==
  ASSUME AdapterTypeOK, AllInStep, Described, AllMade, NEW t \in Threads, WorkerStep(t)
  PROVE  AllMade'
<1> DEFINE w == worker[t]
           x == worker'[t]
<1>0. w \in Workers /\ Made(t) /\ InStep(t)
  BY DEF AdapterTypeOK, AllMade, AllInStep
<1>1. CASE WriteBuffers(t)
  <2>0. /\ w.pc = "write" /\ place.pc = "wait" /\ answer[t] = NoAnswer /\ w.n \in {1, 3}
        /\ w.property = place.run
    BY <1>0, <1>1 DEF WriteBuffers, InStep
  <2>1. PropertyOf(w).message_value_type = place.message
    BY <2>0 DEF Described, PropertyOf
  <2>2. /\ place' = place /\ answer' = answer /\ imported' = imported
        /\ \A u \in Threads : u # t => worker'[u] = worker[u]
        /\ x.sends = w.sends
        /\ x.pc = IF w.n = 1 THEN "write" ELSE "answer"
        /\ w.sends \in Nat \X Nat
    BY <1>0, <1>1 DEF WriteBuffers, Set, Workers, AdapterTypeOK
  <2>3. ASSUME NEW u \in Threads, u # t PROVE Made(u)'
    <3>1. \A n \in 1 .. 4 : buffer'[<<SentBuffers[n], u>>] = buffer[<<SentBuffers[n], u>>]
      BY <1>1, <2>0, <2>3, BufferWritten
    <3> QED
      BY <2>2, <2>3, <3>1, MadeUntouched DEF AllMade
  <2>4. CASE w.n = 1
    <3>1. /\ buffer'[<<SentBuffers[1], t>>]
               = Segment(SentBuffers[1], t, w.sends[1] * SizeOf(place.message))
          /\ buffer'[<<SentBuffers[2], t>>]
               = Segment(SentBuffers[2], t, w.sends[1] * SizeOf("Long"))
      <4>1. (1 + 1) \div 2 = 1 /\ 1 + 1 = 2
        OBVIOUS
      <4> QED
        BY <1>1, <2>1, <2>4, <4>1, BufferWritten
    <3>2. \A n \in 1 .. 2 : MadeFor(t, n, w.sends)'
      BY <2>2, <3>1 DEF MadeFor, Segment
    <3>3. Made(t)'
      BY <2>0, <2>2, <2>4, <3>2 DEF Made
    <3> QED
      BY <2>3, <3>3 DEF AllMade
  <2>5. CASE w.n = 3
    <3>1. \A n \in 1 .. 2 : MadeFor(t, n, w.sends)
      BY <1>0, <2>0, <2>5 DEF Made
    <3>2. /\ buffer'[<<SentBuffers[3], t>>]
               = Segment(SentBuffers[3], t, w.sends[2] * SizeOf(place.message))
          /\ buffer'[<<SentBuffers[4], t>>]
               = Segment(SentBuffers[4], t, w.sends[2] * SizeOf("Long"))
          /\ \A n \in 1 .. 2 : buffer'[<<SentBuffers[n], t>>] = buffer[<<SentBuffers[n], t>>]
      <4>1. (3 + 1) \div 2 = 2 /\ 3 + 1 = 4
        OBVIOUS
      <4>2. \A n \in 1 .. 2 : n \in 1 .. 4 /\ n \notin {3, 4}
        OBVIOUS
      <4> QED
        BY <1>1, <2>1, <2>5, <4>1, <4>2, BufferWritten
    <3>3. \A n \in 1 .. 2 : MadeFor(t, n, w.sends)'
      BY <2>2, <3>1, <3>2 DEF MadeFor, Segment
    <3>4. \A n \in 3 .. 4 : MadeFor(t, n, w.sends)'
      BY <2>2, <3>2 DEF MadeFor, Segment
    <3>5. \A n \in 1 .. 4 : MadeFor(t, n, w.sends)'
      BY <3>3, <3>4
    <3>6. Made(t)'
      BY <2>0, <2>2, <2>5, <3>5 DEF Made
    <3> QED
      BY <2>3, <3>6 DEF AllMade
  <2> QED
    BY <2>0, <2>4, <2>5
<1>2. CASE Answer(t)
  <2>1. /\ w.pc = "answer" /\ place.pc = "wait" /\ place' = place /\ imported' = imported
        /\ buffer' = buffer
    BY <1>0, <1>2 DEF Answer, InStep
  <2>2. /\ answer'[t] = w.sends /\ x.pc = "ready"
        /\ \A u \in Threads : u # t => worker'[u] = worker[u] /\ answer'[u] = answer[u]
    BY <1>0, <1>2 DEF Answer, Set, Workers, AdapterTypeOK
  <2>3. ASSUME NEW u \in Threads, u # t PROVE Made(u)'
    BY <2>1, <2>2, <2>3, MadeUntouched DEF AllMade
  <2>4. \A n \in 1 .. 4 : MadeFor(t, n, w.sends)
    BY <1>0, <2>1 DEF Made
  <2>5. \A n \in 1 .. 4 : MadeFor(t, n, answer[t])'
    BY <2>1, <2>2, <2>4 DEF MadeFor, Segment
  <2>6. Made(t)'
    BY <2>1, <2>2, <2>5 DEF Made
  <2> QED
    BY <2>3, <2>6 DEF AllMade
<1>3. CASE ~WriteBuffers(t) /\ ~Answer(t)
  <2>1. /\ place' = place /\ answer' = answer /\ imported' = imported /\ buffer' = buffer
        /\ \A u \in Threads : u # t => worker'[u] = worker[u]
    BY <1>3 DEF WorkerStep, Start, Context, LoadClosure, Superstep, newReceiveMessageBuffer,
                MapView, bitmap_set, Computed, AskForView, bitmap_get, OnlyWorker, Set, AdapterTypeOK
  <2>2. x.pc # "answer" /\ ~(x.pc = "write" /\ x.n = 3)
    <3>1. CASE Start(t)
      BY <3>1 DEF Start, MMapShmemProperty, NewWorker, Set, AdapterTypeOK
    <3>2. CASE Context(t)
      <4>1. PICK v \in ContextViews, pc \in {"closure", "context"}, n \in Nat : MapView(t, v, pc, n)
        <5>1. w.n \in 1 .. 7 /\ w.n + 1 \in Nat
          BY <1>0, <3>2, ViewNames DEF Context, InStep
        <5> QED
          BY <3>2, <5>1, ViewNames, ViewInfos DEF Context
      <4> QED
        BY <4>1, MapViewMoves DEF Stages
    <3>3. CASE newReceiveMessageBuffer(t)
      <4>1. PICK v \in ContextViews, pc \in {"messages", "compute"}, n \in {0, 2} :
              MapView(t, v, pc, n)
        BY <3>3, ViewInfos DEF newReceiveMessageBuffer
      <4> QED
        BY <4>1, MapViewMoves DEF Stages
    <3>4. CASE LoadClosure(t)
      BY <1>0, <3>4 DEF LoadClosure, Set, Workers, AdapterTypeOK
    <3>5. CASE Superstep(t)
      BY <1>0, <3>5 DEF Superstep, Set, Workers, AdapterTypeOK
    <3>6. CASE bitmap_set(t)
      BY <1>0, <3>6 DEF bitmap_set, Set, Workers, AdapterTypeOK
    <3>7. CASE Computed(t)
      BY <1>0, <3>7 DEF Computed, Set, Workers, AdapterTypeOK
    <3>8. ASSUME NEW v \in AskedViews, AskForView(t, v)
          PROVE  x.pc = "compute"
      <4> DEFINE m == MMapShmem(w, v).worker
      <4>1. m \in Workers /\ m = [w EXCEPT !.maps = m.maps, !.info = m.info]
        BY ViewMapped, ViewsAssumption DEF Views
      <4>2. x = m /\ w.pc = "compute"
        BY <3>8, OthersAlone DEF AskForView
      <4> HIDE DEF m
      <4> QED
        BY <1>0, <4>1, <4>2 DEF Workers
    <3>9. ASSUME NEW v \in Vertexes, bitmap_get(t, v)
          PROVE  x.pc = "store"
      BY <1>0, <3>9 DEF bitmap_get, Set, Workers, AdapterTypeOK
    <3> QED
      BY <1>3, <3>1, <3>2, <3>3, <3>4, <3>5, <3>6, <3>7, <3>8, <3>9 DEF WorkerStep
  <2>3. ASSUME NEW u \in Threads PROVE Made(u)'
    BY <2>1, <2>2, <2>3, MadeUntouched DEF AllMade
  <2> QED
    BY <2>3 DEF AllMade
<1> QED
  BY <1>1, <1>2, <1>3

-----------------------------------------------------------------------------
(***************************************************************************)
(* The theorems.                                                           *)
(***************************************************************************)
LEMMA InitMemory == AdapterInit => MemoryInv
<1>1. AdapterInit => Described
  BY DEF AdapterInit, Described
<1> QED
  BY <1>1, InitTypes, InitInStep, InitWords, InitMapped, InitMade DEF MemoryInv

LEMMA PlaceMemory ==
  ASSUME MemoryInv, Export \/ Command \/ Import \/ NextSuperstep \/ EndRun \/ Stopped
  PROVE  MemoryInv'
<1>1. AdapterTypeOK'
  BY ExportTypes, PlaceTypes DEF MemoryInv
<1>2. AllInStep' /\ WordsKept'
  BY PlaceInStep, PlaceWords DEF MemoryInv
<1>3. Described'
  BY KeptDescribed DEF MemoryInv, AdapterNext
<1>4. Mapped' /\ AllMade'
  BY PlaceMapped, PlaceMade DEF MemoryInv
<1> QED
  BY <1>1, <1>2, <1>3, <1>4 DEF MemoryInv

LEMMA WorkerMemoryKept ==
  ASSUME MemoryInv, NEW t \in Threads, WorkerStep(t)
  PROVE  MemoryInv'
<1>1. AdapterTypeOK' /\ AllInStep' /\ WordsKept'
  BY WorkerStepTypes, WorkerInStep, WorkerWords DEF MemoryInv
<1>2. Described'
  BY KeptDescribed DEF MemoryInv, AdapterNext
<1>3. Mapped' /\ AllMade'
  BY WorkerMapped, WorkerMade DEF MemoryInv
<1> QED
  BY <1>1, <1>2, <1>3 DEF MemoryInv

\* The place and its workers keep their segments, mappings, words and answers in step.
THEOREM MemoryKept == AdapterSpec => []MemoryInv
<1>1. MemoryInv /\ [AdapterNext]_adapterVars => MemoryInv'
  <2> SUFFICES ASSUME MemoryInv, [AdapterNext]_adapterVars PROVE MemoryInv'
    OBVIOUS
  <2>1. CASE UNCHANGED adapterVars
    <3>1. AdapterTypeOK'
      BY <2>1 DEF adapterVars, MemoryInv, AdapterTypeOK
    <3>2. AllInStep' /\ WordsKept'
      BY <2>1 DEF adapterVars, MemoryInv, AllInStep, InStep, WordsKept
    <3>3. Described'
      BY <2>1 DEF adapterVars, MemoryInv, Described
    <3>4. Mapped'
      BY <2>1 DEF adapterVars, MemoryInv, Mapped, MapsDistinct, ShowsSegment, Asked
    <3>5. AllMade'
      BY <2>1 DEF adapterVars, MemoryInv, AllMade, Made, MadeFor, Segment
    <3> QED
      BY <3>1, <3>2, <3>3, <3>4, <3>5 DEF MemoryInv
  <2> QED
    BY <2>1, PlaceMemory, WorkerMemoryKept DEF AdapterNext
<1> QED
  BY <1>1, InitMemory, PTL DEF AdapterSpec

\* Every variable of the place and the workers keeps its type.
THEOREM MemoryTypes == AdapterSpec => []AdapterTypeOK
<1>1. MemoryInv => AdapterTypeOK
  BY DEF MemoryInv
<1> QED
  BY <1>1, MemoryKept, PTL

\* While a worker computes, each view of its context shows the segment the place made
\* last for it: x10xpregeladapter.cc unmaps and maps again before any vertex is computed,
\* and an address that is used again never is that of another view.
THEOREM ViewsAreRight == AdapterSpec => []ViewsShowTheirSegments
<1>1. MemoryInv => ViewsShowTheirSegments
  <2> SUFFICES ASSUME MemoryInv, NEW t \in Threads, NEW v \in ContextViews,
                      Computing(t), ~worker[t].stray
               PROVE  /\ worker[t].view[v].size = segment[v].len
                      /\ segment[v].len > 0 => Shown(worker[t], v) = segment[v]
    BY DEF ViewsShowTheirSegments
  <2>1. worker[t].pc \in {"compute", "store", "write"} /\ place.pc # "run"
    BY DEF Computing, MemoryInv, AllInStep, InStep
  <2>2. v \in Asked(worker[t])
    BY <2>1 DEF Asked
  <2>3. MapsDistinct(worker[t]) /\ ShowsSegment(worker[t], v)
    BY <2>1, <2>2 DEF MemoryInv, Mapped
  <2>4. v \in Views
    BY DEF Views
  <2> QED
    BY <2>3, <2>4 DEF MapsDistinct, ShowsSegment, Shown
<1> QED
  BY <1>1, MemoryKept, PTL

\* What NativePyXPregelAdapter imports for a thread was written by that thread in this
\* superstep, as long as its answer says.
THEOREM ImportsAreOfThisSuperstep == AdapterSpec => []ImportedAsSent
<1>1. MemoryInv => ImportedAsSent
  <2> SUFFICES ASSUME MemoryInv, place.pc = "decide", NEW t \in Threads, NEW n \in 1 .. 4,
                      answer[t][(n + 1) \div 2] > 0
               PROVE  imported[t][n] =
                        Segment(SentBuffers[n], t, answer[t][(n + 1) \div 2]
                                * IF n % 2 = 1 THEN SizeOf(place.message) ELSE SizeOf("Long"))
    BY DEF ImportedAsSent
  <2>1. Made(t)
    BY DEF MemoryInv, AllMade
  <2>2. imported[t][n] = buffer[<<SentBuffers[n], t>>] /\ MadeFor(t, n, answer[t])
    BY <2>1 DEF Made
  <2> QED
    BY <2>2 DEF MadeFor
<1> QED
  BY <1>1, MemoryKept, PTL

\* Workers that write whole words of one bitmap without locks lose no flag, however the
\* vertices are divided by the size of a word and the number of workers.
THEOREM NoFlagIsLost == AdapterSpec => []FlagsAsSet
<1>1. MemoryInv => FlagsAsSet
  BY DEF MemoryInv, WordsKept, FlagsAsSet
<1> QED
  BY <1>1, MemoryKept, PTL

-----------------------------------------------------------------------------
(***************************************************************************)
(* The holders of an object.                                               *)
(***************************************************************************)
\* A ledger has a number for every reference.
LEMMA LedgerIs == \A own \in Ledger : \A x \in Nat : own[x] \in Nat
BY DEF Ledger

\* Who holds x among the containers cs.
LEMMA HoldersAre ==
  ASSUME NEW heap, NEW cs, NEW x
  PROVE  /\ \A c, k : <<c, k>> \in HoldersIn(heap, cs, x) <=>
                        /\ c \in cs /\ k \in DOMAIN heap[c].items
                        /\ heap[c].items[k] # Null /\ heap[c].items[k] = x
         /\ \A h \in HoldersIn(heap, cs, x) : h = <<h[1], h[2]>>
<1>1. ASSUME NEW c, NEW k
      PROVE  <<c, k>> \in HoldersIn(heap, cs, x) <=>
                        /\ c \in cs /\ k \in DOMAIN heap[c].items
                        /\ heap[c].items[k] # Null /\ heap[c].items[k] = x
  <2>1. <<c, k>> \in UNION {{d} \X ItemsOf(heap[d]) : d \in cs} <=> c \in cs /\ k \in ItemsOf(heap[c])
    OBVIOUS
  <2>2. <<c, k>>[1] = c /\ <<c, k>>[2] = k
    OBVIOUS
  <2> QED
    BY <2>1, <2>2 DEF HoldersIn, ItemsOf
<1>2. ASSUME NEW h \in HoldersIn(heap, cs, x) PROVE h = <<h[1], h[2]>>
  <2>1. PICK d \in cs : h \in {d} \X ItemsOf(heap[d])
    BY DEF HoldersIn
  <2> QED
    BY <2>1
<1> QED
  BY <1>1, <1>2

\* They are finitely many, so they can be counted.
LEMMA HoldersFinite ==
  ASSUME NEW heap \in Seq(ObjectType), Closed(heap), NEW cs \in SUBSET (DOMAIN heap), NEW x
  PROVE  IsFiniteSet(HoldersIn(heap, cs, x)) /\ HeldBy(heap, cs, x) \in Nat
<1>1. PICK keys : IsFiniteSet(keys) /\ \A a \in DOMAIN heap : DOMAIN heap[a].items \subseteq keys
  BY DEF Closed
<1>2. IsFiniteSet(1 .. Len(heap)) /\ DOMAIN heap = 1 .. Len(heap)
  BY FS_Interval
<1>3. IsFiniteSet((1 .. Len(heap)) \X keys)
  BY <1>1, <1>2, FS_Product
<1>4. HoldersIn(heap, cs, x) \in SUBSET ((1 .. Len(heap)) \X keys)
  <2> SUFFICES ASSUME NEW h \in HoldersIn(heap, cs, x) PROVE h \in (1 .. Len(heap)) \X keys
    OBVIOUS
  <2>1. PICK c \in cs : h \in {c} \X ItemsOf(heap[c])
    BY DEF HoldersIn
  <2> QED
    BY <1>1, <1>2, <2>1 DEF ItemsOf
<1> QED
  BY <1>3, <1>4, FS_Subset, FS_CardinalityType DEF HeldBy

\* Only what is held counts.
LEMMA HoldersSame ==
  ASSUME NEW g, NEW h, NEW cs, NEW x, \A c \in cs : h[c].items = g[c].items
  PROVE  HoldersIn(h, cs, x) = HoldersIn(g, cs, x) /\ HeldBy(h, cs, x) = HeldBy(g, cs, x)
<1>1. ASSUME NEW p \in HoldersIn(h, cs, x) PROVE p \in HoldersIn(g, cs, x)
  BY HoldersAre
<1>2. ASSUME NEW p \in HoldersIn(g, cs, x) PROVE p \in HoldersIn(h, cs, x)
  BY HoldersAre
<1> QED
  BY <1>1, <1>2 DEF HeldBy

\* Containers that hold the same hold x as often.
LEMMA HeldSame ==
  ASSUME NEW g, NEW h, NEW cs, SameItems(g, h, cs), NEW x
  PROVE  HeldBy(h, cs, x) = HeldBy(g, cs, x)
BY HoldersSame DEF SameItems

\* What two disjoint sets of containers hold adds up.
LEMMA HoldersSplit ==
  ASSUME NEW heap \in Seq(ObjectType), Closed(heap), NEW cs \in SUBSET (DOMAIN heap),
         NEW ds \in SUBSET (DOMAIN heap), cs \cap ds = {}, NEW x
  PROVE  HeldBy(heap, cs \cup ds, x) = HeldBy(heap, cs, x) + HeldBy(heap, ds, x)
<1>1. HoldersIn(heap, cs \cup ds, x) = HoldersIn(heap, cs, x) \cup HoldersIn(heap, ds, x)
  <2>1. ASSUME NEW p \in HoldersIn(heap, cs \cup ds, x)
        PROVE  p \in HoldersIn(heap, cs, x) \cup HoldersIn(heap, ds, x)
    BY HoldersAre
  <2>2. ASSUME NEW p \in HoldersIn(heap, cs, x) \cup HoldersIn(heap, ds, x)
        PROVE  p \in HoldersIn(heap, cs \cup ds, x)
    BY HoldersAre
  <2> QED
    BY <2>1, <2>2
<1>2. HoldersIn(heap, cs, x) \cap HoldersIn(heap, ds, x) = {}
  <2> SUFFICES ASSUME NEW p \in HoldersIn(heap, cs, x), p \in HoldersIn(heap, ds, x) PROVE FALSE
    OBVIOUS
  <2> QED
    BY HoldersAre
<1>3. IsFiniteSet(HoldersIn(heap, cs, x)) /\ IsFiniteSet(HoldersIn(heap, ds, x))
      /\ Cardinality(HoldersIn(heap, cs, x)) \in Nat /\ Cardinality(HoldersIn(heap, ds, x)) \in Nat
  BY HoldersFinite DEF HeldBy
<1>4. Cardinality({}) = 0
  BY FS_EmptySet
<1>5. ASSUME NEW A, NEW B, IsFiniteSet(A), IsFiniteSet(B), A \cap B = {},
             Cardinality(A) \in Nat, Cardinality(B) \in Nat
      PROVE  Cardinality(A \cup B) = Cardinality(A) + Cardinality(B)
  <2>1. Cardinality(A \cup B) = Cardinality(A) + Cardinality(B) - Cardinality(A \cap B)
    BY <1>5, FS_Union
  <2>2. Cardinality(A \cap B) = 0
    BY <1>4, <1>5, Zenon
  <2> QED
    BY <1>5, <2>1, <2>2
<1>6. Cardinality(HoldersIn(heap, cs, x) \cup HoldersIn(heap, ds, x))
        = Cardinality(HoldersIn(heap, cs, x)) + Cardinality(HoldersIn(heap, ds, x))
  BY <1>2, <1>3, <1>5
<1> QED
  BY <1>1, <1>6 DEF HeldBy

\* Fewer containers do not hold x more often.
LEMMA HoldersFewer ==
  ASSUME NEW heap \in Seq(ObjectType), Closed(heap), NEW ds \in SUBSET (DOMAIN heap),
         NEW cs \in SUBSET ds, NEW x
  PROVE  HeldBy(heap, cs, x) <= HeldBy(heap, ds, x)
<1>1. ds = cs \cup (ds \ cs) /\ cs \cap (ds \ cs) = {} /\ cs \in SUBSET (DOMAIN heap)
      /\ ds \ cs \in SUBSET (DOMAIN heap)
  OBVIOUS
<1>2. HeldBy(heap, ds, x) = HeldBy(heap, cs, x) + HeldBy(heap, ds \ cs, x)
  BY <1>1, HoldersSplit
<1>3. HeldBy(heap, cs, x) \in Nat /\ HeldBy(heap, ds \ cs, x) \in Nat
  BY <1>1, HoldersFinite
<1> QED
  BY <1>2, <1>3

-----------------------------------------------------------------------------
(***************************************************************************)
(* Objects that die.                                                       *)
(***************************************************************************)
\* A count is written: the objects are the same.
LEMMA RefsWritten ==
  ASSUME NEW heap \in Seq(ObjectType), NEW a \in DOMAIN heap, NEW n \in Nat
  PROVE  LET h == SetRefs(heap, a, n)
         IN  /\ h \in Seq(ObjectType) /\ SameObjects(heap, h)
             /\ \A x \in DOMAIN heap : h[x].refs = IF x = a THEN n ELSE heap[x].refs
<1> USE DEF SetRefs
<1> DEFINE h == [heap EXCEPT ![a].refs = n]
<1>1. Len(heap) \in Nat /\ DOMAIN heap = 1 .. Len(heap) /\ \A x \in 1 .. Len(heap) : heap[x] \in ObjectType
  OBVIOUS
<1>2. ASSUME NEW x \in 1 .. Len(heap)
      PROVE  /\ h[x] = IF x = a THEN [heap[x] EXCEPT !.refs = n] ELSE heap[x]
             /\ h[x] \in ObjectType
             /\ h[x].kind = heap[x].kind /\ h[x].items = heap[x].items /\ h[x].data = heap[x].data
             /\ h[x].refs = IF x = a THEN n ELSE heap[x].refs
  BY <1>1 DEF ObjectType
<1>3. h \in Seq(ObjectType) /\ Len(h) = Len(heap)
  <2>1. h = [x \in 1 .. Len(heap) |-> h[x]]
    BY <1>1
  <2>2. h \in [1 .. Len(heap) -> ObjectType]
    BY <1>2, <2>1
  <2> QED
    BY <1>1, <2>2
<1> QED
  BY <1>1, <1>2, <1>3 DEF SameObjects

\* The same objects hold only what exists.
LEMMA ClosedSame ==
  ASSUME NEW g \in Seq(ObjectType), NEW h \in Seq(ObjectType), SameObjects(g, h), Closed(g)
  PROVE  Closed(h)
<1>1. DOMAIN g = 1 .. Len(g) /\ DOMAIN h = 1 .. Len(g) /\ Len(h) = Len(g)
  BY DEF SameObjects
<1> QED
  BY <1>1 DEF Closed, SameObjects

\* The same objects hold x as often.
LEMMA BackedSame ==
  ASSUME NEW g, NEW h, NEW cs, cs \subseteq 1 .. Len(g), SameObjects(g, h), NEW x
  PROVE  HeldBy(h, cs, x) = HeldBy(g, cs, x)
<1>1. SameItems(g, h, cs)
  BY DEF SameItems, SameObjects
<1> QED
  BY <1>1, HeldSame

\* What the objects that have just died held is released, and others may die of it.
LEMMA OneRound ==
  ASSUME NEW heap, NEW dead, NEW own \in Ledger, Falling(heap, dead, own)
  PROVE  LET h == Release(heap, dead)
         IN  Falling(h, Died(heap, h), own) /\ SameObjects(heap, h)
<1> DEFINE h == Release(heap, dead)
           live == Living(heap)
           gone == Died(heap, h)
<1>1. /\ heap \in Seq(ObjectType) /\ Closed(heap) /\ DOMAIN heap = 1 .. Len(heap) /\ Len(heap) \in Nat
      /\ dead \in SUBSET (DOMAIN heap) /\ live \in SUBSET (DOMAIN heap) /\ live \cap dead = {}
  BY DEF Falling, Living
<1>2. ASSUME NEW x \in DOMAIN heap
      PROVE  /\ HeldBy(heap, live, x) \in Nat /\ HeldBy(heap, dead, x) \in Nat /\ own[x] \in Nat
             /\ heap[x] \in ObjectType /\ heap[x].refs \in Nat
             /\ heap[x].refs >= HeldBy(heap, live, x) + HeldBy(heap, dead, x) + own[x]
  <2>1. HeldBy(heap, live, x) \in Nat /\ HeldBy(heap, dead, x) \in Nat
    BY <1>1, HoldersFinite
  <2>2. HeldBy(heap, live \cup dead, x) = HeldBy(heap, live, x) + HeldBy(heap, dead, x)
    BY <1>1, HoldersSplit
  <2>3. own[x] \in Nat /\ heap[x] \in ObjectType /\ heap[x].refs \in Nat
    <3>1. x \in Nat /\ heap[x] \in ObjectType
      BY <1>1
    <3> QED
      BY <3>1, LedgerIs DEF ObjectType
  <2>4. heap[x].refs >= HeldBy(heap, live \cup dead, x) + own[x]
    BY DEF Falling, Backed
  <2> QED
    BY <2>1, <2>2, <2>3, <2>4
<1>3. ASSUME NEW x \in DOMAIN heap
      PROVE  /\ h[x] = [heap[x] EXCEPT !.refs = @ - HeldBy(heap, dead, x)]
             /\ h[x].refs = heap[x].refs - HeldBy(heap, dead, x) /\ h[x].refs \in Nat
             /\ h[x] \in ObjectType
             /\ h[x].kind = heap[x].kind /\ h[x].items = heap[x].items /\ h[x].data = heap[x].data
  <2>1. h[x] = [heap[x] EXCEPT !.refs = @ - HeldBy(heap, dead, x)]
    BY DEF Release, HeldBy
  <2>2. heap[x].refs - HeldBy(heap, dead, x) \in Nat
    BY <1>2
  <2> HIDE DEF h
  <2> QED
    BY <1>2, <2>1, <2>2 DEF ObjectType
<1>4. h \in Seq(ObjectType) /\ Len(h) = Len(heap) /\ SameObjects(heap, h)
  <2>1. h = [x \in 1 .. Len(heap) |-> h[x]]
    BY <1>1 DEF Release
  <2> HIDE DEF h
  <2>2. h \in [1 .. Len(heap) -> ObjectType]
    BY <1>1, <1>3, <2>1
  <2>3. h \in Seq(ObjectType) /\ Len(h) = Len(heap)
    BY <1>1, <2>2, FunctionIsSeq
  <2> QED
    BY <1>1, <1>3, <2>3 DEF SameObjects
<1> HIDE DEF h
<1>5. Closed(h) /\ DOMAIN h = DOMAIN heap
  BY <1>1, <1>4, ClosedSame
<1>6. gone \in SUBSET (DOMAIN h) /\ gone \cap Living(h) = {}
  BY <1>5 DEF Died, Living
<1>7. Living(h) \cup gone = live
  <2>1. ASSUME NEW x \in live PROVE x \in Living(h) \cup gone
    BY <1>1, <1>3, <1>5, <2>1 DEF Living, Died
  <2>2. ASSUME NEW x \in Living(h) \cup gone PROVE x \in live
    <3>1. x \in DOMAIN heap /\ (h[x].refs > 0 \/ heap[x].refs # 0)
      BY <1>5, <2>2 DEF Living, Died
    <3>2. h[x].refs = heap[x].refs - HeldBy(heap, dead, x) /\ HeldBy(heap, dead, x) \in Nat /\ heap[x].refs \in Nat
      BY <1>2, <1>3, <3>1
    <3> QED
      BY <3>1, <3>2 DEF Living
  <2> QED
    BY <2>1, <2>2
<1>8. Backed(h, Living(h) \cup gone, own)
  <2> SUFFICES ASSUME NEW x \in DOMAIN heap
               PROVE  h[x].refs >= HeldBy(h, live, x) + own[x]
    BY <1>5, <1>7 DEF Backed
  <2>1. HeldBy(h, live, x) = HeldBy(heap, live, x)
    BY <1>1, <1>4, BackedSame
  <2>2. h[x].refs = heap[x].refs - HeldBy(heap, dead, x)
    BY <1>3
  <2> HIDE DEF live
  <2> QED
    BY <1>2, <2>1, <2>2
<1>9. Falling(h, gone, own) /\ SameObjects(heap, h)
  BY <1>4, <1>5, <1>6, <1>8 DEF Falling
<1> QED
  BY <1>9 DEF h

\* Objects that stay the same twice have stayed the same.
LEMMA SameTwice ==
  ASSUME NEW f, NEW g, NEW h, Len(f) \in Nat, SameObjects(f, g), SameObjects(g, h)
  PROVE  SameObjects(f, h)
BY DEF SameObjects

\* However the dead go one after another, what is left is counted.
LEMMA FallsOver ==
  ASSUME NEW heap, NEW dead, NEW own \in Ledger, Falling(heap, dead, own), NEW n \in Nat
  PROVE  LET fall[i \in Nat] == IF i = 0 THEN [heap |-> heap, dead |-> dead] ELSE Fall(fall[i - 1])
         IN  Falling(fall[n].heap, fall[n].dead, own) /\ SameObjects(heap, fall[n].heap)
<1> DEFINE S == {f \in [heap : Seq(ObjectType), dead : SUBSET Nat] :
                   Falling(f.heap, f.dead, own) /\ SameObjects(heap, f.heap)}
           start == [heap |-> heap, dead |-> dead]
           G == [p \in Nat \X S |-> Fall(p[2])]
           IsFall(h) == h = [i \in Nat |-> IF i = 0 THEN start ELSE Fall(h[i - 1])]
           fall == CHOOSE h : IsFall(h)
<1>1. start \in S
  <2>1. heap \in Seq(ObjectType) /\ dead \in SUBSET Nat
    BY DEF Falling
  <2>2. SameObjects(heap, heap)
    BY DEF SameObjects
  <2> QED
    BY <2>1, <2>2
<1>2. ASSUME NEW f \in S PROVE Fall(f) \in S
  <2> DEFINE h == Release(f.heap, f.dead)
  <2>1. /\ f.heap \in Seq(ObjectType) /\ f.dead \in SUBSET Nat
        /\ Falling(f.heap, f.dead, own) /\ SameObjects(heap, f.heap)
    OBVIOUS
  <2>2. Falling(h, Died(f.heap, h), own) /\ SameObjects(f.heap, h)
    BY <2>1, OneRound
  <2> HIDE DEF h
  <2>3. h \in Seq(ObjectType) /\ Died(f.heap, h) \in SUBSET Nat
    <3>1. DOMAIN f.heap \in SUBSET Nat
      BY <2>1
    <3> QED
      BY <2>2, <3>1 DEF Falling, Died
  <2>4. SameObjects(heap, h)
    <3>1. heap \in Seq(ObjectType)
      BY DEF Falling
    <3>2. Len(heap) \in Nat
      BY <3>1
    <3> QED
      BY <2>1, <2>2, <3>2, SameTwice
  <2>5. [heap |-> h, dead |-> Died(f.heap, h)] \in S
    BY <2>2, <2>3, <2>4
  <2>6. Fall(f) = IF f.dead = {} THEN f ELSE [heap |-> h, dead |-> Died(f.heap, h)]
    BY DEF Fall, h
  <2> HIDE DEF S
  <2> QED
    BY <2>5, <2>6
<1> HIDE DEF S, start
<1>3. G \in [Nat \X S -> S] /\ \A i \in Nat, f \in S : G[<<i, f>>] = Fall(f)
  BY <1>2
<1> HIDE DEF G
<1>4. PICK g : GoesOn(g, S, start, G)
  BY <1>1, <1>3, Recursion
<1>5. g \in [Nat -> S] /\ g[0] = start /\ \A i \in Nat : g[i + 1] = Fall(g[i])
  BY <1>3, <1>4 DEF GoesOn
<1>6. IsFall(g)
  <2>1. ASSUME NEW i \in Nat PROVE g[i] = IF i = 0 THEN start ELSE Fall(g[i - 1])
    <3>1. CASE i = 0
      BY <1>5, <3>1
    <3>2. CASE i # 0
      <4>1. i - 1 \in Nat /\ (i - 1) + 1 = i
        BY <3>2
      <4>2. g[(i - 1) + 1] = Fall(g[i - 1])
        BY <1>5, <4>1
      <4> QED
        BY <3>2, <4>1, <4>2
    <3> QED
      BY <3>1, <3>2
  <2>2. g = [i \in Nat |-> g[i]]
    BY <1>5
  <2> QED
    BY <2>1, <2>2
<1>7. IsFall(fall)
  BY <1>6
<1> HIDE DEF fall
<1>8. fall[0] = start /\ \A i \in Nat : fall[i + 1] = Fall(fall[i])
  <2>1. ASSUME NEW i \in Nat PROVE fall[i] = IF i = 0 THEN start ELSE Fall(fall[i - 1])
    BY <1>7
  <2>2. ASSUME NEW i \in Nat PROVE fall[i + 1] = Fall(fall[i])
    <3>1. i + 1 \in Nat /\ i + 1 # 0 /\ (i + 1) - 1 = i
      OBVIOUS
    <3>2. fall[i + 1] = IF i + 1 = 0 THEN start ELSE Fall(fall[(i + 1) - 1])
      BY <2>1, <3>1
    <3> QED
      BY <3>1, <3>2
  <2> QED
    BY <2>1, <2>2
<1>9. \A i \in Nat : fall[i] \in S
  <2> DEFINE H == {i \in Nat : fall[i] \in S}
  <2>1. 0 \in H
    BY <1>1, <1>8
  <2>2. \A i \in Nat : i \in H => i + 1 \in H
    BY <1>2, <1>8
  <2> HIDE DEF H
  <2>3. \A i \in Nat : i \in H
    BY <2>1, <2>2, Induction
  <2> QED
    BY <2>3 DEF H
<1>10. Falling(fall[n].heap, fall[n].dead, own) /\ SameObjects(heap, fall[n].heap)
  BY <1>9 DEF S
<1> QED
  BY <1>10 DEF fall, start

\* One counts a single reference; NULL is none.
LEMMA OneIs ==
  \A a, b : /\ One(a, b) \in {0, 1} /\ One(a, b) \in Nat
            /\ (a = b /\ b # 0 => One(a, b) = 1) /\ (a # b => One(a, b) = 0)
BY DEF One, Null

\* The parts of Counted.
LEMMA CountedParts ==
  ASSUME NEW p, NEW own, Counted(p, own)
  PROVE  /\ p \in Interpreter /\ p.heap \in Seq(ObjectType) /\ p.err \in ErrorType
         /\ Solid(p.heap, own) /\ Within(own, Len(p.heap))
BY DEF Counted, Interpreter

\* The parts of Solid, for every object.
LEMMA SolidParts ==
  ASSUME NEW g, NEW own \in Ledger, Solid(g, own)
  PROVE  /\ g \in Seq(ObjectType) /\ Closed(g) /\ Len(g) \in Nat /\ DOMAIN g = 1 .. Len(g)
         /\ Living(g) \in SUBSET (1 .. Len(g)) /\ Living(g) \in SUBSET (DOMAIN g)
         /\ \A x \in 1 .. Len(g) :
              /\ x \in Nat /\ x # 0 /\ g[x] \in ObjectType /\ g[x].refs \in Nat /\ own[x] \in Nat
              /\ HeldBy(g, Living(g), x) \in Nat
              /\ g[x].refs >= HeldBy(g, Living(g), x) + own[x]
              /\ x \in Living(g) <=> g[x].refs > 0
<1>1. g \in Seq(ObjectType) /\ Closed(g) /\ Len(g) \in Nat /\ DOMAIN g = 1 .. Len(g)
  BY DEF Solid
<1>2. Living(g) \in SUBSET (1 .. Len(g)) /\ Living(g) \in SUBSET (DOMAIN g)
  BY <1>1 DEF Living
<1>3. ASSUME NEW x \in 1 .. Len(g)
      PROVE  /\ x \in Nat /\ x # 0 /\ g[x] \in ObjectType /\ g[x].refs \in Nat /\ own[x] \in Nat
             /\ HeldBy(g, Living(g), x) \in Nat
             /\ g[x].refs >= HeldBy(g, Living(g), x) + own[x]
             /\ x \in Living(g) <=> g[x].refs > 0
  <2>1. x \in Nat /\ x # 0 /\ x \in DOMAIN g /\ g[x] \in ObjectType
    BY <1>1
  <2>2. g[x].refs \in Nat
    BY <2>1 DEF ObjectType
  <2>3. own[x] \in Nat
    BY <2>1, LedgerIs
  <2>4. HeldBy(g, Living(g), x) \in Nat
    BY <1>1, <1>2, HoldersFinite
  <2>5. g[x].refs >= HeldBy(g, Living(g), x) + own[x]
    BY <2>1 DEF Solid, Backed
  <2>6. x \in Living(g) <=> g[x].refs > 0
    BY <2>1 DEF Living
  <2> QED
    BY <2>1, <2>2, <2>3, <2>4, <2>5, <2>6
<1> QED
  BY <1>1, <1>2, <1>3

\* Py_DECREF takes one from the count: what has died by that is all that is still to be released.
LEMMA OneLess ==
  ASSUME NEW g, NEW own \in Ledger, NEW own2 \in Ledger, Solid(g, own), NEW a,
         a \in 1 .. Len(g), Spends(own, own2, a)
  PROVE  LET h == [g EXCEPT ![a].refs = @ - 1]
         IN  Falling(h, Died(g, h), own2) /\ SameObjects(g, h)
<1> DEFINE h == [g EXCEPT ![a].refs = @ - 1]
           dead == Died(g, h)
           dom == 1 .. Len(g)
           live == Living(g)
<1>1. /\ g \in Seq(ObjectType) /\ Closed(g) /\ DOMAIN g = dom /\ live \in SUBSET dom
      /\ \A x \in dom :
              /\ x \in Nat /\ x # 0 /\ g[x] \in ObjectType /\ g[x].refs \in Nat /\ own[x] \in Nat
              /\ HeldBy(g, live, x) \in Nat
              /\ g[x].refs >= HeldBy(g, live, x) + own[x]
              /\ x \in live <=> g[x].refs > 0
  BY SolidParts
<1>2. ASSUME NEW x \in dom
      PROVE  /\ HeldBy(g, live, x) \in Nat /\ own2[x] \in Nat /\ One(x, a) \in Nat
             /\ g[x].refs - One(x, a) >= HeldBy(g, live, x) + own2[x]
  <2>1. own2[x] \in Nat /\ own2[x] + One(x, a) <= own[x] /\ One(x, a) \in Nat
    BY <1>1, OneIs, LedgerIs DEF Spends
  <2> HIDE DEF dom, live
  <2> QED
    BY <1>1, <2>1
<1>3. g[a].refs - 1 \in Nat
  <2>1. a \in dom /\ a # 0 /\ One(a, a) = 1
    <3>1. a \in dom /\ a # 0
      BY <1>1
    <3> QED
      BY <3>1, OneIs
  <2> HIDE DEF dom, live
  <2> QED
    BY <1>1, <1>2, <2>1
<1>4. /\ h \in Seq(ObjectType) /\ SameObjects(g, h)
      /\ \A x \in dom : h[x].refs = IF x = a THEN g[a].refs - 1 ELSE g[x].refs
  <2>1. h = SetRefs(g, a, g[a].refs - 1) /\ a \in DOMAIN g
    BY <1>1 DEF SetRefs
  <2> HIDE DEF h, live, dom
  <2>3. PICK m \in Nat : m = g[a].refs - 1
    BY <1>3, <2>1
  <2>4. g \in Seq(ObjectType) /\ DOMAIN g = dom
    BY <1>1
  <2>5. /\ SetRefs(g, a, m) \in Seq(ObjectType) /\ SameObjects(g, SetRefs(g, a, m))
        /\ \A x \in DOMAIN g : SetRefs(g, a, m)[x].refs = IF x = a THEN m ELSE g[x].refs
    BY <2>1, <2>4, RefsWritten
  <2> QED
    BY <2>1, <2>3, <2>4, <2>5
<1> HIDE DEF h
<1>5. Closed(h) /\ DOMAIN h = dom
  <2>1. Closed(h)
    BY <1>1, <1>4, ClosedSame
  <2>2. Len(h) = Len(g)
    BY <1>4 DEF SameObjects
  <2> QED
    BY <1>4, <2>1, <2>2
<1>6. dead \in SUBSET dom /\ \A x \in dom : x \in dead <=> g[x].refs # 0 /\ h[x].refs = 0
  <2> HIDE DEF dom
  <2> QED
    BY <1>1 DEF Died
<1>7. Living(h) \in SUBSET dom /\ \A x \in dom : x \in Living(h) <=> h[x].refs > 0
  <2> HIDE DEF dom
  <2> QED
    BY <1>5 DEF Living
<1>8. ASSUME NEW x \in dom PROVE HeldBy(h, live, x) = HeldBy(g, live, x)
  <2>1. SameItems(g, h, live)
    BY <1>1, <1>4 DEF SameObjects, SameItems
  <2> HIDE DEF live, dom
  <2> QED
    BY <2>1, HeldSame
<1> HIDE DEF dead, dom, live
<1>9. dead \cap Living(h) = {}
  BY <1>6, <1>7
<1>10. ASSUME NEW x \in dom PROVE h[x].refs = g[x].refs - One(x, a) /\ g[x].refs \in Nat
  <2>1. h[x].refs = (IF x = a THEN g[a].refs - 1 ELSE g[x].refs) /\ g[x].refs \in Nat /\ x # 0
    BY <1>1, <1>4
  <2>2. x = a => One(x, a) = 1
    BY <2>1, OneIs
  <2>3. x # a => One(x, a) = 0
    BY OneIs
  <2> QED
    BY <2>1, <2>2, <2>3
<1>11. Living(h) \cup dead = live
  <2>1. ASSUME NEW x \in dom PROVE x \in Living(h) \cup dead <=> x \in live
    <3>1. /\ h[x].refs = g[x].refs - One(x, a) /\ g[x].refs \in Nat /\ One(x, a) \in {0, 1}
          /\ g[x].refs - One(x, a) >= HeldBy(g, live, x) + own2[x]
          /\ HeldBy(g, live, x) \in Nat /\ own2[x] \in Nat
      BY <1>2, <1>10, OneIs
    <3>2. x \in Living(h) <=> h[x].refs > 0
      BY <1>7
    <3>3. x \in dead <=> g[x].refs # 0 /\ h[x].refs = 0
      BY <1>6
    <3>4. x \in live <=> g[x].refs > 0
      BY <1>1
    <3> QED
      BY <3>1, <3>2, <3>3, <3>4
  <2> QED
    BY <1>1, <1>6, <1>7, <2>1
<1>12. Backed(h, Living(h) \cup dead, own2)
  <2> SUFFICES ASSUME NEW x \in dom PROVE h[x].refs >= HeldBy(h, live, x) + own2[x]
    BY <1>5, <1>11 DEF Backed
  <2> QED
    BY <1>2, <1>8, <1>10
<1>13. Falling(h, dead, own2)
  BY <1>4, <1>5, <1>6, <1>9, <1>12 DEF Falling
<1> QED
  BY <1>4, <1>13 DEF h, dead

\* When nothing is left to release the counts are right.
LEMMA FallenSolid ==
  ASSUME NEW heap, NEW dead, NEW own \in Ledger, Falling(heap, dead, own)
  PROVE  Solid(heap, own)
<1>1. heap \in Seq(ObjectType) /\ Closed(heap) /\ dead \in SUBSET (DOMAIN heap)
      /\ Backed(heap, Living(heap) \cup dead, own)
  BY DEF Falling
<1>2. ASSUME NEW x \in DOMAIN heap PROVE heap[x].refs >= HeldBy(heap, Living(heap), x) + own[x]
  <2>1. Living(heap) \in SUBSET (DOMAIN heap) /\ Living(heap) \cup dead \in SUBSET (DOMAIN heap)
        /\ Living(heap) \in SUBSET (Living(heap) \cup dead)
    BY <1>1 DEF Living
  <2>2. HeldBy(heap, Living(heap), x) <= HeldBy(heap, Living(heap) \cup dead, x)
    BY <1>1, <2>1, HoldersFewer
  <2>3. HeldBy(heap, Living(heap), x) \in Nat /\ HeldBy(heap, Living(heap) \cup dead, x) \in Nat
    BY <1>1, <2>1, HoldersFinite
  <2>4. heap[x].refs \in Nat /\ own[x] \in Nat
    <3>1. x \in Nat /\ heap[x] \in ObjectType
      BY <1>1
    <3> QED
      BY <3>1, LedgerIs DEF ObjectType
  <2>5. heap[x].refs >= HeldBy(heap, Living(heap) \cup dead, x) + own[x]
    BY <1>1 DEF Backed
  <2> QED
    BY <2>2, <2>3, <2>4, <2>5
<1> QED
  BY <1>1, <1>2 DEF Solid, Backed

\* Py_DECREF by somebody who owns a reference to a keeps the counts right.
LEMMA DecRefCounted ==
  ASSUME NEW p, NEW own \in Ledger, NEW own2 \in Ledger, Counted(p, own),
         NEW a, a \in 1 .. Len(p.heap), Spends(own, own2, a)
  PROVE  LET q == DecRef(p, a)
         IN  Counted(q, own2) /\ SameObjects(p.heap, q.heap) /\ q.err = p.err /\ q.mem = p.mem
<1> DEFINE n == Len(p.heap)
           heap == [p.heap EXCEPT ![a].refs = @ - 1]
           dead == Died(p.heap, heap)
           fall[i \in Nat] == IF i = 0 THEN [heap |-> heap, dead |-> dead] ELSE Fall(fall[i - 1])
           last == fall[n].heap
           gone == fall[n].dead
           q == DecRef(p, a)
<1>1. p \in Interpreter /\ Solid(p.heap, own) /\ n \in Nat /\ Within(own, n)
  BY CountedParts, SolidParts
<1>2. Falling(heap, dead, own2) /\ SameObjects(p.heap, heap)
  BY <1>1, OneLess
<1>3. q = [p EXCEPT !.heap = SubSeq(last, 1, n)]
  BY DEF DecRef
<1> HIDE DEF heap, dead, n
<1>4. Falling(last, gone, own2) /\ SameObjects(heap, last)
  BY <1>1, <1>2, FallsOver
<1> HIDE DEF fall, last, q, gone
<1>5. SameObjects(p.heap, last)
  BY <1>1, <1>2, <1>4, SameTwice DEF n
<1>6. last \in Seq(ObjectType) /\ Solid(last, own2)
  BY <1>4, FallenSolid DEF Falling
<1>7. SubSeq(last, 1, n) = last
  <2>1. Len(last) = n
    BY <1>5 DEF SameObjects, n
  <2>2. SubSeq(last, 1, Len(last)) = last
    BY <1>6
  <2> QED
    BY <2>1, <2>2
<1>8. q.heap = last /\ q.err = p.err /\ q.mem = p.mem /\ q \in Interpreter
  BY <1>1, <1>3, <1>6, <1>7 DEF Interpreter
<1>9. Within(own2, Len(q.heap))
  <2>1. Len(q.heap) = n
    BY <1>5, <1>8 DEF SameObjects, n
  <2>2. ASSUME NEW x \in Nat, x > n PROVE own2[x] = 0
    <3>1. own[x] = 0 /\ own2[x] \in Nat /\ own2[x] + One(x, a) <= own[x] /\ One(x, a) \in Nat
      BY <1>1, <2>2, LedgerIs, OneIs DEF Spends, Within
    <3> QED
      BY <3>1
  <2> QED
    BY <2>1, <2>2 DEF Within
<1>10. Counted(q, own2)
  BY <1>6, <1>8, <1>9 DEF Counted
<1> QED
  BY <1>5, <1>8, <1>10 DEF q

\* An error holds a number of references.
LEMMA InErrorIs == ASSUME NEW e, NEW x PROVE InError(e, x) \in Nat
BY OneIs DEF InError

\* What is owned besides own.
LEMMA LedgerMore ==
  ASSUME NEW own \in Ledger
  PROVE  /\ \A a : And(own, a) \in Ledger /\ \A x \in Nat : And(own, a)[x] = own[x] + One(x, a)
         /\ \A e : AndError(own, e) \in Ledger /\ \A x \in Nat : AndError(own, e)[x] = own[x] + InError(e, x)
<1>1. ASSUME NEW a PROVE And(own, a) \in Ledger /\ \A x \in Nat : And(own, a)[x] = own[x] + One(x, a)
  <2>1. \A x \in Nat : own[x] + One(x, a) \in Nat
    BY LedgerIs, OneIs
  <2> QED
    BY <2>1 DEF Ledger, And
<1>2. ASSUME NEW e PROVE AndError(own, e) \in Ledger /\ \A x \in Nat : AndError(own, e)[x] = own[x] + InError(e, x)
  <2>1. \A x \in Nat : own[x] + InError(e, x) \in Nat
    BY LedgerIs, InErrorIs
  <2> QED
    BY <2>1 DEF Ledger, AndError
<1> QED
  BY <1>1, <1>2

\* To own less than less is to own less.
LEMMA BelowTwice ==
  ASSUME NEW f \in Ledger, NEW g \in Ledger, NEW h \in Ledger, Below(f, g), Below(g, h)
  PROVE  Below(f, h)
<1> SUFFICES ASSUME NEW x \in Nat PROVE f[x] <= h[x]
  BY DEF Below
<1>1. f[x] \in Nat /\ g[x] \in Nat /\ h[x] \in Nat /\ f[x] <= g[x] /\ g[x] <= h[x]
  BY LedgerIs DEF Below
<1> QED
  BY <1>1

\* A reference that is forgotten leaves its object alive.
LEMMA LessCounted ==
  ASSUME NEW p, NEW own \in Ledger, NEW own2 \in Ledger, Counted(p, own), Below(own2, own)
  PROVE  Counted(p, own2)
<1>1. p \in Interpreter /\ Solid(p.heap, own) /\ Within(own, Len(p.heap)) /\ Len(p.heap) \in Nat
  BY SolidParts DEF Counted
<1> DEFINE heap == p.heap
<1> HIDE DEF heap
<1>2. Solid(heap, own) /\ Within(own, Len(heap)) /\ Len(heap) \in Nat
  BY <1>1 DEF heap
<1>3. heap \in Seq(ObjectType) /\ Closed(heap) /\ DOMAIN heap = 1 .. Len(heap)
  BY <1>2, SolidParts
<1>4. ASSUME NEW x \in 1 .. Len(heap) PROVE heap[x].refs >= HeldBy(heap, Living(heap), x) + own2[x]
  <2>1. /\ x \in Nat /\ heap[x].refs \in Nat /\ own[x] \in Nat /\ HeldBy(heap, Living(heap), x) \in Nat
        /\ heap[x].refs >= HeldBy(heap, Living(heap), x) + own[x]
    BY <1>2, SolidParts
  <2>2. own2[x] <= own[x] /\ own2[x] \in Nat
    BY <2>1, LedgerIs DEF Below
  <2> QED
    BY <2>1, <2>2
<1>5. Solid(heap, own2)
  <2>1. \A x \in DOMAIN heap : heap[x].refs >= HeldBy(heap, Living(heap), x) + own2[x]
    BY <1>3, <1>4
  <2> QED
    BY <1>3, <2>1 DEF Solid, Backed
<1>6. Within(own2, Len(heap))
  <2> SUFFICES ASSUME NEW x \in Nat, x > Len(heap) PROVE own2[x] = 0
    BY DEF Within
  <2>1. own[x] = 0 /\ own2[x] <= own[x] /\ own2[x] \in Nat
    BY <1>2, LedgerIs DEF Within, Below
  <2> QED
    BY <2>1
<1> QED
  BY <1>1, <1>5, <1>6 DEF Counted, heap

\* A heap has grown from itself.
LEMMA GrowsFrom == \A g : Len(g) \in Nat => \A d : Grows(g, g, d)
BY DEF Grows

\* The same objects are a heap that has grown.
LEMMA SameGrows == \A g, h, d : Len(g) \in Nat /\ SameObjects(g, h) => Grows(g, h, d)
BY DEF Grows, SameObjects

\* A heap may grow twice.
LEMMA GrowsOn ==
  ASSUME NEW f, NEW g, NEW h, NEW d, Len(f) \in Nat, Len(g) \in Nat, Len(h) \in Nat,
         Grows(f, g, d), Grows(g, h, d)
  PROVE  Grows(f, h, d)
<1>1. Len(f) <= Len(h)
  BY DEF Grows
<1>2. ASSUME NEW a \in 1 .. Len(f)
      PROVE  h[a].kind = f[a].kind /\ h[a].data = f[a].data /\ (a # d => h[a].items = f[a].items)
  <2>1. a \in 1 .. Len(g)
    BY DEF Grows
  <2> QED
    BY <2>1 DEF Grows
<1> QED
  BY <1>1, <1>2 DEF Grows

\* What is owned is there.
LEMMA OwnedIs ==
  ASSUME NEW p, NEW own \in Ledger, Counted(p, own), NEW x \in Nat, x # 0, own[x] # 0
  PROVE  x \in 1 .. Len(p.heap) /\ x \in Living(p.heap) /\ p.heap[x].refs > 0 /\ p.heap[x] \in ObjectType
<1>1. Solid(p.heap, own) /\ Within(own, Len(p.heap)) /\ Len(p.heap) \in Nat
  BY SolidParts DEF Counted
<1>2. x \in 1 .. Len(p.heap)
  <2>1. ~ (x > Len(p.heap))
    BY <1>1 DEF Within
  <2> QED
    BY <1>1, <2>1
<1>3. /\ p.heap[x].refs \in Nat /\ own[x] \in Nat /\ HeldBy(p.heap, Living(p.heap), x) \in Nat
      /\ p.heap[x].refs >= HeldBy(p.heap, Living(p.heap), x) + own[x]
      /\ x \in Living(p.heap) <=> p.heap[x].refs > 0
      /\ p.heap[x] \in ObjectType
  BY <1>1, <1>2, SolidParts
<1>4. p.heap[x].refs > 0
  BY <1>3
<1> QED
  BY <1>2, <1>3, <1>4

-----------------------------------------------------------------------------
(***************************************************************************)
(* What the calls of CPython do.                                           *)
(***************************************************************************)
\* Py_DECREF by the owner of a reference to a: the reference is spent.
LEMMA Releases ==
  ASSUME NEW p, NEW own \in Ledger, NEW a \in Nat, a # 0, Counted(p, And(own, a))
  PROVE  LET q == DecRef(p, a)
         IN  Counted(q, own) /\ SameObjects(p.heap, q.heap) /\ q.err = p.err /\ q.mem = p.mem
<1>1. And(own, a) \in Ledger /\ \A x \in Nat : And(own, a)[x] = own[x] + One(x, a)
  BY LedgerMore
<1>2. Spends(And(own, a), own, a)
  <2> SUFFICES ASSUME NEW x \in Nat PROVE own[x] + One(x, a) <= And(own, a)[x]
    BY DEF Spends
  <2>1. own[x] \in Nat /\ One(x, a) \in Nat
    BY LedgerIs, OneIs
  <2> QED
    BY <1>1, <2>1
<1>3. a \in 1 .. Len(p.heap)
  <2>1. own[a] \in Nat /\ One(a, a) = 1
    BY LedgerIs, OneIs
  <2> QED
    BY <1>1, <2>1, OwnedIs
<1> QED
  BY <1>1, <1>2, <1>3, DecRefCounted

\* Other counts of the same objects.
LEMMA SolidAgain ==
  ASSUME NEW g, NEW own \in Ledger, NEW own2 \in Ledger, Solid(g, own),
         NEW h, h \in Seq(ObjectType), SameObjects(g, h), Living(h) = Living(g),
         \A x \in 1 .. Len(g) : h[x].refs >= HeldBy(g, Living(g), x) + own2[x]
  PROVE  Solid(h, own2)
<1>1. g \in Seq(ObjectType) /\ Closed(g) /\ Living(g) \in SUBSET (1 .. Len(g)) /\ Len(g) \in Nat
  BY SolidParts
<1>2. Closed(h)
  BY <1>1, ClosedSame
<1>3. Len(h) = Len(g) /\ DOMAIN h = 1 .. Len(g)
  BY <1>1 DEF SameObjects
<1>4. SameItems(g, h, Living(g))
  BY <1>1 DEF SameObjects, SameItems
<1>5. ASSUME NEW x \in DOMAIN h PROVE h[x].refs >= HeldBy(h, Living(h), x) + own2[x]
  <2>1. HeldBy(h, Living(g), x) = HeldBy(g, Living(g), x)
    BY <1>4, HeldSame
  <2> QED
    BY <1>3, <2>1
<1> QED
  BY <1>2, <1>5 DEF Solid, Backed

\* Py_INCREF of an object that is alive: another reference is owned.
LEMMA Retains ==
  ASSUME NEW p, NEW own \in Ledger, Counted(p, own), NEW a \in Nat, a # 0, own[a] # 0
  PROVE  LET q == IncRef(p, a)
         IN  Counted(q, And(own, a)) /\ SameObjects(p.heap, q.heap) /\ q.err = p.err /\ q.mem = p.mem
<1> DEFINE g == p.heap
           h == [g EXCEPT ![a].refs = g[a].refs + 1]
           q == IncRef(p, a)
           dom == 1 .. Len(g)
           live == Living(g)
           own2 == And(own, a)
<1>1. p \in Interpreter /\ Solid(g, own) /\ Within(own, Len(g))
  BY DEF Counted
<1>2. a \in dom /\ a \in live
  BY OwnedIs
<1>3. /\ g \in Seq(ObjectType) /\ DOMAIN g = dom /\ live \in SUBSET dom
      /\ \A x \in dom :
              /\ x \in Nat /\ x # 0 /\ g[x] \in ObjectType /\ g[x].refs \in Nat /\ own[x] \in Nat
              /\ HeldBy(g, live, x) \in Nat
              /\ g[x].refs >= HeldBy(g, live, x) + own[x]
              /\ x \in live <=> g[x].refs > 0
  BY <1>1, SolidParts
<1>4. q = [p EXCEPT !.heap = h]
  BY <1>1 DEF IncRef, Interpreter
<1>5. own2 \in Ledger /\ \A x \in Nat : own2[x] = own[x] + One(x, a)
  BY LedgerMore
<1> HIDE DEF g, dom, live, own2
<1>6. /\ h \in Seq(ObjectType) /\ SameObjects(g, h)
      /\ \A x \in dom : h[x].refs = IF x = a THEN g[a].refs + 1 ELSE g[x].refs
  <2>1. g[a].refs + 1 \in Nat /\ a \in DOMAIN g /\ h = SetRefs(g, a, g[a].refs + 1)
    BY <1>2, <1>3 DEF SetRefs
  <2>2. a \in dom
    BY <1>2
  <2> HIDE DEF h
  <2>3. PICK m \in Nat : m = g[a].refs + 1
    BY <2>1
  <2>4. g \in Seq(ObjectType) /\ DOMAIN g = dom
    BY <1>3
  <2>5. /\ SetRefs(g, a, m) \in Seq(ObjectType) /\ SameObjects(g, SetRefs(g, a, m))
        /\ \A x \in DOMAIN g : SetRefs(g, a, m)[x].refs = IF x = a THEN m ELSE g[x].refs
    BY <2>1, <2>4, RefsWritten
  <2> QED
    BY <2>1, <2>3, <2>4, <2>5

<1> HIDE DEF h, q
<1>7. ASSUME NEW x \in dom
      PROVE  /\ h[x].refs >= HeldBy(g, live, x) + own2[x]
             /\ h[x].refs > 0 <=> g[x].refs > 0
  <2>1. own2[x] = own[x] + One(x, a) /\ (x = a => One(x, a) = 1) /\ (x # a => One(x, a) = 0)
    BY <1>3, <1>5, OneIs
  <2>2. CASE x = a
    BY <1>2, <1>3, <1>6, <2>1, <2>2
  <2>3. CASE x # a
    BY <1>3, <1>6, <2>1, <2>3
  <2> QED
    BY <2>2, <2>3
<1>8. Living(h) = Living(g)
  <2>1. DOMAIN h = dom
    BY <1>6 DEF SameObjects, dom
  <2> QED
    BY <1>3, <1>7, <2>1 DEF Living
<1>9. Solid(h, own2)
  <2>1. \A x \in 1 .. Len(g) : h[x].refs >= HeldBy(g, Living(g), x) + own2[x]
    BY <1>7 DEF dom, live
  <2> QED
    BY <1>1, <1>5, <1>6, <1>8, <2>1, SolidAgain
<1>10. q.heap = h /\ q.err = p.err /\ q.mem = p.mem /\ q \in Interpreter
  BY <1>1, <1>4, <1>6 DEF Interpreter
<1>11. Within(own2, Len(h))
  <2> SUFFICES ASSUME NEW x \in Nat, x > Len(g) PROVE own2[x] = 0
    BY <1>6 DEF Within, SameObjects
  <2>1. own[x] = 0
    BY <1>1 DEF Within
  <2>2. x # a
    BY <1>1, <1>2, SolidParts DEF dom
  <2> QED
    BY <1>5, <2>1, <2>2, OneIs
<1>12. Counted(q, own2)
  BY <1>9, <1>10, <1>11 DEF Counted
<1> QED
  BY <1>6, <1>10, <1>12 DEF q, own2, g

\* An empty container holds nothing.
LEMMA HoldsNothing ==
  ASSUME NEW heap, NEW c, heap[c].items = <<>>, NEW x
  PROVE  HeldBy(heap, {c}, x) = 0
<1>1. ASSUME NEW h \in HoldersIn(heap, {c}, x) PROVE FALSE
  BY HoldersAre
<1>2. HoldersIn(heap, {c}, x) = {}
  BY <1>1
<1> QED
  BY <1>2, FS_EmptySet DEF HeldBy

\* What a list or a tuple of two or three items holds.
LEMMA HoldsThree ==
  ASSUME NEW heap, NEW c, NEW u, NEW v, NEW w, NEW x, x # 0,
         \/ heap[c].items = <<u, v, w>>
         \/ heap[c].items = <<u, v>> /\ w = 0
  PROVE  HeldBy(heap, {c}, x) \in Nat /\ HeldBy(heap, {c}, x) <= One(x, u) + One(x, v) + One(x, w)
<1> DEFINE Of(k, y) == IF x = y THEN {<<c, k>>} ELSE {}
           H == HoldersIn(heap, {c}, x)
<1>1. ASSUME NEW k, NEW y PROVE IsFiniteSet(Of(k, y)) /\ Cardinality(Of(k, y)) = One(x, y)
  <2>1. CASE x = y
    BY <2>1, FS_Singleton, OneIs
  <2>2. CASE x # y
    BY <2>2, FS_EmptySet, OneIs
  <2> QED
    BY <2>1, <2>2
<1>2. H \in SUBSET ((Of(1, u) \cup Of(2, v)) \cup Of(3, w))
  <2> SUFFICES ASSUME NEW h \in H PROVE h \in Of(1, u) \cup Of(2, v) \cup Of(3, w)
    OBVIOUS
  <2>1. h = <<h[1], h[2]>> /\ h[1] = c /\ h[2] \in DOMAIN heap[c].items /\ heap[c].items[h[2]] = x
    BY HoldersAre
  <2>2. \/ h[2] = 1 /\ x = u
        \/ h[2] = 2 /\ x = v
        \/ h[2] = 3 /\ x = w
    BY <2>1
  <2> QED
    BY <2>1, <2>2
<1> HIDE DEF Of, H
<1>3. /\ IsFiniteSet(Of(1, u) \cup Of(2, v)) /\ Cardinality(Of(1, u) \cup Of(2, v)) \in Nat
      /\ Cardinality(Of(1, u) \cup Of(2, v)) <= One(x, u) + One(x, v)
  BY <1>1, AtMostBoth
<1>4. /\ IsFiniteSet((Of(1, u) \cup Of(2, v)) \cup Of(3, w))
      /\ Cardinality((Of(1, u) \cup Of(2, v)) \cup Of(3, w)) <= Cardinality(Of(1, u) \cup Of(2, v)) + One(x, w)
      /\ Cardinality((Of(1, u) \cup Of(2, v)) \cup Of(3, w)) \in Nat
  BY <1>1, <1>3, AtMostBoth
<1>5. Cardinality(H) <= Cardinality((Of(1, u) \cup Of(2, v)) \cup Of(3, w)) /\ Cardinality(H) \in Nat
  BY <1>2, <1>4, FS_Subset, FS_CardinalityType
<1>6. One(x, u) \in Nat /\ One(x, v) \in Nat /\ One(x, w) \in Nat
  BY OneIs
<1>7. HeldBy(heap, {c}, x) = Cardinality(H)
  BY DEF HeldBy, H
<1> QED
  BY <1>3, <1>4, <1>5, <1>6, <1>7

\* It is appended to the heap.
LEMMA Appends ==
  ASSUME NEW g, NEW own \in Ledger, NEW own2 \in Ledger, Solid(g, own), Within(own, Len(g)),
         NEW o, Fits(o, Len(g)), Pays(own, own2, Append(g, o), Len(g) + 1)
  PROVE  LET h == Append(g, o)
         IN  Solid(h, own2) /\ Within(own2, Len(h)) /\ h \in Seq(ObjectType) /\ Len(h) = Len(g) + 1
             /\ h[Len(g) + 1] = o /\ \A x \in 1 .. Len(g) : h[x] = g[x]
<1> USE DEF Fits
<1> DEFINE n == Len(g)
           h == Append(g, o)
           c == n + 1
           dom == 1 .. n
           live == Living(g)
<1>1. /\ g \in Seq(ObjectType) /\ n \in Nat /\ DOMAIN g = dom /\ live \in SUBSET dom /\ Closed(g)
      /\ \A x \in dom :
              /\ x \in Nat /\ x # 0 /\ g[x].refs \in Nat /\ own[x] \in Nat
              /\ HeldBy(g, live, x) \in Nat
              /\ g[x].refs >= HeldBy(g, live, x) + own[x]
              /\ x \in live <=> g[x].refs > 0
  BY SolidParts
<1>2. /\ h \in Seq(ObjectType) /\ Len(h) = c /\ h[c] = o /\ DOMAIN h = 1 .. c
      /\ \A x \in dom : h[x] = g[x]
  BY <1>1
<1>3. c \in Nat /\ c > n /\ c # 0 /\ \A x \in 1 .. c : x \in dom \/ x = c
  BY <1>1
<1> HIDE DEF h
<1>4. Living(h) = live \cup {c} /\ live \cap {c} = {}
  <2>1. \A x \in 1 .. c : x \in Living(h) <=> x \in live \/ x = c
    <3> SUFFICES ASSUME NEW x \in 1 .. c PROVE x \in Living(h) <=> x \in live \/ x = c
      OBVIOUS
    <3>1. x \in Living(h) <=> h[x].refs > 0
      BY <1>2 DEF Living
    <3>2. CASE x = c
      BY <1>2, <3>1, <3>2
    <3>3. CASE x \in dom
      BY <1>1, <1>2, <3>1, <3>3, <1>3
    <3> QED
      BY <1>3, <3>2, <3>3
  <2>2. Living(h) \in SUBSET (1 .. c)
    BY <1>2 DEF Living
  <2>3. live \cup {c} \in SUBSET (1 .. c) /\ live \cap {c} = {}
    BY <1>1, <1>3
  <2> QED
    BY <2>1, <2>2, <2>3
<1>5. Closed(h)
  <2>1. \A a \in 1 .. c : \A k \in DOMAIN h[a].items : h[a].items[k] <= c
    <3> SUFFICES ASSUME NEW a \in 1 .. c, NEW k \in DOMAIN h[a].items PROVE h[a].items[k] <= c
      OBVIOUS
    <3>1. CASE a = c
      <4>1. o.items[k] <= n
        BY <1>2, <3>1
      <4>2. o.items[k] \in Nat
        <5>1. o.items \in ItemsType
          BY DEF ObjectType
        <5> QED
          BY <1>2, <3>1, <5>1 DEF ItemsType
      <4> QED
        BY <1>1, <1>2, <3>1, <4>1, <4>2
    <3>2. CASE a \in dom
      <4>1. h[a] = g[a] /\ g[a] \in ObjectType
        BY <1>1, <1>2, <3>2
      <4>2. g[a].items[k] <= n
        BY <1>1, <3>2, <4>1 DEF Closed
      <4>3. g[a].items[k] \in Nat
        <5>1. g[a].items \in ItemsType
          BY <4>1 DEF ObjectType
        <5> QED
          BY <4>1, <5>1 DEF ItemsType
      <4> QED
        BY <1>1, <4>1, <4>2, <4>3
    <3> QED
      BY <1>3, <3>1, <3>2
  <2>2. PICK keys : IsFiniteSet(keys) /\ \A a \in DOMAIN g : DOMAIN g[a].items \subseteq keys
    BY <1>1 DEF Closed
  <2>3. IsFiniteSet(keys \cup DOMAIN o.items)
    BY <2>2, FS_Union
  <2>4. \A a \in 1 .. c : DOMAIN h[a].items \subseteq keys \cup DOMAIN o.items
    BY <1>1, <1>2, <1>3, <2>2
  <2>5. \A a \in DOMAIN h : \A k \in DOMAIN h[a].items : h[a].items[k] <= Len(h)
    BY <1>2, <2>1
  <2> QED
    BY <1>2, <2>3, <2>4, <2>5 DEF Closed
<1>6. ASSUME NEW x \in dom PROVE HeldBy(h, live, x) = HeldBy(g, live, x)
  <2>1. SameItems(g, h, live)
    BY <1>1, <1>2 DEF SameItems
  <2> QED
    BY <2>1, HeldSame
<1>7. ASSUME NEW x PROVE HeldBy(h, live \cup {c}, x) = HeldBy(h, live, x) + HeldBy(h, {c}, x)
                         /\ HeldBy(h, live, x) \in Nat /\ HeldBy(h, {c}, x) \in Nat
  <2>1. live \in SUBSET (DOMAIN h) /\ {c} \in SUBSET (DOMAIN h)
    BY <1>1, <1>2, <1>3
  <2> QED
    BY <1>2, <1>4, <1>5, <2>1, HoldersSplit, HoldersFinite
<1>8. HeldBy(h, live, c) = 0
  <2>1. ASSUME NEW p \in HoldersIn(h, live, c) PROVE FALSE
    <3>1. p[1] \in live /\ p[2] \in DOMAIN h[p[1]].items /\ h[p[1]].items[p[2]] = c
      BY HoldersAre
    <3>2. h[p[1]] = g[p[1]] /\ p[1] \in DOMAIN g
      BY <1>1, <1>2, <3>1
    <3>3. g[p[1]].items[p[2]] <= n
      BY <1>1, <3>1, <3>2 DEF Closed
    <3> QED
      BY <1>3, <3>1, <3>2, <3>3, <1>1
  <2>2. HoldersIn(h, live, c) = {}
    BY <2>1
  <2> QED
    BY <2>2, FS_EmptySet DEF HeldBy
<1>9. ASSUME NEW x \in Nat PROVE own2[x] + HeldBy(h, {c}, x) <= own[x] + One(x, c) /\ own2[x] \in Nat
  BY LedgerIs DEF h, Pays
<1>10. ASSUME NEW x \in 1 .. c PROVE h[x].refs >= HeldBy(h, Living(h), x) + own2[x]
  <2>1. HeldBy(h, Living(h), x) = HeldBy(h, live, x) + HeldBy(h, {c}, x)
        /\ HeldBy(h, live, x) \in Nat /\ HeldBy(h, {c}, x) \in Nat
    BY <1>4, <1>7
  <2>2. CASE x = c
    <3>1. own[c] = 0 /\ One(c, c) = 1
      BY <1>1, <1>3, OneIs DEF Within
    <3>2. own2[c] + HeldBy(h, {c}, c) <= own[c] + One(c, c) /\ own2[c] \in Nat
      BY <1>3, <1>9
    <3>3. h[c].refs = 1
      BY <1>2
    <3> HIDE DEF c, n, live, dom
    <3> QED
      BY <1>8, <2>1, <2>2, <3>1, <3>2, <3>3
  <2>3. CASE x \in dom
    <3>1. One(x, c) = 0 /\ x \in Nat
      BY <1>1, <1>3, <2>3, OneIs
    <3>2. own2[x] + HeldBy(h, {c}, x) <= own[x] + One(x, c) /\ own2[x] \in Nat
      BY <1>9, <3>1
    <3>3. /\ HeldBy(h, live, x) = HeldBy(g, live, x) /\ h[x] = g[x] /\ own[x] \in Nat
          /\ g[x].refs >= HeldBy(g, live, x) + own[x] /\ g[x].refs \in Nat
      BY <1>1, <1>2, <1>6, <2>3
    <3> HIDE DEF c, n, live, dom
    <3> QED
      BY <2>1, <3>1, <3>2, <3>3
  <2> QED
    BY <1>3, <2>2, <2>3
<1>11. Solid(h, own2)
  BY <1>2, <1>5, <1>10 DEF Solid, Backed
<1>12. Within(own2, Len(h))
  <2> SUFFICES ASSUME NEW x \in Nat, x > c PROVE own2[x] = 0
    BY <1>2 DEF Within
  <2>1. own[x] = 0 /\ One(x, c) = 0
    BY <1>1, <1>3, OneIs DEF Within
  <2>2. HeldBy(h, {c}, x) \in Nat
    BY <1>7
  <2>3. own2[x] + HeldBy(h, {c}, x) <= own[x] + One(x, c) /\ own2[x] \in Nat
    BY <1>9
  <2> HIDE DEF c
  <2> QED
    BY <2>1, <2>2, <2>3
<1> QED
  BY <1>2, <1>11, <1>12 DEF h

\* A new container may be empty.
LEMMA EmptyItems == <<>> \in ItemsType /\ DOMAIN <<>> = {} /\ IsFiniteSet({})
<1>1. <<>> \in [{} -> Nat] /\ {} \in SUBSET (Keys \cup Nat)
  OBVIOUS
<1> QED
  BY <1>1, FS_EmptySet DEF ItemsType

\* A new object is the last of the heap.
LEMMA NewAppends ==
  ASSUME NEW p, p \in Interpreter, NEW kind, NEW items, NEW data
  PROVE  LET q == New(p, kind, items, data)
         IN  q.heap = Append(p.heap, Object(kind, items, data)) /\ q.err = p.err /\ q.mem = p.mem
             /\ (q.heap \in Seq(ObjectType) => q \in Interpreter)
BY DEF New, Interpreter

\* A new object that holds nothing: its maker owns it.
LEMMA Adds ==
  ASSUME NEW p, NEW own \in Ledger, Counted(p, own), NEW kind \in Kinds, NEW data \in DataOf
  PROVE  LET q == New(p, kind, <<>>, data)
         IN  /\ Counted(q, And(own, Len(p.heap) + 1)) /\ Grows(p.heap, q.heap, 0)
             /\ q.err = p.err /\ q.mem = p.mem
             /\ Newest(q) = Len(p.heap) + 1 /\ Newest(q) # 0 /\ Newest(q) \in Nat
             /\ q.heap[Len(p.heap) + 1].kind = kind /\ q.heap[Len(p.heap) + 1].data = data
<1> DEFINE g == p.heap
           o == Object(kind, <<>>, data)
           n == Len(g)
           q == New(p, kind, <<>>, data)
           own2 == And(own, n + 1)
<1>1. p \in Interpreter /\ Solid(g, own) /\ Within(own, n) /\ n \in Nat /\ g \in Seq(ObjectType)
  BY SolidParts DEF Counted
<1>2. q.heap = Append(g, o) /\ q.err = p.err /\ q.mem = p.mem /\ (q.heap \in Seq(ObjectType) => q \in Interpreter)
  BY <1>1, NewAppends
<1>3. o \in ObjectType /\ o.refs = 1 /\ o.items = <<>> /\ o.kind = kind /\ o.data = data
  BY EmptyItems DEF Object, ObjectType
<1>4. own2 \in Ledger /\ \A x \in Nat : own2[x] = own[x] + One(x, n + 1)
  BY LedgerMore
<1> HIDE DEF g, q, own2, o
<1>5. Append(g, o)[n + 1] = o
  BY <1>1, <1>3
<1>6. ASSUME NEW x \in Nat PROVE own2[x] + HeldBy(Append(g, o), {n + 1}, x) <= own[x] + One(x, n + 1)
  <2>1. HeldBy(Append(g, o), {n + 1}, x) = 0
    BY <1>3, <1>5, HoldsNothing
  <2>2. own2[x] = own[x] + One(x, n + 1) /\ own[x] \in Nat /\ One(x, n + 1) \in Nat
    BY <1>4, LedgerIs, OneIs
  <2> QED
    BY <2>1, <2>2
<1>7. IsFiniteSet(DOMAIN o.items) /\ \A k \in DOMAIN o.items : o.items[k] <= n
  BY <1>3, EmptyItems
<1>20. Fits(o, n) /\ Pays(own, own2, Append(g, o), n + 1)
  BY <1>3, <1>6, <1>7 DEF Fits, Pays
<1>8. /\ Solid(q.heap, own2) /\ Within(own2, Len(q.heap)) /\ q.heap \in Seq(ObjectType) /\ Len(q.heap) = n + 1
      /\ q.heap[n + 1] = o /\ \A x \in 1 .. n : q.heap[x] = g[x]
  BY <1>1, <1>2, <1>4, <1>20, Appends
<1>9. Counted(q, own2)
  BY <1>2, <1>8 DEF Counted
<1>10. Grows(g, q.heap, 0)
  BY <1>1, <1>8 DEF Grows
<1> QED
  BY <1>1, <1>2, <1>3, <1>8, <1>9, <1>10 DEF g, q, own2, Newest

\* A new list or tuple steals the references to its items.
LEMMA AddsHolding ==
  ASSUME NEW p, NEW own \in Ledger, NEW own2 \in Ledger, Counted(p, own), NEW kind \in Kinds,
         NEW u \in Nat, NEW v \in Nat, NEW w \in Nat,
         u <= Len(p.heap), v <= Len(p.heap), w <= Len(p.heap),
         NEW items, items = <<u, v, w>> \/ (items = <<u, v>> /\ w = 0),
         PaysFor(own, own2, u, v, w, Len(p.heap) + 1)
  PROVE  LET q == New(p, kind, items, NoData)
         IN  /\ Counted(q, own2) /\ Grows(p.heap, q.heap, 0)
             /\ q.err = p.err /\ q.mem = p.mem /\ Newest(q) = Len(p.heap) + 1 /\ Newest(q) \in Nat
             /\ q.heap[Len(p.heap) + 1].kind = kind
<1> DEFINE g == p.heap
           o == Object(kind, items, NoData)
           n == Len(g)
           q == New(p, kind, items, NoData)
           add(x) == One(x, u) + One(x, v) + One(x, w)
<1>1. p \in Interpreter /\ Solid(g, own) /\ Within(own, n) /\ n \in Nat /\ g \in Seq(ObjectType)
  BY SolidParts DEF Counted
<1>2. q.heap = Append(g, o) /\ q.err = p.err /\ q.mem = p.mem /\ (q.heap \in Seq(ObjectType) => q \in Interpreter)
  BY <1>1, NewAppends
<1>3. o \in ObjectType /\ o.refs = 1 /\ o.items = items /\ o.kind = kind
  <2>1. items \in [1 .. 3 -> Nat] \/ items \in [1 .. 2 -> Nat]
    OBVIOUS
  <2>2. 1 .. 3 \in SUBSET (Keys \cup Nat) /\ 1 .. 2 \in SUBSET (Keys \cup Nat)
    OBVIOUS
  <2>3. items \in ItemsType
    BY <2>1, <2>2 DEF ItemsType
  <2>4. NoData \in DataOf
    BY DEF NoData, DataOf
  <2> QED
    BY <2>3, <2>4 DEF Object, ObjectType
<1>4. IsFiniteSet(DOMAIN o.items) /\ \A k \in DOMAIN o.items : o.items[k] <= n
  <2>1. (DOMAIN items = 1 .. 3 \/ DOMAIN items = 1 .. 2) /\ \A k \in DOMAIN items : items[k] <= n
    OBVIOUS
  <2>2. IsFiniteSet(1 .. 3) /\ IsFiniteSet(1 .. 2)
    <3>1. 1 \in Int /\ 2 \in Int /\ 3 \in Int
      OBVIOUS
    <3> QED
      BY <3>1, FS_Interval, Zenon
  <2> HIDE DEF o
  <2> QED
    BY <1>3, <2>1, <2>2
<1> HIDE DEF g, q, o
<1>5. Append(g, o)[n + 1] = o
  BY <1>1, <1>3
<1>6. ASSUME NEW x \in Nat PROVE own2[x] + HeldBy(Append(g, o), {n + 1}, x) <= own[x] + One(x, n + 1)
  <2>1. own2[x] + add(x) <= own[x] + One(x, n + 1) /\ add(x) \in Nat
        /\ own2[x] \in Nat /\ own[x] \in Nat /\ One(x, n + 1) \in Nat
    <3>1. own2[x] + add(x) <= own[x] + One(x, n + 1)
      BY DEF g, PaysFor
    <3>2. own2[x] \in Nat /\ own[x] \in Nat
      BY LedgerIs
    <3>3. add(x) \in Nat /\ One(x, n + 1) \in Nat
      BY OneIs
    <3> QED
      BY <3>1, <3>2, <3>3
  <2>2. CASE x # 0
    <3>1. HeldBy(Append(g, o), {n + 1}, x) \in Nat /\ HeldBy(Append(g, o), {n + 1}, x) <= add(x)
      BY <1>3, <1>5, <2>2, HoldsThree
    <3> HIDE DEF add
    <3> QED
      BY <2>1, <3>1
  <2>3. CASE x = 0
    <3>1. HoldersIn(Append(g, o), {n + 1}, 0) = {}
      BY HoldersAre DEF Null
    <3>2. HeldBy(Append(g, o), {n + 1}, 0) = 0
      BY <3>1, FS_EmptySet DEF HeldBy
    <3> HIDE DEF add
    <3> QED
      BY <2>1, <2>3, <3>2
  <2> QED
    BY <2>2, <2>3
<1>20. Fits(o, n) /\ Pays(own, own2, Append(g, o), n + 1)
  BY <1>3, <1>4, <1>6 DEF Fits, Pays
<1>7. /\ Solid(q.heap, own2) /\ Within(own2, Len(q.heap)) /\ q.heap \in Seq(ObjectType) /\ Len(q.heap) = n + 1
      /\ q.heap[n + 1] = o /\ \A x \in 1 .. n : q.heap[x] = g[x]
  BY <1>1, <1>2, <1>20, Appends
<1>8. Counted(q, own2)
  BY <1>2, <1>7 DEF Counted
<1>9. Grows(g, q.heap, 0)
  BY <1>1, <1>7 DEF Grows
<1> QED
  BY <1>1, <1>2, <1>3, <1>7, <1>8, <1>9 DEF g, q, Newest

\* A dictionary in which key is bound.
LEMMA WithIs ==
  ASSUME NEW items, items \in ItemsType, NEW key \in Keys, NEW v \in Nat
  PROVE  /\ With(items, key, v) \in ItemsType
         /\ DOMAIN With(items, key, v) = DOMAIN items \cup {key} /\ With(items, key, v)[key] = v
         /\ \A k : k # key => (k \in DOMAIN With(items, key, v) <=> k \in DOMAIN items)
         /\ \A k \in DOMAIN items : k # key => With(items, key, v)[k] = items[k]
<1> DEFINE w == With(items, key, v)
<1>1. PICK D \in SUBSET (Keys \cup Nat) : items \in [D -> Nat]
  BY DEF ItemsType
<1>2. DOMAIN items = D /\ w = [k \in D \cup {key} |-> IF k = key THEN v ELSE items[k]]
  BY <1>1 DEF With
<1>3. w \in [D \cup {key} -> Nat] /\ D \cup {key} \in SUBSET (Keys \cup Nat)
  BY <1>1, <1>2
<1>4. w \in ItemsType
  BY <1>3 DEF ItemsType
<1> QED
  BY <1>2, <1>4

\* Only what d holds is other.
LEMMA ItemsWritten ==
  ASSUME NEW g, g \in Seq(ObjectType), NEW d, d \in DOMAIN g, NEW items, items \in ItemsType
  PROVE  /\ SetItems(g, d, items) \in Seq(ObjectType) /\ Len(SetItems(g, d, items)) = Len(g)
         /\ DOMAIN SetItems(g, d, items) = DOMAIN g
         /\ SetItems(g, d, items)[d].items = items
         /\ \A x \in DOMAIN g :
              /\ SetItems(g, d, items)[x].kind = g[x].kind /\ SetItems(g, d, items)[x].data = g[x].data
              /\ SetItems(g, d, items)[x].refs = g[x].refs
              /\ x # d => SetItems(g, d, items)[x].items = g[x].items
<1> DEFINE h == SetItems(g, d, items)
<1>1. DOMAIN g = 1 .. Len(g) /\ Len(g) \in Nat
  OBVIOUS
<1>2. ASSUME NEW x \in DOMAIN g
      PROVE  h[x] = IF x = d THEN [g[d] EXCEPT !.items = items] ELSE g[x]
  BY DEF SetItems
<1>3. g[d] \in ObjectType /\ \A x \in DOMAIN g : g[x] \in ObjectType
  OBVIOUS
<1>4. /\ [g[d] EXCEPT !.items = items] \in ObjectType
      /\ [g[d] EXCEPT !.items = items].items = items
      /\ [g[d] EXCEPT !.items = items].kind = g[d].kind
      /\ [g[d] EXCEPT !.items = items].data = g[d].data
      /\ [g[d] EXCEPT !.items = items].refs = g[d].refs
  BY <1>3 DEF ObjectType
<1>5. DOMAIN h = 1 .. Len(g) /\ h = [x \in 1 .. Len(g) |-> h[x]]
  BY <1>1 DEF SetItems
<1> HIDE DEF h
<1>6. h \in [1 .. Len(g) -> ObjectType]
  <2>1. \A x \in 1 .. Len(g) : h[x] \in ObjectType
    BY <1>1, <1>2, <1>3, <1>4
  <2> QED
    BY <1>5, <2>1
<1>7. h \in Seq(ObjectType) /\ Len(h) = Len(g)
  BY <1>1, <1>6, FunctionIsSeq
<1>8. /\ h[d].items = items
      /\ \A x \in DOMAIN g :
              /\ h[x].kind = g[x].kind /\ h[x].data = g[x].data
              /\ h[x].refs = g[x].refs
              /\ x # d => h[x].items = g[x].items
  BY <1>2, <1>4
<1> QED
  BY <1>1, <1>5, <1>7, <1>8 DEF h

\* Where one item is replaced, one holder is lost and one is won.
LEMMA OneItemMoves ==
  ASSUME NEW g, NEW h, NEW cs, NEW d, NEW key, NEW old, NEW v, ItemMoves(g, h, cs, d, key, old, v),
         NEW x, x # 0, IsFiniteSet(HoldersIn(g, cs, x)), IsFiniteSet(HoldersIn(h, cs, x))
  PROVE  Balanced(g, h, cs, old, v, x)
<1> DEFINE A == HoldersIn(g, cs, x)
           B == HoldersIn(h, cs, x)
           e == <<d, key>>
<1> USE DEF ItemMoves
<1>1. e \in A <=> x = old
  BY HoldersAre DEF Null
<1>2. e \in B <=> x = v
  BY HoldersAre DEF Null
<1>3. A \ {e} = B \ {e}
  <2>1. ASSUME NEW c, NEW k, <<c, k>> # e PROVE <<c, k>> \in A <=> <<c, k>> \in B
    <3>1. CASE c # d
      BY <3>1, HoldersAre
    <3>2. CASE c = d
      <4>1. k # key
        BY <2>1, <3>2
      <4> QED
        BY <3>2, <4>1, HoldersAre
    <3> QED
      BY <3>1, <3>2
  <2>2. \A p \in A : p = <<p[1], p[2]>>
    BY HoldersAre
  <2>3. \A p \in B : p = <<p[1], p[2]>>
    BY HoldersAre
  <2> HIDE DEF A, B, e
  <2>4. ASSUME NEW p \in A \ {e} PROVE p \in B \ {e}
    BY <2>1, <2>2
  <2>5. ASSUME NEW p \in B \ {e} PROVE p \in A \ {e}
    BY <2>1, <2>3
  <2> QED
    BY <2>4, <2>5
<1>4. IsFiniteSet(A) /\ IsFiniteSet(B)
  OBVIOUS
<1> HIDE DEF A, B, e, ItemMoves
<1>8. One(x, old) = (IF e \in A THEN 1 ELSE 0) /\ One(x, v) = (IF e \in B THEN 1 ELSE 0)
  <2>1. (x = old => One(x, old) = 1) /\ (x # old => One(x, old) = 0)
        /\ (x = v => One(x, v) = 1) /\ (x # v => One(x, v) = 0)
    BY OneIs
  <2> QED
    BY <1>1, <1>2, <2>1
<1>9. Cardinality(B) + One(x, old) = Cardinality(A) + One(x, v)
  BY <1>3, <1>4, <1>8, AllButOne
<1> QED
  BY <1>9 DEF HeldBy, A, B, Balanced

\* The token of the new value becomes one of the old.
LEMMA ItemBecomes ==
  ASSUME NEW g, NEW own \in Ledger, NEW d \in Nat, NEW v \in Nat, NEW key \in Keys,
         Solid(g, And(own, v)), d \in Living(g), v # 0, v <= Len(g)
  PROVE  LET h == SetItems(g, d, With(g[d].items, key, v))
         IN  Solid(h, And(own, Item(g, d, key))) /\ h \in Seq(ObjectType) /\ Len(h) = Len(g)
             /\ Grows(g, h, d) /\ Item(h, d, key) = v
             /\ (\A k : k # key => Item(h, d, k) = Item(g, d, k))
             /\ Item(g, d, key) \in Nat /\ Item(g, d, key) <= Len(g)
<1> DEFINE items == With(g[d].items, key, v)
           h == SetItems(g, d, items)
           old == Item(g, d, key)
           dom == 1 .. Len(g)
           live == Living(g)
           own1 == And(own, v)
           own2 == And(own, old)
<1>1. own1 \in Ledger /\ own2 \in Ledger /\ \A x \in Nat : own1[x] = own[x] + One(x, v)
          /\ own2[x] = own[x] + One(x, old)
  BY LedgerMore
<1> HIDE DEF own1, own2
<1>2. /\ g \in Seq(ObjectType) /\ Closed(g) /\ DOMAIN g = dom /\ live \in SUBSET dom
      /\ \A x \in dom :
              /\ x \in Nat /\ x # 0 /\ g[x] \in ObjectType /\ g[x].refs \in Nat
              /\ HeldBy(g, live, x) \in Nat
              /\ g[x].refs >= HeldBy(g, live, x) + own1[x]
              /\ x \in live <=> g[x].refs > 0
  BY <1>1, SolidParts DEF own1
<1>3. d \in dom /\ d \in DOMAIN g /\ g[d].items \in ItemsType
  <2>1. d \in dom
    BY <1>2
  <2> QED
    BY <1>2, <2>1 DEF ObjectType
<1>4. /\ items \in ItemsType
      /\ DOMAIN items = DOMAIN g[d].items \cup {key} /\ items[key] = v
      /\ \A k : k # key => (k \in DOMAIN items <=> k \in DOMAIN g[d].items)
      /\ \A k \in DOMAIN g[d].items : k # key => items[k] = g[d].items[k]
  BY <1>3, WithIs
<1> HIDE DEF items
<1>5. /\ h \in Seq(ObjectType) /\ Len(h) = Len(g) /\ DOMAIN h = DOMAIN g /\ h[d].items = items
      /\ \A x \in DOMAIN g :
              /\ h[x].kind = g[x].kind /\ h[x].data = g[x].data /\ h[x].refs = g[x].refs
              /\ x # d => h[x].items = g[x].items
  <2>1. g \in Seq(ObjectType) /\ d \in DOMAIN g /\ items \in ItemsType
    BY <1>2, <1>3, <1>4
  <2> QED
    BY <2>1, ItemsWritten
<1> HIDE DEF h
<1>6. Living(h) = live
  BY <1>5 DEF Living
<1>7. Grows(g, h, d)
  <2>1. Len(g) <= Len(h)
    <3>1. Len(g) \in Nat
      BY <1>2
    <3> QED
      BY <1>5, <3>1
  <2> QED
    BY <1>2, <1>5, <2>1 DEF Grows
<1>8. Closed(h)
  <2>1. ASSUME NEW a \in DOMAIN h, NEW k \in DOMAIN h[a].items PROVE h[a].items[k] <= Len(h)
    <3>1. CASE a # d
      BY <1>2, <1>5, <3>1 DEF Closed
    <3>2. CASE a = d
      <4>1. CASE k = key
        BY <1>4, <1>5, <3>2, <4>1
      <4>2. CASE k # key
        <5>1. k \in DOMAIN g[d].items /\ h[a].items[k] = g[d].items[k]
          BY <1>4, <1>5, <3>2, <4>2
        <5> QED
          BY <1>2, <1>3, <1>5, <5>1 DEF Closed
      <4> QED
        BY <4>1, <4>2
    <3> QED
      BY <3>1, <3>2
  <2>2. PICK keys : IsFiniteSet(keys) /\ \A a \in DOMAIN g : DOMAIN g[a].items \subseteq keys
    BY <1>2 DEF Closed
  <2>3. IsFiniteSet(keys \cup {key})
    BY <2>2, FS_AddElement
  <2>4. \A a \in DOMAIN h : DOMAIN h[a].items \subseteq keys \cup {key}
    BY <1>4, <1>5, <2>2
  <2> QED
    BY <2>1, <2>3, <2>4 DEF Closed
<1>9. ASSUME NEW x \in dom
      PROVE  HeldBy(h, live, x) + One(x, old) = HeldBy(g, live, x) + One(x, v) /\ HeldBy(h, live, x) \in Nat
  <2>1. IsFiniteSet(HoldersIn(g, live, x)) /\ IsFiniteSet(HoldersIn(h, live, x)) /\ HeldBy(h, live, x) \in Nat
    <3>1. live \in SUBSET (DOMAIN g) /\ live \in SUBSET (DOMAIN h)
      BY <1>2, <1>5
    <3> QED
      BY <1>2, <1>5, <1>8, <3>1, HoldersFinite
  <2>2. \A c \in live : c # d => h[c].items = g[c].items
    BY <1>2, <1>5
  <2>3. old = IF key \in DOMAIN g[d].items THEN g[d].items[key] ELSE 0
    BY DEF Item, Null
  <2>4. /\ key \in DOMAIN h[d].items /\ h[d].items[key] = v
        /\ \A k : k # key => (k \in DOMAIN h[d].items <=> k \in DOMAIN g[d].items)
        /\ \A k \in DOMAIN g[d].items : k # key => h[d].items[k] = g[d].items[k]
    BY <1>4, <1>5
  <2>5. x # 0 /\ d \in live
    BY <1>2
  <2> HIDE DEF live, old, dom
  <2>6. ItemMoves(g, h, live, d, key, old, v)
    BY <2>2, <2>3, <2>4, <2>5 DEF ItemMoves
  <2>7. Balanced(g, h, live, old, v, x)
    BY <2>1, <2>5, <2>6, OneItemMoves
  <2> QED
    BY <2>1, <2>7 DEF Balanced
<1>10. ASSUME NEW x \in dom PROVE h[x].refs >= HeldBy(h, live, x) + own2[x]
  <2>1. /\ h[x].refs = g[x].refs /\ g[x].refs \in Nat /\ HeldBy(g, live, x) \in Nat
        /\ g[x].refs >= HeldBy(g, live, x) + own1[x] /\ x \in Nat
    BY <1>2, <1>5
  <2>2. own1[x] = own[x] + One(x, v) /\ own2[x] = own[x] + One(x, old) /\ own[x] \in Nat
        /\ One(x, v) \in Nat /\ One(x, old) \in Nat
    BY <1>1, <2>1, LedgerIs, OneIs
  <2>3. HeldBy(h, live, x) + One(x, old) = HeldBy(g, live, x) + One(x, v) /\ HeldBy(h, live, x) \in Nat
    BY <1>9
  <2> HIDE DEF live, old, dom
  <2> QED
    BY <2>1, <2>2, <2>3
<1>11. Solid(h, own2)
  BY <1>2, <1>5, <1>6, <1>8, <1>10 DEF Solid, Backed
<1>12. Item(h, d, key) = v /\ \A k : k # key => Item(h, d, k) = Item(g, d, k)
  BY <1>4, <1>5 DEF Item
<1>13. old \in Nat /\ old <= Len(g)
  <2>1. old \in Nat
    BY <1>3 DEF Item, Null, ItemsType
  <2>2. Len(g) \in Nat
    BY <1>2
  <2> QED
    BY <1>2, <1>3, <2>1, <2>2 DEF Item, Null, Closed
<1> QED
  BY <1>5, <1>7, <1>11, <1>12, <1>13 DEF h, items, own2

\* PyDict_SetItemString: the dictionary holds the new value, and releases the old one.
LEMMA Sets ==
  ASSUME NEW p, NEW own \in Ledger, Counted(p, own), NEW d \in Nat, NEW v \in Nat, NEW key \in Keys,
         d # 0, own[d] # 0, v # 0, own[v] # 0
  PROVE  LET q == SetItem(p, d, key, v)
         IN  /\ Counted(q, own) /\ Grows(p.heap, q.heap, d) /\ q.err = p.err /\ q.mem = p.mem
             /\ Len(q.heap) = Len(p.heap) /\ Item(q.heap, d, key) = v
             /\ \A k : k # key => Item(q.heap, d, k) = Item(p.heap, d, k)
<1> DEFINE old == GetItem(p, d, key)
           r == IncRef(p, v)
           h == SetItems(r.heap, d, With(r.heap[d].items, key, v))
           s == [r EXCEPT !.heap[d].items = With(@, key, v)]
           q == SetItem(p, d, key, v)
<1>1. Counted(r, And(own, v)) /\ SameObjects(p.heap, r.heap) /\ r.err = p.err /\ r.mem = p.mem
  BY Retains
<1>2. And(own, v) \in Ledger /\ And(own, old) \in Ledger /\ \A x \in Nat : And(own, v)[x] = own[x] + One(x, v)
  BY LedgerMore
<1>3. /\ d \in 1 .. Len(p.heap) /\ v \in 1 .. Len(p.heap) /\ Len(p.heap) \in Nat /\ Len(r.heap) = Len(p.heap)
      /\ p.heap \in Seq(ObjectType)
  BY <1>1, OwnedIs, CountedParts DEF SameObjects
<1>4. d \in Living(r.heap)
  <2>1. own[d] \in Nat /\ One(d, v) \in Nat
    BY LedgerIs, OneIs
  <2>2. And(own, v)[d] # 0
    BY <1>2, <2>1
  <2> QED
    BY <1>1, <1>2, <2>2, OwnedIs
<1>5. old = Item(r.heap, d, key) /\ q = (IF old = Null THEN s ELSE DecRef(s, old))
      /\ \A k : Item(r.heap, d, k) = Item(p.heap, d, k)
  BY <1>1, <1>3 DEF SetItem, GetItem, Item, SameObjects
<1>6. r \in Interpreter /\ Solid(r.heap, And(own, v)) /\ Within(And(own, v), Len(r.heap))
  BY <1>1 DEF Counted
<1>7. s = [r EXCEPT !.heap = h]
  BY <1>6 DEF SetItems, Interpreter
<1> HIDE DEF r
<1>8. /\ Solid(h, And(own, Item(r.heap, d, key))) /\ h \in Seq(ObjectType) /\ Len(h) = Len(r.heap)
      /\ Grows(r.heap, h, d) /\ Item(h, d, key) = v
      /\ (\A k : k # key => Item(h, d, k) = Item(r.heap, d, k))
      /\ Item(r.heap, d, key) \in Nat /\ Item(r.heap, d, key) <= Len(r.heap)
  <2>1. v <= Len(r.heap)
    BY <1>3
  <2> HIDE DEF h
  <2> QED
    BY <1>4, <1>6, <2>1, ItemBecomes DEF h
<1> HIDE DEF h, s, q, old
<1>9. s.heap = h /\ s.err = r.err /\ s.mem = r.mem /\ s \in Interpreter
  BY <1>6, <1>7, <1>8 DEF Interpreter
<1>10. Grows(p.heap, h, d)
  BY <1>1, <1>3, <1>8, SameGrows, GrowsOn
<1>11. old \in Nat /\ old <= Len(p.heap) /\ Len(h) = Len(p.heap)
  BY <1>3, <1>5, <1>8
<1>12. Counted(s, And(own, old))
  <2>1. Within(And(own, old), Len(h))
    <3> SUFFICES ASSUME NEW x \in Nat, x > Len(p.heap) PROVE And(own, old)[x] = 0
      BY <1>11 DEF Within
    <3>1. own[x] = 0
      <4>1. Within(own, Len(p.heap))
        BY DEF Counted
      <4> QED
        BY <4>1 DEF Within
    <3>2. One(x, old) = 0
      <4>1. x # old
        BY <1>3, <1>11
      <4> QED
        BY <4>1, OneIs
    <3>3. And(own, old)[x] = own[x] + One(x, old)
      BY LedgerMore
    <3> QED
      BY <3>1, <3>2, <3>3
  <2> QED
    BY <1>5, <1>8, <1>9, <2>1 DEF Counted
<1>13. CASE old = Null
  <2>1. Below(own, And(own, old))
    <3>1. \A x \in Nat : And(own, old)[x] = own[x] + One(x, old) /\ own[x] \in Nat /\ One(x, old) \in Nat
      BY LedgerMore, LedgerIs, OneIs
    <3>2. \A x \in Nat : own[x] <= And(own, old)[x]
      BY <3>1
    <3> QED
      BY <3>2 DEF Below
  <2>2. Counted(s, own)
    BY <1>2, <1>12, <2>1, LessCounted
  <2>3. q = s
    BY <1>5, <1>13
  <2> QED
    BY <1>1, <1>5, <1>8, <1>9, <1>10, <1>11, <2>2, <2>3 DEF q
<1>14. CASE old # Null
  <2>1. q = DecRef(s, old) /\ old # 0
    BY <1>5, <1>14 DEF Null
  <2>2. Counted(q, own) /\ SameObjects(h, q.heap) /\ q.err = s.err /\ q.mem = s.mem
    BY <1>9, <1>11, <1>12, <2>1, Releases
  <2>3. Len(q.heap) = Len(h) /\ Grows(p.heap, q.heap, d)
    <3>1. Len(q.heap) = Len(h) /\ Len(h) \in Nat
      BY <1>3, <1>11, <2>2 DEF SameObjects
    <3>2. Grows(h, q.heap, d)
      BY <2>2, <3>1, SameGrows
    <3> QED
      BY <1>3, <1>10, <3>1, <3>2, GrowsOn
  <2>4. \A k : Item(q.heap, d, k) = Item(h, d, k)
    <3>1. d \in 1 .. Len(h)
      BY <1>3, <1>11
    <3> QED
      BY <2>2, <3>1 DEF Item, SameObjects
  <2> QED
    BY <1>1, <1>5, <1>8, <1>9, <1>11, <2>2, <2>3, <2>4 DEF q
<1> QED
  BY <1>13, <1>14

\* Keys may be bound one after another.
LEMMA RewritesOn ==
  ASSUME NEW f, NEW g, NEW h, NEW d, NEW ks, NEW ls, Len(f) \in Nat, Len(g) \in Nat, Len(h) \in Nat,
         Rewrites(f, g, d, ks), Rewrites(g, h, d, ls)
  PROVE  Rewrites(f, h, d, ks \cup ls)
<1>1. Grows(f, h, d)
  BY GrowsOn DEF Rewrites
<1>2. \A k : k \notin ks \cup ls => Item(h, d, k) = Item(f, d, k)
  BY DEF Rewrites
<1> QED
  BY <1>1, <1>2 DEF Rewrites

\* A heap that only grows has no key bound otherwise.
LEMMA GrowsRewrites ==
  ASSUME NEW g, NEW h, Len(g) \in Nat, NEW d, d \in 1 .. Len(g), Grows(g, h, 0)
  PROVE  Rewrites(g, h, d, {})
<1>1. h[d].items = g[d].items
  BY DEF Grows
<1>2. \A k : Item(h, d, k) = Item(g, d, k)
  BY <1>1 DEF Item
<1>3. Grows(g, h, d)
  BY DEF Grows
<1> QED
  BY <1>2, <1>3 DEF Rewrites

\* The same objects have no key bound otherwise.
LEMMA SameRewrites ==
  ASSUME NEW g, NEW h, Len(g) \in Nat, NEW d, d \in 1 .. Len(g), SameObjects(g, h)
  PROVE  Rewrites(g, h, d, {})
BY SameGrows, GrowsRewrites

\* The heap is as long as a sequence is.
LEMMA CountedLen == \A p, own : Counted(p, own) => Len(p.heap) \in Nat
BY DEF Counted, Interpreter

\* A new object is given to a variable.
LEMMA BindsNew ==
  ASSUME NEW q, NEW own \in Ledger, NEW d \in Nat, NEW v \in Nat, NEW key \in Keys,
         v # 0, d # 0, Counted(q, And(own, v)), own[d] # 0
  PROVE  LET r == DecRef(SetItem(q, d, key, v), v)
         IN  /\ Counted(r, own) /\ Rewrites(q.heap, r.heap, d, {key}) /\ r.err = q.err /\ r.mem = q.mem
             /\ Item(r.heap, d, key) = v /\ r.heap[v].data = q.heap[v].data /\ v \in 1 .. Len(q.heap)
<1> DEFINE s == SetItem(q, d, key, v)
           r == DecRef(s, v)
<1>1. And(own, v) \in Ledger /\ \A x \in Nat : And(own, v)[x] = own[x] + One(x, v) /\ own[x] \in Nat
                                               /\ One(x, v) \in Nat
  BY LedgerMore, LedgerIs, OneIs
<1>2. And(own, v)[d] # 0 /\ And(own, v)[v] # 0
  <2>1. One(v, v) = 1
    BY OneIs
  <2> QED
    BY <1>1, <2>1
<1>3. /\ Counted(s, And(own, v)) /\ Grows(q.heap, s.heap, d) /\ s.err = q.err /\ s.mem = q.mem
      /\ Item(s.heap, d, key) = v /\ \A k : k # key => Item(s.heap, d, k) = Item(q.heap, d, k)
      /\ Len(s.heap) = Len(q.heap)
  <2>1. PICK own1 \in Ledger : own1 = And(own, v)
    BY <1>1
  <2>2. Counted(q, own1) /\ own1[d] # 0 /\ own1[v] # 0
    BY <1>2, <2>1
  <2>3. Counted(s, own1) /\ Grows(q.heap, s.heap, d) /\ s.err = q.err /\ s.mem = q.mem
        /\ Len(s.heap) = Len(q.heap) /\ Item(s.heap, d, key) = v
        /\ \A k : k # key => Item(s.heap, d, k) = Item(q.heap, d, k)
    <3> HIDE DEF r
    <3> USE <2>2
    <3>1. LET t == SetItem(q, d, key, v)
          IN  /\ Counted(t, own1) /\ Grows(q.heap, t.heap, d) /\ t.err = q.err /\ t.mem = q.mem
              /\ Len(t.heap) = Len(q.heap) /\ Item(t.heap, d, key) = v
              /\ \A k : k # key => Item(t.heap, d, k) = Item(q.heap, d, k)
      BY Sets
    <3> QED
      BY <3>1
  <2> QED
    BY <2>1, <2>3
<1>4. d \in 1 .. Len(q.heap) /\ v \in 1 .. Len(q.heap) /\ Len(q.heap) \in Nat
  BY <1>1, <1>2, OwnedIs, CountedLen
<1> HIDE DEF s
<1>5. Counted(r, own) /\ SameObjects(s.heap, r.heap) /\ r.err = s.err /\ r.mem = s.mem
  BY <1>3, Releases
<1> HIDE DEF r
<1>6. Rewrites(q.heap, s.heap, d, {key})
  BY <1>3 DEF Rewrites
<1>7. Rewrites(s.heap, r.heap, d, {})
  BY <1>3, <1>4, <1>5, SameRewrites
<1>8. Rewrites(q.heap, r.heap, d, {key})
  <2>1. Rewrites(q.heap, r.heap, d, {key} \cup {})
    BY <1>3, <1>4, <1>5, <1>6, <1>7, RewritesOn, CountedLen
  <2> QED
    BY <2>1, Zenon
<1>9. Item(r.heap, d, key) = v
  BY <1>3, <1>7 DEF Rewrites
<1>10. r.heap[v].data = q.heap[v].data
  BY <1>4, <1>8 DEF Rewrites, Grows
<1> QED
  BY <1>3, <1>4, <1>5, <1>8, <1>9, <1>10 DEF r, s

\* A new object is bound to a key of d.
LEMMA Binds ==
  ASSUME NEW p, NEW own \in Ledger, Counted(p, own), NEW d \in Nat, d # 0, own[d] # 0,
         NEW key \in Keys, NEW kind \in Kinds, NEW data \in DataOf
  PROVE  LET r == Bind(p, d, key, kind, <<>>, data)
         IN  /\ Counted(r, own) /\ Rewrites(p.heap, r.heap, d, {key}) /\ r.err = p.err /\ r.mem = p.mem
             /\ Item(r.heap, d, key) # 0 /\ r.heap[Item(r.heap, d, key)].data = data
<1> DEFINE q == New(p, kind, <<>>, data)
           n == Len(p.heap)
           r == DecRef(SetItem(q, d, key, n + 1), n + 1)
<1>1. /\ Counted(q, And(own, n + 1)) /\ Grows(p.heap, q.heap, 0) /\ q.err = p.err /\ q.mem = p.mem
      /\ Newest(q) = n + 1 /\ n + 1 # 0 /\ n + 1 \in Nat /\ q.heap[n + 1].data = data
  BY Adds
<1>2. d \in 1 .. Len(p.heap) /\ Len(p.heap) \in Nat
  BY OwnedIs, CountedLen
<1>3. Bind(p, d, key, kind, <<>>, data) = r
  BY <1>1 DEF Bind
<1> HIDE DEF q, n
<1>4. /\ Counted(r, own) /\ Rewrites(q.heap, r.heap, d, {key}) /\ r.err = q.err /\ r.mem = q.mem
      /\ Item(r.heap, d, key) = n + 1 /\ r.heap[n + 1].data = q.heap[n + 1].data
  BY <1>1, BindsNew
<1> HIDE DEF r
<1>5. Rewrites(p.heap, q.heap, d, {})
  BY <1>1, <1>2, GrowsRewrites
<1>6. Rewrites(p.heap, r.heap, d, {key})
  <2>1. Rewrites(p.heap, r.heap, d, {} \cup {key})
    BY <1>1, <1>2, <1>4, <1>5, RewritesOn, CountedLen
  <2> QED
    BY <2>1, Zenon
<1> QED
  BY <1>1, <1>3, <1>4, <1>6

\* An error is made: it is the indicator's.
LEMMA Errs ==
  ASSUME NEW p, NEW own \in Ledger, Counted(p, own), own[ExceptionType] # 0,
         NEW ascii \in BOOLEAN, NEW traced \in BOOLEAN
  PROVE  LET q == Error(p, ascii, traced)
         IN  /\ Counted(q, AndError(own, q.err)) /\ Grows(p.heap, q.heap, 0) /\ q.mem = p.mem
             /\ q.err \in ErrorType /\ q.err # NoError
<1> DEFINE e == ExceptionType
           n == Len(p.heap)
           o == IncRef(p, e)
           data == [NoData EXCEPT !.ascii = ascii]
           q == New(o, "exception", <<>>, data)
           r == IF traced THEN New(q, "traceback", <<>>, NoData) ELSE q
           t == IF traced THEN Newest(r) ELSE Null
           err == [type |-> e, value |-> Newest(q), traceback |-> t]
           own1 == And(own, e)
           own2 == And(own1, n + 1)
           own3 == And(own2, t)
<1>1. e \in Nat /\ e # 0 /\ data \in DataOf /\ NoData \in DataOf /\ "exception" \in Kinds /\ "traceback" \in Kinds
  <2>1. e \in Nat /\ e # 0
    BY DEF ExceptionType
  <2>2. NoData \in DataOf /\ data = [n |-> 0, from |-> 0, ascii |-> ascii]
    BY DEF NoData, DataOf
  <2>3. data \in DataOf
    BY <2>2 DEF DataOf
  <2>4. "exception" \in Kinds /\ "traceback" \in Kinds
    BY DEF Kinds
  <2> HIDE DEF data, e
  <2> QED
    BY <2>1, <2>2, <2>3, <2>4
<1>2. Counted(o, own1) /\ SameObjects(p.heap, o.heap) /\ o.err = p.err /\ o.mem = p.mem
  BY <1>1, Retains
<1>3. Len(o.heap) = n /\ n \in Nat /\ Grows(p.heap, o.heap, 0)
  BY <1>2, CountedLen, SameGrows DEF SameObjects
<1>4. own1 \in Ledger /\ own2 \in Ledger /\ own3 \in Ledger
  BY LedgerMore
<1> HIDE DEF o, data, own1
<1>5. /\ Counted(q, own2) /\ Grows(o.heap, q.heap, 0) /\ q.err = o.err /\ q.mem = o.mem
      /\ Newest(q) = n + 1
  BY <1>1, <1>2, <1>3, <1>4, Adds
<1>6. Len(q.heap) = n + 1
  BY <1>5 DEF Newest
<1> HIDE DEF q
<1>7. /\ Counted(r, own3) /\ Grows(q.heap, r.heap, 0) /\ r.mem = q.mem /\ t \in Nat
  <2>1. CASE traced
    <3> DEFINE s == New(q, "traceback", <<>>, NoData)
    <3>1. Counted(s, And(own2, n + 1 + 1)) /\ Grows(q.heap, s.heap, 0) /\ s.mem = q.mem /\ Newest(s) = n + 1 + 1
      BY <1>1, <1>4, <1>5, <1>6, Adds
    <3>2. r = s /\ t = n + 1 + 1
      BY <2>1, <3>1
    <3> HIDE DEF s, r, t
    <3> QED
      BY <1>3, <3>1, <3>2
  <2>2. CASE ~traced
    <3>1. r = q /\ t = 0
      BY <2>2 DEF Null
    <3>2. Below(own3, own2)
      <4> SUFFICES ASSUME NEW x \in Nat PROVE own3[x] <= own2[x]
        BY DEF Below
      <4>1. own3[x] = own2[x] + One(x, t) /\ own2[x] \in Nat
        BY <1>4, LedgerMore, LedgerIs
      <4>2. One(x, t) = 0
        BY <3>1 DEF One, Null
      <4> QED
        BY <4>1, <4>2
    <3>3. Grows(q.heap, q.heap, 0)
      BY <1>3, <1>6, GrowsFrom
    <3> QED
      BY <1>4, <1>5, <3>1, <3>2, <3>3, LessCounted
  <2> QED
    BY <2>1, <2>2
<1>8. Len(r.heap) \in Nat
  BY <1>7, CountedLen
<1> HIDE DEF r, t, own2, own3
<1>9. err \in ErrorType /\ err # NoError /\ err.type = e /\ err.value = n + 1 /\ err.traceback = t
  BY <1>1, <1>3, <1>5, <1>7 DEF ErrorType, NoError, Null
<1> DEFINE z == [r EXCEPT !.err = err]
<1> HIDE DEF err
<1>10. Error(p, ascii, traced) = z
  BY DEF Error, z, err, t, r, q, data, o
<1>11. z.heap = r.heap /\ z.mem = r.mem /\ z.err = err /\ z \in Interpreter
  BY <1>7, <1>9 DEF Counted, Interpreter
<1>12. Counted(z, own3)
  BY <1>7, <1>11 DEF Counted
<1> HIDE DEF z
<1>13. Counted(z, AndError(own, err))
  <2>1. AndError(own, err) \in Ledger
    BY LedgerMore
  <2>2. Below(AndError(own, err), own3)
    <3> SUFFICES ASSUME NEW x \in Nat PROVE AndError(own, err)[x] <= own3[x]
      BY DEF Below
    <3>1. AndError(own, err)[x] = own[x] + InError(err, x) /\ own1[x] = own[x] + One(x, e)
          /\ own2[x] = own1[x] + One(x, n + 1) /\ own3[x] = own2[x] + One(x, t)
      BY <1>4, LedgerMore DEF own1, own2, own3
    <3>2. InError(err, x) = One(x, e) + One(x, n + 1) + One(x, t)
      BY <1>9 DEF InError
    <3>3. own[x] \in Nat /\ One(x, e) \in Nat /\ One(x, n + 1) \in Nat /\ One(x, t) \in Nat
      BY LedgerIs, OneIs
    <3> HIDE DEF e, n
    <3> QED
      BY <3>1, <3>2, <3>3
  <2> QED
    BY <1>4, <1>12, <2>1, <2>2, LessCounted
<1>14. Grows(p.heap, z.heap, 0)
  BY <1>3, <1>5, <1>6, <1>7, <1>8, <1>11, GrowsOn
<1> QED
  BY <1>2, <1>5, <1>7, <1>9, <1>10, <1>11, <1>13, <1>14

-----------------------------------------------------------------------------
(***************************************************************************)
(* What the programs do.                                                   *)
(***************************************************************************)
\* A program binds one variable.
LEMMA BindsOne ==
  ASSUME NEW p, NEW own \in Ledger, NEW l \in Nat, l # 0, Scope(p, own, l),
         NEW key \in Keys, NEW kind \in Kinds, NEW data \in DataOf
  PROVE  LET q == Bind(p, l, key, kind, <<>>, data)
         IN  Rebinds(p, own, l, {key}, q) /\ Scope(q, own, l) /\ ResultKept(q, l, key, data)
BY Binds DEF Scope, Rebinds, ResultKept

\* A program binds one variable after another.
LEMMA RebindsOn ==
  ASSUME NEW p, NEW q, NEW r, NEW own \in Ledger, NEW l, NEW ks, NEW ls, Counted(p, own),
         Rebinds(p, own, l, ks, q), Rebinds(q, own, l, ls, r)
  PROVE  Rebinds(p, own, l, ks \cup ls, r)
<1>1. Rewrites(p.heap, r.heap, l, ks \cup ls)
  BY CountedLen, RewritesOn DEF Rebinds
<1> QED
  BY <1>1 DEF Rebinds

\* A program that binds nothing.
LEMMA RebindsNothing ==
  ASSUME NEW p, NEW own \in Ledger, NEW l \in Nat, l # 0, Scope(p, own, l)
  PROVE  Rebinds(p, own, l, {}, p)
<1>1. Len(p.heap) \in Nat /\ l \in 1 .. Len(p.heap)
  BY CountedLen, OwnedIs DEF Scope
<1>2. Rewrites(p.heap, p.heap, l, {})
  BY <1>1, GrowsFrom, GrowsRewrites
<1> QED
  BY <1>2 DEF Rebinds, Scope

\* A program that ends.
LEMMA DoneSound ==
  ASSUME NEW p, NEW own \in Ledger, NEW l, NEW ks, NEW q, Rebinds(p, own, l, ks, q)
  PROVE  CodeSound(p, own, l, ks, Done(q))
BY DEF Rebinds, CodeSound, Done

\* A program that stops with an error.
LEMMA ErrorsSound ==
  ASSUME NEW p, NEW own \in Ledger, NEW l \in Nat, l # 0, NEW ks, NEW q, Scope(q, own, l), Counted(p, own),
         Rebinds(p, own, l, ks, q), NEW o \in Errors(Raised(q))
  PROVE  CodeSound(p, own, l, ks, o)
<1>1. PICK ascii \in BOOLEAN : o = [py |-> Error(q, ascii, TRUE), ok |-> FALSE]
  BY DEF Errors, Raised
<1> DEFINE r == Error(q, ascii, TRUE)
<1>2. /\ Counted(r, AndError(own, r.err)) /\ Grows(q.heap, r.heap, 0) /\ r.mem = q.mem
      /\ r.err \in ErrorType /\ r.err # NoError
  BY Errs DEF Scope
<1>3. o.py = r /\ o.ok = FALSE
  BY <1>1
<1> HIDE DEF r
<1>4. l \in 1 .. Len(q.heap) /\ Len(q.heap) \in Nat /\ Len(p.heap) \in Nat /\ Len(r.heap) \in Nat
  BY <1>2, OwnedIs, CountedLen DEF Scope
<1>5. Rewrites(p.heap, r.heap, l, ks)
  <2>1. Rewrites(p.heap, r.heap, l, ks \cup {})
    BY <1>2, <1>4, GrowsRewrites, RewritesOn DEF Rebinds
  <2> QED
    BY <2>1, Zenon
<1> QED
  BY <1>2, <1>3, <1>5 DEF CodeSound, Rebinds

\* What an object shows.
LEMMA DataIs ==
  /\ NoData \in DataOf
  /\ \A from \in Int : ComputedFrom(from) \in DataOf /\ ComputedFrom(from).from = from
  /\ \A from \in Int, n \in Nat : [NoData EXCEPT !.n = n, !.from = from] \in DataOf
                                   /\ [NoData EXCEPT !.n = n, !.from = from].from = from
<1>1. NoData \in DataOf
  BY DEF NoData, DataOf
<1>2. ASSUME NEW d \in DataOf, NEW from \in Int
      PROVE  [d EXCEPT !.from = from] \in DataOf /\ [d EXCEPT !.from = from].from = from
  BY DEF DataOf
<1>3. ASSUME NEW d \in DataOf, NEW from \in Int, NEW n \in Nat
      PROVE  [d EXCEPT !.n = n, !.from = from] \in DataOf /\ [d EXCEPT !.n = n, !.from = from].from = from
  BY DEF DataOf
<1> QED
  BY <1>1, <1>2, <1>3 DEF ComputedFrom

\* A program that binds one variable and ends.
LEMMA OneBound ==
  ASSUME NEW p, NEW own \in Ledger, NEW l \in Nat, l # 0, Scope(p, own, l),
         NEW key \in Keys, NEW kind \in Kinds
  PROVE  CodeSound(p, own, l, {key}, Done(Bind(p, l, key, kind, <<>>, NoData)))
<1>1. NoData \in DataOf
  BY DataIs
<1> QED
  BY <1>1, BindsOne, DoneSound

\* The aggregator: what it binds to retval is computed from the memory that avalues shows.
LEMMA AggregateIs ==
  ASSUME NEW p, NEW own \in Ledger, NEW l \in Nat, l # 0, Scope(p, own, l),
         Viewed(p, GetItem(p, l, "avalues")) \in Int, NEW o \in AggregateCode(p, l)
  PROVE  /\ \E ks : CodeSound(p, own, l, ks, o)
         /\ o.ok => /\ Item(o.py.heap, l, "retval") # 0
                    /\ o.py.heap[Item(o.py.heap, l, "retval")].data.from = Viewed(p, GetItem(p, l, "avalues"))
<1> DEFINE from == Viewed(p, GetItem(p, l, "avalues"))
           alist == Bind(p, l, "alist", "view", <<>>, NoData)
           val == Bind(alist, l, "val", "int", <<>>, ComputedFrom(from))
           array == Bind(val, l, "retval", "array", <<>>, NoData)
           data == [NoData EXCEPT !.n = 1, !.from = from]
           appended == Bind(val, l, "retval", "array", <<>>, data)
<1>1. /\ NoData \in DataOf /\ ComputedFrom(from) \in DataOf /\ data \in DataOf /\ data.from = from
      /\ {"alist", "val", "retval"} \subseteq Keys /\ {"view", "int", "array"} \subseteq Kinds
  <2>1. 1 \in Nat /\ from \in Int
    OBVIOUS
  <2>2. {"alist", "val", "retval"} \subseteq Keys /\ {"view", "int", "array"} \subseteq Kinds
    BY DEF Keys, Kinds
  <2> HIDE DEF from
  <2> QED
    BY <2>1, <2>2, DataIs
<1>2. o \in {Done(appended)} \cup Errors(Raised(alist)) \cup Errors(Raised(array))
  BY DEF AggregateCode, ComputedFrom
<1> HIDE DEF from, data
<1>3. Rebinds(p, own, l, {"alist"}, alist) /\ Scope(alist, own, l)
  BY <1>1, BindsOne
<1> HIDE DEF alist
<1>4. Rebinds(alist, own, l, {"val"}, val) /\ Scope(val, own, l)
  BY <1>1, <1>3, BindsOne
<1> HIDE DEF val
<1>5. Rebinds(val, own, l, {"retval"}, array) /\ Scope(array, own, l)
  BY <1>1, <1>4, BindsOne
<1>6. Rebinds(val, own, l, {"retval"}, appended) /\ ResultKept(appended, l, "retval", data)
  BY <1>1, <1>4, BindsOne
<1> HIDE DEF array, appended
<1> DEFINE two == {"alist"} \cup {"val"}
           ks == two \cup {"retval"}
<1>7. Counted(p, own) /\ Rebinds(p, own, l, two, val)
  BY <1>3, <1>4, RebindsOn DEF Scope
<1> HIDE DEF two
<1>8. Rebinds(p, own, l, ks, array) /\ Rebinds(p, own, l, ks, appended)
  BY <1>5, <1>6, <1>7, RebindsOn
<1> HIDE DEF ks
<1>9. CASE o = Done(appended)
  <2>1. CodeSound(p, own, l, ks, o)
    BY <1>8, <1>9, DoneSound
  <2>2. o.py = appended
    BY <1>9 DEF Done
  <2> QED
    BY <1>1, <1>6, <2>1, <2>2 DEF ResultKept, from
<1>10. CASE o \in Errors(Raised(alist))
  <2>1. CodeSound(p, own, l, {"alist"}, o) /\ o.ok = FALSE
    <3>1. o.ok = FALSE
      BY <1>10 DEF Errors
    <3> QED
      BY <1>3, <1>7, <1>10, <3>1, ErrorsSound
  <2> QED
    BY <2>1
<1>11. CASE o \in Errors(Raised(array))
  <2>1. CodeSound(p, own, l, ks, o) /\ o.ok = FALSE
    <3>1. o.ok = FALSE
      BY <1>11 DEF Errors
    <3> QED
      BY <1>5, <1>7, <1>8, <1>11, <3>1, ErrorsSound
  <2> QED
    BY <2>1
<1> QED
  BY <1>2, <1>9, <1>10, <1>11

\* The terminator: what it binds to retval is computed from the memory that tmpAggVal shows.
LEMMA TerminateIs ==
  ASSUME NEW p, NEW own \in Ledger, NEW l \in Nat, l # 0, Scope(p, own, l),
         Viewed(p, GetItem(p, l, "tmpAggVal")) \in Int, NEW o \in TerminateCode(p, l)
  PROVE  /\ \E ks : CodeSound(p, own, l, ks, o)
         /\ o.ok => /\ Item(o.py.heap, l, "retval") # 0
                    /\ o.py.heap[Item(o.py.heap, l, "retval")].data.from = Viewed(p, GetItem(p, l, "tmpAggVal"))
<1> DEFINE from == Viewed(p, GetItem(p, l, "tmpAggVal"))
           aggVal == Bind(p, l, "aggVal", "int", <<>>, ComputedFrom(from))
           data(n) == [NoData EXCEPT !.n = n, !.from = from]
           verdict(n) == Bind(aggVal, l, "retval", "int", <<>>, data(n))
<1>1. /\ ComputedFrom(from) \in DataOf /\ "aggVal" \in Keys /\ "retval" \in Keys /\ "int" \in Kinds
      /\ \A n \in {0, 1} : data(n) \in DataOf /\ data(n).from = from
  <2>1. 1 \in Nat /\ 0 \in Nat /\ from \in Int
    OBVIOUS
  <2>2. "aggVal" \in Keys /\ "retval" \in Keys /\ "int" \in Kinds
    BY DEF Keys, Kinds
  <2> HIDE DEF from
  <2> QED
    BY <2>1, <2>2, DataIs
<1>2. o \in Errors(Raised(aggVal)) \/ \E n \in {0, 1} : o = Done(verdict(n))
  BY DEF TerminateCode, ComputedFrom
<1> HIDE DEF from, data
<1>3. Rebinds(p, own, l, {"aggVal"}, aggVal) /\ Scope(aggVal, own, l) /\ Counted(p, own)
  BY <1>1, BindsOne DEF Scope
<1> HIDE DEF aggVal
<1>4. CASE o \in Errors(Raised(aggVal))
  <2>1. CodeSound(p, own, l, {"aggVal"}, o) /\ o.ok = FALSE
    <3>1. o.ok = FALSE
      BY <1>4 DEF Errors
    <3> QED
      BY <1>3, <1>4, <3>1, ErrorsSound
  <2> QED
    BY <2>1
<1>5. ASSUME NEW n \in {0, 1}, o = Done(verdict(n))
      PROVE  /\ \E ks : CodeSound(p, own, l, ks, o)
             /\ Item(o.py.heap, l, "retval") # 0 /\ o.py.heap[Item(o.py.heap, l, "retval")].data.from = from
  <2>1. data(n) \in DataOf /\ data(n).from = from
    BY <1>1
  <2>2. Rebinds(aggVal, own, l, {"retval"}, verdict(n)) /\ ResultKept(verdict(n), l, "retval", data(n))
    BY <1>1, <1>3, <2>1, BindsOne
  <2> HIDE DEF verdict
  <2>3. Rebinds(p, own, l, {"aggVal"} \cup {"retval"}, verdict(n))
    BY <1>3, <2>2, RebindsOn
  <2>4. CodeSound(p, own, l, {"aggVal"} \cup {"retval"}, o)
    BY <1>5, <2>3, DoneSound
  <2>5. o.py = verdict(n)
    BY <1>5 DEF Done
  <2> QED
    BY <2>1, <2>2, <2>4, <2>5 DEF ResultKept
<1> QED
  BY <1>2, <1>4, <1>5 DEF from

\* The program that loads the closures.
LEMMA LoadIs ==
  ASSUME NEW p, NEW own \in Ledger, NEW l \in Nat, l # 0, Scope(p, own, l), NEW o \in LoadCode(p, l)
  PROVE  \E ks : CodeSound(p, own, l, ks, o)
<1> DEFINE one == Bind(p, l, "aggregator", "function", <<>>, NoData)
           both == Bind(one, l, "terminator", "function", <<>>, NoData)
<1>1. NoData \in DataOf /\ "aggregator" \in Keys /\ "terminator" \in Keys /\ "function" \in Kinds
  BY DataIs DEF Keys, Kinds
<1>2. o = Done(both) \/ o \in Errors(Raised(p))
  BY DEF LoadCode
<1>3. Rebinds(p, own, l, {"aggregator"}, one) /\ Scope(one, own, l)
  BY <1>1, BindsOne
<1> HIDE DEF one
<1>4. Rebinds(one, own, l, {"terminator"}, both) /\ Scope(both, own, l)
  BY <1>1, <1>3, BindsOne
<1> HIDE DEF both
<1>5. CASE o = Done(both)
  <2>1. Rebinds(p, own, l, {"aggregator"} \cup {"terminator"}, both)
    BY <1>3, <1>4, RebindsOn DEF Scope
  <2> QED
    BY <1>5, <2>1, DoneSound
<1>6. CASE o \in Errors(Raised(p))
  <2>1. Counted(p, own) /\ Rebinds(p, own, l, {}, p)
    BY RebindsNothing DEF Scope
  <2> QED
    BY <1>6, <2>1, ErrorsSound
<1> QED
  BY <1>2, <1>5, <1>6

\* The programs that make a list or a tuple of three strings.
LEMMA ThreeStringsIs ==
  ASSUME NEW p, NEW own \in Ledger, NEW l \in Nat, l # 0, Scope(p, own, l),
         NEW kind \in Kinds, NEW o \in ThreeStrings(p, l, kind)
  PROVE  \E ks : CodeSound(p, own, l, ks, o)
<1> DEFINE n == Len(p.heap)
           q1 == New(p, "str", <<>>, NoData)
           q2 == New(q1, "str", <<>>, NoData)
           q3 == New(q2, "str", <<>>, NoData)
           items == <<Newest(q3) - 2, Newest(q3) - 1, Newest(q3)>>
           q4 == New(q3, kind, items, NoData)
           r == DecRef(SetItem(q4, l, "result", Newest(q4)), Newest(q4))
           own1 == And(own, n + 1)
           own2 == And(own1, n + 1 + 1)
           own3 == And(own2, n + 1 + 1 + 1)
           own4 == And(own, n + 1 + 1 + 1 + 1)
<1>1. NoData \in DataOf /\ "result" \in Keys /\ "str" \in Kinds
  BY DataIs DEF Keys, Kinds
<1>2. o = Done(r)
  BY DEF ThreeStrings, Bind
<1>3. /\ own1 \in Ledger /\ own2 \in Ledger /\ own3 \in Ledger /\ own4 \in Ledger
      /\ \A x \in Nat : /\ own1[x] = own[x] + One(x, n + 1) /\ own2[x] = own1[x] + One(x, n + 1 + 1)
                        /\ own3[x] = own2[x] + One(x, n + 1 + 1 + 1)
                        /\ own4[x] = own[x] + One(x, n + 1 + 1 + 1 + 1)
  BY LedgerMore
<1>4. Counted(p, own) /\ n \in Nat /\ l \in 1 .. n
  BY CountedLen, OwnedIs DEF Scope
<1> HIDE DEF own1, own2, own3, own4
<1>5. Counted(q1, own1) /\ Grows(p.heap, q1.heap, 0) /\ q1.err = p.err /\ q1.mem = p.mem /\ Len(q1.heap) = n + 1
  BY <1>1, <1>4, Adds DEF own1, Newest
<1> HIDE DEF q1
<1>6. /\ Counted(q2, own2) /\ Grows(q1.heap, q2.heap, 0) /\ q2.err = q1.err /\ q2.mem = q1.mem
      /\ Len(q2.heap) = n + 1 + 1
  BY <1>1, <1>3, <1>5, Adds DEF own2, Newest
<1> HIDE DEF q2
<1>7. /\ Counted(q3, own3) /\ Grows(q2.heap, q3.heap, 0) /\ q3.err = q2.err /\ q3.mem = q2.mem
      /\ Len(q3.heap) = n + 1 + 1 + 1
  BY <1>1, <1>3, <1>6, Adds DEF own3, Newest
<1> HIDE DEF q3
<1>8. items = <<n + 1, n + 1 + 1, n + 1 + 1 + 1>>
  BY <1>4, <1>7 DEF Newest
<1>9. PaysFor(own3, own4, n + 1, n + 1 + 1, n + 1 + 1 + 1, Len(q3.heap) + 1)
  <2> DEFINE a == n + 1
             b == n + 1 + 1
             c == n + 1 + 1 + 1
             d == n + 1 + 1 + 1 + 1
  <2> SUFFICES ASSUME NEW x \in Nat
               PROVE  own4[x] + (One(x, a) + One(x, b) + One(x, c)) <= own3[x] + One(x, d)
    BY <1>7 DEF PaysFor
  <2>1. own1[x] = own[x] + One(x, a) /\ own2[x] = own1[x] + One(x, b) /\ own3[x] = own2[x] + One(x, c)
        /\ own4[x] = own[x] + One(x, d)
    BY <1>3
  <2>2. own[x] \in Nat /\ One(x, a) \in Nat /\ One(x, b) \in Nat /\ One(x, c) \in Nat /\ One(x, d) \in Nat
    BY LedgerIs, OneIs
  <2> HIDE DEF a, b, c, d
  <2> QED
    BY <2>1, <2>2
<1> HIDE DEF items
<1>10. /\ Counted(q4, own4) /\ Grows(q3.heap, q4.heap, 0) /\ q4.err = q3.err /\ q4.mem = q3.mem
       /\ Newest(q4) = n + 1 + 1 + 1 + 1 /\ Newest(q4) \in Nat
  <2>1. /\ n + 1 \in Nat /\ n + 1 + 1 \in Nat /\ n + 1 + 1 + 1 \in Nat
        /\ n + 1 <= Len(q3.heap) /\ n + 1 + 1 <= Len(q3.heap) /\ n + 1 + 1 + 1 <= Len(q3.heap)
    BY <1>4, <1>7
  <2>2. /\ Counted(q4, own4) /\ Grows(q3.heap, q4.heap, 0) /\ q4.err = q3.err /\ q4.mem = q3.mem
        /\ Newest(q4) = Len(q3.heap) + 1 /\ Newest(q4) \in Nat
    <3> HIDE DEF q4, n
    <3> QED
      BY <1>3, <1>7, <1>8, <1>9, <2>1, AddsHolding DEF q4
  <2> QED
    BY <1>7, <2>2
<1> HIDE DEF q4
<1>11. Counted(r, own) /\ Rewrites(q4.heap, r.heap, l, {"result"}) /\ r.err = q4.err /\ r.mem = q4.mem
  <2> DEFINE v == Newest(q4)
  <2>1. v \in Nat /\ v # 0 /\ Counted(q4, And(own, v)) /\ own[l] # 0
    BY <1>4, <1>10 DEF own4, Scope
  <2> HIDE DEF v
  <2>2. LET t == DecRef(SetItem(q4, l, "result", v), v)
        IN  Counted(t, own) /\ Rewrites(q4.heap, t.heap, l, {"result"}) /\ t.err = q4.err /\ t.mem = q4.mem
    BY <1>1, <2>1, BindsNew
  <2> QED
    BY <2>2 DEF v
<1> HIDE DEF r
<1>12. Grows(p.heap, q4.heap, 0)
  <2>1. Len(p.heap) \in Nat /\ Len(q1.heap) \in Nat /\ Len(q2.heap) \in Nat /\ Len(q3.heap) \in Nat
        /\ Len(q4.heap) \in Nat
    BY <1>4, <1>5, <1>6, <1>7, <1>10, CountedLen
  <2>2. Grows(p.heap, q2.heap, 0)
    BY <1>5, <1>6, <2>1, GrowsOn
  <2>3. Grows(p.heap, q3.heap, 0)
    BY <1>7, <2>1, <2>2, GrowsOn
  <2> QED
    BY <1>10, <2>1, <2>3, GrowsOn
<1>13. Rewrites(p.heap, r.heap, l, {} \cup {"result"})
  <2>1. Len(p.heap) \in Nat /\ Len(q4.heap) \in Nat /\ Len(r.heap) \in Nat
    BY <1>4, <1>10, <1>11, CountedLen
  <2> QED
    BY <1>4, <1>11, <1>12, <2>1, GrowsRewrites, RewritesOn
<1>14. Rebinds(p, own, l, {} \cup {"result"}, r)
  BY <1>5, <1>6, <1>7, <1>10, <1>11, <1>13 DEF Rebinds
<1> QED
  BY <1>2, <1>14, DoneSound

\* Whatever the program is.
LEMMA CodeIs ==
  ASSUME NEW p, NEW own \in Ledger, NEW l \in Nat, l # 0, Scope(p, own, l),
         NEW command \in Commands, Reads(command, p, l), NEW o \in Code(command, p, l)
  PROVE  \E ks : CodeSound(p, own, l, ks, o) /\ (command = "defTestfunc" => ks = {"testfunc"})
<1>1. {"result", "testfunc"} \subseteq Keys /\ {"list", "tuple", "str", "int", "bytes", "function"} \subseteq Kinds
  BY DEF Keys, Kinds
<1>2. CASE command = "loadClosures"
  <2>1. o \in LoadCode(p, l)
    BY <1>2 DEF Code
  <2> QED
    BY <1>2, <2>1, LoadIs
<1>3. CASE command = "aggregate"
  <2>1. o \in AggregateCode(p, l) /\ Viewed(p, GetItem(p, l, "avalues")) \in Int
    BY <1>3 DEF Code, Reads
  <2> QED
    BY <1>3, <2>1, AggregateIs
<1>4. CASE command = "terminate"
  <2>1. o \in TerminateCode(p, l) /\ Viewed(p, GetItem(p, l, "tmpAggVal")) \in Int
    BY <1>4 DEF Code, Reads
  <2> QED
    BY <1>4, <2>1, TerminateIs
<1>5. CASE command = "resultList"
  <2>1. o \in ThreeStrings(p, l, "list")
    BY <1>5 DEF Code
  <2> QED
    BY <1>1, <1>5, <2>1, ThreeStringsIs
<1>6. CASE command = "resultTuple"
  <2>1. o \in ThreeStrings(p, l, "tuple")
    BY <1>6 DEF Code
  <2> QED
    BY <1>1, <1>6, <2>1, ThreeStringsIs
<1>7. CASE command = "resultString"
  <2>1. o = Done(Bind(p, l, "result", "str", <<>>, NoData))
    BY <1>7 DEF Code
  <2> QED
    BY <1>1, <1>7, <2>1, OneBound
<1>8. CASE command = "resultNumber"
  <2>1. o = Done(Bind(p, l, "result", "int", <<>>, NoData))
    BY <1>8 DEF Code
  <2> QED
    BY <1>1, <1>8, <2>1, OneBound
<1>9. CASE command = "resultBytes"
  <2>1. o = Done(Bind(p, l, "result", "bytes", <<>>, NoData))
    BY <1>9 DEF Code
  <2> QED
    BY <1>1, <1>9, <2>1, OneBound
<1>10. CASE command = "defTestfunc"
  <2>1. o = Done(Bind(p, l, "testfunc", "function", <<>>, NoData))
    BY <1>10 DEF Code
  <2> QED
    BY <1>1, <2>1, OneBound
<1>11. CASE command = "printView"
  <2>1. o = Done(p)
    BY <1>11 DEF Code
  <2>2. CodeSound(p, own, l, {}, o)
    BY <2>1, RebindsNothing, DoneSound
  <2> QED
    BY <1>11, <2>2
<1> QED
  BY <1>2, <1>3, <1>4, <1>5, <1>6, <1>7, <1>8, <1>9, <1>10, <1>11 DEF Commands

-----------------------------------------------------------------------------
(***************************************************************************)
(* What the functions of NativePython do: own is owned besides the error.  *)
(***************************************************************************)
\* The exceptions that are thrown.
LEMMA ExceptionIs ==
  /\ NoException \in ExceptionRecord
  /\ \A e \in ErrorType, kind \in {"fetched", "message"} :
       Exception(kind, e) \in ExceptionRecord /\ Exception(kind, e) # NoException
       /\ \A x : InError(Exception(kind, e), x) = InError(e, x)
  /\ NoError \in ErrorType /\ \A x : InError(NoError, x) = 0 /\ InError(NoException, x) = 0
<1>1. NoError \in ErrorType
  BY DEF NoError, ErrorType, Null
<1>2. ASSUME NEW e \in ErrorType, NEW kind \in {"none", "fetched", "message"}
      PROVE  /\ Exception(kind, e) \in ExceptionRecord
             /\ \A x : InError(Exception(kind, e), x) = InError(e, x)
             /\ kind # "none" => Exception(kind, e) # NoException
  <2>1. Exception(kind, e) \in ExceptionRecord
    BY DEF Exception, ExceptionRecord, ErrorType
  <2>2. \A x : InError(Exception(kind, e), x) = InError(e, x)
    BY DEF Exception, InError
  <2>3. Exception(kind, e).kind = kind /\ NoException.kind = "none"
    BY DEF Exception, NoException
  <2> QED
    BY <2>1, <2>2, <2>3
<1>3. ASSUME NEW x PROVE InError(NoError, x) = 0
  <2>1. One(x, 0) = 0
    BY DEF One, Null
  <2> QED
    BY <2>1 DEF InError, NoError, Null
<1>4. NoException = Exception("none", NoError)
  BY DEF NoException
<1> QED
  BY <1>1, <1>2, <1>3, <1>4

\* A function may leave less than it owns.
LEMMA LeavesLess ==
  ASSUME NEW q, NEW own \in Ledger, NEW own2 \in Ledger, NEW e, Below(own2, own)
  PROVE  /\ Below(AndError(own2, e), AndError(own, e))
         /\ Counted(q, AndError(own, e)) => Counted(q, AndError(own2, e))
<1>1. AndError(own, e) \in Ledger /\ AndError(own2, e) \in Ledger
  BY LedgerMore
<1>2. Below(AndError(own2, e), AndError(own, e))
  <2> SUFFICES ASSUME NEW x \in Nat PROVE AndError(own2, e)[x] <= AndError(own, e)[x]
    BY DEF Below
  <2>1. own[x] \in Nat /\ own2[x] \in Nat /\ own2[x] <= own[x] /\ InError(e, x) \in Nat
    BY LedgerIs, InErrorIs DEF Below
  <2>2. AndError(own, e)[x] = own[x] + InError(e, x) /\ AndError(own2, e)[x] = own2[x] + InError(e, x)
    BY LedgerMore
  <2> QED
    BY <2>1, <2>2
<1> QED
  BY <1>1, <1>2, LessCounted

\* A function that returns.
LEMMA OkEnds ==
  ASSUME NEW p, NEW own, NEW own2, NEW d, NEW q, NEW ret, Counted(q, AndError(own2, q.err)),
         Grows(p.heap, q.heap, d), q.mem = p.mem, NEW o \in Ok(q, ret)
  PROVE  Ends(p, own, own2, d, o) /\ o.exc = NoException /\ o.ret = ret /\ o.py = q
<1>1. o.exc = NoException /\ o.ret = ret /\ o.py = q
  BY DEF Ok
<1> QED
  BY <1>1, ExceptionIs DEF Ends, Leaves

\* A function that throws an exception with a message.
LEMMA MessageEnds ==
  ASSUME NEW p, NEW own \in Ledger, NEW own2, NEW d, NEW q, Counted(q, AndError(own, q.err)),
         Grows(p.heap, q.heap, d), q.mem = p.mem, NEW o \in ThrowMessage(q)
  PROVE  Ends(p, own, own2, d, o) /\ o.exc # NoException
<1> DEFINE exc == Exception("message", NoError)
           own3 == AndError(own, q.err)
<1>1. o.exc = exc /\ o.py = q
  BY DEF ThrowMessage
<1>2. exc \in ExceptionRecord /\ exc # NoException /\ \A x : InError(exc, x) = 0
  BY ExceptionIs
<1>3. own3 \in Ledger
  BY LedgerMore
<1> HIDE DEF exc, own3
<1>4. AndError(own3, exc) \in Ledger /\ \A x \in Nat : AndError(own3, exc)[x] = own3[x] + InError(exc, x)
  BY <1>3, LedgerMore
<1>5. Below(AndError(own3, exc), own3)
  <2> SUFFICES ASSUME NEW x \in Nat PROVE AndError(own3, exc)[x] <= own3[x]
    BY DEF Below
  <2>1. AndError(own3, exc)[x] = own3[x] + 0 /\ own3[x] \in Nat
    BY <1>2, <1>3, <1>4, LedgerIs
  <2> QED
    BY <2>1
<1>6. Counted(q, AndError(own3, exc))
  BY <1>3, <1>4, <1>5, LessCounted DEF own3
<1> QED
  BY <1>1, <1>2, <1>6 DEF Ends, Leaves, own3

\* A function that throws the error it has fetched from the interpreter: the exception owns what the
\* error held.
LEMMA FetchedEnds ==
  ASSUME NEW p, NEW own \in Ledger, NEW own2, NEW d, NEW q, Counted(q, AndError(own, q.err)),
         Grows(p.heap, q.heap, d), q.mem = p.mem, NEW o \in ThrowFetched(q)
  PROVE  Ends(p, own, own2, d, o) /\ o.exc # NoException
<1> DEFINE exc == Exception("fetched", q.err)
           r == [q EXCEPT !.err = NoError]
           own3 == AndError(own, NoError)
<1>1. o.exc = exc /\ o.py = r
  BY DEF ThrowFetched
<1>2. q.err \in ErrorType /\ q \in Interpreter
  BY DEF Counted, Interpreter
<1>3. exc \in ExceptionRecord /\ exc # NoException /\ \A x : InError(exc, x) = InError(q.err, x)
  BY <1>2, ExceptionIs
<1>4. r \in Interpreter /\ r.heap = q.heap /\ r.mem = q.mem /\ r.err = NoError
  BY <1>2, ExceptionIs DEF Interpreter
<1>5. own3 \in Ledger /\ AndError(own, q.err) \in Ledger
      /\ \A x \in Nat : own3[x] = own[x] + InError(NoError, x)
                        /\ AndError(own, q.err)[x] = own[x] + InError(q.err, x)
  BY LedgerMore
<1> HIDE DEF exc, r, own3
<1>6. AndError(own3, exc) \in Ledger /\ \A x \in Nat : AndError(own3, exc)[x] = own3[x] + InError(exc, x)
  BY <1>5, LedgerMore
<1>7. Below(AndError(own3, exc), AndError(own, q.err))
  <2> SUFFICES ASSUME NEW x \in Nat PROVE AndError(own3, exc)[x] <= AndError(own, q.err)[x]
    BY DEF Below
  <2>1. own3[x] = own[x] + 0 /\ own[x] \in Nat /\ AndError(own, q.err)[x] = own[x] + InError(q.err, x)
        /\ AndError(own3, exc)[x] = own3[x] + InError(q.err, x) /\ InError(q.err, x) \in Nat
    BY <1>3, <1>5, <1>6, LedgerIs, InErrorIs, ExceptionIs
  <2> QED
    BY <2>1
<1>8. Counted(r, AndError(own, q.err))
  BY <1>4 DEF Counted
<1>9. Counted(r, AndError(own3, exc))
  BY <1>5, <1>6, <1>7, <1>8, LessCounted
<1> QED
  BY <1>1, <1>3, <1>4, <1>9 DEF Ends, Leaves, own3

\* Whatever fails leaves its error in place of the one before.
LEMMA ErrsAgain ==
  ASSUME NEW p, NEW own \in Ledger, Ready(p, own), NEW ascii \in BOOLEAN, NEW traced \in BOOLEAN
  PROVE  LET q == Error(p, ascii, traced)
         IN  Ready(q, own) /\ Grows(p.heap, q.heap, 0) /\ q.mem = p.mem /\ q.err # NoError
<1> DEFINE own1 == AndError(own, p.err)
           q == Error(p, ascii, traced)
<1>1. own1 \in Ledger /\ \A x \in Nat : own1[x] = own[x] + InError(p.err, x) /\ own[x] \in Nat
                                          /\ InError(p.err, x) \in Nat
  BY LedgerMore, LedgerIs, InErrorIs
<1>2. Counted(p, own1)
  BY DEF Ready
<1> HIDE DEF own1
<1>3. own1[ExceptionType] # 0
  <2>1. ExceptionType \in Nat /\ own[ExceptionType] # 0
    BY DEF Ready, ExceptionType
  <2> QED
    BY <1>1, <2>1
<1>4. Counted(q, AndError(own1, q.err)) /\ Grows(p.heap, q.heap, 0) /\ q.mem = p.mem /\ q.err # NoError
  BY <1>1, <1>2, <1>3, Errs
<1> HIDE DEF q
<1>5. Below(own, own1)
  <2>1. \A x \in Nat : own[x] <= own1[x]
    BY <1>1
  <2> QED
    BY <2>1 DEF Below
<1>6. Counted(q, AndError(own, q.err))
  BY <1>1, <1>4, <1>5, LeavesLess
<1> QED
  BY <1>4, <1>6 DEF Ready, q

\* A function that only looks returns, or throws, with what was owned before.
LEMMA PlainEnds ==
  ASSUME NEW p, NEW own \in Ledger, Ready(p, own), NEW o, Plain(p, o)
  PROVE  Ends(p, own, own, 0, o)
<1> DEFINE q == Failed(p)
<1>1. Ready(q, own) /\ Grows(p.heap, q.heap, 0) /\ q.mem = p.mem
  BY ErrsAgain DEF Failed
<1> HIDE DEF q
<1>2. Counted(p, AndError(own, p.err)) /\ Counted(q, AndError(own, q.err))
  BY <1>1 DEF Ready
<1>3. Grows(p.heap, p.heap, 0)
  BY <1>2, GrowsFrom, CountedLen
<1>4. CASE \E ret : o \in Ok(p, ret) \cup Ok(q, ret)
  BY <1>1, <1>2, <1>3, <1>4, OkEnds
<1>5. CASE o \in ThrowMessage(p) \cup ThrowFetched(p) \cup ThrowFetched(q)
  BY <1>1, <1>2, <1>3, <1>5, MessageEnds, FetchedEnds
<1> QED
  BY <1>4, <1>5 DEF Plain, q

\* The functions that only look.
LEMMA Readings ==
  \A p, a :
    /\ \A o \in importAddModule(p) : Plain(p, o) /\ o.exc = NoException /\ o.ret = MainModule
    /\ \A o \in moduleGetDict(p, a) : Plain(p, o) /\ (o.exc = NoException => o.ret = Item(p.heap, a, "__dict__"))
    /\ \A key : \A o \in dictGetItemString(p, a, key) :
         Plain(p, o) /\ (o.exc = NoException => a # 0 /\ o.ret = Item(p.heap, a, key))
    /\ \A kind : \A o \in asRail(p, kind, a) : Plain(p, o)
    /\ \A o \in unicodeAsASCIIString(p, a) : Plain(p, o)
    /\ \A o \in longAsLong(p, a) :
         Plain(p, o) /\ (o.exc = NoException /\ a # 0 => o.ret = p.heap[a].data)
    /\ \A o \in objectStr(p, a) : Plain(p, o)
    /\ \A o \in bytesAsMemoryChunk(p, a) \cup bufferAsMemoryChunk(p, a) :
         Plain(p, o) /\ (o.exc = NoException => o.ret = p.heap[a].data)
    /\ \A ret : \A o \in Ok(p, ret) : Plain(p, o) /\ o.exc = NoException /\ o.ret = ret
<1> SUFFICES ASSUME NEW p, NEW a
             PROVE  /\ \A o \in importAddModule(p) : Plain(p, o) /\ o.exc = NoException /\ o.ret = MainModule
                    /\ \A o \in moduleGetDict(p, a) :
                         Plain(p, o) /\ (o.exc = NoException => o.ret = Item(p.heap, a, "__dict__"))
                    /\ \A key : \A o \in dictGetItemString(p, a, key) :
                         Plain(p, o) /\ (o.exc = NoException => a # 0 /\ o.ret = Item(p.heap, a, key))
                    /\ \A kind : \A o \in asRail(p, kind, a) : Plain(p, o)
                    /\ \A o \in unicodeAsASCIIString(p, a) : Plain(p, o)
                    /\ \A o \in longAsLong(p, a) :
                         Plain(p, o) /\ (o.exc = NoException /\ a # 0 => o.ret = p.heap[a].data)
                    /\ \A o \in objectStr(p, a) : Plain(p, o)
                    /\ \A o \in bytesAsMemoryChunk(p, a) \cup bufferAsMemoryChunk(p, a) :
                         Plain(p, o) /\ (o.exc = NoException => o.ret = p.heap[a].data)
                    /\ \A ret : \A o \in Ok(p, ret) : Plain(p, o) /\ o.exc = NoException /\ o.ret = ret
  OBVIOUS
<1>1. \A q : \A o \in ThrowMessage(q) \cup ThrowFetched(q) : o.exc # NoException
  <2>1. Exception("message", NoError).kind = "message" /\ NoException.kind = "none"
    BY DEF Exception, NoException
  <2>2. \A e : Exception("fetched", e).kind = "fetched"
    BY DEF Exception
  <2> QED
    BY <2>1, <2>2 DEF ThrowMessage, ThrowFetched
<1>2. \A q, ret : \A o \in Ok(q, ret) : o.exc = NoException /\ o.ret = ret /\ o.py = q
  BY DEF Ok
<1>3. \A key : GetItem(p, a, key) = Item(p.heap, a, key)
  BY DEF GetItem, Item
<1> USE DEF Plain
<1>4. \A o \in importAddModule(p) : Plain(p, o) /\ o.exc = NoException /\ o.ret = MainModule
  BY <1>2 DEF importAddModule
<1>5. \A o \in moduleGetDict(p, a) : Plain(p, o) /\ (o.exc = NoException => o.ret = Item(p.heap, a, "__dict__"))
  BY <1>1, <1>2, <1>3 DEF moduleGetDict
<1>6. \A key : \A o \in dictGetItemString(p, a, key) :
        Plain(p, o) /\ (o.exc = NoException => a # 0 /\ o.ret = Item(p.heap, a, key))
  BY <1>1, <1>2, <1>3 DEF dictGetItemString, Is, Null
<1>7. \A kind : \A o \in asRail(p, kind, a) : Plain(p, o)
  BY DEF asRail
<1>8. \A o \in unicodeAsASCIIString(p, a) : Plain(p, o)
  BY DEF unicodeAsASCIIString
<1>9. \A o \in longAsLong(p, a) : Plain(p, o) /\ (o.exc = NoException /\ a # 0 => o.ret = p.heap[a].data)
  BY <1>1, <1>2 DEF longAsLong, OkUnlessError, Null
<1>10. \A o \in objectStr(p, a) : Plain(p, o)
  BY DEF objectStr
<1>11. \A o \in bytesAsMemoryChunk(p, a) \cup bufferAsMemoryChunk(p, a) :
         Plain(p, o) /\ (o.exc = NoException => o.ret = p.heap[a].data)
  BY <1>1, <1>2 DEF bytesAsMemoryChunk, bufferAsMemoryChunk, asMemoryChunk
<1>12. \A ret : \A o \in Ok(p, ret) : Plain(p, o) /\ o.exc = NoException /\ o.ret = ret
  BY <1>2
<1> HIDE DEF Plain
<1> QED
  BY <1>4, <1>5, <1>6, <1>7, <1>8, <1>9, <1>10, <1>11, <1>12

\* What is owned besides an error.
LEMMA ErrorAside ==
  ASSUME NEW q, NEW own \in Ledger, NEW e, NEW a, Counted(q, And(AndError(own, e), a))
  PROVE  Counted(q, AndError(And(own, a), e)) /\ Counted(q, AndError(own, e))
<1> DEFINE f == AndError(own, e)
           g == And(own, a)
<1>1. f \in Ledger /\ g \in Ledger /\ \A x \in Nat : f[x] = own[x] + InError(e, x) /\ g[x] = own[x] + One(x, a)
  BY LedgerMore
<1> HIDE DEF f, g
<1>2. And(f, a) \in Ledger /\ AndError(g, e) \in Ledger
      /\ \A x \in Nat : And(f, a)[x] = f[x] + One(x, a) /\ AndError(g, e)[x] = g[x] + InError(e, x)
  BY <1>1, LedgerMore
<1>3. \A x \in Nat : own[x] \in Nat /\ InError(e, x) \in Nat /\ One(x, a) \in Nat
  BY LedgerIs, InErrorIs, OneIs
<1>4. Below(AndError(g, e), And(f, a)) /\ Below(f, And(f, a))
  <2>1. \A x \in Nat : AndError(g, e)[x] <= And(f, a)[x] /\ f[x] <= And(f, a)[x]
    BY <1>1, <1>2, <1>3
  <2> QED
    BY <2>1 DEF Below
<1>5. Counted(q, And(f, a))
  BY DEF f
<1>6. Counted(q, AndError(g, e)) /\ Counted(q, f)
  BY <1>1, <1>2, <1>4, <1>5, LessCounted
<1> QED
  BY <1>6 DEF f, g

\* A function that makes an object returns a reference that the caller owns.
LEMMA MadeEnds ==
  ASSUME NEW p, NEW own \in Ledger, Ready(p, own), NEW data \in DataOf, NEW o, MadeObject(p, data, o)
  PROVE  /\ Ends(p, own, And(own, o.ret), 0, o)
         /\ o.exc = NoException => /\ o.ret = Len(p.heap) + 1 /\ o.ret \in Nat /\ o.ret # 0
                                   /\ o.ret <= Len(o.py.heap) /\ o.py.heap[o.ret].data = data
<1>1. PICK kind \in Kinds :
        \/ o \in Ok(New(p, kind, <<>>, data), Newest(p) + 1)
        \/ o \in ThrowFetched(New(p, kind, <<>>, data)) \cup ThrowFetched(p) \cup ThrowMessage(p)
        \/ \E traced \in BOOLEAN : o \in ThrowFetched(Error(p, TRUE, traced))
  BY DEF MadeObject
<1> DEFINE q == New(p, kind, <<>>, data)
           n == Len(p.heap)
           own1 == AndError(own, p.err)
<1>2. Counted(p, own1) /\ own1 \in Ledger /\ n \in Nat
  BY LedgerMore, CountedLen DEF Ready
<1> HIDE DEF own1
<1>3. /\ Counted(q, And(own1, n + 1)) /\ Grows(p.heap, q.heap, 0) /\ q.err = p.err /\ q.mem = p.mem
      /\ Newest(q) = n + 1 /\ q.heap[n + 1].data = data
  BY <1>2, Adds
<1> HIDE DEF q
<1>4. Counted(q, AndError(And(own, n + 1), q.err)) /\ Counted(q, AndError(own, q.err))
  BY <1>3, ErrorAside DEF own1
<1>5. And(own, n + 1) \in Ledger /\ And(own, o.ret) \in Ledger
  BY LedgerMore
<1>6. CASE o \in Ok(q, n + 1)
  <2>1. Ends(p, own, And(own, n + 1), 0, o) /\ o.ret = n + 1 /\ o.py = q
    BY <1>3, <1>4, <1>5, <1>6, OkEnds
  <2> QED
    BY <1>2, <1>3, <2>1 DEF Newest
<1>7. CASE o \in ThrowFetched(q)
  BY <1>3, <1>4, <1>7, FetchedEnds
<1>8. CASE o \in ThrowFetched(p) \cup ThrowMessage(p)
  <2>1. Counted(p, AndError(own, p.err)) /\ Grows(p.heap, p.heap, 0)
    BY <1>2, GrowsFrom DEF own1
  <2> QED
    BY <1>8, <2>1, FetchedEnds, MessageEnds
<1>9. ASSUME NEW traced \in BOOLEAN, o \in ThrowFetched(Error(p, TRUE, traced))
      PROVE  Ends(p, own, And(own, o.ret), 0, o) /\ o.exc # NoException
  <2> DEFINE r == Error(p, TRUE, traced)
  <2>1. Ready(r, own) /\ Grows(p.heap, r.heap, 0) /\ r.mem = p.mem
    BY ErrsAgain
  <2>2. Counted(r, AndError(own, r.err)) /\ o \in ThrowFetched(r)
    BY <1>9, <2>1 DEF Ready
  <2> HIDE DEF r
  <2> QED
    BY <2>1, <2>2, FetchedEnds
<1> QED
  BY <1>1, <1>6, <1>7, <1>8, <1>9 DEF q, n, Newest

\* The functions that make an object.
LEMMA Makings ==
  \A p :
    /\ \A o \in importImport(p) \cup unicodeFromString(p) \cup longFromLong(p) \cup dictNew(p)
                \cup listNew(p) \cup tupleNew(p) : MadeObject(p, NoData, o)
    /\ \A c : \A o \in memoryViewFromMemoryChunk(p, c) : MadeObject(p, [NoData EXCEPT !.n = c], o)
<1> SUFFICES ASSUME NEW p
             PROVE  /\ \A o \in importImport(p) \cup unicodeFromString(p) \cup longFromLong(p) \cup dictNew(p)
                                \cup listNew(p) \cup tupleNew(p) : MadeObject(p, NoData, o)
                    /\ \A c : \A o \in memoryViewFromMemoryChunk(p, c) : MadeObject(p, [NoData EXCEPT !.n = c], o)
  OBVIOUS
<1>1. {"module", "dict", "str", "int", "list", "tuple", "view"} \subseteq Kinds
  BY DEF Kinds
<1>2. \A o \in importImport(p) : MadeObject(p, NoData, o)
  BY <1>1 DEF importImport, MadeObject
<1>3. \A o \in unicodeFromString(p) \cup longFromLong(p) \cup dictNew(p) : MadeObject(p, NoData, o)
  BY <1>1 DEF unicodeFromString, longFromLong, dictNew, MadeObject
<1>4. \A o \in listNew(p) \cup tupleNew(p) : MadeObject(p, NoData, o)
  BY <1>1 DEF listNew, tupleNew, newSequence, MadeObject
<1>5. \A c : \A o \in memoryViewFromMemoryChunk(p, c) : MadeObject(p, [NoData EXCEPT !.n = c], o)
  BY <1>1 DEF memoryViewFromMemoryChunk, OkUnlessError, MadeObject
<1> QED
  BY <1>2, <1>3, <1>4, <1>5

\* A module, a tuple and a number that nobody keeps.
LEMMA CalltestEnds ==
  ASSUME NEW p, NEW own \in Ledger, Ready(p, own), NEW module, NEW o \in calltest(p, module)
  PROVE  Ends(p, own, own, 0, o)
<1> DEFINE q == New(p, "tuple", <<>>, NoData)
           r == New(q, "int", <<>>, NoData)
           own1 == AndError(own, p.err)
<1>1. o \in Ok(r, Null)
  BY DEF calltest
<1>2. NoData \in DataOf /\ "tuple" \in Kinds /\ "int" \in Kinds
  BY DataIs DEF Kinds
<1>3. Counted(p, own1) /\ own1 \in Ledger
  BY LedgerMore DEF Ready
<1> HIDE DEF own1
<1>4. Counted(q, And(own1, Len(p.heap) + 1)) /\ Grows(p.heap, q.heap, 0) /\ q.err = p.err /\ q.mem = p.mem
  BY <1>2, <1>3, Adds
<1> HIDE DEF q
<1>5. Counted(q, own1)
  BY <1>4, ErrorAside DEF own1
<1>6. Counted(r, And(own1, Len(q.heap) + 1)) /\ Grows(q.heap, r.heap, 0) /\ r.err = q.err /\ r.mem = q.mem
  BY <1>2, <1>3, <1>5, Adds
<1> HIDE DEF r
<1>7. Counted(r, AndError(own, r.err))
  BY <1>4, <1>6, ErrorAside DEF own1
<1>8. Grows(p.heap, r.heap, 0)
  BY <1>3, <1>4, <1>5, <1>6, CountedLen, GrowsOn
<1> QED
  BY <1>1, <1>4, <1>6, <1>7, <1>8, OkEnds

\* What is owned is owned besides the error too.
LEMMA ErrorsKept ==
  ASSUME NEW own \in Ledger, NEW e
  PROVE  /\ AndError(own, e) \in Ledger /\ Below(own, AndError(own, e))
         /\ \A x \in Nat : own[x] # 0 => AndError(own, e)[x] # 0
<1>1. AndError(own, e) \in Ledger /\ \A x \in Nat : AndError(own, e)[x] = own[x] + InError(e, x)
  BY LedgerMore
<1>2. \A x \in Nat : own[x] \in Nat /\ InError(e, x) \in Nat
  BY LedgerIs, InErrorIs
<1>3. \A x \in Nat : own[x] <= AndError(own, e)[x] /\ (own[x] # 0 => AndError(own, e)[x] # 0)
  BY <1>1, <1>2
<1> QED
  BY <1>1, <1>3 DEF Below

\* The dictionary is written.
LEMMA SetsIt ==
  ASSUME NEW p, NEW own \in Ledger, NEW d \in Nat, NEW v \in Nat, NEW key \in Keys, Settable(p, own, d, v)
  PROVE  SetIs(p, own, d, v, key, SetItem(p, d, key, v))
<1>1. Counted(p, own) /\ d # 0 /\ own[d] # 0 /\ v # 0 /\ own[v] # 0
  BY DEF Settable
<1> QED
  BY <1>1, Sets DEF SetIs

\* dictSetItemString returns with the key bound, or throws.
LEMMA SetItemEnds ==
  ASSUME NEW p, NEW own \in Ledger, Ready(p, own), NEW l \in Nat, l # 0 => own[l] # 0,
         NEW v \in Nat, v # 0 => own[v] # 0, NEW key \in Keys, NEW o \in dictSetItemString(p, l, key, v)
  PROVE  /\ Ends(p, own, own, l, o)
         /\ o.exc = NoException => /\ l # 0 /\ v # 0 /\ Item(o.py.heap, l, key) = v
                                   /\ \A k : k # key => Item(o.py.heap, l, k) = Item(p.heap, l, k)
<1> DEFINE own1 == AndError(own, p.err)
           q == SetItem(p, l, key, v)
<1>1. own1 \in Ledger /\ Counted(p, own1) /\ \A x \in Nat : own[x] # 0 => own1[x] # 0
  BY ErrorsKept DEF Ready
<1>2. CASE l # 0 /\ v # 0 /\ o \in Ok(q, Null)
  <2>1. own1[l] # 0 /\ own1[v] # 0
    BY <1>1, <1>2
  <2> HIDE DEF own1
  <2>2. /\ Counted(q, own1) /\ Grows(p.heap, q.heap, l) /\ q.err = p.err /\ q.mem = p.mem
        /\ Item(q.heap, l, key) = v /\ \A k : k # key => Item(q.heap, l, k) = Item(p.heap, l, k)
    <3> HIDE DEF q
    <3>1. Settable(p, own1, l, v)
      BY <1>1, <1>2, <2>1 DEF Settable
    <3>2. SetIs(p, own1, l, v, key, SetItem(p, l, key, v))
      BY <1>1, <3>1, SetsIt
    <3> QED
      BY <3>2 DEF q, SetIs
  <2> HIDE DEF q
  <2>3. Counted(q, AndError(own, q.err))
    BY <2>2 DEF own1
  <2> QED
    BY <1>2, <2>2, <2>3, OkEnds
<1>3. CASE o \in ThrowMessage(p)
  <2>1. Counted(p, AndError(own, p.err)) /\ Grows(p.heap, p.heap, l)
    BY <1>1, GrowsFrom, CountedLen
  <2> QED
    BY <1>3, <2>1, MessageEnds
<1> QED
  BY <1>2, <1>3 DEF dictSetItemString, Is, Null

\* runString returns when the program has ended, or throws its error.
LEMMA RunEnds ==
  ASSUME NEW p, NEW own \in Ledger, Ready(p, own), NEW l \in Nat, l # 0 => own[l] # 0, NEW globals,
         NEW command \in Commands, l # 0 => Reads(command, p, l), NEW o \in runString(p, command, globals, l)
  PROVE  /\ Ends(p, own, own, l, o)
         /\ o.exc = NoException =>
              /\ l # 0 /\ Scope(p, AndError(own, p.err), l)
              /\ \E c \in Code(command, p, l) : \E ks :
                   /\ c.ok /\ SameObjects(c.py.heap, o.py.heap) /\ l \in 1 .. Len(c.py.heap)
                   /\ Rewrites(p.heap, o.py.heap, l, ks) /\ (command = "defTestfunc" => ks = {"testfunc"})
<1> DEFINE own1 == AndError(own, p.err)
<1>1. own1 \in Ledger /\ Counted(p, own1) /\ Below(own, own1) /\ \A x \in Nat : own[x] # 0 => own1[x] # 0
  BY ErrorsKept DEF Ready
<1>2. None \in Nat /\ ExceptionType \in Nat /\ None # 0
  BY DEF None, ExceptionType
<1>3. own1[None] # 0 /\ own1[ExceptionType] # 0
  BY <1>1, <1>2 DEF Ready
<1>4. CASE o \in ThrowMessage(p)
  <2>1. Counted(p, AndError(own, p.err)) /\ Grows(p.heap, p.heap, l)
    BY <1>1, GrowsFrom, CountedLen
  <2> QED
    BY <1>4, <2>1, MessageEnds
<1>5. ASSUME NEW c \in Code(command, p, l), l # 0,
             o \in (IF c.ok THEN Ok(IncRef(c.py, None), None) ELSE ThrowFetched(c.py))
      PROVE  /\ Ends(p, own, own, l, o)
             /\ o.exc = NoException =>
                  /\ l # 0 /\ Scope(p, own1, l)
                  /\ \E ks : /\ c.ok /\ SameObjects(c.py.heap, o.py.heap) /\ l \in 1 .. Len(c.py.heap)
                             /\ Rewrites(p.heap, o.py.heap, l, ks) /\ (command = "defTestfunc" => ks = {"testfunc"})
  <2>1. Scope(p, own1, l) /\ own1[l] # 0
    BY <1>1, <1>3, <1>5 DEF Scope
  <2> HIDE DEF own1
  <2>2. PICK ks : CodeSound(p, own1, l, ks, c) /\ (command = "defTestfunc" => ks = {"testfunc"})
    BY <1>1, <1>5, <2>1, CodeIs
  <2>3. CASE c.ok
    <3> DEFINE q == IncRef(c.py, None)
    <3>1. Counted(c.py, own1) /\ c.py.err = p.err /\ c.py.mem = p.mem /\ Rewrites(p.heap, c.py.heap, l, ks)
      BY <2>2, <2>3 DEF CodeSound
    <3>2. Counted(q, And(own1, None)) /\ SameObjects(c.py.heap, q.heap) /\ q.err = c.py.err /\ q.mem = c.py.mem
      BY <1>1, <1>2, <1>3, <3>1, Retains
    <3> HIDE DEF q
    <3>3. Counted(q, AndError(own, q.err))
      BY <3>1, <3>2, ErrorAside DEF own1
    <3>4. l \in 1 .. Len(c.py.heap) /\ Len(c.py.heap) \in Nat /\ Len(p.heap) \in Nat /\ Len(q.heap) \in Nat
      BY <1>1, <1>5, <2>1, <3>1, <3>2, OwnedIs, CountedLen
    <3>5. Rewrites(p.heap, q.heap, l, ks)
      <4>1. Rewrites(c.py.heap, q.heap, l, {})
        BY <3>2, <3>4, SameRewrites
      <4>2. Rewrites(p.heap, q.heap, l, ks \cup {})
        BY <3>1, <3>4, <4>1, RewritesOn
      <4> QED
        BY <4>2, Zenon
    <3>6. Grows(p.heap, q.heap, l) /\ q.mem = p.mem /\ o \in Ok(q, None)
      BY <1>5, <2>3, <3>1, <3>2, <3>5 DEF Rewrites, q
    <3>7. Ends(p, own, own, l, o) /\ o.py = q
      BY <3>3, <3>6, OkEnds
    <3> QED
      BY <1>5, <2>1, <2>2, <2>3, <3>2, <3>4, <3>5, <3>7
  <2>4. CASE ~c.ok
    <3> DEFINE q == c.py
    <3>1. Counted(q, AndError(own1, q.err)) /\ Grows(p.heap, q.heap, l) /\ q.mem = p.mem
      BY <2>2, <2>4 DEF CodeSound, Rewrites
    <3>2. Counted(q, AndError(own, q.err))
      BY <1>1, <3>1, LeavesLess
    <3>3. o \in ThrowFetched(q)
      BY <1>5, <2>4
    <3> HIDE DEF q
    <3> QED
      BY <3>1, <3>2, <3>3, FetchedEnds
  <2>5. c.ok \in BOOLEAN
    BY <2>2 DEF CodeSound
  <2> QED
    BY <2>3, <2>4, <2>5
<1>6. o \in ThrowMessage(p)
      \/ (l # 0 /\ \E c \in Code(command, p, l) :
                     o \in (IF c.ok THEN Ok(IncRef(c.py, None), None) ELSE ThrowFetched(c.py)))
  BY DEF runString, Is, Null
<1> QED
  BY <1>4, <1>5, <1>6

-----------------------------------------------------------------------------
(***************************************************************************)
(* References that are stolen: own holds them, own2 does not.              *)
(***************************************************************************)
\* No item of the rail is NULL.
LEMMA NoneMissing ==
  ASSUME NEW p, NEW rail, NEW u, NEW v, NEW w, RailOf(p, rail, u, v, w)
  PROVE  SelectInSeq(rail, LAMBDA a : a = Null) = 0
<1>1. {i \in 1 .. Len(rail) : rail[i] = Null} = {}
  <2>1. CASE rail = <<u, v, w>> /\ w # 0
    <3>1. Len(rail) = 3 /\ rail[1] # 0 /\ rail[2] # 0 /\ rail[3] # 0
      BY <2>1 DEF RailOf
    <3>2. \A i \in 1 .. 3 : i = 1 \/ i = 2 \/ i = 3
      OBVIOUS
    <3> QED
      BY <3>1, <3>2 DEF Null
  <2>2. CASE rail = <<u, v>> /\ w = 0
    <3>1. Len(rail) = 2 /\ rail[1] # 0 /\ rail[2] # 0
      BY <2>2 DEF RailOf
    <3>2. \A i \in 1 .. 2 : i = 1 \/ i = 2
      OBVIOUS
    <3> QED
      BY <3>1, <3>2 DEF Null
  <2> QED
    BY <2>1, <2>2 DEF RailOf
<1> QED
  BY <1>1 DEF SelectInSeq

\* What is given is given besides the error too.
LEMMA GivesAside ==
  ASSUME NEW own \in Ledger, NEW own2 \in Ledger, NEW u, NEW v, NEW w, Gives(own, own2, u, v, w), NEW e, NEW c
  PROVE  /\ PaysFor(AndError(own, e), And(AndError(own2, e), c), u, v, w, c)
         /\ Below(own2, own)
<1> DEFINE f == AndError(own, e)
           g == AndError(own2, e)
<1>1. f \in Ledger /\ g \in Ledger /\ \A x \in Nat : f[x] = own[x] + InError(e, x) /\ g[x] = own2[x] + InError(e, x)
  BY LedgerMore
<1> HIDE DEF f, g
<1>2. \A x \in Nat : And(g, c)[x] = g[x] + One(x, c)
  BY <1>1, LedgerMore
<1>3. ASSUME NEW x \in Nat
      PROVE  And(g, c)[x] + (One(x, u) + One(x, v) + One(x, w)) <= f[x] + One(x, c) /\ own2[x] <= own[x]
  <2>1. own2[x] + (One(x, u) + One(x, v) + One(x, w)) <= own[x]
    BY DEF Gives
  <2>2. own[x] \in Nat /\ own2[x] \in Nat /\ InError(e, x) \in Nat /\ One(x, u) \in Nat /\ One(x, v) \in Nat
        /\ One(x, w) \in Nat /\ One(x, c) \in Nat
    BY LedgerIs, InErrorIs, OneIs
  <2>3. f[x] = own[x] + InError(e, x) /\ g[x] = own2[x] + InError(e, x) /\ And(g, c)[x] = g[x] + One(x, c)
    BY <1>1, <1>2
  <2> QED
    BY <2>1, <2>2, <2>3
<1> QED
  BY <1>3 DEF PaysFor, Below, f, g

\* listFromRail and tupleFromRail steal the references of the rail.
LEMMA FromRailEnds ==
  ASSUME NEW p, NEW own \in Ledger, NEW own2 \in Ledger, Ready(p, own), NEW kind \in Kinds,
         NEW u \in Nat, NEW v \in Nat, NEW w \in Nat, NEW rail, RailOf(p, rail, u, v, w),
         Gives(own, own2, u, v, w), NEW o \in fromRail(p, kind, rail)
  PROVE  /\ Ends(p, own2, And(own2, o.ret), 0, o)
         /\ o.exc = NoException => /\ o.ret = Len(p.heap) + 1 /\ o.ret \in Nat /\ o.ret # 0
                                   /\ o.ret <= Len(o.py.heap) /\ o.py.err = p.err
                                   /\ Counted(o.py, And(AndError(own2, p.err), o.ret))
<1> DEFINE n == Len(p.heap)
           q == New(p, kind, rail, NoData)
           own1 == AndError(own, p.err)
           own3 == AndError(own2, p.err)
           own4 == And(own3, n + 1)
<1>1. o \in ThrowFetched(q) \/ o \in Ok(q, Newest(q))
  BY NoneMissing DEF fromRail
<1>2. own1 \in Ledger /\ own3 \in Ledger /\ Counted(p, own1) /\ n \in Nat
  BY LedgerMore, CountedLen DEF Ready
<1>3. PaysFor(own1, own4, u, v, w, n + 1)
  BY GivesAside
<1> HIDE DEF own1, own3
<1>4. own4 \in Ledger
  BY <1>2, LedgerMore
<1> HIDE DEF own4
<1>5. /\ Counted(q, own4) /\ Grows(p.heap, q.heap, 0) /\ q.err = p.err /\ q.mem = p.mem /\ Newest(q) = n + 1
  <2>1. /\ u <= Len(p.heap) /\ v <= Len(p.heap) /\ w <= Len(p.heap)
        /\ rail = <<u, v, w>> \/ (rail = <<u, v>> /\ w = 0)
    BY DEF RailOf
  <2> USE <1>2, <1>3, <1>4, <2>1
  <2> HIDE DEF q
  <2> QED
    BY AddsHolding DEF q
<1> HIDE DEF q
<1>6. Counted(q, AndError(And(own2, n + 1), q.err)) /\ Counted(q, AndError(own2, q.err))
  BY <1>5, ErrorAside DEF own3, own4
<1>7. CASE o \in ThrowFetched(q)
  BY <1>5, <1>6, <1>7, FetchedEnds
<1>8. CASE o \in Ok(q, n + 1)
  <2>1. Ends(p, own2, And(own2, n + 1), 0, o) /\ o.ret = n + 1 /\ o.py = q
    BY <1>5, <1>6, <1>8, OkEnds
  <2> QED
    BY <1>2, <1>5, <2>1 DEF Newest, own3, own4
<1> QED
  BY <1>1, <1>5, <1>7, <1>8

\* objectCallObject steals the references of its arguments, whatever the call does.
LEMMA CallEnds ==
  ASSUME NEW p, NEW own \in Ledger, NEW own2 \in Ledger, Ready(p, own), own2[ExceptionType] # 0, own2[None] # 0,
         NEW u \in Nat, NEW v \in Nat, NEW w \in Nat, NEW rail, RailOf(p, rail, u, v, w),
         Gives(own, own2, u, v, w), NEW callable, NEW o \in objectCallObject(p, callable, rail)
  PROVE  /\ Ends(p, own2, And(own2, o.ret), 0, o)
         /\ o.exc = NoException => o.ret \in Nat /\ o.ret # 0 /\ o.ret <= Len(o.py.heap)
<1>1. CASE o \in ThrowMessage(p)
  <2>1. Below(own2, own) /\ Counted(p, AndError(own, p.err))
    BY GivesAside DEF Ready
  <2>2. Counted(p, AndError(own2, p.err)) /\ Grows(p.heap, p.heap, 0)
    BY <2>1, LeavesLess, CountedLen, GrowsFrom
  <2> QED
    BY <1>1, <2>2, MessageEnds
<1>2. ASSUME NEW a \in fromRail(p, "tuple", rail), a.exc # NoException, o = a
      PROVE  Ends(p, own2, And(own2, o.ret), 0, o)
  <2>1. "tuple" \in Kinds
    BY DEF Kinds
  <2> QED
    BY <1>2, <2>1, FromRailEnds
<1>3. ASSUME NEW a \in fromRail(p, "tuple", rail), a.exc = NoException,
             \/ o \in Ok(DecRef(New(a.py, "str", <<>>, NoData), a.ret), Newest(a.py) + 1)
             \/ \E q \in Raised(a.py) : o \in ThrowFetched(q)
      PROVE  /\ Ends(p, own2, And(own2, o.ret), 0, o)
             /\ o.exc = NoException => o.ret \in Nat /\ o.ret # 0 /\ o.ret <= Len(o.py.heap)
  <2> DEFINE t == a.ret
             m == Len(a.py.heap) + 1
             own3 == AndError(own2, p.err)
             s == New(a.py, "str", <<>>, NoData)
             r == DecRef(s, t)
  <2>1. "tuple" \in Kinds /\ "str" \in Kinds /\ NoData \in DataOf
    BY DataIs DEF Kinds
  <2>2. /\ t \in Nat /\ t # 0 /\ a.py.err = p.err /\ Counted(a.py, And(own3, t))
        /\ Grows(p.heap, a.py.heap, 0) /\ a.py.mem = p.mem
    BY <1>3, <2>1, FromRailEnds DEF Ends
  <2>3. own3 \in Ledger /\ And(own3, t) \in Ledger /\ And(own3, m) \in Ledger /\ m \in Nat /\ m # 0
    BY <2>2, LedgerMore, CountedLen
  <2> HIDE DEF own3
  <2>4. /\ Counted(s, And(And(own3, t), m)) /\ Grows(a.py.heap, s.heap, 0) /\ s.err = p.err /\ s.mem = p.mem
        /\ Newest(s) = m
    BY <2>1, <2>2, <2>3, Adds
  <2> HIDE DEF s
  <2>5. CASE o \in Ok(r, m)
    <3>1. Counted(s, And(And(own3, m), t))
      <4>1. And(And(own3, m), t) \in Ledger /\ And(And(own3, t), m) \in Ledger
        BY <2>3, LedgerMore
      <4>2. Below(And(And(own3, m), t), And(And(own3, t), m))
        <5> SUFFICES ASSUME NEW x \in Nat PROVE And(And(own3, m), t)[x] <= And(And(own3, t), m)[x]
          BY DEF Below
        <5>1. And(And(own3, m), t)[x] = And(own3, m)[x] + One(x, t) /\ And(own3, m)[x] = own3[x] + One(x, m)
          BY <2>3, LedgerMore
        <5>2. And(And(own3, t), m)[x] = And(own3, t)[x] + One(x, m) /\ And(own3, t)[x] = own3[x] + One(x, t)
          BY <2>3, LedgerMore
        <5>3. own3[x] \in Nat /\ One(x, t) \in Nat /\ One(x, m) \in Nat
          BY <2>3, LedgerIs, OneIs
        <5> HIDE DEF m, t
        <5> QED
          BY <5>1, <5>2, <5>3
      <4> QED
        BY <2>4, <4>1, <4>2, LessCounted
    <3>2. Counted(r, And(own3, m)) /\ SameObjects(s.heap, r.heap) /\ r.err = s.err /\ r.mem = s.mem
      BY <2>2, <2>3, <3>1, Releases
    <3> HIDE DEF r
    <3>3. Counted(r, AndError(And(own2, m), r.err))
      BY <2>4, <3>2, ErrorAside DEF own3
    <3>4. Grows(p.heap, r.heap, 0)
      <4>1. Len(p.heap) \in Nat /\ Len(a.py.heap) \in Nat /\ Len(s.heap) \in Nat /\ Len(r.heap) \in Nat
        BY <2>2, <2>4, <3>2, CountedLen DEF Ready
      <4>2. Grows(p.heap, s.heap, 0)
        BY <2>2, <2>4, <4>1, GrowsOn
      <4>3. Grows(s.heap, r.heap, 0)
        BY <3>2, <4>1, SameGrows
      <4> QED
        BY <4>1, <4>2, <4>3, GrowsOn
    <3>5. Ends(p, own2, And(own2, m), 0, o) /\ o.ret = m /\ o.py = r
      BY <2>4, <2>5, <3>2, <3>3, <3>4, OkEnds
    <3>6. m <= Len(r.heap)
      BY <2>3, <2>4, <3>2 DEF Newest, SameObjects
    <3> QED
      BY <2>3, <3>5, <3>6
  <2>6. ASSUME NEW q \in Raised(a.py), o \in ThrowFetched(q)
        PROVE  Ends(p, own2, And(own2, o.ret), 0, o) /\ o.exc # NoException
    <3>1. PICK ascii \in BOOLEAN : q = Error(a.py, ascii, TRUE)
      BY <2>6 DEF Raised
    <3>2. Ready(a.py, own2)
      <4>1. Counted(a.py, AndError(own2, a.py.err))
        BY <2>2, ErrorAside DEF own3
      <4> QED
        BY <4>1 DEF Ready
    <3> DEFINE z == Error(a.py, ascii, TRUE)
    <3>3. Ready(z, own2) /\ Grows(a.py.heap, z.heap, 0) /\ z.mem = a.py.mem
      BY <3>2, ErrsAgain
    <3> HIDE DEF z
    <3>4. Counted(z, AndError(own2, z.err)) /\ o \in ThrowFetched(z) /\ z.mem = p.mem
      BY <2>2, <2>6, <3>1, <3>3 DEF Ready, z
    <3>5. Grows(p.heap, z.heap, 0)
      BY <2>2, <3>3, <3>4, CountedLen, GrowsOn DEF Ready
    <3> QED
      BY <3>4, <3>5, FetchedEnds
  <2> QED
    BY <1>3, <2>5, <2>6 DEF m, r, s, t, Newest
<1>4. o \in ThrowMessage(p)
      \/ \E a \in fromRail(p, "tuple", rail) :
           IF a.exc # NoException THEN o = a
           ELSE \/ o \in Ok(DecRef(New(a.py, "str", <<>>, NoData), a.ret), Newest(a.py) + 1)
                \/ \E q \in Raised(a.py) : o \in ThrowFetched(q)
  BY DEF objectCallObject, tupleFromRail
<1> QED
  BY <1>1, <1>2, <1>3, <1>4

-----------------------------------------------------------------------------
(***************************************************************************)
(* The statements of the scripts.                                          *)
(***************************************************************************)
\* What scripts there are.
LEMMA ScriptNames ==
  DOMAIN Script = {"integratePython", "callAggregator", "callTerminator", "test_importFile", "test_dictLong",
                   "test_dictString", "test_listNew", "test_listFromRail", "test_tupleNew",
                   "test_tupleFromRail", "test_listAsRail", "test_tupleAsRail", "test_objectCallObjectFunc",
                   "test_bytesAsMemoryChunk", "test_memoryViewFromMemoryChunkLong"}
BY DEF Script

\* The statements of integratePython.
LEMMA Script_integratePython ==
  LET s == Script["integratePython"] IN
  /\ Len(s) = 6 /\ DOMAIN s = 1 .. 6 /\ Prologued(s)
  /\ s[4] = Keep("pobj", "memoryViewFromMemoryChunk", <<"closures">>) /\ s[5] = Put("closures", "pobj")
  /\ s[6] = Run("loadClosures")
BY DEF Script, Prologue, Prologued, integratePython

\* The statements of callAggregator.
LEMMA Script_callAggregator ==
  LET s == Script["callAggregator"] IN
  /\ Len(s) = 5 /\ DOMAIN s = 1 .. 5 /\ s[1] = Keep("avalues", "memoryViewFromMemoryChunk", <<"values">>)
  /\ s[2] = Put("avalues", "avalues") /\ s[3] = Run("aggregate") /\ s[4] = Take("retval")
  /\ s[5] = Value("bufferAsMemoryChunk", <<"retval">>)
BY DEF Script, callAggregator

\* The statements of callTerminator.
LEMMA Script_callTerminator ==
  LET s == Script["callTerminator"] IN
  /\ Len(s) = 9 /\ DOMAIN s = 1 .. 9 /\ s[1] = Value("make", <<>>)
  /\ s[2] = Keep("pObjAggVal", "memoryViewFromMemoryChunk", <<"mca">>)
  /\ s[3] = Keep("pObjSS", "longFromLong", <<>>) /\ s[4] = Put("tmpAggVal", "pObjAggVal")
  /\ s[5] = Put("ss", "pObjSS") /\ s[6] = Run("terminate") /\ s[7] = Take("retval")
  /\ s[8] = Value("longAsLong", <<"retval">>) /\ s[9] = Call("no", "", "del", <<>>)
BY DEF Script, callTerminator

\* The statements of test_importFile.
LEMMA Script_test_importFile ==
  LET s == Script["test_importFile"] IN
  /\ Len(s) = 2 /\ DOMAIN s = 1 .. 2 /\ s[1] = Keep("po", "importImport", <<>>)
  /\ s[2] = Value("calltest", <<"po">>)
BY DEF Script

\* The statements of test_dictLong.
LEMMA Script_test_dictLong ==
  LET s == Script["test_dictLong"] IN
  /\ Len(s) = 8 /\ DOMAIN s = 1 .. 8 /\ Prologued(s) /\ s[4] = Keep("a", "longFromLong", <<>>)
  /\ s[5] = Put("multiplicand", "a") /\ s[6] = Run("resultNumber") /\ s[7] = Take("result")
  /\ s[8] = Value("longAsLong", <<"result">>)
BY DEF Script, Prologue, Prologued

\* The statements of test_dictString.
LEMMA Script_test_dictString ==
  LET s == Script["test_dictString"] IN
  /\ Len(s) = 10 /\ DOMAIN s = 1 .. 10 /\ Prologued(s) /\ s[4] = Keep("a", "unicodeFromString", <<>>)
  /\ s[5] = Put("strleft", "a") /\ s[6] = Keep("b", "unicodeFromString", <<>>) /\ s[7] = Put("strright", "b")
  /\ s[8] = Run("resultString") /\ s[9] = Take("result") /\ s[10] = Value("unicodeAsASCIIString", <<"result">>)
BY DEF Script, Prologue, Prologued, TwoStrings, ResultAsString

\* The statements of test_listNew.
LEMMA Script_test_listNew ==
  LET s == Script["test_listNew"] IN
  /\ Len(s) = 8 /\ DOMAIN s = 1 .. 8 /\ Prologued(s) /\ s[4] = Keep("testlist", "listNew", <<>>)
  /\ s[5] = Put("testlist", "testlist") /\ s[6] = Run("resultString") /\ s[7] = Take("result")
  /\ s[8] = Value("unicodeAsASCIIString", <<"result">>)
BY DEF Script, Prologue, Prologued, ResultAsString

\* The statements of test_listFromRail.
LEMMA Script_test_listFromRail ==
  LET s == Script["test_listFromRail"] IN
  /\ Len(s) = 12 /\ DOMAIN s = 1 .. 12 /\ Prologued(s) /\ s[4] = Keep("a", "longFromLong", <<>>)
  /\ s[5] = Keep("b", "longFromLong", <<>>) /\ s[6] = Keep("c", "longFromLong", <<>>)
  /\ s[7] = Elements(<<"a", "b", "c">>) /\ s[8] = Keep("testlist", "listFromRail", <<>>)
  /\ s[9] = Put("testlist", "testlist") /\ s[10] = Run("resultString") /\ s[11] = Take("result")
  /\ s[12] = Value("unicodeAsASCIIString", <<"result">>)
BY DEF Script, Prologue, Prologued, ThreeLongs, ResultAsString

\* The statements of test_tupleNew.
LEMMA Script_test_tupleNew ==
  LET s == Script["test_tupleNew"] IN
  /\ Len(s) = 8 /\ DOMAIN s = 1 .. 8 /\ Prologued(s) /\ s[4] = Keep("testtuple", "tupleNew", <<>>)
  /\ s[5] = Put("testtuple", "testtuple") /\ s[6] = Run("resultString") /\ s[7] = Take("result")
  /\ s[8] = Value("unicodeAsASCIIString", <<"result">>)
BY DEF Script, Prologue, Prologued, ResultAsString

\* The statements of test_tupleFromRail.
LEMMA Script_test_tupleFromRail ==
  LET s == Script["test_tupleFromRail"] IN
  /\ Len(s) = 12 /\ DOMAIN s = 1 .. 12 /\ Prologued(s) /\ s[4] = Keep("a", "longFromLong", <<>>)
  /\ s[5] = Keep("b", "longFromLong", <<>>) /\ s[6] = Keep("c", "longFromLong", <<>>)
  /\ s[7] = Elements(<<"a", "b", "c">>) /\ s[8] = Keep("testtuple", "tupleFromRail", <<>>)
  /\ s[9] = Put("testtuple", "testtuple") /\ s[10] = Run("resultString") /\ s[11] = Take("result")
  /\ s[12] = Value("unicodeAsASCIIString", <<"result">>)
BY DEF Script, Prologue, Prologued, ThreeLongs, ResultAsString

\* The statements of test_listAsRail.
LEMMA Script_test_listAsRail ==
  LET s == Script["test_listAsRail"] IN
  /\ Len(s) = 6 /\ DOMAIN s = 1 .. 6 /\ Prologued(s) /\ s[4] = Run("resultList") /\ s[5] = Take("result")
  /\ s[6] = Rail("listAsRail", <<"result">>)
BY DEF Script, Prologue, Prologued

\* The statements of test_tupleAsRail.
LEMMA Script_test_tupleAsRail ==
  LET s == Script["test_tupleAsRail"] IN
  /\ Len(s) = 6 /\ DOMAIN s = 1 .. 6 /\ Prologued(s) /\ s[4] = Run("resultTuple") /\ s[5] = Take("result")
  /\ s[6] = Rail("tupleAsRail", <<"result">>)
BY DEF Script, Prologue, Prologued

\* The statements of test_objectCallObjectFunc.
LEMMA Script_test_objectCallObjectFunc ==
  LET s == Script["test_objectCallObjectFunc"] IN
  /\ Len(s) = 14 /\ DOMAIN s = 1 .. 14 /\ Prologued(s) /\ s[4] = Keep("a", "unicodeFromString", <<>>)
  /\ s[5] = Put("strleft", "a") /\ s[6] = Keep("b", "unicodeFromString", <<>>) /\ s[7] = Put("strright", "b")
  /\ s[8] = Run("defTestfunc") /\ s[9] = Take("strleft") /\ s[10] = Take("strright")
  /\ s[11] = Elements(<<"strleft", "strright">>) /\ s[12] = Take("testfunc")
  /\ s[13] = Keep("called", "objectCallObject", <<"testfunc">>) /\ s[14] = Value("objectStr", <<"called">>)
BY DEF Script, Prologue, Prologued, TwoStrings

\* The statements of test_bytesAsMemoryChunk.
LEMMA Script_test_bytesAsMemoryChunk ==
  LET s == Script["test_bytesAsMemoryChunk"] IN
  /\ Len(s) = 6 /\ DOMAIN s = 1 .. 6 /\ Prologued(s) /\ s[4] = Run("resultBytes") /\ s[5] = Take("result")
  /\ s[6] = Value("bytesAsMemoryChunk", <<"result">>)
BY DEF Script, Prologue, Prologued

\* The statements of test_memoryViewFromMemoryChunkLong.
LEMMA Script_test_memoryViewFromMemoryChunkLong ==
  LET s == Script["test_memoryViewFromMemoryChunkLong"] IN
  /\ Len(s) = 7 /\ DOMAIN s = 1 .. 7 /\ Prologued(s) /\ s[4] = Value("make", <<>>)
  /\ s[5] = Keep("pobj", "memoryViewFromMemoryChunk", <<"mca">>) /\ s[6] = Put("mview", "pobj")
  /\ s[7] = Run("printView")
BY DEF Script, Prologue, Prologued

USE DEF Known, Fine, UsesNumbers, Making, Stealing, Writing, Others, ObjectNames, Kept, Borrowed, Stolen,
        Numbers, Commands, Keys, NoChunks

\* The statements that assign to a variable.
LEMMA KeepsFine ==
  /\ Known(Keep("main", "importAddModule", <<>>), "importAddModule")
  /\ Known(Keep("globals", "moduleGetDict", <<"main">>), "moduleGetDict")
  /\ Known(Keep("locals", "dictNew", <<>>), "dictNew")
  /\ Known(Keep("pobj", "memoryViewFromMemoryChunk", <<"closures">>), "memoryViewFromMemoryChunk")
  /\ Known(Keep("avalues", "memoryViewFromMemoryChunk", <<"values">>), "memoryViewFromMemoryChunk")
  /\ Known(Keep("pObjAggVal", "memoryViewFromMemoryChunk", <<"mca">>), "memoryViewFromMemoryChunk")
  /\ Known(Keep("pObjSS", "longFromLong", <<>>), "longFromLong")
  /\ Known(Keep("po", "importImport", <<>>), "importImport")
  /\ Known(Keep("a", "longFromLong", <<>>), "longFromLong")
  /\ Known(Keep("a", "unicodeFromString", <<>>), "unicodeFromString")
  /\ Known(Keep("b", "unicodeFromString", <<>>), "unicodeFromString")
  /\ Known(Keep("testlist", "listNew", <<>>), "listNew")
  /\ Known(Keep("b", "longFromLong", <<>>), "longFromLong")
  /\ Known(Keep("c", "longFromLong", <<>>), "longFromLong")
  /\ Known(Keep("testlist", "listFromRail", <<>>), "listFromRail")
  /\ Known(Keep("testtuple", "tupleNew", <<>>), "tupleNew")
  /\ Known(Keep("testtuple", "tupleFromRail", <<>>), "tupleFromRail")
  /\ Known(Keep("called", "objectCallObject", <<"testfunc">>), "objectCallObject")
  /\ Known(Keep("pobj", "memoryViewFromMemoryChunk", <<"mca">>), "memoryViewFromMemoryChunk")
BY DEF Keep, Call

\* The statements that bind a key of locals.
LEMMA PutsFine ==
  /\ Known(Put("closures", "pobj"), "dictSetItemString")
  /\ Known(Put("avalues", "avalues"), "dictSetItemString")
  /\ Known(Put("tmpAggVal", "pObjAggVal"), "dictSetItemString")
  /\ Known(Put("ss", "pObjSS"), "dictSetItemString")
  /\ Fine(Put("multiplicand", "a")) /\ Put("multiplicand", "a").do = "dictSetItemString"
  /\ Fine(Put("strleft", "a")) /\ Put("strleft", "a").do = "dictSetItemString"
  /\ Fine(Put("strright", "b")) /\ Put("strright", "b").do = "dictSetItemString"
  /\ Known(Put("testlist", "testlist"), "dictSetItemString")
  /\ Known(Put("testtuple", "testtuple"), "dictSetItemString")
  /\ Known(Put("mview", "pobj"), "dictSetItemString")
BY DEF Put, Value, Call

\* The statements that run a program.
LEMMA RunsFine ==
  /\ Known(Run("loadClosures"), "runString") /\ Run("loadClosures").args[1] = "loadClosures"
  /\ Known(Run("aggregate"), "runString") /\ Run("aggregate").args[1] = "aggregate"
  /\ Known(Run("terminate"), "runString") /\ Run("terminate").args[1] = "terminate"
  /\ Known(Run("resultNumber"), "runString") /\ Run("resultNumber").args[1] = "resultNumber"
  /\ Known(Run("resultString"), "runString") /\ Run("resultString").args[1] = "resultString"
  /\ Known(Run("resultList"), "runString") /\ Run("resultList").args[1] = "resultList"
  /\ Known(Run("resultTuple"), "runString") /\ Run("resultTuple").args[1] = "resultTuple"
  /\ Known(Run("defTestfunc"), "runString") /\ Run("defTestfunc").args[1] = "defTestfunc"
  /\ Known(Run("resultBytes"), "runString") /\ Run("resultBytes").args[1] = "resultBytes"
  /\ Known(Run("printView"), "runString") /\ Run("printView").args[1] = "printView"
BY DEF Run, Value, Call

\* The statements that borrow what locals hold.
LEMMA TakesFine ==
  /\ Known(Take("retval"), "dictGetItemString") /\ Known(Take("result"), "dictGetItemString")
  /\ Known(Take("strleft"), "dictGetItemString") /\ Known(Take("strright"), "dictGetItemString")
  /\ Known(Take("testfunc"), "dictGetItemString")
BY DEF Take, Keep, Call

\* The statements that read a value.
LEMMA ValuesFine ==
  /\ Known(Value("bufferAsMemoryChunk", <<"retval">>), "bufferAsMemoryChunk")
  /\ Known(Value("make", <<>>), "make") /\ Known(Value("longAsLong", <<"retval">>), "longAsLong")
  /\ Known(Value("calltest", <<"po">>), "calltest") /\ Known(Value("longAsLong", <<"result">>), "longAsLong")
  /\ Known(Value("unicodeAsASCIIString", <<"result">>), "unicodeAsASCIIString")
  /\ Known(Value("objectStr", <<"called">>), "objectStr")
  /\ Known(Value("bytesAsMemoryChunk", <<"result">>), "bytesAsMemoryChunk")
BY DEF Value, Call

\* The statement that deletes the memory.
LEMMA CallsFine ==
  /\ Known(Call("no", "", "del", <<>>), "del")
BY DEF Call

\* The statements that make a rail.
LEMMA ElementsFine ==
  /\ Fine(Elements(<<"a", "b", "c">>)) /\ Elements(<<"a", "b", "c">>).do = "rail"
  /\ Known(Elements(<<"strleft", "strright">>), "rail")
BY DEF Elements, Call

\* The statements that read a rail.
LEMMA RailsFine ==
  /\ Known(Rail("listAsRail", <<"result">>), "listAsRail")
  /\ Known(Rail("tupleAsRail", <<"result">>), "tupleAsRail")
BY DEF Rail, Call

HIDE DEF Known, Fine, UsesNumbers, Making, Stealing, Writing, Others, ObjectNames, Kept, Borrowed, Stolen,
         Numbers, Commands, Keys, NoChunks

\* Every script is orderly.
LEMMA ScriptsCut ==
  \A x \in DOMAIN Script : \E c, d \in Nat : \A j \in DOMAIN Script[x] : Cut(x, j, c, d)
<1>0. \A j \in 1 .. 14 : j = 1 \/ j = 2 \/ j = 3 \/ j = 4 \/ j = 5 \/ j = 6 \/ j = 7 \/ j = 8 \/ j = 9
          \/ j = 10 \/ j = 11 \/ j = 12 \/ j = 13 \/ j = 14
  OBVIOUS
<1>1. \A j \in DOMAIN Script["integratePython"] : Cut("integratePython", j, 7, 7)
  BY <1>0, Script_integratePython, KeepsFine, PutsFine, RunsFine DEF Prologued, Cut, Placed, Known, Writing, Stealing
<1>2. \A j \in DOMAIN Script["callAggregator"] : Cut("callAggregator", j, 4, 6)
  BY <1>0, Script_callAggregator, KeepsFine, PutsFine, RunsFine, TakesFine, ValuesFine DEF Cut, Placed, Known,
      Writing, Stealing
<1>3. \A j \in DOMAIN Script["callTerminator"] : Cut("callTerminator", j, 7, 10)
  <2>1. LET s == Script["callTerminator"] IN
        /\ Known(s[1], "make") /\ Known(s[2], "memoryViewFromMemoryChunk") /\ Known(s[3], "longFromLong")
        /\ Known(s[4], "dictSetItemString") /\ Known(s[5], "dictSetItemString")
        /\ Known(s[6], "runString") /\ s[6].args[1] = "terminate"
        /\ Known(s[7], "dictGetItemString") /\ Known(s[8], "longAsLong") /\ Known(s[9], "del")
    BY Script_callTerminator, KeepsFine, PutsFine, RunsFine, TakesFine, ValuesFine, CallsFine
  <2>2. \A j \in 1 .. 9 : j # 6 => Cut("callTerminator", j, 7, 10)
    BY <1>0, <2>1 DEF Cut, Placed, Known, Writing, Stealing
  <2>3. Cut("callTerminator", 6, 7, 10)
    BY <2>1 DEF Cut, Placed, Known, Writing, Stealing
  <2> QED
    BY <2>2, <2>3, Script_callTerminator
<1>4. \A j \in DOMAIN Script["test_importFile"] : Cut("test_importFile", j, 3, 3)
  BY <1>0, Script_test_importFile, KeepsFine, ValuesFine DEF Cut, Placed, Known, Writing, Stealing
<1>5. \A j \in DOMAIN Script["test_dictLong"] : Cut("test_dictLong", j, 7, 9)
  BY <1>0, Script_test_dictLong, KeepsFine, PutsFine, RunsFine, TakesFine, ValuesFine DEF Prologued, Cut,
      Placed, Known, Writing, Stealing
<1>6. \A j \in DOMAIN Script["test_dictString"] : Cut("test_dictString", j, 9, 11)
  BY <1>0, Script_test_dictString, KeepsFine, PutsFine, RunsFine, TakesFine, ValuesFine DEF Prologued, Cut,
      Placed, Known, Writing, Stealing
<1>7. \A j \in DOMAIN Script["test_listNew"] : Cut("test_listNew", j, 7, 4)
  BY <1>0, Script_test_listNew, KeepsFine, PutsFine, RunsFine, TakesFine, ValuesFine DEF Prologued, Cut, Placed,
      Known, Writing, Stealing
<1>8. \A j \in DOMAIN Script["test_listFromRail"] : Cut("test_listFromRail", j, 11, 8)
  BY <1>0, Script_test_listFromRail, ElementsFine, KeepsFine, PutsFine, RunsFine, TakesFine,
      ValuesFine DEF Prologued, Cut, Placed, Known, Writing, Stealing
<1>9. \A j \in DOMAIN Script["test_tupleNew"] : Cut("test_tupleNew", j, 7, 4)
  BY <1>0, Script_test_tupleNew, KeepsFine, PutsFine, RunsFine, TakesFine, ValuesFine DEF Prologued, Cut,
      Placed, Known, Writing, Stealing
<1>10. \A j \in DOMAIN Script["test_tupleFromRail"] : Cut("test_tupleFromRail", j, 11, 8)
  BY <1>0, Script_test_tupleFromRail, ElementsFine, KeepsFine, PutsFine, RunsFine, TakesFine,
      ValuesFine DEF Prologued, Cut, Placed, Known, Writing, Stealing
<1>11. \A j \in DOMAIN Script["test_listAsRail"] : Cut("test_listAsRail", j, 5, 7)
  BY <1>0, Script_test_listAsRail, KeepsFine, RailsFine, RunsFine, TakesFine DEF Prologued, Cut, Placed, Known,
      Writing, Stealing
<1>12. \A j \in DOMAIN Script["test_tupleAsRail"] : Cut("test_tupleAsRail", j, 5, 7)
  BY <1>0, Script_test_tupleAsRail, KeepsFine, RailsFine, RunsFine, TakesFine DEF Prologued, Cut, Placed, Known,
      Writing, Stealing
<1>13. \A j \in DOMAIN Script["test_objectCallObjectFunc"] : Cut("test_objectCallObjectFunc", j, 9, 13)
  BY <1>0, Script_test_objectCallObjectFunc, ElementsFine, KeepsFine, PutsFine, RunsFine, TakesFine,
      ValuesFine DEF Prologued, Cut, Placed, Known, Writing, Stealing
<1>14. \A j \in DOMAIN Script["test_bytesAsMemoryChunk"] : Cut("test_bytesAsMemoryChunk", j, 5, 7)
  BY <1>0, Script_test_bytesAsMemoryChunk, KeepsFine, RunsFine, TakesFine, ValuesFine DEF Prologued, Cut,
      Placed, Known, Writing, Stealing
<1>15. \A j \in DOMAIN Script["test_memoryViewFromMemoryChunkLong"] : Cut("test_memoryViewFromMemoryChunkLong",
           j, 8, 8)
  BY <1>0, Script_test_memoryViewFromMemoryChunkLong, KeepsFine, PutsFine, RunsFine, ValuesFine DEF Prologued,
      Cut, Placed, Known, Writing, Stealing
<1> QED
  BY <1>1, <1>2, <1>3, <1>4, <1>5, <1>6, <1>7, <1>8, <1>9, <1>10, <1>11, <1>12, <1>13, <1>14, <1>15, ScriptNames

-----------------------------------------------------------------------------
(***************************************************************************)
(* The registers.                                                          *)
(***************************************************************************)
\* The registers hold numbers of references.
LEMMA SumsAre ==
  ASSUME NEW r, NEW x
  PROVE  InRoots(r, x) \in Nat /\ InRegisters(r, x) \in Nat /\ InNumbers(r, x) \in Nat
<1>1. InRoots(r, x) \in Nat
  BY OneIs DEF InRoots
<1>2. InNumbers(r, x) \in Nat
  BY OneIs DEF InNumbers
<1>3. InRegisters(r, x) \in Nat
  BY OneIs DEF InRegisters
<1> QED
  BY <1>1, <1>2, <1>3

\* The ledgers of the registers.
LEMMA RegistersAre ==
  ASSUME NEW r
  PROVE  /\ Registers(r) \in Ledger /\ Rooted(r) \in Ledger /\ Without(r) \in Ledger
         /\ \A x \in Nat : /\ Registers(r)[x] = InRoots(r, x) + InRegisters(r, x) + InNumbers(r, x)
                           /\ Without(r)[x] = InRoots(r, x) + InRegisters(r, x)
                           /\ Rooted(r)[x] = InRoots(r, x)
         /\ Below(Rooted(r), Registers(r)) /\ Below(Rooted(r), Without(r)) /\ Below(Without(r), Registers(r))
<1>1. \A x \in Nat : InRoots(r, x) \in Nat /\ InRegisters(r, x) \in Nat /\ InNumbers(r, x) \in Nat
  BY SumsAre
<1>2. \A x \in Nat : /\ InRoots(r, x) + InRegisters(r, x) + InNumbers(r, x) \in Nat
                     /\ InRoots(r, x) + InRegisters(r, x) \in Nat
                     /\ InRoots(r, x) <= InRoots(r, x) + InRegisters(r, x)
                     /\ InRoots(r, x) + InRegisters(r, x) <= InRoots(r, x) + InRegisters(r, x) + InNumbers(r, x)
                     /\ InRoots(r, x) <= InRoots(r, x) + InRegisters(r, x) + InNumbers(r, x)
  BY <1>1
<1>3. /\ Registers(r) \in Ledger /\ Rooted(r) \in Ledger /\ Without(r) \in Ledger
      /\ \A x \in Nat : /\ Registers(r)[x] = InRoots(r, x) + InRegisters(r, x) + InNumbers(r, x)
                        /\ Without(r)[x] = InRoots(r, x) + InRegisters(r, x)
                        /\ Rooted(r)[x] = InRoots(r, x)
  BY <1>1, <1>2 DEF Registers, Rooted, Without, Ledger
<1> QED
  BY <1>2, <1>3 DEF Below

\* What the registers hold is owned.
LEMMA HeldOwned ==
  ASSUME NEW r, r \in [ObjectNames -> Nat]
  PROVE  /\ Rooted(r)[MainModule] # 0 /\ Rooted(r)[None] # 0 /\ Rooted(r)[ExceptionType] # 0
         /\ Without(r)[MainModule] # 0 /\ Without(r)[None] # 0 /\ Without(r)[ExceptionType] # 0
         /\ Registers(r)[MainModule] # 0 /\ Registers(r)[None] # 0 /\ Registers(r)[ExceptionType] # 0
         /\ r["locals"] # 0 => Rooted(r)[r["locals"]] # 0 /\ Registers(r)[r["locals"]] # 0
         /\ \A n \in Owned : r[n] # 0 => Registers(r)[r[n]] # 0
         /\ Unstolen(r) => \A n \in Numbers : r[n] # 0 => Registers(r)[r[n]] # 0
<1>1. ASSUME NEW x \in Nat, InRoots(r, x) # 0 PROVE Rooted(r)[x] # 0 /\ Without(r)[x] # 0 /\ Registers(r)[x] # 0
  <2>1. InRoots(r, x) \in Nat /\ InRegisters(r, x) \in Nat /\ InNumbers(r, x) \in Nat
    BY SumsAre
  <2> QED
    BY <1>1, <2>1, RegistersAre
<1>2. /\ MainModule \in Nat /\ None \in Nat /\ ExceptionType \in Nat
      /\ MainModule # 0 /\ None # 0 /\ ExceptionType # 0
  BY DEF MainModule, None, ExceptionType
<1>3. \A x : x # 0 /\ x \in {MainModule, None, ExceptionType, r["locals"]} => InRoots(r, x) # 0
  <2> SUFFICES ASSUME NEW x, x # 0, x \in {MainModule, None, ExceptionType, r["locals"]} PROVE InRoots(r, x) # 0
    OBVIOUS
  <2>1. /\ One(x, MainModule) \in Nat /\ One(x, None) \in Nat /\ One(x, ExceptionType) \in Nat
        /\ One(x, r["locals"]) \in Nat
        /\ One(x, MainModule) = 1 \/ One(x, None) = 1 \/ One(x, ExceptionType) = 1 \/ One(x, r["locals"]) = 1
    BY OneIs
  <2> QED
    BY <2>1 DEF InRoots
<1>4. ASSUME NEW n \in Owned, r[n] # 0 PROVE Registers(r)[r[n]] # 0
  <2> DEFINE x == r[n]
  <2>1. n \in {"pobj", "avalues", "pObjAggVal", "pObjSS", "po", "testlist", "testtuple", "called"} /\ x \in Nat
    BY DEF Owned, ObjectNames, Kept, Borrowed, Numbers
  <2>2. InRegisters(r, x) # 0
    <3>1. /\ One(x, r["pobj"]) \in Nat /\ One(x, r["avalues"]) \in Nat /\ One(x, r["pObjAggVal"]) \in Nat
          /\ One(x, r["pObjSS"]) \in Nat /\ One(x, r["po"]) \in Nat /\ One(x, r["testlist"]) \in Nat
          /\ One(x, r["testtuple"]) \in Nat /\ One(x, r["called"]) \in Nat /\ One(x, r[n]) = 1
      BY <1>4, OneIs
    <3> HIDE DEF x
    <3>2. \/ One(x, r["pobj"]) = 1 \/ One(x, r["avalues"]) = 1 \/ One(x, r["pObjAggVal"]) = 1
          \/ One(x, r["pObjSS"]) = 1 \/ One(x, r["po"]) = 1 \/ One(x, r["testlist"]) = 1
          \/ One(x, r["testtuple"]) = 1 \/ One(x, r["called"]) = 1
      BY <2>1, <3>1
    <3> QED
      BY <3>1, <3>2 DEF InRegisters
  <2>3. InRoots(r, x) \in Nat /\ InRegisters(r, x) \in Nat /\ InNumbers(r, x) \in Nat
    BY SumsAre
  <2> HIDE DEF x
  <2>4. Registers(r)[x] # 0
    BY <2>1, <2>2, <2>3, RegistersAre
  <2> QED
    BY <2>4 DEF x
<1>5. ASSUME Unstolen(r), NEW n \in Numbers, r[n] # 0 PROVE Registers(r)[r[n]] # 0
  <2> DEFINE x == r[n]
  <2>1. n \in {"a", "b", "c"} /\ x \in Nat
    BY DEF ObjectNames, Numbers
  <2>2. InNumbers(r, x) # 0
    <3>1. One(x, r["a"]) \in Nat /\ One(x, r["b"]) \in Nat /\ One(x, r["c"]) \in Nat /\ One(x, r[n]) = 1
      BY <1>5, OneIs
    <3> HIDE DEF x
    <3>2. One(x, r["a"]) = 1 \/ One(x, r["b"]) = 1 \/ One(x, r["c"]) = 1
      BY <2>1, <3>1
    <3>3. InNumbers(r, x) = One(x, r["a"]) + One(x, r["b"]) + One(x, r["c"])
      BY <1>5 DEF InNumbers
    <3>4. \A i, j, k \in Nat : i = 1 \/ j = 1 \/ k = 1 => i + j + k # 0
      OBVIOUS
    <3>5. One(x, r["a"]) \in Nat /\ One(x, r["b"]) \in Nat /\ One(x, r["c"]) \in Nat
      BY <3>1
    <3> QED
      BY <3>2, <3>3, <3>4, <3>5
  <2>3. InRoots(r, x) \in Nat /\ InRegisters(r, x) \in Nat /\ InNumbers(r, x) \in Nat
    BY SumsAre
  <2> HIDE DEF x
  <2>4. Registers(r)[x] # 0
    BY <2>1, <2>2, <2>3, RegistersAre
  <2> QED
    BY <2>4 DEF x
<1>6. r["locals"] \in Nat
  BY DEF ObjectNames
<1> QED
  BY <1>1, <1>2, <1>3, <1>4, <1>5, <1>6

\* A register is written.
LEMMA RegisterWritten ==
  ASSUME NEW r, r \in [ObjectNames -> Nat], NEW n \in ObjectNames, NEW v \in Nat
  PROVE  LET s == [r EXCEPT ![n] = v] IN
         /\ s \in [ObjectNames -> Nat] /\ s[n] = v /\ \A m \in ObjectNames : m # n => s[m] = r[m]
BY DEF ObjectNames

\* What the registers hold when one of them is written.
LEMMA RegistersWritten ==
  ASSUME NEW r, r \in [ObjectNames -> Nat], NEW n \in ObjectNames, NEW v \in Nat,
         NEW s, s[n] = v, \A m \in ObjectNames : m # n => s[m] = r[m]
  PROVE  /\ n \in Borrowed \cup {"main", "globals"} => Below(Registers(s), Registers(r))
         /\ n \in Makeable \cup {"locals"} => Below(Registers(s), And(Registers(r), v))
         /\ n \in Stolen /\ v # 0 => Below(Registers(s), And(Without(r), v))
<1>1. ASSUME NEW x \in Nat
      PROVE  /\ Registers(r)[x] = InRoots(r, x) + InRegisters(r, x) + InNumbers(r, x)
             /\ Registers(s)[x] = InRoots(s, x) + InRegisters(s, x) + InNumbers(s, x)
             /\ Without(r)[x] = InRoots(r, x) + InRegisters(r, x)
             /\ And(Registers(r), v)[x] = Registers(r)[x] + One(x, v)
             /\ And(Without(r), v)[x] = Without(r)[x] + One(x, v)
             /\ InRoots(r, x) \in Nat /\ InRegisters(r, x) \in Nat /\ InNumbers(r, x) \in Nat /\ One(x, v) \in Nat
             /\ InRoots(s, x) \in Nat /\ InRegisters(s, x) \in Nat /\ InNumbers(s, x) \in Nat
  BY RegistersAre, LedgerMore, SumsAre, OneIs
<1>2. ASSUME n # "locals", NEW x PROVE InRoots(s, x) = InRoots(r, x)
  <2>1. s["locals"] = r["locals"]
    BY <1>2 DEF ObjectNames
  <2> QED
    BY <2>1 DEF InRoots
<1>3. ASSUME n \notin Owned, NEW x PROVE InRegisters(s, x) = InRegisters(r, x)
  <2>1. /\ s["pobj"] = r["pobj"] /\ s["avalues"] = r["avalues"] /\ s["pObjAggVal"] = r["pObjAggVal"]
        /\ s["pObjSS"] = r["pObjSS"] /\ s["po"] = r["po"] /\ s["testlist"] = r["testlist"]
        /\ s["testtuple"] = r["testtuple"] /\ s["called"] = r["called"]
    BY <1>3 DEF ObjectNames, Owned, Kept, Borrowed, Numbers
  <2> QED
    BY <2>1 DEF InRegisters
<1>4. ASSUME n \notin Stolen, n \notin Numbers, NEW x PROVE InNumbers(s, x) = InNumbers(r, x)
  <2>1. /\ s["a"] = r["a"] /\ s["b"] = r["b"] /\ s["c"] = r["c"] /\ s["testlist"] = r["testlist"]
        /\ s["testtuple"] = r["testtuple"] /\ s["called"] = r["called"]
    BY <1>4 DEF ObjectNames, Stolen, Numbers
  <2> QED
    BY <2>1 DEF InNumbers, Unstolen
<1>5. ASSUME n = "locals", NEW x PROVE InRoots(s, x) <= InRoots(r, x) + One(x, v)
  <2>1. /\ One(x, MainModule) \in Nat /\ One(x, None) \in Nat /\ One(x, ExceptionType) \in Nat
        /\ One(x, r["locals"]) \in Nat /\ One(x, v) \in Nat /\ s["locals"] = v
    BY <1>5, OneIs
  <2> QED
    BY <2>1 DEF InRoots
<1>6. ASSUME n \in Owned, NEW x PROVE InRegisters(s, x) <= InRegisters(r, x) + One(x, v)
  <2>1. n \in {"pobj", "avalues", "pObjAggVal", "pObjSS", "po", "testlist", "testtuple", "called"}
    BY <1>6 DEF Owned, ObjectNames, Kept, Borrowed, Numbers
  <2>2. \A m \in {"pobj", "avalues", "pObjAggVal", "pObjSS", "po", "testlist", "testtuple", "called"} :
          One(x, r[m]) \in Nat /\ One(x, v) \in Nat /\ (IF m = n THEN One(x, s[m]) = One(x, v) ELSE One(x,
              s[m]) = One(x, r[m]))
    BY OneIs DEF ObjectNames
  <2> QED
    BY <2>1, <2>2 DEF InRegisters
<1>7. ASSUME n \in Numbers, NEW x PROVE InNumbers(s, x) <= InNumbers(r, x) + One(x, v)
  <2>1. /\ s["testlist"] = r["testlist"] /\ s["testtuple"] = r["testtuple"] /\ s["called"] = r["called"]
        /\ n \in {"a", "b", "c"}
    BY <1>7 DEF ObjectNames, Numbers
  <2>2. \A m \in {"a", "b", "c"} :
          One(x, r[m]) \in Nat /\ One(x, v) \in Nat /\ (IF m = n THEN One(x, s[m]) = One(x, v) ELSE One(x,
              s[m]) = One(x, r[m]))
    BY OneIs DEF ObjectNames
  <2> QED
    BY <2>1, <2>2 DEF InNumbers, Unstolen
<1>8. ASSUME n \in Stolen, v # 0, NEW x PROVE InNumbers(s, x) = 0
  BY <1>8 DEF InNumbers, Unstolen, Stolen, Null
<1>9. CASE n \in Borrowed \cup {"main", "globals"}
  <2>1. n # "locals" /\ n \notin Owned /\ n \notin Stolen /\ n \notin Numbers /\ n \notin Makeable
    BY <1>9 DEF Borrowed, Owned, Stolen, Numbers, Makeable, Kept
  <2>2. \A x \in Nat : Registers(s)[x] <= Registers(r)[x]
    BY <1>1, <1>2, <1>3, <1>4, <2>1
  <2> QED
    BY <2>1, <2>2 DEF Below
<1>10. CASE n = "locals"
  <2>1. n \notin Owned /\ n \notin Stolen /\ n \notin Numbers /\ n \notin Borrowed
    BY <1>10 DEF Borrowed, Owned, Stolen, Numbers, Kept
  <2>2. ASSUME NEW x \in Nat PROVE Registers(s)[x] <= And(Registers(r), v)[x]
    <3>1. InRoots(s, x) <= InRoots(r, x) + One(x, v)
      BY <1>5, <1>10
    <3>2. InRegisters(s, x) = InRegisters(r, x) /\ InNumbers(s, x) = InNumbers(r, x)
      BY <1>3, <1>4, <2>1
    <3>3. /\ Registers(s)[x] = InRoots(s, x) + InRegisters(s, x) + InNumbers(s, x)
          /\ And(Registers(r), v)[x] = InRoots(r, x) + InRegisters(r, x) + InNumbers(r, x) + One(x, v)
          /\ InRoots(r, x) \in Nat /\ InRegisters(r, x) \in Nat /\ InNumbers(r, x) \in Nat /\ One(x, v) \in Nat
          /\ InRoots(s, x) \in Nat
      BY <1>1
    <3>4. \A i, j, k, m, n1 \in Nat : n1 <= i + m => n1 + j + k <= i + j + k + m
      OBVIOUS
    <3>5. InRoots(s, x) + InRegisters(r, x) + InNumbers(r, x)
            <= InRoots(r, x) + InRegisters(r, x) + InNumbers(r, x) + One(x, v)
      BY <3>1, <3>3, <3>4
    <3> QED
      BY <3>2, <3>3, <3>5
  <2> QED
    BY <1>10, <2>1, <2>2 DEF Below
<1>11. CASE n \in Numbers
  <2>1. n # "locals" /\ n \notin Owned /\ n \notin Stolen /\ n \notin Borrowed /\ n \notin {"main", "globals"}
    BY <1>11 DEF Borrowed, Owned, Stolen, Numbers, Kept
  <2>2. \A x \in Nat : Registers(s)[x] <= And(Registers(r), v)[x]
    BY <1>1, <1>2, <1>3, <1>7, <1>11, <2>1
  <2> QED
    BY <2>1, <2>2 DEF Below
<1>12. CASE n \in Owned \ Stolen
  <2>1. n # "locals" /\ n \notin Numbers /\ n \notin Borrowed /\ n \notin {"main", "globals"}
    BY <1>12 DEF Borrowed, Owned, Stolen, Numbers, Kept
  <2>2. ASSUME NEW x \in Nat PROVE Registers(s)[x] <= And(Registers(r), v)[x]
    <3>1. /\ InRoots(s, x) = InRoots(r, x) /\ InNumbers(s, x) = InNumbers(r, x)
          /\ InRegisters(s, x) <= InRegisters(r, x) + One(x, v)
      BY <1>2, <1>4, <1>6, <1>12, <2>1
    <3>2. /\ Registers(r)[x] = InRoots(r, x) + InRegisters(r, x) + InNumbers(r, x)
          /\ Registers(s)[x] = InRoots(s, x) + InRegisters(s, x) + InNumbers(s, x)
          /\ Without(r)[x] = InRoots(r, x) + InRegisters(r, x)
          /\ And(Registers(r), v)[x] = Registers(r)[x] + One(x, v)
          /\ And(Without(r), v)[x] = Without(r)[x] + One(x, v)
          /\ InRoots(r, x) \in Nat /\ InRegisters(r, x) \in Nat /\ InNumbers(r, x) \in Nat /\ One(x, v) \in Nat
          /\ InRoots(s, x) \in Nat /\ InRegisters(s, x) \in Nat /\ InNumbers(s, x) \in Nat
      BY <1>1
    <3> QED
      BY <3>1, <3>2
  <2> QED
    BY <1>12, <2>1, <2>2 DEF Below
<1>13. CASE n \in Stolen
  <2>1. n # "locals" /\ n \in Owned /\ n \notin Borrowed /\ n \notin {"main", "globals"} /\ n \notin Makeable
    BY <1>13 DEF Borrowed, Owned, Stolen, Numbers, Kept, Makeable, ObjectNames
  <2>2. ASSUME v # 0, NEW x \in Nat PROVE Registers(s)[x] <= And(Without(r), v)[x]
    <3>1. InRoots(s, x) = InRoots(r, x) /\ InRegisters(s, x) <= InRegisters(r, x) + One(x, v) /\ InNumbers(s, x) = 0
      BY <1>2, <1>6, <1>8, <1>13, <2>1, <2>2
    <3>2. /\ Registers(r)[x] = InRoots(r, x) + InRegisters(r, x) + InNumbers(r, x)
          /\ Registers(s)[x] = InRoots(s, x) + InRegisters(s, x) + InNumbers(s, x)
          /\ Without(r)[x] = InRoots(r, x) + InRegisters(r, x)
          /\ And(Registers(r), v)[x] = Registers(r)[x] + One(x, v)
          /\ And(Without(r), v)[x] = Without(r)[x] + One(x, v)
          /\ InRoots(r, x) \in Nat /\ InRegisters(r, x) \in Nat /\ InNumbers(r, x) \in Nat /\ One(x, v) \in Nat
          /\ InRoots(s, x) \in Nat /\ InRegisters(s, x) \in Nat /\ InNumbers(s, x) \in Nat
      BY <1>1
    <3> QED
      BY <3>1, <3>2
  <2> QED
    BY <2>1, <2>2 DEF Below
<1> QED
  BY <1>9, <1>10, <1>11, <1>12, <1>13 DEF Owned, Makeable, Kept

\* What the invariant says when a call is under way.
LEMMA CallingIs ==
  ASSUME Calling
  PROVE  /\ regs \in [ObjectNames -> Nat] /\ \A r \in ObjectNames : regs[r] <= Len(py.heap)
         /\ Ready(py, Registers(regs)) /\ Registers(regs) \in Ledger /\ Roots /\ InCall /\ ChunksLive
         /\ frame.script \in DOMAIN Script /\ frame.pc \in DOMAIN Statements /\ frame.pc \in Nat
         /\ Fine(CurrentStatement) /\ Placed(frame.script, frame.pc, CurrentStatement)
<1>1. PythonTypes /\ Counted(py, Own) /\ Roots /\ ChunksLive /\ InCall /\ Running
  BY DEF Calling, PythonInv
<1>2. regs \in [ObjectNames -> Nat] /\ (\A r \in ObjectNames : regs[r] <= Len(py.heap))
      /\ frame.script \in DOMAIN Script /\ frame.pc \in Nat
  BY <1>1 DEF PythonTypes
<1>3. frame.pc \in DOMAIN Statements /\ frame.exc = NoException
  BY <1>1 DEF Running
<1> DEFINE own == Registers(regs)
           own1 == AndError(own, py.err)
<1>4. own \in Ledger /\ own1 \in Ledger
  BY RegistersAre, LedgerMore
<1>5. Own = AndError(own1, NoException)
  BY <1>1, <1>3 DEF Own
<1>6. own[ExceptionType] # 0 /\ own[None] # 0
  BY <1>2, HeldOwned
<1> HIDE DEF own, own1
<1>7. Counted(py, own1)
  <2>1. AndError(own1, NoException) \in Ledger /\ Below(own1, AndError(own1, NoException))
    BY <1>4, ErrorsKept
  <2> QED
    BY <1>1, <1>4, <1>5, <2>1, LessCounted
<1>8. Ready(py, own)
  BY <1>6, <1>7 DEF Ready, own1
<1>9. Fine(CurrentStatement) /\ Placed(frame.script, frame.pc, CurrentStatement)
  BY <1>2, <1>3, ScriptsCut DEF Cut, Statements, CurrentStatement
<1> QED
  BY <1>1, <1>2, <1>3, <1>4, <1>8, <1>9 DEF own

\* A function that ends as it should leaves the counts right, whether it throws or not.
LEMMA EndsEffect ==
  ASSUME NEW i, NEW o, NEW own \in Ledger, NEW own2 \in Ledger, Ends(py, own, own2, Writer(i), o),
         Below(Rooted(regs), own), o.exc = NoException => Below(Registers(Written(i, o)), own2),
         o.exc = NoException /\ i.keep = "object" => o.ret \in Nat /\ o.ret <= Len(o.py.heap)
  PROVE  Effect(i, o)
<1>1. o.exc \in ExceptionRecord /\ Grows(py.heap, o.py.heap, Writer(i)) /\ o.py.mem = py.mem
  BY DEF Ends
<1>2. ASSUME o.exc = NoException PROVE Counted(o.py, AndError(Registers(Written(i, o)), o.py.err))
  <2>1. Counted(o.py, AndError(own2, o.py.err))
    BY <1>2 DEF Ends, Leaves
  <2>2. Registers(Written(i, o)) \in Ledger
    BY RegistersAre
  <2> QED
    BY <1>2, <2>1, <2>2, LeavesLess
<1>3. ASSUME o.exc # NoException PROVE Counted(o.py, AndError(AndError(Rooted(regs), o.py.err), o.exc))
  <2> DEFINE f == AndError(Rooted(regs), o.py.err)
             g == AndError(own, o.py.err)
  <2>1. Counted(o.py, AndError(g, o.exc))
    BY <1>3 DEF Ends, Leaves
  <2>2. Rooted(regs) \in Ledger
    BY RegistersAre
  <2>3. f \in Ledger /\ g \in Ledger /\ Below(f, g)
    BY <2>2, LedgerMore, LeavesLess
  <2> HIDE DEF f, g
  <2>4. Counted(o.py, AndError(f, o.exc))
    BY <2>1, <2>3, LeavesLess
  <2> QED
    BY <2>4 DEF f
<1> QED
  BY <1>1, <1>2, <1>3 DEF Effect

\* What a living container holds exists.
LEMMA ItemIs ==
  ASSUME NEW p, NEW own \in Ledger, Counted(p, own), NEW a \in Nat, a # 0, own[a] # 0
  PROVE  \A key : Item(p.heap, a, key) \in Nat /\ Item(p.heap, a, key) <= Len(p.heap)
<1>1. a \in 1 .. Len(p.heap) /\ p.heap[a] \in ObjectType /\ Len(p.heap) \in Nat /\ p.heap \in Seq(ObjectType)
      /\ Closed(p.heap)
  BY OwnedIs, CountedLen, CountedParts, SolidParts
<1>2. p.heap[a].items \in ItemsType
  BY <1>1 DEF ObjectType
<1>3. \A k \in DOMAIN p.heap[a].items : p.heap[a].items[k] \in Nat
  BY <1>2 DEF ItemsType
<1>4. a \in DOMAIN p.heap
  BY <1>1
<1>5. \A k \in DOMAIN p.heap[a].items : p.heap[a].items[k] <= Len(p.heap)
  BY <1>1, <1>4 DEF Closed
<1> QED
  BY <1>1, <1>3, <1>5 DEF Item, Null

\* Nobody owns less than he owns.
LEMMA BelowSelf == \A own \in Ledger : Below(own, own)
<1> SUFFICES ASSUME NEW own \in Ledger, NEW x \in Nat PROVE own[x] <= own[x]
  BY DEF Below
<1> QED
  BY LedgerIs

\* Nothing is kept, or something that is not counted.
LEMMA PlainEffect ==
  ASSUME Calling, NEW i, i = CurrentStatement, NEW o, Ends(py, Registers(regs), Registers(regs), 0, o),
         i.do \notin {"dictSetItemString", "runString"},
         \/ i.keep # "object"
         \/ /\ i.to \in Borrowed \cup {"main", "globals"}
            /\ o.exc = NoException => o.ret \in Nat /\ o.ret <= Len(o.py.heap)
  PROVE  Effect(i, o)
<1>1. /\ Registers(regs) \in Ledger /\ Below(Rooted(regs), Registers(regs)) /\ Below(Registers(regs), Registers(regs))
      /\ regs \in [ObjectNames -> Nat]
  BY CallingIs, RegistersAre, BelowSelf
<1>2. Writer(i) = 0
  BY DEF Writer
<1>3. CASE i.keep # "object"
  <2>1. Written(i, o) = regs
    BY <1>3 DEF Written
  <2> QED
    BY <1>1, <1>2, <1>3, <2>1, EndsEffect
<1>4. CASE /\ i.keep = "object" /\ i.to \in Borrowed \cup {"main", "globals"}
           /\ o.exc = NoException => o.ret \in Nat /\ o.ret <= Len(o.py.heap)
  <2>1. i.to \in ObjectNames
    BY <1>4 DEF Borrowed, ObjectNames
  <2>2. ASSUME o.exc = NoException PROVE Below(Registers(Written(i, o)), Registers(regs))
    <3> DEFINE s == Written(i, o)
    <3>1. o.ret \in Nat /\ s = [regs EXCEPT ![i.to] = o.ret]
      BY <1>4, <2>2 DEF Written
    <3>2. s[i.to] = o.ret /\ \A m \in ObjectNames : m # i.to => s[m] = regs[m]
      BY <1>1, <2>1, <3>1, RegisterWritten
    <3> HIDE DEF s
    <3>3. Below(Registers(s), Registers(regs))
      BY <1>1, <1>4, <2>1, <3>1, <3>2, RegistersWritten
    <3> QED
      BY <3>3 DEF s
  <2> QED
    BY <1>1, <1>2, <1>4, <2>2, EndsEffect
<1> QED
  BY <1>3, <1>4

-----------------------------------------------------------------------------
(***************************************************************************)
(* What the statements do when nothing is thrown.                          *)
(***************************************************************************)
\* A statement that is executed is one of the script.
LEMMA DoingIs ==
  ASSUME NEW i, NEW o, Doing(i, o)
  PROVE  Calling /\ i = CurrentStatement /\ Fine(i) /\ o \in Do(i) /\ Ready(py, Registers(regs))
      /\ Registers(regs) \in Ledger
BY CallingIs DEF Doing

\* A statement that only looks.
LEMMA LookDone ==
  ASSUME NEW i, NEW o, Doing(i, o), i.do \in {"rail", "listAsRail", "tupleAsRail", "unicodeAsASCIIString",
      "longAsLong",
                                              "objectStr", "bytesAsMemoryChunk", "bufferAsMemoryChunk"}
  PROVE  Outcome(i, o)
<1>1. Calling /\ i = CurrentStatement /\ Fine(i) /\ o \in Do(i) /\ Ready(py, Registers(regs))
          /\ Registers(regs) \in Ledger
  BY DoingIs
<1>2. i.keep # "object" /\ i.do \notin {"dictSetItemString", "runString"}
  BY <1>1 DEF Fine, Others
<1> DEFINE a == regs[i.args[1]]
<1>3. CASE i.do = "rail"
  <2>1. o \in Ok(py, [n \in DOMAIN i.args |-> regs[i.args[n]]])
    BY <1>1, <1>3 DEF Do
  <2>2. Plain(py, o) /\ o.ret = [n \in DOMAIN i.args |-> regs[i.args[n]]]
    <3> DEFINE ret == [n \in DOMAIN i.args |-> regs[i.args[n]]]
    <3>1. o \in Ok(py, ret)
      BY <2>1
    <3> HIDE DEF ret
    <3>2. Plain(py, o) /\ o.ret = ret
      BY <3>1, Readings
    <3> QED
      BY <3>2 DEF ret
  <2>3. Effect(i, o)
    BY <1>1, <1>2, <2>2, PlainEnds, PlainEffect
  <2> QED
    BY <1>3, <2>2, <2>3 DEF Outcome, Does, Making, Stealing
<1>4. CASE i.do \in {"longAsLong", "bufferAsMemoryChunk"}
  <2>1. o \in longAsLong(py, a) \/ o \in bufferAsMemoryChunk(py, a)
    BY <1>1, <1>4 DEF Do
  <2>2. Plain(py, o) /\ (o.exc = NoException /\ a # 0 => o.ret = py.heap[a].data)
    BY <2>1, Readings
  <2>3. Effect(i, o)
    BY <1>1, <1>2, <2>2, PlainEnds, PlainEffect
  <2> QED
    BY <1>4, <2>2, <2>3 DEF Outcome, Does, Making, Stealing
<1>5. CASE i.do \in {"listAsRail", "tupleAsRail", "unicodeAsASCIIString", "objectStr", "bytesAsMemoryChunk"}
  <2>1. \/ o \in asRail(py, "list", a) \/ o \in asRail(py, "tuple", a) \/ o \in unicodeAsASCIIString(py, a)
        \/ o \in objectStr(py, a) \/ o \in bytesAsMemoryChunk(py, a)
    BY <1>1, <1>5 DEF Do, listAsRail, tupleAsRail
  <2>2. Plain(py, o)
    BY <2>1, Readings
  <2>3. Effect(i, o)
    BY <1>1, <1>2, <2>2, PlainEnds, PlainEffect
  <2> QED
    BY <1>5, <2>2, <2>3 DEF Outcome, Does, Making, Stealing
<1> QED
  BY <1>3, <1>4, <1>5

\* The function of an imported module is called.
LEMMA CalltestDone ==
  ASSUME NEW i, NEW o, Doing(i, o), i.do = "calltest"
  PROVE  Outcome(i, o)
<1>1. Calling /\ i = CurrentStatement /\ Fine(i) /\ o \in Do(i) /\ Ready(py, Registers(regs))
          /\ Registers(regs) \in Ledger
  BY DoingIs
<1>2. i.keep # "object"
  BY <1>1 DEF Fine, Others
<1>3. o \in calltest(py, regs[i.args[1]])
  BY <1>1 DEF Do
<1>4. Effect(i, o)
  BY <1>1, <1>2, <1>3, CalltestEnds, PlainEffect
<1> QED
  BY <1>4 DEF Outcome, Does, Making, Stealing

\* The memory is no part of the heap.
LEMMA MemoryDone ==
  ASSUME NEW i, NEW o, Doing(i, o), i.do \in {"make", "del"}
  PROVE  Outcome(i, o)
<1>1. Calling /\ i = CurrentStatement /\ Fine(i) /\ o \in Do(i) /\ Ready(py, Registers(regs))
          /\ Registers(regs) \in Ledger
  BY DoingIs
<1> DEFINE own == AndError(Registers(regs), py.err)
           m == IF i.do = "make" THEN Append(py.mem, [live |-> TRUE, from |-> frame.call])
                ELSE [py.mem EXCEPT ![frame.chunk.mca].live = FALSE]
           q == [py EXCEPT !.mem = m]
<1>2. Counted(py, own) /\ py \in Interpreter
  BY <1>1 DEF Ready, Counted
<1>3. m \in Seq([live : BOOLEAN, from : Int])
  <2>1. frame.call \in Int /\ py.mem \in Seq([live : BOOLEAN, from : Int])
    BY <1>1, <1>2 DEF Calling, PythonInv, PythonTypes, Interpreter
  <2>2. \A s \in Seq([live : BOOLEAN, from : Int]), call \in Int : \A c :
          /\ Append(s, [live |-> TRUE, from |-> call]) \in Seq([live : BOOLEAN, from : Int])
          /\ [s EXCEPT ![c].live = FALSE] \in Seq([live : BOOLEAN, from : Int])
    <3> SUFFICES ASSUME NEW s \in Seq([live : BOOLEAN, from : Int]), NEW call \in Int, NEW c
                 PROVE  /\ Append(s, [live |-> TRUE, from |-> call]) \in Seq([live : BOOLEAN, from : Int])
                        /\ [s EXCEPT ![c].live = FALSE] \in Seq([live : BOOLEAN, from : Int])
      OBVIOUS
    <3>1. [live |-> TRUE, from |-> call] \in [live : BOOLEAN, from : Int]
      OBVIOUS
    <3>2. [s EXCEPT ![c].live = FALSE] \in Seq([live : BOOLEAN, from : Int])
      <4> DEFINE T == [live : BOOLEAN, from : Int]
                 v(x) == [x EXCEPT !.live = FALSE]
                 f == [k \in 1 .. Len(s) |-> IF k = c THEN v(s[k]) ELSE s[k]]
      <4>1. \A x \in T : v(x) \in T
        OBVIOUS
      <4>2. Len(s) \in Nat /\ DOMAIN s = 1 .. Len(s) /\ \A k \in 1 .. Len(s) : s[k] \in T
        <5>1. s \in Seq(T)
          OBVIOUS
        <5> HIDE DEF T
        <5> QED
          BY <5>1
      <4>3. [s EXCEPT ![c].live = FALSE] = f
        BY <4>2
      <4> HIDE DEF T, v
      <4>4. f \in [1 .. Len(s) -> T]
        BY <4>1, <4>2
      <4> HIDE DEF f
      <4>5. f \in Seq(T)
        BY <4>2, <4>4, FunctionIsSeq
      <4> QED
        BY <4>3, <4>5 DEF T
    <3> QED
      BY <3>1, <3>2
  <2> HIDE DEF q
  <2> QED
    BY <2>1, <2>2, Zenon
<1>4. o \in Ok(q, Null)
  BY <1>1 DEF Do
<1> HIDE DEF m
<1>5. q \in Interpreter /\ q.heap = py.heap /\ q.err = py.err /\ q.mem = m
  BY <1>2, <1>3 DEF Interpreter
<1> HIDE DEF q, own
<1>6. Counted(q, own) /\ Grows(py.heap, q.heap, Writer(i))
  BY <1>2, <1>5, CountedLen, GrowsFrom DEF Counted
<1>7. o.py = q /\ o.exc = NoException
  BY <1>4 DEF Ok
<1>8. i.keep # "object"
  BY <1>1 DEF Fine, Others
<1>9. Written(i, o) = regs
  BY <1>8 DEF Written
<1>10. Effect(i, o)
  BY <1>5, <1>6, <1>7, <1>8, <1>9, ExceptionIs DEF Effect, own
<1> QED
  BY <1>5, <1>7, <1>10 DEF Outcome, Does, Making, Stealing, m

\* dictGetItemString returns what the dictionary holds, without a reference of its own.
LEMMA Gets ==
  ASSUME NEW p, NEW a, NEW key, NEW o, o \in dictGetItemString(p, a, key)
  PROVE  Plain(p, o) /\ (o.exc = NoException => a # 0 /\ o.ret = Item(p.heap, a, key))
<1>1. CASE o \in ThrowMessage(p)
  <2>1. Exception("message", NoError).kind = "message" /\ NoException.kind = "none"
    BY DEF Exception, NoException
  <2> QED
    BY <1>1, <2>1 DEF ThrowMessage, Plain
<1>2. CASE a # 0 /\ o \in Ok(p, GetItem(p, a, key))
  <2>1. o.ret = GetItem(p, a, key)
    BY <1>2 DEF Ok
  <2> QED
    BY <1>2, <2>1 DEF Plain, GetItem, Item
<1> QED
  BY <1>1, <1>2 DEF dictGetItemString, Is, Null

\* A statement that keeps what somebody else holds.
LEMMA BorrowDone ==
  ASSUME NEW i, NEW o, Doing(i, o), i.do \in {"importAddModule", "moduleGetDict", "dictGetItemString"}
  PROVE  Outcome(i, o)
<1>1. Calling /\ i = CurrentStatement /\ Fine(i) /\ o \in Do(i) /\ Ready(py, Registers(regs))
          /\ Registers(regs) \in Ledger
  BY DoingIs
<1> DEFINE own == AndError(Registers(regs), py.err)
<1>2. /\ own \in Ledger /\ Counted(py, own) /\ \A x \in Nat : Registers(regs)[x] # 0 => own[x] # 0
      /\ regs \in [ObjectNames -> Nat] /\ Roots
  BY <1>1, ErrorsKept, CallingIs DEF Ready
<1>3. own[MainModule] # 0 /\ MainModule \in Nat /\ MainModule # 0
      /\ regs["locals"] \in Nat /\ (regs["locals"] # 0 => own[regs["locals"]] # 0)
  <2>1. MainModule \in Nat /\ MainModule # 0 /\ regs["locals"] \in Nat
    BY <1>2 DEF MainModule, ObjectNames
  <2> HIDE DEF own
  <2> QED
    BY <1>2, <2>1, HeldOwned
<1> HIDE DEF own
<1>4. i.keep = "object" /\ i.to \in Borrowed \cup {"main", "globals"} /\ i.do \notin {"dictSetItemString",
          "runString"}
  BY <1>1 DEF Fine
<1>5. /\ Plain(py, o) /\ o.exc = NoException => o.ret \in Nat /\ o.ret <= Len(py.heap)
      /\ o.exc = NoException => Does(i, o)
  <2>1. CASE i.do = "importAddModule"
    <3>1. o \in importAddModule(py)
      BY <1>1, <2>1 DEF Do
    <3>2. Plain(py, o) /\ o.ret = MainModule
      BY <3>1, Readings
    <3>3. MainModule <= Len(py.heap)
      BY <1>2, <1>3, OwnedIs
    <3> QED
      BY <1>3, <2>1, <3>2, <3>3 DEF Does, Making, Stealing
  <2>2. CASE i.do = "moduleGetDict"
    <3>1. o \in moduleGetDict(py, regs["main"])
      BY <1>1, <2>2 DEF Do, Fine
    <3>2. Plain(py, o) /\ (o.exc = NoException => o.ret = Item(py.heap, regs["main"], "__dict__"))
      BY <3>1, Readings
    <3>3. regs["main"] = 0 => o.exc # NoException
      BY <3>1, ExceptionIs DEF moduleGetDict, Is, Null, ThrowMessage
    <3>4. regs["main"] # 0 => regs["main"] = MainModule /\ Item(py.heap, MainModule, "__dict__") = Globals
      BY <1>2 DEF Roots, Null
    <3>5. Item(py.heap, MainModule, "__dict__") \in Nat /\ Item(py.heap, MainModule, "__dict__") <= Len(py.heap)
      BY <1>2, <1>3, ItemIs
    <3> QED
      BY <2>2, <3>2, <3>3, <3>4, <3>5 DEF Does, Making, Stealing
  <2>3. CASE i.do = "dictGetItemString"
    <3>1. o \in dictGetItemString(py, regs["locals"], i.args[2])
      BY <1>1, <2>3 DEF Do, Fine
    <3>2. Plain(py, o) /\ (o.exc = NoException => regs["locals"] # 0 /\ o.ret = Item(py.heap, regs["locals"],
              i.args[2]))
      <4>1. PICK a, key : a = regs["locals"] /\ key = i.args[2]
        OBVIOUS
      <4>2. o \in dictGetItemString(py, a, key)
        BY <3>1, <4>1
      <4>3. Plain(py, o) /\ (o.exc = NoException => a # 0 /\ o.ret = Item(py.heap, a, key))
        BY <4>2, Gets
      <4> QED
        BY <4>1, <4>3
    <3>3. regs["locals"] # 0 =>
            Item(py.heap, regs["locals"], i.args[2]) \in Nat /\ Item(py.heap, regs["locals"],
                i.args[2]) <= Len(py.heap)
      BY <1>2, <1>3, ItemIs
    <3> QED
      BY <2>3, <3>2, <3>3 DEF Does, Making, Stealing, Local
  <2> QED
    BY <2>1, <2>2, <2>3
<1>6. Plain(py, o)
  <2>1. CASE i.do = "importAddModule"
    BY <1>1, <2>1, Readings DEF Do
  <2>2. CASE i.do = "moduleGetDict"
    BY <1>1, <2>2, Readings DEF Do
  <2>3. CASE i.do = "dictGetItemString"
    BY <1>1, <2>3, Readings DEF Do
  <2> QED
    BY <2>1, <2>2, <2>3
<1>7. Ends(py, Registers(regs), Registers(regs), 0, o)
  BY <1>1, <1>6, PlainEnds
<1>8. o.exc = NoException => o.ret \in Nat /\ o.ret <= Len(o.py.heap)
  <2>1. Len(py.heap) <= Len(o.py.heap)
    BY <1>7 DEF Ends, Grows
  <2>2. Len(py.heap) \in Nat /\ (o.exc = NoException => Len(o.py.heap) \in Nat)
    <3>1. o.exc = NoException => Counted(o.py, AndError(Registers(regs), o.py.err))
      BY <1>7 DEF Ends, Leaves
    <3> QED
      BY <1>2, <3>1, CountedLen
  <2> QED
    BY <1>5, <1>6, <2>1, <2>2
<1>9. Effect(i, o)
  BY <1>1, <1>4, <1>7, <1>8, PlainEffect
<1> QED
  BY <1>5, <1>9 DEF Outcome

\* A statement that keeps what it makes.
LEMMA MakingDone ==
  ASSUME NEW i, NEW o, Doing(i, o), i.do \in Making \cup {"dictNew", "listNew", "tupleNew"}
  PROVE  Outcome(i, o)
<1>1. Calling /\ i = CurrentStatement /\ Fine(i) /\ o \in Do(i) /\ Ready(py, Registers(regs))
          /\ Registers(regs) \in Ledger
  BY DoingIs
<1>2. i.keep = "object" /\ i.to \in Makeable \cup {"locals"} \cup Stolen /\ i.to \in ObjectNames
      /\ (i.to \in Stolen => i.do \in {"listNew", "tupleNew"})
      /\ i.do \notin {"dictSetItemString", "runString"}
  BY <1>1 DEF Fine, Making, Stealing, Makeable, ObjectNames, Kept, Borrowed, Stolen
<1>3. \E data \in DataOf : /\ MadeObject(py, data, o)
                           /\ i.do = "memoryViewFromMemoryChunk" => data.n = frame.chunk[i.args[1]]
  <2>1. CASE i.do = "memoryViewFromMemoryChunk"
    <3> DEFINE c == frame.chunk[i.args[1]]
    <3>1. o \in memoryViewFromMemoryChunk(py, c)
      BY <1>1, <2>1 DEF Do
    <3>2. c \in Nat
      <4>1. frame.chunk \in [DOMAIN NoChunks -> Nat] /\ i.args[1] \in DOMAIN NoChunks
        BY <1>1, <2>1 DEF Calling, PythonInv, PythonTypes, Fine
      <4> QED
        BY <4>1
    <3> HIDE DEF c
    <3>3. MadeObject(py, [NoData EXCEPT !.n = c], o)
      BY <3>1, Makings
    <3>4. [NoData EXCEPT !.n = c] \in DataOf /\ [NoData EXCEPT !.n = c].n = c
      <4>1. \A d \in DataOf, n \in Nat : [d EXCEPT !.n = n] \in DataOf /\ [d EXCEPT !.n = n].n = n
        BY DEF DataOf
      <4> QED
        BY <3>2, <4>1, DataIs
    <3> QED
      BY <3>3, <3>4 DEF c
  <2>2. CASE i.do # "memoryViewFromMemoryChunk"
    <3>1. o \in importImport(py) \cup unicodeFromString(py) \cup longFromLong(py) \cup dictNew(py)
                \cup listNew(py) \cup tupleNew(py)
      BY <1>1, <2>2 DEF Do, Making
    <3> QED
      BY <2>2, <3>1, Makings, DataIs
  <2> QED
    BY <2>1, <2>2
<1>4. PICK data \in DataOf : MadeObject(py, data, o) /\ (i.do = "memoryViewFromMemoryChunk"
          => data.n = frame.chunk[i.args[1]])
  BY <1>3
<1> DEFINE own == Registers(regs)
<1>5. /\ Ends(py, own, And(own, o.ret), 0, o)
      /\ o.exc = NoException => /\ o.ret = Len(py.heap) + 1 /\ o.ret \in Nat /\ o.ret # 0
                                /\ o.ret <= Len(o.py.heap) /\ o.py.heap[o.ret].data = data
  <2> HIDE DEF own
  <2> QED
    BY <1>1, <1>4, MadeEnds DEF own
<1>6. /\ regs \in [ObjectNames -> Nat] /\ Below(Rooted(regs), own) /\ And(own, o.ret) \in Ledger
      /\ Writer(i) = 0
  BY <1>1, <1>2, CallingIs, RegistersAre, LedgerMore DEF Writer
<1>7. ASSUME o.exc = NoException PROVE Below(Registers(Written(i, o)), And(own, o.ret))
  <2> DEFINE s == Written(i, o)
  <2>1. o.ret \in Nat /\ o.ret # 0 /\ s = [regs EXCEPT ![i.to] = o.ret]
    BY <1>2, <1>5, <1>7 DEF Written
  <2>2. s[i.to] = o.ret /\ \A m \in ObjectNames : m # i.to => s[m] = regs[m]
    BY <1>2, <1>6, <2>1, RegisterWritten
  <2> HIDE DEF s
  <2>3. CASE i.to \in Makeable \cup {"locals"}
    <3>1. Below(Registers(s), And(Registers(regs), o.ret))
      BY <1>2, <1>6, <2>1, <2>2, <2>3, RegistersWritten
    <3> QED
      BY <3>1 DEF s
  <2>4. CASE i.to \in Stolen
    <3>1. Below(Registers(s), And(Without(regs), o.ret))
      BY <1>2, <1>6, <2>1, <2>2, <2>4, RegistersWritten
    <3>2. Below(And(Without(regs), o.ret), And(own, o.ret))
      <4>1. Without(regs) \in Ledger /\ own \in Ledger /\ Below(Without(regs), own)
        BY RegistersAre
      <4> HIDE DEF own
      <4>2. And(Without(regs), o.ret) \in Ledger /\ And(own, o.ret) \in Ledger
            /\ \A x \in Nat : /\ And(Without(regs), o.ret)[x] = Without(regs)[x] + One(x, o.ret)
                              /\ And(own, o.ret)[x] = own[x] + One(x, o.ret)
        BY <4>1, LedgerMore
      <4>3. \A x \in Nat : Without(regs)[x] \in Nat /\ own[x] \in Nat /\ One(x, o.ret) \in Nat
                /\ Without(regs)[x] <= own[x]
        BY <4>1, LedgerIs, OneIs DEF Below
      <4>4. \A x \in Nat : And(Without(regs), o.ret)[x] <= And(own, o.ret)[x]
        BY <4>2, <4>3
      <4> QED
        BY <4>4 DEF Below
    <3>3. Registers(s) \in Ledger /\ And(Without(regs), o.ret) \in Ledger
      BY RegistersAre, LedgerMore
    <3> QED
      BY <1>6, <3>1, <3>2, <3>3, BelowTwice DEF s
  <2> QED
    BY <1>2, <2>3, <2>4
<1>8. Effect(i, o)
  <2> HIDE DEF own
  <2> QED
    BY <1>1, <1>5, <1>6, <1>7, EndsEffect DEF own
<1>9. ASSUME o.exc = NoException, i.do = "dictNew" PROVE o.py.heap[o.ret].kind = "dict"
  <2>1. o \in Ok(New(py, "dict", <<>>, NoData), Newest(py) + 1)
    BY <1>1, <1>9 DEF Do, dictNew
  <2>2. o.py = New(py, "dict", <<>>, NoData) /\ o.ret = Len(py.heap) + 1
    BY <2>1 DEF Ok, Newest
  <2>3. Counted(py, AndError(own, py.err)) /\ AndError(own, py.err) \in Ledger
    BY <1>1, LedgerMore DEF Ready
  <2>4. "dict" \in Kinds /\ NoData \in DataOf
    BY DataIs DEF Kinds
  <2> DEFINE own1 == AndError(own, py.err)
  <2> HIDE DEF own1
  <2>5. New(py, "dict", <<>>, NoData).heap[Len(py.heap) + 1].kind = "dict"
    <3>1. Counted(py, own1) /\ own1 \in Ledger
      BY <2>3 DEF own1
    <3> QED
      BY <2>4, <3>1, Adds
  <2> QED
    BY <2>2, <2>5
<1>10. o.exc = NoException => Does(i, o)
  BY <1>4, <1>5, <1>9 DEF Does, Making, Stealing
<1> QED
  BY <1>8, <1>10 DEF Outcome

\* The statements are numbered from 1.
LEMMA StatementsLen ==
  ASSUME frame.script \in DOMAIN Script
  PROVE  Len(Statements) \in Nat /\ DOMAIN Statements = 1 .. Len(Statements)
<1>1. \A n \in {2, 5, 6, 7, 8, 9, 10, 12, 14} : n \in Nat
  OBVIOUS
<1> QED
  BY <1>1, ScriptNames, Script_integratePython, Script_callAggregator, Script_callTerminator,
      Script_test_importFile, Script_test_dictLong,
     Script_test_dictString, Script_test_listNew, Script_test_listFromRail, Script_test_tupleNew,
         Script_test_tupleFromRail,
     Script_test_listAsRail, Script_test_tupleAsRail, Script_test_objectCallObjectFunc,
         Script_test_bytesAsMemoryChunk,
     Script_test_memoryViewFromMemoryChunkLong DEF Statements

\* dictSetItemString keeps the counts right.
LEMMA SetDone ==
  ASSUME NEW i, NEW o, Doing(i, o), i.do = "dictSetItemString"
  PROVE  Outcome(i, o)
<1>1. Calling /\ i = CurrentStatement /\ Fine(i) /\ o \in Do(i) /\ Ready(py, Registers(regs))
          /\ Registers(regs) \in Ledger
  BY DoingIs
<1>2. /\ i.keep # "object" /\ i.args[1] = "locals" /\ i.args[2] \in Keys
      /\ i.args[3] \in ObjectNames \ (Kept \cup Borrowed) /\ 3 \in DOMAIN i.args
  BY <1>1 DEF Fine
<1>3. regs \in [ObjectNames -> Nat] /\ Ahead /\ frame.pc \in DOMAIN Statements /\ frame.pc \in Nat
  BY <1>1, CallingIs DEF InCall
<1> DEFINE own == Registers(regs)
           l == regs["locals"]
           v == regs[i.args[3]]
<1>4. l \in Nat /\ v \in Nat
  BY <1>2, <1>3 DEF ObjectNames
<1>5. l # 0 => own[l] # 0
  BY <1>3, HeldOwned
<1>6. v # 0 => own[v] # 0
  <2>1. CASE i.args[3] \in Owned
    BY <1>3, <2>1, HeldOwned
  <2>2. CASE i.args[3] \in Numbers
    <3>1. UsesNumbers(CurrentStatement)
      BY <1>1, <1>2, <2>2 DEF UsesNumbers
    <3>2. Unstolen(regs)
      <4>1. frame.pc \in frame.pc .. Len(Statements)
        BY <1>1, <1>3, CallingIs, StatementsLen
      <4> QED
        BY <1>3, <3>1, <4>1 DEF Ahead, CurrentStatement
    <3> QED
      BY <1>3, <2>2, <3>2, HeldOwned
  <2> QED
    BY <1>2, <2>1, <2>2 DEF Owned
<1>7. o \in dictSetItemString(py, l, i.args[2], v)
  BY <1>1, <1>2 DEF Do
<1>11. own \in Ledger /\ Ready(py, own) /\ i.args[2] \in Keys
  BY <1>1, <1>2
<1> HIDE DEF own, l, v
<1>8. /\ Ends(py, own, own, l, o)
      /\ o.exc = NoException => /\ l # 0 /\ v # 0 /\ Item(o.py.heap, l, i.args[2]) = v
                                /\ \A k : k # i.args[2] => Item(o.py.heap, l, k) = Item(py.heap, l, k)
  BY <1>4, <1>5, <1>6, <1>7, <1>11, SetItemEnds
<1>9. Effect(i, o)
  <2>1. Writer(i) = l /\ Written(i, o) = regs
    BY <1>2 DEF Writer, Written, l
  <2>2. own \in Ledger /\ Below(Rooted(regs), own) /\ Below(Registers(regs), own)
    BY RegistersAre, BelowSelf DEF own
  <2> QED
    BY <1>2, <1>8, <2>1, <2>2, EndsEffect
<1>10. o.exc = NoException => Puts(i, o)
  BY <1>8 DEF Puts, Local, l, v
<1> QED
  BY <1>9, <1>10 DEF Outcome, Does, Making, Stealing

\* runString keeps the counts right.
LEMMA RunDone ==
  ASSUME NEW i, NEW o, Doing(i, o), i.do = "runString"
  PROVE  Outcome(i, o)
<1>1. Calling /\ i = CurrentStatement /\ Fine(i) /\ o \in Do(i) /\ Ready(py, Registers(regs))
          /\ Registers(regs) \in Ledger
  BY DoingIs
<1>2. i.keep # "object" /\ i.args[1] \in Commands /\ i.args[2] = "globals" /\ i.args[3] = "locals"
  BY <1>1 DEF Fine
<1>3. /\ regs \in [ObjectNames -> Nat] /\ InCall /\ Placed(frame.script, frame.pc, i)
      /\ frame.call \in Nat
  BY <1>1, CallingIs DEF Calling, PythonInv, PythonTypes
<1> DEFINE own == Registers(regs)
           l == regs["locals"]
           command == i.args[1]
           key == IF command = "aggregate" THEN "avalues" ELSE "tmpAggVal"
<1>4. l \in Nat /\ (l # 0 => own[l] # 0)
  BY <1>3, HeldOwned DEF ObjectNames
<1>5. command \in {"aggregate", "terminate"} => Viewed(py, GetItem(py, l, key)) = frame.call
  <2>1. CASE command = "aggregate"
    <3>1. frame.script = "callAggregator" /\ frame.pc = 3
      BY <1>1, <2>1, <1>3 DEF Placed
    <3>2. FreshValues
      BY <1>3, <3>1 DEF InCall, Fresh
    <3>3. /\ Current(frame.chunk.values) /\ Shows(regs["avalues"], frame.chunk.values)
          /\ Local("avalues") = regs["avalues"]
      BY <3>1, <3>2 DEF FreshValues
    <3> QED
      BY <2>1, <3>3 DEF Viewed, GetItem, Current, Shows, Local, Item
  <2>2. CASE command = "terminate"
    <3>1. frame.script = "callTerminator" /\ frame.pc = 6
      BY <1>1, <2>2, <1>3 DEF Placed
    <3>2. FreshAnswer
      BY <1>3, <3>1 DEF InCall, Fresh
    <3>3. /\ Current(frame.chunk.mca) /\ Shows(regs["pObjAggVal"], frame.chunk.mca)
          /\ Local("tmpAggVal") = regs["pObjAggVal"]
      BY <3>1, <3>2 DEF FreshAnswer
    <3> QED
      BY <2>2, <3>3 DEF Viewed, GetItem, Current, Shows, Local, Item
  <2> QED
    BY <2>1, <2>2
<1>6. Reads(command, py, l)
  BY <1>3, <1>5 DEF Reads
<1>7. o \in runString(py, command, regs["globals"], l)
  BY <1>1, <1>2 DEF Do
<1>11. own \in Ledger /\ Ready(py, own) /\ command \in Commands
  BY <1>1, <1>2
<1> HIDE DEF own, l, command
<1>8. /\ Ends(py, own, own, l, o)
      /\ o.exc = NoException =>
           /\ l # 0 /\ Scope(py, AndError(own, py.err), l)
           /\ \E c \in Code(command, py, l) : \E ks :
                /\ c.ok /\ SameObjects(c.py.heap, o.py.heap) /\ l \in 1 .. Len(c.py.heap)
                /\ Rewrites(py.heap, o.py.heap, l, ks) /\ (command = "defTestfunc" => ks = {"testfunc"})
  BY <1>4, <1>6, <1>7, <1>11, RunEnds
<1>9. Effect(i, o)
  <2>1. Writer(i) = l /\ Written(i, o) = regs
    BY <1>2 DEF Writer, Written, l
  <2>2. own \in Ledger /\ Below(Rooted(regs), own) /\ Below(Registers(regs), own)
    BY RegistersAre, BelowSelf DEF own
  <2> QED
    BY <1>2, <1>8, <2>1, <2>2, EndsEffect
<1>10. ASSUME o.exc = NoException PROVE Runs(i, o)
  <2>1. l # 0 /\ Scope(py, AndError(own, py.err), l)
    BY <1>8, <1>10
  <2>2. PICK c \in Code(command, py, l) : \E ks :
          /\ c.ok /\ SameObjects(c.py.heap, o.py.heap) /\ l \in 1 .. Len(c.py.heap)
          /\ Rewrites(py.heap, o.py.heap, l, ks) /\ (command = "defTestfunc" => ks = {"testfunc"})
    BY <1>8, <1>10
  <2>3. PICK ks : /\ c.ok /\ SameObjects(c.py.heap, o.py.heap) /\ l \in 1 .. Len(c.py.heap)
                  /\ Rewrites(py.heap, o.py.heap, l, ks) /\ (command = "defTestfunc" => ks = {"testfunc"})
    BY <2>2
  <2>4. command = "defTestfunc" => \A k : k # "testfunc" => Item(o.py.heap, l, k) = Local(k)
    BY <2>3 DEF Rewrites, Local, l
  <2>5. ASSUME command \in {"aggregate", "terminate"}
        PROVE  Item(o.py.heap, l, "retval") # 0 /\ o.py.heap[Item(o.py.heap, l, "retval")].data.from = frame.call
    <3> DEFINE own1 == AndError(own, py.err)
               a == Item(c.py.heap, l, "retval")
    <3>1. own1 \in Ledger
      BY <1>1, LedgerMore DEF own
    <3>2. Scope(py, own1, l)
      BY <2>1
    <3> HIDE DEF own1
    <3>3. a # 0 /\ c.py.heap[a].data.from = frame.call
      <4>1. CASE command = "aggregate"
        <5>1. c \in AggregateCode(py, l)
          BY <2>2, <4>1 DEF Code
        <5>2. Viewed(py, GetItem(py, l, "avalues")) = frame.call /\ Viewed(py, GetItem(py, l, "avalues")) \in Int
          BY <1>3, <1>5, <4>1
        <5> QED
          BY <1>4, <2>1, <2>3, <3>1, <3>2, <5>1, <5>2, AggregateIs
      <4>2. CASE command = "terminate"
        <5>1. c \in TerminateCode(py, l)
          BY <2>2, <4>2 DEF Code
        <5>2. Viewed(py, GetItem(py, l, "tmpAggVal")) = frame.call /\ Viewed(py, GetItem(py, l, "tmpAggVal")) \in Int
          BY <1>3, <1>5, <4>2
        <5> QED
          BY <1>4, <2>1, <2>3, <3>1, <3>2, <5>1, <5>2, TerminateIs
      <4> QED
        BY <2>5, <4>1, <4>2
    <3>4. Item(o.py.heap, l, "retval") = a
      BY <2>3 DEF SameObjects, Item
    <3>5. a \in Nat /\ a <= Len(o.py.heap)
      <4> DEFINE own2 == AndError(own, o.py.err)
      <4>1. Counted(o.py, own2)
        BY <1>8, <1>10 DEF Ends, Leaves
      <4>2. own2 \in Ledger /\ own2[l] # 0
        BY <1>1, <1>4, <2>1, ErrorsKept DEF own
      <4> HIDE DEF own2
      <4> QED
        BY <1>4, <2>1, <3>4, <4>1, <4>2, ItemIs
    <3>6. a \in 1 .. Len(c.py.heap)
      <4>1. Len(o.py.heap) = Len(c.py.heap)
        BY <2>3 DEF SameObjects
      <4> HIDE DEF a
      <4> QED
        BY <3>3, <3>5, <4>1
    <3>7. o.py.heap[a].data = c.py.heap[a].data
      BY <2>3, <3>6 DEF SameObjects
    <3> QED
      BY <3>3, <3>4, <3>7
  <2> QED
    BY <2>1, <2>4, <2>5 DEF Runs, l, command
<1> QED
  BY <1>9, <1>10 DEF Outcome, Does, Making, Stealing

\* What is stolen is no longer held by the numbers.
LEMMA StealEffect ==
  ASSUME Calling, NEW i, i.keep = "object", i.to \in Stolen, i.do \in Stealing, NEW o,
         Ends(py, Without(regs), And(Without(regs), o.ret), 0, o),
         o.exc = NoException => o.ret \in Nat /\ o.ret # 0 /\ o.ret <= Len(o.py.heap)
  PROVE  Outcome(i, o)
<1>1. /\ regs \in [ObjectNames -> Nat] /\ Without(regs) \in Ledger /\ And(Without(regs), o.ret) \in Ledger
      /\ Below(Rooted(regs), Without(regs)) /\ i.to \in ObjectNames
      /\ i.do \notin {"dictSetItemString", "runString"} /\ Writer(i) = 0
  BY CallingIs, RegistersAre, LedgerMore DEF Stolen, ObjectNames, Stealing, Writer
<1>2. ASSUME o.exc = NoException PROVE Below(Registers(Written(i, o)), And(Without(regs), o.ret))
  <2> DEFINE s == Written(i, o)
  <2>1. o.ret \in Nat /\ o.ret # 0 /\ s = [regs EXCEPT ![i.to] = o.ret]
    BY <1>2 DEF Written
  <2>2. s[i.to] = o.ret /\ \A m \in ObjectNames : m # i.to => s[m] = regs[m]
    BY <1>1, <2>1, RegisterWritten
  <2> HIDE DEF s
  <2>3. Below(Registers(s), And(Without(regs), o.ret))
    BY <1>1, <2>1, <2>2, RegistersWritten
  <2> QED
    BY <2>3 DEF s
<1> DEFINE own == Without(regs)
           own2 == And(own, o.ret)
<1> HIDE DEF own, own2
<1>3. Effect(i, o)
  BY <1>1, <1>2, EndsEffect DEF own, own2
<1> QED
  BY <1>3 DEF Outcome, Does, Making, Stealing

\* What the variables a, b and c own is there to be stolen, once.
LEMMA NumbersGiven ==
  ASSUME Calling, Unstolen(regs)
  PROVE  /\ Gives(Registers(regs), Without(regs), regs["a"], regs["b"], regs["c"])
         /\ Gives(Registers(regs), Without(regs), regs["a"], regs["b"], 0)
<1>1. ASSUME NEW x \in Nat
      PROVE  /\ Without(regs)[x] + (One(x, regs["a"]) + One(x, regs["b"]) + One(x, regs["c"])) <= Registers(regs)[x]
             /\ Without(regs)[x] + (One(x, regs["a"]) + One(x, regs["b"]) + One(x, 0)) <= Registers(regs)[x]
  <2>1. /\ Registers(regs)[x] = InRoots(regs, x) + InRegisters(regs, x) + InNumbers(regs, x)
        /\ Without(regs)[x] = InRoots(regs, x) + InRegisters(regs, x)
        /\ InRoots(regs, x) \in Nat /\ InRegisters(regs, x) \in Nat
    BY RegistersAre, SumsAre
  <2>2. InNumbers(regs, x) = One(x, regs["a"]) + One(x, regs["b"]) + One(x, regs["c"])
    BY DEF InNumbers
  <2>3. One(x, regs["a"]) \in Nat /\ One(x, regs["b"]) \in Nat /\ One(x, regs["c"]) \in Nat /\ One(x, 0) = 0
    BY OneIs DEF One, Null
  <2> QED
    BY <2>1, <2>2, <2>3
<1> QED
  BY <1>1 DEF Gives

\* listFromRail and tupleFromRail keep the counts right: what they steal was owned.
LEMMA FromRailDone ==
  ASSUME NEW i, NEW o, Doing(i, o), i.do \in {"listFromRail", "tupleFromRail"}
  PROVE  Outcome(i, o)
<1>1. Calling /\ i = CurrentStatement /\ Fine(i) /\ o \in Do(i) /\ Ready(py, Registers(regs))
          /\ Registers(regs) \in Ledger
  BY DoingIs
<1>2. /\ regs \in [ObjectNames -> Nat] /\ (\A r \in ObjectNames : regs[r] <= Len(py.heap))
      /\ InCall /\ Placed(frame.script, frame.pc, i)
  BY <1>1, CallingIs
<1>3. frame.script \in {"test_listFromRail", "test_tupleFromRail"} /\ frame.pc = 8
  BY <1>2 DEF Placed
<1>4. ThreeMade
  BY <1>2, <1>3 DEF InCall, Rails
<1> DEFINE u == regs["a"]
           v == regs["b"]
           w == regs["c"]
<1>5. Unstolen(regs) /\ frame.rail = <<u, v, w>> /\ u # 0 /\ v # 0 /\ w # 0
  BY <1>3, <1>4 DEF ThreeMade, Null
<1>6. u \in Nat /\ v \in Nat /\ w \in Nat /\ u <= Len(py.heap) /\ v <= Len(py.heap) /\ w <= Len(py.heap)
  BY <1>2 DEF ObjectNames
<1>7. Gives(Registers(regs), Without(regs), u, v, w)
  BY <1>1, <1>5, NumbersGiven
<1> HIDE DEF u, v, w
<1>8. RailOf(py, frame.rail, u, v, w)
  BY <1>5, <1>6 DEF RailOf
<1>9. \E kind \in Kinds : o \in fromRail(py, kind, frame.rail)
  BY <1>1 DEF Do, listFromRail, tupleFromRail, Kinds
<1> DEFINE own == Registers(regs)
           own2 == Without(regs)
<1>10. own \in Ledger /\ own2 \in Ledger
  BY RegistersAre
<1> HIDE DEF own, own2
<1>11. /\ Ends(py, own2, And(own2, o.ret), 0, o)
       /\ o.exc = NoException => o.ret \in Nat /\ o.ret # 0 /\ o.ret <= Len(o.py.heap)
  BY <1>1, <1>6, <1>7, <1>8, <1>9, <1>10, FromRailEnds DEF own, own2
<1>12. i.keep = "object" /\ i.to \in Stolen /\ i.do \in Stealing
  BY <1>1 DEF Fine, Stealing
<1> QED
  BY <1>1, <1>11, <1>12, StealEffect DEF own2

\* objectCallObject keeps the counts right: what it steals was owned.
LEMMA CallDone ==
  ASSUME NEW i, NEW o, Doing(i, o), i.do = "objectCallObject"
  PROVE  Outcome(i, o)
<1>1. Calling /\ i = CurrentStatement /\ Fine(i) /\ o \in Do(i) /\ Ready(py, Registers(regs))
          /\ Registers(regs) \in Ledger
  BY DoingIs
<1>2. /\ regs \in [ObjectNames -> Nat] /\ (\A r \in ObjectNames : regs[r] <= Len(py.heap))
      /\ InCall /\ Placed(frame.script, frame.pc, i)
  BY <1>1, CallingIs
<1>3. frame.script = "test_objectCallObjectFunc" /\ frame.pc = 13
  BY <1>2 DEF Placed
<1>4. TwoMade
  BY <1>2, <1>3 DEF InCall, Rails
<1> DEFINE u == regs["a"]
           v == regs["b"]
<1>5. Unstolen(regs) /\ frame.rail = <<u, v>> /\ u # 0 /\ v # 0
  BY <1>3, <1>4 DEF TwoMade, Null
<1>6. u \in Nat /\ v \in Nat /\ u <= Len(py.heap) /\ v <= Len(py.heap)
  BY <1>2 DEF ObjectNames
<1>7. Gives(Registers(regs), Without(regs), u, v, 0)
  BY <1>1, <1>5, NumbersGiven
<1> HIDE DEF u, v
<1>8. RailOf(py, frame.rail, u, v, 0)
  <2>1. 0 <= Len(py.heap)
    BY <1>1, CountedLen DEF Ready
  <2> QED
    BY <1>5, <1>6, <2>1 DEF RailOf
<1>9. o \in objectCallObject(py, regs[i.args[1]], frame.rail)
  BY <1>1 DEF Do
<1> DEFINE own == Registers(regs)
           own2 == Without(regs)
<1>10. own \in Ledger /\ own2 \in Ledger /\ own2[ExceptionType] # 0 /\ own2[None] # 0
  BY <1>2, RegistersAre, HeldOwned
<1> HIDE DEF own, own2
<1>11. /\ Ends(py, own2, And(own2, o.ret), 0, o)
       /\ o.exc = NoException => o.ret \in Nat /\ o.ret # 0 /\ o.ret <= Len(o.py.heap)
  <2>1. 0 \in Nat
    OBVIOUS
  <2>2. PICK w \in Nat : w = 0
    BY <2>1
  <2>3. RailOf(py, frame.rail, u, v, w) /\ Gives(own, own2, u, v, w) /\ Ready(py, own)
    BY <1>1, <1>7, <1>8, <2>2 DEF own, own2
  <2> QED
    BY <1>6, <1>9, <1>10, <2>3, CallEnds
<1>12. i.keep = "object" /\ i.to \in Stolen /\ i.do \in Stealing
  BY <1>1 DEF Fine, Stealing
<1> QED
  BY <1>1, <1>11, <1>12, StealEffect DEF own2

\* Whatever the statement is.
LEMMA DoDone ==
  ASSUME NEW i, NEW o, Doing(i, o)
  PROVE  Outcome(i, o)
<1>1. Fine(i)
  BY DoingIs
<1>2. \/ i.do \in Making \cup {"dictNew", "listNew", "tupleNew"} \/ i.do \in {"listFromRail", "tupleFromRail"}
      \/ i.do = "objectCallObject" \/ i.do = "dictSetItemString" \/ i.do = "runString"
      \/ i.do \in {"rail", "listAsRail", "tupleAsRail", "unicodeAsASCIIString", "longAsLong",
                   "objectStr", "bytesAsMemoryChunk", "bufferAsMemoryChunk"}
      \/ i.do = "calltest" \/ i.do \in {"make", "del"}
      \/ i.do \in {"importAddModule", "moduleGetDict", "dictGetItemString"}
  BY <1>1 DEF Fine, Stealing, Writing, Others
<1> QED
  BY <1>2, MakingDone, FromRailDone, CallDone, SetDone, RunDone, LookDone, CalltestDone, MemoryDone, BorrowDone

-----------------------------------------------------------------------------
(***************************************************************************)
(* A step of a statement.                                                  *)
(***************************************************************************)
\* A statement returns and the next one follows, or it throws.
LEMMA StatementSteps ==
  ASSUME PythonInv, Statement
  PROVE  \E i, o : Doing(i, o) /\ Outcome(i, o)
                   /\ ((o.exc = NoException /\ Passes(i, o)) \/ (o.exc # NoException /\ Throws(o)))
<1>1. Calling
  BY DEF Calling, Statement
<1> DEFINE i == CurrentStatement
<1>2. PICK o \in Do(i) :
        /\ py' = o.py
        /\ IF o.exc # NoException
             THEN frame' = [frame EXCEPT !.exc = o.exc] /\ regs' = regs
             ELSE /\ regs' = IF i.keep = "object" THEN [regs EXCEPT ![i.to] = o.ret] ELSE regs
                  /\ frame' = [frame EXCEPT !.pc = @ + 1,
                                 !.rail = IF i.keep = "rail" THEN o.ret ELSE @,
                                 !.value = IF i.keep = "value" /\ i.do \in {"bufferAsMemoryChunk", "longAsLong"}
                                             THEN o.ret ELSE @,
                                 !.chunk.mca = IF i.do = "make" THEN Len(o.py.mem) ELSE @]
  BY DEF Statement, CurrentStatement
<1>3. Doing(i, o)
  BY <1>1 DEF Doing
<1>4. DOMAIN frame = FrameFields /\ DOMAIN frame.chunk = DOMAIN NoChunks
  BY <1>1 DEF Calling, PythonInv, PythonTypes
<1> HIDE DEF i
<1>5. CASE o.exc # NoException
  <2>1. frame' = [frame EXCEPT !.exc = o.exc] /\ regs' = regs /\ py' = o.py
    BY <1>2, <1>5
  <2>2. DOMAIN frame' = FrameFields /\ frame'.exc = o.exc /\ \A f \in FrameFields \ {"exc"} : frame'[f] = frame[f]
    BY <1>4, <2>1 DEF FrameFields
  <2> QED
    BY <1>3, <1>5, <2>1, <2>2, DoDone DEF Throws
<1>6. CASE o.exc = NoException
  <2> DEFINE rail == IF i.keep = "rail" THEN o.ret ELSE frame.rail
             value == IF i.keep = "value" /\ i.do \in {"bufferAsMemoryChunk",
                 "longAsLong"} THEN o.ret ELSE frame.value
             mca == IF i.do = "make" THEN Len(o.py.mem) ELSE frame.chunk.mca
  <2>1. /\ py' = o.py /\ regs' = Written(i, o)
        /\ frame' = [frame EXCEPT !.pc = frame.pc + 1, !.rail = rail, !.value = value, !.chunk.mca = mca]
    BY <1>2, <1>4, <1>6 DEF Written, FrameFields, NoChunks
  <2> HIDE DEF rail, value, mca
  <2>2. /\ DOMAIN frame' = FrameFields /\ frame'.pc = frame.pc + 1 /\ frame'.rail = rail /\ frame'.value = value
        /\ frame'.chunk = [frame.chunk EXCEPT !.mca = mca]
        /\ \A f \in FrameFields \ {"pc", "rail", "value", "chunk"} : frame'[f] = frame[f]
    BY <1>4, <2>1 DEF FrameFields
  <2>3. /\ frame'.chunk = [n \in DOMAIN NoChunks |-> frame'.chunk[n]] /\ frame'.chunk.mca = mca
        /\ \A n \in DOMAIN NoChunks \ {"mca"} : frame'.chunk[n] = frame.chunk[n]
    <3>1. frame.chunk \in [DOMAIN NoChunks -> Nat]
      BY <1>1 DEF Calling, PythonInv, PythonTypes
    <3>2. PICK c : c = frame.chunk
      OBVIOUS
    <3>3. c \in [DOMAIN NoChunks -> Nat] /\ frame'.chunk = [c EXCEPT !.mca = mca]
      BY <2>2, <3>1, <3>2
    <3>4. "mca" \in DOMAIN NoChunks
      BY DEF NoChunks
    <3>5. /\ frame'.chunk = [n \in DOMAIN NoChunks |-> frame'.chunk[n]] /\ frame'.chunk.mca = mca
          /\ \A n \in DOMAIN NoChunks \ {"mca"} : frame'.chunk[n] = c[n]
      BY <3>3, <3>4
    <3> QED
      BY <3>2, <3>5
  <2>4. Passes(i, o)
    BY <2>1, <2>2, <2>3 DEF Passes, rail, value, mca
  <2> QED
    BY <1>3, <1>6, <2>4, DoDone
<1> QED
  BY <1>5, <1>6

\* What is known where a statement returns.
LEMMA SteppingIs ==
  ASSUME NEW i, NEW o, Stepping(i, o)
  PROVE  /\ PythonInv /\ InCall /\ ChunksLive /\ Roots /\ PythonTypes /\ frame.state = "running" /\ Running
         /\ frame.script \in DOMAIN Script /\ frame.pc \in 1 .. Len(Statements) /\ Len(Statements) \in Nat
         /\ Fine(i) /\ i = Statements[frame.pc] /\ Effect(i, o) /\ Does(i, o) /\ Passes(i, o)
         /\ frame'.script = frame.script /\ frame'.pc = frame.pc + 1 /\ frame'.exc = NoException
         /\ frame'.call = frame.call /\ frame'.handled = frame.handled /\ frame'.state = frame.state
         /\ Len(py.heap) \in Nat /\ Len(py'.heap) \in Nat /\ Len(py.heap) <= Len(py'.heap)
         /\ py' = o.py /\ Counted(py', AndError(Registers(regs'), py'.err))
         /\ Statements' = Statements
<1>1. /\ Calling /\ Fine(i) /\ i = CurrentStatement /\ Ready(py, Registers(regs)) /\ Effect(i, o) /\ Does(i, o)
          /\ Passes(i, o)
      /\ o.exc = NoException /\ InCall /\ ChunksLive /\ Roots /\ frame.script \in DOMAIN Script
             /\ frame.pc \in DOMAIN Statements
  BY DoingIs, CallingIs DEF Stepping, Outcome
<1>2. PythonInv /\ PythonTypes /\ frame.state = "running" /\ Running /\ frame.exc = NoException
  BY <1>1 DEF Calling, PythonInv, Running
<1>3. frame.pc \in 1 .. Len(Statements) /\ Len(Statements) \in Nat
  BY <1>1, StatementsLen
<1>4. /\ frame'.script = frame.script /\ frame'.pc = frame.pc + 1 /\ frame'.exc = frame.exc
      /\ frame'.call = frame.call /\ frame'.handled = frame.handled /\ frame'.state = frame.state
      /\ py' = o.py /\ regs' = Written(i, o)
  <2>1. {"script", "exc", "call", "handled", "state"} \subseteq FrameFields \ {"pc", "rail", "value", "chunk"}
    BY DEF FrameFields
  <2> QED
    BY <1>1, <2>1 DEF Passes
<1>5. Counted(o.py, AndError(Registers(Written(i, o)), o.py.err)) /\ Grows(py.heap, o.py.heap, Writer(i))
  BY <1>1 DEF Effect
<1>6. Len(py.heap) \in Nat /\ Len(o.py.heap) \in Nat /\ Len(py.heap) <= Len(o.py.heap)
  BY <1>1, <1>5, CountedLen DEF Ready, Grows
<1>7. Statements' = Statements
  BY <1>4 DEF Statements
<1> QED
  BY <1>1, <1>2, <1>3, <1>4, <1>5, <1>6, <1>7 DEF CurrentStatement

\* The registers after a statement.
LEMMA RegistersStep ==
  ASSUME NEW i, NEW o, Stepping(i, o)
  PROVE  /\ regs \in [ObjectNames -> Nat] /\ regs' \in [ObjectNames -> Nat]
         /\ \A r \in ObjectNames : regs[r] <= Len(py.heap) /\ regs'[r] <= Len(py'.heap)
         /\ \A r \in ObjectNames : IF i.keep = "object" /\ r = i.to THEN regs'[r] = o.ret ELSE regs'[r] = regs[r]
<1>1. /\ PythonTypes /\ Passes(i, o) /\ Fine(i) /\ Effect(i, o) /\ o.exc = NoException /\ py' = o.py
      /\ Len(py.heap) \in Nat /\ Len(py'.heap) \in Nat /\ Len(py.heap) <= Len(py'.heap)
  BY SteppingIs DEF Stepping
<1>2. regs \in [ObjectNames -> Nat] /\ \A r \in ObjectNames : regs[r] <= Len(py.heap)
  BY <1>1 DEF PythonTypes
<1>3. regs' = Written(i, o)
  BY <1>1 DEF Passes
<1>4. CASE i.keep = "object"
  <2>1. o.ret \in Nat /\ o.ret <= Len(py'.heap) /\ i.to \in ObjectNames
    BY <1>1, <1>4 DEF Effect, Fine, Making, Stealing, Writing, Borrowed, ObjectNames, Stolen
  <2>2. regs' = [regs EXCEPT ![i.to] = o.ret]
    BY <1>3, <1>4 DEF Written
  <2>3. regs' \in [ObjectNames -> Nat] /\ regs'[i.to] = o.ret /\ \A m \in ObjectNames : m # i.to => regs'[m] = regs[m]
    BY <1>2, <2>1, <2>2, RegisterWritten
  <2> QED
    BY <1>1, <1>2, <1>4, <2>1, <2>3
<1>5. CASE i.keep # "object"
  <2>1. regs' = regs
    BY <1>3, <1>5 DEF Written
  <2> QED
    BY <1>1, <1>2, <1>5, <2>1
<1> QED
  BY <1>4, <1>5

\* The objects after a statement.
LEMMA HeapStep ==
  ASSUME NEW i, NEW o, Stepping(i, o)
  PROVE  /\ \A a \in 1 .. Len(py.heap) : py'.heap[a].data = py.heap[a].data /\ py'.heap[a].kind = py.heap[a].kind
         /\ \A a \in 1 .. Len(py.heap) : a # Writer(i) => py'.heap[a].items = py.heap[a].items
         /\ i.do # "dictNew" => regs'["locals"] = regs["locals"]
         /\ i.do \notin Writing /\ regs["locals"] # 0 => \A k : Local(k)' = Local(k)
<1>1. Effect(i, o) /\ Fine(i) /\ py' = o.py
  BY SteppingIs
<1>2. /\ \A a \in 1 .. Len(py.heap) : py'.heap[a].data = py.heap[a].data /\ py'.heap[a].kind = py.heap[a].kind
      /\ \A a \in 1 .. Len(py.heap) : a # Writer(i) => py'.heap[a].items = py.heap[a].items
  BY <1>1 DEF Effect, Grows
<1>3. i.do # "dictNew" => regs'["locals"] = regs["locals"]
  <2>1. ASSUME i.do # "dictNew" PROVE ~(i.keep = "object" /\ i.to = "locals")
    BY <1>1, <2>1 DEF Fine, Making, Stealing, Writing, Borrowed, ObjectNames, Stolen, Kept
  <2>2. "locals" \in ObjectNames
    BY DEF ObjectNames
  <2> QED
    BY <2>1, <2>2, RegistersStep
<1>4. ASSUME i.do \notin Writing, regs["locals"] # 0 PROVE \A k : Local(k)' = Local(k)
  <2>1. regs["locals"] \in Nat /\ regs["locals"] <= Len(py.heap) /\ Len(py.heap) \in Nat
    <3>1. "locals" \in ObjectNames
      BY DEF ObjectNames
    <3> QED
      BY <3>1, RegistersStep, SteppingIs
  <2>2. regs["locals"] \in 1 .. Len(py.heap)
    BY <1>4, <2>1
  <2>3. Writer(i) = 0 /\ regs'["locals"] = regs["locals"]
    BY <1>3, <1>4 DEF Writer, Writing
  <2>4. py'.heap[regs["locals"]].items = py.heap[regs["locals"]].items
    BY <1>2, <1>4, <2>2, <2>3
  <2> QED
    BY <2>3, <2>4 DEF Local, Item
<1> QED
  BY <1>2, <1>3, <1>4

\* A statement keeps the types.
LEMMA TypesStep ==
  ASSUME NEW i, NEW o, Stepping(i, o)
  PROVE  PythonTypes'
<1>1. /\ PythonTypes /\ Passes(i, o) /\ py' = o.py /\ Effect(i, o) /\ frame'.exc = NoException
      /\ frame'.pc = frame.pc + 1 /\ frame'.script = frame.script /\ frame'.call = frame.call
      /\ Counted(py', AndError(Registers(regs'), py'.err))
  BY SteppingIs
<1>2. regs' \in [ObjectNames -> Nat] /\ \A r \in ObjectNames : regs'[r] <= Len(py'.heap)
  BY RegistersStep
<1>3. frame'.chunk \in [DOMAIN NoChunks -> Nat]
  <2>1. Len(o.py.mem) \in Nat
    BY <1>1 DEF Counted, Interpreter
  <2>2. \A n \in DOMAIN NoChunks : frame'.chunk[n] \in Nat
    <3>1. \A n \in DOMAIN NoChunks : frame.chunk[n] \in Nat
      BY <1>1 DEF PythonTypes
    <3>2. frame'.chunk["mca"] = IF i.do = "make" THEN Len(o.py.mem) ELSE frame.chunk["mca"]
      BY <1>1 DEF Passes
    <3>3. "mca" \in DOMAIN NoChunks
      BY DEF NoChunks
    <3>4. \A n \in DOMAIN NoChunks \ {"mca"} : frame'.chunk[n] = frame.chunk[n]
      BY <1>1 DEF Passes
    <3> QED
      BY <2>1, <3>1, <3>2, <3>3, <3>4
  <2>3. frame'.chunk = [n \in DOMAIN NoChunks |-> frame'.chunk[n]]
    BY <1>1 DEF Passes
  <2> QED
    BY <2>2, <2>3
<1> QED
  BY <1>1, <1>2, <1>3, ExceptionIs DEF PythonTypes, Passes

\* A statement keeps what is always there.
LEMMA RootsStep ==
  ASSUME NEW i, NEW o, Stepping(i, o)
  PROVE  Roots'
<1>1. /\ Roots /\ Fine(i) /\ Effect(i, o) /\ Does(i, o) /\ py' = o.py /\ Len(py.heap) \in Nat
      /\ Ready(py, Registers(regs)) /\ Registers(regs) \in Ledger
  BY SteppingIs, DoingIs DEF Stepping
<1>2. /\ regs \in [ObjectNames -> Nat]
      /\ \A r \in ObjectNames : regs[r] <= Len(py.heap) /\ regs'[r] <= Len(py'.heap)
      /\ \A r \in ObjectNames : IF i.keep = "object" /\ r = i.to THEN regs'[r] = o.ret ELSE regs'[r] = regs[r]
  BY RegistersStep
<1>3. MainModule \in 1 .. Len(py.heap)
  <2> DEFINE own == AndError(Registers(regs), py.err)
  <2>1. MainModule \in Nat /\ MainModule # 0
    BY DEF MainModule
  <2>2. own \in Ledger /\ own[MainModule] # 0 /\ Counted(py, own)
    BY <1>1, <1>2, <2>1, ErrorsKept, HeldOwned DEF Ready
  <2> HIDE DEF own
  <2> QED
    BY <2>1, <2>2, OwnedIs
<1>4. MainModule # Writer(i)
  <2>1. CASE Writer(i) = 0
    BY <2>1 DEF MainModule
  <2>2. CASE Writer(i) = regs["locals"] /\ regs["locals"] # 0
    <3>1. py.heap[regs["locals"]].kind = "dict" /\ py.heap[MainModule].kind = "module"
      BY <1>1, <2>2 DEF Roots, Null
    <3> QED
      BY <2>2, <3>1
  <2> QED
    BY <2>1, <2>2 DEF Writer
<1>5. /\ py'.heap[MainModule].kind = py.heap[MainModule].kind
      /\ py'.heap[MainModule].items = py.heap[MainModule].items
      /\ \A a \in 1 .. Len(py.heap) : py'.heap[a].kind = py.heap[a].kind
  BY <1>3, <1>4, HeapStep
<1>6. py'.heap[MainModule].kind = "module" /\ Item(py'.heap, MainModule, "__dict__") = Globals
  BY <1>1, <1>5 DEF Roots, Item
<1>7. {"main", "globals", "locals"} \subseteq ObjectNames
  BY DEF ObjectNames
<1>8. regs'["main"] \in {Null, MainModule}
  <2>1. CASE i.keep = "object" /\ i.to = "main"
    <3>1. i.do = "importAddModule"
      BY <1>1, <2>1 DEF Fine, Making, Stealing, Writing, Others, Borrowed, Stolen, Kept
    <3> QED
      BY <1>1, <1>2, <1>7, <2>1, <3>1 DEF Does
  <2>2. CASE ~(i.keep = "object" /\ i.to = "main")
    BY <1>1, <1>2, <1>7, <2>2 DEF Roots
  <2> QED
    BY <2>1, <2>2
<1>9. regs'["globals"] \in {Null, Globals}
  <2>1. CASE i.keep = "object" /\ i.to = "globals"
    <3>1. i.do = "moduleGetDict"
      BY <1>1, <2>1 DEF Fine, Making, Stealing, Writing, Others, Borrowed, Stolen, Kept
    <3> QED
      BY <1>1, <1>2, <1>7, <2>1, <3>1 DEF Does
  <2>2. CASE ~(i.keep = "object" /\ i.to = "globals")
    BY <1>1, <1>2, <1>7, <2>2 DEF Roots
  <2> QED
    BY <2>1, <2>2
<1>10. regs'["locals"] # Null => py'.heap[regs'["locals"]].kind = "dict"
  <2>1. CASE i.keep = "object" /\ i.to = "locals"
    <3>1. i.do = "dictNew"
      BY <1>1, <2>1 DEF Fine, Making, Stealing, Writing, Others, Borrowed, Stolen, Kept
    <3> QED
      BY <1>1, <1>2, <1>7, <2>1, <3>1 DEF Does
  <2>2. CASE ~(i.keep = "object" /\ i.to = "locals")
    <3>1. regs'["locals"] = regs["locals"] /\ regs["locals"] \in Nat /\ regs["locals"] <= Len(py.heap)
      BY <1>2, <1>7, <2>2
    <3>2. regs["locals"] # 0 => regs["locals"] \in 1 .. Len(py.heap)
      BY <1>1, <3>1
    <3> QED
      BY <1>1, <1>5, <3>1, <3>2 DEF Roots, Null
  <2> QED
    BY <2>1, <2>2
<1> QED
  BY <1>6, <1>8, <1>9, <1>10 DEF Roots

\* A statement keeps the memory of the thread and of the place.
LEMMA ChunksStep ==
  ASSUME NEW i, NEW o, Stepping(i, o)
  PROVE  ChunksLive'
<1>1. /\ ChunksLive /\ Passes(i, o) /\ Effect(i, o) /\ Does(i, o) /\ py' = o.py /\ Fine(i)
      /\ frame'.script = frame.script /\ frame'.pc = frame.pc + 1 /\ frame.pc \in 1 .. Len(Statements)
      /\ i = Statements[frame.pc] /\ Len(Statements) \in Nat
  BY SteppingIs
<1>2. Placed(frame.script, frame.pc, i) /\ Counted(py, AndError(Registers(regs), py.err))
  BY CallingIs DEF Stepping, Doing, Ready
<1> DEFINE both == {frame.chunk.onThread, frame.chunk.onPlace}
<1>3. /\ frame'.chunk.onThread = frame.chunk.onThread /\ frame'.chunk.onPlace = frame.chunk.onPlace
      /\ frame'.chunk.values = frame.chunk.values
      /\ frame'.chunk.mca = IF i.do = "make" THEN Len(py'.mem) ELSE frame.chunk.mca
  BY <1>1 DEF Passes, NoChunks
<1>4. DOMAIN py.mem = 1 .. Len(py.mem) /\ Len(py.mem) \in Nat
  BY <1>2 DEF Counted, Interpreter
<1>5. \A c \in both : c \in DOMAIN py.mem /\ py.mem[c].live
  BY <1>1 DEF ChunksLive
<1>6. \A c \in both : c \in DOMAIN py'.mem /\ py'.mem[c].live
  <2>1. CASE i.do = "make"
    <3>1. py'.mem = Append(py.mem, [live |-> TRUE, from |-> frame.call])
      BY <1>1, <2>1 DEF Does
    <3>2. py.mem \in Seq([live : BOOLEAN, from : Int])
      BY <1>2 DEF Counted, Interpreter
    <3>3. \A c \in 1 .. Len(py.mem) : c \in DOMAIN py'.mem /\ py'.mem[c] = py.mem[c]
      BY <1>4, <3>1, <3>2
    <3> QED
      BY <1>4, <1>5, <3>3
  <2>2. CASE i.do = "del"
    <3>1. py'.mem = [py.mem EXCEPT ![frame.chunk.mca].live = FALSE]
      BY <1>1, <2>2 DEF Does
    <3>2. frame.script = "callTerminator" /\ frame.pc = 9
      BY <1>2, <2>2 DEF Placed
    <3>3. frame.chunk.mca \notin both
      BY <1>1, <3>2 DEF ChunksLive
    <3> HIDE DEF both
    <3>4. \A c \in both : c \in DOMAIN py'.mem /\ py'.mem[c] = py.mem[c]
      BY <1>5, <3>1, <3>3
    <3> QED
      BY <1>5, <3>4
  <2>3. CASE i.do \notin {"make", "del"}
    <3>1. py'.mem = py.mem
      BY <1>1, <2>3 DEF Effect
    <3> QED
      BY <1>5, <3>1
  <2> QED
    BY <2>1, <2>2, <2>3
<1>7. frame.script = "callTerminator" => frame'.chunk.mca \notin both
  <2>1. CASE i.do = "make"
    <3>1. py'.mem = Append(py.mem, [live |-> TRUE, from |-> frame.call])
      BY <1>1, <2>1 DEF Does
    <3>2. Len(py'.mem) = Len(py.mem) + 1
      <4>1. py.mem \in Seq([live : BOOLEAN, from : Int])
        BY <1>2 DEF Counted, Interpreter
      <4> QED
        BY <3>1, <4>1
    <3>3. Len(py'.mem) \notin DOMAIN py.mem
      BY <1>4, <3>2
    <3> QED
      BY <1>3, <1>5, <2>1, <3>3
  <2>2. CASE i.do # "make" /\ frame.script = "callTerminator"
    <3>1. Statements[1].do = "make"
      BY <2>2, Script_callTerminator, ValuesFine DEF Statements, Known
    <3>2. frame.pc \in 2 .. 9
      <4>1. Len(Statements) = 9
        BY <2>2, Script_callTerminator DEF Statements
      <4> QED
        BY <1>1, <2>2, <3>1, <4>1
    <3>3. frame.chunk.mca \notin both
      BY <1>1, <2>2, <3>2 DEF ChunksLive
    <3> QED
      BY <1>3, <2>2, <3>3
  <2> QED
    BY <2>1, <2>2
<1> QED
  BY <1>1, <1>3, <1>6, <1>7 DEF ChunksLive

\* A statement leaves the script orderly.
LEMMA AheadStep ==
  ASSUME NEW i, NEW o, Stepping(i, o)
  PROVE  Ahead'
<1>1. /\ Ahead /\ Fine(i) /\ Does(i, o) /\ frame'.pc = frame.pc + 1 /\ frame.pc \in 1 .. Len(Statements)
      /\ i = Statements[frame.pc] /\ Len(Statements) \in Nat /\ Statements' = Statements
      /\ frame.script \in DOMAIN Script
  BY SteppingIs DEF InCall
<1>2. \A r \in ObjectNames : IF i.keep = "object" /\ r = i.to THEN regs'[r] = o.ret ELSE regs'[r] = regs[r]
  BY RegistersStep
<1>3. PICK c \in Nat, d \in Nat : \A j \in DOMAIN Script[frame.script] : Cut(frame.script, j, c, d)
  BY <1>1, ScriptsCut
<1>4. \A j \in 1 .. Len(Statements) :
        /\ (Statements[j].do = "dictGetItemString" => c <= j) /\ (Statements[j].do \in Writing => j < c)
        /\ (Statements[j].do \in Stealing => d <= j) /\ (UsesNumbers(Statements[j]) => j < d)
  <2>1. DOMAIN Script[frame.script] = 1 .. Len(Statements)
    BY <1>1, StatementsLen DEF Statements
  <2> QED
    BY <1>3, <2>1 DEF Cut, Statements
<1>5. ASSUME NEW j \in frame.pc + 1 .. Len(Statements)
      PROVE  /\ Statements[j].do \in Writing => \A r \in Borrowed : regs'[r] = Null
             /\ UsesNumbers(Statements[j]) => Unstolen(regs')
  <2>1. j \in 1 .. Len(Statements) /\ j \in frame.pc .. Len(Statements) /\ frame.pc < j /\ j \in Nat
            /\ frame.pc \in Nat
    BY <1>1
  <2>2. /\ Statements[j].do \in Writing => \A r \in Borrowed : regs[r] = Null
        /\ UsesNumbers(Statements[j]) => Unstolen(regs)
    BY <1>1, <2>1 DEF Ahead
  <2>3. ASSUME Statements[j].do \in Writing, NEW r \in Borrowed PROVE regs'[r] = Null
    <3>1. i.do # "dictGetItemString"
      <4>1. j < c
        BY <1>4, <2>1, <2>3
      <4>2. i.do = "dictGetItemString" => c <= frame.pc
        BY <1>1, <1>4
      <4> QED
        BY <2>1, <4>1, <4>2
    <3>2. ~(i.keep = "object" /\ i.to = r)
      BY <1>1, <3>1 DEF Fine, Making, Stealing, Writing, Others, Borrowed, Stolen, Kept
    <3>3. r \in ObjectNames
      BY DEF Borrowed, ObjectNames
    <3> QED
      BY <1>2, <2>2, <2>3, <3>2, <3>3
  <2>4. ASSUME UsesNumbers(Statements[j]) PROVE Unstolen(regs')
    <3>1. i.do \notin Stealing
      <4>1. j < d
        BY <1>4, <2>1, <2>4
      <4>2. i.do \in Stealing => d <= frame.pc
        BY <1>1, <1>4
      <4> QED
        BY <2>1, <4>1, <4>2
    <3>2. ~(i.keep = "object" /\ i.to \in Stolen)
      BY <1>1, <3>1 DEF Fine, Making, Writing, Others, Borrowed, Stolen, Kept
    <3>3. \A r \in Stolen : r \in ObjectNames /\ regs'[r] = regs[r]
      BY <1>2, <3>2 DEF Stolen, ObjectNames
    <3> QED
      BY <2>2, <2>4, <3>3 DEF Unstolen, Stolen
  <2> QED
    BY <2>3, <2>4
<1> QED
  BY <1>1, <1>5 DEF Ahead

\* What is borrowed is held by locals until it is no longer used.
LEMMA BorrowsStep ==
  ASSUME NEW i, NEW o, Stepping(i, o)
  PROVE  Borrows'
<1>1. /\ Ahead /\ Borrows /\ Fine(i) /\ Does(i, o) /\ frame.pc \in 1 .. Len(Statements)
      /\ i = Statements[frame.pc] /\ Len(Statements) \in Nat
  BY SteppingIs DEF InCall
<1>2. \A r \in ObjectNames : IF i.keep = "object" /\ r = i.to THEN regs'[r] = o.ret ELSE regs'[r] = regs[r]
  BY RegistersStep
<1>3. \A r \in Borrowed : r \in ObjectNames
  BY DEF Borrowed, ObjectNames
<1>4. CASE i.do \in Writing
  <2>1. \A r \in Borrowed : regs[r] = Null
    <3>1. frame.pc \in frame.pc .. Len(Statements)
      BY <1>1
    <3> QED
      BY <1>1, <1>4, <3>1 DEF Ahead
  <2>2. ~(i.keep = "object" /\ i.to \in Borrowed)
    BY <1>1, <1>4 DEF Fine, Writing, Borrowed
  <2>3. \A r \in Borrowed : regs'[r] = Null
    BY <1>2, <1>3, <2>1, <2>2
  <2> QED
    BY <2>3 DEF Borrows
<1>5. CASE i.do \notin Writing
  <2>1. regs'["locals"] = regs["locals"] /\ (regs["locals"] # 0 => \A k : Local(k)' = Local(k))
    BY <1>5, HeapStep DEF Writing
  <2>2. ASSUME NEW r \in Borrowed, regs'[r] # Null PROVE regs'["locals"] # Null /\ Local(r)' = regs'[r]
    <3>1. CASE i.keep = "object" /\ i.to = r
      <4>1. i.do = "dictGetItemString" /\ i.args[2] = r
        BY <1>1, <3>1 DEF Fine, Making, Stealing, Writing, Others, Borrowed, Stolen, Kept
      <4>2. regs["locals"] # 0 /\ o.ret = Local(r)
        BY <1>1, <4>1 DEF Does
      <4>3. Local(r)' = Local(r)
        BY <2>1, <4>2
      <4> QED
        BY <1>2, <1>3, <2>1, <3>1, <4>2, <4>3 DEF Null
    <3>2. CASE ~(i.keep = "object" /\ i.to = r)
      <4>1. regs'[r] = regs[r]
        BY <1>2, <1>3, <3>2
      <4>2. regs["locals"] # 0 /\ Local(r) = regs[r]
        BY <1>1, <2>2, <4>1 DEF Borrows, Null
      <4>3. Local(r)' = Local(r)
        BY <2>1, <4>2
      <4> QED
        BY <2>1, <4>1, <4>2, <4>3 DEF Null
    <3> QED
      BY <3>1, <3>2
  <2> QED
    BY <2>2 DEF Borrows
<1> QED
  BY <1>4, <1>5

\* The fields of a statement.
LEMMA CallSays == \A keep, to, do, args : Says(Call(keep, to, do, args), keep, to, do, args)
BY DEF Call, Says

\* The fields of a statement.
LEMMA KeepSays == \A to, do, args : Says(Keep(to, do, args), "object", to, do, args)
BY DEF Keep, Call, Says

\* The fields of a statement.
LEMMA ValueSays == \A do, args : Says(Value(do, args), "value", "", do, args)
BY DEF Value, Call, Says

\* The fields of a statement.
LEMMA ElementsSay == \A names : Says(Elements(names), "rail", "", "rail", names)
BY DEF Elements, Call, Says

\* The fields of a statement.
LEMMA PutSays == \A key, to : Says(Put(key, to), "value", "", "dictSetItemString", <<"locals", key, to>>)
BY DEF Put, Value, Call, Says

\* The fields of a statement.
LEMMA TakeSays == \A key : Says(Take(key), "object", key, "dictGetItemString", <<"locals", key>>)
BY DEF Take, Keep, Call, Says

\* The fields of a statement.
LEMMA RunSays == \A command : Says(Run(command), "value", "", "runString", <<command, "globals", "locals">>)
BY DEF Run, Value, Call, Says

\* What was made stays.
LEMMA NumbersStay ==
  ASSUME NEW i, NEW o, Stepping(i, o)
  PROVE  /\ \A r \in Numbers : (regs[r] # 0 \/ (i.keep = "object" /\ i.to = r)) => regs'[r] # 0
         /\ i.do \notin Stealing /\ Unstolen(regs) => Unstolen(regs')
<1>1. Fine(i) /\ Does(i, o)
  BY SteppingIs
<1>2. \A r \in ObjectNames : IF i.keep = "object" /\ r = i.to THEN regs'[r] = o.ret ELSE regs'[r] = regs[r]
  BY RegistersStep
<1>3. ASSUME NEW r \in Numbers, regs[r] # 0 \/ (i.keep = "object" /\ i.to = r) PROVE regs'[r] # 0
  <2>1. r \in ObjectNames
    BY DEF Numbers, ObjectNames
  <2>2. CASE i.keep = "object" /\ i.to = r
    <3>1. i.do \in Making
      BY <1>1, <2>2 DEF Fine, Stealing, Writing, Others, Borrowed, Stolen, Kept, Numbers
    <3> QED
      BY <1>1, <1>2, <2>1, <2>2, <3>1 DEF Does
  <2>3. CASE ~(i.keep = "object" /\ i.to = r)
    BY <1>2, <1>3, <2>1, <2>3
  <2> QED
    BY <2>2, <2>3
<1>4. ASSUME i.do \notin Stealing, Unstolen(regs) PROVE Unstolen(regs')
  <2>1. ~(i.keep = "object" /\ i.to \in Stolen)
    BY <1>1, <1>4 DEF Fine, Making, Writing, Others, Borrowed, Stolen, Kept
  <2>2. \A r \in Stolen : r \in ObjectNames /\ regs'[r] = regs[r]
    BY <1>2, <2>1 DEF Stolen, ObjectNames
  <2> QED
    BY <1>4, <2>2 DEF Unstolen, Stolen
<1> QED
  BY <1>3, <1>4

\* The three numbers are made, put in the rail and stolen, in this order.
LEMMA ThreeMadeStep ==
  ASSUME NEW i, NEW o, Stepping(i, o), frame.script \in {"test_listFromRail", "test_tupleFromRail"}
  PROVE  ThreeMade'
<1>1. /\ ThreeMade /\ Does(i, o) /\ Passes(i, o) /\ i = Statements[frame.pc] /\ frame'.pc = frame.pc + 1
      /\ frame.pc \in Nat /\ frame.pc >= 1
  <2>1. Len(Statements) \in Nat /\ frame.pc \in 1 .. Len(Statements)
    BY SteppingIs
  <2>2. frame.pc \in Nat /\ frame.pc >= 1
    BY <2>1
  <2> QED
    BY <2>2, SteppingIs DEF InCall, Rails
<1>2. \A r \in ObjectNames : IF i.keep = "object" /\ r = i.to THEN regs'[r] = o.ret ELSE regs'[r] = regs[r]
  BY RegistersStep
<1>3. /\ \A r \in Numbers : (regs[r] # 0 \/ (i.keep = "object" /\ i.to = r)) => regs'[r] # 0
      /\ i.do \notin Stealing /\ Unstolen(regs) => Unstolen(regs')
  BY NumbersStay
<1>4. /\ Says(Statements[1], "object", "main", "importAddModule", <<>>)
      /\ Says(Statements[2], "object", "globals", "moduleGetDict", <<"main">>)
      /\ Says(Statements[3], "object", "locals", "dictNew", <<>>)
      /\ Says(Statements[4], "object", "a", "longFromLong", <<>>)
      /\ Says(Statements[5], "object", "b", "longFromLong", <<>>)
      /\ Says(Statements[6], "object", "c", "longFromLong", <<>>)
      /\ Says(Statements[7], "rail", "", "rail", <<"a", "b", "c">>)
  BY Script_test_listFromRail, Script_test_tupleFromRail, KeepSays, ElementsSay DEF Statements, Prologued
<1>5. /\ frame.pc = 4 => i.keep = "object" /\ i.to = "a"
      /\ frame.pc = 5 => i.keep = "object" /\ i.to = "b"
      /\ frame.pc = 6 => i.keep = "object" /\ i.to = "c"
      /\ frame.pc = 7 => i.keep = "rail" /\ i.do = "rail" /\ i.args = <<"a", "b", "c">>
  BY <1>1, <1>4 DEF Says
<1>6. frame.pc <= 7 => i.do \notin Stealing
  <2>1. frame.pc <= 7 => frame.pc = 1 \/ frame.pc = 2 \/ frame.pc = 3 \/ frame.pc = 4 \/ frame.pc = 5
            \/ frame.pc = 6 \/ frame.pc = 7
    BY <1>1
  <2> QED
    BY <1>1, <1>4, <2>1 DEF Says, Stealing
<1>7. frame'.pc <= 8 => Unstolen(regs')
  <2>1. frame'.pc <= 8 => frame.pc <= 7 /\ frame.pc <= 8
    BY <1>1
  <2> QED
    BY <1>1, <1>3, <1>6, <2>1 DEF ThreeMade
<1>8. frame'.pc = 8 => frame'.rail = <<regs'["a"], regs'["b"], regs'["c"]>>
  <2> SUFFICES ASSUME frame.pc = 7 PROVE frame'.rail = <<regs'["a"], regs'["b"], regs'["c"]>>
    BY <1>1
  <2>1. i.keep = "rail" /\ i.do = "rail" /\ i.args = <<"a", "b", "c">>
    BY <1>5
  <2>2. frame'.rail = [n \in DOMAIN i.args |-> regs[i.args[n]]]
    BY <1>1, <2>1 DEF Passes, Does
  <2>3. frame'.rail = <<regs["a"], regs["b"], regs["c"]>>
    BY <2>1, <2>2
  <2>4. regs'["a"] = regs["a"] /\ regs'["b"] = regs["b"] /\ regs'["c"] = regs["c"]
    BY <1>2, <2>1 DEF ObjectNames
  <2> QED
    BY <2>3, <2>4
<1>9. /\ frame'.pc >= 5 => regs'["a"] # Null
      /\ frame'.pc >= 6 => regs'["b"] # Null
      /\ frame'.pc >= 7 => regs'["c"] # Null
  <2>1. /\ frame'.pc >= 5 => frame.pc = 4 \/ frame.pc >= 5
        /\ frame'.pc >= 6 => frame.pc = 5 \/ frame.pc >= 6
        /\ frame'.pc >= 7 => frame.pc = 6 \/ frame.pc >= 7
    BY <1>1
  <2>2. "a" \in Numbers /\ "b" \in Numbers /\ "c" \in Numbers
    BY DEF Numbers
  <2>3. /\ frame.pc >= 5 => regs["a"] # 0
        /\ frame.pc >= 6 => regs["b"] # 0
        /\ frame.pc >= 7 => regs["c"] # 0
    BY <1>1 DEF ThreeMade, Null
  <2> QED
    BY <1>3, <1>5, <2>1, <2>2, <2>3 DEF Null
<1> QED
  BY <1>7, <1>8, <1>9 DEF ThreeMade

\* What locals hold stays, but for the key that is written.
LEMMA LocalsStay ==
  ASSUME NEW i, NEW o, Stepping(i, o)
  PROVE  /\ i.do \notin Writing /\ regs["locals"] # 0 =>
              regs'["locals"] = regs["locals"] /\ \A k : Local(k)' = Local(k)
         /\ i.do = "dictSetItemString" =>
              /\ regs["locals"] # 0 /\ regs'["locals"] = regs["locals"] /\ Local(i.args[2])' = regs[i.args[3]]
              /\ regs[i.args[3]] # 0 /\ \A k : k # i.args[2] => Local(k)' = Local(k)
         /\ i.do = "runString" /\ i.args[1] = "defTestfunc" =>
              /\ regs["locals"] # 0 /\ regs'["locals"] = regs["locals"]
              /\ \A k : k # "testfunc" => Local(k)' = Local(k)
<1>1. Does(i, o) /\ py' = o.py
  BY SteppingIs
<1>2. i.do \in {"dictSetItemString", "runString"} => regs'["locals"] = regs["locals"]
  BY HeapStep
<1>3. i.do \notin Writing /\ regs["locals"] # 0 => regs'["locals"] = regs["locals"] /\ \A k : Local(k)' = Local(k)
  BY HeapStep DEF Writing
<1>4. i.do = "dictSetItemString" =>
        /\ regs["locals"] # 0 /\ regs'["locals"] = regs["locals"] /\ Local(i.args[2])' = regs[i.args[3]]
        /\ regs[i.args[3]] # 0 /\ \A k : k # i.args[2] => Local(k)' = Local(k)
  BY <1>1, <1>2 DEF Does, Puts, Local
<1>5. i.do = "runString" /\ i.args[1] = "defTestfunc" =>
        /\ regs["locals"] # 0 /\ regs'["locals"] = regs["locals"]
        /\ \A k : k # "testfunc" => Local(k)' = Local(k)
  BY <1>1, <1>2 DEF Does, Runs, Local
<1> QED
  BY <1>3, <1>4, <1>5

\* The two strings are made, bound, borrowed, put in the rail and stolen, in this order.
LEMMA TwoMadeStep ==
  ASSUME NEW i, NEW o, Stepping(i, o), frame.script = "test_objectCallObjectFunc"
  PROVE  TwoMade'
<1>1. /\ TwoMade /\ Does(i, o) /\ Passes(i, o) /\ i = Statements[frame.pc] /\ frame'.pc = frame.pc + 1
      /\ frame.pc \in 1 .. 14
  BY SteppingIs, Script_test_objectCallObjectFunc DEF InCall, Rails, Statements
<1>2. \A r \in ObjectNames : IF i.keep = "object" /\ r = i.to THEN regs'[r] = o.ret ELSE regs'[r] = regs[r]
  BY RegistersStep
<1>3. /\ \A r \in Numbers : (regs[r] # 0 \/ (i.keep = "object" /\ i.to = r)) => regs'[r] # 0
      /\ i.do \notin Stealing /\ Unstolen(regs) => Unstolen(regs')
  BY NumbersStay
<1>4. /\ Says(Statements[1], "object", "main", "importAddModule", <<>>)
      /\ Says(Statements[2], "object", "globals", "moduleGetDict", <<"main">>)
      /\ Says(Statements[3], "object", "locals", "dictNew", <<>>)
      /\ Says(Statements[4], "object", "a", "unicodeFromString", <<>>)
      /\ Says(Statements[5], "value", "", "dictSetItemString", <<"locals", "strleft", "a">>)
      /\ Says(Statements[6], "object", "b", "unicodeFromString", <<>>)
      /\ Says(Statements[7], "value", "", "dictSetItemString", <<"locals", "strright", "b">>)
      /\ Says(Statements[8], "value", "", "runString", <<"defTestfunc", "globals", "locals">>)
      /\ Says(Statements[9], "object", "strleft", "dictGetItemString", <<"locals", "strleft">>)
      /\ Says(Statements[10], "object", "strright", "dictGetItemString", <<"locals", "strright">>)
      /\ Says(Statements[11], "rail", "", "rail", <<"strleft", "strright">>)
      /\ Says(Statements[12], "object", "testfunc", "dictGetItemString", <<"locals", "testfunc">>)
      /\ Says(Statements[13], "object", "called", "objectCallObject", <<"testfunc">>)
      /\ Says(Statements[14], "value", "", "objectStr", <<"called">>)
  BY Script_test_objectCallObjectFunc, KeepSays, PutSays, RunSays, TakeSays, ElementsSay,
      ValueSays DEF Statements, Prologued
<1>5. \A r \in {"a", "b", "strleft", "strright"} : r \in ObjectNames /\ ("a" \in Numbers /\ "b" \in Numbers)
  BY DEF ObjectNames, Numbers
<1>6. /\ \A r \in {"a", "b", "strleft", "strright"} : ~(i.keep = "object" /\ i.to = r) => regs'[r] = regs[r]
      /\ \A r \in {"a", "b"} : (regs[r] # 0 \/ (i.keep = "object" /\ i.to = r)) => regs'[r] # 0
  BY <1>2, <1>3, <1>5
<1>7. CASE frame.pc \in 1 .. 3
  <2>1. frame.pc = 1 \/ frame.pc = 2 \/ frame.pc = 3
    BY <1>7
  <2>2. i.do \notin Stealing
    BY <1>1, <1>4, <2>1 DEF Says, Stealing
  <2>3. Unstolen(regs')
    BY <1>1, <1>3, <2>1, <2>2 DEF TwoMade
  <2> QED
    BY <1>1, <2>1, <2>3 DEF TwoMade
<1>8. CASE frame.pc = 4
  <2>1. i.keep = "object" /\ i.to = "a" /\ i.do = "unicodeFromString"
    BY <1>1, <1>4, <1>8 DEF Says
  <2>2. Unstolen(regs') /\ regs'["a"] # 0
    BY <1>1, <1>3, <1>6, <1>8, <2>1 DEF TwoMade, Stealing
  <2> QED
    BY <1>1, <1>8, <2>2 DEF TwoMade, Null
<1>9. CASE frame.pc = 5
  <2>1. i.keep = "value" /\ i.do = "dictSetItemString" /\ i.args = <<"locals", "strleft", "a">>
    BY <1>1, <1>4, <1>9 DEF Says
  <2>2. Unstolen(regs') /\ regs'["a"] = regs["a"] /\ regs'["a"] # 0
    BY <1>1, <1>3, <1>6, <1>9, <2>1 DEF TwoMade, Stealing, Null
  <2>3. regs'["locals"] # 0 /\ Local("strleft")' = regs["a"]
    BY <2>1, LocalsStay
  <2> QED
    BY <1>1, <1>9, <2>2, <2>3 DEF TwoMade, Null
<1>10. CASE frame.pc = 6
  <2>1. i.keep = "object" /\ i.to = "b" /\ i.do = "unicodeFromString"
    BY <1>1, <1>4, <1>10 DEF Says
  <2>2. regs["a"] # 0 /\ regs["locals"] # 0 /\ Local("strleft") = regs["a"] /\ Unstolen(regs)
    BY <1>1, <1>10 DEF TwoMade, Null
  <2>3. Unstolen(regs') /\ regs'["a"] = regs["a"] /\ regs'["b"] # 0
    BY <1>3, <1>6, <2>1, <2>2 DEF Stealing
  <2>4. regs'["locals"] # 0 /\ Local("strleft")' = Local("strleft")
    BY <2>1, <2>2, LocalsStay DEF Writing
  <2> QED
    BY <1>1, <1>10, <2>2, <2>3, <2>4 DEF TwoMade, Null
<1>11. CASE frame.pc = 7
  <2>1. i.keep = "value" /\ i.do = "dictSetItemString" /\ i.args = <<"locals", "strright", "b">>
    BY <1>1, <1>4, <1>11 DEF Says
  <2>2. regs["a"] # 0 /\ regs["b"] # 0 /\ Local("strleft") = regs["a"] /\ Unstolen(regs)
    BY <1>1, <1>11 DEF TwoMade, Null
  <2>3. Unstolen(regs') /\ regs'["a"] = regs["a"] /\ regs'["b"] = regs["b"]
    BY <1>3, <1>6, <2>1, <2>2 DEF Stealing
  <2>4. regs'["locals"] # 0 /\ Local("strleft")' = Local("strleft") /\ Local("strright")' = regs["b"]
    BY <2>1, LocalsStay
  <2> QED
    BY <1>1, <1>11, <2>2, <2>3, <2>4 DEF TwoMade, Null
<1>12. CASE frame.pc = 8
  <2> DEFINE args == <<"defTestfunc", "globals", "locals">>
  <2>0. Says(i, "value", "", "runString", args)
    BY <1>1, <1>4, <1>12
  <2>1. i.keep = "value" /\ i.do = "runString" /\ i.args[1] = "defTestfunc"
    <3>1. i.keep = "value" /\ i.do = "runString" /\ i.args = args
      BY <2>0 DEF Says
    <3>2. args[1] = "defTestfunc"
      OBVIOUS
    <3> QED
      BY <3>1, <3>2
  <2>2. /\ regs["a"] # 0 /\ regs["b"] # 0 /\ Local("strleft") = regs["a"] /\ Local("strright") = regs["b"]
        /\ Unstolen(regs)
    BY <1>1, <1>12 DEF TwoMade, Null
  <2>3. Unstolen(regs') /\ regs'["a"] = regs["a"] /\ regs'["b"] = regs["b"]
    BY <1>3, <1>6, <2>1, <2>2 DEF Stealing
  <2>4. /\ regs'["locals"] # 0 /\ Local("strleft")' = Local("strleft")
        /\ Local("strright")' = Local("strright")
    BY <2>1, LocalsStay
  <2> QED
    BY <1>1, <1>12, <2>2, <2>3, <2>4 DEF TwoMade, Null
<1>13. CASE frame.pc \in {9, 10, 11, 12, 13, 14}
  <2>1. /\ regs["a"] # 0 /\ regs["b"] # 0 /\ Local("strleft") = regs["a"] /\ Local("strright") = regs["b"]
        /\ regs["locals"] # 0 /\ (frame.pc <= 13 => Unstolen(regs))
    BY <1>1, <1>13 DEF TwoMade, Null
  <2>2. i.do \notin Writing /\ (frame.pc <= 12 => i.do \notin Stealing) /\ ~(i.keep = "object" /\ i.to \in {"a", "b"})
    <3>1. CASE frame.pc = 9
      BY <1>1, <1>4, <3>1 DEF Says, Writing, Stealing
    <3>2. CASE frame.pc = 10
      BY <1>1, <1>4, <3>2 DEF Says, Writing, Stealing
    <3>3. CASE frame.pc = 11
      BY <1>1, <1>4, <3>3 DEF Says, Writing, Stealing
    <3>4. CASE frame.pc = 12
      BY <1>1, <1>4, <3>4 DEF Says, Writing, Stealing
    <3>5. CASE frame.pc = 13
      <4>1. ~(frame.pc <= 12)
        BY <3>5
      <4>2. i.do = "objectCallObject" /\ i.to = "called"
        BY <1>1, <1>4, <3>5 DEF Says
      <4> QED
        BY <4>1, <4>2 DEF Writing
    <3>6. CASE frame.pc = 14
      <4>1. ~(frame.pc <= 12)
        BY <3>6
      <4>2. i.do = "objectStr" /\ i.keep = "value"
        BY <1>1, <1>4, <3>6 DEF Says
      <4> QED
        BY <4>1, <4>2 DEF Writing
    <3> QED
      BY <1>13, <3>1, <3>2, <3>3, <3>4, <3>5, <3>6
  <2>3. /\ regs'["a"] = regs["a"] /\ regs'["b"] = regs["b"] /\ regs'["locals"] # 0
        /\ Local("strleft")' = Local("strleft") /\ Local("strright")' = Local("strright")
        /\ (frame.pc <= 12 => Unstolen(regs'))
    <3>1. frame.pc <= 12 => frame.pc <= 13
      BY <1>1
    <3> QED
      BY <1>3, <1>6, <2>1, <2>2, <3>1, LocalsStay
  <2>4. frame.pc = 9 => regs'["strleft"] = regs["a"]
    <3>0. frame.pc = 9 => Says(i, "object", "strleft", "dictGetItemString", <<"locals", "strleft">>)
      BY <1>1, <1>4
    <3>1. frame.pc = 9 => i.keep = "object" /\ i.to = "strleft" /\ i.do = "dictGetItemString" /\ i.args[2] = "strleft"
      BY <3>0 DEF Says
    <3> QED
      BY <1>1, <1>2, <1>5, <2>1, <3>1 DEF Does
  <2>5. frame.pc = 10 => regs'["strright"] = regs["b"] /\ regs'["strleft"] = regs["strleft"]
    <3>0. frame.pc = 10 => Says(i, "object", "strright", "dictGetItemString", <<"locals", "strright">>)
      BY <1>1, <1>4
    <3>1. frame.pc = 10 => i.keep = "object" /\ i.to = "strright" /\ i.do = "dictGetItemString"
              /\ i.args[2] = "strright"
      BY <3>0 DEF Says
    <3> QED
      BY <1>1, <1>2, <1>5, <1>6, <2>1, <3>1 DEF Does
  <2>6. frame.pc \in {11, 12, 13, 14} => regs'["strright"] = regs["strright"] /\ regs'["strleft"] = regs["strleft"]
    <3>1. frame.pc \in {11, 12, 13, 14} => ~(i.keep = "object" /\ i.to \in {"strleft", "strright"})
      BY <1>1, <1>4 DEF Says
    <3> QED
      BY <1>6, <3>1
  <2>7. frame.pc = 11 => frame'.rail = <<regs["strleft"], regs["strright"]>>
    <3> SUFFICES ASSUME frame.pc = 11 PROVE frame'.rail = <<regs["strleft"], regs["strright"]>>
      OBVIOUS
    <3>1. i.keep = "rail" /\ i.do = "rail" /\ i.args = <<"strleft", "strright">>
      BY <1>1, <1>4 DEF Says
    <3>2. frame'.rail = [n \in DOMAIN i.args |-> regs[i.args[n]]]
      BY <1>1, <3>1 DEF Passes, Does
    <3> QED
      BY <3>1, <3>2
  <2>8. frame.pc = 12 => frame'.rail = frame.rail
    <3>1. frame.pc = 12 => i.keep = "object"
      BY <1>1, <1>4 DEF Says
    <3> QED
      BY <1>1, <3>1 DEF Passes
  <2>9. /\ frame.pc >= 10 => regs["strleft"] = regs["a"]
        /\ frame.pc >= 11 => regs["strright"] = regs["b"]
        /\ frame.pc = 12 => frame.rail = <<regs["a"], regs["b"]>>
    BY <1>1 DEF TwoMade
  <2> HIDE DEF Local
  <2>10. /\ regs'["strleft"] = regs'["a"] /\ (frame.pc >= 10 => regs'["strright"] = regs'["b"])
         /\ frame.pc \in {11, 12} => frame'.rail = <<regs'["a"], regs'["b"]>>
    BY <1>13, <2>3, <2>4, <2>5, <2>6, <2>7, <2>8, <2>9
  <2> QED
    BY <1>1, <1>13, <2>1, <2>3, <2>10 DEF TwoMade, Null
<1>14. \A n \in 1 .. 14 : n \in 1 .. 3 \/ n = 4 \/ n = 5 \/ n = 6 \/ n = 7 \/ n = 8 \/ n \in {9, 10, 11, 12, 13, 14}
  OBVIOUS
<1> QED
  BY <1>1, <1>7, <1>8, <1>9, <1>10, <1>11, <1>12, <1>13, <1>14

-----------------------------------------------------------------------------
(***************************************************************************)
(* What the aggregator and the terminator read and answer.                 *)
(***************************************************************************)
\* What locals hold exists.
LEMMA LocalIs ==
  ASSUME Calling, regs["locals"] # 0
  PROVE  \A k : Local(k) \in Nat /\ Local(k) <= Len(py.heap)
<1> DEFINE own == AndError(Registers(regs), py.err)
<1>1. /\ own \in Ledger /\ Counted(py, own) /\ \A x \in Nat : Registers(regs)[x] # 0 => own[x] # 0
      /\ regs \in [ObjectNames -> Nat]
  BY CallingIs, ErrorsKept DEF Ready
<1>2. regs["locals"] \in Nat /\ own[regs["locals"]] # 0
  <2>1. regs["locals"] \in Nat
    BY <1>1 DEF ObjectNames
  <2> HIDE DEF own
  <2> QED
    BY <1>1, <2>1, HeldOwned
<1> HIDE DEF own
<1> QED
  BY <1>1, <1>2, ItemIs DEF Local

\* The memory stays but where it is made and deleted.
LEMMA MemoryStays ==
  ASSUME NEW i, NEW o, Stepping(i, o), i.do \notin {"make", "del"}
  PROVE  /\ py'.mem = py.mem /\ frame'.call = frame.call
         /\ \A n \in DOMAIN NoChunks : frame'.chunk[n] = frame.chunk[n]
         /\ \A c : Current(c) => Current(c)'
<1>1. Passes(i, o) /\ Effect(i, o) /\ py' = o.py /\ frame'.call = frame.call
  BY SteppingIs
<1>2. py'.mem = py.mem
  BY <1>1 DEF Effect
<1>3. frame'.chunk["mca"] = frame.chunk["mca"]
          /\ \A n \in DOMAIN NoChunks \ {"mca"} : frame'.chunk[n] = frame.chunk[n]
  BY <1>1 DEF Passes
<1>4. \A n \in DOMAIN NoChunks : frame'.chunk[n] = frame.chunk[n]
  BY <1>3
<1> QED
  BY <1>1, <1>2, <1>4 DEF Current

\* A view stays what it is.
LEMMA ViewsStay ==
  ASSUME NEW i, NEW o, Stepping(i, o), NEW r \in ObjectNames
  PROVE  /\ ~(i.keep = "object" /\ i.to = r) => \A c : Shows(regs[r], c) => Shows(regs[r], c)'
         /\ i.do = "memoryViewFromMemoryChunk" /\ i.keep = "object" /\ i.to = r =>
              regs'[r] # 0 /\ py'.heap[regs'[r]].data.n = frame.chunk[i.args[1]]
<1>1. Does(i, o) /\ py' = o.py /\ Len(py.heap) \in Nat
  BY SteppingIs
<1>2. /\ regs[r] \in Nat /\ regs[r] <= Len(py.heap)
      /\ IF i.keep = "object" /\ i.to = r THEN regs'[r] = o.ret ELSE regs'[r] = regs[r]
  BY RegistersStep
<1>3. ASSUME NEW c, ~(i.keep = "object" /\ i.to = r), Shows(regs[r], c) PROVE Shows(regs[r], c)'
  <2>1. regs[r] # 0 /\ py.heap[regs[r]].data.n = c
    BY <1>3 DEF Shows, Null
  <2>2. regs[r] \in 1 .. Len(py.heap)
    BY <1>1, <1>2, <2>1
  <2>3. py'.heap[regs[r]].data = py.heap[regs[r]].data
    BY <2>2, HeapStep
  <2> QED
    BY <1>2, <1>3, <2>1, <2>3 DEF Shows, Null
<1>4. i.do = "memoryViewFromMemoryChunk" => o.ret # 0 /\ o.py.heap[o.ret].data.n = frame.chunk[i.args[1]]
  BY <1>1 DEF Does, Making
<1> QED
  BY <1>1, <1>2, <1>3, <1>4

\* What has been computed in this call stays so until a program runs again.
LEMMA ComputedStays ==
  ASSUME NEW i, NEW o, Stepping(i, o)
  PROVE  /\ i.do \notin Writing /\ ComputedNow => ComputedNow' /\ \A k : Local(k)' = Local(k)
         /\ i.do = "runString" /\ i.args[1] \in {"aggregate", "terminate"} => ComputedNow'
<1>1. /\ Does(i, o) /\ py' = o.py /\ Len(py.heap) \in Nat /\ frame'.call = frame.call
      /\ Calling
  BY SteppingIs DEF Stepping, Doing
<1>2. ASSUME i.do \notin Writing, ComputedNow PROVE ComputedNow' /\ \A k : Local(k)' = Local(k)
  <2>1. regs["locals"] # 0 /\ Local("retval") # 0 /\ py.heap[Local("retval")].data.from = frame.call
    BY <1>2 DEF ComputedNow, Null
  <2>2. Local("retval") \in Nat /\ Local("retval") <= Len(py.heap)
    BY <1>1, <2>1, LocalIs
  <2>3. PICK v : v = Local("retval")
    OBVIOUS
  <2>4. v \in 1 .. Len(py.heap)
    BY <1>1, <2>1, <2>2, <2>3
  <2>5. py'.heap[v].data = py.heap[v].data
    BY <2>4, HeapStep
  <2>6. regs'["locals"] = regs["locals"] /\ \A k : Local(k)' = Local(k)
    BY <1>2, <2>1, LocalsStay
  <2>7. Local("retval")' = v /\ py.heap[v].data.from = frame.call /\ v # 0
    BY <2>1, <2>3, <2>6
  <2>8. py'.heap[v].data.from = frame'.call
    BY <1>1, <2>5, <2>7
  <2>9. ComputedNow' = (regs'["locals"] # 0 /\ Local("retval")' # 0
            /\ py'.heap[Local("retval")'].data.from = frame'.call)
    BY DEF ComputedNow, Null
  <2> QED
    BY <2>1, <2>6, <2>7, <2>8, <2>9
<1>3. ASSUME i.do = "runString", i.args[1] \in {"aggregate", "terminate"} PROVE ComputedNow'
  <2>1. Runs(i, o)
    BY <1>1, <1>3 DEF Does
  <2>2. regs'["locals"] = regs["locals"]
    BY <1>3, HeapStep
  <2> QED
    BY <1>1, <1>3, <2>1, <2>2 DEF Runs, ComputedNow, Local, Null
<1> QED
  BY <1>2, <1>3

\* The aggregator reads the values of this call, and answers with what it has computed from them.
LEMMA FreshValuesStep ==
  ASSUME NEW i, NEW o, Stepping(i, o), frame.script = "callAggregator"
  PROVE  FreshValues' /\ (frame.pc = 5 => frame'.value.from = frame'.call)
<1>1. /\ FreshValues /\ Does(i, o) /\ Passes(i, o) /\ i = Statements[frame.pc] /\ frame'.pc = frame.pc + 1
      /\ frame.pc \in 1 .. 5 /\ py' = o.py /\ frame'.call = frame.call
  BY SteppingIs, Script_callAggregator DEF InCall, Fresh, Statements
<1>2. \A r \in ObjectNames : IF i.keep = "object" /\ r = i.to THEN regs'[r] = o.ret ELSE regs'[r] = regs[r]
  BY RegistersStep
<1>3. "avalues" \in ObjectNames /\ "retval" \in ObjectNames /\ "values" \in DOMAIN NoChunks
  BY DEF ObjectNames, NoChunks
<1>4. /\ Says(Statements[1], "object", "avalues", "memoryViewFromMemoryChunk", <<"values">>)
      /\ Says(Statements[2], "value", "", "dictSetItemString", <<"locals", "avalues", "avalues">>)
      /\ Says(Statements[3], "value", "", "runString", <<"aggregate", "globals", "locals">>)
      /\ Says(Statements[4], "object", "retval", "dictGetItemString", <<"locals", "retval">>)
      /\ Says(Statements[5], "value", "", "bufferAsMemoryChunk", <<"retval">>)
  BY Script_callAggregator, KeepSays, PutSays, RunSays, TakeSays, ValueSays DEF Statements
<1> DEFINE Stays == /\ Current(frame.chunk.values)'
                    /\ ~(i.keep = "object" /\ i.to = "avalues") /\ Shows(regs["avalues"], frame.chunk.values) =>
                         Shows(regs["avalues"], frame.chunk.values)'
<1>5. ASSUME i.do \notin {"make", "del"} PROVE Stays
  <2>1. /\ frame'.chunk["values"] = frame.chunk["values"]
        /\ \A c : Current(c) => Current(c)'
    BY <1>3, <1>5, MemoryStays
  <2>2. Current(frame.chunk.values)
    BY <1>1 DEF FreshValues
  <2>3. PICK c : c = frame.chunk.values
    OBVIOUS
  <2>4. Current(c)'
    BY <2>1, <2>2, <2>3
  <2>5. ~(i.keep = "object" /\ i.to = "avalues") => (Shows(regs["avalues"], c) => Shows(regs["avalues"], c)')
    BY <1>3, ViewsStay
  <2> QED
    BY <2>1, <2>3, <2>4, <2>5 DEF Current, Shows
<1> HIDE DEF Stays
<1>6. CASE frame.pc = 1
  <2>1. Says(i, "object", "avalues", "memoryViewFromMemoryChunk", <<"values">>)
    BY <1>1, <1>4, <1>6
  <2>2. i.do = "memoryViewFromMemoryChunk" /\ i.keep = "object" /\ i.to = "avalues" /\ i.args = <<"values">>
    BY <2>1 DEF Says
  <2>3. regs'["avalues"] # 0 /\ py'.heap[regs'["avalues"]].data.n = frame.chunk[i.args[1]]
    BY <1>3, <2>2, ViewsStay
  <2>4. Stays /\ frame'.chunk["values"] = frame.chunk["values"]
    BY <1>3, <1>5, <2>2, MemoryStays
  <2>5. Shows(regs["avalues"], frame.chunk.values)'
    BY <2>2, <2>3, <2>4 DEF Shows, Null
  <2> QED
    BY <1>1, <1>6, <2>4, <2>5 DEF FreshValues, Stays
<1>7. CASE frame.pc = 2
  <2>1. Says(i, "value", "", "dictSetItemString", <<"locals", "avalues", "avalues">>)
    BY <1>1, <1>4, <1>7
  <2>2. i.do = "dictSetItemString" /\ i.keep = "value" /\ i.args = <<"locals", "avalues", "avalues">>
    BY <2>1 DEF Says
  <2>3. regs'["locals"] # 0 /\ Local("avalues")' = regs["avalues"] /\ regs'["avalues"] = regs["avalues"]
    BY <1>2, <1>3, <2>2, LocalsStay
  <2>4. Stays /\ Shows(regs["avalues"], frame.chunk.values)
    BY <1>1, <1>5, <1>7, <2>2 DEF FreshValues
  <2> QED
    BY <1>1, <1>7, <2>2, <2>3, <2>4 DEF FreshValues, Stays, Null
<1>8. CASE frame.pc = 3
  <2>1. Says(i, "value", "", "runString", <<"aggregate", "globals", "locals">>)
    BY <1>1, <1>4, <1>8
  <2>2. i.do = "runString" /\ i.keep = "value" /\ i.args = <<"aggregate", "globals", "locals">>
    BY <2>1 DEF Says
  <2>3. ComputedNow'
    BY <2>2, ComputedStays
  <2>4. Stays /\ Shows(regs["avalues"], frame.chunk.values)
    BY <1>1, <1>5, <1>8, <2>2 DEF FreshValues
  <2> QED
    BY <1>1, <1>8, <2>2, <2>3, <2>4 DEF FreshValues, Stays
<1>9. CASE frame.pc = 4
  <2>1. Says(i, "object", "retval", "dictGetItemString", <<"locals", "retval">>)
    BY <1>1, <1>4, <1>9
  <2>2. i.do = "dictGetItemString" /\ i.keep = "object" /\ i.to = "retval" /\ i.args = <<"locals", "retval">>
    BY <2>1 DEF Says
  <2>3. ComputedNow' /\ Local("retval")' = Local("retval")
    BY <1>1, <1>9, <2>2, ComputedStays DEF FreshValues, Writing
  <2>4. Stays /\ Shows(regs["avalues"], frame.chunk.values)
    BY <1>1, <1>5, <1>9, <2>2 DEF FreshValues
  <2>5. regs'["retval"] = Local("retval")
    BY <1>1, <1>2, <1>3, <2>2 DEF Does
  <2> QED
    BY <1>1, <1>9, <2>2, <2>3, <2>4, <2>5 DEF FreshValues, Stays
<1>10. CASE frame.pc = 5
  <2>1. Says(i, "value", "", "bufferAsMemoryChunk", <<"retval">>)
    BY <1>1, <1>4, <1>10
  <2>2. i.do = "bufferAsMemoryChunk" /\ i.keep = "value" /\ i.args = <<"retval">>
    BY <2>1 DEF Says
  <2>3. ComputedNow /\ regs["retval"] = Local("retval") /\ Shows(regs["avalues"], frame.chunk.values)
    BY <1>1, <1>10 DEF FreshValues
  <2>4. ComputedNow' /\ Local("retval")' = Local("retval") /\ regs'["retval"] = regs["retval"]
    BY <1>2, <1>3, <2>2, <2>3, ComputedStays DEF Writing
  <2>5. Stays
    BY <1>5, <2>2
  <2>6. frame'.value.from = frame'.call
    <3>1. i.args[1] = "retval" /\ regs["retval"] # 0
      BY <2>2, <2>3 DEF ComputedNow, Null
    <3>2. o.ret = py.heap[regs["retval"]].data
      BY <1>1, <2>2, <3>1 DEF Does
    <3>3. frame'.value = o.ret
      BY <1>1, <2>2 DEF Passes
    <3> QED
      BY <1>1, <2>3, <3>2, <3>3 DEF ComputedNow
  <2> QED
    BY <1>1, <1>10, <2>2, <2>3, <2>4, <2>5, <2>6 DEF FreshValues, Stays
<1> QED
  BY <1>1, <1>6, <1>7, <1>8, <1>9, <1>10

\* The terminator reads the memory of this call, and answers with what it has computed from it.
LEMMA FreshAnswerStep ==
  ASSUME NEW i, NEW o, Stepping(i, o), frame.script = "callTerminator"
  PROVE  FreshAnswer' /\ (frame.pc = 9 => frame'.value.from = frame'.call)
<1>1. /\ FreshAnswer /\ Does(i, o) /\ Passes(i, o) /\ i = Statements[frame.pc] /\ frame'.pc = frame.pc + 1
      /\ frame.pc \in 1 .. 9 /\ py' = o.py /\ frame'.call = frame.call
  BY SteppingIs, Script_callTerminator DEF InCall, Fresh, Statements
<1>2. \A r \in ObjectNames : IF i.keep = "object" /\ r = i.to THEN regs'[r] = o.ret ELSE regs'[r] = regs[r]
  BY RegistersStep
<1>3. "pObjAggVal" \in ObjectNames /\ "retval" \in ObjectNames /\ "mca" \in DOMAIN NoChunks
  BY DEF ObjectNames, NoChunks
<1>4. /\ Says(Statements[1], "value", "", "make", <<>>)
      /\ Says(Statements[2], "object", "pObjAggVal", "memoryViewFromMemoryChunk", <<"mca">>)
      /\ Says(Statements[3], "object", "pObjSS", "longFromLong", <<>>)
      /\ Says(Statements[4], "value", "", "dictSetItemString", <<"locals", "tmpAggVal", "pObjAggVal">>)
      /\ Says(Statements[5], "value", "", "dictSetItemString", <<"locals", "ss", "pObjSS">>)
      /\ Says(Statements[6], "value", "", "runString", <<"terminate", "globals", "locals">>)
      /\ Says(Statements[7], "object", "retval", "dictGetItemString", <<"locals", "retval">>)
      /\ Says(Statements[8], "value", "", "longAsLong", <<"retval">>)
      /\ Says(Statements[9], "no", "", "del", <<>>)
  BY Script_callTerminator, KeepSays, PutSays, RunSays, TakeSays, ValueSays, CallSays DEF Statements
<1> DEFINE Memory == Current(frame.chunk.mca)'
           View == Shows(regs["pObjAggVal"], frame.chunk.mca)
<1>5. ASSUME i.do \notin {"make", "del"}, frame.pc >= 2 PROVE Memory
  <2>1. /\ frame'.chunk["mca"] = frame.chunk["mca"]
        /\ \A c : Current(c) => Current(c)'
    BY <1>3, <1>5, MemoryStays
  <2>2. Current(frame.chunk.mca)
    <3>1. frame.pc \in 2 .. 9
      BY <1>1, <1>5
    <3> QED
      BY <1>1, <3>1 DEF FreshAnswer
  <2>3. PICK c : c = frame.chunk.mca
    OBVIOUS
  <2>4. Current(c)'
    BY <2>1, <2>2, <2>3
  <2> QED
    BY <2>1, <2>3, <2>4 DEF Current
<1>6. ASSUME i.do # "make", ~(i.keep = "object" /\ i.to = "pObjAggVal"), frame.pc >= 3 PROVE View'
  <2>1. frame'.chunk["mca"] = frame.chunk["mca"]
    BY <1>1, <1>6 DEF Passes
  <2>2. View
    BY <1>1, <1>6 DEF FreshAnswer
  <2>3. PICK c : c = frame.chunk.mca
    OBVIOUS
  <2>4. Shows(regs["pObjAggVal"], c)'
    BY <1>3, <1>6, <2>2, <2>3, ViewsStay
  <2> QED
    BY <2>1, <2>3, <2>4 DEF Shows
<1> HIDE DEF Memory, View
<1>7. CASE frame.pc = 1
  <2>1. Says(i, "value", "", "make", <<>>)
    BY <1>1, <1>4, <1>7
  <2>2. i.do = "make"
    BY <2>1 DEF Says
  <2>3. frame'.chunk.mca = Len(py'.mem) /\ py'.mem = Append(py.mem, [live |-> TRUE, from |-> frame.call])
    BY <1>1, <2>2 DEF Passes, Does
  <2>4. py.mem \in Seq([live : BOOLEAN, from : Int])
    BY SteppingIs, CallingIs DEF Stepping, Doing, Ready, Counted, Interpreter
  <2>5. PICK m : m = [live |-> TRUE, from |-> frame.call]
    OBVIOUS
  <2>6. Len(py'.mem) \in DOMAIN py'.mem /\ py'.mem[Len(py'.mem)] = m
    BY <2>3, <2>4, <2>5
  <2>7. m.live /\ m.from = frame.call
    BY <2>5
  <2>8. Memory
    BY <1>1, <2>3, <2>6, <2>7 DEF Memory, Current
  <2>9. frame'.pc = 2
    BY <1>1, <1>7
  <2> QED
    BY <1>7, <2>8, <2>9 DEF FreshAnswer, Memory
<1>8. CASE frame.pc = 2
  <2>1. Says(i, "object", "pObjAggVal", "memoryViewFromMemoryChunk", <<"mca">>)
    BY <1>1, <1>4, <1>8
  <2>2. i.do = "memoryViewFromMemoryChunk" /\ i.keep = "object" /\ i.to = "pObjAggVal" /\ i.args = <<"mca">>
    BY <2>1 DEF Says
  <2>3. regs'["pObjAggVal"] # 0 /\ py'.heap[regs'["pObjAggVal"]].data.n = frame.chunk[i.args[1]]
    BY <1>3, <2>2, ViewsStay
  <2>4. Memory /\ frame'.chunk["mca"] = frame.chunk["mca"]
    BY <1>1, <1>3, <1>5, <1>8, <2>2, MemoryStays
  <2>5. View'
    BY <2>2, <2>3, <2>4 DEF Shows, Null, View
  <2>6. frame'.pc = 3
    BY <1>1, <1>8
  <2> QED
    BY <1>8, <2>4, <2>5, <2>6 DEF FreshAnswer, Memory, View
<1>9. CASE frame.pc = 3
  <2>1. Says(i, "object", "pObjSS", "longFromLong", <<>>)
    BY <1>1, <1>4, <1>9
  <2>2. i.do = "longFromLong" /\ i.to = "pObjSS"
    BY <2>1 DEF Says
  <2>3. Memory /\ View'
    BY <1>5, <1>6, <1>9, <2>2
  <2>4. frame'.pc = 4
    BY <1>1, <1>9
  <2> QED
    BY <1>9, <2>3, <2>4 DEF FreshAnswer, Memory, View
<1>10. CASE frame.pc = 4
  <2>1. Says(i, "value", "", "dictSetItemString", <<"locals", "tmpAggVal", "pObjAggVal">>)
    BY <1>1, <1>4, <1>10
  <2>2. i.do = "dictSetItemString" /\ i.keep = "value" /\ i.args = <<"locals", "tmpAggVal", "pObjAggVal">>
    BY <2>1 DEF Says
  <2>3. Memory /\ View'
    BY <1>5, <1>6, <1>10, <2>2
  <2>4. frame'.pc = 5
    BY <1>1, <1>10
  <2>5. /\ regs'["locals"] # 0 /\ Local("tmpAggVal")' = regs["pObjAggVal"]
        /\ regs'["pObjAggVal"] = regs["pObjAggVal"]
    BY <1>2, <1>3, <2>2, LocalsStay
  <2> QED
    BY <1>10, <2>3, <2>4, <2>5 DEF FreshAnswer, Memory, View, Null
<1>11. CASE frame.pc = 5
  <2>1. Says(i, "value", "", "dictSetItemString", <<"locals", "ss", "pObjSS">>)
    BY <1>1, <1>4, <1>11
  <2>2. i.do = "dictSetItemString" /\ i.keep = "value" /\ i.args = <<"locals", "ss", "pObjSS">>
    BY <2>1 DEF Says
  <2>3. Memory /\ View'
    BY <1>5, <1>6, <1>11, <2>2
  <2>4. frame'.pc = 6
    BY <1>1, <1>11
  <2>5. i.args[2] # "tmpAggVal"
    BY <2>2
  <2>6. regs["locals"] # 0 /\ Local("tmpAggVal") = regs["pObjAggVal"]
    BY <1>1, <1>11 DEF FreshAnswer, Null
  <2>7. regs'["locals"] # 0 /\ Local("tmpAggVal")' = Local("tmpAggVal")
    BY <2>2, <2>5, LocalsStay
  <2>8. regs'["pObjAggVal"] = regs["pObjAggVal"]
    BY <1>2, <1>3, <2>2
  <2> QED
    BY <1>11, <2>3, <2>4, <2>6, <2>7, <2>8 DEF FreshAnswer, Memory, View, Null
<1>12. CASE frame.pc = 6
  <2>1. Says(i, "value", "", "runString", <<"terminate", "globals", "locals">>)
    BY <1>1, <1>4, <1>12
  <2>2. i.do = "runString" /\ i.keep = "value" /\ i.args = <<"terminate", "globals", "locals">>
    BY <2>1 DEF Says
  <2>3. Memory /\ View'
    BY <1>5, <1>6, <1>12, <2>2
  <2>4. frame'.pc = 7
    BY <1>1, <1>12
  <2>5. ComputedNow'
    BY <2>2, ComputedStays
  <2> QED
    BY <1>12, <2>3, <2>4, <2>5 DEF FreshAnswer, Memory, View
<1>13. CASE frame.pc = 7
  <2>1. Says(i, "object", "retval", "dictGetItemString", <<"locals", "retval">>)
    BY <1>1, <1>4, <1>13
  <2>2. i.do = "dictGetItemString" /\ i.keep = "object" /\ i.to = "retval" /\ i.args = <<"locals", "retval">>
    BY <2>1 DEF Says
  <2>3. Memory /\ View'
    BY <1>5, <1>6, <1>13, <2>2
  <2>4. frame'.pc = 8
    BY <1>1, <1>13
  <2>5. ComputedNow' /\ Local("retval")' = Local("retval")
    BY <1>1, <1>13, <2>2, ComputedStays DEF FreshAnswer, Writing
  <2>6. regs'["retval"] = Local("retval")
    BY <1>1, <1>2, <1>3, <2>2 DEF Does
  <2> QED
    BY <1>13, <2>3, <2>4, <2>5, <2>6 DEF FreshAnswer, Memory, View
<1>14. CASE frame.pc = 8
  <2>1. Says(i, "value", "", "longAsLong", <<"retval">>)
    BY <1>1, <1>4, <1>14
  <2>2. i.do = "longAsLong" /\ i.keep = "value" /\ i.args = <<"retval">>
    BY <2>1 DEF Says
  <2>3. Memory /\ View'
    BY <1>5, <1>6, <1>14, <2>2
  <2>4. frame'.pc = 9
    BY <1>1, <1>14
  <2>5. ComputedNow /\ regs["retval"] = Local("retval")
    BY <1>1, <1>14 DEF FreshAnswer
  <2>6. ComputedNow' /\ Local("retval")' = Local("retval") /\ regs'["retval"] = regs["retval"]
    BY <1>2, <1>3, <2>2, <2>5, ComputedStays DEF Writing
  <2>7. frame'.value.from = frame'.call
    <3>1. i.args[1] = "retval" /\ regs["retval"] # 0
      BY <2>2, <2>5 DEF ComputedNow, Null
    <3>2. o.ret = py.heap[regs["retval"]].data
      BY <1>1, <2>2, <3>1 DEF Does
    <3>3. frame'.value = o.ret
      BY <1>1, <2>2 DEF Passes
    <3> QED
      BY <1>1, <2>5, <3>2, <3>3 DEF ComputedNow
  <2> QED
    BY <1>14, <2>3, <2>4, <2>5, <2>6, <2>7 DEF FreshAnswer, Memory, View
<1>15. CASE frame.pc = 9
  <2>1. Says(i, "no", "", "del", <<>>)
    BY <1>1, <1>4, <1>15
  <2>2. i.do = "del" /\ i.keep = "no"
    BY <2>1 DEF Says
  <2>3. View'
    BY <1>6, <1>15, <2>2
  <2>4. frame'.pc = 10
    BY <1>1, <1>15
  <2>5. ComputedNow /\ regs["retval"] = Local("retval") /\ frame.value.from = frame.call
    BY <1>1, <1>15 DEF FreshAnswer
  <2>6. ComputedNow' /\ Local("retval")' = Local("retval") /\ regs'["retval"] = regs["retval"]
    BY <1>2, <1>3, <2>2, <2>5, ComputedStays DEF Writing
  <2>7. frame'.value = frame.value
    BY <1>1, <2>2 DEF Passes
  <2> QED
    BY <1>1, <1>15, <2>3, <2>4, <2>5, <2>6, <2>7 DEF FreshAnswer, View
<1>16. \A n \in 1 .. 9 : n = 1 \/ n = 2 \/ n = 3 \/ n = 4 \/ n = 5 \/ n = 6 \/ n = 7 \/ n = 8 \/ n = 9
  OBVIOUS
<1> QED
  BY <1>1, <1>7, <1>8, <1>9, <1>10, <1>11, <1>12, <1>13, <1>14, <1>15, <1>16

\* What is owned between two statements.
LEMMA OwnIs ==
  ASSUME PythonTypes
  PROVE  /\ Own \in Ledger /\ Below(Rooted(regs), Own) /\ Rooted(regs) \in Ledger
         /\ Rooted(regs)[MainModule] # 0 /\ Rooted(regs)[ExceptionType] # 0 /\ Rooted(regs)[None] # 0
         /\ regs["locals"] # 0 => Rooted(regs)[regs["locals"]] # 0
         /\ \A x \in Nat : Rooted(regs)[x] # 0 => Own[x] # 0
<1> DEFINE base == IF Running THEN Registers(regs) ELSE Rooted(regs)
           own1 == AndError(base, py.err)
           own2 == AndError(own1, frame.exc)
<1>1. regs \in [ObjectNames -> Nat]
  BY DEF PythonTypes
<1>2. base \in Ledger /\ Rooted(regs) \in Ledger /\ Below(Rooted(regs), base)
  BY RegistersAre, BelowSelf
<1>3. Own = own2
  BY DEF Own
<1> HIDE DEF base
<1>4. own1 \in Ledger /\ Below(base, own1)
  BY <1>2, ErrorsKept
<1> HIDE DEF own1
<1>5. own2 \in Ledger /\ Below(own1, own2)
  BY <1>4, ErrorsKept
<1>6. Below(Rooted(regs), Own)
  BY <1>2, <1>3, <1>4, <1>5, BelowTwice
<1>7. ASSUME NEW x \in Nat, Rooted(regs)[x] # 0 PROVE Own[x] # 0
  <2>1. Rooted(regs)[x] \in Nat /\ Own[x] \in Nat /\ Rooted(regs)[x] <= Own[x]
    BY <1>2, <1>3, <1>5, <1>6, LedgerIs DEF Below
  <2> QED
    BY <1>7, <2>1
<1> QED
  BY <1>1, <1>2, <1>3, <1>5, <1>6, <1>7, HeldOwned

\* What is always there stays.
LEMMA RootsStay ==
  ASSUME PythonTypes, Roots, Counted(py, Own), NEW d, Onward(d)
  PROVE  Roots' /\ Len(py.heap) \in Nat /\ \A r \in ObjectNames : regs'[r] <= Len(py'.heap)
<1>1. Len(py.heap) \in Nat /\ Len(py.heap) <= Len(py'.heap) /\ Len(py'.heap) \in Nat
  BY CountedLen DEF Onward, Grows
<1>2. regs \in [ObjectNames -> Nat] /\ \A r \in ObjectNames : regs[r] <= Len(py.heap)
  BY DEF PythonTypes
<1>3. \A r \in ObjectNames : regs'[r] <= Len(py'.heap)
  <2> SUFFICES ASSUME NEW r \in ObjectNames PROVE regs'[r] <= Len(py'.heap)
    OBVIOUS
  <2>1. regs[r] \in Nat /\ regs[r] <= Len(py.heap) /\ (regs'[r] = regs[r] \/ regs'[r] = 0)
    BY <1>2 DEF Onward
  <2> QED
    BY <1>1, <2>1
<1>4. MainModule \in Nat /\ MainModule # 0
  BY DEF MainModule
<1>5. MainModule \in 1 .. Len(py.heap)
  BY <1>4, OwnIs, OwnedIs
<1>6. MainModule # d
  <2>1. regs["locals"] # 0 => regs["locals"] # MainModule
    BY DEF Roots, Null
  <2> QED
    BY <1>4, <2>1 DEF Onward
<1>7. /\ py'.heap[MainModule].kind = py.heap[MainModule].kind
      /\ py'.heap[MainModule].items = py.heap[MainModule].items
      /\ \A a \in 1 .. Len(py.heap) : py'.heap[a].kind = py.heap[a].kind
  BY <1>5, <1>6 DEF Onward, Grows
<1>8. regs'["main"] = regs["main"] /\ regs'["globals"] = regs["globals"] /\ regs'["locals"] = regs["locals"]
  BY DEF Onward, Kept, ObjectNames
<1>9. regs["locals"] # 0 => regs["locals"] \in 1 .. Len(py.heap)
  <2>1. regs["locals"] \in Nat /\ regs["locals"] <= Len(py.heap)
    BY <1>2 DEF ObjectNames
  <2> QED
    BY <1>1, <2>1
<1>10. regs'["locals"] # Null => py'.heap[regs'["locals"]].kind = "dict"
  BY <1>7, <1>8, <1>9 DEF Roots, Null
<1>11. py'.heap[MainModule].kind = "module" /\ Item(py'.heap, MainModule, "__dict__") = Globals
  BY <1>7 DEF Roots, Item
<1> QED
  BY <1>1, <1>3, <1>8, <1>10, <1>11 DEF Roots

\* An exception with nothing in it holds nothing.
LEMMA NothingMore ==
  ASSUME NEW own \in Ledger
  PROVE  /\ AndError(own, NoException) \in Ledger
         /\ \A p : Counted(p, own) <=> Counted(p, AndError(own, NoException))
<1> DEFINE f == AndError(own, NoException)
<1>1. f \in Ledger /\ \A x \in Nat : f[x] = own[x] + InError(NoException, x)
  BY LedgerMore
<1> HIDE DEF f
<1>2. \A x \in Nat : f[x] = own[x]
  <2> SUFFICES ASSUME NEW x \in Nat PROVE f[x] = own[x]
    OBVIOUS
  <2>1. own[x] \in Nat /\ InError(NoException, x) = 0
    BY LedgerIs, ExceptionIs
  <2> QED
    BY <1>1, <2>1
<1>3. Below(f, own) /\ Below(own, f)
  <2>1. \A x \in Nat : f[x] <= own[x] /\ own[x] <= f[x]
    BY <1>2, LedgerIs
  <2> QED
    BY <2>1 DEF Below
<1> QED
  BY <1>1, <1>3, LessCounted DEF f

\* To make and to delete memory throws nothing.
LEMMA NeverThrows ==
  ASSUME NEW i, NEW o, Doing(i, o), i.do \in {"make", "del"}
  PROVE  o.exc = NoException
BY DEF Doing, Do, Ok

\* A statement that returns keeps the invariant.
LEMMA StatementPasses ==
  ASSUME NEW i, NEW o, Stepping(i, o)
  PROVE  PythonInv'
<1>1. /\ frame.state = "running" /\ frame'.state = "running" /\ Running /\ InCall
      /\ frame.script \in DOMAIN Script /\ frame.pc \in 1 .. Len(Statements) /\ Len(Statements) \in Nat
      /\ frame'.script = frame.script /\ frame'.pc = frame.pc + 1 /\ frame'.exc = NoException
      /\ Counted(py', AndError(Registers(regs'), py'.err)) /\ Statements' = Statements
  BY SteppingIs
<1>2. PythonTypes' /\ Roots' /\ ChunksLive'
  BY TypesStep, RootsStep, ChunksStep
<1>3. Counted(py, Own)'
  <2> DEFINE base == IF Running' THEN Registers(regs') ELSE Rooted(regs')
             own1 == AndError(base, py'.err)
  <2>1. Registers(regs') \in Ledger /\ base \in Ledger /\ Below(base, Registers(regs'))
    BY RegistersAre, BelowSelf
  <2>2. Own' = AndError(own1, NoException)
    BY <1>1 DEF Own
  <2> HIDE DEF base
  <2>3. Counted(py', own1) /\ own1 \in Ledger
    BY <1>1, <2>1, LeavesLess, ErrorsKept
  <2> HIDE DEF own1
  <2>5. Counted(py', Own')
    BY <2>2, <2>3, NothingMore
  <2> QED
    BY <2>5
<1>4. Rails'
  <2>1. frame.script \in {"test_listFromRail", "test_tupleFromRail"} => ThreeMade'
    BY ThreeMadeStep
  <2>2. frame.script = "test_objectCallObjectFunc" => TwoMade'
    BY TwoMadeStep
  <2> QED
    BY <1>1, <2>1, <2>2 DEF Rails
<1>5. Fresh'
  <2>1. frame.script = "callAggregator" => FreshValues'
    BY FreshValuesStep
  <2>2. frame.script = "callTerminator" => FreshAnswer'
    BY FreshAnswerStep
  <2> QED
    BY <1>1, <2>1, <2>2 DEF Fresh
<1>6. InCall'
  BY <1>4, <1>5, AheadStep, BorrowsStep DEF InCall
<1>7. ResultsAreFresh'
  <2>1. Ended' => frame.pc = Len(Statements)
    BY <1>1 DEF Ended
  <2>2. frame.script = "callAggregator" /\ Ended' => frame'.value.from = frame'.call
    <3>1. frame.script = "callAggregator" => Len(Statements) = 5
      BY Script_callAggregator DEF Statements
    <3> QED
      BY <2>1, <3>1, FreshValuesStep
  <2>3. frame.script = "callTerminator" /\ Ended' => frame'.value.from = frame'.call
    <3>1. frame.script = "callTerminator" => Len(Statements) = 9
      BY Script_callTerminator DEF Statements
    <3> QED
      BY <2>1, <3>1, FreshAnswerStep
  <2> QED
    BY <1>1, <2>2, <2>3 DEF ResultsAreFresh
<1> QED
  BY <1>2, <1>3, <1>6, <1>7 DEF PythonInv

\* A statement that throws keeps the invariant.
LEMMA StatementThrows ==
  ASSUME NEW i, NEW o, Doing(i, o), Outcome(i, o), o.exc # NoException, Throws(o)
  PROVE  PythonInv'
<1>1. /\ Calling /\ PythonInv /\ PythonTypes /\ Roots /\ ChunksLive /\ Counted(py, Own) /\ frame.state = "running"
      /\ frame.pc \in DOMAIN Statements /\ frame.script \in DOMAIN Script
  BY CallingIs DEF Doing, Calling, PythonInv
<1>2. /\ py' = o.py /\ regs' = regs /\ DOMAIN frame' = FrameFields /\ frame'.exc = o.exc
      /\ \A f \in FrameFields \ {"exc"} : frame'[f] = frame[f]
  BY DEF Throws
<1>3. /\ frame'.script = frame.script /\ frame'.pc = frame.pc /\ frame'.call = frame.call
      /\ frame'.chunk = frame.chunk /\ frame'.state = frame.state
  <2>1. {"script", "pc", "call", "chunk", "state"} \subseteq FrameFields \ {"exc"}
    BY DEF FrameFields
  <2> QED
    BY <1>2, <2>1
<1>4. /\ o.exc \in ExceptionRecord /\ Grows(py.heap, o.py.heap, Writer(i)) /\ o.py.mem = py.mem
      /\ Counted(o.py, AndError(AndError(Rooted(regs), o.py.err), o.exc))
  BY NeverThrows DEF Outcome, Effect
<1>5. Len(py'.heap) \in Nat /\ regs \in [ObjectNames -> Nat]
  BY <1>1, <1>2, <1>4, CountedLen DEF PythonTypes
<1>6. Onward(Writer(i))
  BY <1>2, <1>4, <1>5 DEF Onward, Writer
<1>7. Roots' /\ \A r \in ObjectNames : regs'[r] <= Len(py'.heap)
  BY <1>1, <1>6, RootsStay
<1>8. PythonTypes'
  BY <1>1, <1>2, <1>3, <1>4, <1>7 DEF PythonTypes
<1>9. ~Running'
  BY <1>2 DEF Running
<1>10. Counted(py, Own)'
  <2>1. Own' = AndError(AndError(Rooted(regs), o.py.err), o.exc)
    BY <1>2, <1>9 DEF Own
  <2> QED
    BY <1>2, <1>4, <2>1
<1>11. ChunksLive'
  BY <1>1, <1>2, <1>3, <1>4 DEF ChunksLive
<1>12. ResultsAreFresh'
  <2>1. Statements' = Statements
    BY <1>3 DEF Statements
  <2>2. frame.pc \in 1 .. Len(Statements) /\ Len(Statements) \in Nat
    BY <1>1, StatementsLen
  <2>3. ~Ended'
    BY <1>3, <2>1, <2>2 DEF Ended
  <2> QED
    BY <2>3 DEF ResultsAreFresh
<1> QED
  BY <1>7, <1>8, <1>9, <1>10, <1>11, <1>12 DEF PythonInv

\* A statement keeps the invariant.
LEMMA StatementKeeps == PythonInv /\ Statement => PythonInv'
<1> SUFFICES ASSUME PythonInv, Statement PROVE PythonInv'
  OBVIOUS
<1>1. PICK i, o : Doing(i, o) /\ Outcome(i, o)
                  /\ ((o.exc = NoException /\ Passes(i, o)) \/ (o.exc # NoException /\ Throws(o)))
  BY StatementSteps
<1>2. CASE o.exc = NoException /\ Passes(i, o)
  BY <1>1, <1>2, StatementPasses DEF Stepping
<1>3. CASE o.exc # NoException /\ Throws(o)
  BY <1>1, <1>3, StatementThrows
<1> QED
  BY <1>1, <1>2, <1>3

-----------------------------------------------------------------------------
(***************************************************************************)
(* The start.                                                              *)
(***************************************************************************)
\* Before anything is assigned the registers hold nothing.
LEMMA EmptyIs ==
  ASSUME NEW r, Empty(r)
  PROVE  /\ r \in [ObjectNames -> Nat] /\ \A n \in ObjectNames : r[n] = 0
         /\ \A x \in Nat : InRegisters(r, x) = 0 /\ InNumbers(r, x) = 0
                           /\ InRoots(r, x) = One(x, MainModule) + One(x, None) + One(x, ExceptionType)
<1>1. r \in [ObjectNames -> Nat] /\ \A n \in ObjectNames : r[n] = 0
  BY DEF Empty, Null
<1>2. \A x \in Nat : One(x, 0) = 0
  BY DEF One, Null
<1>3. \A n \in {"pobj", "avalues", "pObjAggVal", "pObjSS", "po", "testlist", "testtuple", "called", "a", "b",
          "c", "locals"} :
        r[n] = 0
  BY <1>1 DEF ObjectNames
<1>4. ASSUME NEW x \in Nat PROVE InRegisters(r, x) = 0 /\ InNumbers(r, x) = 0
  BY <1>2, <1>3 DEF InRegisters, InNumbers
<1>5. ASSUME NEW x \in Nat
      PROVE  InRoots(r, x) = One(x, MainModule) + One(x, None) + One(x, ExceptionType)
  <2>1. One(x, MainModule) \in Nat /\ One(x, None) \in Nat /\ One(x, ExceptionType) \in Nat
    BY OneIs
  <2>2. One(x, r["locals"]) = 0
    BY <1>2, <1>3
  <2> QED
    BY <2>1, <2>2 DEF InRoots
<1> QED
  BY <1>1, <1>4, <1>5

\* What Py_Initialize leaves.
LEMMA InitializedIs ==
  /\ Len(Initialized.heap) = 4 /\ DOMAIN Initialized.heap = 1 .. 4
  /\ Initialized.heap[1] = Object("module", [__dict__ |-> Globals], NoData)
  /\ Initialized.heap[2] = Object("dict", <<>>, NoData)
  /\ Initialized.heap[3] = Object("none", <<>>, NoData)
  /\ Initialized.heap[4] = Object("type", <<>>, NoData)
  /\ Initialized.err = NoError /\ Initialized.mem = <<>> /\ DOMAIN Initialized = {"heap", "err", "mem"}
BY DEF Initialized

\* The fields of an object.
LEMMA ObjectIs ==
  \A kind, items, data :
    /\ Object(kind, items, data).kind = kind /\ Object(kind, items, data).refs = 1
    /\ Object(kind, items, data).items = items /\ Object(kind, items, data).data = data
    /\ kind \in Kinds /\ items \in ItemsType /\ data \in DataOf => Object(kind, items, data) \in ObjectType
BY DEF Object, ObjectType

\* Py_Initialize leaves the counts right.
LEMMA StartCounted ==
  ASSUME NEW p, p.heap = Initialized.heap, p.err = NoError, p.mem \in Seq([live : BOOLEAN, from : Int]),
         p = [heap |-> p.heap, err |-> p.err, mem |-> p.mem],
         NEW own \in Ledger, \A x \in Nat : own[x] = One(x, MainModule) + One(x, None) + One(x, ExceptionType)
  PROVE  Counted(p, own)
<1> DEFINE g == p.heap
           d == [__dict__ |-> Globals]
<1>1. /\ Len(g) = 4 /\ DOMAIN g = 1 .. 4
      /\ g[1] = Object("module", d, NoData) /\ g[2] = Object("dict", <<>>, NoData)
      /\ g[3] = Object("none", <<>>, NoData) /\ g[4] = Object("type", <<>>, NoData)
  BY InitializedIs
<1>2. NoData \in DataOf /\ <<>> \in ItemsType /\ DOMAIN <<>> = {}
  BY EmptyItems DEF NoData, DataOf
<1>3. d \in ItemsType /\ DOMAIN d = {"__dict__"} /\ d["__dict__"] = 2 /\ d["__dict__"] # 0
  <2>1. d \in [{"__dict__"} -> Nat] /\ {"__dict__"} \in SUBSET (Keys \cup Nat) /\ DOMAIN d = {"__dict__"}
            /\ d["__dict__"] = 2
    BY DEF Globals, Keys
  <2> HIDE DEF d
  <2>2. d \in ItemsType
    BY <2>1 DEF ItemsType
  <2> QED
    BY <2>1, <2>2
<1> HIDE DEF g, d
<1>4. /\ \A a \in 1 .. 4 : g[a] \in ObjectType /\ g[a].refs = 1
      /\ g[1].items = d /\ g[2].items = <<>> /\ g[3].items = <<>> /\ g[4].items = <<>>
  <2>1. "module" \in Kinds /\ "dict" \in Kinds /\ "none" \in Kinds /\ "type" \in Kinds
    BY DEF Kinds
  <2>2. \A a \in 1 .. 4 : a = 1 \/ a = 2 \/ a = 3 \/ a = 4
    OBVIOUS
  <2> QED
    BY <1>1, <1>2, <1>3, <2>1, <2>2, ObjectIs
<1>5. g \in Seq(ObjectType)
  <2>1. g = Initialized.heap /\ Initialized.heap \in Seq(ObjectType)
    <3>1. Initialized.heap = <<Object("module", [__dict__ |-> Globals], NoData), Object("dict", <<>>, NoData),
                               Object("none", <<>>, NoData), Object("type", <<>>, NoData)>>
      BY DEF Initialized
    <3>2. /\ Object("module", [__dict__ |-> Globals], NoData) \in ObjectType
          /\ Object("dict", <<>>, NoData) \in ObjectType /\ Object("none", <<>>, NoData) \in ObjectType
          /\ Object("type", <<>>, NoData) \in ObjectType
      BY <1>2, <1>3, ObjectIs DEF Kinds, d
    <3>3. \A x, y, z, w : x \in ObjectType /\ y \in ObjectType /\ z \in ObjectType /\ w \in ObjectType =>
                            <<x, y, z, w>> \in Seq(ObjectType)
      OBVIOUS
    <3> QED
      BY <3>1, <3>2, <3>3 DEF g
  <2> QED
    BY <2>1
<1>6. \A a \in 1 .. 4 : \A k \in DOMAIN g[a].items : a = 1 /\ k = "__dict__" /\ g[a].items[k] = 2
  <2>1. \A a \in 1 .. 4 : a = 1 \/ a = 2 \/ a = 3 \/ a = 4
    OBVIOUS
  <2> QED
    BY <1>2, <1>3, <1>4, <2>1
<1>7. Closed(g)
  <2>1. \A a \in DOMAIN g : \A k \in DOMAIN g[a].items : g[a].items[k] <= Len(g)
    BY <1>1, <1>6 DEF g
  <2>2. IsFiniteSet({"__dict__"}) /\ \A a \in DOMAIN g : DOMAIN g[a].items \subseteq {"__dict__"}
    BY <1>1, <1>6, FS_Singleton DEF g
  <2> QED
    BY <2>1, <2>2 DEF Closed
<1>8. ASSUME NEW x \in 1 .. 4 PROVE g[x].refs >= HeldBy(g, Living(g), x) + own[x]
  <2> DEFINE H == HoldersIn(g, Living(g), x)
  <2>1. \A h \in H : x = 2 /\ h = <<1, "__dict__">>
    <3> SUFFICES ASSUME NEW h \in H PROVE x = 2 /\ h = <<1, "__dict__">>
      OBVIOUS
    <3>1. PICK c, k : h = <<c, k>>
      BY HoldersAre
    <3>2. c \in Living(g) /\ k \in DOMAIN g[c].items /\ g[c].items[k] = x
      BY <3>1, HoldersAre
    <3>3. c \in 1 .. 4
      BY <1>1, <3>2 DEF Living, g
    <3> QED
      BY <1>6, <3>1, <3>2, <3>3
  <2>2. CASE x = 2
    <3>1. own[x] = 0
      <4>1. One(x, MainModule) = 0 /\ One(x, None) = 0 /\ One(x, ExceptionType) = 0
        BY <2>2 DEF One, MainModule, None, ExceptionType
      <4> QED
        BY <4>1
    <3>2. H \in SUBSET {<<1, "__dict__">>}
      BY <2>1
    <3> HIDE DEF H
    <3>3. Cardinality(H) \in Nat /\ Cardinality(H) <= 1
      <4>1. PICK s : s = <<1, "__dict__">>
        OBVIOUS
      <4>2. IsFiniteSet({s}) /\ Cardinality({s}) = 1 /\ H \in SUBSET {s}
        BY <3>2, <4>1, FS_Singleton
      <4>3. IsFiniteSet(H) /\ Cardinality(H) <= Cardinality({s})
        BY <4>2, FS_Subset
      <4> QED
        BY <4>2, <4>3, FS_CardinalityType
    <3> QED
      BY <1>4, <3>1, <3>3 DEF HeldBy, H
  <2>3. CASE x # 2
    <3>1. own[x] \in Nat /\ own[x] <= 1
      <4>1. x = 1 \/ x = 3 \/ x = 4
        BY <2>3
      <4>2. One(x, 1) + One(x, 3) + One(x, 4) <= 1
        BY <4>1 DEF One, Null
      <4> QED
        BY <4>2, LedgerIs DEF MainModule, None, ExceptionType
    <3>2. H = {}
      BY <2>1, <2>3
    <3> HIDE DEF H
    <3>3. Cardinality(H) = 0
      BY <3>2, FS_EmptySet
    <3> QED
      BY <1>4, <3>1, <3>3 DEF HeldBy, H
  <2> QED
    BY <2>2, <2>3
<1>9. Solid(g, own)
  BY <1>1, <1>5, <1>7, <1>8 DEF Solid, Backed, g
<1>10. Within(own, 4)
  <2> SUFFICES ASSUME NEW x \in Nat, x > 4 PROVE own[x] = 0
    BY DEF Within
  <2>1. One(x, MainModule) = 0 /\ One(x, None) = 0 /\ One(x, ExceptionType) = 0
    BY DEF One, MainModule, None, ExceptionType
  <2> QED
    BY <2>1
<1>11. p \in Interpreter
  <2>1. p.heap \in Seq(ObjectType) /\ p.err \in ErrorType
    BY <1>5, ExceptionIs DEF g
  <2>2. PICK h, e, m : h = p.heap /\ e = p.err /\ m = p.mem
    OBVIOUS
  <2>3. p = [heap |-> h, err |-> e, mem |-> m] /\ h \in Seq(ObjectType) /\ e \in ErrorType
        /\ m \in Seq([live : BOOLEAN, from : Int])
    BY <2>1, <2>2
  <2> QED
    BY <2>3 DEF Interpreter
<1> QED
  BY <1>1, <1>9, <1>10, <1>11 DEF Counted, g

\* Nothing but what is always there is owned when the registers are empty.
LEMMA StartOwn ==
  ASSUME NEW r, Empty(r), NEW running \in BOOLEAN
  PROVE  LET own == AndError(AndError(IF running THEN Registers(r) ELSE Rooted(r), NoError), NoException)
         IN  own \in Ledger
             /\ \A x \in Nat : own[x] = One(x, MainModule) + One(x, None) + One(x, ExceptionType)
<1> DEFINE base == IF running THEN Registers(r) ELSE Rooted(r)
           own1 == AndError(base, NoError)
           own == AndError(own1, NoException)
<1>1. base \in Ledger
  BY RegistersAre
<1>2. \A x \in Nat : base[x] = One(x, MainModule) + One(x, None) + One(x, ExceptionType)
  <2> SUFFICES ASSUME NEW x \in Nat PROVE base[x] = One(x, MainModule) + One(x, None) + One(x, ExceptionType)
    OBVIOUS
  <2>1. /\ Registers(r)[x] = InRoots(r, x) + InRegisters(r, x) + InNumbers(r, x) /\ Rooted(r)[x] = InRoots(r, x)
        /\ InRoots(r, x) \in Nat
    BY RegistersAre, SumsAre
  <2>2. InRegisters(r, x) = 0 /\ InNumbers(r, x) = 0
        /\ InRoots(r, x) = One(x, MainModule) + One(x, None) + One(x, ExceptionType)
    BY EmptyIs
  <2> QED
    BY <2>1, <2>2
<1> HIDE DEF base
<1>3. own1 \in Ledger /\ \A x \in Nat : own1[x] = base[x] + InError(NoError, x)
  BY <1>1, LedgerMore
<1> HIDE DEF own1
<1>4. own \in Ledger /\ \A x \in Nat : own[x] = own1[x] + InError(NoException, x)
  BY <1>3, LedgerMore
<1>5. \A x : InError(NoError, x) = 0 /\ InError(NoException, x) = 0
  BY ExceptionIs
<1> HIDE DEF own
<1>6. \A x \in Nat : own[x] = base[x]
  <2> SUFFICES ASSUME NEW x \in Nat PROVE own[x] = base[x]
    OBVIOUS
  <2>1. base[x] \in Nat
    BY <1>1, LedgerIs
  <2> QED
    BY <1>3, <1>4, <1>5, <2>1
<1> QED
  BY <1>2, <1>4, <1>6 DEF own, own1, base

\* The program starts in the invariant.
LEMMA InitKeeps == PythonInit => PythonInv
<1> SUFFICES ASSUME PythonInit PROVE PythonInv
  OBVIOUS
<1>1. PICK closures \in {0, 1}, script \in {s \in DOMAIN Script : s \notin {"callAggregator", "callTerminator"}} :
        frame = [script |-> script, pc |-> 1, exc |-> NoException, handled |-> FALSE,
                 rail |-> <<>>, value |-> NoData, run |-> 1, call |-> 0, state |-> "running",
                 chunk |-> [NoChunks EXCEPT !.closures = closures, !.onThread = 2, !.onPlace = 3]]
  BY DEF PythonInit
<1> DEFINE mem == [c \in 1 .. 3 |-> [live |-> TRUE, from |-> 0]]
           chunk == [NoChunks EXCEPT !.closures = closures, !.onThread = 2, !.onPlace = 3]
<1>2. py = [Initialized EXCEPT !.mem = mem] /\ regs = [r \in ObjectNames |-> Null]
  BY DEF PythonInit
<1>3. chunk \in [DOMAIN NoChunks -> Nat] /\ chunk.onThread = 2 /\ chunk.onPlace = 3
  <2>1. NoChunks \in [DOMAIN NoChunks -> Nat] /\ {"closures", "onThread", "onPlace"} \subseteq DOMAIN NoChunks
    BY DEF NoChunks
  <2>2. PICK c : c = NoChunks
    OBVIOUS
  <2>3. chunk = [c EXCEPT !.closures = closures, !.onThread = 2, !.onPlace = 3]
    BY <2>2
  <2>4. closures \in Nat
    OBVIOUS
  <2> HIDE DEF chunk
  <2> QED
    BY <2>1, <2>2, <2>3, <2>4
<1> HIDE DEF chunk
<1>4. /\ DOMAIN frame = FrameFields /\ frame.script = script /\ frame.pc = 1 /\ frame.exc = NoException
      /\ frame.call = 0 /\ frame.chunk = chunk
  BY <1>1 DEF FrameFields, chunk
<1>5. mem \in Seq([live : BOOLEAN, from : Int]) /\ DOMAIN mem = 1 .. 3 /\ \A c \in 1 .. 3 : mem[c].live
  <2>1. mem \in [1 .. 3 -> [live : BOOLEAN, from : Int]]
    OBVIOUS
  <2>2. mem \in Seq([live : BOOLEAN, from : Int])
    BY <2>1, FunctionIsSeq
  <2> QED
    BY <2>2
<1> HIDE DEF mem
<1>6. /\ py.heap = Initialized.heap /\ py.err = NoError /\ py.mem = mem
      /\ py = [heap |-> py.heap, err |-> py.err, mem |-> py.mem]
  <2>1. Initialized = [heap |-> Initialized.heap, err |-> NoError, mem |-> <<>>]
    BY DEF Initialized
  <2>2. PICK h : h = Initialized.heap
    OBVIOUS
  <2>3. py = [[heap |-> h, err |-> NoError, mem |-> <<>>] EXCEPT !.mem = mem]
    BY <1>2, <2>1, <2>2
  <2>4. py = [heap |-> h, err |-> NoError, mem |-> mem]
    BY <2>3
  <2> QED
    BY <2>2, <2>4
<1>7. Empty(regs) /\ \A r \in ObjectNames : regs[r] = 0
  BY <1>2, EmptyIs DEF Empty
<1>8. Counted(py, Own)
  <2>1. Running \in BOOLEAN
    BY DEF Running
  <2>2. Own = AndError(AndError(IF Running THEN Registers(regs) ELSE Rooted(regs), NoError), NoException)
    BY <1>4, <1>6 DEF Own
  <2>3. Own \in Ledger
        /\ \A x \in Nat : Own[x] = One(x, MainModule) + One(x, None) + One(x, ExceptionType)
    BY <1>7, <2>1, <2>2, StartOwn
  <2> QED
    BY <1>5, <1>6, <2>3, StartCounted
<1>9. Len(py.heap) = 4 /\ py.heap[1] = Object("module", [__dict__ |-> Globals], NoData)
  BY <1>6, InitializedIs
<1>10. PythonTypes
  <2>1. regs \in [ObjectNames -> Nat] /\ \A r \in ObjectNames : regs[r] <= 4
    BY <1>7, EmptyIs
  <2>2. frame.exc \in ExceptionRecord /\ frame.script \in DOMAIN Script /\ frame.pc \in Nat /\ frame.call \in Nat
    BY <1>4, ExceptionIs
  <2> QED
    BY <1>3, <1>4, <1>9, <2>1, <2>2 DEF PythonTypes
<1>11. {"main", "globals", "locals", "testlist", "testtuple", "called"} \subseteq ObjectNames
           /\ Borrowed \subseteq ObjectNames
  BY DEF ObjectNames, Borrowed
<1>12. Roots
  <2>1. py.heap[MainModule].kind = "module" /\ py.heap[MainModule].items = [__dict__ |-> Globals]
    BY <1>9, ObjectIs DEF MainModule
  <2>2. Item(py.heap, MainModule, "__dict__") = Globals
    BY <2>1 DEF Item
  <2>3. regs["main"] = Null /\ regs["globals"] = Null /\ regs["locals"] = Null
    BY <1>7, <1>11 DEF Null
  <2> QED
    BY <2>1, <2>2, <2>3 DEF Roots
<1>13. ChunksLive
  BY <1>3, <1>4, <1>5, <1>6 DEF ChunksLive
<1>14. InCall
  <2>1. Unstolen(regs) /\ \A r \in Borrowed : regs[r] = Null
    BY <1>7, <1>11 DEF Unstolen, Null
  <2>2. Ahead /\ Borrows
    BY <2>1 DEF Ahead, Borrows
  <2>3. Rails
    BY <1>4, <2>1 DEF Rails, ThreeMade, TwoMade
  <2>4. Fresh
    BY <1>4 DEF Fresh
  <2> QED
    BY <2>2, <2>3, <2>4 DEF InCall
<1>15. ResultsAreFresh
  BY <1>4 DEF ResultsAreFresh
<1> QED
  BY <1>8, <1>10, <1>12, <1>13, <1>14, <1>15 DEF PythonInv

-----------------------------------------------------------------------------
(***************************************************************************)
(* What a handler does.                                                    *)
(***************************************************************************)
\* The fields of an outcome.
LEMMA Survives == \A p : Survived(p).py = p /\ Survived(p).crash = FALSE
BY DEF Survived

\* The fields of an outcome.
LEMMA Crashes == Crashed.py = Initialized /\ Crashed.crash = TRUE
BY DEF Crashed

\* extractExcInfo of the handler makes texts that it releases, or crashes.
LEMMA Extracts ==
  ASSUME NEW p, NEW own \in Ledger, Ready(p, own), NEW exc, NEW e \in extractExcInfo(p, exc)
  PROVE  e = Crashed \/ (e = Survived(e.py) /\ Later(p, own, e.py))
<1>1. ASSUME NEW q, Later(p, own, q), NEW ascii \in BOOLEAN, NEW traced \in BOOLEAN
      PROVE  Later(p, own, Error(q, ascii, traced))
  <2> DEFINE r == Error(q, ascii, traced)
  <2>1. Ready(r, own) /\ Grows(q.heap, r.heap, 0) /\ r.mem = q.mem
    BY <1>1, ErrsAgain DEF Later
  <2> HIDE DEF r
  <2>2. Len(p.heap) \in Nat /\ Len(q.heap) \in Nat /\ Len(r.heap) \in Nat
    BY <1>1, <2>1, CountedLen DEF Ready, Later
  <2>3. Grows(p.heap, r.heap, 0)
    BY <1>1, <2>1, <2>2, GrowsOn DEF Later
  <2>4. Later(p, own, r)
    BY <1>1, <2>1, <2>3 DEF Later
  <2> QED
    BY <2>4 DEF r
<1>2. Later(p, own, p)
  BY GrowsFrom, CountedLen DEF Later, Ready
<1>3. \A q : Later(p, own, q) => Later(p, own, Failed(q))
  BY <1>1 DEF Failed
<1> DEFINE texts == IF p.heap[exc.value].data.ascii THEN {p} ELSE {Failed(p), Error(p, TRUE, TRUE)}
<1>4. \A q \in texts : Later(p, own, q)
  BY <1>1, <1>2, <1>3
<1>5. \/ e = Survived(p) \/ \E q \in texts : e = Survived(q)
      \/ e = Crashed \/ \E q \in texts : e = Survived(Failed(q))
  BY DEF extractExcInfo
<1> HIDE DEF texts
<1> QED
  BY <1>2, <1>3, <1>4, <1>5, Survives

\* The handler releases what the exception owns, and that is spent.
LEMMA Decrefs ==
  ASSUME NEW p, NEW own \in Ledger, NEW exc \in ExceptionRecord, Counted(p, AndError(own, exc))
  PROVE  LET d == DECREF(p, exc)
         IN  d = Crashed \/ (/\ d = Survived(d.py) /\ Counted(d.py, own) /\ Grows(p.heap, d.py.heap, 0)
                             /\ d.py.err = p.err /\ d.py.mem = p.mem)
<1>1. CASE Null \in {exc.type, exc.value, exc.traceback}
  BY <1>1 DEF DECREF
<1>2. CASE Null \notin {exc.type, exc.value, exc.traceback}
  <2> DEFINE a == exc.type
             b == exc.value
             c == exc.traceback
  <2>1. a \in Nat /\ b \in Nat /\ c \in Nat /\ a # 0 /\ b # 0 /\ c # 0
    BY <1>2 DEF ExceptionRecord, Null
  <2> DEFINE own1 == And(own, c)
             own2 == And(own1, b)
             own3 == And(own2, a)
  <2>2. own1 \in Ledger /\ \A x \in Nat : own1[x] = own[x] + One(x, c)
    BY LedgerMore
  <2> HIDE DEF own1
  <2>3. own2 \in Ledger /\ \A x \in Nat : own2[x] = own1[x] + One(x, b)
    BY <2>2, LedgerMore
  <2> HIDE DEF own2
  <2>4. own3 \in Ledger /\ \A x \in Nat : own3[x] = own2[x] + One(x, a)
    BY <2>3, LedgerMore
  <2>5. AndError(own, exc) \in Ledger /\ \A x \in Nat : AndError(own, exc)[x] = own[x] + InError(exc, x)
    BY LedgerMore
  <2>6. Counted(p, own3)
    <3> HIDE DEF own3
    <3>1. ASSUME NEW x \in Nat PROVE own3[x] <= AndError(own, exc)[x]
      <4>1. own[x] \in Nat /\ One(x, a) \in Nat /\ One(x, b) \in Nat /\ One(x, c) \in Nat
        BY LedgerIs, OneIs
      <4>2. own3[x] = own[x] + One(x, c) + One(x, b) + One(x, a)
        BY <2>2, <2>3, <2>4
      <4>3. InError(exc, x) = One(x, a) + One(x, b) + One(x, c)
        BY DEF InError
      <4> HIDE DEF a, b, c
      <4> QED
        BY <2>5, <4>1, <4>2, <4>3
    <3> QED
      BY <2>4, <2>5, <3>1, LessCounted DEF Below
  <2> DEFINE p1 == DecRef(p, a)
             p2 == DecRef(p1, b)
             p3 == DecRef(p2, c)
  <2> HIDE DEF a, b, c
  <2>7. Counted(p1, own2) /\ SameObjects(p.heap, p1.heap) /\ p1.err = p.err /\ p1.mem = p.mem
    BY <2>1, <2>3, <2>6, Releases
  <2> HIDE DEF p1
  <2>8. Counted(p2, own1) /\ SameObjects(p1.heap, p2.heap) /\ p2.err = p1.err /\ p2.mem = p1.mem
    <3>1. Counted(p1, And(own1, b))
      BY <2>7 DEF own2
    <3> QED
      BY <2>1, <2>2, <3>1, Releases
  <2> HIDE DEF p2
  <2>9. Counted(p3, own) /\ SameObjects(p2.heap, p3.heap) /\ p3.err = p2.err /\ p3.mem = p2.mem
    <3>1. Counted(p2, And(own, c))
      BY <2>8 DEF own1
    <3> QED
      BY <2>1, <3>1, Releases
  <2> HIDE DEF p3
  <2>10. Grows(p.heap, p3.heap, 0)
    <3>1. Len(p.heap) \in Nat /\ Len(p1.heap) \in Nat /\ Len(p2.heap) \in Nat /\ Len(p3.heap) \in Nat
      BY <2>6, <2>7, <2>8, <2>9, CountedLen
    <3>2. Grows(p.heap, p1.heap, 0) /\ Grows(p1.heap, p2.heap, 0) /\ Grows(p2.heap, p3.heap, 0)
      BY <2>7, <2>8, <2>9, <3>1, SameGrows
    <3> QED
      BY <3>1, <3>2, GrowsOn
  <2>11. DECREF(p, exc) = Survived(p3)
    BY <1>2 DEF DECREF, p3, p2, p1, a, b, c
  <2> QED
    BY <2>7, <2>8, <2>9, <2>10, <2>11, Survives
<1> QED
  BY <1>1, <1>2

\* The handler of an exception keeps the invariant.
LEMMA HandleKeeps == PythonInv /\ Handle => PythonInv'
<1> SUFFICES ASSUME PythonInv, Handle PROVE PythonInv'
  OBVIOUS
<1> DEFINE own == AndError(Rooted(regs), frame.exc)
<1>1. /\ PythonTypes /\ Roots /\ ChunksLive /\ Counted(py, Own) /\ frame.state = "running" /\ frame.exc # NoException
      /\ frame.exc \in ExceptionRecord /\ ~Running /\ regs \in [ObjectNames -> Nat] /\ DOMAIN frame = FrameFields
  BY DEF PythonInv, Handle, Running, PythonTypes
<1>2. PICK e \in extractExcInfo(py, frame.exc) :
        LET d == IF e.crash THEN e ELSE DECREF(e.py, frame.exc) IN
        /\ py' = d.py
        /\ frame' = IF d.crash THEN [frame EXCEPT !.state = "crashed", !.exc = NoException]
                    ELSE [frame EXCEPT !.pc = Len(Statements) + 1, !.exc = NoException, !.handled = TRUE]
  BY DEF Handle
<1> DEFINE d == IF e.crash THEN e ELSE DECREF(e.py, frame.exc)
<1>3. /\ py' = d.py
      /\ frame' = IF d.crash THEN [frame EXCEPT !.state = "crashed", !.exc = NoException]
                  ELSE [frame EXCEPT !.pc = Len(Statements) + 1, !.exc = NoException, !.handled = TRUE]
      /\ regs' = IF frame'.state = "crashed" THEN [r \in ObjectNames |-> Null] ELSE regs
  BY <1>2 DEF Handle
<1>4. /\ Rooted(regs) \in Ledger /\ own \in Ledger /\ own[ExceptionType] # 0 /\ own[None] # 0
  <2>1. Rooted(regs) \in Ledger /\ Rooted(regs)[ExceptionType] # 0 /\ Rooted(regs)[None] # 0
        /\ ExceptionType \in Nat /\ None \in Nat
    BY <1>1, OwnIs DEF ExceptionType, None
  <2> QED
    BY <2>1, ErrorsKept
<1>5. Ready(py, own)
  <2> DEFINE own1 == AndError(Rooted(regs), py.err)
  <2>1. Own = AndError(own1, frame.exc)
    BY <1>1 DEF Own
  <2>2. own1 \in Ledger /\ \A x \in Nat : own1[x] = Rooted(regs)[x] + InError(py.err, x)
    BY <1>4, LedgerMore
  <2>3. \A x \in Nat : own[x] = Rooted(regs)[x] + InError(frame.exc, x)
    BY <1>4, LedgerMore
  <2> HIDE DEF own1, own
  <2>4. Own \in Ledger /\ \A x \in Nat : Own[x] = own1[x] + InError(frame.exc, x)
    BY <2>1, <2>2, LedgerMore
  <2>5. AndError(own, py.err) \in Ledger /\ \A x \in Nat : AndError(own, py.err)[x] = own[x] + InError(py.err, x)
    BY <1>4, LedgerMore
  <2>6. Below(AndError(own, py.err), Own)
    <3> SUFFICES ASSUME NEW x \in Nat PROVE AndError(own, py.err)[x] <= Own[x]
      BY DEF Below
    <3>1. Rooted(regs)[x] \in Nat /\ InError(py.err, x) \in Nat /\ InError(frame.exc, x) \in Nat
      BY <1>4, LedgerIs, InErrorIs
    <3> QED
      BY <2>2, <2>3, <2>4, <2>5, <3>1
  <2>7. Counted(py, AndError(own, py.err))
    BY <1>1, <2>4, <2>5, <2>6, LessCounted
  <2> QED
    BY <1>4, <2>7 DEF Ready
<1>6. e = Crashed \/ (e = Survived(e.py) /\ Later(py, own, e.py))
  BY <1>4, <1>5, Extracts
<1>7. CASE d = Crashed
  <2>1. py' = Initialized /\ frame' = [frame EXCEPT !.state = "crashed", !.exc = NoException]
    BY <1>3, <1>7, Crashes
  <2>2. /\ DOMAIN frame' = FrameFields /\ frame'.state = "crashed" /\ frame'.exc = NoException
        /\ frame'.script = frame.script /\ frame'.pc = frame.pc /\ frame'.call = frame.call
        /\ frame'.chunk = frame.chunk
    BY <1>1, <2>1 DEF FrameFields
  <2>3. Empty(regs') /\ regs' \in [ObjectNames -> Nat] /\ \A r \in ObjectNames : regs'[r] = 0
    <3>1. Empty(regs')
      BY <1>3, <2>2 DEF Empty
    <3> QED
      BY <3>1, EmptyIs
  <2>4. /\ py'.heap = Initialized.heap /\ py'.err = NoError /\ py'.mem = <<>>
        /\ py' = [heap |-> py'.heap, err |-> py'.err, mem |-> py'.mem]
        /\ Len(py'.heap) = 4 /\ py'.heap[1] = Object("module", [__dict__ |-> Globals], NoData)
    <3>1. Initialized = [heap |-> Initialized.heap, err |-> NoError, mem |-> <<>>]
      BY DEF Initialized
    <3> QED
      BY <2>1, <3>1, InitializedIs
  <2>5. Counted(py, Own)'
    <3>1. Running' \in BOOLEAN
      BY DEF Running
    <3>2. Own' = AndError(AndError(IF Running' THEN Registers(regs') ELSE Rooted(regs'), NoError), NoException)
      BY <2>2, <2>4 DEF Own
    <3>3. Own' \in Ledger
          /\ \A x \in Nat : Own'[x] = One(x, MainModule) + One(x, None) + One(x, ExceptionType)
      BY <2>3, <3>1, <3>2, StartOwn
    <3>4. py'.mem \in Seq([live : BOOLEAN, from : Int])
      BY <2>4
    <3> QED
      BY <2>4, <3>3, <3>4, StartCounted
  <2>6. PythonTypes'
    <3>1. \A r \in ObjectNames : regs'[r] <= Len(py'.heap)
      BY <2>3, <2>4
    <3> QED
      BY <1>1, <2>2, <2>3, <3>1, ExceptionIs DEF PythonTypes
  <2>7. Roots'
    <3>1. py'.heap[MainModule].kind = "module" /\ py'.heap[MainModule].items = [__dict__ |-> Globals]
      BY <2>4, ObjectIs DEF MainModule
    <3>2. Item(py'.heap, MainModule, "__dict__") = Globals
      BY <3>1 DEF Item
    <3>3. regs'["main"] = Null /\ regs'["globals"] = Null /\ regs'["locals"] = Null
      BY <2>3 DEF Null, ObjectNames
    <3> QED
      BY <3>1, <3>2, <3>3 DEF Roots
  <2> QED
    BY <2>2, <2>5, <2>6, <2>7 DEF PythonInv, ResultsAreFresh
<1>8. CASE d # Crashed
  <2>1. e = Survived(e.py) /\ Later(py, own, e.py) /\ d = DECREF(e.py, frame.exc)
    BY <1>6, <1>8, Survives, Crashes
  <2> DEFINE p == e.py
             own1 == AndError(Rooted(regs), p.err)
  <2>2. own1 \in Ledger /\ Counted(p, AndError(own1, frame.exc))
    <3>1. own1 \in Ledger /\ \A x \in Nat : own1[x] = Rooted(regs)[x] + InError(p.err, x)
      BY <1>4, LedgerMore
    <3>2. \A x \in Nat : own[x] = Rooted(regs)[x] + InError(frame.exc, x)
      BY <1>4, LedgerMore
    <3> HIDE DEF own1, own, p
    <3>3. AndError(own1, frame.exc) \in Ledger
          /\ \A x \in Nat : AndError(own1, frame.exc)[x] = own1[x] + InError(frame.exc, x)
      BY <3>1, LedgerMore
    <3>4. AndError(own, p.err) \in Ledger /\ \A x \in Nat : AndError(own, p.err)[x] = own[x] + InError(p.err, x)
      BY <1>4, LedgerMore
    <3>5. Below(AndError(own1, frame.exc), AndError(own, p.err))
      <4> SUFFICES ASSUME NEW x \in Nat PROVE AndError(own1, frame.exc)[x] <= AndError(own, p.err)[x]
        BY DEF Below
      <4>1. Rooted(regs)[x] \in Nat /\ InError(p.err, x) \in Nat /\ InError(frame.exc, x) \in Nat
        BY <1>4, LedgerIs, InErrorIs
      <4> QED
        BY <3>1, <3>2, <3>3, <3>4, <4>1
    <3>6. Counted(p, AndError(own, p.err))
      BY <2>1 DEF Later, Ready, p
    <3> QED
      BY <3>1, <3>3, <3>4, <3>5, <3>6, LessCounted
  <2> HIDE DEF own1, p
  <2>3. d = DECREF(p, frame.exc)
    BY <2>1 DEF p
  <2> HIDE DEF d
  <2>4. /\ d = Survived(d.py) /\ Counted(d.py, own1) /\ Grows(p.heap, d.py.heap, 0)
        /\ d.py.err = p.err /\ d.py.mem = p.mem
    BY <1>1, <1>8, <2>2, <2>3, Decrefs
  <2>5. d.crash = FALSE
    BY <2>4, Survives
  <2>6. frame' = [frame EXCEPT !.pc = Len(Statements) + 1, !.exc = NoException, !.handled = TRUE]
    BY <1>3, <2>5
  <2>7. /\ DOMAIN frame' = FrameFields /\ frame'.state = frame.state /\ frame'.exc = NoException
        /\ frame'.script = frame.script /\ frame'.pc = Len(Statements) + 1 /\ frame'.call = frame.call
        /\ frame'.chunk = frame.chunk /\ frame'.handled = TRUE
    BY <1>1, <2>6 DEF FrameFields
  <2>8. regs' = regs
    BY <1>1, <1>3, <2>7
  <2>9. Len(Statements) \in Nat /\ DOMAIN Statements = 1 .. Len(Statements) /\ Statements' = Statements
    BY <1>1, <2>7, StatementsLen DEF PythonTypes, Statements
  <2>10. ~Running'
    BY <2>7, <2>9 DEF Running
  <2>11. /\ Grows(py.heap, py'.heap, 0) /\ py'.mem = py.mem /\ Counted(py', AndError(Rooted(regs), py'.err))
         /\ Len(py'.heap) \in Nat
    <3>1. Len(py.heap) \in Nat /\ Len(p.heap) \in Nat /\ Len(d.py.heap) \in Nat
      BY <1>1, <2>2, <2>4, CountedLen
    <3>2. Grows(py.heap, d.py.heap, 0)
      BY <2>1, <2>4, <3>1, GrowsOn DEF Later, p
    <3>3. p.mem = py.mem
      BY <2>1 DEF Later, p
    <3> QED
      BY <1>3, <2>4, <3>1, <3>2, <3>3 DEF own1
  <2>12. Onward(0)
    BY <1>1, <2>8, <2>11 DEF Onward
  <2>13. Roots' /\ \A r \in ObjectNames : regs'[r] <= Len(py'.heap)
    BY <1>1, <2>12, RootsStay
  <2>14. PythonTypes'
    BY <1>1, <2>7, <2>8, <2>9, <2>13, ExceptionIs DEF PythonTypes
  <2>15. Counted(py, Own)'
    <3> DEFINE f == AndError(Rooted(regs), py'.err)
    <3>1. Own' = AndError(f, NoException)
      BY <2>7, <2>8, <2>10 DEF Own
    <3>2. f \in Ledger /\ Counted(py', f)
      BY <1>4, <2>11, LedgerMore
    <3> HIDE DEF f
    <3> QED
      BY <3>1, <3>2, NothingMore
  <2>16. ChunksLive'
    <3>1. frame.script = "callTerminator" => frame'.pc \notin 2 .. 9
      <4>1. frame.script = "callTerminator" => Len(Statements) = 9
        BY Script_callTerminator DEF Statements
      <4>2. frame'.pc = Len(Statements) + 1
        BY <2>7
      <4>3. 9 + 1 \notin 2 .. 9
        OBVIOUS
      <4> QED
        BY <4>1, <4>2, <4>3
    <3>2. frame.script = "callAggregator" => frame.chunk.values \in {frame.chunk.onThread, frame.chunk.onPlace}
      BY <1>1 DEF ChunksLive
    <3> QED
      BY <1>1, <2>7, <2>11, <3>1, <3>2 DEF ChunksLive
  <2> QED
    BY <2>7, <2>10, <2>13, <2>14, <2>15, <2>16 DEF PythonInv, ResultsAreFresh
<1> QED
  BY <1>7, <1>8

-----------------------------------------------------------------------------
(***************************************************************************)
(* A call returns.                                                         *)
(***************************************************************************)
\* A call that returns forgets what its variables own: it leaks, and nothing dies.
LEMMA ReturningKeeps ==
  ASSUME Returning
  PROVE  /\ PythonTypes' /\ Roots' /\ Counted(py, Own)' /\ Unstolen(regs') /\ \A r \in Borrowed : regs'[r] = Null
<1>1. /\ PythonTypes /\ Roots /\ Counted(py, Own) /\ py'.heap = py.heap /\ py'.err = py.err
      /\ regs \in [ObjectNames -> Nat]
  BY DEF Returning, PythonInv, PythonTypes
<1>2. /\ regs' \in [ObjectNames -> Nat]
      /\ \A r \in ObjectNames : IF r \in Kept THEN regs'[r] = regs[r] ELSE regs'[r] = 0
  BY <1>1 DEF Returning, OnlyKept, Null
<1>3. Len(py.heap) \in Nat /\ Grows(py.heap, py'.heap, 0)
  BY <1>1, CountedLen, GrowsFrom
<1>4. Onward(0)
  BY <1>1, <1>2, <1>3 DEF Onward
<1>5. Roots' /\ \A r \in ObjectNames : regs'[r] <= Len(py'.heap)
  BY <1>1, <1>4, RootsStay
<1>6. PythonTypes'
  BY <1>1, <1>2, <1>5 DEF PythonTypes, Returning
<1>7. Unstolen(regs') /\ \A r \in Borrowed : regs'[r] = Null
  BY <1>2 DEF Unstolen, Borrowed, ObjectNames, Kept, Null
<1>8. ~Running
  <2>1. frame.pc = Len(Statements) + 1 /\ Len(Statements) \in Nat /\ DOMAIN Statements = 1 .. Len(Statements)
    BY <1>1, StatementsLen DEF Returning, Ended, PythonTypes, Statements
  <2> QED
    BY <2>1 DEF Running
<1>9. ASSUME NEW x \in Nat PROVE Registers(regs')[x] = Rooted(regs)[x] /\ Rooted(regs')[x] = Rooted(regs)[x]
  <2>1. One(x, 0) = 0
    BY DEF One, Null
  <2>2. /\ regs'["locals"] = regs["locals"]
        /\ \A r \in {"pobj", "avalues", "pObjAggVal", "pObjSS", "po", "testlist", "testtuple", "called", "a",
               "b", "c"} :
             regs'[r] = 0
    BY <1>2 DEF ObjectNames, Kept
  <2>3. InRegisters(regs', x) = 0 /\ InNumbers(regs', x) = 0
    BY <2>1, <2>2 DEF InRegisters, InNumbers
  <2>4. InRoots(regs', x) = InRoots(regs, x) /\ InRoots(regs, x) \in Nat
    BY <2>2, SumsAre DEF InRoots
  <2>5. /\ Registers(regs')[x] = InRoots(regs', x) + InRegisters(regs', x) + InNumbers(regs', x)
        /\ Rooted(regs')[x] = InRoots(regs', x) /\ Rooted(regs)[x] = InRoots(regs, x)
    BY RegistersAre
  <2> QED
    BY <2>3, <2>4, <2>5
<1>10. Counted(py, Own)'
  <2> DEFINE base == IF Running' THEN Registers(regs') ELSE Rooted(regs')
             f == AndError(Rooted(regs), py.err)
             g == AndError(base, py.err)
  <2>1. base \in Ledger /\ Rooted(regs) \in Ledger
    BY RegistersAre
  <2>2. \A x \in Nat : base[x] = Rooted(regs)[x] /\ Rooted(regs)[x] \in Nat
    BY <1>9, <2>1, LedgerIs
  <2>3. Own = AndError(f, frame.exc) /\ Own' = AndError(g, frame.exc)
    BY <1>1, <1>8 DEF Own, Returning
  <2> HIDE DEF base
  <2>4. Below(base, Rooted(regs))
    <3>1. \A x \in Nat : base[x] <= Rooted(regs)[x]
      BY <2>2
    <3> QED
      BY <3>1 DEF Below
  <2>5. f \in Ledger /\ g \in Ledger /\ Below(g, f)
    BY <2>1, <2>4, LedgerMore, LeavesLess
  <2> HIDE DEF f, g
  <2>6. Counted(py, AndError(g, frame.exc))
    BY <1>1, <2>3, <2>5, LeavesLess
  <2>7. PICK own : own = AndError(g, frame.exc)
    OBVIOUS
  <2>8. Counted(py', own)
    <3>1. py \in Interpreter /\ Solid(py.heap, own) /\ Within(own, Len(py.heap))
      BY <2>6, <2>7 DEF Counted
    <3>2. py' \in Interpreter
      <4>1. PICK h, e, m : h = py.heap /\ e = py.err /\ m = py'.mem
        OBVIOUS
      <4>2. py' = [heap |-> h, err |-> e, mem |-> m] /\ m \in MemoryType /\ h \in Seq(ObjectType) /\ e \in ErrorType
        BY <3>1, <4>1 DEF Returning, Interpreter
      <4> QED
        BY <4>2 DEF Interpreter, MemoryType
    <3> QED
      BY <1>1, <3>1, <3>2 DEF Counted
  <2> QED
    BY <2>3, <2>7, <2>8
<1> QED
  BY <1>5, <1>6, <1>7, <1>10

\* The next call starts with nothing in the registers that it uses.
LEMMA Starting ==
  ASSUME Returning, frame'.pc = 1, frame'.script \in {"callAggregator", "callTerminator"}, ChunksLive',
         frame'.script = "callAggregator" => Current(frame.chunk.values)'
  PROVE  PythonInv'
<1>1. PythonTypes' /\ Roots' /\ Counted(py, Own)' /\ Unstolen(regs') /\ \A r \in Borrowed : regs'[r] = Null
  BY ReturningKeeps
<1>2. Ahead' /\ Borrows'
  BY <1>1 DEF Ahead, Borrows
<1>3. Rails'
  BY DEF Rails
<1>4. Fresh'
  BY DEF Fresh, FreshValues, FreshAnswer
<1>5. ~Ended'
  <2>1. Statements' = Script[frame'.script]
    BY DEF Statements
  <2>2. Len(Statements') = 5 \/ Len(Statements') = 9
    BY <2>1, Script_callAggregator, Script_callTerminator
  <2>3. PICK n : n = Len(Statements')
    OBVIOUS
  <2>4. 1 # n + 1
    BY <2>2, <2>3
  <2> QED
    BY <2>3, <2>4 DEF Ended
<1> QED
  BY <1>1, <1>2, <1>3, <1>4, <1>5 DEF PythonInv, InCall, ResultsAreFresh

\* The next call begins in the invariant.
LEMMA BeginKeeps ==
  ASSUME PythonInv, frame.state = "running", Ended, OnlyKept,
         NEW script \in {"callAggregator", "callTerminator"},
         NEW values \in {frame.chunk.onThread, frame.chunk.onPlace}, Begin(script, values)
  PROVE  PythonInv'
<1>1. PythonTypes /\ ChunksLive /\ Counted(py, Own)
  BY DEF PythonInv
<1>2. /\ frame' = [frame EXCEPT !.script = script, !.pc = 1, !.handled = FALSE, !.call = frame.call + 1,
                                !.value = NoData, !.chunk.values = values]
      /\ py' = [py EXCEPT !.mem[values].from = frame.call + 1]
  BY DEF Begin
<1>3. DOMAIN frame = FrameFields /\ frame.call \in Nat /\ frame.chunk \in [DOMAIN NoChunks -> Nat]
  BY <1>1 DEF PythonTypes
<1>4. /\ DOMAIN frame' = FrameFields /\ frame'.script = script /\ frame'.pc = 1 /\ frame'.call = frame.call + 1
      /\ frame'.exc = frame.exc /\ frame'.state = frame.state
      /\ frame'.chunk = [frame.chunk EXCEPT !.values = values]
  BY <1>2, <1>3 DEF FrameFields
<1>5. {"values", "onThread", "onPlace", "mca"} \subseteq DOMAIN NoChunks /\ values \in Nat
  <2>1. {"values", "onThread", "onPlace", "mca"} \subseteq DOMAIN NoChunks
    BY DEF NoChunks
  <2> QED
    BY <1>3, <2>1
<1>6. /\ frame'.chunk \in [DOMAIN NoChunks -> Nat] /\ frame'.chunk["values"] = values
      /\ \A n \in DOMAIN NoChunks \ {"values"} : frame'.chunk[n] = frame.chunk[n]
  <2>1. PICK c : c = frame.chunk
    OBVIOUS
  <2>2. frame'.chunk = [c EXCEPT !["values"] = values] /\ c \in [DOMAIN NoChunks -> Nat]
    BY <1>3, <1>4, <2>1
  <2> QED
    BY <1>5, <2>1, <2>2
<1> DEFINE mem == [py.mem EXCEPT ![values].from = frame.call + 1]
<1>7. py.mem \in MemoryType /\ values \in DOMAIN py.mem
  BY <1>1 DEF Counted, Interpreter, ChunksLive, MemoryType
<1>8. /\ mem \in MemoryType /\ DOMAIN mem = DOMAIN py.mem /\ mem[values].from = frame.call + 1
      /\ \A c \in DOMAIN mem : mem[c].live = py.mem[c].live
  <2> DEFINE T == [live : BOOLEAN, from : Int]
             v(x) == [x EXCEPT !.from = frame.call + 1]
             n == Len(py.mem)
             f == [k \in 1 .. n |-> IF k = values THEN v(py.mem[k]) ELSE py.mem[k]]
  <2>1. \A x \in T : v(x) \in T /\ v(x).live = x.live /\ v(x).from = frame.call + 1
    BY <1>3
  <2>2. py.mem \in Seq(T)
    BY <1>7 DEF MemoryType
  <2> HIDE DEF T
  <2>3. n \in Nat /\ DOMAIN py.mem = 1 .. n /\ \A k \in 1 .. n : py.mem[k] \in T
    BY <2>2
  <2>4. mem = f
    BY <2>3
  <2> HIDE DEF v, n
  <2>5. f \in [1 .. n -> T] /\ DOMAIN f = 1 .. n
    BY <2>1, <2>3
  <2>6. f \in Seq(T)
    BY <2>3, <2>5, FunctionIsSeq
  <2>7. f[values].from = frame.call + 1 /\ \A c \in 1 .. n : f[c].live = py.mem[c].live
    BY <1>7, <2>1, <2>3
  <2> HIDE DEF f, mem
  <2> QED
    BY <2>3, <2>4, <2>5, <2>6, <2>7 DEF MemoryType, T
<1>9. py'.mem = mem /\ py' = [heap |-> py.heap, err |-> py.err, mem |-> py'.mem]
  <2>1. PICK h, e, m : h = py.heap /\ e = py.err /\ m = py.mem
    OBVIOUS
  <2>2. py = [heap |-> h, err |-> e, mem |-> m]
    BY <1>1, <2>1 DEF Counted, Interpreter
  <2>3. py' = [heap |-> h, err |-> e, mem |-> [m EXCEPT ![values].from = frame.call + 1]]
    BY <1>2, <2>2
  <2> QED
    BY <2>1, <2>3
<1> HIDE DEF mem
<1>10. script \in DOMAIN Script
  BY DEF Script
<1>11. Returning
  <2>1. frame'.pc \in Nat /\ frame'.call \in Nat
    BY <1>3, <1>4
  <2> QED
    BY <1>4, <1>6, <1>8, <1>9, <1>10, <2>1 DEF Returning
<1>12. ChunksLive'
  <2>1. frame'.chunk["onThread"] = frame.chunk["onThread"] /\ frame'.chunk["onPlace"] = frame.chunk["onPlace"]
    BY <1>5, <1>6
  <2>2. frame'.pc \notin 2 .. 9
    BY <1>4
  <2> QED
    BY <1>1, <1>6, <1>8, <1>9, <2>1, <2>2 DEF ChunksLive
<1>13. Current(frame.chunk.values)'
  BY <1>1, <1>4, <1>6, <1>7, <1>8, <1>9 DEF Current, ChunksLive
<1> QED
  BY <1>4, <1>11, <1>12, <1>13, Starting

\* The last call returns.
LEMMA DoneKeeps ==
  ASSUME PythonInv, frame.state = "running", Ended, OnlyKept, frame' = [frame EXCEPT !.state = "done"], py' = py
  PROVE  PythonInv'
<1>1. PythonTypes /\ Counted(py, Own)
  BY DEF PythonInv
<1>2. DOMAIN frame = FrameFields
  BY <1>1 DEF PythonTypes
<1>3. /\ DOMAIN frame' = FrameFields /\ frame'.state = "done" /\ frame'.exc = frame.exc
      /\ frame'.script = frame.script /\ frame'.pc = frame.pc /\ frame'.call = frame.call
      /\ frame'.chunk = frame.chunk
  BY <1>2 DEF FrameFields
<1>4. py' = [heap |-> py.heap, err |-> py.err, mem |-> py'.mem] /\ py'.mem \in MemoryType
  BY <1>1 DEF Counted, Interpreter, MemoryType
<1>5. Returning
  BY <1>1, <1>3, <1>4 DEF Returning, PythonTypes
<1>6. PythonTypes' /\ Roots' /\ Counted(py, Own)'
  BY <1>5, ReturningKeeps
<1> QED
  BY <1>3, <1>6 DEF PythonInv, ResultsAreFresh

\* The run ends, and the next one integrates Python again.
LEMMA EndPythonRunKeeps ==
  ASSUME PythonInv, frame.state = "running", Ended, OnlyKept, EndPythonRun
  PROVE  PythonInv'
<1>1. PythonTypes /\ ChunksLive /\ Counted(py, Own)
  BY DEF PythonInv
<1>2. CASE frame.run = MaxRuns \/ frame.call >= MaxCalls
  BY <1>2, DoneKeeps DEF EndPythonRun
<1>3. CASE ~(frame.run = MaxRuns \/ frame.call >= MaxCalls)
  <2> DEFINE n == Len(py.mem)
             T == [live : BOOLEAN, from : Int]
             old == [c \in DOMAIN py.mem |->
                       IF c \in {frame.chunk.onThread, frame.chunk.onPlace}
                         THEN [py.mem[c] EXCEPT !.live = FALSE] ELSE py.mem[c]]
             new == <<[live |-> TRUE, from |-> frame.call + 1], [live |-> TRUE, from |-> 0]>>
             mem == old \o new
  <2>1. /\ frame' = [frame EXCEPT !.script = "callAggregator", !.pc = 1, !.handled = FALSE,
                       !.run = frame.run + 1, !.call = frame.call + 1, !.value = NoData,
                       !.chunk.onThread = n + 1, !.chunk.onPlace = n + 2, !.chunk.values = n + 1]
        /\ py' = [py EXCEPT !.mem = mem]
    BY <1>3 DEF EndPythonRun
  <2>2. py.mem \in Seq(T) /\ n \in Nat /\ DOMAIN py.mem = 1 .. n /\ \A c \in 1 .. n : py.mem[c] \in T
    <3>1. py.mem \in Seq(T)
      BY <1>1 DEF Counted, Interpreter
    <3> HIDE DEF T
    <3> QED
      BY <3>1
  <2>3. DOMAIN frame = FrameFields /\ frame.call \in Nat /\ frame.chunk \in [DOMAIN NoChunks -> Nat]
    BY <1>1 DEF PythonTypes
  <2> HIDE DEF n
  <2>4. /\ DOMAIN frame' = FrameFields /\ frame'.script = "callAggregator" /\ frame'.pc = 1
        /\ frame'.call = frame.call + 1 /\ frame'.exc = frame.exc /\ frame'.state = frame.state
        /\ frame'.chunk = [[[frame.chunk EXCEPT !.onThread = n + 1] EXCEPT !.onPlace = n + 2] EXCEPT !.values = n + 1]
    BY <2>1, <2>3 DEF FrameFields
  <2>5. {"values", "onThread", "onPlace"} \subseteq DOMAIN NoChunks
    BY DEF NoChunks
  <2>6. /\ frame'.chunk \in [DOMAIN NoChunks -> Nat] /\ frame'.chunk["values"] = n + 1
        /\ frame'.chunk["onThread"] = n + 1 /\ frame'.chunk["onPlace"] = n + 2
    <3>1. PICK c : c = frame.chunk
      OBVIOUS
    <3>2. PICK m1, m2 : m1 = n + 1 /\ m2 = n + 2
      OBVIOUS
    <3>3. frame'.chunk = [[[c EXCEPT !.onThread = m1] EXCEPT !.onPlace = m2] EXCEPT !.values = m1]
      <4>1. frame'.chunk =
              [[[frame.chunk EXCEPT !.onThread = n + 1] EXCEPT !.onPlace = n + 2] EXCEPT !.values = n + 1]
        BY <2>4
      <4> QED
        BY <3>1, <3>2, <4>1, Zenon
    <3>4. c \in [DOMAIN NoChunks -> Nat] /\ m1 \in Nat /\ m2 \in Nat
      BY <2>2, <2>3, <3>1, <3>2
    <3>5. /\ frame'.chunk \in [DOMAIN NoChunks -> Nat] /\ frame'.chunk["values"] = m1
          /\ frame'.chunk["onThread"] = m1 /\ frame'.chunk["onPlace"] = m2
      BY <2>5, <3>3, <3>4
    <3> QED
      BY <3>2, <3>5
  <2>7. old \in [1 .. n -> T]
    <3>1. \A x \in T : [x EXCEPT !.live = FALSE] \in T
      OBVIOUS
    <3> HIDE DEF T
    <3> QED
      BY <2>2, <3>1
  <2> HIDE DEF old
  <2>8. old \in Seq(T) /\ Len(old) = n
    BY <2>2, <2>7, FunctionIsSeq
  <2>9. new \in Seq(T) /\ Len(new) = 2 /\ new[1] = [live |-> TRUE, from |-> frame.call + 1]
        /\ new[2] = [live |-> TRUE, from |-> 0]
    BY <2>3
  <2> HIDE DEF new, T
  <2>10. /\ mem \in Seq(T) /\ Len(mem) = n + 2 /\ DOMAIN mem = 1 .. n + 2
         /\ mem[n + 1] = new[1] /\ mem[n + 2] = new[2]
    <3>1. n \in Nat /\ old \in Seq(T) /\ new \in Seq(T) /\ Len(old) = n /\ Len(new) = 2
      BY <2>2, <2>8, <2>9
    <3>2. /\ old \o new \in Seq(T) /\ Len(old \o new) = n + 2 /\ DOMAIN (old \o new) = 1 .. n + 2
          /\ (old \o new)[n + 1] = new[1] /\ (old \o new)[n + 2] = new[2]
      BY <3>1, Joined
    <3> QED
      BY <3>2, Zenon
  <2> HIDE DEF mem
  <2>11. py'.mem = mem /\ py' = [heap |-> py.heap, err |-> py.err, mem |-> py'.mem]
    <3>1. PICK h, e, m : h = py.heap /\ e = py.err /\ m = py.mem
      OBVIOUS
    <3>2. py = [heap |-> h, err |-> e, mem |-> m]
      BY <1>1, <3>1 DEF Counted, Interpreter
    <3>3. py' = [heap |-> h, err |-> e, mem |-> mem]
      BY <2>1, <3>2
    <3> QED
      BY <3>1, <3>3
  <2>12. "callAggregator" \in DOMAIN Script
    BY DEF Script
  <2>13. Returning
    <3>1. frame'.pc \in Nat /\ frame'.call \in Nat
      BY <2>3, <2>4
    <3> QED
      BY <2>4, <2>6, <2>10, <2>11, <2>12, <3>1 DEF Returning, MemoryType, T
  <2>14. /\ n + 1 \in 1 .. n + 2 /\ n + 2 \in 1 .. n + 2 /\ n + 1 # n + 2
         /\ mem[n + 1].live /\ mem[n + 2].live /\ mem[n + 1].from = frame.call + 1
    <3>1. n + 1 \in 1 .. n + 2 /\ n + 2 \in 1 .. n + 2 /\ n + 1 # n + 2
      BY <2>2
    <3>2. new[1].live /\ new[2].live /\ new[1].from = frame.call + 1
      BY <2>9
    <3> QED
      BY <2>10, <3>1, <3>2
  <2>15. ChunksLive'
    BY <2>4, <2>6, <2>10, <2>11, <2>14 DEF ChunksLive
  <2>16. Current(frame.chunk.values)'
    BY <2>4, <2>6, <2>10, <2>11, <2>14 DEF Current
  <2> QED
    BY <2>4, <2>13, <2>15, <2>16, Starting
<1> QED
  BY <1>2, <1>3

\* The return of a call keeps the invariant.
LEMMA ReturnKeeps == PythonInv /\ Return => PythonInv'
<1> SUFFICES ASSUME PythonInv, Return PROVE PythonInv'
  OBVIOUS
<1>1. frame.state = "running" /\ Ended /\ OnlyKept
  BY DEF Return, OnlyKept
<1>2. \/ Begin("callAggregator", frame.chunk.onThread)
      \/ Begin("callAggregator", frame.chunk.onPlace)
      \/ Begin("callTerminator", frame.chunk.onPlace)
      \/ EndPythonRun
      \/ frame' = [frame EXCEPT !.state = "done"] /\ py' = py
  BY DEF Return
<1>3. ASSUME NEW script \in {"callAggregator", "callTerminator"},
             NEW values \in {frame.chunk.onThread, frame.chunk.onPlace}, Begin(script, values)
      PROVE  PythonInv'
  BY <1>1, <1>3, BeginKeeps
<1> QED
  BY <1>1, <1>2, <1>3, EndPythonRunKeeps, DoneKeeps

\* However many calls and runs there are, whatever statement fails in whichever way, and whether or not
\* the handler crashes: every object of the interpreter counts all references to it, and what the
\* scripts of PyXPregel and of the tests hold is as they need it (the calls of NativePython.cc and what
\* NativePyXPregelAdapter.cc does with their results).
THEOREM PythonInvariant == PythonSpec => []PythonInv
<1>1. PythonInit => PythonInv
  BY InitKeeps
<1>2. PythonInv /\ [PythonNext]_pythonVars => PythonInv'
  <2> SUFFICES ASSUME PythonInv, [PythonNext]_pythonVars PROVE PythonInv'
    OBVIOUS
  <2>1. CASE Statement
    BY <2>1, StatementKeeps
  <2>2. CASE Handle
    BY <2>2, HandleKeeps
  <2>3. CASE Return
    BY <2>3, ReturnKeeps
  <2>4. CASE UNCHANGED pythonVars
    <3>1. py' = py /\ regs' = regs /\ frame' = frame
      BY <2>4 DEF pythonVars
    <3>2. Running' = Running /\ Ended' = Ended /\ Statements' = Statements
      BY <3>1 DEF Running, Ended, Statements
    <3>3. PythonTypes'
      BY <3>1 DEF PythonInv, PythonTypes
    <3>4. Counted(py, Own)'
      BY <3>1, <3>2 DEF PythonInv, Own
    <3>5. Roots'
      BY <3>1 DEF PythonInv, Roots
    <3>6. ChunksLive' = ChunksLive
      BY <3>1 DEF ChunksLive
    <3>7. Ahead' = Ahead
      BY <3>1, <3>2 DEF Ahead
    <3>8. Borrows' = Borrows
      BY <3>1 DEF Borrows, Local
    <3>9. Rails' = Rails
      BY <3>1 DEF Rails, ThreeMade, TwoMade, Local
    <3>10. FreshValues' = FreshValues
      BY <3>1 DEF FreshValues, Current, Shows, ComputedNow, Local
    <3>11. FreshAnswer' = FreshAnswer
      BY <3>1 DEF FreshAnswer, Current, Shows, ComputedNow, Local
    <3>12. Fresh' = Fresh
      BY <3>1, <3>10, <3>11 DEF Fresh
    <3>13. InCall' = InCall
      BY <3>7, <3>8, <3>9, <3>12 DEF InCall
    <3>14. ResultsAreFresh' = ResultsAreFresh
      BY <3>1, <3>2 DEF ResultsAreFresh
    <3> QED
      BY <3>1, <3>2, <3>3, <3>4, <3>5, <3>6, <3>13, <3>14 DEF PythonInv
  <2> QED
    BY <2>1, <2>2, <2>3, <2>4 DEF PythonNext, PythonStopped
<1> QED
  BY <1>1, <1>2, PTL DEF PythonSpec

\* What callAggregator and callTerminator return has been computed in that very call, from the memory
\* that was made for it (NativePyXPregelAdapter.cc), never left over in locals by an earlier one.
THEOREM FreshResults == PythonSpec => []ResultsAreFresh
<1>1. PythonInv => ResultsAreFresh
  BY DEF PythonInv
<1> QED
  BY <1>1, PythonInvariant, PTL

-----------------------------------------------------------------------------
(***************************************************************************)
(* What is used is alive.                                                  *)
(***************************************************************************)
\* What is owned is alive.
LEMMA OwnedAlive ==
  ASSUME NEW own \in Ledger, Counted(py, own), NEW x \in Nat, x = 0 \/ own[x] # 0
  PROVE  Alive(x)
BY OwnedIs DEF Alive, Null

\* What a living container holds is alive.
LEMMA HeldAlive ==
  ASSUME NEW own \in Ledger, Counted(py, own), NEW d \in Nat, d # 0, own[d] # 0, NEW key
  PROVE  Alive(Item(py.heap, d, key))
<1> DEFINE heap == py.heap
           x == Item(heap, d, key)
           H == HoldersIn(heap, Living(heap), x)
<1>1. /\ Solid(heap, own) /\ heap \in Seq(ObjectType) /\ Closed(heap) /\ d \in Living(heap)
      /\ Living(heap) \in SUBSET (DOMAIN heap) /\ Len(heap) \in Nat
  BY CountedParts, SolidParts, OwnedIs
<1>2. x \in Nat /\ x <= Len(heap)
  BY ItemIs
<1> HIDE DEF heap
<1>3. CASE x = 0
  BY <1>3 DEF Alive, Null, heap
<1>4. CASE x # 0
  <2>1. x = IF key \in DOMAIN heap[d].items THEN heap[d].items[key] ELSE 0
    BY Zenon DEF Item, Null
  <2> HIDE DEF x
  <2>9. key \in DOMAIN heap[d].items /\ heap[d].items[key] = x
    BY <1>4, <2>1
  <2>2. <<d, key>> \in H
    BY <1>1, <1>4, <2>9, HoldersAre DEF Null
  <2>3. IsFiniteSet(H) /\ HeldBy(heap, Living(heap), x) \in Nat
    BY <1>1, HoldersFinite
  <2>4. Cardinality(H) # 0
    <3> HIDE DEF H
    <3> QED
      BY <2>2, <2>3, FS_EmptySet
  <2>5. HeldBy(heap, Living(heap), x) # 0
    BY <2>4 DEF HeldBy
  <2>6. x \in 1 .. Len(heap)
    BY <1>1, <1>2, <1>4
  <2>7. heap[x].refs \in Nat /\ own[x] \in Nat /\ heap[x].refs >= HeldBy(heap, Living(heap), x) + own[x]
    BY <1>1, <2>6, SolidParts
  <2>8. heap[x].refs > 0
    BY <2>3, <2>5, <2>7
  <2> QED
    BY <2>8 DEF Alive, heap, x
<1> QED
  BY <1>3, <1>4

\* The arguments of a statement.
LEMMA ArgumentsAlive ==
  ASSUME Calling, NEW n \in DOMAIN Statements[frame.pc].args, NEW r, r = Statements[frame.pc].args[n],
      r \in ObjectNames
  PROVE  Alive(regs[r])
<1> DEFINE own == AndError(Registers(regs), py.err)
<1>1. /\ regs \in [ObjectNames -> Nat] /\ Ready(py, Registers(regs)) /\ Registers(regs) \in Ledger /\ Roots /\ InCall
      /\ frame.script \in DOMAIN Script /\ frame.pc \in DOMAIN Statements
  BY CallingIs
<1>2. /\ own \in Ledger /\ Counted(py, own) /\ \A x \in Nat : Registers(regs)[x] # 0 => own[x] # 0
  BY <1>1, ErrorsKept DEF Ready
<1> HIDE DEF own
<1>3. regs[r] \in Nat /\ regs["locals"] \in Nat /\ MainModule \in Nat /\ MainModule # 0
  BY <1>1 DEF ObjectNames, MainModule
<1>4. \A x \in Nat : Registers(regs)[x] # 0 => Alive(x)
  BY <1>2, OwnedAlive
<1>5. CASE regs[r] = 0
  BY <1>5 DEF Alive, Null
<1>6. CASE regs[r] # 0 /\ r \in Owned
  BY <1>1, <1>3, <1>4, <1>6, HeldOwned
<1>7. CASE regs[r] # 0 /\ r \in Numbers
  <2>1. UsesNumbers(Statements[frame.pc])
    BY <1>7 DEF UsesNumbers
  <2>2. frame.pc \in frame.pc .. Len(Statements)
    BY <1>1, StatementsLen
  <2>3. Unstolen(regs)
    BY <1>1, <2>1, <2>2 DEF InCall, Ahead
  <2> QED
    BY <1>1, <1>3, <1>4, <1>7, <2>3, HeldOwned
<1>8. CASE regs[r] # 0 /\ r \in Borrowed
  <2>1. regs["locals"] # 0 /\ Local(r) = regs[r]
    BY <1>1, <1>8 DEF InCall, Borrows, Null
  <2>2. own[regs["locals"]] # 0
    BY <1>1, <1>2, <1>3, <2>1, HeldOwned
  <2>3. Alive(Item(py.heap, regs["locals"], r))
    BY <1>2, <1>3, <2>1, <2>2, HeldAlive
  <2> QED
    BY <2>1, <2>3 DEF Local
<1>9. CASE regs[r] # 0 /\ r = "locals"
  <2>1. Registers(regs)[regs["locals"]] # 0
    BY <1>1, <1>9, HeldOwned
  <2> QED
    BY <1>3, <1>4, <1>9, <2>1
<1>10. CASE regs[r] # 0 /\ r = "main"
  <2>1. regs[r] = MainModule /\ Registers(regs)[MainModule] # 0
    BY <1>1, <1>10, HeldOwned DEF Roots, Null
  <2> QED
    BY <1>3, <1>4, <2>1
<1>11. CASE regs[r] # 0 /\ r = "globals"
  <2>1. regs[r] = Item(py.heap, MainModule, "__dict__")
    BY <1>1, <1>11 DEF Roots, Null
  <2>2. own[MainModule] # 0
    BY <1>1, <1>2, <1>3, HeldOwned
  <2>3. Alive(Item(py.heap, MainModule, "__dict__"))
    BY <1>2, <1>3, <2>2, HeldAlive
  <2> QED
    BY <2>1, <2>3
<1> QED
  BY <1>5, <1>6, <1>7, <1>8, <1>9, <1>10, <1>11 DEF Owned, Kept

\* The items that a list, a tuple or a call steals.
LEMMA RailAlive ==
  ASSUME Calling, Statements[frame.pc].do \in {"listFromRail", "tupleFromRail", "objectCallObject"},
         NEW n \in DOMAIN frame.rail
  PROVE  Alive(frame.rail[n])
<1> DEFINE own == AndError(Registers(regs), py.err)
<1>1. /\ regs \in [ObjectNames -> Nat] /\ Ready(py, Registers(regs)) /\ Registers(regs) \in Ledger /\ InCall
      /\ Placed(frame.script, frame.pc, CurrentStatement)
  BY CallingIs
<1>2. own \in Ledger /\ Counted(py, own) /\ \A x \in Nat : Registers(regs)[x] # 0 => own[x] # 0
  BY <1>1, ErrorsKept DEF Ready
<1> HIDE DEF own
<1>3. Unstolen(regs) /\ (frame.rail = <<regs["a"], regs["b"], regs["c"]>> \/ frame.rail = <<regs["a"], regs["b"]>>)
  <2>1. \/ frame.script \in {"test_listFromRail", "test_tupleFromRail"} /\ frame.pc = 8
        \/ frame.script = "test_objectCallObjectFunc" /\ frame.pc = 13
    BY <1>1 DEF Placed, CurrentStatement
  <2>2. 8 <= 8 /\ 13 <= 13 /\ 13 \in {12, 13}
    OBVIOUS
  <2> QED
    BY <1>1, <2>1, <2>2 DEF InCall, Rails, ThreeMade, TwoMade
<1>4. \E r \in Numbers : frame.rail[n] = regs[r]
  <2>1. \A k \in DOMAIN <<regs["a"], regs["b"], regs["c"]>> :
          <<regs["a"], regs["b"], regs["c"]>>[k] \in {regs["a"], regs["b"], regs["c"]}
    OBVIOUS
  <2>2. \A k \in DOMAIN <<regs["a"], regs["b"]>> : <<regs["a"], regs["b"]>>[k] \in {regs["a"], regs["b"], regs["c"]}
    OBVIOUS
  <2>3. frame.rail[n] \in {regs["a"], regs["b"], regs["c"]}
    BY <1>3, <2>1, <2>2
  <2> QED
    BY <2>3 DEF Numbers
<1>5. PICK r \in Numbers : frame.rail[n] = regs[r]
  BY <1>4
<1>6. regs[r] \in Nat
  BY <1>1 DEF Numbers, ObjectNames
<1>7. regs[r] = 0 \/ own[regs[r]] # 0
  BY <1>1, <1>2, <1>3, <1>6, HeldOwned
<1> QED
  BY <1>2, <1>5, <1>6, <1>7, OwnedAlive

\* In the invariant no handle is dangling.
LEMMA HandlesSafe == PythonInv => HandlesAlive
<1> SUFFICES ASSUME PythonInv PROVE HandlesAlive
  OBVIOUS
<1>1. PythonTypes /\ Counted(py, Own) /\ Own \in Ledger
  BY OwnIs DEF PythonInv
<1>2. \A a \in DOMAIN py.heap : py.heap[a].refs >= Cardinality(Holders(a))
  <2> SUFFICES ASSUME NEW a \in DOMAIN py.heap PROVE py.heap[a].refs >= Cardinality(Holders(a))
    OBVIOUS
  <2>1. Solid(py.heap, Own) /\ DOMAIN py.heap = 1 .. Len(py.heap)
    BY <1>1, CountedParts, SolidParts
  <2>2. /\ py.heap[a].refs \in Nat /\ HeldBy(py.heap, Living(py.heap), a) \in Nat /\ Own[a] \in Nat
        /\ py.heap[a].refs >= HeldBy(py.heap, Living(py.heap), a) + Own[a]
    BY <1>1, <2>1, SolidParts
  <2>3. py.heap[a].refs >= HeldBy(py.heap, Living(py.heap), a)
    BY <2>2
  <2> QED
    BY <2>3 DEF HeldBy, Holders
<1>3. ASSUME NEW a \in {py.err.value, py.err.traceback, frame.exc.value, frame.exc.traceback} PROVE Alive(a)
  <2> DEFINE base == IF Running THEN Registers(regs) ELSE Rooted(regs)
             own1 == AndError(base, py.err)
  <2>1. py.err \in ErrorType /\ frame.exc \in ExceptionRecord
    BY <1>1, CountedParts DEF PythonTypes
  <2>2. a \in Nat
    BY <2>1 DEF ErrorType, ExceptionRecord
  <2>3. base \in Ledger
    BY RegistersAre
  <2>4. Own = AndError(own1, frame.exc)
    BY DEF Own
  <2> HIDE DEF base
  <2>5. own1 \in Ledger /\ own1[a] = base[a] + InError(py.err, a) /\ base[a] \in Nat
    BY <2>2, <2>3, LedgerMore, LedgerIs
  <2> HIDE DEF own1
  <2>6. Own[a] = own1[a] + InError(frame.exc, a) /\ own1[a] \in Nat
    BY <2>2, <2>4, <2>5, LedgerMore, LedgerIs
  <2>7. CASE a = 0
    BY <2>7 DEF Alive, Null
  <2>8. CASE a # 0
    <3>1. InError(py.err, a) \in Nat /\ InError(frame.exc, a) \in Nat
      BY InErrorIs
    <3>2. InError(py.err, a) # 0 \/ InError(frame.exc, a) # 0
      <4>1. \A e : (a = e.value \/ a = e.traceback) => InError(e, a) # 0
        <5> SUFFICES ASSUME NEW e, a = e.value \/ a = e.traceback PROVE InError(e, a) # 0
          OBVIOUS
        <5>1. /\ One(a, e.type) \in Nat /\ One(a, e.value) \in Nat /\ One(a, e.traceback) \in Nat
              /\ One(a, e.value) = 1 \/ One(a, e.traceback) = 1
          BY <2>8, OneIs
        <5>2. PICK u, v, w \in Nat : u = One(a, e.type) /\ v = One(a, e.value) /\ w = One(a, e.traceback)
          BY <5>1
        <5>3. v = 1 \/ w = 1
          BY <5>1, <5>2
        <5>4. u + v + w # 0
          <6> SUFFICES ASSUME NEW i \in Nat, NEW j \in Nat, NEW k \in Nat, j = 1 \/ k = 1 PROVE i + j + k # 0
            BY <5>3
          <6> QED
            OBVIOUS
        <5>5. InError(e, a) = u + v + w
          BY <5>2 DEF InError
        <5> QED
          BY <5>4, <5>5
      <4> QED
        BY <4>1
    <3>3. Own[a] # 0
      BY <2>5, <2>6, <3>1, <3>2
    <3> QED
      BY <1>1, <2>2, <3>3, OwnedAlive
  <2> QED
    BY <2>7, <2>8
<1>4. ASSUME Running, frame.state = "running"
      PROVE  /\ \A n \in DOMAIN Statements[frame.pc].args :
                  LET r == Statements[frame.pc].args[n] IN r \in ObjectNames => Alive(regs[r])
             /\ Statements[frame.pc].do \in {"listFromRail", "tupleFromRail", "objectCallObject"} =>
                  \A n \in DOMAIN frame.rail : Alive(frame.rail[n])
  <2>1. Calling
    BY <1>4 DEF Calling
  <2> QED
    BY <2>1, ArgumentsAlive, RailAlive
<1> QED
  BY <1>2, <1>3, <1>4 DEF HandlesAlive

\* No handle is used after its object has been freed: neither an argument of a statement nor an item of a
\* rail, nor what an error or an exception holds (the Py_INCREF and Py_DECREF of NativePython.cc).
THEOREM AliveHandles == PythonSpec => []HandlesAlive
BY HandlesSafe, PythonInvariant, PTL
=============================================================================
