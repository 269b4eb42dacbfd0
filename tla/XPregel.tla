------------------------------- MODULE XPregel -------------------------------
(***************************************************************************)
(* The superstep engine of XPregel: WorkerPlaceGraph.run at every place,   *)
(* with the MessageCommunicator each run creates.                          *)
(*                                                                         *)
(* Every place executes the same loop.  Its vertices are computed, then    *)
(* the place takes part in the collectives of the superstep, in program    *)
(* order:                                                                  *)
(*                                                                         *)
(*   inedge     alltoallv of the edges the superstep changed, always       *)
(*   bcsum      allreduce of the number of broadcasts (line 728)           *)
(*   aggregate  gather and broadcast of the aggregated value, only when    *)
(*              the program has an aggregator (line 753)                   *)
(*   gather     allreduce of the statistics that decide on termination     *)
(*   mask       alltoall of the in-edge mask, once in a run                *)
(*   stat       allreduce of the statistics of combined messages           *)
(*   unicast    alltoall and alltoallv of the unicast messages             *)
(*   broadcast  alltoall and alltoallv of the broadcast messages           *)
(*                                                                         *)
(* A place blocked in a collective has its name as pc and ready = FALSE.   *)
(* The collective completes for all places at once, and then each place    *)
(* resumes on its own, so a place may be computing superstep ss + 1 while  *)
(* another has not yet left the last collective of superstep ss.  A        *)
(* collective the program skips is passed with ready = TRUE from the       *)
(* start.                                                                  *)
(*                                                                         *)
(* compute does not change edges here, so what the inedge collective       *)
(* exchanges is empty.                                                     *)
(***************************************************************************)
EXTENDS Integers, Sequences, FiniteSets, Functions

CONSTANTS
  Place,             \* the places of the team
  Vertex,            \* the vertices of the graph
  Owner,             \* Owner[v]: the place v is distributed to
  OutEdge,           \* OutEdge[v]: the destinations of the out edges of v
  Payload,           \* the values of the message type M
  Program,           \* Program[v]: the effects a call of compute on v may have
  MayThrow,          \* the vertices whose compute may throw
  EndChoice,         \* the values the program's end closure may return
  HasAggregator,     \* aggregator # null
  HasCombiner,       \* combiner # null
  EnableStatistics,  \* mEnableStatistics
  DirectionLimit,    \* numberOfGlobalVertexes() / 50
  MaxSuperstep       \* the last superstep of the loop, 10000 in the code

Message == [src : Vertex, dst : Vertex, val : Payload, via : {"uc", "bc"}]
Effect  == [uc : SUBSET (Vertex \X Payload), bc : Seq(Payload),
            flag : {"keep", "halt", "revive"}]
Packet  == [dst : Vertex, msgs : SUBSET Message]
Stage   == {"compute", "inedge", "bcsum", "aggregate", "gather", "mask", "stat",
            "unicast", "broadcast", "done", "failed", "threw"}

ASSUME GraphAssumption ==
  /\ Place # {}
  /\ Owner \in [Vertex -> Place]
  /\ OutEdge \in [Vertex -> SUBSET Vertex]
ASSUME ProgramAssumption ==
  /\ Program \in [Vertex -> SUBSET Effect]
  /\ \A v \in Vertex : Program[v] # {}
  /\ MayThrow \subseteq Vertex
  /\ EndChoice \subseteq BOOLEAN /\ EndChoice # {}
ASSUME OptionAssumption ==
  /\ HasAggregator \in BOOLEAN /\ HasCombiner \in BOOLEAN
  /\ EnableStatistics \in BOOLEAN
  /\ DirectionLimit \in Nat /\ MaxSuperstep \in Nat

VARIABLES
  pc, ready,       \* where each place is, as described above
  ss,              \* ss[p]: the superstep p is in
  todo,            \* todo[p]: local vertices not yet visited in the superstep
  active,          \* active[v]: mVertexActive
  numActive,       \* mNumActiveVertexes
  bcsCount,        \* mBCSInputCount
  ucc,             \* mUCCMessages: the unicast messages sent at the place
  bcc,             \* mBCCHasMessage and mBCCMessages: [src, val] records
  dirOpt,          \* the outcome of the test of line 729
  stt, recvStt,    \* statistics of the place, and their sums over the team
  combined, recvCombined,  \* the same for STT_COMBINED_MESSAGE
  maskMade, mask,  \* mInEdgesMask, and whether it has been created
  ucs, bcs,        \* send buffers of a place, one per destination place
  uce, bce,        \* mUCREnabled, mBCREnabled
  ucr, bcr         \* receive buffers of a place

visitVars == <<ss, todo>>
haltVars  == <<active, numActive>>
outVars   == <<ucc, bcc, bcsCount>>
sttVars   == <<stt, recvStt, combined, recvCombined>>
maskVars  == <<maskMade, mask>>
wireVars  == <<ucs, bcs>>
inVars    == <<uce, bce, ucr, bcr>>
vars == <<pc, ready, visitVars, haltVars, outVars, sttVars, maskVars, wireVars,
          inVars, dirOpt>>

Local(p)  == {v \in Vertex : Owner[v] = p}
InEdge(v) == {u \in Vertex : v \in OutEdge[u]}

\* Only whether a sum of statistics is positive matters, so they are BOOLEAN.
Statistics == [endCount : BOOLEAN, active : BOOLEAN, raw : BOOLEAN,
               vertex : BOOLEAN]

(***************************************************************************)
(* What message(v, buffer) hands to compute: a set of packets, a packet    *)
(* being the messages that were combined into one.                         *)
(***************************************************************************)
message(v) ==
  LET p == Owner[v] IN
  IF uce[p] THEN {k.msgs : k \in {x \in ucr[p] : x.dst = v}}
  ELSE IF bce[p]
  THEN {{[src |-> b.src, dst |-> v, val |-> b.val, via |-> "bc"]} :
          b \in {x \in bcr[p] : x.src \in InEdge(v)}}
  ELSE {}

Init ==
  /\ pc = [p \in Place |-> "compute"]
  /\ ready = [p \in Place |-> FALSE]
  /\ ss = [p \in Place |-> 0]
  /\ todo = [p \in Place |-> Local(p)]
  /\ active \in [Vertex -> BOOLEAN]      \* copied from mVertexShouldBeActive
  /\ numActive = [p \in Place |-> 0]
  /\ bcsCount = [p \in Place |-> 0]
  /\ ucc = [p \in Place |-> {}]
  /\ bcc = [p \in Place |-> {}]
  /\ dirOpt = [p \in Place |-> FALSE]
  /\ stt = [p \in Place |-> [endCount |-> FALSE, active |-> FALSE,
             raw |-> FALSE, vertex |-> FALSE]]
  /\ recvStt = stt
  /\ combined = [p \in Place |-> FALSE]
  /\ recvCombined \in [Place -> BOOLEAN]   \* memory is not initialised
  /\ maskMade = [p \in Place |-> FALSE]
  /\ mask = [p \in Place |-> [q \in Place |-> {}]]
  /\ ucs = [p \in Place |-> [q \in Place |-> {}]]
  /\ bcs = [p \in Place |-> [q \in Place |-> {}]]
  /\ uce = [p \in Place |-> FALSE]
  /\ bce = [p \in Place |-> FALSE]
  /\ ucr = [p \in Place |-> {}]
  /\ bcr = [p \in Place |-> {}]

Resumed(p, c) == pc[p] = c /\ ready[p]

\* Go to collective c, or past it when the program skips it.
Proceed(p, c, skip) ==
  /\ pc' = [pc EXCEPT ![p] = c]
  /\ ready' = [ready EXCEPT ![p] = skip]

(***************************************************************************)
(* The compute phase.                                                      *)
(***************************************************************************)

\* One call of compute with effect e: its sends, its broadcasts (a later one
\* overwrites an earlier one, but each is counted), its halt flag, and the
\* count of vertices left active.
RunCompute(p, v, e) ==
  /\ ucc' = [ucc EXCEPT ![p] = @ \cup
       {[src |-> v, dst |-> m[1], val |-> m[2], via |-> "uc"] : m \in e.uc}]
  /\ bcc' = [bcc EXCEPT ![p] = IF e.bc = <<>> THEN @
                               ELSE @ \cup {[src |-> v, val |-> e.bc[Len(e.bc)]]}]
  /\ bcsCount' = [bcsCount EXCEPT ![p] = @ + Len(e.bc)]
  /\ active' = [active EXCEPT ![v] = IF e.flag = "keep" THEN @
                                     ELSE e.flag = "revive"]
  /\ numActive' = [numActive EXCEPT ![p] = IF active'[v] THEN @ + 1 ELSE @]

\* The loop visits vertex v: compute is called if it has messages or is
\* active.  Vertices of different threads are visited in any order.
Compute(p, v) ==
  /\ pc[p] = "compute" /\ v \in todo[p]
  /\ todo' = [todo EXCEPT ![p] = @ \ {v}]
  /\ IF message(v) # {} \/ active[v]
     THEN \E e \in Program[v] : RunCompute(p, v, e)
     ELSE UNCHANGED <<haltVars, outVars>>
  /\ UNCHANGED <<pc, ready, ss, sttVars, maskVars, wireVars, inVars, dirOpt>>

\* compute throws: run is left, and iterate prints the exception.
Throw(p, v) ==
  /\ pc[p] = "compute" /\ v \in todo[p] \cap MayThrow
  /\ message(v) # {} \/ active[v]
  /\ pc' = [pc EXCEPT ![p] = "threw"]
  /\ UNCHANGED <<ready, visitVars, haltVars, outVars, sttVars, maskVars,
                 wireVars, inVars, dirOpt>>

\* Mutant: a place that changed no edge skips the exchange of edges.
EndComputeSkipping(p) ==
  /\ pc[p] = "compute" /\ todo[p] = {}
  /\ Proceed(p, "inedge", TRUE)
  /\ ucr' = [ucr EXCEPT ![p] = {}]
  /\ bcr' = [bcr EXCEPT ![p] = {}]
  /\ UNCHANGED <<visitVars, haltVars, outVars, sttVars, maskVars,
                 wireVars, uce, bce, dirOpt>>

\* deleteMessages, sqweezeMessage of every thread, updateOutEdge, and on to the
\* exchange of updateFewInEdge.
EndCompute(p) ==
  /\ pc[p] = "compute" /\ todo[p] = {}
  /\ pc' = [pc EXCEPT ![p] = "inedge"]
  /\ ucr' = [ucr EXCEPT ![p] = {}]
  /\ bcr' = [bcr EXCEPT ![p] = {}]
  /\ UNCHANGED <<ready, visitVars, haltVars, outVars, sttVars, maskVars,
                 wireVars, uce, bce, dirOpt>>

(***************************************************************************)
(* Collectives.  A collective completes when every place is blocked in it. *)
(***************************************************************************)
Joined(c) ==
  /\ \A p \in Place : pc[p] = c /\ ~ready[p]
  /\ ready' = [p \in Place |-> TRUE]

CompleteInEdge ==
  /\ Joined("inedge")
  /\ UNCHANGED <<pc, visitVars, haltVars, outVars, sttVars, maskVars,
                 wireVars, inVars, dirOpt>>

CompleteBcsum ==
  /\ Joined("bcsum")
  /\ LET total == SumFunction(bcsCount)
     IN  dirOpt' = [p \in Place |->
                      IF 0 < total /\ total < DirectionLimit THEN TRUE ELSE FALSE]
  /\ UNCHANGED <<pc, visitVars, haltVars, outVars, sttVars, maskVars,
                 wireVars, inVars>>

CompleteAggregate ==
  /\ Joined("aggregate")
  /\ UNCHANGED <<pc, visitVars, haltVars, outVars, sttVars, maskVars,
                 wireVars, inVars, dirOpt>>

\* Mutant: endCount is left out of the allreduce.
GatherWithoutEnd ==
  /\ Joined("gather")
  /\ recvStt' = [p \in Place |->
        [endCount |-> stt[p].endCount,
         active   |-> \E q \in Place : stt[q].active,
         raw      |-> \E q \in Place : stt[q].raw,
         vertex   |-> \E q \in Place : stt[q].vertex]]
  /\ UNCHANGED <<pc, visitVars, haltVars, outVars, stt, combined, recvCombined,
                 maskVars, wireVars, inVars, dirOpt>>

\* allreduce(stt[0..3], ADD): the sum is positive iff one of the terms is.
CompleteGather ==
  /\ Joined("gather")
  /\ recvStt' = [p \in Place |->
        [endCount |-> \E q \in Place : stt[q].endCount,
         active   |-> \E q \in Place : stt[q].active,
         raw      |-> \E q \in Place : stt[q].raw,
         vertex   |-> \E q \in Place : stt[q].vertex]]
  /\ UNCHANGED <<pc, visitVars, haltVars, outVars, stt, combined, recvCombined,
                 maskVars, wireVars, inVars, dirOpt>>

\* createInEdgesMask: place p learns which of its vertices have an out edge to q
\* from the in-edge lists of q.
CompleteMask ==
  /\ Joined("mask")
  /\ maskMade' = [p \in Place |-> TRUE]
  /\ mask' = [p \in Place |-> [q \in Place |->
                {u \in Local(p) : \E v \in Local(q) : u \in InEdge(v)}]]
  /\ UNCHANGED <<pc, visitVars, haltVars, outVars, sttVars, wireVars,
                 inVars, dirOpt>>

\* allreduce(stt[4..5], ADD).
CompleteStat ==
  /\ Joined("stat")
  /\ recvCombined' = [p \in Place |-> \E q \in Place : combined[q]]
  /\ UNCHANGED <<pc, visitVars, haltVars, outVars, stt, recvStt, combined,
                 maskVars, wireVars, inVars, dirOpt>>

\* alltoall of counts, alltoallv of ids and of messages, sort, makeOffset.
CompleteUnicast ==
  /\ Joined("unicast")
  /\ ucr' = [p \in Place |-> UNION {ucs[q][p] : q \in Place}]
  /\ ucs' = [p \in Place |-> [q \in Place |-> {}]]
  /\ UNCHANGED <<pc, visitVars, haltVars, outVars, sttVars, maskVars, bcs,
                 uce, bce, bcr, dirOpt>>

\* alltoall of counts and of the mask, alltoallv of messages, scan.
CompleteBroadcast ==
  /\ Joined("broadcast")
  /\ bcr' = [p \in Place |-> UNION {bcs[q][p] : q \in Place}]
  /\ bcs' = [p \in Place |-> [q \in Place |-> {}]]
  /\ UNCHANGED <<pc, visitVars, haltVars, outVars, sttVars, maskVars, ucs,
                 uce, bce, ucr, dirOpt>>

(***************************************************************************)
(* What a place does between two collectives.                              *)
(***************************************************************************)
\* The rest of updateFewInEdge, and reInitializeEdgeProvider.
UpdateInEdge(p) ==
  /\ Resumed(p, "inedge")
  /\ Proceed(p, "bcsum", FALSE)
  /\ UNCHANGED <<visitVars, haltVars, outVars, sttVars, maskVars, wireVars,
                 inVars, dirOpt>>

\* Mutant: the broadcasts are sent along the in edges.
DirectionOptimizeBackwards(p) ==
  /\ Resumed(p, "bcsum")
  /\ Proceed(p, "aggregate", ~HasAggregator)
  /\ IF dirOpt[p]
     THEN /\ ucc' = [ucc EXCEPT ![p] = @ \cup UNION
               {{[src |-> b.src, dst |-> v, val |-> b.val, via |-> "bc"] :
                   v \in InEdge(b.src)} : b \in bcc[p]}]
          /\ bcc' = [bcc EXCEPT ![p] = {}]
          /\ bcsCount' = [bcsCount EXCEPT ![p] = 0]
     ELSE UNCHANGED <<outVars>>
  /\ UNCHANGED <<visitVars, haltVars, sttVars, maskVars, wireVars, inVars,
                 dirOpt>>

\* Few broadcasts: they are sent as unicast messages along the out edges.
DirectionOptimize(p) ==
  /\ Resumed(p, "bcsum")
  /\ Proceed(p, "aggregate", ~HasAggregator)
  /\ IF dirOpt[p]
     THEN /\ ucc' = [ucc EXCEPT ![p] = @ \cup UNION
               {{[src |-> b.src, dst |-> v, val |-> b.val, via |-> "bc"] :
                   v \in OutEdge[b.src]} : b \in bcc[p]}]
          /\ bcc' = [bcc EXCEPT ![p] = {}]
          /\ bcsCount' = [bcsCount EXCEPT ![p] = 0]
     ELSE UNCHANGED <<outVars>>
  /\ UNCHANGED <<visitVars, haltVars, sttVars, maskVars, wireVars, inVars,
                 dirOpt>>

\* end(ss, aggVal) and preProcess: the statistics the place contributes.
PreProcess(p) ==
  /\ Resumed(p, "aggregate")
  /\ Proceed(p, "gather", FALSE)
  /\ \E end \in EndChoice :
       stt' = [stt EXCEPT ![p] =
                 [endCount |-> end, active |-> numActive[p] # 0,
                  raw |-> ucc[p] # {}, vertex |-> bcsCount[p] # 0]]
  /\ UNCHANGED <<visitVars, haltVars, outVars, recvStt, combined, recvCombined,
                 maskVars, wireVars, inVars, dirOpt>>

Terminates(s) == s.endCount \/ (~s.active /\ ~s.raw /\ ~s.vertex)

Terminate(p) ==
  /\ Resumed(p, "gather") /\ Terminates(recvStt[p])
  /\ Proceed(p, "done", FALSE)
  /\ UNCHANGED <<visitVars, haltVars, outVars, sttVars, maskVars,
                 wireVars, inVars, dirOpt>>

\* Group the unicast messages by place and combine those with one destination.
Packets(p, q) ==
  LET out == {m \in ucc[p] : Owner[m.dst] = q}
      to(v) == {m \in out : m.dst = v}
  IN  IF HasCombiner
      THEN {[dst |-> v, msgs |-> to(v)] : v \in {m.dst : m \in out}}
      ELSE {[dst |-> m.dst, msgs |-> {m}] : m \in out}

\* Mutant: the unicast buffers are not emptied.
ProcessUnicastKeeping(p) ==
  /\ Resumed(p, "gather") /\ ~Terminates(recvStt[p])
  /\ Proceed(p, "mask", ~recvStt[p].vertex \/ maskMade[p])
  /\ IF recvStt[p].raw
     THEN /\ ucs' = [ucs EXCEPT ![p] = [q \in Place |-> Packets(p, q)]]
          /\ combined' = [combined EXCEPT ![p] = ucc[p] # {}]
     ELSE combined' = [combined EXCEPT ![p] = FALSE] /\ UNCHANGED ucs
  /\ UNCHANGED <<visitVars, haltVars, outVars, stt, recvStt, recvCombined,
                 maskVars, bcs, inVars, dirOpt>>

\* Mutant: the place takes part in creating the mask only if it broadcast.
ProcessUnicastByLocalCount(p) ==
  /\ Resumed(p, "gather") /\ ~Terminates(recvStt[p])
  /\ Proceed(p, "mask", ~stt[p].vertex \/ maskMade[p])
  /\ IF recvStt[p].raw
     THEN /\ ucs' = [ucs EXCEPT ![p] = [q \in Place |-> Packets(p, q)]]
          /\ ucc' = [ucc EXCEPT ![p] = {}]
          /\ combined' = [combined EXCEPT ![p] = ucc[p] # {}]
     ELSE /\ combined' = [combined EXCEPT ![p] = FALSE]
          /\ UNCHANGED <<ucc, ucs>>
  /\ UNCHANGED <<visitVars, haltVars, bcc, bcsCount, stt, recvStt, recvCombined,
                 maskVars, bcs, inVars, dirOpt>>

\* process, up to the collective of createInEdgesMask: processUnicastMessages.
ProcessUnicast(p) ==
  /\ Resumed(p, "gather") /\ ~Terminates(recvStt[p])
  /\ Proceed(p, "mask", ~recvStt[p].vertex \/ maskMade[p])
  /\ IF recvStt[p].raw
     THEN /\ ucs' = [ucs EXCEPT ![p] = [q \in Place |-> Packets(p, q)]]
          /\ ucc' = [ucc EXCEPT ![p] = {}]
          /\ combined' = [combined EXCEPT ![p] = ucc[p] # {}]
     ELSE /\ combined' = [combined EXCEPT ![p] = FALSE]
          /\ UNCHANGED <<ucc, ucs>>
  /\ UNCHANGED <<visitVars, haltVars, bcc, bcsCount, stt, recvStt, recvCombined,
                 maskVars, bcs, inVars, dirOpt>>

\* Mutant: the broadcast buffers are emptied only where something was sent.
ProcessBroadcastKeeping(p) ==
  /\ Resumed(p, "mask")
  /\ Proceed(p, "stat", ~EnableStatistics)
  /\ IF recvStt[p].vertex
     THEN bcs' = [bcs EXCEPT ![p] = [q \in Place |->
                       {b \in bcc[p] : b.src \in mask[p][q]}]]
     ELSE UNCHANGED bcs
  /\ numActive' = [numActive EXCEPT ![p] = 0]
  /\ bcsCount' = [bcsCount EXCEPT ![p] = 0]
  /\ UNCHANGED <<visitVars, active, ucc, bcc, sttVars, maskVars, ucs, inVars,
                 dirOpt>>

\* The rest of process: processBroadcastMessages, and the counters are reset.
ProcessBroadcast(p) ==
  /\ Resumed(p, "mask")
  /\ Proceed(p, "stat", ~EnableStatistics)
  /\ IF recvStt[p].vertex
     THEN /\ bcs' = [bcs EXCEPT ![p] = [q \in Place |->
                       {b \in bcc[p] : b.src \in mask[p][q]}]]
          /\ bcc' = [bcc EXCEPT ![p] = {}]
     ELSE UNCHANGED <<bcc, bcs>>
  /\ numActive' = [numActive EXCEPT ![p] = 0]
  /\ bcsCount' = [bcsCount EXCEPT ![p] = 0]
  /\ UNCHANGED <<visitVars, active, ucc, sttVars, maskVars, ucs, inVars,
                 dirOpt>>

\* Mutant: the place goes by what it sent and not by what the team sent.
BeginExchangeLocally(p) ==
  /\ Resumed(p, "stat")
  /\ uce' = [uce EXCEPT ![p] = combined[p]]
  /\ bce' = [bce EXCEPT ![p] = stt[p].vertex]
  /\ Proceed(p, "unicast", ~recvCombined[p])
  /\ UNCHANGED <<visitVars, haltVars, outVars, sttVars, maskVars,
                 wireVars, ucr, bcr, dirOpt>>

\* exchangeMessages(COMBINED_MESSAGE > 0, VERTEX_MESSAGE > 0) begins.
BeginExchange(p) ==
  /\ Resumed(p, "stat")
  /\ uce' = [uce EXCEPT ![p] = recvCombined[p]]
  /\ bce' = [bce EXCEPT ![p] = recvStt[p].vertex]
  /\ Proceed(p, "unicast", ~recvCombined[p])
  /\ UNCHANGED <<visitVars, haltVars, outVars, sttVars, maskVars,
                 wireVars, ucr, bcr, dirOpt>>

EndUnicast(p) ==
  /\ Resumed(p, "unicast")
  /\ Proceed(p, "broadcast", ~bce[p])
  /\ UNCHANGED <<visitVars, haltVars, outVars, sttVars, maskVars,
                 wireVars, inVars, dirOpt>>

\* The next iteration of the loop, or the exception after the last one.
NextSuperstep(p) ==
  /\ Resumed(p, "broadcast")
  /\ IF ss[p] < MaxSuperstep
     THEN /\ Proceed(p, "compute", FALSE)
          /\ ss' = [ss EXCEPT ![p] = @ + 1]
          /\ todo' = [todo EXCEPT ![p] = Local(p)]
     ELSE /\ Proceed(p, "failed", FALSE)
          /\ UNCHANGED <<visitVars>>
  /\ UNCHANGED <<haltVars, outVars, sttVars, maskVars, wireVars, inVars,
                 dirOpt>>

-----------------------------------------------------------------------------
Collective == \/ CompleteInEdge \/ CompleteBcsum \/ CompleteAggregate \/ CompleteGather
              \/ CompleteMask \/ CompleteStat
              \/ CompleteUnicast \/ CompleteBroadcast

PlaceStep(p) == \/ \E v \in Vertex : Compute(p, v)
                \/ EndCompute(p) \/ UpdateInEdge(p)
                \/ DirectionOptimize(p) \/ PreProcess(p)
                \/ Terminate(p) \/ ProcessUnicast(p) \/ ProcessBroadcast(p)
                \/ BeginExchange(p) \/ EndUnicast(p) \/ NextSuperstep(p)

\* Every place has left run; nothing happens any more.
Finished == /\ \A p \in Place : pc[p] \in {"done", "failed", "threw"}
            /\ UNCHANGED vars

Next == \/ Collective
        \/ \E p \in Place : PlaceStep(p)
        \/ \E p \in Place, v \in Vertex : Throw(p, v)
        \/ Finished

\* A place runs until it blocks, and MPI completes a collective all have joined.
Fairness == WF_vars(Collective) /\ \A p \in Place : WF_vars(PlaceStep(p))

Spec == Init /\ [][Next]_vars
FairSpec == Spec /\ Fairness
-----------------------------------------------------------------------------
(***************************************************************************)
(* Properties.                                                             *)
(***************************************************************************)
Broadcast == [src : Vertex, val : Payload]

ControlType == pc \in [Place -> Stage] /\ ready \in [Place -> BOOLEAN]
VisitType   == ss \in [Place -> Nat] /\ todo \in [Place -> SUBSET Vertex]
HaltType    == active \in [Vertex -> BOOLEAN] /\ numActive \in [Place -> Nat]
OutType     == /\ ucc \in [Place -> SUBSET Message]
               /\ bcc \in [Place -> SUBSET Broadcast]
               /\ bcsCount \in [Place -> Nat]
               /\ dirOpt \in [Place -> BOOLEAN]
SttType     == /\ stt \in [Place -> Statistics] /\ recvStt \in [Place -> Statistics]
               /\ combined \in [Place -> BOOLEAN]
               /\ recvCombined \in [Place -> BOOLEAN]
MaskType    == /\ maskMade \in [Place -> BOOLEAN]
               /\ mask \in [Place -> [Place -> SUBSET Vertex]]
WireType    == /\ ucs \in [Place -> [Place -> SUBSET Packet]]
               /\ bcs \in [Place -> [Place -> SUBSET Broadcast]]
InType      == /\ uce \in [Place -> BOOLEAN] /\ bce \in [Place -> BOOLEAN]
               /\ ucr \in [Place -> SUBSET Packet]
               /\ bcr \in [Place -> SUBSET Broadcast]

\* The type invariant of the engine.
TypeOK == /\ ControlType /\ VisitType /\ HaltType /\ OutType
          /\ SttType /\ MaskType /\ WireType /\ InType

\* Collectives match: two places blocked in collectives are blocked in the same
\* one of the same superstep, although each decides by itself, from its copy of
\* the statistics and from its own mask, which collectives it skips.  Otherwise
\* the team hangs or exchanges the wrong buffers.
Blocked(p) == pc[p] \notin {"compute", "done", "failed", "threw"} /\ ~ready[p]
CollectivesMatch ==
  \A p, q \in Place :
    Blocked(p) /\ Blocked(q) => pc[p] = pc[q] /\ ss[p] = ss[q]

\* No place enters superstep s + 1 while another still computes superstep s, and
\* none gets further ahead: the buffers of the two supersteps never mix.
LockStep ==
  \A p, q \in Place :
    ss[p] > ss[q] => ss[p] = ss[q] + 1 /\ pc[q] # "compute"

\* The send buffers a place fills hold messages of this superstep only, sent by
\* local vertices it has already visited: nothing of an earlier superstep, kept
\* because an exchange was skipped, can be sent again.
NoStaleSend ==
  \A p \in Place : pc[p] = "compute" =>
    \A m \in ucc[p] \cup bcc[p] : m.src \in Local(p) \ todo[p]

\* Every place leaves run, by termination or at the superstep limit, unless
\* compute throws: no order of arrival at the collectives makes the places wait
\* for each other for ever.
RunReturns == <>(\/ \A p \in Place : pc[p] \in {"done", "failed"}
                \/ \E p \in Place : pc[p] = "threw")

\* run returns normally at all places or at none.
AllOrNone ==
  \A p, q \in Place : pc[p] = "done" => pc[q] \notin {"threw", "failed"}

\* When compute throws at a place, iterate prints the exception there and every
\* other place ends up waiting for it in the first collective of that superstep:
\* nothing of the superstep is exchanged, and no place ever returns.
ThrowStopsTeam ==
  \A p \in Place : pc[p] = "threw" ~>
    \A q \in Place : pc[q] = "threw" \/ (pc[q] = "inedge" /\ ~ready[q] /\ ss[q] = ss[p])
-----------------------------------------------------------------------------
(***************************************************************************)
(* Why the collectives match: whatever it is doing, a place has one next   *)
(* gate, the collective (or the end) it will come to next, and that gate   *)
(* is the same for all places.                                             *)
(***************************************************************************)
AfterLast(s) == IF s < MaxSuperstep THEN <<s + 1, "inedge">> ELSE <<s, "failed">>

Gate(p) ==
  LET s == ss[p]
      r == recvStt[p]
      broadcast(bc) == IF bc THEN <<s, "broadcast">> ELSE AfterLast(s)
      exchange == IF recvCombined[p] THEN <<s, "unicast">> ELSE broadcast(r.vertex)
      stat == IF EnableStatistics THEN <<s, "stat">> ELSE exchange
      process == IF r.vertex /\ ~maskMade[p] THEN <<s, "mask">> ELSE stat
  IN IF pc[p] \in {"compute", "threw"} THEN <<s, "inedge">>
     ELSE IF ~ready[p] \/ pc[p] \in {"done", "failed"} THEN <<s, pc[p]>>
     ELSE IF pc[p] = "inedge" THEN <<s, "bcsum">>
     ELSE IF pc[p] = "bcsum" THEN <<s, IF HasAggregator THEN "aggregate" ELSE "gather">>
     ELSE IF pc[p] = "aggregate" THEN <<s, "gather">>
     ELSE IF pc[p] = "gather" THEN (IF Terminates(r) THEN <<s, "done">> ELSE process)
     ELSE IF pc[p] = "mask" THEN stat
     ELSE IF pc[p] = "stat" THEN exchange
     ELSE IF pc[p] = "unicast" THEN broadcast(bce[p])
     ELSE AfterLast(s)

SameGate == \A p, q \in Place : Gate(p) = Gate(q)

ResultsAgree ==
  /\ \A p, q \in Place : recvStt[p] = recvStt[q] /\ maskMade[p] = maskMade[q]
  /\ \A p \in Place : pc[p] = "unicast" => bce[p] = recvStt[p].vertex
  /\ \A p \in Place : pc[p] = "compute" => ~ready[p]

\* The inductive invariant behind CollectivesMatch, LockStep and AllOrNone.
TeamInv == TypeOK /\ SameGate /\ ResultsAgree

\* The inductive invariant behind NoStaleSend: the counters a place contributes
\* say whether its send buffers are empty, so a skipped exchange leaves nothing.
EmptiedAt(p) ==
  /\ todo[p] \subseteq Local(p)
  /\ pc[p] = "compute" =>
       \A m \in ucc[p] \cup bcc[p] : m.src \in Local(p) \ todo[p]
  /\ pc[p] \in {"compute", "inedge", "bcsum", "aggregate", "gather", "mask"} /\ bcc[p] # {}
       => bcsCount[p] # 0
  /\ pc[p] = "gather" => /\ stt[p].raw = (ucc[p] # {})
                         /\ stt[p].vertex = (bcsCount[p] # 0)
  /\ pc[p] = "gather" /\ ready[p] => recvStt[p].raw \/ ucc[p] = {}
  /\ (pc[p] = "gather" /\ ready[p]) \/ pc[p] = "mask"
       => recvStt[p].vertex \/ bcc[p] = {}
  /\ pc[p] \in {"mask", "stat", "unicast", "broadcast"} => ucc[p] = {}
  /\ pc[p] \in {"stat", "unicast", "broadcast"} => bcc[p] = {}
Emptied == \A p \in Place : EmptiedAt(p)
SendInv == TypeOK /\ Emptied
=============================================================================
