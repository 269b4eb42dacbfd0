---------------------------- MODULE XPregelProofs -----------------------------
(***************************************************************************)
(* What holds of the engine for every team, graph, program and limit, and  *)
(* that it implements Supersteps.                                          *)
(***************************************************************************)
EXTENDS XPregelRefinement, TLAPS

-----------------------------------------------------------------------------
(***************************************************************************)
(* Types.  A step leaves most groups of variables alone.                   *)
(***************************************************************************)
LEMMA Untouched ==
  /\ VisitType /\ UNCHANGED visitVars => VisitType'
  /\ HaltType /\ UNCHANGED haltVars => HaltType'
  /\ OutType /\ UNCHANGED <<outVars, dirOpt>> => OutType'
  /\ SttType /\ UNCHANGED sttVars => SttType'
  /\ MaskType /\ UNCHANGED maskVars => MaskType'
  /\ WireType /\ UNCHANGED wireVars => WireType'
  /\ InType /\ UNCHANGED inVars => InType'
BY DEF visitVars, haltVars, outVars, sttVars, maskVars, wireVars, inVars,
       VisitType, HaltType, OutType, SttType, MaskType, WireType, InType

LEMMA ProceedType ==
  ASSUME ControlType, NEW p \in Place, NEW c \in Stage, NEW skip \in BOOLEAN,
         Proceed(p, c, skip)
  PROVE  ControlType'
BY DEF Proceed, ControlType

LEMMA JoinedType ==
  ASSUME ControlType, NEW c, Joined(c), UNCHANGED pc
  PROVE  ControlType'
BY DEF Joined, ControlType

\* What a compute call adds to the send buffers are messages.
LEMMA EffectType ==
  ASSUME NEW v \in Vertex, NEW e \in Program[v]
  PROVE  /\ Len(e.bc) \in Nat
         /\ {[src |-> v, dst |-> m[1], val |-> m[2], via |-> "uc"] : m \in e.uc}
              \in SUBSET Message
         /\ e.bc # <<>> => [src |-> v, val |-> e.bc[Len(e.bc)]] \in Broadcast
<1>1. e \in Effect
  BY ProgramAssumption
<1>2. e.uc \in SUBSET (Vertex \X Payload) /\ e.bc \in Seq(Payload)
  BY <1>1 DEF Effect
<1>3. \A m \in e.uc : m[1] \in Vertex /\ m[2] \in Payload
  BY <1>2
<1>4. e.bc # <<>> => e.bc[Len(e.bc)] \in Payload
  BY <1>2
<1> QED
  BY <1>2, <1>3, <1>4 DEF Message, Broadcast

LEMMA PacketsType ==
  ASSUME OutType, NEW p \in Place, NEW q \in Place
  PROVE  Packets(p, q) \in SUBSET Packet
<1>1. \A m \in ucc[p] : m \in Message /\ m.dst \in Vertex
  BY DEF OutType, Message
<1> QED
  BY <1>1 DEF Packets, Packet

LEMMA InitType == Init => TypeOK
<1> SUFFICES ASSUME Init PROVE TypeOK
  OBVIOUS
<1>1. ControlType /\ VisitType /\ HaltType
  BY DEF Init, ControlType, VisitType, HaltType, Stage, Local
<1>2. OutType /\ SttType /\ MaskType
  BY DEF Init, OutType, SttType, MaskType, Statistics
<1>3. WireType /\ InType
  BY DEF Init, WireType, InType
<1> QED
  BY <1>1, <1>2, <1>3 DEF TypeOK

LEMMA ComputeType ==
  ASSUME TypeOK, NEW p \in Place, NEW v \in Vertex, Compute(p, v)
  PROVE  TypeOK'
<1> USE DEF TypeOK
<1>1. /\ ControlType' /\ VisitType' /\ SttType' /\ MaskType' /\ WireType' /\ InType'
  BY Untouched DEF Compute, ControlType, VisitType
<1>2. HaltType' /\ OutType'
  <2>1. CASE message(v) # {} \/ active[v]
    <3>1. PICK e \in Program[v] : RunCompute(p, v, e)
      BY <2>1 DEF Compute
    <3>2. HaltType'
      <4>1. active' \in [Vertex -> BOOLEAN]
        BY <3>1 DEF RunCompute, HaltType
      <4>2. \/ numActive' = [numActive EXCEPT ![p] = @ + 1]
            \/ numActive' = [numActive EXCEPT ![p] = @]
        BY <3>1 DEF RunCompute
      <4> QED
        BY <4>1, <4>2 DEF HaltType
    <3>3. ucc' \in [Place -> SUBSET Message]
      BY <3>1, EffectType DEF RunCompute, OutType
    <3>4. bcc' \in [Place -> SUBSET Broadcast]
      BY <3>1, EffectType DEF RunCompute, OutType
    <3>5. bcsCount' \in [Place -> Nat]
      BY <3>1, EffectType DEF RunCompute, OutType
    <3> QED
      BY <3>2, <3>3, <3>4, <3>5 DEF Compute, OutType
  <2>2. CASE ~(message(v) # {} \/ active[v])
    BY <2>2, Untouched DEF Compute
  <2> QED
    BY <2>1, <2>2
<1> QED
  BY <1>1, <1>2

LEMMA CollectiveType ==
  ASSUME TypeOK, Collective
  PROVE  TypeOK'
<1> USE DEF TypeOK
<1>0. CASE CompleteInEdge
  BY <1>0, Untouched, JoinedType DEF CompleteInEdge
<1>1. CASE CompleteBcsum
  BY <1>1, Untouched, JoinedType DEF CompleteBcsum, outVars, OutType
<1>2. CASE CompleteAggregate
  BY <1>2, Untouched, JoinedType DEF CompleteAggregate
<1>3. CASE CompleteGather
  BY <1>3, Untouched, JoinedType DEF CompleteGather, SttType, Statistics
<1>4. CASE CompleteMask
  BY <1>4, Untouched, JoinedType DEF CompleteMask, MaskType, Local
<1>5. CASE CompleteStat
  BY <1>5, Untouched, JoinedType DEF CompleteStat, SttType
<1>6. CASE CompleteUnicast
  <2>1. WireType' /\ InType'
    BY <1>6 DEF CompleteUnicast, WireType, InType
  <2> QED
    BY <1>6, <2>1, Untouched, JoinedType DEF CompleteUnicast
<1>7. CASE CompleteBroadcast
  <2>1. WireType' /\ InType'
    BY <1>7 DEF CompleteBroadcast, WireType, InType
  <2> QED
    BY <1>7, <2>1, Untouched, JoinedType DEF CompleteBroadcast
<1> QED
  BY <1>0, <1>1, <1>2, <1>3, <1>4, <1>5, <1>6, <1>7 DEF Collective

LEMMA PlaceStepType ==
  ASSUME TypeOK, NEW p \in Place, PlaceStep(p)
  PROVE  TypeOK'
<1> USE DEF TypeOK
<1>0. {"inedge", "bcsum", "aggregate", "gather", "mask", "stat", "unicast", "broadcast",
       "compute", "done", "failed"} \subseteq Stage
  BY DEF Stage
<1>1. ASSUME NEW v \in Vertex, Compute(p, v) PROVE TypeOK'
  BY <1>1, ComputeType
<1>2. CASE EndCompute(p)
  <2>1. ControlType' /\ InType'
    BY <1>2, <1>0 DEF EndCompute, ControlType, InType
  <2> QED
    BY <1>2, <2>1, Untouched DEF EndCompute
<1>3. CASE DirectionOptimize(p)
  <2>1. ControlType'
    BY <1>3, <1>0, ProceedType, OptionAssumption DEF DirectionOptimize
  <2> DEFINE spread == UNION {{[src |-> b.src, dst |-> v, val |-> b.val, via |-> "bc"] :
                                 v \in OutEdge[b.src]} : b \in bcc[p]}
  <2>2. spread \in SUBSET Message
    <3>1. \A b \in bcc[p] : b.src \in Vertex /\ b.val \in Payload
                            /\ OutEdge[b.src] \in SUBSET Vertex
      BY GraphAssumption DEF OutType, Broadcast
    <3> QED
      BY <3>1 DEF Message
  <2>3. \/ ucc' = [ucc EXCEPT ![p] = @ \cup spread]
        \/ ucc' = ucc
    BY <1>3 DEF DirectionOptimize, outVars
  <2> HIDE DEF spread
  <2>4. ucc' \in [Place -> SUBSET Message]
    BY <2>2, <2>3 DEF OutType
  <2>5. OutType'
    BY <1>3, <2>4 DEF DirectionOptimize, OutType, outVars
  <2> QED
    BY <1>3, <2>1, <2>5, Untouched DEF DirectionOptimize
<1>4. CASE PreProcess(p)
  <2>1. ControlType'
    BY <1>4, <1>0, ProceedType DEF PreProcess
  <2>2. PICK end \in EndChoice :
          stt' = [stt EXCEPT ![p] =
                    [endCount |-> end, active |-> numActive[p] # 0,
                     raw |-> ucc[p] # {}, vertex |-> bcsCount[p] # 0]]
    BY <1>4 DEF PreProcess
  <2>3. SttType'
    BY <1>4, <2>2, ProgramAssumption DEF PreProcess, SttType, Statistics
  <2> QED
    BY <1>4, <2>1, <2>3, Untouched DEF PreProcess
<1>5. CASE Terminate(p)
  BY <1>5, <1>0, ProceedType, Untouched DEF Terminate
<1>6. CASE ProcessUnicast(p)
  <2>1. ControlType'
    BY <1>6, <1>0, ProceedType DEF ProcessUnicast, SttType, MaskType, Statistics
  <2>2. SttType'
    BY <1>6 DEF ProcessUnicast, SttType
  <2>3. OutType'
    BY <1>6 DEF ProcessUnicast, OutType, outVars
  <2> DEFINE out == [q \in Place |-> Packets(p, q)]
  <2>4. out \in [Place -> SUBSET Packet]
    BY PacketsType
  <2>5. ucs' = [ucs EXCEPT ![p] = out] \/ ucs' = ucs
    BY <1>6 DEF ProcessUnicast
  <2> HIDE DEF out
  <2>6. WireType'
    BY <1>6, <2>4, <2>5 DEF ProcessUnicast, WireType
  <2> QED
    BY <1>6, <2>1, <2>2, <2>3, <2>6, Untouched DEF ProcessUnicast
<1>7. CASE ProcessBroadcast(p)
  <2>1. ControlType'
    BY <1>7, <1>0, ProceedType, OptionAssumption DEF ProcessBroadcast
  <2>2. HaltType' /\ OutType'
    BY <1>7 DEF ProcessBroadcast, HaltType, OutType
  <2> DEFINE out == [q \in Place |-> {b \in bcc[p] : b.src \in mask[p][q]}]
  <2>3. out \in [Place -> SUBSET Broadcast]
    BY DEF OutType
  <2>4. bcs' = [bcs EXCEPT ![p] = out] \/ bcs' = bcs
    BY <1>7 DEF ProcessBroadcast
  <2> HIDE DEF out
  <2>5. WireType'
    BY <1>7, <2>3, <2>4 DEF ProcessBroadcast, WireType
  <2> QED
    BY <1>7, <2>1, <2>2, <2>5, Untouched DEF ProcessBroadcast
<1>8. CASE BeginExchange(p)
  <2>1. ControlType' /\ InType'
    BY <1>8, <1>0, ProceedType DEF BeginExchange, SttType, Statistics, InType
  <2> QED
    BY <1>8, <2>1, Untouched DEF BeginExchange
<1>9. CASE EndUnicast(p)
  BY <1>9, <1>0, ProceedType, Untouched DEF EndUnicast, InType
<1>10. CASE NextSuperstep(p)
  <2>1. ControlType'
    BY <1>10, <1>0, ProceedType DEF NextSuperstep
  <2>2. VisitType'
    <3>1. \/ UNCHANGED <<ss, todo>>
          \/ /\ ss' = [ss EXCEPT ![p] = @ + 1]
             /\ todo' = [todo EXCEPT ![p] = Local(p)]
      BY <1>10 DEF NextSuperstep, visitVars
    <3>2. Local(p) \in SUBSET Vertex
      BY DEF Local
    <3> QED
      BY <3>1, <3>2 DEF VisitType
  <2> QED
    BY <1>10, <2>1, <2>2, Untouched DEF NextSuperstep
<1>11. CASE UpdateInEdge(p)
  BY <1>11, <1>0, ProceedType, Untouched DEF UpdateInEdge
<1> QED
  BY <1>1, <1>2, <1>3, <1>4, <1>5, <1>6, <1>7, <1>8, <1>9, <1>10, <1>11 DEF PlaceStep

LEMMA NextType ==
  ASSUME TypeOK, [Next]_vars
  PROVE  TypeOK'
<1>1. CASE Collective
  BY <1>1, CollectiveType
<1>2. ASSUME NEW p \in Place, PlaceStep(p) PROVE TypeOK'
  BY <1>2, PlaceStepType
<1>3. ASSUME NEW p \in Place, NEW v \in Vertex, Throw(p, v) PROVE TypeOK'
  BY <1>3, Untouched DEF Throw, TypeOK, ControlType, Stage
<1>4. CASE Finished \/ UNCHANGED vars
  BY <1>4, Untouched DEF Finished, vars, TypeOK, ControlType
<1> QED
  BY <1>1, <1>2, <1>3, <1>4 DEF Next

\* Every variable of the engine keeps its type.
THEOREM TypeCorrect == Spec => []TypeOK
<1> QED
  BY InitType, NextType, PTL DEF Spec

-----------------------------------------------------------------------------
(***************************************************************************)
(* The team stays in step.                                                 *)
(***************************************************************************)
\* The gate of a place depends on the variables of this place only.
LEMMA GateUnchanged ==
  ASSUME NEW p \in Place,
         pc'[p] = pc[p], ready'[p] = ready[p], ss'[p] = ss[p],
         recvStt'[p] = recvStt[p], recvCombined'[p] = recvCombined[p],
         maskMade'[p] = maskMade[p], bce'[p] = bce[p]
  PROVE  Gate(p)' = Gate(p)
BY DEF Gate, Terminates

LEMMA InitTeam == Init => SameGate /\ ResultsAgree
BY DEF Init, SameGate, ResultsAgree, Gate

\* A step of one place, other than a collective, does not move its gate.
LEMMA PlaceStepGate ==
  ASSUME TypeOK, ResultsAgree, EnableStatistics, NEW p \in Place,
         PlaceStep(p) \/ \E v \in Vertex : Throw(p, v)
  PROVE  /\ Gate(p)' = Gate(p)
         /\ \A q \in Place \ {p} : Gate(q)' = Gate(q)
         /\ ResultsAgree'
<1> USE DEF TypeOK, ControlType, VisitType, visitVars, sttVars, maskVars, inVars
<1>1. ASSUME NEW v \in Vertex, Compute(p, v)
      PROVE  Gate(p)' = Gate(p) /\ (\A q \in Place \ {p} : Gate(q)' = Gate(q))
             /\ ResultsAgree'
  <2>1. UNCHANGED <<pc, ready, ss, recvStt, recvCombined, maskMade, bce>>
    BY <1>1 DEF Compute
  <2>2. \A q \in Place : Gate(q)' = Gate(q)
    BY <2>1, GateUnchanged
  <2> QED
    BY <2>1, <2>2 DEF ResultsAgree
<1>2. CASE EndCompute(p)
  BY <1>2 DEF EndCompute, Gate, ResultsAgree
<1>3. CASE DirectionOptimize(p)
  BY <1>3 DEF DirectionOptimize, Resumed, Proceed, Gate, ResultsAgree
<1>4. CASE PreProcess(p)
  BY <1>4 DEF PreProcess, Resumed, Proceed, Gate, ResultsAgree
<1>5. CASE Terminate(p)
  <2>1. /\ ready[p] /\ pc[p] = "gather" /\ Terminates(recvStt[p])
        /\ pc' = [pc EXCEPT ![p] = "done"] /\ ready' = [ready EXCEPT ![p] = FALSE]
        /\ UNCHANGED <<ss, recvStt, recvCombined, maskMade, bce>>
    BY <1>5 DEF Terminate, Resumed, Proceed, outVars, wireVars
  <2>2. Gate(p)' = Gate(p)
    BY <2>1 DEF Gate, Terminates
  <2>3. \A q \in Place \ {p} : Gate(q)' = Gate(q)
    BY <2>1 DEF Gate, Terminates
  <2>4. ResultsAgree'
    BY <2>1 DEF ResultsAgree
  <2> QED
    BY <2>2, <2>3, <2>4
<1>6. CASE ProcessUnicast(p)
  <2>1. /\ pc[p] = "gather" /\ ready[p] /\ ~Terminates(recvStt[p])
        /\ pc' = [pc EXCEPT ![p] = "mask"]
        /\ ready' = [ready EXCEPT ![p] = ~recvStt[p].vertex \/ maskMade[p]]
        /\ UNCHANGED <<ss, recvStt, recvCombined, maskMade, bce>>
    BY <1>6 DEF ProcessUnicast, Resumed, Proceed
  <2>2. Gate(p)' = Gate(p)
    BY <2>1 DEF Gate, Terminates
  <2>3. \A q \in Place \ {p} : Gate(q)' = Gate(q)
    BY <2>1 DEF Gate, Terminates
  <2>4. ResultsAgree'
    BY <2>1 DEF ResultsAgree
  <2> QED
    BY <2>2, <2>3, <2>4
<1>7. CASE ProcessBroadcast(p)
  BY <1>7 DEF ProcessBroadcast, Resumed, Proceed, Gate, ResultsAgree
<1>8. CASE BeginExchange(p)
  BY <1>8 DEF BeginExchange, Resumed, Proceed, Gate, ResultsAgree, InType
<1>9. CASE EndUnicast(p)
  BY <1>9 DEF EndUnicast, Resumed, Proceed, Gate, ResultsAgree
<1>10. CASE NextSuperstep(p)
  <2>1. ResultsAgree'
    BY <1>10 DEF NextSuperstep, Resumed, Proceed, ResultsAgree
  <2>2. \A q \in Place \ {p} : Gate(q)' = Gate(q)
    BY <1>10, GateUnchanged DEF NextSuperstep, Resumed, Proceed
  <2>3. Gate(p) = AfterLast(ss[p])
    BY <1>10 DEF NextSuperstep, Resumed, Gate
  <2>4. Gate(p)' = AfterLast(ss[p])
    <3>1. CASE ss[p] < MaxSuperstep
      BY <1>10, <3>1 DEF NextSuperstep, Resumed, Proceed, Gate, AfterLast
    <3>2. CASE ~(ss[p] < MaxSuperstep)
      BY <1>10, <3>2 DEF NextSuperstep, Resumed, Proceed, Gate, AfterLast
    <3> QED
      BY <3>1, <3>2
  <2> QED
    BY <2>1, <2>2, <2>3, <2>4
<1>11. ASSUME NEW v \in Vertex, Throw(p, v)
      PROVE  Gate(p)' = Gate(p) /\ (\A q \in Place \ {p} : Gate(q)' = Gate(q))
             /\ ResultsAgree'
  <2>1. UNCHANGED <<ready, ss, recvStt, recvCombined, maskMade, bce>>
        /\ pc' = [pc EXCEPT ![p] = "threw"] /\ pc[p] = "compute"
    BY <1>11 DEF Throw
  <2>2. \A q \in Place \ {p} : Gate(q)' = Gate(q)
    BY <2>1, GateUnchanged
  <2>3. Gate(p)' = Gate(p)
    BY <2>1 DEF Gate
  <2> QED
    BY <2>1, <2>2, <2>3 DEF ResultsAgree
<1>12. CASE UpdateInEdge(p)
  BY <1>12 DEF UpdateInEdge, Resumed, Proceed, Gate, ResultsAgree
<1> QED
  BY <1>1, <1>2, <1>3, <1>4, <1>5, <1>6, <1>7, <1>8, <1>9, <1>10, <1>11, <1>12
     DEF PlaceStep

\* When a collective completes, all places are at the same one of the same
\* superstep, and leave it with the same results.
LEMMA CollectiveGate ==
  ASSUME TypeOK, SameGate, ResultsAgree, EnableStatistics, Collective
  PROVE  SameGate' /\ ResultsAgree'
<1> USE DEF visitVars, sttVars, maskVars, inVars
<1>1. ASSUME NEW c \in Stage \ {"compute", "threw"}, Joined(c)
      PROVE  \A p, q \in Place : ss[p] = ss[q]
  BY <1>1 DEF Joined, SameGate, Gate
<1>9. CASE CompleteInEdge
  <2>1. \A p \in Place : Gate(p)' = <<ss[p], "bcsum">>
    BY <1>9 DEF CompleteInEdge, Joined, Gate
  <2>2. ResultsAgree'
    BY <1>9 DEF CompleteInEdge, Joined, ResultsAgree
  <2> QED
    BY <1>1, <1>9, <2>1, <2>2 DEF CompleteInEdge, SameGate, Stage
<1>2. CASE CompleteBcsum
  <2>1. \A p \in Place : Gate(p)' = <<ss[p], IF HasAggregator THEN "aggregate" ELSE "gather">>
    BY <1>2 DEF CompleteBcsum, Joined, Gate
  <2>2. ResultsAgree'
    BY <1>2 DEF CompleteBcsum, Joined, ResultsAgree
  <2> QED
    BY <1>1, <1>2, <2>1, <2>2 DEF CompleteBcsum, SameGate, Stage
<1>3. CASE CompleteAggregate
  <2>1. \A p \in Place : Gate(p)' = <<ss[p], "gather">>
    BY <1>3 DEF CompleteAggregate, Joined, Gate
  <2>2. ResultsAgree'
    BY <1>3 DEF CompleteAggregate, Joined, ResultsAgree
  <2> QED
    BY <1>1, <1>3, <2>1, <2>2 DEF CompleteAggregate, SameGate, Stage
<1>4. CASE CompleteGather
  <2>1. \A p, q \in Place : recvStt'[p] = recvStt'[q]
    BY <1>4 DEF CompleteGather
  <2>2. ResultsAgree'
    BY <1>4, <2>1 DEF CompleteGather, Joined, ResultsAgree
  <2>3. \A p \in Place :
          Gate(p)' = <<ss[p], IF Terminates(recvStt'[p]) THEN "done"
                             ELSE IF recvStt'[p].vertex /\ ~maskMade[p] THEN "mask"
                             ELSE "stat">>
    BY <1>4 DEF CompleteGather, Joined, Gate, Terminates
  <2> QED
    BY <1>1, <1>4, <2>1, <2>2, <2>3 DEF CompleteGather, SameGate, ResultsAgree, Stage
<1>5. CASE CompleteMask
  <2>1. \A p \in Place : Gate(p)' = <<ss[p], "stat">>
    BY <1>5 DEF CompleteMask, Joined, Gate
  <2> QED
    BY <1>1, <1>5, <2>1 DEF CompleteMask, Joined, SameGate, ResultsAgree, Stage
<1>6. CASE CompleteStat
  <2>1. ResultsAgree' /\ \A p, q \in Place : recvCombined'[p] = recvCombined'[q]
    BY <1>6 DEF CompleteStat, Joined, ResultsAgree
  <2>2. \A p \in Place : Gate(p)' = IF recvCombined'[p] THEN <<ss[p], "unicast">>
                                    ELSE IF recvStt[p].vertex THEN <<ss[p], "broadcast">>
                                    ELSE AfterLast(ss[p])
    BY <1>6 DEF CompleteStat, Joined, Gate, AfterLast
  <2> QED
    BY <1>1, <1>6, <2>1, <2>2 DEF CompleteStat, SameGate, ResultsAgree, Stage
<1>7. CASE CompleteUnicast
  <2>1. ResultsAgree'
    BY <1>7 DEF CompleteUnicast, Joined, ResultsAgree
  <2>2. \A p \in Place : Gate(p)' = IF recvStt[p].vertex THEN <<ss[p], "broadcast">>
                                    ELSE AfterLast(ss[p])
    BY <1>7 DEF CompleteUnicast, Joined, Gate, AfterLast, ResultsAgree
  <2> QED
    BY <1>1, <1>7, <2>1, <2>2 DEF CompleteUnicast, SameGate, ResultsAgree, Stage
<1>8. CASE CompleteBroadcast
  <2>1. \A p \in Place : Gate(p)' = AfterLast(ss[p])
    BY <1>8 DEF CompleteBroadcast, Joined, Gate, AfterLast
  <2> QED
    BY <1>1, <1>8, <2>1 DEF CompleteBroadcast, Joined, SameGate, ResultsAgree, Stage
<1> QED
  BY <1>2, <1>3, <1>4, <1>5, <1>6, <1>7, <1>8, <1>9 DEF Collective

LEMMA NextTeam ==
  ASSUME EnableStatistics, TeamInv, [Next]_vars
  PROVE  TeamInv'
<1>0. TypeOK /\ SameGate /\ ResultsAgree
  BY DEF TeamInv
<1>1. TypeOK'
  BY <1>0, NextType
<1>2. CASE Collective
  BY <1>0, <1>1, <1>2, CollectiveGate DEF TeamInv
<1>3. ASSUME NEW p \in Place, PlaceStep(p) \/ \E v \in Vertex : Throw(p, v)
      PROVE  SameGate' /\ ResultsAgree'
  BY <1>0, <1>3, PlaceStepGate DEF SameGate
<1>4. ASSUME Finished \/ UNCHANGED vars PROVE SameGate' /\ ResultsAgree'
  <2>1. \A p \in Place : Gate(p)' = Gate(p)
    BY <1>4, GateUnchanged DEF Finished, vars, visitVars, sttVars, maskVars, inVars
  <2> QED
    BY <1>0, <1>4, <2>1
       DEF Finished, vars, visitVars, sttVars, maskVars, inVars, SameGate, ResultsAgree
<1> QED
  BY <1>1, <1>2, <1>3, <1>4 DEF Next, TeamInv

\* With the statistics enabled, as they are in the code, all places come to the
\* same collectives in the same order.
THEOREM TeamAgrees == EnableStatistics => (Spec => []TeamInv)
<1> SUFFICES ASSUME EnableStatistics PROVE Spec => []TeamInv
  OBVIOUS
<1>1. Init => TeamInv
  BY InitType, InitTeam DEF TeamInv
<1>2. TeamInv /\ [Next]_vars => TeamInv'
  BY NextTeam
<1> QED
  BY <1>1, <1>2, PTL DEF Spec

\* A gate is in this superstep or the next, and in this one while computing.
LEMMA GateSuperstep ==
  ASSUME TypeOK, NEW p \in Place
  PROVE  /\ Gate(p)[1] \in {ss[p], ss[p] + 1}
         /\ pc[p] = "compute" => Gate(p)[1] = ss[p]
BY DEF Gate, AfterLast, TypeOK, VisitType

\* The team never hangs in different collectives.
THEOREM TeamCollectivesMatch == EnableStatistics => (Spec => []CollectivesMatch)
<1> SUFFICES ASSUME EnableStatistics PROVE Spec => []CollectivesMatch
  OBVIOUS
<1>1. TeamInv => CollectivesMatch
  BY DEF TeamInv, SameGate, Gate, CollectivesMatch, Blocked
<1> QED
  BY <1>1, TeamAgrees, PTL

\* No place runs ahead of a place that still computes.
THEOREM TeamLockStep == EnableStatistics => (Spec => []LockStep)
<1> SUFFICES ASSUME EnableStatistics PROVE Spec => []LockStep
  OBVIOUS
<1>1. ASSUME TeamInv PROVE LockStep
  <2> SUFFICES ASSUME NEW p \in Place, NEW q \in Place, ss[p] > ss[q]
               PROVE  ss[p] = ss[q] + 1 /\ pc[q] # "compute"
    BY DEF LockStep
  <2>1. Gate(p)[1] = Gate(q)[1] /\ ss[p] \in Nat /\ ss[q] \in Nat
    BY <1>1 DEF TeamInv, SameGate, TypeOK, VisitType
  <2> QED
    BY <1>1, <2>1, GateSuperstep DEF TeamInv
<1> QED
  BY <1>1, TeamAgrees, PTL

\* run returns at every place or at none.
THEOREM TeamAllOrNone == EnableStatistics => (Spec => []AllOrNone)
<1> SUFFICES ASSUME EnableStatistics PROVE Spec => []AllOrNone
  OBVIOUS
<1>1. TeamInv => AllOrNone
  BY DEF TeamInv, SameGate, Gate, AllOrNone
<1> QED
  BY <1>1, TeamAgrees, PTL

-----------------------------------------------------------------------------
(***************************************************************************)
(* Nothing of an earlier superstep is sent again.                          *)
(***************************************************************************)
LEMMA InitSend == Init => Emptied
BY DEF Init, Emptied, EmptiedAt, Local

\* What EmptiedAt says of a place depends on variables of this place only.
LEMMA EmptiedUnchanged ==
  ASSUME NEW p \in Place, EmptiedAt(p),
         pc'[p] = pc[p], ready'[p] = ready[p], todo'[p] = todo[p],
         ucc'[p] = ucc[p], bcc'[p] = bcc[p], bcsCount'[p] = bcsCount[p],
         stt'[p] = stt[p], recvStt'[p] = recvStt[p]
  PROVE  EmptiedAt(p)'
BY DEF EmptiedAt, Local

LEMMA ComputeSend ==
  ASSUME SendInv, NEW p \in Place, NEW v \in Vertex, Compute(p, v)
  PROVE  Emptied'
<1> USE DEF SendInv, TypeOK, VisitType, OutType, sttVars
<1>0. /\ UNCHANGED <<pc, ready, stt, recvStt>>
      /\ todo' = [todo EXCEPT ![p] = @ \ {v}]
      /\ v \in todo[p] /\ pc[p] = "compute"
  BY DEF Compute
<1>1. EmptiedAt(p) /\ v \in Local(p)
  BY <1>0 DEF Emptied, EmptiedAt
<1>2. CASE message(v) # {} \/ active[v]
  <2>1. PICK e \in Program[v] : RunCompute(p, v, e)
    BY <1>2 DEF Compute
  <2>2. e.bc \in Seq(Payload)
    BY ProgramAssumption DEF Effect
  <2>3. \A q \in Place \ {p} : /\ ucc'[q] = ucc[q] /\ bcc'[q] = bcc[q]
                               /\ bcsCount'[q] = bcsCount[q]
    BY <2>1 DEF RunCompute
  <2>4. /\ \A m \in ucc'[p] : m \in ucc[p] \/ m.src = v
        /\ \A m \in bcc'[p] : m \in bcc[p] \/ m.src = v
    BY <2>1 DEF RunCompute
  <2>5. bcc'[p] # {} => bcsCount'[p] # 0
    <3>1. bcsCount'[p] = bcsCount[p] + Len(e.bc) /\ bcsCount[p] \in Nat
      BY <2>1 DEF RunCompute
    <3>2. CASE e.bc = <<>>
      BY <2>1, <3>1, <3>2, <1>0, <1>1 DEF RunCompute, EmptiedAt
    <3>3. CASE e.bc # <<>>
      <4>1. Len(e.bc) \in Nat /\ Len(e.bc) > 0
        BY <2>2, <3>3
      <4> QED
        BY <3>1, <4>1
    <3> QED
      BY <3>2, <3>3
  <2>6. EmptiedAt(p)'
    BY <1>0, <1>1, <2>4, <2>5 DEF EmptiedAt, Local
  <2> QED
    BY <1>0, <2>3, <2>6, EmptiedUnchanged DEF Emptied
<1>3. CASE ~(message(v) # {} \/ active[v])
  <2>1. UNCHANGED <<ucc, bcc, bcsCount>>
    BY <1>3 DEF Compute, outVars
  <2>2. EmptiedAt(p)'
    BY <1>0, <1>1, <2>1 DEF EmptiedAt, Local
  <2> QED
    BY <1>0, <2>1, <2>2, EmptiedUnchanged DEF Emptied
<1> QED
  BY <1>2, <1>3

LEMMA CollectiveSend ==
  ASSUME SendInv, Collective
  PROVE  Emptied'
<1> USE DEF outVars, visitVars, sttVars
<1> SUFFICES ASSUME NEW p \in Place PROVE EmptiedAt(p)'
  BY DEF Emptied
<1>0. EmptiedAt(p)
  BY DEF SendInv, Emptied
<1>1. CASE CompleteGather
  <2>1. /\ ~recvStt'[p].raw => ~stt[p].raw
        /\ ~recvStt'[p].vertex => ~stt[p].vertex
    BY <1>1 DEF CompleteGather
  <2>2. UNCHANGED <<pc, todo, ucc, bcc, bcsCount, stt>> /\ pc[p] = "gather"
    BY <1>1 DEF CompleteGather, Joined
  <2> QED
    BY <1>0, <2>1, <2>2 DEF EmptiedAt, Local
<1>2. CASE CompleteInEdge \/ CompleteBcsum \/ CompleteAggregate \/ CompleteMask \/ CompleteStat
           \/ CompleteUnicast \/ CompleteBroadcast
  <2>1. UNCHANGED <<pc, todo, ucc, bcc, bcsCount, stt, recvStt>> /\ pc[p] # "gather"
    BY <1>2 DEF CompleteInEdge, CompleteBcsum, CompleteAggregate, CompleteMask, CompleteStat,
                CompleteUnicast, CompleteBroadcast, Joined
  <2> QED
    BY <1>0, <2>1 DEF EmptiedAt, Local
<1> QED
  BY <1>1, <1>2 DEF Collective

LEMMA PlaceStepSend ==
  ASSUME SendInv, NEW p \in Place, PlaceStep(p)
  PROVE  Emptied'
<1> USE DEF visitVars, outVars, sttVars
<1>0. EmptiedAt(p) /\ TypeOK
  BY DEF SendInv, Emptied
<1>1. ASSUME NEW v \in Vertex, Compute(p, v) PROVE Emptied'
  BY <1>1, ComputeSend
<1>2. ASSUME EmptiedAt(p)',
             \A q \in Place \ {p} :
               /\ pc'[q] = pc[q] /\ ready'[q] = ready[q] /\ todo'[q] = todo[q]
               /\ ucc'[q] = ucc[q] /\ bcc'[q] = bcc[q] /\ bcsCount'[q] = bcsCount[q]
               /\ stt'[q] = stt[q] /\ recvStt'[q] = recvStt[q]
      PROVE  Emptied'
  BY <1>2, EmptiedUnchanged DEF SendInv, Emptied
<1> USE <1>0 DEF TypeOK, ControlType, VisitType, OutType, SttType
<1>3. CASE EndCompute(p)
  BY <1>2, <1>3 DEF EndCompute, EmptiedAt, Local
<1>4. CASE DirectionOptimize(p)
  BY <1>2, <1>4 DEF DirectionOptimize, Resumed, Proceed, EmptiedAt, Local
<1>5. CASE PreProcess(p)
  <2>1. /\ stt'[p].raw = (ucc[p] # {})
        /\ stt'[p].vertex = (bcsCount[p] # 0)
        /\ \A q \in Place \ {p} : stt'[q] = stt[q]
    BY <1>5 DEF PreProcess
  <2> QED
    BY <1>2, <1>5, <2>1 DEF PreProcess, Resumed, Proceed, EmptiedAt, Local
<1>6. CASE Terminate(p)
  BY <1>2, <1>6 DEF Terminate, Resumed, Proceed, EmptiedAt, Local
<1>7. CASE ProcessUnicast(p)
  BY <1>2, <1>7 DEF ProcessUnicast, Resumed, Proceed, EmptiedAt, Local
<1>8. CASE ProcessBroadcast(p)
  BY <1>2, <1>8 DEF ProcessBroadcast, Resumed, Proceed, EmptiedAt, Local
<1>9. CASE BeginExchange(p)
  BY <1>2, <1>9 DEF BeginExchange, Resumed, Proceed, EmptiedAt, Local
<1>10. CASE EndUnicast(p)
  BY <1>2, <1>10 DEF EndUnicast, Resumed, Proceed, EmptiedAt, Local
<1>11. CASE NextSuperstep(p)
  BY <1>2, <1>11 DEF NextSuperstep, Resumed, Proceed, EmptiedAt, Local
<1>12. CASE UpdateInEdge(p)
  BY <1>2, <1>12 DEF UpdateInEdge, Resumed, Proceed, EmptiedAt, Local
<1> QED
  BY <1>1, <1>3, <1>4, <1>5, <1>6, <1>7, <1>8, <1>9, <1>10, <1>11,
     <1>12 DEF PlaceStep

LEMMA NextSend ==
  ASSUME SendInv, [Next]_vars
  PROVE  SendInv'
<1>1. TypeOK'
  BY NextType DEF SendInv
<1>2. CASE Collective
  BY <1>1, <1>2, CollectiveSend DEF SendInv
<1>3. ASSUME NEW p \in Place, PlaceStep(p) PROVE Emptied'
  BY <1>3, PlaceStepSend
<1>4. ASSUME NEW p \in Place, NEW v \in Vertex, Throw(p, v) PROVE Emptied'
  <2>1. /\ UNCHANGED <<ready, todo, ucc, bcc, bcsCount, stt, recvStt>>
        /\ pc' = [pc EXCEPT ![p] = "threw"] /\ pc \in [Place -> Stage]
    BY <1>4 DEF Throw, SendInv, TypeOK, ControlType, visitVars, outVars, sttVars
  <2>2. \A q \in Place : EmptiedAt(q)
    BY DEF SendInv, Emptied
  <2>3. EmptiedAt(p)'
    BY <2>1, <2>2 DEF EmptiedAt, Local
  <2> QED
    BY <2>1, <2>2, <2>3, EmptiedUnchanged DEF Emptied
<1>5. ASSUME Finished \/ UNCHANGED vars PROVE Emptied'
  BY <1>5 DEF Finished, vars, SendInv, Emptied, EmptiedAt, Local,
              visitVars, outVars, sttVars
<1> QED
  BY <1>1, <1>2, <1>3, <1>4, <1>5 DEF Next, SendInv

\* The send buffers and the counters agree at every collective.
THEOREM SendCorrect == Spec => []SendInv
<1>1. Init => SendInv
  BY InitType, InitSend DEF SendInv
<1>2. SendInv /\ [Next]_vars => SendInv'
  BY NextSend
<1> QED
  BY <1>1, <1>2, PTL DEF Spec

\* A place that computes holds messages of this superstep only.
THEOREM SendNoStale == Spec => []NoStaleSend
<1>1. SendInv => NoStaleSend
  BY DEF SendInv, Emptied, EmptiedAt, NoStaleSend
<1> QED
  BY <1>1, SendCorrect, PTL

-----------------------------------------------------------------------------
(***************************************************************************)
(* What the buffers of a place hold.                                       *)
(***************************************************************************)
\* PlaceInv says of a place depends on the variables of this place, and its gate.
LEMMA PlaceInvUnchanged ==
  ASSUME NEW p \in Place, PlaceInv(p), Gate(p)' = Gate(p),
         pc'[p] = pc[p], ready'[p] = ready[p], todo'[p] = todo[p],
         numActive'[p] = numActive[p], bcsCount'[p] = bcsCount[p],
         ucc'[p] = ucc[p], bcc'[p] = bcc[p], dirOpt'[p] = dirOpt[p],
         stt'[p] = stt[p], recvStt'[p] = recvStt[p], recvCombined'[p] = recvCombined[p],
         maskMade'[p] = maskMade[p], mask'[p] = mask[p], ucs'[p] = ucs[p], bcs'[p] = bcs[p],
         uce'[p] = uce[p], bce'[p] = bce[p], ucr'[p] = ucr[p], bcr'[p] = bcr[p],
         \A v \in Local(p) : active'[v] = active[v]
  PROVE  PlaceInv(p)'
<1>1. CountedAt(p)'
  BY DEF PlaceInv, CountedAt, Local
<1>2. SentAt(p)' /\ ReceivedAt(p)'
  BY DEF PlaceInv, SentAt, ReceivedAt, Local
<1>3. MaskedAt(p)'
  BY DEF PlaceInv, MaskedAt, Local, InEdge
<1>4. WiredAt(p)' /\ EnabledAt(p)'
  BY DEF PlaceInv, WiredAt, EnabledAt
<1> QED
  BY <1>1, <1>2, <1>3, <1>4 DEF PlaceInv

LEMMA InitPlaceInv == Init => CombinedAsSent /\ SameDirection /\ \A p \in Place : PlaceInv(p)
<1> SUFFICES ASSUME Init PROVE CombinedAsSent /\ SameDirection /\ \A p \in Place : PlaceInv(p)
  OBVIOUS
<1>1. \A p \in Place : Gate(p)[2] = "inedge"
  BY DEF Init, Gate
<1>2. CombinedAsSent /\ SameDirection
  BY <1>1 DEF CombinedAsSent, SameDirection, Init
<1>3. ASSUME NEW p \in Place PROVE PlaceInv(p)
  <2>1. CountedAt(p) /\ SentAt(p)
    BY DEF Init, CountedAt, SentAt, BeforeGather, Local
  <2>2. ReceivedAt(p) /\ MaskedAt(p) /\ WiredAt(p) /\ EnabledAt(p)
    BY DEF Init, ReceivedAt, MaskedAt, WiredAt, EnabledAt
  <2> QED
    BY <2>1, <2>2 DEF PlaceInv
<1> QED
  BY <1>2, <1>3

\* A step of a place keeps what is said of it; the gate stays.
LEMMA PlaceStepKeeps ==
  ASSUME BufferInv, EnableStatistics, NEW p \in Place, PlaceStep(p),
         \A v \in Vertex : ~Compute(p, v)
  PROVE  PlaceInv(p)'
<1> USE DEF TypeOK, ControlType, VisitType, HaltType, OutType, SttType, MaskType, WireType, InType,
        visitVars, haltVars, outVars, sttVars, maskVars, wireVars, inVars, Resumed, Proceed
<1>0. TypeOK /\ PlaceInv(p) /\ EmptiedAt(p) /\ ResultsAgree
  BY DEF BufferInv, TeamInv, SendInv, Emptied
<1>1. Gate(p)' = Gate(p)
  BY <1>0, PlaceStepGate
<1>2. CountedAt(p) /\ SentAt(p) /\ ReceivedAt(p) /\ MaskedAt(p) /\ WiredAt(p) /\ EnabledAt(p)
  BY <1>0 DEF PlaceInv
<1>3. CASE EndCompute(p)
  <2>1. CountedAt(p)'
    BY <1>0, <1>2, <1>3 DEF EndCompute, CountedAt, BeforeGather, Local
  <2>2. SentAt(p)'
    BY <1>0, <1>2, <1>3 DEF EndCompute, SentAt, Local
  <2>3. ReceivedAt(p)'
    BY <1>0, <1>2, <1>3 DEF EndCompute, ReceivedAt
  <2>4. MaskedAt(p)'
    BY <1>0, <1>2, <1>3 DEF EndCompute, MaskedAt, Local, InEdge
  <2>5. WiredAt(p)'
    BY <1>0, <1>1, <1>2, <1>3 DEF EndCompute, WiredAt
  <2>6. EnabledAt(p)'
    BY <1>0, <1>2, <1>3 DEF EndCompute, EnabledAt
  <2> QED
    BY <2>1, <2>2, <2>3, <2>4, <2>5, <2>6 DEF PlaceInv
<1>4. CASE UpdateInEdge(p)
  <2>1. CountedAt(p)'
    BY <1>0, <1>2, <1>4 DEF UpdateInEdge, CountedAt, BeforeGather, Local
  <2>2. SentAt(p)'
    BY <1>0, <1>2, <1>4 DEF UpdateInEdge, SentAt, Local
  <2>3. ReceivedAt(p)'
    BY <1>0, <1>2, <1>4 DEF UpdateInEdge, ReceivedAt
  <2>4. MaskedAt(p)'
    BY <1>0, <1>2, <1>4 DEF UpdateInEdge, MaskedAt, Local, InEdge
  <2>5. WiredAt(p)'
    BY <1>0, <1>1, <1>2, <1>4 DEF UpdateInEdge, WiredAt
  <2>6. EnabledAt(p)'
    BY <1>0, <1>2, <1>4 DEF UpdateInEdge, EnabledAt
  <2> QED
    BY <2>1, <2>2, <2>3, <2>4, <2>5, <2>6 DEF PlaceInv
<1>5. CASE DirectionOptimize(p)
  <2>1. CountedAt(p)'
    BY <1>0, <1>2, <1>5 DEF DirectionOptimize, CountedAt, BeforeGather, Local
  <2>2. SentAt(p)'
    <3>1. pc'[p] = "aggregate" /\ dirOpt' = dirOpt
      BY <1>0, <1>5 DEF DirectionOptimize
    <3>2. CASE dirOpt[p]
      <4>1. bcc'[p] = {}
        BY <1>0, <1>5, <3>2 DEF DirectionOptimize
      <4>2. \A m \in ucc'[p] : m \in ucc[p] \/ \E b \in bcc[p] : m.src = b.src
        <5> DEFINE spread == UNION {{[src |-> b.src, dst |-> v, val |-> b.val, via |-> "bc"] :
                                       v \in OutEdge[b.src]} : b \in bcc[p]}
        <5>1. ucc'[p] = ucc[p] \cup spread
          BY <1>0, <1>5, <3>2 DEF DirectionOptimize
        <5>2. \A m \in spread : \E b \in bcc[p] : m.src = b.src
          OBVIOUS
        <5> HIDE DEF spread
        <5> QED
          BY <5>1, <5>2
      <4> QED
        BY <1>2, <3>1, <3>2, <4>1, <4>2 DEF SentAt, Local
    <3>3. CASE ~dirOpt[p]
      BY <1>0, <1>2, <1>5, <3>1, <3>3 DEF DirectionOptimize, SentAt, Local
    <3> QED
      BY <3>2, <3>3
  <2>3. ReceivedAt(p)'
    BY <1>0, <1>2, <1>5 DEF DirectionOptimize, ReceivedAt
  <2>4. MaskedAt(p)'
    BY <1>0, <1>2, <1>5 DEF DirectionOptimize, MaskedAt, Local, InEdge
  <2>5. WiredAt(p)'
    BY <1>0, <1>1, <1>2, <1>5 DEF DirectionOptimize, WiredAt
  <2>6. EnabledAt(p)'
    BY <1>0, <1>2, <1>5 DEF DirectionOptimize, EnabledAt
  <2> QED
    BY <2>1, <2>2, <2>3, <2>4, <2>5, <2>6 DEF PlaceInv
<1>6. CASE PreProcess(p)
  <2>1. CountedAt(p)'
    BY <1>0, <1>2, <1>6 DEF PreProcess, CountedAt, BeforeGather, Local
  <2>2. SentAt(p)'
    BY <1>0, <1>2, <1>6 DEF PreProcess, SentAt, Local
  <2>3. ReceivedAt(p)'
    BY <1>0, <1>2, <1>6 DEF PreProcess, ReceivedAt
  <2>4. MaskedAt(p)'
    BY <1>0, <1>2, <1>6 DEF PreProcess, MaskedAt, Local, InEdge
  <2>5. WiredAt(p)'
    BY <1>0, <1>1, <1>2, <1>6 DEF PreProcess, WiredAt
  <2>6. EnabledAt(p)'
    BY <1>0, <1>2, <1>6 DEF PreProcess, EnabledAt
  <2> QED
    BY <2>1, <2>2, <2>3, <2>4, <2>5, <2>6 DEF PlaceInv
<1>7. CASE Terminate(p)
  <2>1. CountedAt(p)'
    BY <1>0, <1>2, <1>7 DEF Terminate, CountedAt, BeforeGather, Local
  <2>2. SentAt(p)'
    BY <1>0, <1>2, <1>7 DEF Terminate, SentAt, Local
  <2>3. ReceivedAt(p)'
    BY <1>0, <1>2, <1>7 DEF Terminate, ReceivedAt
  <2>4. MaskedAt(p)'
    BY <1>0, <1>2, <1>7 DEF Terminate, MaskedAt, Local, InEdge
  <2>5. WiredAt(p)'
    BY <1>0, <1>1, <1>2, <1>7 DEF Terminate, WiredAt
  <2>6. EnabledAt(p)'
    BY <1>0, <1>2, <1>7 DEF Terminate, EnabledAt
  <2> QED
    BY <2>1, <2>2, <2>3, <2>4, <2>5, <2>6 DEF PlaceInv
<1>8. CASE ProcessUnicast(p)
  <2>1. CountedAt(p)'
    BY <1>0, <1>2, <1>8 DEF ProcessUnicast, CountedAt, BeforeGather, Local
  <2>2. SentAt(p)'
    BY <1>0, <1>2, <1>8 DEF ProcessUnicast, SentAt, Local
  <2>3. ReceivedAt(p)'
    BY <1>0, <1>2, <1>8 DEF ProcessUnicast, ReceivedAt
  <2>4. MaskedAt(p)'
    BY <1>0, <1>2, <1>8 DEF ProcessUnicast, MaskedAt, Local, InEdge
  <2>5. WiredAt(p)'
    <3>1. Gate(p)[2] \in {"mask", "stat"}
      BY <1>0, <1>8 DEF ProcessUnicast, Gate
    <3> QED
      BY <1>0, <1>1, <1>2, <1>8, <3>1 DEF ProcessUnicast, WiredAt
  <2>6. EnabledAt(p)'
    BY <1>0, <1>2, <1>8 DEF ProcessUnicast, EnabledAt
  <2> QED
    BY <2>1, <2>2, <2>3, <2>4, <2>5, <2>6 DEF PlaceInv
<1>9. CASE ProcessBroadcast(p)
  <2>1. CountedAt(p)'
    BY <1>0, <1>2, <1>9 DEF ProcessBroadcast, CountedAt, BeforeGather, Local
  <2>2. SentAt(p)'
    BY <1>0, <1>2, <1>9 DEF ProcessBroadcast, SentAt, Local
  <2>3. ReceivedAt(p)'
    BY <1>0, <1>2, <1>9 DEF ProcessBroadcast, ReceivedAt
  <2>4. MaskedAt(p)'
    BY <1>0, <1>2, <1>9 DEF ProcessBroadcast, MaskedAt, Local, InEdge
  <2>5. WiredAt(p)'
    <3>1. Gate(p)[2] = "stat"
      BY <1>0, <1>9 DEF ProcessBroadcast, Gate
    <3> QED
      BY <1>0, <1>1, <1>2, <1>9, <3>1 DEF ProcessBroadcast, WiredAt
  <2>6. EnabledAt(p)'
    BY <1>0, <1>2, <1>9 DEF ProcessBroadcast, EnabledAt
  <2> QED
    BY <2>1, <2>2, <2>3, <2>4, <2>5, <2>6 DEF PlaceInv
<1>10. CASE BeginExchange(p)
  <2>1. CountedAt(p)'
    BY <1>0, <1>2, <1>10 DEF BeginExchange, CountedAt, BeforeGather, Local
  <2>2. SentAt(p)'
    BY <1>0, <1>2, <1>10 DEF BeginExchange, SentAt, Local
  <2>3. ReceivedAt(p)'
    BY <1>0, <1>2, <1>10 DEF BeginExchange, ReceivedAt
  <2>4. MaskedAt(p)'
    BY <1>0, <1>2, <1>10 DEF BeginExchange, MaskedAt, Local, InEdge
  <2>5. WiredAt(p)'
    BY <1>0, <1>1, <1>2, <1>10 DEF BeginExchange, WiredAt
  <2>6. EnabledAt(p)'
    BY <1>0, <1>2, <1>10 DEF BeginExchange, EnabledAt
  <2> QED
    BY <2>1, <2>2, <2>3, <2>4, <2>5, <2>6 DEF PlaceInv
<1>11. CASE EndUnicast(p)
  <2>1. CountedAt(p)'
    BY <1>0, <1>2, <1>11 DEF EndUnicast, CountedAt, BeforeGather, Local
  <2>2. SentAt(p)'
    BY <1>0, <1>2, <1>11 DEF EndUnicast, SentAt, Local
  <2>3. ReceivedAt(p)'
    BY <1>0, <1>2, <1>11 DEF EndUnicast, ReceivedAt
  <2>4. MaskedAt(p)'
    BY <1>0, <1>2, <1>11 DEF EndUnicast, MaskedAt, Local, InEdge
  <2>5. WiredAt(p)'
    BY <1>0, <1>1, <1>2, <1>11 DEF EndUnicast, WiredAt
  <2>6. EnabledAt(p)'
    BY <1>0, <1>2, <1>11 DEF EndUnicast, EnabledAt
  <2> QED
    BY <2>1, <2>2, <2>3, <2>4, <2>5, <2>6 DEF PlaceInv
<1>12. CASE NextSuperstep(p)
  <2>1. CountedAt(p)'
    BY <1>0, <1>2, <1>12 DEF NextSuperstep, CountedAt, BeforeGather, Local
  <2>2. SentAt(p)'
    BY <1>0, <1>2, <1>12 DEF NextSuperstep, SentAt, Local, EmptiedAt
  <2>3. ReceivedAt(p)'
    BY <1>0, <1>2, <1>12 DEF NextSuperstep, ReceivedAt
  <2>4. MaskedAt(p)'
    BY <1>0, <1>2, <1>12 DEF NextSuperstep, MaskedAt, Local, InEdge
  <2>5. WiredAt(p)'
    BY <1>0, <1>1, <1>2, <1>12 DEF NextSuperstep, WiredAt
  <2>6. EnabledAt(p)'
    BY <1>0, <1>2, <1>12 DEF NextSuperstep, EnabledAt
  <2> QED
    BY <2>1, <2>2, <2>3, <2>4, <2>5, <2>6 DEF PlaceInv
<1> QED
  BY <1>3, <1>4, <1>5, <1>6, <1>7, <1>8, <1>9, <1>10, <1>11, <1>12 DEF PlaceStep

\* The other places keep theirs.
LEMMA OthersKeep ==
  ASSUME BufferInv, EnableStatistics, NEW p \in Place, NEW q \in Place \ {p},
         PlaceStep(p) \/ \E v \in Vertex : Throw(p, v)
  PROVE  PlaceInv(q)'
<1> USE DEF TypeOK, ControlType, VisitType, HaltType, OutType, SttType, MaskType, WireType, InType,
        visitVars, haltVars, outVars, sttVars, maskVars, wireVars, inVars, Resumed, Proceed
<1>0. TypeOK /\ PlaceInv(q) /\ Gate(q)' = Gate(q) /\ todo[p] \subseteq Local(p)
  BY PlaceStepGate DEF BufferInv, TeamInv, SendInv, Emptied, EmptiedAt
<1>1. ASSUME NEW v \in Vertex, Compute(p, v) PROVE PlaceInv(q)'
  <2>1. v \notin Local(q)
    BY <1>0, <1>1 DEF Compute, Local
  <2>2. \A u \in Local(q) : active'[u] = active[u]
    BY <1>0, <1>1, <2>1 DEF Compute, RunCompute, Local
  <2>3. /\ numActive'[q] = numActive[q] /\ bcsCount'[q] = bcsCount[q]
        /\ ucc'[q] = ucc[q] /\ bcc'[q] = bcc[q]
    BY <1>0, <1>1 DEF Compute, RunCompute
  <2> QED
    BY <1>0, <1>1, <2>2, <2>3, PlaceInvUnchanged DEF Compute
<1>2. ASSUME NEW v \in Vertex, Throw(p, v) PROVE PlaceInv(q)'
  BY <1>0, <1>2, PlaceInvUnchanged DEF Throw
<1>3. CASE EndCompute(p)
  BY <1>0, <1>3, PlaceInvUnchanged DEF EndCompute
<1>4. CASE UpdateInEdge(p)
  BY <1>0, <1>4, PlaceInvUnchanged DEF UpdateInEdge
<1>5. CASE DirectionOptimize(p)
  BY <1>0, <1>5, PlaceInvUnchanged DEF DirectionOptimize
<1>6. CASE PreProcess(p)
  BY <1>0, <1>6, PlaceInvUnchanged DEF PreProcess
<1>7. CASE Terminate(p)
  BY <1>0, <1>7, PlaceInvUnchanged DEF Terminate
<1>8. CASE ProcessUnicast(p)
  BY <1>0, <1>8, PlaceInvUnchanged DEF ProcessUnicast
<1>9. CASE ProcessBroadcast(p)
  BY <1>0, <1>9, PlaceInvUnchanged DEF ProcessBroadcast
<1>10. CASE BeginExchange(p)
  BY <1>0, <1>10, PlaceInvUnchanged DEF BeginExchange
<1>11. CASE EndUnicast(p)
  BY <1>0, <1>11, PlaceInvUnchanged DEF EndUnicast
<1>12. CASE NextSuperstep(p)
  BY <1>0, <1>12, PlaceInvUnchanged DEF NextSuperstep
<1> QED
  BY <1>1, <1>2, <1>3, <1>4, <1>5, <1>6, <1>7, <1>8, <1>9, <1>10, <1>11, <1>12 DEF PlaceStep

\* A visited vertex is counted if it stays active, and what it sends is its own.
LEMMA ComputeKeeps ==
  ASSUME BufferInv, NEW p \in Place, NEW v \in Vertex, Compute(p, v)
  PROVE  PlaceInv(p)'
<1> USE DEF TypeOK, ControlType, VisitType, HaltType, OutType,
        visitVars, haltVars, outVars, sttVars, maskVars, wireVars, inVars
<1>0. TypeOK /\ PlaceInv(p) /\ todo[p] \subseteq Local(p)
  BY DEF BufferInv, TeamInv, SendInv, Emptied, EmptiedAt
<1>1. /\ UNCHANGED <<pc, ready, ss, stt, recvStt, recvCombined, maskMade, mask, ucs, bcs,
                     uce, bce, ucr, bcr, dirOpt>>
      /\ todo'[p] = todo[p] \ {v} /\ v \in todo[p] /\ pc[p] = "compute" /\ v \in Local(p)
  BY <1>0 DEF Compute
<1>2. CountedAt(p) /\ SentAt(p)
  BY <1>0 DEF PlaceInv
<1>3. ReceivedAt(p)' /\ MaskedAt(p)' /\ EnabledAt(p)'
  BY <1>0, <1>1 DEF PlaceInv, ReceivedAt, MaskedAt, EnabledAt, Local, InEdge
<1>4. Gate(p)' = Gate(p)
  BY <1>1, GateUnchanged
<1>5. WiredAt(p)'
  BY <1>0, <1>1, <1>4 DEF PlaceInv, WiredAt
<1>6. CASE message(v) # {} \/ active[v]
  <2>1. PICK e \in Program[v] : RunCompute(p, v, e)
    BY <1>6 DEF Compute
  <2>2. Len(e.bc) \in Nat /\ (e.bc # <<>> => Len(e.bc) # 0)
    BY ProgramAssumption DEF Effect
  <2>3. CountedAt(p)'
    <3>1. /\ active'[v] \in BOOLEAN
          /\ \A u \in Vertex : u # v => active'[u] = active[u]
          /\ numActive'[p] = IF active'[v] THEN numActive[p] + 1 ELSE numActive[p]
          /\ bcsCount'[p] = bcsCount[p] + Len(e.bc)
          /\ bcc'[p] = IF e.bc = <<>> THEN bcc[p]
                       ELSE bcc[p] \cup {[src |-> v, val |-> e.bc[Len(e.bc)]]}
      BY <1>0, <2>1 DEF RunCompute
    <3>2. Local(p)' = Local(p) /\ Local(p) \subseteq Vertex
      BY DEF Local
    <3>3. numActive'[p] # 0 <=> \E u \in Local(p) \ todo'[p] : active'[u]
      <4>1. numActive[p] # 0 <=> \E u \in Local(p) \ todo[p] : active[u]
        BY <1>1, <1>2 DEF CountedAt, BeforeGather
      <4>2. numActive[p] \in Nat
        BY <1>0
      <4>3. \A u : u \in Local(p) \ todo'[p] <=> u = v \/ u \in Local(p) \ todo[p]
        BY <1>1
      <4> QED
        BY <1>1, <3>1, <3>2, <4>1, <4>2, <4>3
    <3>4. bcsCount'[p] # 0 => bcc'[p] # {}
      <4>1. bcsCount[p] # 0 => bcc[p] # {}
        BY <1>1, <1>2 DEF CountedAt, BeforeGather
      <4>2. bcsCount[p] \in Nat
        BY <1>0
      <4>3. CASE e.bc = <<>>
        BY <2>2, <3>1, <4>1, <4>2, <4>3
      <4>4. CASE e.bc # <<>>
        BY <3>1, <4>4
      <4> QED
        BY <4>3, <4>4
    <3> QED
      BY <1>1, <3>2, <3>3, <3>4 DEF CountedAt
  <2>4. SentAt(p)'
    <3>1. \A m \in ucc'[p] : m \in ucc[p] \/ (m.src = v /\ m.via = "uc")
      BY <1>0, <2>1 DEF RunCompute
    <3>2. \A m \in bcc'[p] : m \in bcc[p] \/ m.src = v
      BY <1>0, <2>1 DEF RunCompute
    <3> QED
      BY <1>1, <1>2, <3>1, <3>2 DEF SentAt, Local
  <2> QED
    BY <1>3, <1>5, <2>3, <2>4 DEF PlaceInv
<1>7. CASE ~(message(v) # {} \/ active[v])
  <2>1. UNCHANGED <<active, numActive, ucc, bcc, bcsCount>>
    BY <1>7 DEF Compute
  <2>2. CountedAt(p)'
    BY <1>1, <1>2, <1>7, <2>1 DEF CountedAt, Local
  <2>3. SentAt(p)'
    BY <1>1, <1>2, <2>1 DEF SentAt, Local
  <2> QED
    BY <1>3, <1>5, <2>2, <2>3 DEF PlaceInv
<1> QED
  BY <1>6, <1>7

LEMMA ThrowKeeps ==
  ASSUME BufferInv, EnableStatistics, NEW p \in Place, NEW v \in Vertex, Throw(p, v)
  PROVE  PlaceInv(p)'
<1> USE DEF visitVars, haltVars, outVars, sttVars, maskVars, wireVars, inVars
<1>0. /\ TypeOK /\ PlaceInv(p) /\ Gate(p)' = Gate(p)
  BY PlaceStepGate DEF BufferInv, TeamInv
<1>1. /\ pc'[p] = "threw"
      /\ UNCHANGED <<ready, todo, active, numActive, ucc, bcc, bcsCount, stt, recvStt, recvCombined,
                     maskMade, mask, ucs, bcs, uce, bce, ucr, bcr, dirOpt>>
  BY <1>0 DEF Throw, TypeOK, ControlType
<1>2. CountedAt(p)' /\ SentAt(p)' /\ ReceivedAt(p)'
  BY <1>0, <1>1 DEF PlaceInv, CountedAt, SentAt, ReceivedAt, BeforeGather, Local
<1>3. MaskedAt(p)' /\ WiredAt(p)' /\ EnabledAt(p)'
  BY <1>0, <1>1 DEF PlaceInv, MaskedAt, WiredAt, EnabledAt, Local, InEdge
<1> QED
  BY <1>2, <1>3 DEF PlaceInv

\* Before the statistics of combined messages are summed, a place counts what it sent or,
\* once it has grouped it, what it combined.
Sends(p) == IF pc[p] = "gather" THEN ucc[p] # {} ELSE combined[p]

LEMMA TeamStepKeeps ==
  ASSUME BufferInv, EnableStatistics, NEW p \in Place,
         PlaceStep(p) \/ \E v \in Vertex : Throw(p, v)
  PROVE  CombinedAsSent' /\ SameDirection'
<1> USE DEF visitVars, haltVars, outVars, sttVars, maskVars, wireVars, inVars, Resumed, Proceed
<1>0. TypeOK /\ PlaceInv(p) /\ EmptiedAt(p)
  BY DEF BufferInv, TeamInv, SendInv, Emptied
<1>1. \A q \in Place : Gate(q)' = Gate(q) /\ Gate(q) = Gate(p)
  BY PlaceStepGate DEF BufferInv, TeamInv, SameGate
<1>2. recvStt' = recvStt /\ dirOpt' = dirOpt
  BY DEF PlaceStep, Compute, Throw, EndCompute, UpdateInEdge, DirectionOptimize, PreProcess, Terminate,
         ProcessUnicast, ProcessBroadcast, BeginExchange, EndUnicast, NextSuperstep
<1>3. SameDirection'
  BY <1>2 DEF BufferInv, SameDirection
<1>4. SUFFICES ASSUME Gate(p)[2] \in {"mask", "stat"}
               PROVE  \A q \in Place : Sends(q)' <=> Sends(q)
  BY <1>1, <1>2, <1>3 DEF BufferInv, CombinedAsSent, Sends
<1> USE DEF TypeOK, ControlType, OutType, SttType
<1>5. \A q \in Place \ {p} : pc'[q] = pc[q] /\ ucc'[q] = ucc[q] /\ combined'[q] = combined[q]
  BY <1>0 DEF PlaceStep, Compute, RunCompute, Throw, EndCompute, UpdateInEdge, DirectionOptimize,
         PreProcess, Terminate, ProcessUnicast, ProcessBroadcast, BeginExchange, EndUnicast,
         NextSuperstep
<1>6. Sends(p)' <=> Sends(p)
  <2>1. pc[p] \notin {"compute", "done"} /\ (ready[p] => pc[p] \notin {"inedge", "bcsum", "aggregate"})
    BY <1>4 DEF Gate
  <2>2. CASE ProcessUnicast(p)
    BY <1>0, <2>2 DEF ProcessUnicast, Sends, EmptiedAt
  <2>3. CASE Terminate(p)
    BY <1>0, <1>4, <2>3 DEF Terminate, Gate
  <2>4. CASE ProcessBroadcast(p)
    BY <1>0, <2>4 DEF ProcessBroadcast, Sends
  <2>5. CASE BeginExchange(p) \/ EndUnicast(p) \/ NextSuperstep(p)
    BY <1>0, <2>5 DEF BeginExchange, EndUnicast, NextSuperstep, Sends
  <2> QED
    BY <2>1, <2>2, <2>3, <2>4, <2>5
       DEF PlaceStep, Compute, Throw, EndCompute, UpdateInEdge, DirectionOptimize, PreProcess
<1> QED
  BY <1>5, <1>6 DEF Sends

-----------------------------------------------------------------------------
(***************************************************************************)
(* A collective.                                                           *)
(***************************************************************************)
\* One that neither fills nor empties buffers, and is not among those of the exchange.
LEMMA EarlyCollectiveKeeps ==
  ASSUME BufferInv, CompleteInEdge \/ CompleteBcsum \/ CompleteAggregate
  PROVE  CombinedAsSent' /\ SameDirection' /\ \A p \in Place : PlaceInv(p)'
<1> USE DEF visitVars, haltVars, outVars, sttVars, maskVars, wireVars, inVars
<1>1. PICK c \in {"inedge", "bcsum", "aggregate"} : Joined(c)
  BY DEF CompleteInEdge, CompleteBcsum, CompleteAggregate
<1>2. \A p \in Place : pc[p] = c /\ ~ready[p] /\ ready'[p]
  BY <1>1 DEF Joined
<1>3. UNCHANGED <<pc, todo, active, numActive, ucc, bcc, bcsCount, stt, recvStt, maskMade, mask,
                  ucs, bcs, ucr, bcr>>
  BY DEF CompleteInEdge, CompleteBcsum, CompleteAggregate
<1>4. SameDirection'
  <2>1. CASE CompleteBcsum
    BY <2>1 DEF CompleteBcsum, SameDirection
  <2>2. CASE CompleteInEdge \/ CompleteAggregate
    BY <2>2 DEF CompleteInEdge, CompleteAggregate, BufferInv, SameDirection
  <2> QED
    BY <2>1, <2>2
<1>5. \A p \in Place : Gate(p)[2] = c /\ Gate(p)'[2] \in {"bcsum", "aggregate", "gather"}
  BY <1>2, <1>3 DEF Gate
<1>6. CombinedAsSent'
  BY <1>5 DEF CombinedAsSent
<1>7. ASSUME NEW p \in Place PROVE PlaceInv(p)'
  <2>0. PlaceInv(p) /\ pc[p] = c /\ (c = "aggregate" => dirOpt' = dirOpt)
    <3>1. c = "aggregate" => ~CompleteBcsum
      BY <1>2 DEF CompleteBcsum, Joined
    <3> QED
      BY <1>2, <3>1 DEF BufferInv, CompleteInEdge, CompleteAggregate
  <2>1. CountedAt(p)' /\ SentAt(p)'
    BY <1>3, <2>0 DEF PlaceInv, CountedAt, SentAt, BeforeGather, Local
  <2>2. ReceivedAt(p)' /\ MaskedAt(p)'
    BY <1>3, <2>0 DEF PlaceInv, ReceivedAt, MaskedAt, Local, InEdge
  <2>3. WiredAt(p)' /\ EnabledAt(p)'
    BY <1>3, <1>5, <2>0 DEF PlaceInv, WiredAt, EnabledAt
  <2> QED
    BY <2>1, <2>2, <2>3 DEF PlaceInv
<1> QED
  BY <1>4, <1>6, <1>7

LEMMA GatherKeeps ==
  ASSUME BufferInv, CompleteGather
  PROVE  CombinedAsSent' /\ SameDirection' /\ \A p \in Place : PlaceInv(p)'
<1> USE DEF visitVars, haltVars, outVars, sttVars, maskVars, wireVars, inVars
<1>1. \A p \in Place : pc[p] = "gather" /\ ~ready[p] /\ ready'[p]
  BY DEF CompleteGather, Joined
<1>2. UNCHANGED <<pc, todo, active, numActive, ucc, bcc, bcsCount, stt, maskMade, mask,
                  ucs, bcs, ucr, bcr, dirOpt, recvCombined, combined>>
  BY DEF CompleteGather
<1>3. \A p \in Place : PlaceInv(p) /\ EmptiedAt(p)
  BY DEF BufferInv, SendInv, Emptied
<1>4. SameDirection'
  BY <1>2 DEF BufferInv, SameDirection
<1>5. CombinedAsSent'
  <2>1. \A p \in Place : recvStt'[p].raw <=> \E q \in Place : stt[q].raw
    BY DEF CompleteGather
  <2>2. \A q \in Place : stt[q].raw = (ucc[q] # {})
    BY <1>1, <1>3 DEF EmptiedAt
  <2> QED
    BY <1>1, <1>2, <2>1, <2>2 DEF CombinedAsSent
<1>6. ASSUME NEW p \in Place PROVE PlaceInv(p)'
  <2>1. CountedAt(p)' /\ SentAt(p)'
    BY <1>1, <1>2, <1>3 DEF PlaceInv, CountedAt, SentAt, BeforeGather, Local
  <2>2. ReceivedAt(p)' /\ MaskedAt(p)' /\ EnabledAt(p)'
    BY <1>1, <1>2, <1>3 DEF PlaceInv, ReceivedAt, MaskedAt, EnabledAt, Local, InEdge
  <2>3. Gate(p)[2] = "gather"
    BY <1>1 DEF Gate
  <2>4. WiredAt(p)'
    BY <1>1, <1>2, <1>3, <2>3 DEF PlaceInv, WiredAt
  <2> QED
    BY <2>1, <2>2, <2>4 DEF PlaceInv
<1> QED
  BY <1>4, <1>5, <1>6

LEMMA MaskKeeps ==
  ASSUME BufferInv, CompleteMask, EnableStatistics
  PROVE  CombinedAsSent' /\ SameDirection' /\ \A p \in Place : PlaceInv(p)'
<1> USE DEF visitVars, haltVars, outVars, sttVars, maskVars, wireVars, inVars
<1>1. \A p \in Place : pc[p] = "mask" /\ ~ready[p] /\ ready'[p]
  BY DEF CompleteMask, Joined
<1>2. UNCHANGED <<pc, todo, active, numActive, ucc, bcc, bcsCount, stt, recvStt,
                  ucs, bcs, ucr, bcr, dirOpt, recvCombined, combined, uce, bce>>
  BY DEF CompleteMask
<1>3. \A p \in Place : PlaceInv(p)
  BY DEF BufferInv
<1>4. \A p \in Place : Gate(p)[2] = "mask" /\ Gate(p)'[2] = "stat"
  BY <1>1, <1>2 DEF Gate
<1>5. SameDirection' /\ CombinedAsSent'
  BY <1>2, <1>4 DEF BufferInv, SameDirection, CombinedAsSent
<1>6. ASSUME NEW p \in Place PROVE PlaceInv(p)'
  <2>1. CountedAt(p)' /\ SentAt(p)'
    BY <1>1, <1>2, <1>3 DEF PlaceInv, CountedAt, SentAt, BeforeGather, Local
  <2>2. ReceivedAt(p)' /\ EnabledAt(p)'
    BY <1>1, <1>2, <1>3 DEF PlaceInv, ReceivedAt, EnabledAt
  <2>3. MaskedAt(p)'
    BY DEF CompleteMask, MaskedAt, Local, InEdge
  <2>4. WiredAt(p)'
    BY <1>2, <1>3, <1>4 DEF PlaceInv, WiredAt
  <2> QED
    BY <2>1, <2>2, <2>3, <2>4 DEF PlaceInv
<1> QED
  BY <1>5, <1>6

LEMMA StatKeeps ==
  ASSUME BufferInv, CompleteStat
  PROVE  CombinedAsSent' /\ SameDirection' /\ \A p \in Place : PlaceInv(p)'
<1> USE DEF visitVars, haltVars, outVars, sttVars, maskVars, wireVars, inVars
<1>1. \A p \in Place : pc[p] = "stat" /\ ~ready[p] /\ ready'[p]
  BY DEF CompleteStat, Joined
<1>2. UNCHANGED <<pc, ss, todo, active, numActive, ucc, bcc, bcsCount, stt, recvStt, maskMade, mask,
                  ucs, bcs, ucr, bcr, dirOpt, combined, uce, bce>>
  BY DEF CompleteStat
<1>3. \A p \in Place : PlaceInv(p) /\ recvStt[p] \in Statistics
  BY DEF BufferInv, TeamInv, TypeOK, SttType
<1>4. \A p \in Place : recvCombined'[p] = recvStt[p].raw
  <2>1. \A p \in Place : recvStt[p].raw <=> \E q \in Place : combined[q]
    BY <1>1 DEF BufferInv, CombinedAsSent, Gate
  <2>2. \A p \in Place : recvCombined'[p] = \E q \in Place : combined[q]
    BY DEF CompleteStat
  <2>3. \A p \in Place : recvStt[p].raw \in BOOLEAN
    BY <1>3 DEF Statistics
  <2> QED
    BY <2>1, <2>2, <2>3
<1>5. \A p \in Place : Gate(p)'[2] = IF recvStt[p].raw THEN "unicast"
                                     ELSE IF recvStt[p].vertex THEN "broadcast"
                                     ELSE AfterLast(ss[p])[2]
  BY <1>1, <1>2, <1>4 DEF Gate, AfterLast
<1>6. SameDirection' /\ CombinedAsSent'
  BY <1>2, <1>5 DEF BufferInv, SameDirection, CombinedAsSent, AfterLast
<1>7. ASSUME NEW p \in Place PROVE PlaceInv(p)'
  <2>1. CountedAt(p)' /\ SentAt(p)'
    BY <1>1, <1>2, <1>3 DEF PlaceInv, CountedAt, SentAt, BeforeGather, Local
  <2>2. ReceivedAt(p)' /\ MaskedAt(p)'
    BY <1>1, <1>2, <1>3 DEF PlaceInv, ReceivedAt, MaskedAt, Local, InEdge
  <2>3. EnabledAt(p)'
    BY <1>1, <1>2, <1>4 DEF EnabledAt
  <2>4. WiredAt(p)'
    BY <1>2, <1>3, <1>5 DEF PlaceInv, WiredAt
  <2> QED
    BY <2>1, <2>2, <2>3, <2>4 DEF PlaceInv
<1> QED
  BY <1>6, <1>7

LEMMA ExchangeKeeps ==
  ASSUME BufferInv, CompleteUnicast \/ CompleteBroadcast
  PROVE  CombinedAsSent' /\ SameDirection' /\ \A p \in Place : PlaceInv(p)'
<1> USE DEF visitVars, haltVars, outVars, sttVars, maskVars, wireVars, inVars
<1>1. PICK c \in {"unicast", "broadcast"} :
        /\ \A p \in Place : pc[p] = c /\ ~ready[p] /\ ready'[p]
        /\ c = "unicast" <=> CompleteUnicast
        /\ c = "broadcast" <=> CompleteBroadcast
  <2>1. CompleteUnicast => /\ \A p \in Place : pc[p] = "unicast" /\ ~ready[p] /\ ready'[p]
                           /\ ~CompleteBroadcast
    BY GraphAssumption DEF CompleteUnicast, CompleteBroadcast, Joined
  <2>2. CompleteBroadcast => \A p \in Place : pc[p] = "broadcast" /\ ~ready[p] /\ ready'[p]
    BY DEF CompleteBroadcast, Joined
  <2> QED
    BY <2>1, <2>2
<1>2. UNCHANGED <<pc, ss, todo, active, numActive, ucc, bcc, bcsCount, stt, recvStt, maskMade, mask,
                  dirOpt, combined, recvCombined, uce, bce>>
  BY DEF CompleteUnicast, CompleteBroadcast
<1>3. \A p \in Place : PlaceInv(p)
  BY DEF BufferInv
<1>4. \A p \in Place : bce[p] = recvStt[p].vertex
  BY <1>1, <1>3 DEF PlaceInv, EnabledAt
<1>5. \A p \in Place :
        /\ Gate(p)[2] = c
        /\ Gate(p)'[2] = IF c = "unicast" /\ recvStt[p].vertex THEN "broadcast"
                         ELSE AfterLast(ss[p])[2]
  BY <1>1, <1>2, <1>4 DEF Gate, AfterLast
<1>6. SameDirection' /\ CombinedAsSent'
  BY <1>2, <1>5 DEF BufferInv, SameDirection, CombinedAsSent, AfterLast
<1>7. ASSUME NEW p \in Place PROVE PlaceInv(p)'
  <2>1. CountedAt(p)' /\ SentAt(p)'
    BY <1>1, <1>2, <1>3 DEF PlaceInv, CountedAt, SentAt, BeforeGather, Local
  <2>2. MaskedAt(p)' /\ EnabledAt(p)'
    BY <1>1, <1>2, <1>3 DEF PlaceInv, MaskedAt, EnabledAt, Local, InEdge
  <2>3. CASE CompleteUnicast
    <3>1. ReceivedAt(p)'
      BY <1>1, <1>2, <1>3, <2>3 DEF CompleteUnicast, PlaceInv, ReceivedAt
    <3>2. WiredAt(p)'
      BY <1>1, <1>2, <1>3, <1>5, <2>3 DEF CompleteUnicast, PlaceInv, WiredAt
    <3> QED
      BY <2>1, <2>2, <3>1, <3>2 DEF PlaceInv
  <2>4. CASE CompleteBroadcast
    <3>1. ReceivedAt(p)'
      BY <1>1, <1>2, <1>3, <2>4 DEF CompleteBroadcast, PlaceInv, ReceivedAt
    <3>2. WiredAt(p)'
      BY <1>1, <1>2, <1>3, <1>5, <2>4 DEF CompleteBroadcast, PlaceInv, WiredAt
    <3> QED
      BY <2>1, <2>2, <3>1, <3>2 DEF PlaceInv
  <2> QED
    BY <2>3, <2>4
<1> QED
  BY <1>6, <1>7

LEMMA NextBuffers ==
  ASSUME EnableStatistics, BufferInv, [Next]_vars
  PROVE  BufferInv'
<1>1. TeamInv' /\ SendInv'
  BY NextTeam, NextSend DEF BufferInv
<1>2. CASE Collective
  BY <1>1, <1>2, EarlyCollectiveKeeps, GatherKeeps, MaskKeeps, StatKeeps, ExchangeKeeps
     DEF Collective, BufferInv
<1>3. ASSUME NEW p \in Place, PlaceStep(p) \/ \E v \in Vertex : Throw(p, v)
      PROVE  BufferInv'
  <2>1. PlaceInv(p)'
    <3>1. CASE \E v \in Vertex : Compute(p, v)
      BY <3>1, ComputeKeeps
    <3>2. CASE \E v \in Vertex : Throw(p, v)
      BY <3>2, ThrowKeeps
    <3> QED
      BY <1>3, <3>1, <3>2, PlaceStepKeeps
  <2>2. \A q \in Place \ {p} : PlaceInv(q)'
    BY <1>3, OthersKeep
  <2> QED
    BY <1>1, <1>3, <2>1, <2>2, TeamStepKeeps DEF BufferInv
<1>4. ASSUME Finished \/ UNCHANGED vars PROVE BufferInv'
  <2> USE DEF vars, visitVars, haltVars, outVars, sttVars, maskVars, wireVars, inVars
  <2>1. UNCHANGED vars
    BY <1>4 DEF Finished
  <2>2. \A q \in Place : Gate(q)' = Gate(q)
    BY <2>1, GateUnchanged
  <2>3. CombinedAsSent' /\ SameDirection'
    BY <2>1, <2>2 DEF BufferInv, CombinedAsSent, SameDirection
  <2>4. \A q \in Place : PlaceInv(q)'
    BY <2>1, <2>2, PlaceInvUnchanged DEF BufferInv
  <2> QED
    BY <1>1, <2>3, <2>4 DEF BufferInv
<1> QED
  BY <1>2, <1>3, <1>4 DEF Next

\* What the refinement mapping reads in the buffers is there.
THEOREM BuffersHold == EnableStatistics => (Spec => []BufferInv)
<1> SUFFICES ASSUME EnableStatistics PROVE Spec => []BufferInv
  OBVIOUS
<1>1. Init => BufferInv
  BY InitType, InitTeam, InitSend, InitPlaceInv DEF BufferInv, TeamInv, SendInv
<1>2. BufferInv /\ [Next]_vars => BufferInv'
  BY NextBuffers
<1> QED
  BY <1>1, <1>2, PTL DEF Spec

-----------------------------------------------------------------------------
(***************************************************************************)
(* The state of the abstract machine.                                      *)
(***************************************************************************)
\* The abstract superstep and whether it runs are those of the team's gate.
LEMMA StepOfGate ==
  ASSUME TypeOK, EnableStatistics, NEW p \in Place
  PROVE  /\ StepOf(p) = IF Gate(p)[2] \in {"mask", "stat", "unicast", "broadcast", "failed"}
                        THEN Gate(p)[1] + 1 ELSE Gate(p)[1]
         /\ Ends(p) <=> Gate(p)[2] = "done"
BY DEF TypeOK, ControlType, VisitType, Stage, StepOf, Decided, Gate, AfterLast, Ends

LEMMA StepOfTeam ==
  ASSUME TeamInv, EnableStatistics, NEW p \in Place
  PROVE  stepBar = StepOf(p) /\ (runningBar <=> ~Ends(p))
<1>1. (CHOOSE q \in Place : TRUE) \in Place
  OBVIOUS
<1>2. \A q, r \in Place : StepOf(q) = StepOf(r) /\ (Ends(q) <=> Ends(r))
  BY StepOfGate DEF TeamInv, SameGate
<1> QED
  BY <1>1, <1>2 DEF stepBar, runningBar

LEMMA GateKept ==
  ASSUME TeamInv, TeamInv', EnableStatistics, NEW p \in Place, Gate(p)' = Gate(p)
  PROVE  stepBar' = stepBar /\ runningBar' = runningBar
<1>1. TypeOK /\ TypeOK'
  BY DEF TeamInv
<1>2. (CHOOSE q \in Place : TRUE) \in Place
  OBVIOUS
<1>3. \A q \in Place : Gate(q)' = Gate(q)
  BY DEF TeamInv, SameGate
<1>4. \A q \in Place : StepOf(q)' = StepOf(q) /\ (Ends(q)' <=> Ends(q))
  <2> SUFFICES ASSUME NEW q \in Place PROVE StepOf(q)' = StepOf(q) /\ (Ends(q)' <=> Ends(q))
    OBVIOUS
  <2>1. /\ StepOf(q)' = IF Gate(q)'[2] \in {"mask", "stat", "unicast", "broadcast", "failed"}
                        THEN Gate(q)'[1] + 1 ELSE Gate(q)'[1]
        /\ Ends(q)' <=> Gate(q)'[2] = "done"
    BY <1>1 DEF TypeOK, ControlType, VisitType, Stage, StepOf, Decided, Gate, AfterLast, Ends
  <2> QED
    BY <1>1, <1>3, <2>1, StepOfGate
<1> QED
  BY <1>2, <1>4 DEF stepBar, runningBar

\* Nobody has decided while the team is on its way to the statistics, or at the end.
LEMMA NobodyDecided ==
  ASSUME TeamInv, EnableStatistics, NEW p \in Place, NEW q \in Place,
         Gate(p)[2] \in {"bcsum", "aggregate", "gather", "done"}
  PROVE  ~Decided(q)
BY DEF TeamInv, SameGate, Decided, Gate, AfterLast, TypeOK, ControlType, Stage

LEMMA Stutters ==
  ASSUME stepBar' = stepBar, runningBar' = runningBar, active' = active,
         \A p \in Place : TodoOf(p)' = TodoOf(p) /\ OutboxOf(p)' = OutboxOf(p),
         \A v \in Vertex : InboxOf(v)' = InboxOf(v)
  PROVE  UNCHANGED Promise!vars
BY DEF Promise!vars, todoBar, inboxBar, outboxBar

\* What is coming for v changes only with the buffers it is in.
LEMMA ComingSame ==
  ASSUME NEW v \in Vertex, recvStt' = recvStt,
         ucr'[Owner[v]] = ucr[Owner[v]], bcr'[Owner[v]] = bcr[Owner[v]],
         recvStt[Owner[v]].raw =>
           \A q \in Place : UnicastFrom(q, Owner[v])' = UnicastFrom(q, Owner[v]),
         recvStt[Owner[v]].vertex =>
           \A q \in Place : \A b : b.src \in InEdge(v) =>
             (b \in BroadcastFrom(q, Owner[v])' <=> b \in BroadcastFrom(q, Owner[v]))
  PROVE  Coming(v)' = Coming(v)
<1>1. CASE recvStt[Owner[v]].raw
  <2>1. UNION {UnicastFrom(q, Owner[v])' : q \in Place} = UNION {UnicastFrom(q, Owner[v]) : q \in Place}
    BY <1>1
  <2> QED
    BY <1>1, <2>1 DEF Coming, UnicastFor
<1>2. CASE ~recvStt[Owner[v]].raw /\ recvStt[Owner[v]].vertex
  <2> DEFINE old == {x \in bcr[Owner[v]] \cup UNION {BroadcastFrom(q, Owner[v]) : q \in Place} :
                       x.src \in InEdge(v)}
             new == {x \in bcr'[Owner[v]] \cup UNION {BroadcastFrom(q, Owner[v])' : q \in Place} :
                       x.src \in InEdge(v)}
  <2>1. old = new
    BY <1>2
  <2>2. /\ Coming(v) = {{Bcast(b, v)} : b \in old}
        /\ Coming(v)' = {{Bcast(b, v)} : b \in new}
    BY <1>2 DEF Coming, BroadcastFor, InEdge
  <2> QED
    BY <2>1, <2>2
<1>3. CASE ~recvStt[Owner[v]].raw /\ ~recvStt[Owner[v]].vertex
  BY <1>3 DEF Coming
<1> QED
  BY <1>1, <1>2, <1>3

-----------------------------------------------------------------------------
(***************************************************************************)
(* Steps of a place the abstract machine does not see.                     *)
(***************************************************************************)
\* To the place that ends a superstep nothing else happens before its statistics.
LEMMA BeforeDecision ==
  ASSUME BufferInv, BufferInv', EnableStatistics, NEW p \in Place,
         EndCompute(p) \/ UpdateInEdge(p) \/ DirectionOptimize(p) \/ PreProcess(p)
         \/ Terminate(p) \/ \E v \in Vertex : Throw(p, v)
  PROVE  UNCHANGED Promise!vars
<1> USE DEF visitVars, haltVars, outVars, sttVars, maskVars, wireVars, inVars, Resumed, Proceed
<1>0. /\ TypeOK /\ TeamInv /\ TeamInv' /\ Gate(p)' = Gate(p)
      /\ PlaceInv(p) /\ EmptiedAt(p)
  BY PlaceStepGate DEF BufferInv, TeamInv, SendInv, Emptied, PlaceStep
<1>1. stepBar' = stepBar /\ runningBar' = runningBar
  BY <1>0, GateKept
<1>2. /\ UNCHANGED <<todo, active, recvStt, uce, bce, ucs, bcs>>
      /\ \A q \in Place \ {p} : /\ pc'[q] = pc[q] /\ ready'[q] = ready[q]
                                /\ ucc'[q] = ucc[q] /\ bcc'[q] = bcc[q]
                                /\ ucr'[q] = ucr[q] /\ bcr'[q] = bcr[q]
  BY <1>0 DEF TypeOK, ControlType, OutType, InType,
              EndCompute, UpdateInEdge, DirectionOptimize, PreProcess, Terminate, Throw
<1>3. ~Decided(p) /\ ~Decided(p)'
  BY <1>0 DEF Decided, TypeOK, ControlType,
              EndCompute, UpdateInEdge, DirectionOptimize, PreProcess, Terminate, Throw
<1>4. \A q \in Place : Decided(q)' <=> Decided(q)
  BY <1>2, <1>3 DEF Decided
<1>5. OutboxOf(p)' = OutboxOf(p)
  <2>1. CASE DirectionOptimize(p) /\ dirOpt[p]
    <3> DEFINE spread == UNION {{Bcast(b, v) : v \in OutEdge[b.src]} : b \in bcc[p]}
    <3>1. ucc'[p] = ucc[p] \cup spread /\ bcc'[p] = {}
      BY <1>0, <2>1 DEF DirectionOptimize, Bcast, TypeOK, OutType
    <3>2. OutboxOf(p) = ucc[p] \cup spread
      BY <1>3 DEF OutboxOf
    <3>3. OutboxOf(p)' = ucc'[p] \cup UNION {{Bcast(b, v) : v \in OutEdge[b.src]} : b \in bcc'[p]}
      BY <1>3 DEF OutboxOf, Bcast
    <3> HIDE DEF spread
    <3> QED
      BY <3>1, <3>2, <3>3
  <2>2. CASE ~(DirectionOptimize(p) /\ dirOpt[p])
    <3>1. UNCHANGED <<ucc, bcc>>
      BY <2>2 DEF EndCompute, UpdateInEdge, DirectionOptimize, PreProcess, Terminate, Throw
    <3> QED
      BY <1>3, <3>1 DEF OutboxOf, Bcast
  <2> QED
    BY <2>1, <2>2
<1>6. \A q \in Place : TodoOf(q)' = TodoOf(q) /\ OutboxOf(q)' = OutboxOf(q)
  BY <1>2, <1>4, <1>5 DEF TodoOf, OutboxOf, Local, Bcast
<1>7. ASSUME NEW v \in Vertex PROVE InboxOf(v)' = InboxOf(v)
  <2> DEFINE q == Owner[v]
  <2>0. q \in Place
    BY GraphAssumption
  <2>1. CASE q = p
    <3>1. CASE todo[p] = {}
      BY <1>2, <1>3, <2>1, <3>1 DEF InboxOf
    <3>2. CASE todo[p] # {}
      <4>1. UNCHANGED <<ucr, bcr>>
        BY <1>0, <3>2 DEF EndCompute, UpdateInEdge, DirectionOptimize, PreProcess, Terminate, Throw
      <4> QED
        BY <1>2, <1>3, <2>1, <4>1 DEF InboxOf, message, InEdge
    <3> QED
      BY <3>1, <3>2
  <2>2. CASE q # p /\ ~Decided(q)
    BY <1>2, <1>4, <2>0, <2>2 DEF InboxOf, message, InEdge
  <2>3. CASE q # p /\ Decided(q)
    <3>1. Gate(p)[2] \notin {"bcsum", "aggregate", "gather", "done"}
      BY <1>0, <2>0, <2>3, NobodyDecided
    <3>2. EndCompute(p) \/ \E u \in Vertex : Throw(p, u)
      BY <1>0, <3>1 DEF UpdateInEdge, DirectionOptimize, PreProcess, Terminate, Gate, TypeOK, ControlType
    <3>3. pc[p] = "compute" /\ pc'[p] \in {"inedge", "threw"} /\ UNCHANGED <<ucc, bcc>>
      BY <1>0, <3>2 DEF EndCompute, Throw, TypeOK, ControlType
    <3>4. \A r \in Place : UnicastFrom(r, q)' = UnicastFrom(r, q) /\ BroadcastFrom(r, q)' = BroadcastFrom(r, q)
      BY <1>2, <3>3 DEF UnicastFrom, BroadcastFrom, Packets
    <3>5. Coming(v)' = Coming(v)
      BY <1>2, <2>0, <2>3, <3>4, ComingSame
    <3> QED
      BY <1>4, <2>0, <2>3, <3>5 DEF InboxOf
  <2> QED
    BY <2>1, <2>2, <2>3
<1> QED
  BY <1>1, <1>2, <1>6, <1>7, Stutters

\* Messages on their way stay what they are when a place groups them or moves on.
LEMMA AfterDecision ==
  ASSUME BufferInv, BufferInv', EnableStatistics, NEW p \in Place,
         \/ ProcessUnicast(p) \/ ProcessBroadcast(p) \/ BeginExchange(p) \/ EndUnicast(p)
         \/ (NextSuperstep(p) /\ ~(ss[p] < MaxSuperstep))
  PROVE  UNCHANGED Promise!vars
<1> USE DEF visitVars, haltVars, outVars, sttVars, maskVars, wireVars, inVars, Resumed, Proceed
<1>0. /\ TypeOK /\ TeamInv /\ TeamInv' /\ Gate(p)' = Gate(p)
      /\ PlaceInv(p) /\ EmptiedAt(p)
  BY PlaceStepGate DEF BufferInv, TeamInv, SendInv, Emptied, PlaceStep
<1>1. stepBar' = stepBar /\ runningBar' = runningBar
  BY <1>0, GateKept
<1>2. /\ UNCHANGED <<todo, active, recvStt, ucr, bcr>>
      /\ \A q \in Place \ {p} : /\ pc'[q] = pc[q] /\ ready'[q] = ready[q]
                                /\ ucc'[q] = ucc[q] /\ bcc'[q] = bcc[q]
                                /\ ucs'[q] = ucs[q] /\ bcs'[q] = bcs[q]
                                /\ uce'[q] = uce[q] /\ bce'[q] = bce[q]
  BY <1>0 DEF TypeOK, ControlType, OutType, InType, WireType,
              ProcessUnicast, ProcessBroadcast, BeginExchange, EndUnicast, NextSuperstep
<1>3. Decided(p) /\ Decided(p)'
  BY <1>0 DEF Decided, TypeOK, ControlType,
              ProcessUnicast, ProcessBroadcast, BeginExchange, EndUnicast, NextSuperstep
<1>4. \A q \in Place : Decided(q)' <=> Decided(q)
  BY <1>2, <1>3 DEF Decided
<1>5. \A q \in Place : TodoOf(q)' = TodoOf(q) /\ OutboxOf(q)' = OutboxOf(q)
  BY <1>2, <1>3, <1>4 DEF TodoOf, OutboxOf, Local, Bcast
<1>6. ASSUME NEW q \in Place, NEW v \in Vertex, Owner[v] = q
      PROVE  /\ recvStt[p].raw => UnicastFrom(p, q)' = UnicastFrom(p, q)
             /\ recvStt[p].vertex =>
                  \A b : b.src \in InEdge(v) =>
                    (b \in BroadcastFrom(p, q)' <=> b \in BroadcastFrom(p, q))
  <2>1. CASE ProcessUnicast(p)
    <3>1. pc[p] = "gather" /\ pc'[p] = "mask" /\ UNCHANGED bcc
      BY <1>0, <2>1 DEF ProcessUnicast, TypeOK, ControlType
    <3>2. recvStt[p].raw => ucs'[p][q] = Packets(p, q)
      BY <1>0, <2>1 DEF ProcessUnicast, TypeOK, WireType
    <3> QED
      BY <3>1, <3>2 DEF UnicastFrom, BroadcastFrom
  <2>2. CASE ProcessBroadcast(p)
    <3>1. UnicastFrom(p, q)' = UnicastFrom(p, q)
      BY <1>0, <2>2 DEF ProcessBroadcast, UnicastFrom, TypeOK, ControlType
    <3>2. ASSUME recvStt[p].vertex, NEW b, b.src \in InEdge(v)
          PROVE  b \in BroadcastFrom(p, q)' <=> b \in BroadcastFrom(p, q)
      <4>1. BroadcastFrom(p, q) = bcc[p]
        BY <2>2 DEF ProcessBroadcast, BroadcastFrom
      <4>2. BroadcastFrom(p, q)' = {x \in bcc[p] : x.src \in mask[p][q]}
        BY <1>0, <2>2, <3>2 DEF ProcessBroadcast, BroadcastFrom, TypeOK, ControlType, WireType
      <4>3. b \in bcc[p] => b.src \in Local(p)
        BY <1>0 DEF PlaceInv, SentAt
      <4>4. v \in Local(q)
        BY <1>6 DEF Local
      <4>5. maskMade[p]
        BY <1>0, <2>2, <3>2 DEF ProcessBroadcast, PlaceInv, MaskedAt
      <4>6. b \in bcc[p] => b.src \in mask[p][q]
        BY <1>0, <3>2, <4>3, <4>4, <4>5 DEF PlaceInv, MaskedAt
      <4> QED
        BY <4>1, <4>2, <4>6
    <3> QED
      BY <3>1, <3>2
  <2>3. CASE BeginExchange(p) \/ EndUnicast(p) \/ (NextSuperstep(p) /\ ~(ss[p] < MaxSuperstep))
    <3>1. /\ pc[p] \notin {"gather", "mask"} /\ pc'[p] \notin {"gather", "mask"}
          /\ UNCHANGED <<ucs, bcs>>
      BY <1>0, <2>3 DEF BeginExchange, EndUnicast, NextSuperstep, TypeOK, ControlType
    <3> QED
      BY <3>1 DEF UnicastFrom, BroadcastFrom
  <2> QED
    BY <2>1, <2>2, <2>3
<1>7. ASSUME NEW v \in Vertex PROVE InboxOf(v)' = InboxOf(v)
  <2> DEFINE q == Owner[v]
  <2>0. q \in Place /\ recvStt[q] = recvStt[p]
    BY GraphAssumption DEF BufferInv, TeamInv, ResultsAgree
  <2>1. CASE ~Decided(q)
    BY <1>2, <1>3, <1>4, <2>0, <2>1 DEF InboxOf, message, InEdge
  <2>2. CASE Decided(q)
    <3>1. \A r \in Place \ {p} : UnicastFrom(r, q)' = UnicastFrom(r, q) /\ BroadcastFrom(r, q)' = BroadcastFrom(r, q)
      BY <1>2 DEF UnicastFrom, BroadcastFrom, Packets
    <3>2. /\ recvStt[q].raw => \A r \in Place : UnicastFrom(r, q)' = UnicastFrom(r, q)
          /\ recvStt[q].vertex =>
               \A r \in Place : \A b : b.src \in InEdge(v) =>
                 (b \in BroadcastFrom(r, q)' <=> b \in BroadcastFrom(r, q))
      BY <1>6, <2>0, <3>1
    <3>3. Coming(v)' = Coming(v)
      BY <1>2, <2>0, <3>2, ComingSame
    <3> QED
      BY <1>4, <2>0, <2>2, <3>3 DEF InboxOf
  <2> QED
    BY <2>1, <2>2
<1> QED
  BY <1>1, <1>2, <1>5, <1>7, Stutters

\* A place that enters the next superstep reads what was coming, since nothing is on its
\* way any more.
LEMMA NothingOnItsWay ==
  ASSUME BufferInv, EnableStatistics, NEW p \in Place, Gate(p)[2] = "inedge",
         NEW q \in Place, NEW r \in Place
  PROVE  UnicastFrom(q, r) = {} /\ BroadcastFrom(q, r) = {}
<1>1. Gate(q)[2] = "inedge" /\ TypeOK
  BY DEF BufferInv, TeamInv, SameGate
<1>2. ucs[q][r] = {} /\ bcs[q][r] = {}
  BY <1>1 DEF BufferInv, PlaceInv, WiredAt
<1>3. pc[q] # "gather" /\ pc[q] # "mask"
  BY <1>1 DEF Gate
<1> QED
  BY <1>2, <1>3 DEF UnicastFrom, BroadcastFrom

LEMMA EntersSuperstep ==
  ASSUME BufferInv, BufferInv', EnableStatistics, NEW p \in Place,
         NextSuperstep(p), ss[p] < MaxSuperstep
  PROVE  UNCHANGED Promise!vars
<1> USE DEF visitVars, haltVars, outVars, sttVars, maskVars, wireVars, inVars, Resumed, Proceed
<1>0. /\ TypeOK /\ TeamInv /\ TeamInv' /\ Gate(p)' = Gate(p)
      /\ PlaceInv(p) /\ EmptiedAt(p)
  BY PlaceStepGate DEF BufferInv, TeamInv, SendInv, Emptied, PlaceStep
<1>1. stepBar' = stepBar /\ runningBar' = runningBar
  BY <1>0, GateKept
<1>2. /\ UNCHANGED <<active, ucc, bcc, recvStt, ucs, bcs, uce, bce, ucr, bcr>>
      /\ pc[p] = "broadcast" /\ ready[p] /\ pc'[p] = "compute" /\ todo'[p] = Local(p)
      /\ \A q \in Place \ {p} : pc'[q] = pc[q] /\ ready'[q] = ready[q] /\ todo'[q] = todo[q]
  BY <1>0 DEF NextSuperstep, TypeOK, ControlType, VisitType
<1>3. Decided(p) /\ ~Decided(p)' /\ \A q \in Place \ {p} : Decided(q)' <=> Decided(q)
  BY <1>2 DEF Decided
<1>4. ucc[p] = {} /\ bcc[p] = {}
  BY <1>0, <1>2 DEF EmptiedAt
<1>5. OutboxOf(p) = {} /\ OutboxOf(p)' = {}
  BY <1>2, <1>3, <1>4 DEF OutboxOf
<1>6. \A q \in Place : TodoOf(q)' = TodoOf(q) /\ OutboxOf(q)' = OutboxOf(q)
  BY <1>2, <1>3, <1>5 DEF TodoOf, OutboxOf, Local, Bcast
<1>7. Gate(p)[2] = "inedge"
  BY <1>2 DEF Gate, AfterLast
<1>8. ASSUME NEW v \in Vertex PROVE InboxOf(v)' = InboxOf(v)
  <2> DEFINE q == Owner[v]
  <2>0. q \in Place
    BY GraphAssumption
  <2>1. CASE q = p
    <3>1. /\ UNION {UnicastFrom(r, p) : r \in Place} = {}
          /\ UNION {BroadcastFrom(r, p) : r \in Place} = {}
      BY <1>7, NothingOnItsWay
    <3>2. uce[p] = recvStt[p].raw /\ bce[p] = recvStt[p].vertex
      BY <1>0, <1>2 DEF PlaceInv, EnabledAt
    <3>3. Coming(v) = message(v)
      BY <2>1, <3>1, <3>2 DEF Coming, UnicastFor, BroadcastFor, message, Bcast
    <3>4. message(v)' = message(v)
      BY <1>2 DEF message, InEdge
    <3>5. v \in todo'[p]
      BY <1>2, <2>1 DEF Local
    <3> QED
      BY <1>3, <2>1, <3>3, <3>4, <3>5 DEF InboxOf
  <2>2. CASE q # p
    <3>1. \A r \in Place : UnicastFrom(r, q)' = UnicastFrom(r, q) /\ BroadcastFrom(r, q)' = BroadcastFrom(r, q)
      BY <1>2 DEF UnicastFrom, BroadcastFrom, Packets
    <3>2. Coming(v)' = Coming(v)
      BY <1>2, <3>1, ComingSame
    <3> QED
      BY <1>2, <1>3, <2>0, <2>2, <3>2 DEF InboxOf, message, InEdge
  <2> QED
    BY <2>1, <2>2
<1> QED
  BY <1>1, <1>2, <1>6, <1>8, Stutters

-----------------------------------------------------------------------------
(***************************************************************************)
(* Collectives the abstract machine does not see.                          *)
(***************************************************************************)
\* A collective other than that of the statistics decides nothing.
LEMMA CollectiveDecides ==
  ASSUME TeamInv, UNCHANGED <<pc, ss>>, \A p \in Place : pc[p] # "gather"
  PROVE  /\ stepBar' = stepBar /\ runningBar' = runningBar
         /\ \A p \in Place : Decided(p)' <=> Decided(p)
<1>1. \A p \in Place : Decided(p)' <=> Decided(p)
  BY DEF Decided
<1>2. \A p \in Place : StepOf(p)' = StepOf(p) /\ (Ends(p)' <=> Ends(p))
  BY <1>1 DEF StepOf, Ends
<1>3. (CHOOSE q \in Place : TRUE) \in Place
  BY GraphAssumption
<1> QED
  BY <1>1, <1>2, <1>3 DEF stepBar, runningBar

LEMMA EarlyCollective ==
  ASSUME BufferInv, CompleteInEdge \/ CompleteBcsum \/ CompleteAggregate
  PROVE  UNCHANGED Promise!vars
<1> USE DEF visitVars, haltVars, outVars, sttVars, maskVars, wireVars, inVars
<1>1. /\ UNCHANGED <<pc, ss, todo, active, ucc, bcc>>
      /\ \A p \in Place : pc[p] \in {"inedge", "bcsum", "aggregate"}
  BY DEF CompleteInEdge, CompleteBcsum, CompleteAggregate, Joined
<1>2. /\ stepBar' = stepBar /\ runningBar' = runningBar
      /\ \A p \in Place : Decided(p)' <=> Decided(p)
  BY <1>1, CollectiveDecides DEF BufferInv
<1>3. \A p \in Place : ~Decided(p) /\ todo[p] = {}
  BY <1>1 DEF Decided, BufferInv, PlaceInv, CountedAt
<1>4. \A p \in Place : TodoOf(p)' = TodoOf(p) /\ OutboxOf(p)' = OutboxOf(p)
  BY <1>1, <1>2 DEF TodoOf, OutboxOf, Local, Bcast
<1>5. \A v \in Vertex : InboxOf(v)' = InboxOf(v)
  BY <1>1, <1>2, <1>3, GraphAssumption DEF InboxOf
<1> QED
  BY <1>1, <1>2, <1>4, <1>5, Stutters

LEMMA LateCollective ==
  ASSUME BufferInv, CompleteMask \/ CompleteStat \/ CompleteUnicast \/ CompleteBroadcast
  PROVE  UNCHANGED Promise!vars
<1> USE DEF visitVars, haltVars, outVars, sttVars, maskVars, wireVars, inVars
<1>1. /\ UNCHANGED <<pc, ss, todo, active, ucc, bcc, recvStt>>
      /\ \A p \in Place : pc[p] \in {"mask", "stat", "unicast", "broadcast"}
  BY DEF CompleteMask, CompleteStat, CompleteUnicast, CompleteBroadcast, Joined
<1>2. /\ stepBar' = stepBar /\ runningBar' = runningBar
      /\ \A p \in Place : Decided(p)' <=> Decided(p)
  BY <1>1, CollectiveDecides DEF BufferInv
<1>3. \A p \in Place : Decided(p)
  BY <1>1 DEF Decided
<1>4. \A p \in Place : TodoOf(p)' = TodoOf(p) /\ OutboxOf(p)' = OutboxOf(p)
  BY <1>1, <1>2 DEF TodoOf, OutboxOf, Local, Bcast
<1>5. ASSUME NEW v \in Vertex PROVE Coming(v)' = Coming(v)
  <2> DEFINE q == Owner[v]
  <2>0. q \in Place
    BY GraphAssumption
  <2>1. CASE CompleteMask \/ CompleteStat
    <3>1. UNCHANGED <<ucs, bcs, ucr, bcr>>
      BY <2>1 DEF CompleteMask, CompleteStat
    <3>2. \A r \in Place : UnicastFrom(r, q)' = UnicastFrom(r, q) /\ BroadcastFrom(r, q)' = BroadcastFrom(r, q)
      BY <1>1, <3>1 DEF UnicastFrom, BroadcastFrom, Packets
    <3> QED
      BY <1>1, <3>1, <3>2, ComingSame
  <2>2. CASE CompleteUnicast
    <3>1. \A r \in Place : pc[r] = "unicast" /\ ~ready[r]
      BY <2>2 DEF CompleteUnicast, Joined
    <3>2. ucr[q] = {}
      BY <2>0, <3>1 DEF BufferInv, PlaceInv, ReceivedAt
    <3>3. ucr'[q] = UNION {ucs[r][q] : r \in Place} /\ \A r \in Place : ucs'[r][q] = {}
      BY <2>0, <2>2 DEF CompleteUnicast
    <3>4. \A r \in Place : UnicastFrom(r, q) = ucs[r][q] /\ UnicastFrom(r, q)' = {}
      BY <1>1, <3>1, <3>3 DEF UnicastFrom
    <3>5. ucr'[q] \cup UNION {UnicastFrom(r, q)' : r \in Place}
            = ucr[q] \cup UNION {UnicastFrom(r, q) : r \in Place}
      BY <3>2, <3>3, <3>4
    <3>6. UnicastFor(v)' = UnicastFor(v)
      BY <3>5 DEF UnicastFor
    <3>7. bcr' = bcr /\ bcs' = bcs
      BY <2>2 DEF CompleteUnicast
    <3>8. BroadcastFor(v)' = BroadcastFor(v)
      BY <1>1, <3>7 DEF BroadcastFor, BroadcastFrom, Bcast, InEdge
    <3> QED
      BY <1>1, <3>6, <3>8 DEF Coming
  <2>3. CASE CompleteBroadcast
    <3>1. \A r \in Place : pc[r] = "broadcast" /\ ~ready[r]
      BY <2>3 DEF CompleteBroadcast, Joined
    <3>2. bcr[q] = {}
      BY <2>0, <3>1 DEF BufferInv, PlaceInv, ReceivedAt
    <3>3. bcr'[q] = UNION {bcs[r][q] : r \in Place} /\ \A r \in Place : bcs'[r][q] = {}
      BY <2>0, <2>3 DEF CompleteBroadcast
    <3>4. \A r \in Place : BroadcastFrom(r, q) = bcs[r][q] /\ BroadcastFrom(r, q)' = {}
      BY <1>1, <3>1, <3>3 DEF BroadcastFrom
    <3>5. bcr'[q] \cup UNION {BroadcastFrom(r, q)' : r \in Place}
            = bcr[q] \cup UNION {BroadcastFrom(r, q) : r \in Place}
      BY <3>2, <3>3, <3>4
    <3>6. BroadcastFor(v)' = BroadcastFor(v)
      BY <3>5 DEF BroadcastFor, Bcast, InEdge
    <3>7. ucr' = ucr /\ ucs' = ucs
      BY <2>3 DEF CompleteBroadcast
    <3>8. \A r \in Place : UnicastFrom(r, q)' = UnicastFrom(r, q)
      BY <1>1, <3>1, <3>7 DEF UnicastFrom
    <3>9. UnicastFor(v)' = UnicastFor(v)
      BY <3>7, <3>8 DEF UnicastFor
    <3> QED
      BY <1>1, <3>6, <3>9 DEF Coming
  <2> QED
    BY <2>1, <2>2, <2>3
<1>6. \A v \in Vertex : InboxOf(v)' = InboxOf(v)
  BY <1>2, <1>3, <1>5, GraphAssumption DEF InboxOf
<1> QED
  BY <1>1, <1>2, <1>4, <1>6, Stutters

-----------------------------------------------------------------------------
(***************************************************************************)
(* The steps the abstract machine sees.                                    *)
(***************************************************************************)
LEMMA InitPromise == Init => Promise!Init
<1> SUFFICES ASSUME Init PROVE Promise!Init
  OBVIOUS
<1>1. \A p \in Place : ~Decided(p) /\ ~Ends(p)
  BY DEF Init, Decided, Ends
<1>2. stepBar = 0
  <2>1. (CHOOSE q \in Place : TRUE) \in Place
    BY GraphAssumption
  <2> QED
    BY <1>1, <2>1 DEF stepBar, StepOf, Init
<1>3. todoBar = Vertex
  <2>1. \A p \in Place : TodoOf(p) = {v \in Vertex : Owner[v] = p}
    BY <1>1 DEF TodoOf, Init, Local
  <2> QED
    BY <2>1, GraphAssumption DEF todoBar
<1>4. inboxBar = [v \in Vertex |-> {}]
  BY <1>1, GraphAssumption DEF inboxBar, InboxOf, message, Init
<1>5. outboxBar = {}
  <2>1. \A p \in Place : OutboxOf(p) = {}
    BY <1>1 DEF OutboxOf, Init
  <2> QED
    BY <2>1 DEF outboxBar
<1>6. runningBar
  BY <1>1 DEF runningBar
<1>7. active \in [Vertex -> BOOLEAN]
  BY DEF Init
<1> QED
  BY <1>2, <1>3, <1>4, <1>5, <1>6, <1>7 DEF Promise!Init

\* A call of compute is a visit: what it reads is the inbox of the vertex, and what it
\* sends goes to the outbox.
LEMMA ComputeVisits ==
  ASSUME BufferInv, BufferInv', EnableStatistics, NEW p \in Place, NEW v \in Vertex, Compute(p, v)
  PROVE  Promise!Visit(v)
<1> USE DEF visitVars, haltVars, outVars, sttVars, maskVars, wireVars, inVars
<1>0. /\ TypeOK /\ TeamInv /\ TeamInv' /\ Gate(p)' = Gate(p) /\ EmptiedAt(p)
      /\ \A q \in Place : todo[q] \subseteq Local(q)
  BY PlaceStepGate DEF BufferInv, TeamInv, SendInv, Emptied, EmptiedAt, PlaceStep
<1>1. stepBar' = stepBar /\ runningBar' = runningBar
  BY <1>0, GateKept
<1>2. /\ UNCHANGED <<pc, ready, ss, recvStt, uce, bce, ucs, bcs, ucr, bcr>>
      /\ pc[p] = "compute" /\ v \in todo[p]
      /\ \A q \in Place \ {p} : todo'[q] = todo[q] /\ ucc'[q] = ucc[q] /\ bcc'[q] = bcc[q]
      /\ todo'[p] = todo[p] \ {v}
  BY <1>0 DEF Compute, RunCompute, TypeOK, VisitType, OutType
<1>3. ~Decided(p) /\ ~Decided(p)' /\ \A q \in Place : Decided(q)' <=> Decided(q)
  BY <1>2 DEF Decided
<1>4. Owner[v] = p
  BY <1>0, <1>2 DEF Local
<1>5. runningBar
  <2>1. Gate(p)[2] = "inedge"
    BY <1>2 DEF Gate
  <2>2. \A q \in Place : Gate(q)[2] = "inedge"
    BY <1>0, <2>1 DEF TeamInv, SameGate
  <2> QED
    BY <2>2 DEF runningBar, Ends, Gate
<1>6. /\ \A q \in Place \ {p} : TodoOf(q)' = TodoOf(q) /\ OutboxOf(q)' = OutboxOf(q)
      /\ TodoOf(p) = todo[p] /\ TodoOf(p)' = todo[p] \ {v}
  BY <1>2, <1>3 DEF TodoOf, OutboxOf, Local, Bcast
<1>7. v \in todoBar /\ todoBar' = todoBar \ {v}
  <2>1. \A q \in Place \ {p} : v \notin TodoOf(q)
    BY <1>0, <1>4 DEF TodoOf, Local
  <2> QED
    BY <1>2, <1>6, <2>1 DEF todoBar
<1>8. inboxBar' = [inboxBar EXCEPT ![v] = {}] /\ inboxBar[v] = message(v)
  <2>1. InboxOf(v) = message(v) /\ InboxOf(v)' = {}
    BY <1>2, <1>3, <1>4 DEF InboxOf
  <2>2. ASSUME NEW u \in Vertex, u # v PROVE InboxOf(u)' = InboxOf(u)
    <3> DEFINE q == Owner[u]
    <3>0. q \in Place
      BY GraphAssumption
    <3>1. CASE ~Decided(q)
      <4>1. u \in todo'[q] <=> u \in todo[q]
        BY <1>2, <2>2, <3>0
      <4> QED
        BY <1>2, <1>3, <3>0, <3>1, <4>1 DEF InboxOf, message, InEdge
    <3>2. CASE Decided(q)
      <4>1. \A r \in Place : UnicastFrom(r, q)' = UnicastFrom(r, q) /\ BroadcastFrom(r, q)' = BroadcastFrom(r, q)
        <5>1. ASSUME NEW r \in Place \ {p}
              PROVE  UnicastFrom(r, q)' = UnicastFrom(r, q) /\ BroadcastFrom(r, q)' = BroadcastFrom(r, q)
          <6>1. ucc'[r] = ucc[r] /\ bcc'[r] = bcc[r] /\ pc' = pc /\ ucs' = ucs /\ bcs' = bcs
            BY <1>2
          <6>2. Packets(r, q)' = Packets(r, q)
            BY <6>1 DEF Packets
          <6> QED
            BY <6>1, <6>2 DEF UnicastFrom, BroadcastFrom
        <5>2. UnicastFrom(p, q)' = UnicastFrom(p, q) /\ BroadcastFrom(p, q)' = BroadcastFrom(p, q)
          BY <1>2 DEF UnicastFrom, BroadcastFrom
        <5> QED
          BY <5>1, <5>2
      <4>2. Coming(u)' = Coming(u)
        BY <1>2, <4>1, ComingSame
      <4> QED
        BY <1>3, <3>0, <3>2, <4>2 DEF InboxOf
    <3> QED
      BY <3>1, <3>2
  <2> QED
    BY <2>1, <2>2 DEF inboxBar
<1>9. CASE message(v) # {} \/ active[v]
  <2>1. PICK e \in Program[v] : RunCompute(p, v, e)
    BY <1>9 DEF Compute
  <2>2. active' = [active EXCEPT ![v] = (e.flag = "revive") \/ (e.flag = "keep" /\ @)]
    <3>1. e \in Effect
      BY ProgramAssumption
    <3>2. e.flag = "keep" \/ e.flag = "halt" \/ e.flag = "revive"
      BY <3>1 DEF Effect
    <3>3. active' = [active EXCEPT ![v] = IF e.flag = "keep" THEN active[v] ELSE e.flag = "revive"]
      BY <2>1 DEF RunCompute
    <3>4. (IF e.flag = "keep" THEN active[v] ELSE e.flag = "revive")
            = ((e.flag = "revive") \/ (e.flag = "keep" /\ active[v]))
      BY <1>0, <3>2 DEF TypeOK, HaltType
    <3> QED
      BY <3>3, <3>4
  <2>3. outboxBar' = outboxBar \cup Promise!Sent(v, e)
    <3> DEFINE uc == {[src |-> v, dst |-> m[1], val |-> m[2], via |-> "uc"] : m \in e.uc}
               Spread(b) == {Bcast(b, w) : w \in OutEdge[b.src]}
               bc == IF e.bc = <<>> THEN {}
                     ELSE Spread([src |-> v, val |-> e.bc[Len(e.bc)]])
    <3>1. ucc'[p] = ucc[p] \cup uc
      BY <1>0, <2>1 DEF RunCompute, TypeOK, OutType
    <3>2. bcc'[p] = IF e.bc = <<>> THEN bcc[p] ELSE bcc[p] \cup {[src |-> v, val |-> e.bc[Len(e.bc)]]}
      BY <1>0, <2>1 DEF RunCompute, TypeOK, OutType
    <3>3. UNION {Spread(b) : b \in bcc'[p]} = bc \cup UNION {Spread(b) : b \in bcc[p]}
      <4> HIDE DEF Spread
      <4> QED
        BY <3>2
    <3>4. Promise!Sent(v, e) = uc \cup bc
      BY DEF Promise!Sent, Bcast
    <3>5. /\ OutboxOf(p) = ucc[p] \cup UNION {Spread(b) : b \in bcc[p]}
          /\ OutboxOf(p)' = ucc'[p] \cup UNION {Spread(b) : b \in bcc'[p]}
      BY <1>3 DEF OutboxOf, Bcast
    <3> HIDE DEF uc, bc, Spread
    <3>6. OutboxOf(p)' = OutboxOf(p) \cup (uc \cup bc)
      BY <3>1, <3>3, <3>5
    <3>7. UNION {OutboxOf(q)' : q \in Place} = (UNION {OutboxOf(q) : q \in Place}) \cup (uc \cup bc)
      BY <1>6, <3>6
    <3>8. outboxBar = UNION {OutboxOf(q) : q \in Place} /\ outboxBar' = UNION {OutboxOf(q)' : q \in Place}
      BY <1>1, <1>5 DEF outboxBar
    <3> QED
      BY <3>4, <3>7, <3>8
  <2> QED
    BY <1>1, <1>5, <1>7, <1>8, <1>9, <2>1, <2>2, <2>3 DEF Promise!Visit
<1>10. CASE ~(message(v) # {} \/ active[v])
  <2>1. UNCHANGED <<active, ucc, bcc>>
    BY <1>10 DEF Compute
  <2>2. outboxBar' = outboxBar
    BY <1>1, <1>3, <1>6, <2>1 DEF outboxBar, OutboxOf, Bcast
  <2> QED
    BY <1>1, <1>5, <1>7, <1>8, <1>10, <2>1, <2>2 DEF Promise!Visit
<1> QED
  BY <1>9, <1>10

\* What the allreduce of the statistics says, and of which state it says it.
LEMMA AtGather ==
  ASSUME BufferInv, CompleteGather
  PROVE  /\ UNCHANGED <<pc, ss, todo, active, ucc, bcc, bcsCount, ucs, bcs, ucr, bcr, dirOpt, stt>>
         /\ \A p \in Place : /\ pc[p] = "gather" /\ ~ready[p] /\ ready'[p]
                             /\ todo[p] = {} /\ ~Decided(p) /\ ~Ends(p)
                             /\ ucr[p] = {} /\ bcr[p] = {}
         /\ \A p \in Place :
              /\ recvStt'[p].endCount => TRUE \in EndChoice
              /\ recvStt'[p].active <=> \E v \in Vertex : active[v]
              /\ recvStt'[p].raw <=> \E q \in Place : ucc[q] # {}
              /\ recvStt'[p].vertex <=> \E q \in Place : bcc[q] # {}
<1> USE DEF visitVars, haltVars, outVars, sttVars, maskVars, wireVars, inVars
<1>0. TypeOK /\ \A p \in Place : PlaceInv(p) /\ EmptiedAt(p)
  BY DEF BufferInv, TeamInv, SendInv, Emptied
<1>1. UNCHANGED <<pc, ss, todo, active, ucc, bcc, bcsCount, ucs, bcs, ucr, bcr, dirOpt, stt>>
  BY DEF CompleteGather
<1>2. \A p \in Place : pc[p] = "gather" /\ ~ready[p] /\ ready'[p]
  BY DEF CompleteGather, Joined
<1>3. \A p \in Place : /\ todo[p] = {} /\ ~Decided(p) /\ ~Ends(p)
                       /\ ucr[p] = {} /\ bcr[p] = {}
  BY <1>0, <1>2 DEF Decided, Ends, PlaceInv, CountedAt, ReceivedAt
<1>4. \A p \in Place : /\ stt[p].endCount \in EndChoice
                       /\ stt[p].active <=> \E v \in Local(p) : active[v]
                       /\ stt[p].raw <=> ucc[p] # {}
                       /\ stt[p].vertex <=> bcc[p] # {}
  BY <1>0, <1>2, <1>3 DEF PlaceInv, CountedAt, EmptiedAt, BeforeGather
<1>5. \A p \in Place : recvStt'[p] = [endCount |-> \E q \in Place : stt[q].endCount,
                                      active   |-> \E q \in Place : stt[q].active,
                                      raw      |-> \E q \in Place : stt[q].raw,
                                      vertex   |-> \E q \in Place : stt[q].vertex]
  BY DEF CompleteGather
<1>6. ASSUME NEW p \in Place
      PROVE  /\ recvStt'[p].endCount => TRUE \in EndChoice
             /\ recvStt'[p].active <=> \E v \in Vertex : active[v]
             /\ recvStt'[p].raw <=> \E q \in Place : ucc[q] # {}
             /\ recvStt'[p].vertex <=> \E q \in Place : bcc[q] # {}
  <2>1. /\ recvStt'[p].endCount <=> \E q \in Place : stt[q].endCount
        /\ recvStt'[p].active <=> \E q \in Place : stt[q].active
        /\ recvStt'[p].raw <=> \E q \in Place : stt[q].raw
        /\ recvStt'[p].vertex <=> \E q \in Place : stt[q].vertex
    <3> DEFINE e == \E q \in Place : stt[q].endCount
               a == \E q \in Place : stt[q].active
               r == \E q \in Place : stt[q].raw
               x == \E q \in Place : stt[q].vertex
    <3>1. recvStt'[p] = [endCount |-> e, active |-> a, raw |-> r, vertex |-> x]
      BY <1>5
    <3> HIDE DEF e, a, r, x
    <3>2. recvStt'[p].endCount = e /\ recvStt'[p].active = a /\ recvStt'[p].raw = r /\ recvStt'[p].vertex = x
      BY <3>1
    <3> QED
      BY <3>2, Zenon DEF e, a, r, x
  <2>2. (\E q \in Place : stt[q].active) <=> \E v \in Vertex : active[v]
    BY <1>4, GraphAssumption DEF Local
  <2>3. (\E q \in Place : stt[q].endCount) => TRUE \in EndChoice
    BY <1>0, <1>4 DEF TypeOK, SttType, Statistics
  <2> QED
    BY <1>4, <2>1, <2>2, <2>3
<1> QED
  BY <1>1, <1>2, <1>3, <1>6

\* The run ends when end asked for it, or when nothing is left to do.
LEMMA GatherEnds ==
  ASSUME BufferInv, BufferInv', CompleteGather,
         NEW c \in Place, Terminates(recvStt'[c])
  PROVE  Promise!Terminate
<1>1. \A p \in Place : recvStt'[p] = recvStt'[c]
  BY DEF BufferInv, TeamInv, ResultsAgree
<1>2. \A p \in Place : /\ Ends(p)' /\ ~Decided(p)' /\ ~Ends(p) /\ ~Decided(p)
                       /\ todo[p] = {} /\ todo'[p] = {} /\ ss'[p] = ss[p]
  BY <1>1, AtGather DEF Ends, Decided
<1>3. runningBar /\ runningBar' = FALSE /\ outboxBar' = {}
  <2>1. runningBar /\ ~runningBar'
    BY <1>2 DEF runningBar
  <2>2. runningBar' \in BOOLEAN
    BY DEF runningBar
  <2> QED
    BY <2>1, <2>2 DEF outboxBar
<1>4. todoBar = {} /\ todoBar' = {}
  <2>1. \A p \in Place : TodoOf(p) = {} /\ TodoOf(p)' = {}
    BY <1>2 DEF TodoOf
  <2> QED
    BY <2>1 DEF todoBar
<1>5. inboxBar' = inboxBar
  <2>1. \A v \in Vertex : InboxOf(v) = {} /\ InboxOf(v)' = {}
    BY <1>2, GraphAssumption DEF InboxOf
  <2> QED
    BY <2>1 DEF inboxBar
<1>6. stepBar' = stepBar
  <2>1. (CHOOSE q \in Place : TRUE) \in Place
    BY GraphAssumption
  <2> QED
    BY <1>2, <2>1 DEF stepBar, StepOf
<1>7. TRUE \in EndChoice \/ (outboxBar = {} /\ \A v \in Vertex : ~active[v])
  <2>1. CASE recvStt'[c].endCount
    BY <2>1, AtGather
  <2>2. CASE ~recvStt'[c].endCount
    <3>1. /\ ~recvStt'[c].active /\ ~recvStt'[c].raw /\ ~recvStt'[c].vertex
      BY <2>2 DEF Terminates
    <3>2. /\ \A v \in Vertex : ~active[v]
          /\ \A q \in Place : ucc[q] = {} /\ bcc[q] = {}
      BY <3>1, AtGather
    <3>3. \A q \in Place : OutboxOf(q) = {}
      BY <3>2 DEF OutboxOf
    <3> QED
      BY <3>2, <3>3 DEF outboxBar
  <2> QED
    BY <2>1, <2>2
<1>8. active' = active
  BY AtGather
<1> QED
  BY <1>3, <1>4, <1>5, <1>6, <1>7, <1>8 DEF Promise!Terminate

\* The packets for v, once all places have grouped what was sent.
PacketsFor(v) == {k.msgs : k \in {x \in UNION {Packets(q, Owner[v]) : q \in Place} : x.dst = v}}

\* Grouped by destination place and vertex, every unicast message is in one packet.
LEMMA PacketsDeliver ==
  ASSUME NEW v \in Vertex, ucc \in [Place -> SUBSET Message],
         \A q \in Place : \A m \in ucc[q] : m.src \in Local(q)
  PROVE  /\ UNION PacketsFor(v) = {m \in UNION {ucc[q] : q \in Place} : m.dst = v}
         /\ \A k \in PacketsFor(v) : k # {}
         /\ \A k, l \in PacketsFor(v) : k # l => k \cap l = {}
         /\ ~HasCombiner => \A k \in PacketsFor(v) : \A m, n \in k : m = n
<1> DEFINE mine(q) == {m \in ucc[q] : m.dst = v}
           mineOf(q) == {k.msgs : k \in {x \in Packets(q, Owner[v]) : x.dst = v}}
<1>0. \A k : k \in PacketsFor(v) <=> \E q \in Place : k \in mineOf(q)
  BY DEF PacketsFor
<1>1. \A m : m \in {x \in UNION {ucc[q] : q \in Place} : x.dst = v} <=> \E q \in Place : m \in mine(q)
  OBVIOUS
<1>2. \A q, r \in Place : q # r => mine(q) \cap mine(r) = {}
  BY DEF Local
<1>3. CASE HasCombiner
  <2>1. ASSUME NEW q \in Place
        PROVE  \A k : k \in mineOf(q) <=> mine(q) # {} /\ k = mine(q)
    <3> DEFINE out == {m \in ucc[q] : Owner[m.dst] = Owner[v]}
               to(w) == {m \in out : m.dst = w}
    <3>1. Packets(q, Owner[v]) = {[dst |-> w, msgs |-> to(w)] : w \in {m.dst : m \in out}}
      BY <1>3 DEF Packets
    <3>2. to(v) = mine(q)
      OBVIOUS
    <3>3. v \in {m.dst : m \in out} <=> mine(q) # {}
      OBVIOUS
    <3> HIDE DEF to, out, mine
    <3>4. \A x : x \in Packets(q, Owner[v]) /\ x.dst = v
                  <=> mine(q) # {} /\ x = [dst |-> v, msgs |-> mine(q)]
      BY <3>1, <3>2, <3>3
    <3>5. \A k : k \in mineOf(q) <=> \E x : x \in Packets(q, Owner[v]) /\ x.dst = v /\ k = x.msgs
      OBVIOUS
    <3> HIDE DEF mineOf
    <3>6. mine(q) # {} => mine(q) \in mineOf(q)
      <4> DEFINE x == [dst |-> v, msgs |-> mine(q)]
      <4>1. mine(q) # {} => x \in Packets(q, Owner[v]) /\ x.dst = v
        BY <3>4
      <4>2. mine(q) = x.msgs
        OBVIOUS
      <4> HIDE DEF x
      <4> QED
        BY <3>5, <4>1, <4>2
    <3> QED
      BY <3>4, <3>5, <3>6
  <2> HIDE DEF mine, mineOf
  <2>2. \A k : k \in PacketsFor(v) <=> \E q \in Place : mine(q) # {} /\ k = mine(q)
    BY <1>0, <2>1
  <2>3. \A m : m \in UNION PacketsFor(v) <=> \E q \in Place : m \in mine(q)
    BY <2>2
  <2>4. UNION PacketsFor(v) = {m \in UNION {ucc[q] : q \in Place} : m.dst = v}
    BY <1>1, <2>3
  <2>5. \A k \in PacketsFor(v) : k # {}
    BY <2>2
  <2>6. ASSUME NEW k \in PacketsFor(v), NEW l \in PacketsFor(v), k # l PROVE k \cap l = {}
    <3>1. PICK q \in Place : k = mine(q)
      BY <2>2
    <3>2. PICK r \in Place : l = mine(r)
      BY <2>2
    <3> QED
      BY <1>2, <2>6, <3>1, <3>2
  <2> QED
    BY <1>3, <2>4, <2>5, <2>6
<1>4. CASE ~HasCombiner
  <2>1. ASSUME NEW q \in Place
        PROVE  \A k : k \in mineOf(q) <=> \E m \in mine(q) : k = {m}
    <3>1. Packets(q, Owner[v]) = {[dst |-> m.dst, msgs |-> {m}] : m \in {x \in ucc[q] : Owner[x.dst] = Owner[v]}}
      BY <1>4 DEF Packets
    <3>2. \A x : x \in Packets(q, Owner[v]) /\ x.dst = v
                  <=> \E m \in mine(q) : x = [dst |-> v, msgs |-> {m}]
      BY <3>1
    <3> HIDE DEF mine
    <3>4. \A m \in mine(q) : [dst |-> v, msgs |-> {m}] \in Packets(q, Owner[v])
      BY <3>2
    <3>3. \A k : k \in mineOf(q) <=> \E x : x \in Packets(q, Owner[v]) /\ x.dst = v /\ k = x.msgs
      OBVIOUS
    <3>5. ASSUME NEW m \in mine(q) PROVE {m} \in mineOf(q)
      <4> DEFINE x == [dst |-> v, msgs |-> {m}]
      <4>1. x \in Packets(q, Owner[v]) /\ x.dst = v
        BY <3>4
      <4>2. {m} = x.msgs
        OBVIOUS
      <4> HIDE DEF x, mineOf
      <4> QED
        BY <3>3, <4>1, <4>2
    <3> HIDE DEF mine, mineOf
    <3>6. ASSUME NEW k \in mineOf(q) PROVE \E m \in mine(q) : k = {m}
      <4>1. PICK x : x \in Packets(q, Owner[v]) /\ x.dst = v /\ k = x.msgs
        BY <3>3
      <4>2. PICK m \in mine(q) : x = [dst |-> v, msgs |-> {m}]
        BY <3>2, <4>1
      <4> QED
        BY <4>1, <4>2
    <3> QED
      BY <3>5, <3>6
  <2> HIDE DEF mine, mineOf
  <2>2. \A k : k \in PacketsFor(v) <=> \E q \in Place : \E m \in mine(q) : k = {m}
    <3> SUFFICES ASSUME NEW k PROVE k \in PacketsFor(v) <=> \E q \in Place : \E m \in mine(q) : k = {m}
      OBVIOUS
    <3>1. k \in PacketsFor(v) <=> \E q \in Place : k \in mineOf(q)
      BY <1>0
    <3>2. \A q \in Place : k \in mineOf(q) <=> \E m \in mine(q) : k = {m}
      BY <2>1
    <3> QED
      BY <3>1, <3>2
  <2>3. \A m : m \in UNION PacketsFor(v) <=> \E q \in Place : m \in mine(q)
    <3>1. ASSUME NEW q \in Place, NEW m \in mine(q) PROVE m \in UNION PacketsFor(v)
      <4>1. {m} \in PacketsFor(v)
        BY <2>2
      <4> QED
        BY <4>1
    <3>2. ASSUME NEW m \in UNION PacketsFor(v) PROVE \E q \in Place : m \in mine(q)
      BY <2>2
    <3> QED
      BY <3>1, <3>2
  <2>4. UNION PacketsFor(v) = {m \in UNION {ucc[q] : q \in Place} : m.dst = v}
    BY <1>1, <2>3
  <2>5. \A k \in PacketsFor(v) : \E m : k = {m}
    BY <2>2
  <2>6. \A k \in PacketsFor(v) : k # {}
    BY <2>5
  <2>7. ASSUME NEW k \in PacketsFor(v), NEW l \in PacketsFor(v), k # l PROVE k \cap l = {}
    <3>1. PICK m : k = {m}
      BY <2>5
    <3>2. PICK n : l = {n}
      BY <2>5
    <3> QED
      BY <2>7, <3>1, <3>2
  <2>8. \A k \in PacketsFor(v) : \A m, n \in k : m = n
    BY <2>5
  <2> QED
    BY <2>4, <2>6, <2>7, <2>8
<1> QED
  BY <1>3, <1>4

\* What is coming for v once the statistics are known, by what they say was sent.
LEMMA ComingUnicast ==
  ASSUME BufferInv, CompleteGather, NEW v \in Vertex, recvStt'[Owner[v]].raw
  PROVE  Coming(v)' = PacketsFor(v)
<1>1. Owner[v] \in Place
  BY GraphAssumption
<1>2. pc' = pc /\ ucc' = ucc /\ ucr' = ucr /\ ucr[Owner[v]] = {} /\ \A q \in Place : pc[q] = "gather"
  BY <1>1, AtGather
<1>3. \A q \in Place : UnicastFrom(q, Owner[v])' = Packets(q, Owner[v])
  BY <1>2 DEF UnicastFrom, Packets
<1>4. ucr'[Owner[v]] \cup UNION {UnicastFrom(q, Owner[v])' : q \in Place}
        = UNION {Packets(q, Owner[v]) : q \in Place}
  BY <1>2, <1>3
<1> QED
  BY <1>4 DEF Coming, UnicastFor, PacketsFor

LEMMA ComingBroadcast ==
  ASSUME BufferInv, CompleteGather, NEW v \in Vertex,
         ~recvStt'[Owner[v]].raw, recvStt'[Owner[v]].vertex
  PROVE  Coming(v)' = {{Bcast(b, v)} : b \in {x \in UNION {bcc[q] : q \in Place} : v \in OutEdge[x.src]}}
<1>1. Owner[v] \in Place
  BY GraphAssumption
<1>2. pc' = pc /\ bcc' = bcc /\ bcr' = bcr /\ bcr[Owner[v]] = {} /\ \A q \in Place : pc[q] = "gather"
  BY <1>1, AtGather
<1>3. \A q \in Place : BroadcastFrom(q, Owner[v])' = bcc[q]
  BY <1>2 DEF BroadcastFrom
<1>4. bcr'[Owner[v]] \cup UNION {BroadcastFrom(q, Owner[v])' : q \in Place} = UNION {bcc[q] : q \in Place}
  BY <1>2, <1>3
<1>5. bcc \in [Place -> SUBSET Broadcast]
  BY DEF BufferInv, TeamInv, TypeOK, OutType
<1>6. \A x \in UNION {bcc[q] : q \in Place} : x.src \in InEdge(v) <=> v \in OutEdge[x.src]
  BY <1>5 DEF InEdge, Broadcast
<1>7. BroadcastFor(v)' = {{Bcast(b, v)} : b \in {x \in UNION {bcc[q] : q \in Place} : x.src \in InEdge(v)}}
  BY <1>4 DEF BroadcastFor, Bcast, InEdge
<1>8. {x \in UNION {bcc[q] : q \in Place} : x.src \in InEdge(v)}
        = {x \in UNION {bcc[q] : q \in Place} : v \in OutEdge[x.src]}
  BY <1>6
<1> QED
  BY <1>7, <1>8 DEF Coming

\* What the outbox holds at the end of a superstep.
LEMMA OutboxAtGather ==
  ASSUME BufferInv, CompleteGather
  PROVE  /\ outboxBar = (UNION {ucc[q] : q \in Place})
                          \cup UNION {{Bcast(b, w) : w \in OutEdge[b.src]} : b \in UNION {bcc[q] : q \in Place}}
         /\ \/ \A q \in Place : bcc[q] = {}
            \/ \A q \in Place : \A m \in ucc[q] : m.via = "uc"
<1>1. runningBar /\ \A q \in Place : ~Decided(q) /\ pc[q] = "gather"
  BY AtGather DEF runningBar
<1>2. outboxBar = UNION {OutboxOf(q) : q \in Place}
  BY <1>1 DEF outboxBar
<1> DEFINE Spread(b) == {Bcast(b, w) : w \in OutEdge[b.src]}
<1>3. \A q \in Place : OutboxOf(q) = ucc[q] \cup UNION {Spread(b) : b \in bcc[q]}
  BY <1>1 DEF OutboxOf
<1>4. \/ \A q \in Place : bcc[q] = {}
      \/ \A q \in Place : \A m \in ucc[q] : m.via = "uc"
  BY <1>1 DEF BufferInv, PlaceInv, SentAt, SameDirection
<1>5. outboxBar = (UNION {ucc[q] : q \in Place}) \cup UNION {Spread(b) : b \in UNION {bcc[q] : q \in Place}}
  <2> HIDE DEF Spread
  <2>1. ASSUME NEW m PROVE m \in outboxBar <=> \E q \in Place : m \in ucc[q] \/ \E b \in bcc[q] : m \in Spread(b)
    BY <1>2, <1>3
  <2>2. ASSUME NEW m
        PROVE  m \in (UNION {ucc[q] : q \in Place}) \cup UNION {Spread(b) : b \in UNION {bcc[q] : q \in Place}}
                 <=> \E q \in Place : m \in ucc[q] \/ \E b \in bcc[q] : m \in Spread(b)
    OBVIOUS
  <2> QED
    BY <2>1, <2>2
<1> QED
  BY <1>4, <1>5

\* Every message is coming, or every unicast message if there are some: the team goes on.
LEMMA GatherDelivers ==
  ASSUME BufferInv, CompleteGather, BufferInv',
         NEW c \in Place, inboxBar' = [v \in Vertex |-> Coming(v)']
  PROVE  \/ Promise!Delivers(inboxBar', outboxBar)
         \/ Promise!Unicasts # {} /\ Promise!Delivers(inboxBar', Promise!Unicasts)
<1> DEFINE uc == UNION {ucc[q] : q \in Place}
           bc == UNION {bcc[q] : q \in Place}
           Spread(b) == {Bcast(b, w) : w \in OutEdge[b.src]}
<1>0. TypeOK /\ \A q \in Place : \A m \in ucc[q] : m.src \in Local(q)
  BY DEF BufferInv, TeamInv, PlaceInv, SentAt
<1>1. \A v \in Vertex : Owner[v] \in Place /\ recvStt'[Owner[v]] = recvStt'[c]
  BY GraphAssumption DEF BufferInv, TeamInv, ResultsAgree
<1>2. outboxBar = uc \cup UNION {Spread(b) : b \in bc}
  BY OutboxAtGather
<1>3. CASE recvStt'[c].raw
  <2>1. Promise!Delivers(inboxBar', uc)
    <3>1. ASSUME NEW v \in Vertex, NEW box, box = inboxBar'[v]
          PROVE  /\ UNION box = {m \in uc : m.dst = v}
                 /\ \A k \in box : k # {}
                 /\ \A k, l \in box : k # l => k \cap l = {}
                 /\ ~HasCombiner => \A k \in box : \A m, n \in k : m = n
      <4>1. box = PacketsFor(v)
        BY <1>1, <1>3, <3>1, ComingUnicast
      <4>2. ucc \in [Place -> SUBSET Message]
        BY <1>0 DEF TypeOK, OutType
      <4>3. \A q \in Place : \A m \in ucc[q] : m.src \in Local(q)
        BY <1>0
      <4>4. /\ UNION PacketsFor(v) = {m \in UNION {ucc[q] : q \in Place} : m.dst = v}
            /\ \A k \in PacketsFor(v) : k # {}
            /\ \A k, l \in PacketsFor(v) : k # l => k \cap l = {}
            /\ ~HasCombiner => \A k \in PacketsFor(v) : \A m, n \in k : m = n
        BY <4>2, <4>3, PacketsDeliver
      <4> QED
        BY <4>1, <4>4
    <3> HIDE DEF uc
    <3> QED
      BY <3>1 DEF Promise!Delivers
  <2>2. uc # {}
    BY <1>3, AtGather
  <2>3. CASE \A q \in Place : bcc[q] = {}
    <3>1. bc = {}
      BY <2>3
    <3>2. outboxBar = uc
      BY <1>2, <3>1
    <3> QED
      BY <2>1, <3>2
  <2>4. CASE \A q \in Place : \A m \in ucc[q] : m.via = "uc"
    <3>1. \A m \in uc : m.via = "uc"
      BY <2>4
    <3>2. \A m \in UNION {Spread(b) : b \in bc} : m.via # "uc"
      BY DEF Bcast
    <3> HIDE DEF uc, bc, Spread
    <3>3. Promise!Unicasts = uc
      BY <1>2, <3>1, <3>2 DEF Promise!Unicasts
    <3> QED
      BY <2>1, <2>2, <3>3
  <2> QED
    BY <2>3, <2>4, OutboxAtGather
<1>4. CASE ~recvStt'[c].raw
  <2>1. uc = {}
    <3>1. \A q \in Place : ucc[q] = {}
      BY <1>4, AtGather
    <3> QED
      BY <3>1
  <2>2. outboxBar = UNION {Spread(b) : b \in bc}
    BY <1>2, <2>1
  <2>3. ASSUME NEW v \in Vertex, NEW box, box = inboxBar'[v]
        PROVE  box = {{Bcast(b, v)} : b \in {x \in bc : v \in OutEdge[x.src]}}
    <3>1. CASE recvStt'[c].vertex
      BY <1>1, <1>4, <2>3, <3>1, ComingBroadcast
    <3>2. CASE ~recvStt'[c].vertex
      <4>1. bc = {}
        <5>1. \A q \in Place : bcc[q] = {}
          BY <3>2, AtGather
        <5> QED
          BY <5>1
      <4>2. box = {}
        BY <1>1, <1>4, <2>3, <3>2 DEF Coming
      <4> QED
        BY <4>1, <4>2
    <3> QED
      BY <3>1, <3>2
  <2>4. ASSUME NEW v \in Vertex, NEW box, box = inboxBar'[v]
        PROVE  /\ UNION box = {m \in outboxBar : m.dst = v}
               /\ \A k \in box : k # {}
               /\ \A k, l \in box : k # l => k \cap l = {}
               /\ ~HasCombiner => \A k \in box : \A m, n \in k : m = n
    <3> DEFINE mine == {x \in bc : v \in OutEdge[x.src]}
    <3>1. box = {{Bcast(b, v)} : b \in mine}
      BY <2>3, <2>4
    <3>2. \A m : m \in outboxBar /\ m.dst = v <=> \E b \in mine : m = Bcast(b, v)
      BY <2>2 DEF Bcast
    <3> HIDE DEF mine
    <3>3. \A m : m \in UNION box <=> \E b \in mine : m = Bcast(b, v)
      BY <3>1
    <3>4. UNION box = {m \in outboxBar : m.dst = v}
      BY <3>2, <3>3
    <3>5. \A k \in box : \E m : k = {m}
      BY <3>1
    <3>6. ASSUME NEW k \in box, NEW l \in box, k # l PROVE k \cap l = {}
      <4>1. PICK m : k = {m}
        BY <3>5
      <4>2. PICK n : l = {n}
        BY <3>5
      <4> QED
        BY <3>6, <4>1, <4>2
    <3>7. (\A k \in box : k # {}) /\ \A k \in box : \A m, n \in k : m = n
      BY <3>5
    <3> QED
      BY <3>4, <3>6, <3>7
  <2> QED
    BY <2>4 DEF Promise!Delivers
<1> QED
  BY <1>3, <1>4

LEMMA GatherContinues ==
  ASSUME BufferInv, BufferInv', CompleteGather,
         NEW c \in Place, ~Terminates(recvStt'[c])
  PROVE  Promise!Continue
<1>1. \A p \in Place : recvStt'[p] = recvStt'[c]
  BY DEF BufferInv, TeamInv, ResultsAgree
<1>2. \A p \in Place : /\ ~Ends(p)' /\ Decided(p)' /\ ~Ends(p) /\ ~Decided(p)
                       /\ todo[p] = {} /\ ss'[p] = ss[p]
  BY <1>1, AtGather DEF Ends, Decided
<1>3. runningBar /\ runningBar'
  BY <1>2 DEF runningBar
<1>4. outboxBar' = {}
  <2>1. \A p \in Place : OutboxOf(p)' = {}
    BY <1>2 DEF OutboxOf
  <2> QED
    BY <2>1 DEF outboxBar
<1>5. todoBar = {} /\ todoBar' = Vertex
  <2>1. \A p \in Place : TodoOf(p) = {} /\ TodoOf(p)' = {v \in Vertex : Owner[v] = p}
    BY <1>2 DEF TodoOf, Local
  <2>2. todoBar = {}
    BY <2>1 DEF todoBar
  <2>3. todoBar' = UNION {TodoOf(p)' : p \in Place}
    BY DEF todoBar
  <2> QED
    BY <2>1, <2>2, <2>3, GraphAssumption
<1>6. stepBar' = stepBar + 1
  <2>1. (CHOOSE q \in Place : TRUE) \in Place
    BY GraphAssumption
  <2> QED
    BY <1>2, <2>1 DEF stepBar, StepOf
<1>7. inboxBar' = [v \in Vertex |-> Coming(v)']
  <2>1. \A v \in Vertex : InboxOf(v)' = Coming(v)'
    BY <1>2, GraphAssumption DEF InboxOf
  <2>2. inboxBar' = [v \in Vertex |-> InboxOf(v)']
    BY DEF inboxBar
  <2> QED
    BY <2>1, <2>2
<1>8. \/ \E v \in Vertex : active[v]
      \/ outboxBar # {}
      \/ \E v \in Vertex : OutEdge[v] = {}
  <2>1. recvStt'[c].active \/ recvStt'[c].raw \/ recvStt'[c].vertex
    BY DEF Terminates
  <2>2. CASE recvStt'[c].active
    BY <2>2, AtGather
  <2>3. CASE recvStt'[c].raw
    BY <2>3, AtGather, OutboxAtGather
  <2>4. CASE recvStt'[c].vertex
    <3>1. PICK q \in Place : bcc[q] # {}
      BY <2>4, AtGather
    <3>2. PICK b \in bcc[q] : TRUE
      BY <3>1
    <3>3. b.src \in Vertex
      BY DEF BufferInv, TeamInv, TypeOK, OutType, Broadcast
    <3>4. CASE OutEdge[b.src] = {}
      BY <3>3, <3>4
    <3>5. CASE OutEdge[b.src] # {}
      <4>1. PICK w \in OutEdge[b.src] : TRUE
        BY <3>5
      <4>2. Bcast(b, w) \in outboxBar
        BY <4>1, OutboxAtGather
      <4> QED
        BY <4>2
    <3> QED
      BY <3>4, <3>5
  <2> QED
    BY <2>1, <2>2, <2>3, <2>4
<1>9. \/ Promise!Delivers(inboxBar', outboxBar)
      \/ Promise!Unicasts # {} /\ Promise!Delivers(inboxBar', Promise!Unicasts)
  BY <1>7, GatherDelivers
<1>10. active' = active
  BY AtGather
<1>11. runningBar' = runningBar
  <2>1. runningBar' \in BOOLEAN /\ runningBar \in BOOLEAN
    BY DEF runningBar
  <2> QED
    BY <1>3, <2>1
<1> HIDE DEF Promise!Delivers, Promise!Unicasts
<1> QED
  BY <1>3, <1>4, <1>5, <1>6, <1>8, <1>9, <1>10, <1>11 DEF Promise!Continue

-----------------------------------------------------------------------------
(***************************************************************************)
(* The refinement.                                                         *)
(***************************************************************************)
LEMMA StepPromise ==
  ASSUME BufferInv, BufferInv', EnableStatistics, [Next]_vars
  PROVE  [Promise!Next]_(Promise!vars)
<1>1. CASE Collective
  <2>1. CASE CompleteInEdge \/ CompleteBcsum \/ CompleteAggregate
    BY <2>1, EarlyCollective
  <2>2. CASE CompleteGather
    <3>1. PICK c \in Place : TRUE
      BY GraphAssumption
    <3>2. CASE Terminates(recvStt'[c])
      BY <2>2, <3>2, GatherEnds DEF Promise!Next
    <3>3. CASE ~Terminates(recvStt'[c])
      BY <2>2, <3>3, GatherContinues DEF Promise!Next
    <3> QED
      BY <3>2, <3>3
  <2>3. CASE CompleteMask \/ CompleteStat \/ CompleteUnicast \/ CompleteBroadcast
    BY <2>3, LateCollective
  <2> QED
    BY <1>1, <2>1, <2>2, <2>3 DEF Collective
<1>2. ASSUME NEW p \in Place, PlaceStep(p) PROVE [Promise!Next]_(Promise!vars)
  <2>1. CASE \E v \in Vertex : Compute(p, v)
    BY <2>1, ComputeVisits DEF Promise!Next
  <2>2. CASE EndCompute(p) \/ UpdateInEdge(p) \/ DirectionOptimize(p) \/ PreProcess(p) \/ Terminate(p)
    BY <2>2, BeforeDecision
  <2>3. CASE ProcessUnicast(p) \/ ProcessBroadcast(p) \/ BeginExchange(p) \/ EndUnicast(p)
    BY <2>3, AfterDecision
  <2>4. CASE NextSuperstep(p)
    BY <2>4, AfterDecision, EntersSuperstep
  <2> QED
    BY <1>2, <2>1, <2>2, <2>3, <2>4 DEF PlaceStep
<1>3. ASSUME NEW p \in Place, NEW v \in Vertex, Throw(p, v) PROVE [Promise!Next]_(Promise!vars)
  BY <1>3, BeforeDecision
<1>4. CASE UNCHANGED vars
  <2>1. /\ UNCHANGED <<pc, ready, ss, todo, active, ucc, bcc, recvStt>>
        /\ UNCHANGED <<ucs, bcs, uce, bce, ucr, bcr>>
    BY <1>4 DEF vars, visitVars, haltVars, outVars, sttVars, wireVars, inVars
  <2>2. \A p \in Place : /\ StepOf(p)' = StepOf(p) /\ TodoOf(p)' = TodoOf(p)
                         /\ (Decided(p)' <=> Decided(p)) /\ (Ends(p)' <=> Ends(p))
    BY <2>1 DEF StepOf, TodoOf, Decided, Ends, Local
  <2>3. \A p \in Place : OutboxOf(p)' = OutboxOf(p)
    BY <2>1, <2>2 DEF OutboxOf, Bcast
  <2>4. \A q, p \in Place : UnicastFrom(q, p)' = UnicastFrom(q, p) /\ BroadcastFrom(q, p)' = BroadcastFrom(q, p)
    BY <2>1 DEF UnicastFrom, BroadcastFrom, Packets
  <2>5. \A v \in Vertex : Coming(v)' = Coming(v)
    BY <2>1, <2>4, ComingSame, GraphAssumption
  <2>6. \A v \in Vertex : InboxOf(v)' = InboxOf(v)
    BY <2>1, <2>2, <2>5, GraphAssumption DEF InboxOf, message, InEdge
  <2>7. stepBar' = stepBar /\ runningBar' = runningBar
    <3>1. (CHOOSE q \in Place : TRUE) \in Place
      BY GraphAssumption
    <3> QED
      BY <2>2, <3>1 DEF stepBar, runningBar
  <2> QED
    BY <2>1, <2>2, <2>3, <2>6, <2>7, Stutters
<1> QED
  BY <1>1, <1>2, <1>3, <1>4 DEF Next, Finished

\* When the statistics are on, as they are in the code (mEnableStatistics = true), every
\* message an XPregel program sends reaches its destination in the next superstep, once,
\* and in no other, except the broadcasts of a superstep with unicast messages; every
\* vertex is visited once in a superstep; and run returns only when no vertex is active
\* and nothing was sent, or end asked for it.
THEOREM EngineImplementsSupersteps == EnableStatistics => (Spec => ImplementsSupersteps)
<1> SUFFICES ASSUME EnableStatistics PROVE Spec => ImplementsSupersteps
  OBVIOUS
<1>1. Spec => []BufferInv
  BY BuffersHold
<1>2. Init => Promise!Init
  BY InitPromise
<1>3. BufferInv /\ BufferInv' /\ [Next]_vars => [Promise!Next]_(Promise!vars)
  BY StepPromise
<1> QED
  BY <1>1, <1>2, <1>3, PTL DEF Spec, ImplementsSupersteps, Promise!Spec
================================================================================
