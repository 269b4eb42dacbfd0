-------------------------- MODULE XPregelRefinement ---------------------------
(***************************************************************************)
(* The engine implements Supersteps.  A superstep ends, in the abstract    *)
(* machine, when the allreduce that decides on termination completes: from *)
(* there on what the places hold in their send buffers is on its way to    *)
(* the inboxes of the next superstep.                                      *)
(***************************************************************************)
EXTENDS XPregel

\* p knows that superstep ss[p] is over and has not begun the next one.
Decided(p) ==
  \/ pc[p] = "gather" /\ ready[p] /\ ~Terminates(recvStt[p])
  \/ pc[p] \in {"mask", "stat", "unicast", "broadcast", "failed"}

Bcast(b, v) == [src |-> b.src, dst |-> v, val |-> b.val, via |-> "bc"]

\* What place q has for vertices of place p, in its buffers or on the wire.
UnicastFrom(q, p) == IF pc[q] = "gather" THEN Packets(q, p) ELSE ucs[q][p]
BroadcastFrom(q, p) == IF pc[q] \in {"gather", "mask"} THEN bcc[q] ELSE bcs[q][p]

\* What is on its way to v, at its owner or still at the senders.
UnicastFor(v) ==
  LET p == Owner[v]
  IN  {k.msgs : k \in {x \in ucr[p] \cup UNION {UnicastFrom(q, p) : q \in Place} : x.dst = v}}

BroadcastFor(v) ==
  LET p == Owner[v]
  IN  {{Bcast(b, v)} : b \in {x \in bcr[p] \cup UNION {BroadcastFrom(q, p) : q \in Place} :
                                x.src \in InEdge(v)}}

Coming(v) == LET s == recvStt[Owner[v]]
             IN  IF s.raw THEN UnicastFor(v)
                 ELSE IF s.vertex THEN BroadcastFor(v) ELSE {}

\* What each place contributes to the state of the abstract machine.
StepOf(p)  == IF Decided(p) THEN ss[p] + 1 ELSE ss[p]
TodoOf(p)  == IF Decided(p) THEN Local(p) ELSE todo[p]
InboxOf(v) == IF Decided(Owner[v]) THEN Coming(v)
              ELSE IF v \in todo[Owner[v]] THEN message(v) ELSE {}
OutboxOf(p) ==
  IF Decided(p) THEN {}
  ELSE ucc[p] \cup UNION {{Bcast(b, v) : v \in OutEdge[b.src]} : b \in bcc[p]}
Ends(p) == pc[p] = "done" \/ (pc[p] = "gather" /\ ready[p] /\ Terminates(recvStt[p]))

stepBar  == StepOf(CHOOSE p \in Place : TRUE)
todoBar  == UNION {TodoOf(p) : p \in Place}
inboxBar == [v \in Vertex |-> InboxOf(v)]
runningBar == \A p \in Place : ~Ends(p)
outboxBar == IF runningBar THEN UNION {OutboxOf(p) : p \in Place} ELSE {}

\* What the engine does, and what sendMessageToAllNeighbors documents.
Promise == INSTANCE Supersteps WITH
  MayDrop <- TRUE, step <- stepBar, todo <- todoBar, inbox <- inboxBar,
  outbox <- outboxBar, running <- runningBar
Documented == INSTANCE Supersteps WITH
  MayDrop <- FALSE, step <- stepBar, todo <- todoBar, inbox <- inboxBar,
  outbox <- outboxBar, running <- runningBar

\* Every message reaches its destination in the next superstep, once, and in no
\* other, except that broadcasts are lost in a superstep with unicast messages;
\* and a run that terminates has no vertex left to compute and no message left
\* to deliver, unless end asked for it.
ImplementsSupersteps == Promise!Spec

\* The same without the exception: sendMessageToAllNeighbors sends messages to
\* all neighbour vertices, whatever else is sent in the superstep.
DeliversBroadcasts == Documented!Spec

-----------------------------------------------------------------------------
(***************************************************************************)
(* Why it does: what the buffers and counters of a place hold in every     *)
(* stage, which the refinement mapping reads them by.                      *)
(***************************************************************************)
BeforeGather == {"compute", "inedge", "bcsum", "aggregate", "gather"}

\* numActive and bcsCount say of the vertices visited what the statistics are to say.
CountedAt(p) ==
  /\ pc[p] \notin {"compute", "threw"} => todo[p] = {}
  /\ pc[p] \in BeforeGather =>
       /\ numActive[p] # 0 <=> \E v \in Local(p) \ todo[p] : active[v]
       /\ bcsCount[p] # 0 => bcc[p] # {}
  /\ pc[p] = "gather" => stt[p].active = (numActive[p] # 0) /\ stt[p].endCount \in EndChoice
  /\ pc[p] \in {"stat", "unicast", "broadcast"} => numActive[p] = 0 /\ bcsCount[p] = 0

\* A place sends for its own vertices, and its broadcasts as broadcasts unless all were
\* turned into unicast messages.
SentAt(p) ==
  /\ \A m \in ucc[p] \cup bcc[p] : m.src \in Local(p)
  /\ pc[p] \in {"compute", "inedge", "bcsum"} => \A m \in ucc[p] : m.via = "uc"
  /\ pc[p] \in {"aggregate", "gather"} =>
       IF dirOpt[p] THEN bcc[p] = {} ELSE \A m \in ucc[p] : m.via = "uc"

\* The receive buffers are empty until the exchange that fills them.
ReceivedAt(p) ==
  /\ pc[p] \in {"inedge", "bcsum", "aggregate", "gather", "mask", "stat"}
       \/ (pc[p] = "unicast" /\ ~ready[p])   => ucr[p] = {}
  /\ pc[p] \in {"inedge", "bcsum", "aggregate", "gather", "mask", "stat", "unicast"}
       \/ (pc[p] = "broadcast" /\ ~ready[p]) => bcr[p] = {}

\* The mask lets every broadcast through that has a neighbour at the place.
MaskedAt(p) ==
  /\ maskMade[p] =>
       \A q \in Place : \A u \in Local(p) : \A v \in Local(q) : u \in InEdge(v) => u \in mask[p][q]
  /\ pc[p] = "mask" /\ ready[p] /\ recvStt[p].vertex => maskMade[p]

\* Something is in the send buffers only from the superstep's statistics to its exchange.
WiredAt(p) ==
  /\ (\E q \in Place : ucs[p][q] # {}) =>
       recvStt[p].raw /\ Gate(p)[2] \in {"mask", "stat", "unicast"}
  /\ (\E q \in Place : bcs[p][q] # {}) =>
       recvStt[p].vertex /\ Gate(p)[2] \in {"mask", "stat", "unicast", "broadcast"}

\* The vertices read from the buffers the exchange filled.
EnabledAt(p) ==
  /\ (pc[p] = "stat" /\ ready[p]) \/ pc[p] \in {"unicast", "broadcast"} =>
       recvCombined[p] = recvStt[p].raw
  /\ pc[p] \in {"unicast", "broadcast"} => uce[p] = recvStt[p].raw /\ bce[p] = recvStt[p].vertex

\* Messages are combined somewhere if and only if some were sent somewhere.
CombinedAsSent ==
  \A p \in Place : Gate(p)[2] \in {"mask", "stat"} =>
    (recvStt[p].raw <=> \E q \in Place : IF pc[q] = "gather" THEN ucc[q] # {} ELSE combined[q])
SameDirection == \A p, q \in Place : dirOpt[p] = dirOpt[q]

PlaceInv(p) == /\ CountedAt(p) /\ SentAt(p) /\ ReceivedAt(p)
               /\ MaskedAt(p) /\ WiredAt(p) /\ EnabledAt(p)
BufferInv == /\ TeamInv /\ SendInv /\ CombinedAsSent /\ SameDirection
             /\ \A p \in Place : PlaceInv(p)
=============================================================================
