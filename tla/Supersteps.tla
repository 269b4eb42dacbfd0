----------------------------- MODULE Supersteps ------------------------------
(***************************************************************************)
(* What an XPregel run promises its program: one global sequence of        *)
(* supersteps.  In a superstep every vertex is visited once, a vertex that *)
(* is active or has messages is computed, and what it sends reaches its    *)
(* destination in the next superstep, once, and in no other.  The run      *)
(* terminates between supersteps, when a place's end closure asks for it   *)
(* or when no vertex is active and nothing was sent.                       *)
(*                                                                         *)
(* A broadcast is its messages to the out neighbours.  When MayDrop is     *)
(* TRUE, a superstep in which unicast messages are sent may lose all its   *)
(* broadcasts: this is what MessageCommunicator.message does, which looks  *)
(* at the broadcast buffers only if there are no unicast messages.         *)
(***************************************************************************)
EXTENDS Integers, Sequences

CONSTANTS Vertex, OutEdge, Payload, Program, EndChoice, HasCombiner, MayDrop

VARIABLES
  step,      \* the superstep
  todo,      \* vertices not yet visited in it
  active,    \* active[v]: v has not voted to halt
  inbox,     \* inbox[v]: packets for v, a packet being a set of messages
  outbox,    \* messages sent in this superstep
  running    \* FALSE once the run has terminated

vars == <<step, todo, active, inbox, outbox, running>>

Message == [src : Vertex, dst : Vertex, val : Payload, via : {"uc", "bc"}]

Init ==
  /\ step = 0
  /\ todo = Vertex
  /\ active \in [Vertex -> BOOLEAN]
  /\ inbox = [v \in Vertex |-> {}]
  /\ outbox = {}
  /\ running = TRUE

\* The messages of effect e of a compute call on v.
Sent(v, e) ==
  {[src |-> v, dst |-> m[1], val |-> m[2], via |-> "uc"] : m \in e.uc}
  \cup IF e.bc = <<>> THEN {}
       ELSE {[src |-> v, dst |-> w, val |-> e.bc[Len(e.bc)], via |-> "bc"] :
               w \in OutEdge[v]}

Visit(v) ==
  /\ running /\ v \in todo
  /\ todo' = todo \ {v}
  /\ inbox' = [inbox EXCEPT ![v] = {}]
  /\ IF active[v] \/ inbox[v] # {}
     THEN \E e \in Program[v] :
            /\ outbox' = outbox \cup Sent(v, e)
            /\ active' = [active EXCEPT ![v] = (e.flag = "revive")
                                               \/ (e.flag = "keep" /\ @)]
     ELSE UNCHANGED <<outbox, active>>
  /\ UNCHANGED <<step, running>>

Unicasts == {m \in outbox : m.via = "uc"}

\* box delivers the messages of sent, each in exactly one packet, and without a
\* combiner alone in its packet.
Delivers(box, sent) ==
  \A v \in Vertex :
    LET mine == {m \in sent : m.dst = v} IN
    /\ UNION box[v] = mine
    /\ \A k \in box[v] : k # {}
    /\ \A k, l \in box[v] : k # l => k \cap l = {}
    /\ ~HasCombiner => \A k \in box[v] : \A m, n \in k : m = n

Continue ==
  /\ running /\ todo = {}
  /\ \/ \E v \in Vertex : active[v]
     \/ outbox # {}
     \/ \E v \in Vertex : OutEdge[v] = {}   \* a broadcast that reaches nobody
  /\ \/ Delivers(inbox', outbox)
     \/ MayDrop /\ Unicasts # {} /\ Delivers(inbox', Unicasts)
  /\ step' = step + 1
  /\ todo' = Vertex
  /\ outbox' = {}
  /\ UNCHANGED <<active, running>>

Terminate ==
  /\ running /\ todo = {}
  /\ TRUE \in EndChoice \/ (outbox = {} /\ \A v \in Vertex : ~active[v])
  /\ running' = FALSE
  /\ outbox' = {}
  /\ UNCHANGED <<step, todo, active, inbox>>

Next == (\E v \in Vertex : Visit(v)) \/ Continue \/ Terminate
Spec == Init /\ [][Next]_vars
=============================================================================
