------------------------- MODULE PyWorkersRefinement --------------------------
(***************************************************************************)
(* In how far the Python engine implements Supersteps, the specification   *)
(* that the X10 engine implements.  A worker calls compute on its vertices *)
(* whether they have halted or not: its program is one whose vertices      *)
(* never halt.  A superstep ends when the place decides to go on.          *)
(***************************************************************************)
EXTENDS PyWorkers

\* The vertices no worker computes: the workers round their number of words to
\* the even neighbour, the place rounds it up.
Uncovered == Vertex \ UNION {RangeOf(w) : w \in Worker}

\* The later of two broadcasts of one vertex remains.
Latest(bcasts) ==
  {bcasts[k] : k \in {j \in DOMAIN bcasts :
                        \A l \in DOMAIN bcasts : l > j => bcasts[l].src # bcasts[j].src}}

computed == {v \in Vertex : \E w \in Worker : v \in RangeOf(w) \ left[w] /\ wss[w] = ss}
between == pc \in {"command", "wait"}

stepBar == ss
todoBar == IF pc \in {"decide", "threw", "close", "done"} THEN {} ELSE Vertex \ computed
inboxBar == [v \in Vertex |-> IF v \in todoBar THEN {{m} : m \in shm.of[v]} ELSE {}]
outboxBar ==
  IF between
  THEN UNION {ToSet(out[w].uc) \cup Spread(Latest(out[w].bc)) :
                w \in {x \in Worker : wss[x] = ss}}
  ELSE ucc \cup Spread(bcc)
runningBar == pc \notin {"close", "done"}

Promise == INSTANCE Supersteps WITH
  Program <- [v \in Vertex |->
                {[uc |-> e.uc, bc |-> e.bc, flag |-> "keep"] : e \in Program[v]}],
  HasCombiner <- FALSE, MayDrop <- TRUE,
  step <- stepBar, todo <- todoBar, active <- [v \in Vertex |-> v \notin Uncovered],
  inbox <- inboxBar, outbox <- outboxBar, running <- runningBar

-----------------------------------------------------------------------------
(***************************************************************************)
(* The one step of the place that no sequence of supersteps has.           *)
(***************************************************************************)
\* The k-th broadcast of the last worker that makes so many, in the name of vertex
\* k - 1.
Misnamed ==
  UNION {{[src |-> k - 1, val |-> out[w].bc[k].val] :
            k \in {n \in 1 .. Len(out[w].bc) :
                     n <= NumVertexes /\ \A x \in Worker : x > w => Len(out[x].bc) < n}} :
         w \in Worker}

\* The k-th broadcast of every worker is one of vertex k - 1.
InTurn == \A w \in Worker : \A k \in 1 .. Len(out[w].bc) : out[w].bc[k].src = k - 1

\* The vertices no worker computes are given up with their messages, broadcasts go
\* on in the names their places in the segment stand for, and unicast messages go
\* on as they were sent.  Broadcasts that were made in turn go on as they were made.
Imports ==
  /\ pc = "wait" /\ pc' \in {"decide", "threw"}
  /\ todoBar = Uncovered /\ todoBar' = {}
  /\ inboxBar' = [v \in Vertex |-> IF v \in Uncovered THEN {} ELSE inboxBar[v]]
  /\ outboxBar' = {m \in outboxBar : m.via = "uc"} \cup Spread(Misnamed)
  /\ InTurn => outboxBar' = outboxBar
  /\ UNCHANGED <<stepBar, runningBar>>

\* As long as no worker dies, the processes behave as one sequence of supersteps,
\* in which every vertex is computed at most once and what it sends is what its
\* neighbours are given in the next superstep, unless unicast messages hide
\* broadcasts; but for the step above, in which the place and the workers disagree
\* about ranges and names.
ImplementsSupersteps ==
  Promise!Init /\ [][died' # {} \/ Imports \/ Promise!Next]_(Promise!vars)

-----------------------------------------------------------------------------
(***************************************************************************)
(* What the refinement rests on, besides TurnsInv, while no worker is dead. *)
(***************************************************************************)
Unicast == {m \in Message : m.via = "uc"}

\* A worker reads the command of a superstep once, after it was written.
StepInTurn(w) ==
  /\ wss[w] \in Int /\ wss[w] <= ss
  /\ stdin[w] # <<>> \/ pc \in {"fork", "gaveup"} \/ (pc = "command" /\ w >= i) => wss[w] < ss

\* What it has done it keeps until the next command.
WorkKept(w) ==
  /\ left[w] \subseteq RangeOf(w)
  /\ wss[w] = ss /\ wpc[w] # "compute" => left[w] = {}
  /\ wss[w] = ss /\ wpc[w] = "idle" => seg[w] = out[w]

\* It broadcasts for vertices it has computed.
SendsOwn(w) ==
  /\ out[w].uc \in Seq(Unicast) /\ out[w].bc \in Seq(Broadcast)
  /\ \A k \in 1 .. Len(out[w].bc) : out[w].bc[k].src \in RangeOf(w) \ left[w]

\* It answers with the number of vertices in its range.
Counted(w) ==
  /\ stdout[w] # <<>> => stdout[w][1].processed = Cardinality(RangeOf(w))
  /\ (pc = "wait" /\ w \notin waiting) \/ pc = "decide" =>
       got[w].processed = Cardinality(RangeOf(w))

\* The place holds messages only while it decides, and broadcasts only if there is
\* a vertex that was computed.
Holds ==
  IF pc \in {"decide", "threw"}
  THEN /\ ucc \subseteq Unicast /\ bcc \subseteq Broadcast
       /\ bcc # {} \/ (\E w \in Worker : got[w].numMsgN # 0) => Uncovered # Vertex
  ELSE ucc = {} /\ bcc = {}

WellOf(w) == StepInTurn(w) /\ WorkKept(w) /\ SendsOwn(w) /\ Counted(w)
Well == /\ ~broken /\ left \in [Worker -> SUBSET Vertex]
        /\ pc \in {"fork", "gaveup", "command", "wait", "decide", "threw", "close", "done", "limit"}
        /\ pc = "threw" => \A w \in Worker : Quiet(w)
        /\ Holds /\ \A w \in Worker : WellOf(w)
SuperstepInv == /\ pc = "fork" => died = {}
                /\ died = {} => Well
=============================================================================
