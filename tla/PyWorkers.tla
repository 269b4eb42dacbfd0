------------------------------- MODULE PyWorkers -------------------------------
(***************************************************************************)
(* XPregel for programs written in Python, at one place that is alone in   *)
(* its team: PyWorkerPlaceGraph.run and the worker processes it forks, one *)
(* per thread.                                                             *)
(*                                                                         *)
(* The place writes "superstep n" to the stdin of every worker.  A worker  *)
(* maps the received messages, which the place has left in shared memory,  *)
(* computes the vertices of its range, leaves the messages it sends in     *)
(* segments of its own and answers on its stdout how many there are.  The  *)
(* place waits for all answers, imports the segments, decides whether to   *)
(* go on and exports the messages for the next superstep.                  *)
(*                                                                         *)
(* Workers end when they read the end of stdin.  A worker inherits from    *)
(* the place the write ends of the stdin of the workers forked before it,  *)
(* so those read their end only after it is gone.                          *)
(***************************************************************************)
EXTENDS Integers, Sequences, FiniteSets, SequencesExt

CONSTANTS
  NumVertexes,    \* numLocalVertexes
  NumThreads,     \* numThreads, the number of workers
  BitsPerWord,    \* 64 in the code
  OutEdge,        \* OutEdge[v]: the destinations of the out edges of v
  Payload,        \* the values of the message type
  Program,        \* Program[v]: the effects a call of compute on v may have
  EndChoice,      \* what the terminator may return
  DirectionLimit, \* numberOfGlobalVertexes() / 50
  MaxSuperstep,   \* the last superstep of the loop, 10000 in the code
  MayFail         \* fork may fail, and compute or the aggregator may raise

Vertex == 0 .. NumVertexes - 1
Worker == 0 .. NumThreads - 1

ASSUME PyAssumption ==
  /\ NumVertexes \in Nat /\ NumThreads \in Nat \ {0} /\ BitsPerWord \in Nat \ {0}
  /\ OutEdge \in [Vertex -> SUBSET Vertex]
  /\ \A v \in Vertex : \A e \in Program[v] :
       e.uc \subseteq Vertex \X Payload /\ IsFiniteSet(e.uc) /\ e.bc \in Seq(Payload)
  /\ EndChoice \subseteq BOOLEAN /\ EndChoice # {} /\ MayFail \in BOOLEAN
  /\ DirectionLimit \in Nat /\ MaxSuperstep \in Nat

Message == [src : Vertex, dst : Vertex, val : Payload, via : {"uc", "bc"}]
Broadcast == [src : Vertex, val : Payload]
Sends == [uc : Seq(Message), bc : Seq(Broadcast)]
Answer == [processed : Nat, numMsg : Nat, numMsgN : Nat]
Mail == [step : Nat, of : [Vertex -> SUBSET Message]]

VARIABLES
  pc,       \* where run is at the place
  i,        \* the worker its loop over the workers has come to
  ss,       \* the superstep
  waiting,  \* the workers whose answer waitSuperStepOnThread still waits for
  broken,   \* an assertion of waitSuperStepOnThread failed
  got,      \* got[w]: the answer of w, as the place has read it
  ucc, bcc, \* mUCCMessages, and mBCCHasMessage with mBCCMessages
  shm,      \* the segments message.values and message.offsets
  closed,   \* the workers whose stdin and stdout the place has closed
  wpc,      \* where each worker is
  stdin,    \* stdin[w]: the commands in the pipe
  stdout,   \* stdout[w]: the answers in the pipe
  wss,      \* the superstep of the last command w has read
  view,     \* view[w]: the received messages w has mapped
  left,     \* left[w]: the vertices of its range w has not computed yet
  out,      \* out[w]: what w has sent, in its own memory
  seg       \* seg[w]: the segments sendMsg* of w

placeVars  == <<pc, i, ss, waiting, broken, got, ucc, bcc, shm, closed>>
workerVars == <<wpc, wss, view, left, out, seg>>
vars == <<placeVars, workerVars, stdin, stdout>>

-----------------------------------------------------------------------------
\* round((a + b - 1) / b - 0.5), where round takes a half to the even neighbour.
Chunks(a, b) ==
  LET n == a + b - 1
      q == n \div b
  IN  IF n % b = 0 /\ q % 2 = 1 THEN q - 1 ELSE q

AtMost(a, b) == IF a <= b THEN a ELSE b

numWords == Chunks(NumVertexes, BitsPerWord)
chunkWords == LET c == Chunks(numWords, NumThreads) IN IF c < 1 THEN 1 ELSE c

\* Mutant: the last word is counted twice.
RangeInclusive(w) ==
  LET lo == AtMost(numWords, w * chunkWords)
      hi == AtMost(numWords, lo + chunkWords)
  IN  {v \in Vertex : lo * BitsPerWord <= v /\ v <= hi * BitsPerWord}

\* rangeThreadLocalVertices
RangeOf(w) ==
  LET lo == AtMost(numWords, w * chunkWords)
      hi == AtMost(numWords, lo + chunkWords)
  IN  {v \in Vertex : lo * BitsPerWord <= v /\ v < hi * BitsPerWord}

NoMail(s) == [step |-> s, of |-> [v \in Vertex |-> {}]]
NoSends == [uc |-> <<>>, bc |-> <<>>]

Init ==
  /\ pc = "fork" /\ i = 0 /\ ss = 0
  /\ waiting = {} /\ broken = FALSE
  /\ got = [w \in Worker |-> [processed |-> 0, numMsg |-> 0, numMsgN |-> 0]]
  /\ ucc = {} /\ bcc = {}
  /\ shm = NoMail(0)
  /\ closed = {}
  /\ wpc = [w \in Worker |-> "none"]
  /\ stdin = [w \in Worker |-> <<>>]
  /\ stdout = [w \in Worker |-> <<>>]
  /\ wss = [w \in Worker |-> -1]
  /\ view = [w \in Worker |-> NoMail(0)]
  /\ left = [w \in Worker |-> {}]
  /\ out = [w \in Worker |-> NoSends]
  /\ seg = [w \in Worker |-> NoSends]

\* The next worker of a loop over the workers, or the stage after the loop.
Advance(stage) ==
  IF i < NumThreads - 1 THEN i' = i + 1 /\ UNCHANGED pc
                        ELSE i' = 0 /\ pc' = stage

(***************************************************************************)
(* The place.                                                              *)
(***************************************************************************)
Fork ==
  /\ pc = "fork"
  /\ wpc' = [wpc EXCEPT ![i] = "idle"]
  /\ Advance("command")
  /\ UNCHANGED <<ss, waiting, broken, got, ucc, bcc, shm, closed, wss, view, left,
                 out, seg, stdin, stdout>>

\* pipe or fork fails: run prints the exception and returns.
ForkFails ==
  /\ MayFail /\ pc = "fork"
  /\ pc' = "gaveup"
  /\ UNCHANGED <<i, ss, waiting, broken, got, ucc, bcc, shm, closed, workerVars,
                 stdin, stdout>>

\* The command is written to the stdin of worker i.
Command ==
  /\ pc = "command" /\ wpc[i] # "died"
  /\ stdin' = [stdin EXCEPT ![i] = Append(@, ss)]
  /\ waiting' = Worker
  /\ Advance("wait")
  /\ UNCHANGED <<ss, broken, got, ucc, bcc, shm, closed, workerVars, stdout>>

\* Nobody reads the pipe of a dead worker: SIGPIPE, or, where it is ignored, an
\* exception that ends the loop.
CommandFails ==
  /\ pc = "command" /\ wpc[i] = "died"
  /\ pc' \in {"threw", "wait"}
  /\ i' = 0
  /\ waiting' = Worker
  /\ UNCHANGED <<ss, broken, got, ucc, bcc, shm, closed, workerVars, stdin, stdout>>

\* Mutant: the answers of the workers are not all waited for.
ReadFirstAnswer(w) ==
  /\ pc = "wait" /\ w \in waiting /\ stdout[w] # <<>>
  /\ got' = [got EXCEPT ![w] = Head(stdout[w])]
  /\ stdout' = [stdout EXCEPT ![w] = Tail(@)]
  /\ waiting' = {}
  /\ UNCHANGED <<pc, i, ss, broken, ucc, bcc, shm, closed, workerVars, stdin>>

\* waitSuperStepOnThread(w) has read all values of the answer.
ReadAnswer(w) ==
  /\ pc = "wait" /\ w \in waiting /\ stdout[w] # <<>>
  /\ got' = [got EXCEPT ![w] = Head(stdout[w])]
  /\ stdout' = [stdout EXCEPT ![w] = Tail(@)]
  /\ waiting' = waiting \ {w}
  /\ UNCHANGED <<pc, i, ss, broken, ucc, bcc, shm, closed, workerVars, stdin>>

\* Reading from a dead worker returns zero bytes and no error.  What is in the
\* buffers was not written: an assertion about the size fails, or any number is
\* taken for the answer, here one that stays within the segments.
ReadNothing(w) ==
  /\ pc = "wait" /\ w \in waiting /\ stdout[w] = <<>> /\ wpc[w] = "died"
  /\ waiting' = waiting \ {w}
  /\ \/ broken' = TRUE /\ UNCHANGED got
     \/ \E n \in 0 .. Len(seg[w].uc), k \in 0 .. Len(seg[w].bc) :
          /\ got' = [got EXCEPT ![w] =
                       [processed |-> 0, numMsg |-> n, numMsgN |-> k]]
          /\ UNCHANGED broken
  /\ UNCHANGED <<pc, i, ss, ucc, bcc, shm, closed, workerVars, stdin, stdout>>

\* The exception of an async leaves finish, and run, when all asyncs are over.
Throw ==
  /\ pc = "wait" /\ waiting = {} /\ broken
  /\ pc' = "threw"
  /\ UNCHANGED <<i, ss, waiting, broken, got, ucc, bcc, shm, closed, workerVars,
                 stdin, stdout>>

\* importSentMessagesOnShmem, worker by worker: the k-th broadcast in a segment is
\* taken for one of vertex k - 1 (mSrcid = i), the source ids read are not used, and
\* the last worker with so many of them is the one whose broadcast remains.  Past
\* the vertices an array with bounds checks throws, and one without them, as in the
\* Makefile's build, is written behind its end, where nobody looks.
Import ==
  /\ pc = "wait" /\ waiting = {} /\ ~broken
  /\ ucc' = UNION {{seg[w].uc[k] : k \in 1 .. got[w].numMsg} : w \in Worker}
  /\ bcc' = UNION {{[src |-> k - 1, val |-> seg[w].bc[k].val] :
                      k \in {n \in 1 .. got[w].numMsgN :
                               n <= NumVertexes /\ \A x \in Worker : x > w => got[x].numMsgN < n}} :
                   w \in Worker}
  /\ pc' \in IF \E w \in Worker : got[w].numMsgN > NumVertexes THEN {"decide", "threw"}
                                                               ELSE {"decide"}
  /\ UNCHANGED <<i, ss, waiting, broken, got, shm, closed, workerVars, stdin, stdout>>

\* The messages the broadcasts bs stand for.
Spread(bs) ==
  UNION {{[src |-> b.src, dst |-> v, val |-> b.val, via |-> "bc"] :
            v \in OutEdge[b.src]} : b \in bs}

\* Few broadcasts are sent as unicast messages.
numBroadcasts == Cardinality(UNION {{w} \X (1 .. got[w].numMsgN) : w \in Worker})
Optimized == 0 < numBroadcasts /\ numBroadcasts < DirectionLimit
Unicasts == IF Optimized THEN ucc \cup Spread(bcc) ELSE ucc
Broadcasts == IF Optimized THEN {} ELSE bcc

\* The terminator says so, or no vertex was processed and nothing was sent.
Terminate ==
  /\ pc = "decide"
  /\ \/ TRUE \in EndChoice
     \/ /\ \A w \in Worker : got[w].processed = 0
        /\ Unicasts = {} /\ (Optimized \/ numBroadcasts = 0)
  /\ pc' = "close"
  /\ ucc' = {} /\ bcc' = {}
  /\ UNCHANGED <<i, ss, waiting, broken, got, shm, closed, workerVars, stdin, stdout>>

\* process, exchangeMessages and exportShmemReceivedMessages, up to the next
\* command or to the end of the loop, after which the workers are left alone.
Export ==
  /\ pc = "decide"
  /\ FALSE \in EndChoice
  /\ (\E w \in Worker : got[w].processed # 0) \/ Unicasts # {} \/ (~Optimized /\ numBroadcasts # 0)
  /\ shm' = LET sent == IF Unicasts # {} THEN Unicasts ELSE Spread(Broadcasts)
            IN  [step |-> ss + 1, of |-> [v \in Vertex |-> {m \in sent : m.dst = v}]]
  /\ ucc' = {} /\ bcc' = {}
  /\ ss' = ss + 1
  /\ pc' = IF ss < MaxSuperstep THEN "command" ELSE "limit"
  /\ UNCHANGED <<i, waiting, broken, got, closed, workerVars, stdin, stdout>>

\* stdin and stdout of worker i are closed.
Close ==
  /\ pc = "close"
  /\ closed' = closed \cup {i}
  /\ Advance("done")
  /\ UNCHANGED <<ss, waiting, broken, got, ucc, bcc, shm, workerVars, stdin, stdout>>

(***************************************************************************)
(* The workers.                                                            *)
(***************************************************************************)
\* Mutant: the messages mapped for the first superstep are kept.
ReadCommandKeeping(w) ==
  /\ wpc[w] = "idle" /\ stdin[w] # <<>>
  /\ stdin' = [stdin EXCEPT ![w] = Tail(@)]
  /\ wss' = [wss EXCEPT ![w] = Head(stdin[w])]
  /\ left' = [left EXCEPT ![w] = RangeOf(w)]
  /\ out' = [out EXCEPT ![w] = NoSends]
  /\ wpc' = [wpc EXCEPT ![w] = "compute"]
  /\ UNCHANGED <<placeVars, view, seg, stdout>>

\* A line of stdin, and beforeSuperstep.
ReadCommand(w) ==
  /\ wpc[w] = "idle" /\ stdin[w] # <<>>
  /\ stdin' = [stdin EXCEPT ![w] = Tail(@)]
  /\ wss' = [wss EXCEPT ![w] = Head(stdin[w])]
  /\ view' = [view EXCEPT ![w] = shm]
  /\ left' = [left EXCEPT ![w] = RangeOf(w)]
  /\ out' = [out EXCEPT ![w] = NoSends]
  /\ wpc' = [wpc EXCEPT ![w] = "compute"]
  /\ UNCHANGED <<placeVars, seg, stdout>>

\* compute is called on the next vertex of the range, active or not.
Compute(w) ==
  /\ wpc[w] = "compute" /\ left[w] # {}
  /\ LET v == CHOOSE u \in left[w] : \A x \in left[w] : u <= x IN
     /\ \E e \in Program[v] :
          LET uc == SetToSeq({[src |-> v, dst |-> m[1], val |-> m[2], via |-> "uc"] : m \in e.uc})
              bc == [k \in DOMAIN e.bc |-> [src |-> v, val |-> e.bc[k]]]
          IN  out' = [out EXCEPT ![w] = [uc |-> @.uc \o uc, bc |-> @.bc \o bc]]
     /\ left' = [left EXCEPT ![w] = @ \ {v}]
  /\ UNCHANGED <<placeVars, wpc, wss, view, seg, stdin, stdout>>

\* Mutant: the segments are not emptied first.
WriteSegmentsAppending(w) ==
  /\ wpc[w] = "compute" /\ left[w] = {}
  /\ seg' = [seg EXCEPT ![w] = [uc |-> @.uc \o out[w].uc, bc |-> @.bc \o out[w].bc]]
  /\ wpc' = [wpc EXCEPT ![w] = "answer"]
  /\ UNCHANGED <<placeVars, wss, view, left, out, stdin, stdout>>

\* The segments are made anew and filled.
WriteSegments(w) ==
  /\ wpc[w] = "compute" /\ left[w] = {}
  /\ seg' = [seg EXCEPT ![w] = out[w]]
  /\ wpc' = [wpc EXCEPT ![w] = "answer"]
  /\ UNCHANGED <<placeVars, wss, view, left, out, stdin, stdout>>

\* Mutant: nothing is answered when nothing was sent.
WriteAnswerIfSent(w) ==
  /\ wpc[w] = "answer"
  /\ stdout' = IF out[w] = NoSends THEN stdout ELSE [stdout EXCEPT ![w] = Append(@,
       [processed |-> Cardinality(RangeOf(w)), numMsg |-> Len(out[w].uc),
        numMsgN |-> Len(out[w].bc)])]
  /\ wpc' = [wpc EXCEPT ![w] = "idle"]
  /\ UNCHANGED <<placeVars, wss, view, left, out, seg, stdin>>

\* The aggregated value and three numbers, each after its size.
WriteAnswer(w) ==
  /\ wpc[w] = "answer"
  /\ stdout' = [stdout EXCEPT ![w] = Append(@,
       [processed |-> Cardinality(RangeOf(w)), numMsg |-> Len(out[w].uc),
        numMsgN |-> Len(out[w].bc)])]
  /\ wpc' = [wpc EXCEPT ![w] = "idle"]
  /\ UNCHANGED <<placeVars, wss, view, left, out, seg, stdin>>

\* compute, the aggregator or the conversion of its value raises.
Die(w) ==
  /\ MayFail /\ wpc[w] \in {"compute", "answer"}
  /\ wpc' = [wpc EXCEPT ![w] = "died"]
  /\ UNCHANGED <<placeVars, wss, view, left, out, seg, stdin, stdout>>

\* Mutant: the worker keeps its own copy of the write end open.
LeaveNever(w) ==
  /\ wpc[w] = "idle" /\ stdin[w] = <<>> /\ w \in closed
  /\ \A x \in Worker : x >= w => wpc[x] \in {"none", "gone", "died"}
  /\ wpc' = [wpc EXCEPT ![w] = "gone"]
  /\ UNCHANGED <<placeVars, wss, view, left, out, seg, stdin, stdout>>

\* The end of stdin: nobody holds its write end any more.
Leave(w) ==
  /\ wpc[w] = "idle" /\ stdin[w] = <<>> /\ w \in closed
  /\ \A x \in Worker : x > w => wpc[x] \in {"none", "gone", "died"}
  /\ wpc' = [wpc EXCEPT ![w] = "gone"]
  /\ UNCHANGED <<placeVars, wss, view, left, out, seg, stdin, stdout>>

-----------------------------------------------------------------------------
PlaceStep == \/ Fork \/ ForkFails \/ Command \/ CommandFails \/ Throw
             \/ Import \/ Terminate \/ Export \/ Close
AnswerStep(w) == ReadAnswer(w) \/ ReadNothing(w)
WorkerStep(w) == \/ ReadCommand(w) \/ Compute(w) \/ WriteSegments(w)
                 \/ WriteAnswer(w) \/ Leave(w)

Next == \/ PlaceStep
        \/ \E w \in Worker : AnswerStep(w) \/ WorkerStep(w) \/ Die(w)

\* Processes run until they block, and so do the asyncs of the place.
Fairness == /\ WF_vars(PlaceStep)
            /\ \A w \in Worker : WF_vars(AnswerStep(w)) /\ WF_vars(WorkerStep(w))

Spec == Init /\ [][Next]_vars /\ Fairness
-----------------------------------------------------------------------------
died == {w \in Worker : wpc[w] = "died"}

\* A worker that computes has mapped the messages of the superstep it was asked
\* for, which is the one the place is in, and they have not been replaced under
\* it, even if other workers have died.
FreshMessages ==
  \A w \in Worker : wpc[w] \in {"compute", "answer"} =>
    wss[w] = ss /\ view[w] = shm /\ shm.step = ss

\* While a segment is read nobody writes it, and the number of messages read from
\* it is the one its worker put there: no message is imported twice or cut off.
ImportsWhatWasSent ==
  pc = "wait" /\ waiting = {} /\ ~broken =>
    \A w \in Worker \ died :
      /\ wpc[w] = "idle" /\ stdin[w] = <<>> /\ stdout[w] = <<>> /\ wss[w] = ss
      /\ got[w].numMsg = Len(seg[w].uc) /\ got[w].numMsgN = Len(seg[w].bc)

\* Between the place and worker w nothing is under way.
Quiet(w) ==
  stdin[w] = <<>> /\ stdout[w] = <<>> /\ wpc[w] \notin {"compute", "answer"}

\* The numbers of the answer a are those of the messages in the segments of w.
Tells(a, w) == a.numMsg = Len(seg[w].uc) /\ a.numMsgN = Len(seg[w].bc)

\* A worker has a command to read, or works at it, or has answered it, or nothing.
Turns(w) ==
  /\ stdin[w] # <<>> =>
       stdin[w] = <<ss>> /\ stdout[w] = <<>> /\ wpc[w] = "idle"
  /\ stdout[w] # <<>> =>
       /\ stdout[w] = <<stdout[w][1]>> /\ Tells(stdout[w][1], w)
       /\ wpc[w] = "idle" /\ wss[w] = ss
  /\ wpc[w] \in {"compute", "answer"} => wss[w] = ss /\ view[w] = shm
  /\ wpc[w] = "answer" => seg[w] = out[w]

\* Workers whose turn is over, or has not come, are quiet.
Rests ==
  /\ pc \in {"fork", "gaveup", "decide", "close", "done", "limit"} =>
       \A w \in Worker : Quiet(w)
  /\ pc = "command" => \A w \in Worker : w >= i => Quiet(w)
  /\ pc = "wait" => \A w \in Worker \ waiting :
       Quiet(w) /\ (wpc[w] # "died" => wss[w] = ss /\ Tells(got[w], w))

\* There is a worker to be asked, from the fork until the pipes are closed.
Exist ==
  \A w \in Worker :
    /\ wpc[w] = "none" => pc = "gaveup" \/ (pc = "fork" /\ w >= i)
    /\ closed # {} \/ wpc[w] = "gone" => pc \in {"close", "done"}

\* The place and every worker take turns, whichever of them have failed: what
\* FreshMessages and ImportsWhatWasSent rest on, and inductive with the types.
TurnsInv ==
  /\ \A w \in Worker : Turns(w)
  /\ Rests /\ Exist
  /\ shm.step = ss

\* Unless something fails, the run ends: the place never waits for a worker that
\* waits for the place.
RunEnds == <>(pc \in {"done", "limit", "threw", "gaveup"} \/ died # {})

\* After the run has terminated every worker ends, although the later workers hold
\* the pipes of the earlier ones open.
WorkersEnd == pc = "done" ~> \A w \in Worker : wpc[w] \in {"gone", "died"}
=============================================================================
