---------------------------- MODULE PyWorkersProofs ----------------------------
(***************************************************************************)
(* What holds of the Python engine for every number of workers, graph and  *)
(* program, with failures and without, and in how far it implements        *)
(* Supersteps.                                                             *)
(***************************************************************************)
EXTENDS PyWorkersRefinement, SequenceTheorems, DataLemmas

-----------------------------------------------------------------------------
(***************************************************************************)
(* Shapes: which variables are functions on the workers, and the stages.   *)
(***************************************************************************)
OfWorkers(f) == f = [w \in Worker |-> f[w]]

WpcShape == wpc \in [Worker -> {"none", "idle", "compute", "answer", "gone", "died"}]

Shape ==
  /\ i \in Worker /\ ss \in Nat /\ waiting \subseteq Worker
  /\ WpcShape
  /\ OfWorkers(got) /\ OfWorkers(stdin) /\ OfWorkers(stdout)
  /\ OfWorkers(wss) /\ OfWorkers(view) /\ OfWorkers(out) /\ OfWorkers(seg)

Inductive == Shape /\ TurnsInv

LEMMA WorkerZero == 0 \in Worker /\ \A w \in Worker : w \in Int /\ w <= NumThreads - 1
BY PyAssumption DEF Worker

\* What is under way is one command or one answer.
LEMMA One ==
  ASSUME NEW a
  PROVE  /\ Head(<<a>>) = a /\ Tail(<<a>>) = << >> /\ Append(<< >>, a) = <<a>>
         /\ <<a>> # << >> /\ <<a>>[1] = a
OBVIOUS

LEMMA NextWorker ==
  ASSUME NEW stage, i \in Worker, Advance(stage)
  PROVE  /\ i' \in Worker
         /\ \/ i' = i + 1 /\ pc' = pc
            \/ i = NumThreads - 1 /\ i' = 0 /\ pc' = stage
BY PyAssumption DEF Advance, Worker

LEMMA InitInductive == Init => Inductive
<1> SUFFICES ASSUME Init PROVE Inductive
  OBVIOUS
<1>1. Shape
  BY WorkerZero DEF Init, Shape, WpcShape, OfWorkers
<1>2. ASSUME NEW w \in Worker
      PROVE  pc = "fork" /\ w >= i /\ closed = {} /\ wpc[w] = "none"
             /\ stdin[w] = << >> /\ stdout[w] = << >>
  BY WorkerZero DEF Init, Worker
<1>3. shm.step = ss
  BY DEF Init, NoMail
<1> QED
  BY <1>1, <1>2, <1>3 DEF Init, Inductive, TurnsInv, Turns, Rests, Exist, Quiet

-----------------------------------------------------------------------------
(***************************************************************************)
(* Steps of one worker: nothing of the others changes.                     *)
(***************************************************************************)
\* Another worker's variables, and what its turn depends on, stay as they are.
Other(x) ==
  /\ ss' = ss /\ shm' = shm
  /\ wpc'[x] = wpc[x] /\ stdin'[x] = stdin[x] /\ stdout'[x] = stdout[x]
  /\ wss'[x] = wss[x] /\ view'[x] = view[x] /\ out'[x] = out[x] /\ seg'[x] = seg[x]

LEMMA OtherTurns ==
  ASSUME NEW x, Other(x)
  PROVE  /\ Turns(x) => Turns(x)'
         /\ Quiet(x) => Quiet(x)'
         /\ got'[x] = got[x] /\ Tells(got[x], x) => Tells(got[x], x)'
BY DEF Other, Turns, Quiet, Tells

\* A step of w, which was not quiet before, that leaves its turn in order.
LEMMA BusyWorker ==
  ASSUME Inductive, NEW w \in Worker, UNCHANGED placeVars, Shape',
         \A x \in Worker \ {w} : Other(x),
         ~Quiet(w), Turns(w)', wpc'[w] \notin {"none", "gone"}
  PROVE  Inductive'
<1>1. TurnsInv /\ (pc' = pc /\ i' = i /\ waiting' = waiting /\ got' = got /\ closed' = closed
                   /\ shm' = shm /\ ss' = ss)
  BY DEF Inductive, placeVars
<1>2. \A x \in Worker : Turns(x)'
  BY <1>1, OtherTurns DEF TurnsInv
<1>3. Rests'
  <2>1. \A x \in Worker \ {w} : Quiet(x) => Quiet(x)'
    BY OtherTurns
  <2>2. \A x \in Worker \ {w} : wpc'[x] = wpc[x] /\ wss'[x] = wss[x]
                                /\ (Tells(got[x], x) => Tells(got[x], x)')
    BY <1>1, OtherTurns DEF Other
  <2>3. pc = "wait" => w \in waiting
    BY <1>1 DEF TurnsInv, Rests
  <2>4. pc \notin {"fork", "gaveup", "decide", "close", "done", "limit"}
    BY <1>1 DEF TurnsInv, Rests
  <2>5. pc = "command" => ~(w >= i)
    BY <1>1 DEF TurnsInv, Rests
  <2> QED
    BY <1>1, <2>1, <2>2, <2>3, <2>4, <2>5 DEF TurnsInv, Rests, Tells
<1>4. Exist'
  BY <1>1 DEF TurnsInv, Exist, Other, Rests
<1> QED
  BY <1>1, <1>2, <1>3, <1>4 DEF Inductive, TurnsInv

LEMMA WorkerInductive ==
  ASSUME Inductive, NEW w \in Worker, WorkerStep(w) \/ Die(w)
  PROVE  Inductive'
<1>0. Shape /\ Turns(w) /\ TurnsInv
  BY DEF Inductive, TurnsInv
<1>1. CASE ReadCommand(w)
  <2>1. Shape' /\ UNCHANGED placeVars /\ \A x \in Worker \ {w} : Other(x)
    BY <1>0, <1>1 DEF ReadCommand, Shape, WpcShape, OfWorkers, Other, placeVars
  <2>2. stdin[w] = <<ss>> /\ stdout[w] = << >>
    BY <1>0, <1>1 DEF ReadCommand, Turns
  <2>3. wpc'[w] = "compute" /\ stdin'[w] = << >> /\ stdout'[w] = << >>
        /\ wss'[w] = ss /\ view'[w] = shm
    BY <1>0, <1>1, <2>2, One DEF ReadCommand, Shape, WpcShape, OfWorkers
  <2> QED
    BY <1>1, <2>1, <2>2, <2>3, One, BusyWorker DEF Turns, Quiet, placeVars
<1>2. CASE Compute(w)
  <2>1. Shape' /\ UNCHANGED placeVars /\ \A x \in Worker \ {w} : Other(x)
    BY <1>0, <1>2 DEF Compute, Shape, WpcShape, OfWorkers, Other, placeVars
  <2>2. wpc'[w] = "compute" /\ Turns(w)' /\ ~Quiet(w)
    BY <1>0, <1>2 DEF Compute, Turns, Tells, Quiet, placeVars
  <2> QED
    BY <2>1, <2>2, BusyWorker
<1>3. CASE WriteSegments(w)
  <2>1. Shape' /\ UNCHANGED placeVars /\ \A x \in Worker \ {w} : Other(x)
    BY <1>0, <1>3 DEF WriteSegments, Shape, WpcShape, OfWorkers, Other, placeVars
  <2>2. wpc'[w] = "answer" /\ Turns(w)' /\ ~Quiet(w)
    BY <1>0, <1>3 DEF WriteSegments, Turns, Shape, WpcShape, OfWorkers, Quiet, placeVars
  <2> QED
    BY <2>1, <2>2, BusyWorker
<1>4. CASE WriteAnswer(w)
  <2>1. Shape' /\ UNCHANGED placeVars /\ \A x \in Worker \ {w} : Other(x)
    BY <1>0, <1>4 DEF WriteAnswer, Shape, WpcShape, OfWorkers, Other, placeVars
  <2> DEFINE a == [processed |-> Cardinality(RangeOf(w)), numMsg |-> Len(out[w].uc),
                   numMsgN |-> Len(out[w].bc)]
  <2>2. stdin[w] = << >> /\ stdout[w] = << >> /\ seg[w] = out[w] /\ wss[w] = ss
    BY <1>0, <1>4 DEF WriteAnswer, Turns
  <2>3. wpc'[w] = "idle" /\ stdin'[w] = << >> /\ stdout'[w] = <<a>>
        /\ wss'[w] = ss /\ seg'[w] = out[w] /\ ss' = ss
    BY <1>0, <1>4, <2>2, One DEF WriteAnswer, Shape, WpcShape, OfWorkers, placeVars
  <2>4. a.numMsg = Len(seg[w].uc)' /\ a.numMsgN = Len(seg[w].bc)'
    BY <2>3
  <2>5. Turns(w)'
    <3> HIDE DEF a
    <3> QED
      BY <2>3, <2>4, One DEF Turns, Tells
  <2> QED
    BY <1>4, <2>1, <2>3, <2>5, BusyWorker DEF WriteAnswer, Quiet
<1>5. CASE Die(w)
  <2>1. Shape' /\ UNCHANGED placeVars /\ \A x \in Worker \ {w} : Other(x)
    BY <1>0, <1>5 DEF Die, Shape, WpcShape, OfWorkers, Other, placeVars
  <2>2. wpc'[w] = "died" /\ Turns(w)' /\ ~Quiet(w)
    BY <1>0, <1>5 DEF Die, Turns, Shape, WpcShape, OfWorkers, Quiet
  <2> QED
    BY <2>1, <2>2, BusyWorker
<1>6. CASE Leave(w)
  <2>1. Shape' /\ UNCHANGED placeVars /\ \A x \in Worker \ {w} : Other(x)
    BY <1>0, <1>6 DEF Leave, Shape, WpcShape, OfWorkers, Other, placeVars
  <2>2. pc \in {"close", "done"} /\ \A x \in Worker : Quiet(x)
    BY <1>0, <1>6 DEF Leave, TurnsInv, Exist, Rests
  <2>3. wpc' = [wpc EXCEPT ![w] = "gone"] /\ UNCHANGED <<placeVars, stdin, stdout>>
    BY <1>6 DEF Leave
  <2>4. wpc'[w] = "gone" /\ \A x \in Worker \ {w} : wpc'[x] = wpc[x]
    BY <1>0, <2>3 DEF Shape, WpcShape, OfWorkers
  <2>5. \A x \in Worker : Quiet(x)'
    BY <2>2, <2>3, <2>4 DEF Quiet
  <2>6. \A x \in Worker : Turns(x)'
    BY <2>5, <2>4 DEF Turns, Quiet
  <2>7. Rests' /\ Exist' /\ shm'.step = ss'
    BY <1>0, <2>2, <2>3, <2>4, <2>5 DEF TurnsInv, Rests, Exist, placeVars
  <2> QED
    BY <2>1, <2>6, <2>7 DEF Inductive, TurnsInv
<1> QED
  BY <1>1, <1>2, <1>3, <1>4, <1>5, <1>6 DEF WorkerStep

-----------------------------------------------------------------------------
(***************************************************************************)
(* Steps of the place.                                                     *)
(***************************************************************************)
LEMMA AnswerInductive ==
  ASSUME Inductive, NEW w \in Worker, AnswerStep(w)
  PROVE  Inductive'
<1>0. Shape /\ Turns(w) /\ TurnsInv
  BY DEF Inductive, TurnsInv
<1>1. CASE ReadAnswer(w)
  <2>1. Shape' /\ \A x \in Worker \ {w} : Other(x)
    BY <1>0, <1>1 DEF ReadAnswer, Shape, WpcShape, OfWorkers, Other, workerVars
  <2>2. pc = "wait" /\ pc' = "wait" /\ i' = i /\ ss' = ss /\ shm' = shm /\ closed' = closed
        /\ wpc' = wpc /\ wss' = wss /\ view' = view /\ out' = out /\ seg' = seg
        /\ stdin' = stdin /\ waiting' = waiting \ {w}
    BY <1>1 DEF ReadAnswer, workerVars
  <2>3. stdin[w] = << >> /\ wpc[w] = "idle" /\ wss[w] = ss
        /\ stdout[w] = <<stdout[w][1]>> /\ Tells(stdout[w][1], w)
    BY <1>0, <1>1 DEF ReadAnswer, Turns
  <2>4. stdout'[w] = << >> /\ got'[w] = stdout[w][1]
    BY <1>0, <1>1, <2>3, One DEF ReadAnswer, Shape, WpcShape, OfWorkers
  <2>5. \A x \in Worker \ {w} : got'[x] = got[x]
    BY <1>0, <1>1 DEF ReadAnswer, Shape, WpcShape, OfWorkers
  <2>6. Turns(w)' /\ Quiet(w)' /\ Tells(got[w], w)' /\ wss'[w] = ss'
    BY <2>2, <2>3, <2>4 DEF Turns, Quiet, Tells
  <2>7. \A x \in Worker : Turns(x)'
    BY <1>0, <2>1, <2>6, OtherTurns DEF TurnsInv
  <2>8. Rests'
    <3>1. ASSUME NEW x \in Worker \ waiting', x # w
          PROVE  (Quiet(x) /\ (wpc[x] # "died" => wss[x] = ss /\ Tells(got[x], x)))'
      BY <1>0, <2>1, <2>2, <2>5, <3>1, OtherTurns DEF TurnsInv, Rests, Tells
    <3> QED
      BY <2>2, <2>6, <3>1 DEF Rests
  <2> QED
    BY <1>0, <2>1, <2>2, <2>7, <2>8 DEF Inductive, TurnsInv, Exist
<1>2. CASE ReadNothing(w)
  <2>1. pc = "wait" /\ pc' = "wait" /\ i' = i /\ ss' = ss /\ shm' = shm /\ closed' = closed
        /\ waiting' = waiting \ {w} /\ UNCHANGED <<workerVars, stdin, stdout>>
    BY <1>2 DEF ReadNothing
  <2>2. wpc[w] = "died" /\ Quiet(w)
    BY <1>0, <1>2 DEF ReadNothing, Turns, Quiet
  <2>3. OfWorkers(got)' /\ \A x \in Worker \ {w} : got'[x] = got[x]
    BY <1>0, <1>2 DEF ReadNothing, Shape, WpcShape, OfWorkers
  <2>4. Shape'
    BY <1>0, <2>1, <2>3 DEF Shape, WpcShape, OfWorkers, workerVars
  <2>5. \A x \in Worker : Turns(x)'
    BY <1>0, <2>1 DEF TurnsInv, Turns, Tells, workerVars
  <2>6. Rests'
    BY <1>0, <2>1, <2>2, <2>3 DEF TurnsInv, Rests, Quiet, Tells, workerVars
  <2> QED
    BY <1>0, <2>1, <2>4, <2>5, <2>6 DEF Inductive, TurnsInv, Exist, workerVars
<1> QED
  BY <1>1, <1>2 DEF AnswerStep

\* What the workers have and what their turns depend on stays as it is.
Apart == UNCHANGED <<workerVars, stdin, stdout, ss, shm>>

LEMMA ApartTurns ==
  ASSUME Inductive, Apart
  PROVE  /\ \A w \in Worker : Turns(w)' /\ Quiet(w)' = Quiet(w)
         /\ \A w \in Worker : got'[w] = got[w] => Tells(got[w], w)' = Tells(got[w], w)
         /\ shm'.step = ss'
         /\ i' \in Worker /\ waiting' \subseteq Worker /\ got' = got => Shape'
BY DEF Apart, Inductive, TurnsInv, Turns, Quiet, Tells, Shape, WpcShape, OfWorkers, workerVars

LEMMA PlaceInductive ==
  ASSUME Inductive, PlaceStep
  PROVE  Inductive'
<1>0. Shape /\ TurnsInv /\ i \in Worker
  BY DEF Inductive, Shape, WpcShape
<1>1. CASE Fork
  <2>1. pc = "fork" /\ Advance("command")
        /\ UNCHANGED <<ss, waiting, got, shm, closed, wss, view, out, seg, stdin, stdout>>
    BY <1>1 DEF Fork
  <2>2. wpc'[i] = "idle" /\ WpcShape' /\ \A w \in Worker \ {i} : wpc'[w] = wpc[w]
    BY <1>0, <1>1 DEF Fork, Shape, WpcShape, OfWorkers
  <2>3. \A w \in Worker : Quiet(w) /\ Quiet(w)'
    BY <1>0, <2>1, <2>2 DEF TurnsInv, Rests, Quiet
  <2>4. \A w \in Worker : Turns(w)'
    BY <2>3 DEF Turns, Quiet
  <2>5. Shape'
    BY <1>0, <2>1, <2>2, NextWorker DEF Shape, WpcShape, OfWorkers
  <2>6. pc' \in {"fork", "command"}
    BY <1>0, <2>1, NextWorker
  <2>7. Rests'
    BY <2>3, <2>6 DEF Rests
  <2>8. Exist'
    BY <1>0, <2>1, <2>2, NextWorker, WorkerZero DEF TurnsInv, Exist
  <2> QED
    BY <1>0, <2>1, <2>4, <2>5, <2>7, <2>8 DEF Inductive, TurnsInv
<1>2. CASE ForkFails
  <2>1. Apart /\ pc = "fork" /\ pc' = "gaveup" /\ UNCHANGED <<i, waiting, got, closed>>
    BY <1>2 DEF ForkFails, Apart
  <2> QED
    BY <1>0, <2>1, ApartTurns
       DEF Inductive, TurnsInv, Shape, WpcShape, Rests, Exist, Apart, workerVars
<1>3. CASE Command
  <2>1. pc = "command" /\ wpc[i] # "died" /\ Advance("wait") /\ waiting' = Worker
        /\ UNCHANGED <<ss, got, shm, closed, wpc, wss, view, out, seg, stdout>>
    BY <1>3 DEF Command, workerVars
  <2>2. Quiet(i) /\ closed = {} /\ wpc[i] = "idle"
    <3>1. Quiet(i) /\ closed = {} /\ wpc[i] \notin {"none", "gone"}
      BY <1>0, <2>1, WorkerZero DEF TurnsInv, Rests, Exist
    <3> QED
      BY <1>0, <2>1, <3>1 DEF Shape, WpcShape, Quiet
  <2>3. OfWorkers(stdin)' /\ \A w \in Worker \ {i} : stdin'[w] = stdin[w]
    BY <1>0, <1>3 DEF Command, Shape, WpcShape, OfWorkers
  <2>4. stdin'[i] = <<ss>> /\ stdin'[i] # << >>
    <3>1. stdin'[i] = Append(stdin[i], ss)
      BY <1>0, <1>3 DEF Command, Shape, WpcShape, OfWorkers
    <3> QED
      BY <2>2, <3>1, One DEF Quiet
  <2>5. \A w \in Worker : Turns(w)'
    <3>1. ASSUME NEW w \in Worker, w = i PROVE Turns(w)'
      BY <3>1, <2>1, <2>2, <2>4 DEF Turns, Quiet
    <3>2. ASSUME NEW w \in Worker \ {i} PROVE Other(w)
      BY <2>1, <2>3 DEF Other
    <3> QED
      BY <1>0, <3>1, <3>2, OtherTurns DEF TurnsInv
  <2>6. Rests'
    <3>1. CASE i' = i + 1 /\ pc' = "command"
      <4>1. \A w \in Worker : w >= i' => w >= i /\ w # i
        BY <1>0, <3>1, WorkerZero
      <4>2. \A w \in Worker : w >= i' => Quiet(w)'
        BY <1>0, <2>1, <2>3, <4>1 DEF TurnsInv, Rests, Quiet
      <4> QED
        BY <3>1, <4>2 DEF Rests
    <3>2. CASE pc' = "wait"
      BY <2>1, <3>2 DEF Rests
    <3> QED
      BY <1>0, <2>1, <3>1, <3>2, NextWorker
  <2>7. Exist'
    BY <1>0, <2>1, NextWorker DEF TurnsInv, Exist
  <2>8. Shape'
    BY <1>0, <2>1, <2>3, NextWorker DEF Shape, WpcShape, OfWorkers
  <2> QED
    BY <1>0, <2>1, <2>5, <2>6, <2>7, <2>8 DEF Inductive, TurnsInv
<1>4. CASE CommandFails
  <2>1. Apart /\ pc = "command" /\ pc' \in {"threw", "wait"} /\ i' = 0 /\ waiting' = Worker
        /\ UNCHANGED <<got, closed>>
    BY <1>4 DEF CommandFails, Apart
  <2>2. Shape' /\ \A w \in Worker : Turns(w)'
    BY <2>1, ApartTurns, WorkerZero
  <2>3. Rests' /\ Exist'
    BY <1>0, <2>1 DEF TurnsInv, Rests, Exist, Apart, workerVars
  <2> QED
    BY <2>1, <2>2, <2>3, ApartTurns DEF Inductive, TurnsInv
<1>5. CASE Throw
  <2>1. Apart /\ pc = "wait" /\ pc' = "threw" /\ UNCHANGED <<i, waiting, got, closed>>
    BY <1>5 DEF Throw, Apart
  <2>2. Shape'
    BY <1>0, <2>1, ApartTurns DEF Shape, WpcShape
  <2>3. Rests' /\ Exist'
    BY <1>0, <2>1 DEF TurnsInv, Rests, Exist, Apart, workerVars
  <2> QED
    BY <2>1, <2>2, <2>3, ApartTurns DEF Inductive, TurnsInv
<1>6. CASE Import
  <2>1. Apart /\ pc = "wait" /\ waiting = {} /\ pc' \in {"decide", "threw"}
        /\ UNCHANGED <<i, waiting, got, closed>>
    BY <1>6 DEF Import, Apart
  <2>2. Shape'
    BY <1>0, <2>1, ApartTurns DEF Shape, WpcShape
  <2>3. \A w \in Worker : Quiet(w)'
    BY <1>0, <2>1, ApartTurns DEF TurnsInv, Rests
  <2>4. Rests' /\ Exist'
    BY <1>0, <2>1, <2>3 DEF TurnsInv, Rests, Exist, Apart, workerVars
  <2> QED
    BY <2>1, <2>2, <2>4, ApartTurns DEF Inductive, TurnsInv
<1>7. CASE Terminate
  <2>1. Apart /\ pc = "decide" /\ pc' = "close" /\ UNCHANGED <<i, waiting, got, closed>>
    BY <1>7 DEF Terminate, Apart
  <2>2. Shape'
    BY <1>0, <2>1, ApartTurns DEF Shape, WpcShape
  <2>3. \A w \in Worker : Quiet(w)'
    BY <1>0, <2>1, ApartTurns DEF TurnsInv, Rests
  <2>4. Rests' /\ Exist'
    BY <1>0, <2>1, <2>3 DEF TurnsInv, Rests, Exist, Apart, workerVars
  <2> QED
    BY <2>1, <2>2, <2>4, ApartTurns DEF Inductive, TurnsInv
<1>8. CASE Export
  <2>1. pc = "decide" /\ pc' \in {"command", "limit"} /\ ss' = ss + 1 /\ shm'.step = ss'
        /\ UNCHANGED <<i, waiting, got, closed, workerVars, stdin, stdout>>
    BY <1>8 DEF Export
  <2>2. Shape'
    BY <1>0, <2>1 DEF Shape, WpcShape, OfWorkers, workerVars
  <2>3. \A w \in Worker : Quiet(w) /\ Quiet(w)'
    BY <1>0, <2>1 DEF TurnsInv, Rests, Quiet, workerVars
  <2>4. \A w \in Worker : Turns(w)'
    BY <2>3 DEF Turns, Quiet
  <2>5. Rests' /\ Exist'
    BY <1>0, <2>1, <2>3 DEF TurnsInv, Rests, Exist, workerVars
  <2> QED
    BY <2>1, <2>2, <2>4, <2>5 DEF Inductive, TurnsInv
<1>9. CASE Close
  <2>1. Apart /\ pc = "close" /\ Advance("done") /\ closed' # {} /\ UNCHANGED <<waiting, got>>
    BY <1>9 DEF Close, Apart
  <2>2. Shape' /\ pc' \in {"close", "done"}
    BY <1>0, <2>1, ApartTurns, NextWorker DEF Shape, WpcShape
  <2>3. \A w \in Worker : Quiet(w)'
    BY <1>0, <2>1, ApartTurns DEF TurnsInv, Rests
  <2>4. Rests' /\ Exist'
    BY <1>0, <2>1, <2>2, <2>3 DEF TurnsInv, Rests, Exist, Apart, workerVars
  <2> QED
    BY <2>1, <2>2, <2>4, ApartTurns DEF Inductive, TurnsInv
<1> QED
  BY <1>1, <1>2, <1>3, <1>4, <1>5, <1>6, <1>7, <1>8, <1>9 DEF PlaceStep

-----------------------------------------------------------------------------
LEMMA NextInductive ==
  ASSUME Inductive, [Next]_vars
  PROVE  Inductive'
<1>1. CASE UNCHANGED vars
  BY <1>1 DEF vars, placeVars, workerVars, Inductive, Shape, WpcShape, OfWorkers, TurnsInv,
              Turns, Rests, Exist, Quiet, Tells
<1> QED
  BY <1>1, PlaceInductive, AnswerInductive, WorkerInductive DEF Next

\* Whatever fails, the place and the workers take turns.
THEOREM TurnsTaken == Spec => []TurnsInv
<1>1. Inductive => TurnsInv
  BY DEF Inductive
<1> QED
  BY <1>1, InitInductive, NextInductive, PTL DEF Spec

\* Nobody computes with messages of another superstep, or with messages that are
\* being replaced.
THEOREM MessagesAreFresh == Spec => []FreshMessages
<1>1. TurnsInv => FreshMessages
  BY DEF TurnsInv, Turns, FreshMessages
<1> QED
  BY <1>1, TurnsTaken, PTL

\* The segments the place imports are complete and nobody writes them.
THEOREM ImportsAreExact == Spec => []ImportsWhatWasSent
<1>1. Inductive => ImportsWhatWasSent
  <2> SUFFICES ASSUME Inductive, pc = "wait", waiting = {}, NEW w \in Worker, wpc[w] # "died"
               PROVE  /\ wpc[w] = "idle" /\ stdin[w] = << >> /\ stdout[w] = << >>
                      /\ wss[w] = ss
                      /\ got[w].numMsg = Len(seg[w].uc) /\ got[w].numMsgN = Len(seg[w].bc)
    BY DEF ImportsWhatWasSent, died
  <2>1. Quiet(w) /\ wss[w] = ss /\ Tells(got[w], w)
    BY DEF Inductive, TurnsInv, Rests
  <2>2. wpc[w] \notin {"none", "gone"}
    BY DEF Inductive, TurnsInv, Exist
  <2> QED
    BY <2>1, <2>2 DEF Inductive, Shape, WpcShape, Quiet, Tells
<1> QED
  BY <1>1, InitInductive, NextInductive, PTL DEF Spec

-----------------------------------------------------------------------------
(***************************************************************************)
(* The ranges of the workers.                                              *)
(***************************************************************************)
LEMMA RangeTypes ==
  /\ numWords \in Int /\ chunkWords \in Nat \ {0}
  /\ \A w \in Worker : w \in Nat /\ RangeOf(w) \subseteq Vertex /\ IsFiniteSet(RangeOf(w))
<1>1. ASSUME NEW a \in Int, NEW b \in Nat \ {0} PROVE Chunks(a, b) \in Int
  BY DEF Chunks
<1>2. numWords \in Int
  BY <1>1, PyAssumption DEF numWords
<1>3. chunkWords \in Nat \ {0}
  <2>1. Chunks(numWords, NumThreads) \in Int
    BY <1>1, <1>2, PyAssumption
  <2> QED
    BY <2>1 DEF chunkWords
<1>4. IsFiniteSet(Vertex)
  BY FS_Interval, PyAssumption DEF Vertex
<1>5. \A w \in Worker : RangeOf(w) \subseteq Vertex
  BY DEF RangeOf
<1>6. \A w \in Worker : IsFiniteSet(RangeOf(w))
  BY <1>4, <1>5, FS_Subset
<1> QED
  BY <1>2, <1>3, <1>5, <1>6, PyAssumption DEF Worker

\* No vertex is in the ranges of two workers.
LEMMA RangesApart ==
  ASSUME NEW w \in Worker, NEW x \in Worker, NEW v \in RangeOf(w), v \in RangeOf(x)
  PROVE  w = x
<1> DEFINE c == chunkWords
           n == numWords
           b == BitsPerWord
           lo(u) == AtMost(n, u * c)
           hi(u) == AtMost(n, lo(u) + c)
<1>1. n \in Int /\ c \in Nat \ {0} /\ b \in Nat \ {0} /\ w \in Nat /\ x \in Nat /\ v \in Nat
  BY RangeTypes, PyAssumption DEF RangeOf, Vertex
<1>2. /\ lo(w) * b <= v /\ v < hi(w) * b
      /\ lo(x) * b <= v /\ v < hi(x) * b
  BY DEF RangeOf
<1> HIDE DEF c, n, b
<1>3. ASSUME NEW s \in Nat, NEW t \in Nat, s < t, lo(t) * b <= v, v < hi(s) * b
      PROVE  FALSE
  <2>1. (s + 1) * c <= t * c
    BY <1>1, <1>3
  <2>2. (s + 1) * c = s * c + c /\ s * c \in Nat /\ t * c \in Nat
    BY <1>1
  <2>3. lo(t) \in Int /\ hi(s) \in Int /\ hi(s) <= lo(t)
    BY <1>1, <2>1, <2>2 DEF AtMost
  <2> HIDE DEF lo, hi
  <2>4. hi(s) * b <= lo(t) * b /\ hi(s) * b \in Int /\ lo(t) * b \in Int
    BY <1>1, <2>3
  <2> QED
    BY <1>1, <1>3, <2>4
<1> HIDE DEF lo, hi
<1>4. ~ w < x
  BY <1>1, <1>2, <1>3
<1>5. ~ x < w
  BY <1>1, <1>2, <1>3
<1> QED
  BY <1>1, <1>4, <1>5

-----------------------------------------------------------------------------
(***************************************************************************)
(* While no worker is dead, all is well.                                   *)
(***************************************************************************)
LEMMA InitSuperstepInv == Init => SuperstepInv
<1> SUFFICES ASSUME Init PROVE SuperstepInv
  OBVIOUS
<1>1. /\ pc = "fork" /\ ss = 0 /\ ~broken /\ ucc = {} /\ bcc = {} /\ left = [w \in Worker |-> {}]
      /\ \A w \in Worker : /\ wpc[w] = "none" /\ wss[w] = -1 /\ stdin[w] = <<>> /\ stdout[w] = <<>>
                           /\ left[w] = {} /\ out[w] = NoSends
  BY DEF Init
<1>2. died = {}
  BY <1>1 DEF died
<1>3. Holds /\ left \in [Worker -> SUBSET Vertex]
  BY <1>1 DEF Holds
<1>4. ASSUME NEW w \in Worker PROVE WellOf(w)
  <2>1. StepInTurn(w)
    BY <1>1 DEF StepInTurn
  <2>2. WorkKept(w)
    BY <1>1 DEF WorkKept
  <2>3. SendsOwn(w)
    <3>1. out[w].uc = <<>> /\ out[w].bc = <<>>
      BY <1>1 DEF NoSends
    <3>2. <<>> \in Seq(Unicast) /\ <<>> \in Seq(Broadcast) /\ 1 .. Len(<<>>) = {}
      OBVIOUS
    <3> QED
      BY <3>1, <3>2 DEF SendsOwn
  <2>4. Counted(w)
    BY <1>1 DEF Counted
  <2> QED
    BY <2>1, <2>2, <2>3, <2>4 DEF WellOf
<1> QED
  BY <1>1, <1>2, <1>3, <1>4 DEF SuperstepInv, Well

\* The dead stay dead, and nobody dies before all workers are there.
LEMMA DiedStays ==
  ASSUME Inductive, SuperstepInv, [Next]_vars
  PROVE  /\ died' = {} => died = {}
         /\ pc' = "fork" => died' = {}
<1>1. WpcShape /\ i \in Worker /\ TurnsInv
  BY DEF Inductive, Shape
<1>2. CASE UNCHANGED vars
  BY <1>2 DEF vars, placeVars, workerVars, died, SuperstepInv
<1>3. CASE Fork
  <2>1. died = {} /\ wpc'[i] = "idle" /\ \A w \in Worker \ {i} : wpc'[w] = wpc[w]
    BY <1>1, <1>3 DEF Fork, WpcShape, SuperstepInv
  <2> QED
    BY <2>1 DEF died
<1>4. CASE PlaceStep /\ ~Fork
  <2>1. wpc' = wpc /\ pc' # "fork"
    <3>1. i \in Worker => NumThreads - 1 \in Int /\ i \in Int
      BY PyAssumption DEF Worker
    <3> QED
      BY <1>4, <1>1 DEF PlaceStep, ForkFails, Command, CommandFails, Throw, Import, Terminate, Export,
                   Close, Advance, workerVars
  <2> QED
    BY <2>1 DEF died
<1>5. ASSUME NEW w \in Worker, AnswerStep(w)
      PROVE  wpc' = wpc /\ pc' # "fork"
  BY <1>5 DEF AnswerStep, ReadAnswer, ReadNothing, workerVars
<1>6. ASSUME NEW w \in Worker, WorkerStep(w) \/ Die(w)
      PROVE  died' = {} => died = {}
  <2>1. wpc[w] # "died" /\ \A x \in Worker \ {w} : wpc'[x] = wpc[x]
    BY <1>1, <1>6 DEF WorkerStep, ReadCommand, Compute, WriteSegments, WriteAnswer, Leave, Die, WpcShape
  <2> QED
    BY <2>1 DEF died
<1>7. ASSUME NEW w \in Worker, WorkerStep(w) \/ Die(w)
      PROVE  pc' # "fork"
  <2>1. pc' = pc /\ (pc = "fork" => Quiet(w) /\ closed = {})
    BY <1>1, <1>7 DEF WorkerStep, ReadCommand, Compute, WriteSegments, WriteAnswer, Leave, Die,
                      placeVars, TurnsInv, Rests, Exist
  <2> QED
    BY <1>7, <2>1 DEF WorkerStep, ReadCommand, Compute, WriteSegments, WriteAnswer, Leave, Die, Quiet
<1>8. CASE \E w \in Worker : AnswerStep(w)
  BY <1>5, <1>8 DEF died
<1> QED
  BY <1>2, <1>3, <1>4, <1>6, <1>7, <1>8 DEF Next

-----------------------------------------------------------------------------
(***************************************************************************)
(* The steps of a worker keep all well.                                    *)
(***************************************************************************)
Alone(x) == Other(x) /\ left'[x] = left[x]

LEMMA WellStays ==
  ASSUME NEW x, UNCHANGED placeVars, Alone(x), WellOf(x)
  PROVE  WellOf(x)'
<1>1. pc' = pc /\ i' = i /\ waiting' = waiting /\ got' = got /\ ss' = ss
  BY DEF placeVars
<1>2. StepInTurn(x)'
  BY <1>1 DEF Alone, Other, WellOf, StepInTurn
<1>3. WorkKept(x)'
  BY <1>1 DEF Alone, Other, WellOf, WorkKept
<1>4. SendsOwn(x)'
  BY <1>1 DEF Alone, Other, WellOf, SendsOwn
<1>5. Counted(x)'
  BY <1>1 DEF Alone, Other, WellOf, Counted
<1> QED
  BY <1>2, <1>3, <1>4, <1>5 DEF WellOf

\* The steps of w concern only itself.
LEMMA StepAlone ==
  ASSUME Inductive, Well, NEW w \in Worker, WorkerStep(w)
  PROVE  /\ UNCHANGED placeVars
         /\ left' \in [Worker -> SUBSET Vertex]
         /\ \A x \in Worker \ {w} : Alone(x)
<1>1. Shape /\ left \in [Worker -> SUBSET Vertex]
  BY DEF Inductive, Well
<1>2. CASE ReadCommand(w)
  <2>1. RangeOf(w) \subseteq Vertex
    BY RangeTypes
  <2> QED
    BY <1>1, <1>2, <2>1 DEF ReadCommand, Shape, WpcShape, OfWorkers, Alone, Other, placeVars
<1>3. CASE Compute(w)
  BY <1>1, <1>3 DEF Compute, Shape, WpcShape, OfWorkers, Alone, Other, placeVars
<1>4. CASE WriteSegments(w)
  BY <1>1, <1>4 DEF WriteSegments, Shape, WpcShape, OfWorkers, Alone, Other, placeVars
<1>5. CASE WriteAnswer(w)
  BY <1>1, <1>5 DEF WriteAnswer, Shape, WpcShape, OfWorkers, Alone, Other, placeVars
<1>6. CASE Leave(w)
  BY <1>1, <1>6 DEF Leave, Shape, WpcShape, OfWorkers, Alone, Other, placeVars
<1> QED
  BY <1>2, <1>3, <1>4, <1>5, <1>6 DEF WorkerStep

\* No worker makes a step when the import has thrown.
LEMMA WorkersRest ==
  ASSUME Inductive, Well, NEW w \in Worker, WorkerStep(w)
  PROVE  pc # "threw"
<1> SUFFICES ASSUME pc = "threw" PROVE FALSE
  OBVIOUS
<1>1. Quiet(w) /\ closed = {}
  BY DEF Well, Inductive, TurnsInv, Exist
<1> QED
  BY <1>1 DEF WorkerStep, ReadCommand, Compute, WriteSegments, WriteAnswer, Leave, Quiet

LEMMA OneWorkerWell ==
  ASSUME Inductive, Well, NEW w \in Worker, WorkerStep(w), WellOf(w)'
  PROVE  Well'
<1>1. UNCHANGED placeVars /\ left' \in [Worker -> SUBSET Vertex] /\ \A x \in Worker \ {w} : Alone(x)
  BY StepAlone
<1>2. \A x \in Worker : WellOf(x)'
  BY <1>1, WellStays DEF Well
<1>3. ~broken' /\ pc' = pc /\ Holds' /\ pc # "threw"
  BY <1>1, WorkersRest DEF placeVars, Well, Holds
<1> QED
  BY <1>1, <1>2, <1>3 DEF Well

\* The vertex that is computed next.
NextOf(w) == CHOOSE u \in left[w] : \A x \in left[w] : u <= x

LEMMA NextVertex ==
  ASSUME Well, NEW w \in Worker, left[w] # {}
  PROVE  /\ NextOf(w) \in left[w] /\ \A x \in left[w] : NextOf(w) <= x
         /\ NextOf(w) \in Vertex /\ NextOf(w) \in RangeOf(w)
<1>1. left[w] \subseteq Vertex /\ left[w] \subseteq RangeOf(w)
  BY DEF Well, WellOf, WorkKept
<1>2. Vertex \subseteq Nat
  BY DEF Vertex
<1>3. \E u \in left[w] : \A x \in left[w] : u <= x
  BY <1>1, <1>2, Least
<1> QED
  BY <1>1, <1>3 DEF NextOf

\* What compute sends.
Posts(v, e) == SetToSeq({[src |-> v, dst |-> m[1], val |-> m[2], via |-> "uc"] : m \in e.uc})
Casts(v, e) == [k \in DOMAIN e.bc |-> [src |-> v, val |-> e.bc[k]]]

LEMMA EffectIs ==
  ASSUME NEW v \in Vertex, NEW e \in Program[v]
  PROVE  /\ Posts(v, e) \in Seq(Unicast)
         /\ ToSet(Posts(v, e)) = {[src |-> v, dst |-> m[1], val |-> m[2], via |-> "uc"] : m \in e.uc}
         /\ Casts(v, e) \in Seq(Broadcast) /\ Len(Casts(v, e)) = Len(e.bc)
         /\ \A k \in 1 .. Len(e.bc) : Casts(v, e)[k] = [src |-> v, val |-> e.bc[k]]
         /\ Len(e.bc) \in Nat /\ (e.bc = <<>> <=> Len(e.bc) = 0)
<1>1. e.uc \subseteq Vertex \X Payload /\ IsFiniteSet(e.uc) /\ e.bc \in Seq(Payload)
  BY PyAssumption
<1> DEFINE S == {[src |-> v, dst |-> m[1], val |-> m[2], via |-> "uc"] : m \in e.uc}
<1>2. S \subseteq Unicast
  BY <1>1 DEF Unicast, Message
<1>3. IsFiniteSet(S)
  <2> DEFINE f == [m \in e.uc |-> [src |-> v, dst |-> m[1], val |-> m[2], via |-> "uc"]]
  <2>1. f \in Surjection(e.uc, S)
    BY DEF Surjection
  <2> QED
    BY <1>1, <2>1, FS_Surjection
<1> HIDE DEF S
<1>4. SetToSeq(S) \in Seq(S) /\ ToSet(SetToSeq(S)) = S
  BY <1>3, SetToSeqIs
<1>5. SetToSeq(S) \in Seq(Unicast)
  BY <1>2, <1>4
<1>6. /\ DOMAIN e.bc = 1 .. Len(e.bc) /\ Len(e.bc) \in Nat /\ (e.bc = <<>> <=> Len(e.bc) = 0)
      /\ \A k \in 1 .. Len(e.bc) : e.bc[k] \in Payload
  BY <1>1
<1>7. \A k \in 1 .. Len(e.bc) : [src |-> v, val |-> e.bc[k]] \in Broadcast
  BY <1>6 DEF Broadcast
<1>8. Casts(v, e) = [k \in 1 .. Len(e.bc) |-> [src |-> v, val |-> e.bc[k]]]
  BY <1>6 DEF Casts
<1>9. Casts(v, e) \in Seq(Broadcast) /\ Len(Casts(v, e)) = Len(e.bc)
      /\ \A k \in 1 .. Len(e.bc) : Casts(v, e)[k] = [src |-> v, val |-> e.bc[k]]
  <2> DEFINE m == Len(e.bc)
             g == [k \in 1 .. m |-> [src |-> v, val |-> e.bc[k]]]
  <2>1. g \in [1 .. m -> Broadcast] /\ m \in Nat
    BY <1>6, <1>7
  <2>2. \A k \in 1 .. m : g[k] = [src |-> v, val |-> e.bc[k]]
    OBVIOUS
  <2> HIDE DEF g, m
  <2>3. g \in Seq(Broadcast) /\ Len(g) = m
    BY <2>1
  <2> QED
    BY <1>8, <2>2, <2>3 DEF g, m
<1> QED
  BY <1>4, <1>5, <1>6, <1>9 DEF Posts, S

\* After a compute: w, with the vertex v and the effect e.
Computed(w, v, e) ==
  /\ left'[w] = left[w] \ {v}
  /\ out'[w] = [uc |-> out[w].uc \o Posts(v, e), bc |-> out[w].bc \o Casts(v, e)]
  /\ UNCHANGED <<placeVars, wpc, wss, view, seg, stdin, stdout>>

LEMMA ComputeIs ==
  ASSUME Inductive, Well, NEW w \in Worker, Compute(w)
  PROVE  /\ wpc[w] = "compute" /\ left[w] # {}
         /\ \E e \in Program[NextOf(w)] : Computed(w, NextOf(w), e)
<1>1. Shape /\ left \in [Worker -> SUBSET Vertex]
  BY DEF Inductive, Well
<1>2. PICK e \in Program[NextOf(w)] :
        out' = [out EXCEPT ![w] = [uc |-> @.uc \o Posts(NextOf(w), e),
                                   bc |-> @.bc \o Casts(NextOf(w), e)]]
  BY DEF Compute, NextOf, Posts, Casts
<1>3. left' = [left EXCEPT ![w] = @ \ {NextOf(w)}]
  BY DEF Compute, NextOf
<1>4. UNCHANGED <<placeVars, wpc, wss, view, seg, stdin, stdout>> /\ wpc[w] = "compute" /\ left[w] # {}
  BY DEF Compute
<1>5. Computed(w, NextOf(w), e)
  BY <1>1, <1>2, <1>3, <1>4 DEF Computed, Shape, OfWorkers
<1> QED
  BY <1>4, <1>5

\* What a compute adds are messages of a vertex that is done with it.
LEMMA ComputeSends ==
  ASSUME Inductive, Well, NEW w \in Worker, wpc[w] = "compute", left[w] # {},
         NEW e \in Program[NextOf(w)], Computed(w, NextOf(w), e)
  PROVE  SendsOwn(w)' /\ WorkKept(w)'
<1> DEFINE v == NextOf(w)
           s == out[w].bc
           t == Casts(v, e)
<1>1. v \in left[w] /\ v \in Vertex /\ v \in RangeOf(w)
  BY NextVertex
<1>2. /\ Posts(v, e) \in Seq(Unicast) /\ t \in Seq(Broadcast) /\ Len(t) = Len(e.bc)
      /\ \A k \in 1 .. Len(e.bc) : t[k] = [src |-> v, val |-> e.bc[k]]
  BY <1>1, EffectIs
<1>3. SendsOwn(w) /\ WorkKept(w)
  BY DEF Well, WellOf
<1>4. /\ out'[w].uc = out[w].uc \o Posts(v, e) /\ out'[w].bc = s \o t
      /\ left'[w] = left[w] \ {v} /\ wpc' = wpc /\ wss' = wss /\ seg' = seg /\ ss' = ss
  BY DEF Computed, placeVars
<1>5. out[w].uc \in Seq(Unicast) /\ s \in Seq(Broadcast)
  BY <1>3 DEF SendsOwn
<1> HIDE DEF v, s, t
<1>6. /\ out'[w].uc \in Seq(Unicast) /\ out'[w].bc \in Seq(Broadcast)
      /\ Len(s) \in Nat /\ Len(t) \in Nat /\ Len(s \o t) = Len(s) + Len(t)
      /\ \A k \in 1 .. Len(s) + Len(t) : (s \o t)[k] = IF k <= Len(s) THEN s[k] ELSE t[k - Len(s)]
  <2>1. out'[w].uc \in Seq(Unicast)
    BY <1>2, <1>4, <1>5, ToSetConcat
  <2>2. s \o t \in Seq(Broadcast)
    BY <1>2, <1>5, ToSetConcat
  <2>3. /\ Len(s) \in Nat /\ Len(t) \in Nat /\ Len(s \o t) = Len(s) + Len(t)
        /\ \A k \in 1 .. Len(s) + Len(t) : (s \o t)[k] = IF k <= Len(s) THEN s[k] ELSE t[k - Len(s)]
    <3>1. Len(s) \in Nat /\ Len(t) \in Nat /\ s \in Seq(Broadcast) /\ t \in Seq(Broadcast)
      BY <1>2, <1>5
    <3> QED
      BY <3>1, ConcatProperties
  <2> QED
    BY <1>4, <2>1, <2>2, <2>3
<1>7. ASSUME NEW k \in 1 .. Len(s \o t) PROVE (s \o t)[k].src \in RangeOf(w) \ left'[w]
  <2>1. CASE k <= Len(s)
    <3>1. k \in 1 .. Len(s) /\ (s \o t)[k] = s[k]
      BY <1>6, <2>1
    <3>2. s[k].src \in RangeOf(w) \ left[w]
      BY <1>3, <3>1 DEF SendsOwn, s
    <3> QED
      BY <1>4, <3>1, <3>2
  <2>2. CASE ~ k <= Len(s)
    <3>1. k - Len(s) \in 1 .. Len(e.bc) /\ (s \o t)[k] = t[k - Len(s)]
      BY <1>2, <1>6, <2>2
    <3>2. t[k - Len(s)].src = v
      <4>1. t[k - Len(s)] = [src |-> v, val |-> e.bc[k - Len(s)]]
        BY <1>2, <3>1
      <4> QED
        BY <4>1
    <3> QED
      BY <1>1, <1>4, <3>1, <3>2
  <2> QED
    BY <2>1, <2>2
<1>8. SendsOwn(w)'
  BY <1>4, <1>6, <1>7 DEF SendsOwn
<1>9. WorkKept(w)'
  BY <1>3, <1>4 DEF WorkKept
<1> QED
  BY <1>8, <1>9

LEMMA WorkerWell ==
  ASSUME Inductive, Well, NEW w \in Worker, WorkerStep(w)
  PROVE  Well'
<1>0. Shape /\ Turns(w) /\ WellOf(w) /\ left \in [Worker -> SUBSET Vertex] /\ w \in Nat
  BY RangeTypes DEF Inductive, TurnsInv, Well
<1>1. CASE ReadCommand(w)
  <2>1. stdin[w] = <<ss>> /\ ~Quiet(w) /\ stdin[w] # <<>>
    BY <1>0, <1>1 DEF ReadCommand, Turns, Quiet
  <2>2. /\ wpc'[w] = "compute" /\ stdin'[w] = <<>> /\ stdout' = stdout /\ wss'[w] = ss
        /\ left'[w] = RangeOf(w) /\ out'[w] = NoSends
    BY <1>0, <1>1, <2>1, One DEF ReadCommand, Shape, WpcShape, OfWorkers
  <2>3. UNCHANGED placeVars
    BY <1>1 DEF ReadCommand
  <2>4. ~(pc \in {"fork", "gaveup"}) /\ ~(pc = "command" /\ w >= i)
    BY <2>1 DEF Inductive, TurnsInv, Rests
  <2>5. StepInTurn(w)'
    BY <1>0, <2>2, <2>3, <2>4 DEF StepInTurn, placeVars, Shape
  <2>6. WorkKept(w)'
    BY <2>2 DEF WorkKept
  <2>7. SendsOwn(w)'
    <3>1. out'[w].uc = <<>> /\ out'[w].bc = <<>>
      BY <2>2 DEF NoSends
    <3>2. <<>> \in Seq(Unicast) /\ <<>> \in Seq(Broadcast) /\ Len(<<>>) = 0 /\ 1 .. 0 = {}
      OBVIOUS
    <3> QED
      BY <3>1, <3>2 DEF SendsOwn
  <2>8. Counted(w)'
    BY <1>0, <2>2, <2>3 DEF WellOf, Counted, placeVars
  <2> QED
    BY <1>1, <2>5, <2>6, <2>7, <2>8, OneWorkerWell DEF WellOf, WorkerStep
<1>2. CASE Compute(w)
  <2>1. wpc[w] = "compute" /\ left[w] # {}
    BY <1>2, ComputeIs
  <2>2. PICK e \in Program[NextOf(w)] : Computed(w, NextOf(w), e)
    BY <1>2, ComputeIs
  <2>3. SendsOwn(w)' /\ WorkKept(w)'
    BY <2>1, <2>2, ComputeSends
  <2>4. StepInTurn(w)' /\ Counted(w)'
    BY <1>0, <2>2 DEF Computed, WellOf, StepInTurn, Counted, placeVars
  <2> QED
    BY <1>2, <2>3, <2>4, OneWorkerWell DEF WellOf, WorkerStep
<1>3. CASE WriteSegments(w)
  <2>1. /\ wpc[w] = "compute" /\ left[w] = {} /\ wpc'[w] = "answer" /\ left' = left /\ out' = out
        /\ UNCHANGED <<placeVars, wss, stdin, stdout>>
    BY <1>0, <1>3 DEF WriteSegments, Shape, WpcShape
  <2>2. StepInTurn(w)' /\ WorkKept(w)' /\ SendsOwn(w)' /\ Counted(w)'
    BY <1>0, <2>1 DEF WellOf, StepInTurn, WorkKept, SendsOwn, Counted, placeVars
  <2> QED
    BY <1>3, <2>2, OneWorkerWell DEF WellOf, WorkerStep
<1>4. CASE WriteAnswer(w)
  <2> DEFINE a == [processed |-> Cardinality(RangeOf(w)), numMsg |-> Len(out[w].uc),
                   numMsgN |-> Len(out[w].bc)]
  <2>1. /\ wpc[w] = "answer" /\ wpc'[w] = "idle"
        /\ UNCHANGED <<placeVars, left, out, seg, wss, stdin>>
    BY <1>0, <1>4 DEF WriteAnswer, Shape, WpcShape
  <2>2. stdin[w] = << >> /\ stdout[w] = << >> /\ seg[w] = out[w] /\ wss[w] = ss
    BY <1>0, <2>1 DEF Turns
  <2>3. stdout'[w] = <<a>> /\ stdout'[w][1].processed = Cardinality(RangeOf(w))
    <3>1. stdout'[w] = Append(stdout[w], a)
      BY <1>0, <1>4 DEF WriteAnswer, Shape, OfWorkers
    <3>2. stdout'[w] = <<a>>
      <4> HIDE DEF a
      <4> QED
        BY <2>2, <3>1, One
    <3>3. stdout'[w][1] = a
      <4> HIDE DEF a
      <4> QED
        BY <3>2, One
    <3> QED
      BY <3>2, <3>3
  <2> HIDE DEF a
  <2>4. StepInTurn(w)' /\ SendsOwn(w)'
    BY <1>0, <2>1 DEF WellOf, StepInTurn, SendsOwn, placeVars
  <2>5. WorkKept(w)'
    BY <1>0, <2>1, <2>2 DEF WellOf, WorkKept
  <2>6. Counted(w)'
    BY <1>0, <2>1, <2>3 DEF WellOf, Counted, placeVars
  <2> QED
    BY <1>4, <2>4, <2>5, <2>6, OneWorkerWell DEF WellOf, WorkerStep
<1>5. CASE Leave(w)
  <2>1. /\ wpc[w] = "idle" /\ wpc'[w] = "gone"
        /\ UNCHANGED <<placeVars, left, out, seg, wss, stdin, stdout>>
    BY <1>0, <1>5 DEF Leave, Shape, WpcShape
  <2>2. StepInTurn(w)' /\ WorkKept(w)' /\ SendsOwn(w)' /\ Counted(w)'
    BY <1>0, <2>1 DEF WellOf, StepInTurn, WorkKept, SendsOwn, Counted, placeVars
  <2> QED
    BY <1>5, <2>2, OneWorkerWell DEF WellOf, WorkerStep
<1> QED
  BY <1>1, <1>2, <1>3, <1>4, <1>5 DEF WorkerStep

-----------------------------------------------------------------------------
(***************************************************************************)
(* The steps of the place keep all well.                                   *)
(***************************************************************************)
\* What a worker sends in the superstep.
LEMMA SentIs ==
  ASSUME NEW w \in Worker, SendsOwn(w)
  PROVE  /\ ToSet(out[w].uc) \subseteq Unicast
         /\ Len(out[w].bc) \in Nat /\ DOMAIN out[w].bc = 1 .. Len(out[w].bc)
         /\ \A k \in 1 .. Len(out[w].bc) : out[w].bc[k] \in Broadcast
<1>1. out[w].uc \in Seq(Unicast) /\ out[w].bc \in Seq(Broadcast)
  BY DEF SendsOwn
<1>2. ASSUME NEW T, NEW s \in Seq(T) PROVE ToSet(s) \subseteq T
  BY DEF ToSet
<1> QED
  BY <1>1, <1>2

\* At the import all workers are done and their segments are what they have sent.
LEMMA AllDone ==
  ASSUME Inductive, Well, died = {}, pc = "wait", waiting = {}
  PROVE  \A w \in Worker : /\ wpc[w] = "idle" /\ wss[w] = ss /\ left[w] = {} /\ seg[w] = out[w]
                           /\ got[w].numMsg = Len(out[w].uc) /\ got[w].numMsgN = Len(out[w].bc)
<1> SUFFICES ASSUME NEW w \in Worker
             PROVE  /\ wpc[w] = "idle" /\ wss[w] = ss /\ left[w] = {} /\ seg[w] = out[w]
                    /\ got[w].numMsg = Len(out[w].uc) /\ got[w].numMsgN = Len(out[w].bc)
  OBVIOUS
<1>1. wpc[w] # "died"
  BY DEF died
<1>2. Quiet(w) /\ wss[w] = ss /\ Tells(got[w], w)
  BY <1>1 DEF Inductive, TurnsInv, Rests
<1>3. wpc[w] \notin {"none", "gone"}
  BY DEF Inductive, TurnsInv, Exist
<1>4. wpc[w] = "idle"
  BY <1>1, <1>2, <1>3 DEF Inductive, Shape, WpcShape, Quiet
<1>5. left[w] = {} /\ seg[w] = out[w]
  BY <1>2, <1>4 DEF Well, WellOf, WorkKept
<1> QED
  BY <1>2, <1>4, <1>5 DEF Tells

\* The broadcasts that are imported are those of the segments, under other names.
LEMMA MisnamedIs ==
  ASSUME Well
  PROVE  /\ Misnamed \subseteq Broadcast
         /\ (\E w \in Worker : Len(out[w].bc) # 0) => Uncovered # Vertex
         /\ Misnamed # {} => Uncovered # Vertex
<1>1. \A w \in Worker : SendsOwn(w)
  BY DEF Well, WellOf
<1>2. ASSUME NEW b \in Misnamed
      PROVE  b \in Broadcast /\ \E w \in Worker : Len(out[w].bc) # 0
  <2>0. PICK w \in Worker :
          \E k \in 1 .. Len(out[w].bc) :
            k <= NumVertexes /\ b = [src |-> k - 1, val |-> out[w].bc[k].val]
    BY DEF Misnamed
  <2>1. PICK k \in 1 .. Len(out[w].bc) :
          k <= NumVertexes /\ b = [src |-> k - 1, val |-> out[w].bc[k].val]
    BY <2>0
  <2>2. out[w].bc[k] \in Broadcast /\ Len(out[w].bc) \in Nat
    BY <1>1, SentIs
  <2>3. k - 1 \in Vertex /\ Len(out[w].bc) # 0
    BY <2>1, <2>2, PyAssumption DEF Vertex
  <2> QED
    BY <2>1, <2>2, <2>3 DEF Broadcast
<1>3. ASSUME NEW w \in Worker, Len(out[w].bc) # 0 PROVE Uncovered # Vertex
  <2>1. 1 \in 1 .. Len(out[w].bc)
    BY <1>1, <1>3, SentIs
  <2>2. out[w].bc[1].src \in RangeOf(w)
    BY <1>1, <2>1 DEF SendsOwn
  <2> QED
    BY <2>2, RangeTypes DEF Uncovered
<1> QED
  BY <1>2, <1>3

\* What is imported is what was sent.
LEMMA ImportIs ==
  ASSUME Inductive, Well, died = {}, Import
  PROVE  /\ ucc' = UNION {ToSet(out[w].uc) : w \in Worker}
         /\ bcc' = Misnamed
<1>1. \A w \in Worker : /\ seg[w] = out[w] /\ got[w].numMsg = Len(out[w].uc)
                        /\ got[w].numMsgN = Len(out[w].bc) /\ SendsOwn(w)
  BY AllDone DEF Import, Well, WellOf
<1>2. \A w \in Worker : {seg[w].uc[k] : k \in 1 .. got[w].numMsg} = ToSet(out[w].uc)
  <2> SUFFICES ASSUME NEW w \in Worker
               PROVE  {seg[w].uc[k] : k \in 1 .. got[w].numMsg} = ToSet(out[w].uc)
    OBVIOUS
  <2>1. out[w].uc \in Seq(Unicast)
    BY <1>1 DEF SendsOwn
  <2>2. DOMAIN out[w].uc = 1 .. Len(out[w].uc)
    BY <2>1
  <2> QED
    BY <1>1, <2>2 DEF ToSet
<1>3. ucc' = UNION {ToSet(out[w].uc) : w \in Worker}
  <2> DEFINE read(w) == {seg[w].uc[k] : k \in 1 .. got[w].numMsg}
             sent(w) == ToSet(out[w].uc)
  <2>1. ucc' = UNION {read(w) : w \in Worker}
    BY DEF Import
  <2>2. \A w \in Worker : read(w) = sent(w)
    BY <1>2
  <2> HIDE DEF read, sent
  <2>3. ucc' = UNION {sent(w) : w \in Worker}
    BY <2>1, <2>2
  <2> QED
    BY <2>3 DEF sent
<1> DEFINE read(w) ==
             {[src |-> k - 1, val |-> seg[w].bc[k].val] :
                k \in {n \in 1 .. got[w].numMsgN :
                         n <= NumVertexes /\ \A x \in Worker : x > w => got[x].numMsgN < n}}
           named(w) ==
             {[src |-> k - 1, val |-> out[w].bc[k].val] :
                k \in {n \in 1 .. Len(out[w].bc) :
                         n <= NumVertexes /\ \A x \in Worker : x > w => Len(out[x].bc) < n}}
<1>4. \A w \in Worker : read(w) = named(w)
  BY <1>1
<1>5. bcc' = Misnamed
  <2>1. bcc' = UNION {read(w) : w \in Worker}
    BY DEF Import
  <2>2. Misnamed = UNION {named(w) : w \in Worker}
    BY DEF Misnamed
  <2> HIDE DEF read, named
  <2> QED
    BY <1>4, <2>1, <2>2
<1> QED
  BY <1>3, <1>5

LEMMA AnswerWell ==
  ASSUME Inductive, Well, died = {}, NEW w \in Worker, AnswerStep(w)
  PROVE  Well'
<1>1. ReadAnswer(w)
  BY DEF AnswerStep, ReadNothing, died
<1>2. /\ pc = "wait" /\ w \in waiting /\ waiting' = waiting \ {w} /\ stdout[w] # <<>>
      /\ UNCHANGED <<pc, i, ss, broken, ucc, bcc, left, out, wss, wpc, seg, stdin>>
  BY <1>1 DEF ReadAnswer, workerVars
<1>3. stdout[w] = <<stdout[w][1]>>
  BY <1>2 DEF Inductive, TurnsInv, Turns
<1>4. stdout'[w] = <<>> /\ got'[w] = stdout[w][1]
  BY <1>1, <1>3, One DEF ReadAnswer, Inductive, Shape, OfWorkers
<1>5. \A x \in Worker \ {w} : stdout'[x] = stdout[x] /\ got'[x] = got[x]
  BY <1>1 DEF ReadAnswer, Inductive, Shape, OfWorkers
<1>6. \A x \in Worker : StepInTurn(x)' /\ WorkKept(x)' /\ SendsOwn(x)'
  BY <1>2 DEF Well, WellOf, StepInTurn, WorkKept, SendsOwn
<1>7. Counted(w)'
  BY <1>2, <1>4 DEF Well, WellOf, Counted
<1>8. \A x \in Worker \ {w} : Counted(x)'
  BY <1>2, <1>5 DEF Well, WellOf, Counted
<1> QED
  BY <1>2, <1>6, <1>7, <1>8 DEF Well, WellOf, Holds

LEMMA PlaceWell ==
  ASSUME Inductive, Well, died = {}, PlaceStep
  PROVE  Well'
<1>0. /\ Shape /\ i \in Worker /\ i \in Nat /\ ss \in Nat /\ \A w \in Worker : w \in Nat
      /\ \A w \in Worker : StepInTurn(w) /\ WorkKept(w) /\ SendsOwn(w) /\ Counted(w)
  BY RangeTypes DEF Inductive, Shape, Well, WellOf
<1>1. CASE Fork
  <2>1. /\ pc = "fork" /\ pc' \in {"fork", "command"} /\ wpc'[i] = "idle"
        /\ \A w \in Worker \ {i} : wpc'[w] = wpc[w]
        /\ UNCHANGED <<ss, broken, waiting, got, ucc, bcc, wss, left, out, seg, stdin, stdout>>
    BY <1>0, <1>1, NextWorker DEF Fork, Shape, WpcShape
  <2>2. ASSUME NEW w \in Worker PROVE WellOf(w)'
    <3>1. wss[w] < ss
      BY <1>0, <2>1 DEF StepInTurn
    <3>2. StepInTurn(w)'
      BY <1>0, <2>1, <3>1 DEF StepInTurn
    <3>3. WorkKept(w)'
      BY <1>0, <2>1, <3>1 DEF WorkKept, StepInTurn
    <3>4. SendsOwn(w)'
      <4>1. wpc'[w] = "compute" => wpc[w] = "compute"
        BY <2>1
      <4> QED
        BY <1>0, <2>1, <4>1 DEF SendsOwn
    <3>5. Counted(w)'
      BY <1>0, <2>1 DEF Counted
    <3> QED
      BY <3>2, <3>3, <3>4, <3>5 DEF WellOf
  <2> QED
    BY <2>1, <2>2 DEF Well, Holds
<1>2. CASE ForkFails \/ Terminate \/ Close
  <2>1. /\ pc \in {"fork", "decide", "close"} /\ pc' \in {"gaveup", "close", "done"}
        /\ pc' = "gaveup" => pc = "fork"
        /\ UNCHANGED <<ss, broken, waiting, got, wpc, wss, left, out, seg, stdin, stdout>>
        /\ ucc' = {} /\ bcc' = {}
    <3>1. CASE ForkFails \/ Terminate
      BY <3>1 DEF ForkFails, Terminate, workerVars, Well, Holds
    <3>2. CASE Close
      <4>1. pc = "close" /\ pc' \in {"close", "done"}
        BY <1>0, <3>2, NextWorker DEF Close
      <4> QED
        BY <3>2, <4>1 DEF Close, workerVars, Well, Holds
    <3> QED
      BY <1>2, <3>1, <3>2
  <2>2. ASSUME NEW w \in Worker PROVE WellOf(w)'
    <3>1. StepInTurn(w)'
      BY <1>0, <2>1 DEF StepInTurn
    <3>2. WorkKept(w)' /\ SendsOwn(w)'
      BY <1>0, <2>1 DEF WorkKept, SendsOwn
    <3>3. Counted(w)'
      BY <1>0, <2>1 DEF Counted
    <3> QED
      BY <3>1, <3>2, <3>3 DEF WellOf
  <2> QED
    BY <2>1, <2>2 DEF Well, Holds
<1>3. CASE Command
  <2>1. /\ pc = "command" /\ waiting' = Worker /\ Advance("wait")
        /\ UNCHANGED <<ss, broken, got, ucc, bcc, wpc, wss, left, out, seg, stdout>>
        /\ \A w \in Worker \ {i} : stdin'[w] = stdin[w]
    BY <1>0, <1>3 DEF Command, workerVars, Shape, OfWorkers
  <2>2. \/ pc' = "command" /\ i' = i + 1
        \/ pc' = "wait" /\ i = NumThreads - 1
    BY <1>0, <2>1, NextWorker
  <2>3. ASSUME NEW w \in Worker PROVE WellOf(w)'
    <3>1. StepInTurn(w)'
      <4>1. CASE w = i
        BY <1>0, <2>1, <4>1 DEF StepInTurn
      <4>2. CASE w # i
        <5>1. pc' = "command" /\ w >= i' => w >= i
          BY <1>0, <2>2
        <5>2. pc' # "fork" /\ pc' # "gaveup" /\ stdin'[w] = stdin[w]
          BY <2>1, <2>2, <4>2
        <5> QED
          BY <1>0, <2>1, <5>1, <5>2 DEF StepInTurn
      <4> QED
        BY <4>1, <4>2
    <3>2. WorkKept(w)' /\ SendsOwn(w)'
      BY <1>0, <2>1 DEF WorkKept, SendsOwn
    <3>3. Counted(w)'
      BY <1>0, <2>1, <2>2 DEF Counted
    <3> QED
      BY <3>1, <3>2, <3>3 DEF WellOf
  <2>4. ~broken' /\ pc' \in {"command", "wait"} /\ Holds' /\ left' \in [Worker -> SUBSET Vertex]
    BY <2>1, <2>2 DEF Well, Holds
  <2> QED
    BY <2>3, <2>4 DEF Well
<1>4. CASE CommandFails \/ Throw
  BY <1>0, <1>4 DEF CommandFails, Throw, Well, died
<1>5. CASE Import
  <2>1. /\ pc = "wait" /\ waiting = {} /\ pc' \in {"decide", "threw"}
        /\ UNCHANGED <<ss, broken, waiting, got, wpc, wss, left, out, seg, stdin, stdout>>
    BY <1>5 DEF Import, workerVars
  <2>2. ASSUME NEW w \in Worker PROVE WellOf(w)'
    <3>1. StepInTurn(w)'
      BY <1>0, <2>1 DEF StepInTurn
    <3>2. WorkKept(w)' /\ SendsOwn(w)'
      BY <1>0, <2>1 DEF WorkKept, SendsOwn
    <3>3. Counted(w)'
      BY <1>0, <2>1 DEF Counted
    <3> QED
      BY <3>1, <3>2, <3>3 DEF WellOf
  <2>3. Holds'
    <3>1. \A w \in Worker : ToSet(out[w].uc) \subseteq Unicast /\ got'[w].numMsgN = Len(out[w].bc)
      BY <1>0, <2>1, SentIs, AllDone
    <3>2. ucc' \subseteq Unicast /\ bcc' = Misnamed
      BY <1>5, <3>1, ImportIs
    <3>3. Uncovered' = Uncovered
      BY DEF Uncovered
    <3> QED
      BY <2>1, <3>1, <3>2, <3>3, MisnamedIs DEF Holds
  <2>4. \A w \in Worker : Quiet(w)'
    <3>1. \A w \in Worker : Quiet(w)
      BY <2>1 DEF Inductive, TurnsInv, Rests
    <3> QED
      BY <2>1, <3>1 DEF Quiet
  <2> QED
    BY <2>1, <2>2, <2>3, <2>4 DEF Well
<1>6. CASE Export
  <2>1. /\ pc = "decide" /\ pc' \in {"command", "limit"} /\ ss' = ss + 1
        /\ UNCHANGED <<broken, waiting, got, wpc, wss, left, out, seg, stdin, stdout>>
        /\ ucc' = {} /\ bcc' = {}
    BY <1>6 DEF Export, workerVars
  <2>2. ASSUME NEW w \in Worker PROVE WellOf(w)'
    <3>1. wss'[w] < ss' /\ wss'[w] \in Int
      <4>1. wss[w] \in Int /\ wss[w] <= ss /\ wss'[w] = wss[w]
        BY <1>0, <2>1 DEF StepInTurn
      <4> QED
        BY <1>0, <2>1, <4>1
    <3>2. StepInTurn(w)'
      BY <1>0, <2>1, <3>1 DEF StepInTurn
    <3>3. WorkKept(w)' /\ SendsOwn(w)'
      BY <1>0, <2>1, <3>1 DEF WorkKept, SendsOwn
    <3>4. Counted(w)'
      BY <1>0, <2>1 DEF Counted
    <3> QED
      BY <3>2, <3>3, <3>4 DEF WellOf
  <2> QED
    BY <2>1, <2>2 DEF Well, Holds
<1> QED
  BY <1>1, <1>2, <1>3, <1>4, <1>5, <1>6 DEF PlaceStep

LEMMA NextSuperstepInv ==
  ASSUME Inductive, SuperstepInv, [Next]_vars
  PROVE  SuperstepInv'
<1>1. pc' = "fork" => died' = {}
  BY DiedStays
<1>2. ASSUME died' = {} PROVE Well'
  <2>1. died = {} /\ Well
    BY <1>2, DiedStays DEF SuperstepInv
  <2>2. CASE UNCHANGED vars
    BY <2>1, <2>2 DEF vars, placeVars, workerVars, Well, Holds, WellOf, StepInTurn, WorkKept,
                      SendsOwn, Counted, Quiet
  <2>3. ASSUME NEW w \in Worker, Die(w) PROVE FALSE
    <3>1. wpc'[w] = "died"
      BY <2>3 DEF Die, Inductive, Shape, WpcShape
    <3> QED
      BY <1>2, <3>1 DEF died
  <2> QED
    BY <2>1, <2>2, <2>3, PlaceWell, AnswerWell, WorkerWell DEF Next
<1> QED
  BY <1>1, <1>2 DEF SuperstepInv

\* Unless a worker dies all is well in every state.
LEMMA SpecSuperstepInv == Spec => [](Inductive /\ SuperstepInv)
<1>1. Init => Inductive /\ SuperstepInv
  BY InitInductive, InitSuperstepInv
<1>2. Inductive /\ SuperstepInv /\ [Next]_vars => (Inductive /\ SuperstepInv)'
  BY NextInductive, NextSuperstepInv
<1> QED
  BY <1>1, <1>2, PTL DEF Spec

-----------------------------------------------------------------------------
(***************************************************************************)
(* Steps that do not count as one of Supersteps.                           *)
(***************************************************************************)
\* What worker w has computed, and sent, in this superstep.
DoneBy(w) == IF wss[w] = ss THEN RangeOf(w) \ left[w] ELSE {}
SentBy(w) == IF wss[w] = ss THEN ToSet(out[w].uc) \cup Spread(Latest(out[w].bc)) ELSE {}

LEMMA SpreadIs ==
  /\ Spread({}) = {} /\ Latest(<<>>) = {} /\ ToSet(<<>>) = {}
  /\ \A A, B : Spread(A \cup B) = Spread(A) \cup Spread(B)
  /\ \A A : \A m \in Spread(A) : m.via = "bc"
BY DEF Spread, Latest, ToSet

LEMMA SpreadUnion ==
  ASSUME NEW f
  PROVE  Spread(UNION {f[w] : w \in Worker}) = UNION {Spread(f[w]) : w \in Worker}
<1> DEFINE g(b) == {[src |-> b.src, dst |-> v, val |-> b.val, via |-> "bc"] : v \in OutEdge[b.src]}
<1>1. \A A : Spread(A) = UNION {g(b) : b \in A}
  BY DEF Spread
<1> HIDE DEF g
<1> QED
  BY <1>1

\* When a vertex broadcasts again only its last broadcast remains.
LEMMA LatestConcat ==
  ASSUME NEW s \in Seq(Broadcast), NEW t \in Seq(Broadcast), NEW v,
         \A k \in 1 .. Len(s) : s[k].src # v,
         \A k \in 1 .. Len(t) : t[k].src = v
  PROVE  Latest(s \o t) = Latest(s) \cup IF t = <<>> THEN {} ELSE {t[Len(t)]}
<1> DEFINE n == Len(s)
           m == Len(t)
           r == s \o t
           Final(q, j) == \A l \in DOMAIN q : l > j => q[l].src # q[j].src
<1>1. /\ n \in Nat /\ m \in Nat /\ DOMAIN s = 1 .. n /\ DOMAIN t = 1 .. m
      /\ m = 0 <=> t = <<>>
  OBVIOUS
<1>2. DOMAIN r = 1 .. n + m /\ \A k \in 1 .. n + m : r[k] = IF k <= n THEN s[k] ELSE t[k - n]
  BY ConcatProperties
<1> HIDE DEF r, n, m
<1>3. \A k \in 1 .. n : k \in 1 .. n + m /\ r[k] = s[k] /\ r[k].src # v
  BY <1>1, <1>2 DEF n
<1>4. \A k \in 1 .. n + m : k > n => k - n \in 1 .. m /\ r[k] = t[k - n] /\ r[k].src = v
  BY <1>1, <1>2 DEF m
<1>5. \A j \in 1 .. n : Final(r, j) <=> Final(s, j)
  <2> SUFFICES ASSUME NEW j \in 1 .. n PROVE Final(r, j) <=> Final(s, j)
    OBVIOUS
  <2>1. \A l \in 1 .. n + m : l > n => r[l].src # r[j].src
    BY <1>3, <1>4
  <2>2. \A l \in 1 .. n + m : l > n \/ l \in 1 .. n
    BY <1>1
  <2>3. \A l \in 1 .. n : l \in 1 .. n + m /\ (r[l].src # r[j].src <=> s[l].src # s[j].src)
    BY <1>3
  <2> QED
    BY <1>1, <1>2, <2>1, <2>2, <2>3
<1>6. \A j \in 1 .. n + m : j > n => (Final(r, j) <=> j = n + m)
  <2> SUFFICES ASSUME NEW j \in 1 .. n + m, j > n PROVE Final(r, j) <=> j = n + m
    OBVIOUS
  <2>1. j = n + m => Final(r, j)
    BY <1>1, <1>2
  <2>2. j # n + m => n + m \in 1 .. n + m /\ n + m > j /\ n + m > n /\ r[n + m].src = r[j].src
    BY <1>1, <1>4
  <2> QED
    BY <1>2, <2>1, <2>2
<1> HIDE DEF Final
<1>7. Latest(r) = {r[k] : k \in {j \in 1 .. n + m : Final(r, j)}}
  BY <1>2 DEF Latest, Final
<1>8. Latest(s) = {s[k] : k \in {j \in 1 .. n : Final(s, j)}}
  BY <1>1 DEF Latest, Final
<1>9. ASSUME NEW b \in Latest(r) PROVE b \in Latest(s) \/ (t # <<>> /\ b = t[m])
  <2>1. PICK k \in 1 .. n + m : Final(r, k) /\ b = r[k]
    BY <1>7
  <2>2. CASE k > n
    <3>1. k = n + m /\ k - n = m /\ m # 0
      BY <1>1, <1>6, <2>1, <2>2
    <3> QED
      BY <1>1, <1>4, <2>1, <2>2, <3>1
  <2>3. CASE ~ k > n
    <3>1. k \in 1 .. n
      BY <1>1, <2>3
    <3> QED
      BY <1>3, <1>5, <1>8, <2>1, <3>1
  <2> QED
    BY <2>2, <2>3
<1>10. ASSUME NEW b \in Latest(s) PROVE b \in Latest(r)
  <2>1. PICK k \in 1 .. n : Final(s, k) /\ b = s[k]
    BY <1>8
  <2> QED
    BY <1>3, <1>5, <1>7, <2>1
<1>11. ASSUME t # <<>> PROVE t[m] \in Latest(r)
  <2>1. n + m \in 1 .. n + m /\ n + m > n /\ (n + m) - n = m
    BY <1>1, <1>11
  <2> QED
    BY <1>4, <1>6, <1>7, <2>1
<1> QED
  BY <1>9, <1>10, <1>11 DEF r, m

\* Nothing is replaced when every vertex broadcasts once.
LEMMA LatestInTurn ==
  ASSUME NEW s \in Seq(Broadcast), \A k \in 1 .. Len(s) : s[k].src = k - 1
  PROVE  Latest(s) = {s[k] : k \in 1 .. Len(s)}
<1>1. DOMAIN s = 1 .. Len(s)
  OBVIOUS
<1>2. \A j, l \in DOMAIN s : l > j => s[l].src # s[j].src
  BY <1>1
<1>3. {j \in DOMAIN s : \A l \in DOMAIN s : l > j => s[l].src # s[j].src} = DOMAIN s
  BY <1>2
<1> QED
  BY <1>1, <1>3 DEF Latest

LEMMA Bars ==
  /\ todoBar = IF pc \in {"decide", "threw", "close", "done"} THEN {}
               ELSE {v \in Vertex : \A w \in Worker : v \notin DoneBy(w)}
  /\ outboxBar = IF pc \in {"command", "wait"} THEN UNION {SentBy(w) : w \in Worker}
                 ELSE ucc \cup Spread(bcc)
<1>1. computed = {v \in Vertex : \E w \in Worker : v \in DoneBy(w)}
  BY DEF computed, DoneBy
<1>2. UNION {ToSet(out[w].uc) \cup Spread(Latest(out[w].bc)) : w \in {x \in Worker : wss[x] = ss}}
        = UNION {SentBy(w) : w \in Worker}
  <2>1. \A w \in {x \in Worker : wss[x] = ss} :
          ToSet(out[w].uc) \cup Spread(Latest(out[w].bc)) = SentBy(w)
    BY DEF SentBy
  <2>2. \A w \in Worker : wss[w] # ss => SentBy(w) = {}
    BY DEF SentBy
  <2> QED
    BY <2>1, <2>2
<1> QED
  BY <1>1, <1>2 DEF todoBar, outboxBar, between

\* The same after a step.
LEMMA BarsNext ==
  /\ todoBar' = IF pc' \in {"decide", "threw", "close", "done"} THEN {}
                ELSE {v \in Vertex : \A w \in Worker : v \notin DoneBy(w)'}
  /\ outboxBar' = IF pc' \in {"command", "wait"} THEN UNION {SentBy(w)' : w \in Worker}
                  ELSE ucc' \cup Spread(bcc')
<1>1. computed' = {v \in Vertex : \E w \in Worker : v \in DoneBy(w)'}
  BY DEF computed, DoneBy
<1>2. UNION {ToSet(out'[w].uc) \cup Spread(Latest(out'[w].bc)) : w \in {x \in Worker : wss'[x] = ss'}}
        = UNION {SentBy(w)' : w \in Worker}
  <2>1. \A w \in {x \in Worker : wss'[x] = ss'} :
          ToSet(out'[w].uc) \cup Spread(Latest(out'[w].bc)) = SentBy(w)'
    BY DEF SentBy
  <2>2. \A w \in Worker : wss'[w] # ss' => SentBy(w)' = {}
    BY DEF SentBy
  <2> QED
    BY <2>1, <2>2
<1> QED
  BY <1>1, <1>2 DEF todoBar, outboxBar, between

\* The messages of the superstep are those in shared memory.
LEMMA Stutters ==
  ASSUME ss' = ss, shm' = shm, todoBar' = todoBar, outboxBar' = outboxBar,
         pc' \in {"close", "done"} <=> pc \in {"close", "done"}
  PROVE  UNCHANGED Promise!vars
<1>1. inboxBar' = inboxBar
  BY DEF inboxBar
<1> QED
  BY <1>1 DEF Promise!vars, stepBar, runningBar

LEMMA PlaceStutters ==
  ASSUME UNCHANGED <<ss, shm, ucc, bcc, wss, left, out>>,
         pc' = pc \/ (pc = "fork" /\ pc' = "gaveup") \/ (pc = "command" /\ pc' = "wait")
                  \/ (pc = "close" /\ pc' = "done")
  PROVE  UNCHANGED Promise!vars
<1>1. \A w \in Worker : DoneBy(w)' = DoneBy(w) /\ SentBy(w)' = SentBy(w)
  BY DEF DoneBy, SentBy
<1>2. todoBar' = todoBar /\ outboxBar' = outboxBar
  BY <1>1, Bars, BarsNext
<1> QED
  BY <1>2, Stutters

\* No worker has read a command of the superstep yet.
LEMMA NothingDone ==
  ASSUME NEW w \in Worker, StepInTurn(w), ss \in Nat,
         stdin[w] # <<>> \/ pc = "fork"
  PROVE  DoneBy(w) = {} /\ SentBy(w) = {}
BY DEF StepInTurn, DoneBy, SentBy

LEMMA ForkStutters ==
  ASSUME Inductive, Well, Fork
  PROVE  UNCHANGED Promise!vars
<1>1. /\ pc = "fork" /\ pc' \in {"fork", "command"}
      /\ UNCHANGED <<ss, shm, ucc, bcc, wss, left, out>>
  BY NextWorker DEF Fork, Inductive, Shape
<1>2. \A w \in Worker : DoneBy(w) = {} /\ SentBy(w) = {}
  BY <1>1, NothingDone DEF Well, WellOf, Inductive, Shape
<1>3. \A w \in Worker : DoneBy(w)' = {} /\ SentBy(w)' = {}
  BY <1>1, <1>2 DEF DoneBy, SentBy
<1>4. ucc = {} /\ bcc = {} /\ Spread({}) = {}
  BY <1>1, SpreadIs DEF Well, Holds
<1>5. todoBar' = todoBar
  BY <1>1, <1>2, <1>3, Bars, BarsNext
<1>6. outboxBar = {}
  BY <1>1, <1>4, Bars
<1>7. outboxBar' = {}
  BY <1>1, <1>3, <1>4, BarsNext
<1> QED
  BY <1>1, <1>5, <1>6, <1>7, Stutters

LEMMA ReadCommandStutters ==
  ASSUME Inductive, Well, NEW w \in Worker, ReadCommand(w)
  PROVE  UNCHANGED Promise!vars
<1>0. Shape /\ StepInTurn(w) /\ left \in [Worker -> SUBSET Vertex] /\ ss \in Nat
  BY DEF Inductive, Well, WellOf, Shape
<1>1. \A x \in Worker \ {w} : Alone(x)
  BY StepAlone DEF WorkerStep
<1>2. UNCHANGED placeVars /\ stdin[w] # <<>>
  BY DEF ReadCommand
<1>3. DoneBy(w) = {} /\ SentBy(w) = {}
  BY <1>0, <1>2, NothingDone
<1>4. left'[w] = RangeOf(w) /\ out'[w] = NoSends
  BY <1>0 DEF ReadCommand, Shape, OfWorkers
<1>5. DoneBy(w)' = {} /\ SentBy(w)' = {}
  <2>1. ToSet(out'[w].uc) = {} /\ Spread(Latest(out'[w].bc)) = {}
    BY <1>4, SpreadIs DEF NoSends
  <2> QED
    BY <1>4, <2>1 DEF DoneBy, SentBy
<1>6. \A x \in Worker : DoneBy(x)' = DoneBy(x) /\ SentBy(x)' = SentBy(x)
  BY <1>1, <1>2, <1>3, <1>5 DEF Alone, Other, DoneBy, SentBy, placeVars
<1>7. pc' = pc /\ ss' = ss /\ shm' = shm /\ ucc' = ucc /\ bcc' = bcc
  BY <1>2 DEF placeVars
<1>8. todoBar' = todoBar /\ outboxBar' = outboxBar
  BY <1>6, <1>7, Bars, BarsNext
<1> QED
  BY <1>7, <1>8, Stutters

-----------------------------------------------------------------------------
(***************************************************************************)
(* The import.                                                             *)
(***************************************************************************)
\* What was broadcast in turn keeps its names.
LEMMA InTurnKept ==
  ASSUME Well, InTurn
  PROVE  Misnamed = UNION {Latest(out[w].bc) : w \in Worker}
<1> DEFINE cast(w) == {out[w].bc[k] : k \in 1 .. Len(out[w].bc)}
<1>1. \A w \in Worker : SendsOwn(w)
  BY DEF Well, WellOf
<1>2. \A w \in Worker : Latest(out[w].bc) = cast(w)
  BY <1>1, LatestInTurn DEF InTurn, SendsOwn
<1>3. ASSUME NEW w \in Worker, NEW k \in 1 .. Len(out[w].bc)
      PROVE  /\ [src |-> k - 1, val |-> out[w].bc[k].val] = out[w].bc[k]
             /\ k <= NumVertexes
             /\ \A x \in Worker : x > w => Len(out[x].bc) < k
  <2>1. out[w].bc[k] \in Broadcast /\ Len(out[w].bc) \in Nat
    BY <1>1, SentIs
  <2>2. out[w].bc[k].src = k - 1
    BY DEF InTurn
  <2>3. k - 1 \in Vertex
    BY <2>1, <2>2 DEF Broadcast
  <2>4. ASSUME NEW x \in Worker, Len(out[x].bc) >= k PROVE x = w
    <3>1. Len(out[x].bc) \in Nat /\ 1 \in 1 .. Len(out[x].bc) /\ 1 \in 1 .. Len(out[w].bc)
      BY <1>1, <2>1, <2>4, SentIs
    <3>2. out[x].bc[1].src = 1 - 1 /\ out[w].bc[1].src = 1 - 1
      BY <3>1 DEF InTurn
    <3>3. out[x].bc[1].src \in RangeOf(x) /\ out[w].bc[1].src \in RangeOf(w)
      BY <1>1, <3>1 DEF SendsOwn
    <3> QED
      BY <3>2, <3>3, RangesApart
  <2>5. \A x \in Worker : x > w => Len(out[x].bc) < k
    <3>1. \A x \in Worker : x \in Nat /\ Len(out[x].bc) \in Nat
      BY <1>1, SentIs, RangeTypes
    <3> QED
      BY <2>4, <3>1
  <2>6. k <= NumVertexes
    BY <2>1, <2>3, PyAssumption DEF Vertex
  <2>7. [src |-> k - 1, val |-> out[w].bc[k].val] = out[w].bc[k]
    BY <2>1, <2>2 DEF Broadcast
  <2> QED
    BY <2>5, <2>6, <2>7
<1>4. \A w \in Worker :
        {[src |-> k - 1, val |-> out[w].bc[k].val] :
            k \in {n \in 1 .. Len(out[w].bc) :
                     n <= NumVertexes /\ \A x \in Worker : x > w => Len(out[x].bc) < n}} = cast(w)
  <2> SUFFICES ASSUME NEW w \in Worker
               PROVE  {[src |-> k - 1, val |-> out[w].bc[k].val] :
                         k \in {n \in 1 .. Len(out[w].bc) :
                                  n <= NumVertexes /\ \A x \in Worker : x > w => Len(out[x].bc) < n}}
                      = cast(w)
    OBVIOUS
  <2>1. {n \in 1 .. Len(out[w].bc) :
           n <= NumVertexes /\ \A x \in Worker : x > w => Len(out[x].bc) < n} = 1 .. Len(out[w].bc)
    BY <1>3
  <2>2. \A k \in 1 .. Len(out[w].bc) : [src |-> k - 1, val |-> out[w].bc[k].val] = out[w].bc[k]
    BY <1>3
  <2> QED
    BY <2>1, <2>2
<1> HIDE DEF cast
<1>5. Misnamed = UNION {cast(w) : w \in Worker}
  BY <1>4 DEF Misnamed
<1> QED
  BY <1>2, <1>5

LEMMA ImportPasses ==
  ASSUME Inductive, Well, died = {}, Import
  PROVE  Imports
<1>1. /\ pc = "wait" /\ waiting = {} /\ pc' \in {"decide", "threw"}
      /\ UNCHANGED <<ss, shm>>
  BY DEF Import
<1>2. \A w \in Worker : wss[w] = ss /\ left[w] = {} /\ SendsOwn(w)
  BY <1>1, AllDone DEF Well, WellOf
<1>3. todoBar = Uncovered /\ todoBar' = {}
  <2>1. \A w \in Worker : DoneBy(w) = RangeOf(w)
    BY <1>2 DEF DoneBy
  <2>2. {v \in Vertex : \A w \in Worker : v \notin DoneBy(w)} = Vertex \ UNION {RangeOf(w) : w \in Worker}
    BY <2>1
  <2> QED
    BY <1>1, <2>2, Bars, BarsNext DEF Uncovered
<1>4. inboxBar' = [v \in Vertex |-> IF v \in Uncovered THEN {} ELSE inboxBar[v]]
  BY <1>3 DEF inboxBar
<1> DEFINE posts == UNION {ToSet(out[w].uc) : w \in Worker}
           casts == UNION {Spread(Latest(out[w].bc)) : w \in Worker}
<1>5. outboxBar = posts \cup casts
  <2>1. \A w \in Worker : SentBy(w) = ToSet(out[w].uc) \cup Spread(Latest(out[w].bc))
    BY <1>2 DEF SentBy
  <2>2. UNION {SentBy(w) : w \in Worker} = posts \cup casts
    BY <2>1
  <2> QED
    BY <1>1, <2>2, Bars
<1>6. outboxBar' = posts \cup Spread(Misnamed)
  BY <1>1, BarsNext, ImportIs
<1>7. posts \subseteq Unicast
  BY <1>2, SentIs
<1>8. \A m \in casts : m.via = "bc"
  BY SpreadIs
<1>9. InTurn => casts = Spread(Misnamed)
  <2> SUFFICES ASSUME InTurn PROVE casts = Spread(Misnamed)
    OBVIOUS
  <2> DEFINE f == [w \in Worker |-> Latest(out[w].bc)]
  <2>1. Misnamed = UNION {f[w] : w \in Worker}
    BY InTurnKept
  <2>2. casts = UNION {Spread(f[w]) : w \in Worker}
    OBVIOUS
  <2> HIDE DEF f, casts
  <2> QED
    BY <2>1, <2>2, SpreadUnion
<1> HIDE DEF posts, casts
<1>10. {m \in outboxBar : m.via = "uc"} = posts
  BY <1>5, <1>7, <1>8 DEF Unicast
<1>11. stepBar' = stepBar /\ runningBar' = runningBar
  BY <1>1 DEF stepBar, runningBar
<1> QED
  BY <1>1, <1>3, <1>4, <1>5, <1>6, <1>9, <1>10, <1>11 DEF Imports

-----------------------------------------------------------------------------
(***************************************************************************)
(* The steps of Supersteps.                                                *)
(***************************************************************************)
LEMMA InitPromise == Init => Promise!Init
<1> SUFFICES ASSUME Init PROVE Promise!Init
  OBVIOUS
<1>1. /\ pc = "fork" /\ ss = 0 /\ ucc = {} /\ bcc = {}
      /\ \A v \in Vertex : shm.of[v] = {}
      /\ \A w \in Worker : wss[w] = -1
  BY DEF Init, NoMail
<1>2. todoBar = Vertex /\ outboxBar = {}
  <2>1. \A w \in Worker : DoneBy(w) = {}
    BY <1>1 DEF DoneBy
  <2> QED
    BY <1>1, <2>1, Bars, SpreadIs
<1>3. inboxBar = [v \in Vertex |-> {}]
  BY <1>1 DEF inboxBar
<1> QED
  BY <1>1, <1>2, <1>3 DEF Promise!Init, stepBar, runningBar

\* The effects of a vertex, for which there is no halting.
Keeping(e) == [uc |-> e.uc, bc |-> e.bc, flag |-> "keep"]

\* What a vertex sends is added to what its worker has sent.
LEMMA ComputeAdds ==
  ASSUME Inductive, Well, NEW w \in Worker, wpc[w] = "compute", left[w] # {},
         NEW e \in Program[NextOf(w)], Computed(w, NextOf(w), e)
  PROVE  SentBy(w)' = SentBy(w) \cup Promise!Sent(NextOf(w), Keeping(e))
<1> DEFINE v == NextOf(w)
           s == out[w].bc
           t == Casts(v, e)
           posts == {[src |-> v, dst |-> m[1], val |-> m[2], via |-> "uc"] : m \in e.uc}
           casts == IF e.bc = <<>> THEN {}
                    ELSE {[src |-> v, dst |-> u, val |-> e.bc[Len(e.bc)], via |-> "bc"] :
                            u \in OutEdge[v]}
<1>1. v \in Vertex /\ v \in left[w]
  BY NextVertex
<1>2. wss[w] = ss /\ wss' = wss /\ ss' = ss
  BY DEF Inductive, TurnsInv, Turns, Computed, placeVars
<1>3. SendsOwn(w)
  BY DEF Well, WellOf
<1>4. out'[w].uc = out[w].uc \o Posts(v, e) /\ out'[w].bc = s \o t
  BY DEF Computed
<1>5. /\ Posts(v, e) \in Seq(Unicast) /\ ToSet(Posts(v, e)) = posts
      /\ t \in Seq(Broadcast) /\ Len(t) = Len(e.bc)
      /\ \A k \in 1 .. Len(e.bc) : t[k] = [src |-> v, val |-> e.bc[k]]
      /\ Len(e.bc) \in Nat /\ (e.bc = <<>> <=> Len(e.bc) = 0)
  BY <1>1, EffectIs
<1>6. Promise!Sent(v, Keeping(e)) = posts \cup casts
  BY DEF Promise!Sent, Keeping
<1> HIDE DEF v, posts, s, t
<1>7. ToSet(out'[w].uc) = ToSet(out[w].uc) \cup posts
  BY <1>3, <1>4, <1>5, ToSetConcat DEF SendsOwn
<1>8. s \in Seq(Broadcast) /\ \A k \in 1 .. Len(s) : s[k].src # v
  <2>1. \A k \in 1 .. Len(s) : s[k].src \notin left[w]
    BY <1>3 DEF SendsOwn, s
  <2> QED
    BY <1>1, <1>3, <2>1 DEF SendsOwn, s
<1>9. \A k \in 1 .. Len(t) : t[k].src = v
  <2> SUFFICES ASSUME NEW k \in 1 .. Len(t) PROVE t[k].src = v
    OBVIOUS
  <2>1. t[k] = [src |-> v, val |-> e.bc[k]]
    BY <1>5
  <2> QED
    BY <2>1
<1> DEFINE last == IF t = <<>> THEN {} ELSE {t[Len(t)]}
<1>10. Latest(s \o t) = Latest(s) \cup last
  BY <1>5, <1>8, <1>9, LatestConcat
<1>11. Spread(last) = casts
  <2>1. CASE e.bc = <<>>
    <3>1. t = <<>>
      BY <1>5, <2>1
    <3> QED
      BY <2>1, <3>1, SpreadIs
  <2>2. CASE e.bc # <<>>
    <3>1. t # <<>> /\ Len(e.bc) \in 1 .. Len(e.bc)
      <4> DEFINE n == Len(e.bc)
      <4>1. n \in Nat /\ n # 0 /\ Len(t) = n
        BY <1>5, <2>2
      <4> HIDE DEF n
      <4>2. n \in 1 .. n /\ t # <<>>
        BY <4>1
      <4> QED
        BY <4>2 DEF n
    <3>2. t[Len(t)] = [src |-> v, val |-> e.bc[Len(e.bc)]]
      BY <1>5, <3>1
    <3>3. Spread({[src |-> v, val |-> e.bc[Len(e.bc)]]}) =
            {[src |-> v, dst |-> u, val |-> e.bc[Len(e.bc)], via |-> "bc"] : u \in OutEdge[v]}
      BY DEF Spread
    <3> QED
      BY <2>2, <3>1, <3>2, <3>3
  <2> QED
    BY <2>1, <2>2
<1> HIDE DEF casts, last
<1>12. Spread(Latest(out'[w].bc)) = Spread(Latest(s)) \cup casts
  <2>1. Latest(out'[w].bc) = Latest(s) \cup last
    BY <1>4, <1>10
  <2>2. Spread(Latest(s) \cup last) = Spread(Latest(s)) \cup Spread(last)
    BY SpreadIs
  <2> QED
    BY <1>11, <2>1, <2>2
<1>13. SentBy(w)' = ToSet(out'[w].uc) \cup Spread(Latest(out'[w].bc))
  BY <1>2 DEF SentBy
<1>14. SentBy(w) = ToSet(out[w].uc) \cup Spread(Latest(s))
  BY <1>2 DEF SentBy, s
<1> QED
  BY <1>6, <1>7, <1>12, <1>13, <1>14 DEF v

LEMMA ComputeVisits ==
  ASSUME Inductive, Well, NEW w \in Worker, Compute(w)
  PROVE  Promise!Visit(NextOf(w))
<1> DEFINE v == NextOf(w)
<1>1. wpc[w] = "compute" /\ left[w] # {}
  BY ComputeIs
<1>2. PICK e \in Program[v] : Computed(w, v, e)
  BY ComputeIs
<1>3. v \in Vertex /\ v \in left[w] /\ v \in RangeOf(w)
  BY <1>1, NextVertex
<1>4. pc \in {"command", "wait"} /\ wss[w] = ss
  <2>1. ~Quiet(w) /\ wss[w] = ss
    BY <1>1 DEF Quiet, Inductive, TurnsInv, Turns
  <2> QED
    BY <2>1 DEF Inductive, TurnsInv, Rests, Well
<1>5. pc' = pc /\ ss' = ss /\ shm' = shm /\ wss' = wss /\ left'[w] = left[w] \ {v}
  BY <1>2 DEF Computed, placeVars
<1>6. \A x \in Worker \ {w} : Alone(x)
  BY StepAlone DEF WorkerStep
<1>7. SentBy(w)' = SentBy(w) \cup Promise!Sent(v, Keeping(e))
  BY <1>1, <1>2, ComputeAdds
<1> HIDE DEF v
<1>8. \A x \in Worker \ {w} : DoneBy(x)' = DoneBy(x) /\ SentBy(x)' = SentBy(x)
  BY <1>5, <1>6 DEF Alone, Other, DoneBy, SentBy
<1>9. v \notin DoneBy(w) /\ DoneBy(w)' = DoneBy(w) \cup {v}
  BY <1>3, <1>4, <1>5 DEF DoneBy
<1>10. \A x \in Worker \ {w} : v \notin DoneBy(x)
  <2>1. \A x \in Worker \ {w} : v \notin RangeOf(x)
    BY <1>3, RangesApart
  <2> QED
    BY <2>1 DEF DoneBy
<1>11. v \in todoBar /\ todoBar' = todoBar \ {v}
  BY <1>3, <1>4, <1>5, <1>8, <1>9, <1>10, Bars, BarsNext
<1>12. outboxBar' = outboxBar \cup Promise!Sent(v, Keeping(e))
  <2>1. UNION {SentBy(x)' : x \in Worker} = (UNION {SentBy(x) : x \in Worker}) \cup Promise!Sent(v, Keeping(e))
    <3> HIDE DEF Promise!Sent
    <3>1. \A x \in Worker : SentBy(x)' = IF x = w THEN SentBy(w) \cup Promise!Sent(v, Keeping(e)) ELSE SentBy(x)
      BY <1>7, <1>8
    <3> QED
      BY <3>1
  <2> QED
    BY <1>4, <1>5, <2>1, Bars, BarsNext
<1>13. inboxBar' = [inboxBar EXCEPT ![v] = {}]
  BY <1>3, <1>5, <1>11 DEF inboxBar
<1>14. Keeping(e) \in [u \in Vertex |-> {[uc |-> f.uc, bc |-> f.bc, flag |-> "keep"] : f \in Program[u]}][v]
       /\ Keeping(e).flag = "keep"
  BY <1>2, <1>3 DEF Keeping
<1> DEFINE act == [u \in Vertex |-> u \notin Uncovered]
<1>15. act[v] /\ act = [act EXCEPT ![v] = TRUE]
  BY <1>3 DEF Uncovered
<1>16. act = [act EXCEPT ![v] = (Keeping(e).flag = "revive") \/ (Keeping(e).flag = "keep" /\ @)]
  <2> HIDE DEF act
  <2> QED
    BY <1>14, <1>15
<1>17. stepBar' = stepBar /\ runningBar /\ runningBar' = runningBar
  BY <1>4, <1>5 DEF stepBar, runningBar
<1> HIDE DEF Promise!Sent, Keeping
<1>18. Promise!Visit(v)
  BY <1>3, <1>11, <1>12, <1>13, <1>14, <1>15, <1>16, <1>17 DEF Promise!Visit
<1> QED
  BY <1>18 DEF v

\* When the place decides, a vertex that was not computed is given up.
LEMMA Decides ==
  ASSUME pc = "decide"
  PROVE  todoBar = {} /\ outboxBar = ucc \cup Spread(bcc)
BY Bars

\* A range that counts no vertices has none.
LEMMA NoneProcessed ==
  ASSUME Well, pc = "decide", \A w \in Worker : got[w].processed = 0
  PROVE  /\ Uncovered = Vertex /\ bcc = {}
         /\ numBroadcasts = 0
<1>1. \A w \in Worker : RangeOf(w) = {}
  <2> SUFFICES ASSUME NEW w \in Worker PROVE RangeOf(w) = {}
    OBVIOUS
  <2>1. Cardinality(RangeOf(w)) = 0
    BY DEF Well, WellOf, Counted
  <2> QED
    BY <2>1, RangeTypes, FS_EmptySet
<1>2. Uncovered = Vertex
  BY <1>1 DEF Uncovered
<1>3. bcc = {} /\ \A w \in Worker : got[w].numMsgN = 0
  BY <1>2 DEF Well, Holds
<1>4. UNION {{w} \X (1 .. got[w].numMsgN) : w \in Worker} = {}
  <2>1. \A w \in Worker : 1 .. got[w].numMsgN = {}
    BY <1>3
  <2> QED
    BY <2>1
<1> QED
  BY <1>2, <1>3, <1>4, FS_EmptySet DEF numBroadcasts

LEMMA Terminates ==
  ASSUME Inductive, Well, Terminate
  PROVE  Promise!Terminate
<1>1. /\ pc = "decide" /\ pc' = "close" /\ ucc' = {} /\ bcc' = {}
      /\ ss' = ss /\ shm' = shm
  BY DEF Terminate
<1>2. todoBar = {} /\ todoBar' = {} /\ outboxBar = ucc \cup Spread(bcc)
  BY <1>1, Decides, BarsNext
<1>3. outboxBar' = {}
  BY <1>1, BarsNext, SpreadIs
<1>4. inboxBar' = inboxBar /\ stepBar' = stepBar /\ runningBar /\ ~runningBar'
  BY <1>1, <1>2 DEF inboxBar, stepBar, runningBar
<1>5. TRUE \in EndChoice \/ (outboxBar = {} /\ \A v \in Vertex : ~[u \in Vertex |-> u \notin Uncovered][v])
  <2> SUFFICES ASSUME \A w \in Worker : got[w].processed = 0, Unicasts = {}
               PROVE  outboxBar = {} /\ \A v \in Vertex : ~[u \in Vertex |-> u \notin Uncovered][v]
    BY DEF Terminate
  <2>1. Uncovered = Vertex /\ bcc = {}
    BY <1>1, NoneProcessed
  <2>2. ucc = {}
    BY DEF Unicasts
  <2> QED
    BY <1>2, <2>1, <2>2, SpreadIs
<1>6. runningBar' = FALSE
  BY <1>1 DEF runningBar
<1> QED
  BY <1>2, <1>3, <1>4, <1>5, <1>6 DEF Promise!Terminate

\* Boxes that hold the messages of sent, one by one, deliver them.
LEMMA OneByOne ==
  ASSUME NEW sent, NEW of, \A v \in Vertex : of[v] = {m \in sent : m.dst = v}
  PROVE  Promise!Delivers([v \in Vertex |-> {{m} : m \in of[v]}], sent)
<1> DEFINE box == [v \in Vertex |-> {{m} : m \in of[v]}]
<1> SUFFICES ASSUME NEW v \in Vertex
             PROVE  /\ UNION box[v] = {m \in sent : m.dst = v}
                    /\ \A k \in box[v] : k # {}
                    /\ \A k, l \in box[v] : k # l => k \cap l = {}
                    /\ \A k \in box[v] : \A m, n \in k : m = n
  BY DEF Promise!Delivers
<1>1. box[v] = {{m} : m \in of[v]}
  OBVIOUS
<1> HIDE DEF box
<1>2. UNION box[v] = of[v]
  BY <1>1
<1>3. \A k \in box[v] : \E m : k = {m}
  BY <1>1
<1>4. \A k, l \in box[v] : k # l => k \cap l = {}
  <2> SUFFICES ASSUME NEW k \in box[v], NEW l \in box[v], k # l PROVE k \cap l = {}
    OBVIOUS
  <2>1. PICK m : k = {m}
    BY <1>3
  <2>2. PICK n : l = {n}
    BY <1>3
  <2> QED
    BY <2>1, <2>2
<1> QED
  BY <1>2, <1>3, <1>4

LEMMA Continues ==
  ASSUME Inductive, Well, Export
  PROVE  Promise!Continue
<1>1. /\ pc = "decide" /\ pc' \in {"command", "limit"} /\ ucc' = {} /\ bcc' = {}
      /\ ss' = ss + 1 /\ wss' = wss
      /\ ucc \subseteq Unicast
  BY DEF Export, workerVars, Well, Holds
<1>2. todoBar = {} /\ outboxBar = ucc \cup Spread(bcc)
  BY <1>1, Decides
<1>3. \A w \in Worker : DoneBy(w)' = {} /\ SentBy(w)' = {}
  <2> SUFFICES ASSUME NEW w \in Worker PROVE wss'[w] # ss'
    BY DEF DoneBy, SentBy
  <2>1. wss[w] \in Int /\ wss[w] <= ss /\ ss \in Nat
    BY DEF Well, WellOf, StepInTurn, Inductive, Shape
  <2> QED
    BY <1>1, <2>1
<1>4. todoBar' = Vertex /\ outboxBar' = {}
  BY <1>1, <1>3, BarsNext, SpreadIs
<1> DEFINE sent == IF Unicasts # {} THEN Unicasts ELSE Spread(Broadcasts)
<1>5. inboxBar' = [v \in Vertex |-> {{m} : m \in shm'.of[v]}]
  BY <1>4 DEF inboxBar
<1>6. \A v \in Vertex : shm'.of[v] = {m \in sent : m.dst = v}
  BY DEF Export
<1>7. sent = outboxBar \/ (sent = ucc /\ ucc # {})
  BY <1>2, SpreadIs DEF Unicasts, Broadcasts
<1>8. Promise!Unicasts = ucc
  <2>1. \A m \in ucc : m.via = "uc"
    BY <1>1 DEF Unicast
  <2>2. \A m \in Spread(bcc) : m.via # "uc"
    BY SpreadIs
  <2> QED
    BY <1>2, <2>1, <2>2 DEF Promise!Unicasts
<1> HIDE DEF sent
<1>9. Promise!Delivers(inboxBar', sent)
  BY <1>5, <1>6, OneByOne
<1>10. \/ Promise!Delivers(inboxBar', outboxBar)
       \/ TRUE /\ Promise!Unicasts # {} /\ Promise!Delivers(inboxBar', Promise!Unicasts)
  BY <1>7, <1>8, <1>9
<1>11. (\E v \in Vertex : [u \in Vertex |-> u \notin Uncovered][v]) \/ outboxBar # {}
  <2> SUFFICES ASSUME outboxBar = {}
               PROVE  \E v \in Vertex : [u \in Vertex |-> u \notin Uncovered][v]
    OBVIOUS
  <2>1. Unicasts = {}
    BY <1>2 DEF Unicasts
  <2>2. ~ \A w \in Worker : got[w].processed = 0
    BY <1>1, <2>1, NoneProcessed DEF Export
  <2>3. PICK w \in Worker : RangeOf(w) # {}
    <3>1. PICK w \in Worker : got[w].processed # 0
      BY <2>2
    <3>2. Cardinality(RangeOf(w)) # 0
      BY <1>1, <3>1 DEF Well, WellOf, Counted
    <3> QED
      BY <3>2, FS_EmptySet
  <2>4. PICK v \in RangeOf(w) : v \in Vertex
    BY <2>3, RangeTypes
  <2> QED
    BY <2>4 DEF Uncovered
<1>12. stepBar' = stepBar + 1 /\ runningBar /\ runningBar' = runningBar
  BY <1>1 DEF stepBar, runningBar
<1> HIDE DEF Promise!Delivers, Promise!Unicasts
<1> QED
  BY <1>2, <1>4, <1>10, <1>11, <1>12 DEF Promise!Continue

-----------------------------------------------------------------------------
LEMMA StepPromise ==
  ASSUME Inductive, SuperstepInv, [Next]_vars, died' = {}
  PROVE  [Imports \/ Promise!Next]_(Promise!vars)
<1>1. died = {} /\ Well /\ i \in Worker
  BY DiedStays DEF SuperstepInv, Inductive, Shape
<1>2. CASE UNCHANGED vars
  BY <1>2, PlaceStutters DEF vars, placeVars, workerVars
<1>3. CASE PlaceStep
  <2>1. CASE ForkFails \/ Command \/ Close
    <3>1. UNCHANGED <<ss, shm, wss, left, out>>
      BY <2>1 DEF ForkFails, Command, Close, workerVars
    <3>2. UNCHANGED <<ucc, bcc>>
      BY <2>1 DEF ForkFails, Command, Close
    <3>3. pc' = pc \/ (pc = "fork" /\ pc' = "gaveup") \/ (pc = "command" /\ pc' = "wait")
                   \/ (pc = "close" /\ pc' = "done")
      BY <2>1 DEF ForkFails, Command, Close, Advance
    <3> QED
      BY <3>1, <3>2, <3>3, PlaceStutters
  <2>2. ~CommandFails /\ ~Throw
    BY <1>1 DEF CommandFails, Throw, Well, died
  <2> QED
    BY <1>1, <1>3, <2>1, <2>2, ForkStutters, ImportPasses, Terminates, Continues
       DEF PlaceStep, Promise!Next
<1>4. ASSUME NEW w \in Worker, AnswerStep(w) PROVE UNCHANGED Promise!vars
  BY <1>4, PlaceStutters DEF AnswerStep, ReadAnswer, ReadNothing, workerVars
<1>5. ASSUME NEW w \in Worker, WorkerStep(w) PROVE [Promise!Next]_(Promise!vars)
  <2>1. CASE WriteSegments(w) \/ WriteAnswer(w) \/ Leave(w)
    BY <2>1, PlaceStutters DEF WriteSegments, WriteAnswer, Leave, placeVars
  <2>2. CASE Compute(w)
    <3>1. NextOf(w) \in Vertex
      BY <1>1, <2>2, ComputeIs, NextVertex
    <3>2. Promise!Visit(NextOf(w))
      BY <1>1, <1>5, <2>2, ComputeVisits
    <3>3. Promise!Next
      BY <3>1, <3>2, Zenon DEF Promise!Next, Promise!Visit
    <3> QED
      BY <3>3
  <2>3. CASE ReadCommand(w)
    BY <1>1, <2>3, ReadCommandStutters
  <2> QED
    BY <1>5, <2>1, <2>2, <2>3 DEF WorkerStep
<1>6. ASSUME NEW w \in Worker, Die(w) PROVE FALSE
  <2>1. wpc'[w] = "died"
    BY <1>6 DEF Die, Inductive, Shape, WpcShape
  <2> QED
    BY <2>1 DEF died
<1> QED
  BY <1>2, <1>3, <1>4, <1>5, <1>6 DEF Next

\* As long as no worker dies, the place and its workers behave as one sequence of
\* supersteps but for what the import does with the vertices no worker has and with
\* the names of broadcasts (rangeThreadLocalVertices, importSentMessagesOnShmem): for
\* every number of workers, every graph and every program.
THEOREM PythonImplementsSupersteps == Spec => ImplementsSupersteps
<1>1. Spec => [](Inductive /\ SuperstepInv)
  BY SpecSuperstepInv
<1>2. Init => Promise!Init
  BY InitPromise
<1>3. Inductive /\ SuperstepInv /\ [Next]_vars
        => [died' # {} \/ Imports \/ Promise!Next]_(Promise!vars)
  BY StepPromise
<1> QED
  BY <1>1, <1>2, <1>3, PTL DEF Spec, ImplementsSupersteps
=============================================================================
