--------------------------- MODULE CSVReaderProofs ----------------------------
(***************************************************************************)
(* However a file is cut, the buffer a subtask parses is not written, and  *)
(* the threads of a place count the same number of chunks.                 *)
(***************************************************************************)
EXTENDS CSVReader, TLAPS

\* The thread has yet to add its lines of the chunk at hand.
Pending(p, t) == IF \E s \in subtask[p] : s.parts = <<>> \/ t \in s.left THEN 1 ELSE 0
Count(p, t) == Len(chunkSize[p][t]) + Pending(p, t)

IsSubtask(s) ==
  \E k, stop, b, cuts, ts :
    s = [split |-> k, end |-> stop, buffer |-> b, parts |-> cuts, left |-> ts]

\* At most one subtask, as many as are counted; once it has started it reads the
\* buffer in front.
OneSubtask(p) ==
  /\ \/ subtask[p] = {} /\ numLauchTasks[p] = 0
     \/ \E s : subtask[p] = {s} /\ numLauchTasks[p] = 1
  /\ \A s \in subtask[p] :
       /\ IsSubtask(s)
       /\ \/ s.parts = <<>> /\ s.left = {}
          \/ s.parts # <<>> /\ s.buffer = front[p] /\ s.left \subseteq Threads

\* Every thread has counted the same chunks, or has the one at hand still to count.
SameCount(p) == \A t \in Threads : Count(p, t) = Count(p, 0)

Shape ==
  /\ job \in Jobs
  /\ front \in [Places -> {0, 1}]
  /\ DOMAIN reader = Places /\ DOMAIN numLauchTasks = Places /\ DOMAIN subtask = Places
  /\ DOMAIN buffers = Places /\ \A p \in Places : DOMAIN buffers[p] = {0, 1}
  /\ \E S : chunkSize \in [Places -> [Threads -> Seq(S)]]

\* Rows are merged when every place has finished; then nothing is left to parse.
MergedLast == phase = "done" => \A p \in Places : reader[p].pc = "finish" /\ subtask[p] = {}

ReaderInv ==
  /\ Shape
  /\ MergedLast
  /\ \A p \in Places : OneSubtask(p) /\ SameCount(p)

LEMMA InvInit == Init => ReaderInv
<1> SUFFICES ASSUME Init PROVE ReaderInv
  OBVIOUS
<1> USE DEF Init
<1>1. job.teamSize \in Nat \ {0} /\ job.nthreads \in Nat \ {0}
  BY JobsAssumption
<1>2. Shape
  <2>1. chunkSize \in [Places -> [Threads -> Seq({})]]
    OBVIOUS
  <2>2. \E S : chunkSize \in [Places -> [Threads -> Seq(S)]]
    BY <2>1
  <2> QED
    BY <2>2 DEF Shape
<1>3. MergedLast
  BY DEF MergedLast
<1>4. ASSUME NEW p \in Places PROVE OneSubtask(p) /\ SameCount(p)
  <2>1. OneSubtask(p)
    BY DEF OneSubtask
  <2>2. \A t \in Threads : Count(p, t) = 0
    BY DEF Count, Pending
  <2>3. 0 \in Threads
    BY <1>1 DEF Threads
  <2> QED
    BY <2>1, <2>2, <2>3 DEF SameCount
<1> QED
  BY <1>2, <1>3, <1>4 DEF ReaderInv

-----------------------------------------------------------------------------
(* What a step leaves to the places it is not of. *)
LEMMA Sizes ==
  ASSUME Shape
  PROVE  job.teamSize \in Nat \ {0} /\ job.nthreads \in Nat \ {0} /\ 0 \in Threads
BY JobsAssumption DEF Shape, Threads

LEMMA PlaceStays ==
  ASSUME NEW p, OneSubtask(p), SameCount(p), job' = job,
         front'[p] = front[p], numLauchTasks'[p] = numLauchTasks[p],
         subtask'[p] = subtask[p], chunkSize'[p] = chunkSize[p]
  PROVE  OneSubtask(p)' /\ SameCount(p)'
<1>1. Threads' = Threads
  BY DEF Threads
<1>2. \A t : Count(p, t)' = Count(p, t)
  BY DEF Count, Pending
<1>3. OneSubtask(p)'
  BY <1>1 DEF OneSubtask
<1>4. SameCount(p)'
  BY <1>1, <1>2 DEF SameCount
<1> QED
  BY <1>3, <1>4

LEMMA Quiet ==
  ASSUME ReaderInv, UNCHANGED <<job, front, numLauchTasks, subtask, chunkSize>>
  PROVE  \A p \in Places' : OneSubtask(p)' /\ SameCount(p)'
<1>1. Places' = Places
  BY DEF Places
<1> QED
  BY <1>1, PlaceStays DEF ReaderInv

LEMMA BeforeReading ==
  ASSUME ReaderInv, readHeader \/ guessQuotes \/ splitFiles
  PROVE  ReaderInv'
<1>1. UNCHANGED <<job, front, numLauchTasks, subtask, chunkSize, reader, buffers>>
  BY DEF readHeader, guessQuotes, splitFiles, placeVars
<1>2. phase' # "done"
  BY DEF readHeader, guessQuotes, splitFiles
<1>3. Shape'
  BY <1>1 DEF ReaderInv, Shape, Places, Threads
<1> QED
  BY <1>1, <1>2, <1>3, Quiet DEF ReaderInv, MergedLast

LEMMA Merging ==
  ASSUME ReaderInv, merge
  PROVE  ReaderInv'
<1>1. UNCHANGED <<job, front, numLauchTasks, subtask, chunkSize, reader, buffers>>
  BY DEF merge, placeVars
<1>2. MergedLast'
  BY <1>1 DEF merge, MergedLast, Places
<1>3. Shape'
  BY <1>1 DEF ReaderInv, Shape, Places, Threads
<1> QED
  BY <1>1, <1>2, <1>3, Quiet DEF ReaderInv

LEMMA Opening ==
  ASSUME ReaderInv, NEW p \in Places, open(p)
  PROVE  ReaderInv'
<1>1. UNCHANGED <<job, front, numLauchTasks, subtask, chunkSize, buffers, phase>> /\ phase # "done"
  BY DEF open
<1>2. DOMAIN reader' = DOMAIN reader
  BY DEF open
<1>3. Shape'
  BY <1>1, <1>2 DEF ReaderInv, Shape, Places, Threads
<1> QED
  BY <1>1, <1>3, Quiet DEF ReaderInv, MergedLast

LEMMA Filling ==
  ASSUME ReaderInv, NEW p \in Places, fill(p)
  PROVE  ReaderInv'
<1>1. UNCHANGED <<job, front, numLauchTasks, subtask, chunkSize, phase>>
  BY DEF fill
<1>2. DOMAIN reader' = DOMAIN reader
  BY DEF fill
<1>3. phase # "done"
  BY DEF fill, ReaderInv, MergedLast
<1>4. DOMAIN buffers' = Places /\ \A q \in Places : DOMAIN buffers'[q] = {0, 1}
  BY DEF fill, ReaderInv, Shape
<1>5. Shape'
  BY <1>1, <1>2, <1>4 DEF ReaderInv, Shape, Places, Threads
<1> QED
  BY <1>1, <1>3, <1>5, Quiet DEF ReaderInv, MergedLast

LEMMA Cycling ==
  ASSUME ReaderInv, NEW p \in Places, cycleBuffers(p)
  PROVE  ReaderInv'
<1> DEFINE s == [split |-> reader[p].split, end |-> reader[p].offset, buffer |-> 0,
                 parts |-> <<>>, left |-> {}]
<1>1. UNCHANGED <<job, buffers, chunkSize, phase>> /\ Places' = Places /\ Threads' = Threads
  BY DEF cycleBuffers, Places, Threads
<1>2. phase # "done"
  BY DEF cycleBuffers, ReaderInv, MergedLast
<1>3. subtask[p] = {} /\ subtask'[p] = {s} /\ numLauchTasks'[p] = 1
  <2>1. numLauchTasks[p] = 0
    BY DEF cycleBuffers, SubtasksDone
  <2>2. subtask[p] = {}
    BY <2>1 DEF ReaderInv, OneSubtask
  <2>3. subtask' = [subtask EXCEPT ![p] = @ \cup {s}]
    BY DEF cycleBuffers
  <2> HIDE DEF s
  <2>4. subtask'[p] = {s}
    BY <2>2, <2>3 DEF ReaderInv, Shape
  <2>5. numLauchTasks'[p] = 1
    BY DEF cycleBuffers, ReaderInv, Shape
  <2> QED
    BY <2>2, <2>4, <2>5
<1>4. \A q \in Places : q # p => /\ subtask'[q] = subtask[q] /\ front'[q] = front[q]
                                 /\ numLauchTasks'[q] = numLauchTasks[q]
  BY DEF cycleBuffers, ReaderInv, Shape
<1>5. /\ front' \in [Places -> {0, 1}]
      /\ DOMAIN reader' = Places /\ DOMAIN numLauchTasks' = Places /\ DOMAIN subtask' = Places
  <2>1. front' = [front EXCEPT ![p] = 1 - @] /\ front \in [Places -> {0, 1}]
    BY DEF cycleBuffers, ReaderInv, Shape
  <2>2. front[p] = 0 \/ front[p] = 1
    BY <2>1
  <2>3. 1 - front[p] \in {0, 1}
    BY <2>2
  <2>4. front' \in [Places -> {0, 1}]
    BY <2>1, <2>3
  <2>5. DOMAIN reader' = Places /\ DOMAIN numLauchTasks' = Places
    BY DEF cycleBuffers, ReaderInv, Shape
  <2>6. DOMAIN subtask' = Places
    BY DEF cycleBuffers, ReaderInv, Shape
  <2> QED
    BY <2>4, <2>5, <2>6
<1>6. Shape'
  BY <1>1, <1>5 DEF ReaderInv, Shape
<1>7. OneSubtask(p)'
  <2>1. IsSubtask(s) /\ s.parts = <<>> /\ s.left = {}
    BY DEF IsSubtask
  <2> HIDE DEF s
  <2> QED
    BY <1>3, <2>1 DEF OneSubtask
<1>8. SameCount(p)'
  <2>1. s.parts = <<>>
    OBVIOUS
  <2> HIDE DEF s
  <2>2. \A t : Pending(p, t)' = 1 /\ Pending(p, t) = 0
    BY <1>3, <2>1 DEF Pending
  <2>3. \A t \in Threads : Len(chunkSize[p][t]) + 0 = Len(chunkSize[p][0]) + 0
    BY <2>2 DEF ReaderInv, SameCount, Count
  <2>4. \A t \in Threads : Len(chunkSize[p][t]) \in Nat
    BY DEF ReaderInv, Shape
  <2>5. 0 \in Threads
    BY Sizes DEF ReaderInv
  <2> QED
    BY <1>1, <2>2, <2>3, <2>4, <2>5 DEF SameCount, Count
<1>9. ASSUME NEW q \in Places, q # p PROVE OneSubtask(q)' /\ SameCount(q)'
  BY <1>1, <1>4, <1>9, PlaceStays DEF ReaderInv
<1> QED
  BY <1>1, <1>2, <1>6, <1>7, <1>8, <1>9 DEF ReaderInv, MergedLast

\* The record of a subtask is one with these fields.
Fields == {"split", "end", "buffer", "parts", "left"}
LEMMA SubtaskFields ==
  ASSUME NEW r, r = [k \in Fields |-> r[k]]
  PROVE  IsSubtask(r)
<1> DEFINE q == [split |-> r.split, end |-> r.end, buffer |-> r.buffer, parts |-> r.parts,
                 left |-> r.left]
<1>1. q = [k \in Fields |-> q[k]]
  BY DEF Fields
<1>2. /\ q.split = r.split /\ q.end = r.end /\ q.buffer = r.buffer /\ q.parts = r.parts
      /\ q.left = r.left
  OBVIOUS
<1>3. r = q
  <2> HIDE DEF q
  <2>1. \A k \in Fields : q[k] = r[k]
    BY <1>2 DEF Fields
  <2>2. [k \in Fields |-> q[k]] = [k \in Fields |-> r[k]]
    BY <2>1
  <2> QED
    BY <1>1, <2>2
<1> QED
  BY <1>3, Zenon DEF IsSubtask

LEMMA Starting ==
  ASSUME ReaderInv, NEW p \in Places, NEW s \in subtask[p], startSubtask(p, s)
  PROVE  ReaderInv'
<1> DEFINE parts == Parts(buffers[p][front[p]])
           r == [s EXCEPT !.buffer = front[p], !.parts = parts, !.left = Threads]
<1>1. /\ UNCHANGED <<job, buffers, chunkSize, phase, front, numLauchTasks, reader>>
      /\ Places' = Places /\ Threads' = Threads
  BY DEF startSubtask, Places, Threads
<1>2. subtask[p] = {s} /\ IsSubtask(s) /\ s.parts = <<>> /\ numLauchTasks[p] = 1
  BY DEF startSubtask, ReaderInv, OneSubtask
<1>3. parts # <<>>
  <2>1. DOMAIN parts = Threads
    BY DEF Parts
  <2>2. 0 \in DOMAIN parts
    BY <2>1, Sizes DEF ReaderInv
  <2> HIDE DEF parts
  <2> QED
    BY <2>2
<1>4. subtask' = [subtask EXCEPT ![p] = (@ \ {s}) \cup {r}]
  BY DEF startSubtask
<1> HIDE DEF parts
<1>5. IsSubtask(r) /\ r.buffer = front[p] /\ r.parts = parts /\ r.left = Threads
  <2>1. DOMAIN s = Fields
    BY <1>2 DEF IsSubtask, Fields
  <2>2. r.buffer = front[p] /\ r.parts = parts /\ r.left = Threads
    BY <2>1 DEF Fields
  <2>3. r = [k \in Fields |-> r[k]]
    BY <2>1
  <2> HIDE DEF r
  <2>4. IsSubtask(r)
    BY <2>3, SubtaskFields
  <2> QED
    BY <2>2, <2>4
<1> HIDE DEF r
<1>6. subtask'[p] = {r} /\ DOMAIN subtask' = Places
  BY <1>2, <1>4 DEF ReaderInv, Shape
<1>7. \A q \in Places : q # p => subtask'[q] = subtask[q]
  BY <1>4 DEF ReaderInv, Shape
<1>8. OneSubtask(p)'
  BY <1>1, <1>2, <1>3, <1>5, <1>6 DEF OneSubtask
<1>9. SameCount(p)'
  <2>1. \A t \in Threads : Pending(p, t)' = 1 /\ Pending(p, t) = 1
    BY <1>1, <1>2, <1>5, <1>6 DEF Pending
  <2>2. 0 \in Threads
    BY Sizes DEF ReaderInv
  <2>3. \A t \in Threads : Count(p, t)' = Count(p, t)
    BY <1>1, <2>1 DEF Count
  <2> QED
    BY <1>1, <2>2, <2>3 DEF ReaderInv, SameCount
<1>10. phase # "done"
  BY <1>2 DEF ReaderInv, MergedLast
<1>11. Shape'
  BY <1>1, <1>6 DEF ReaderInv, Shape
<1>12. ASSUME NEW q \in Places, q # p PROVE OneSubtask(q)' /\ SameCount(q)'
  BY <1>1, <1>7, <1>12, PlaceStays DEF ReaderInv
<1> QED
  BY <1>1, <1>8, <1>9, <1>10, <1>11, <1>12 DEF ReaderInv, MergedLast

\* A sequence to which a value is appended.
LEMMA Appended ==
  ASSUME NEW S, NEW f \in Seq(S), NEW e
  PROVE  Append(f, e) \in Seq(S \cup {e}) /\ f \in Seq(S \cup {e}) /\ Len(Append(f, e)) = Len(f) + 1
<1>1. f \in [1 .. Len(f) -> S] /\ Len(f) \in Nat
  OBVIOUS
<1>2. f \in Seq(S \cup {e})
  BY <1>1
<1> QED
  BY <1>2

LEMMA Parsing ==
  ASSUME ReaderInv, NEW p \in Places, NEW s \in subtask[p], NEW t \in Threads, parse(p, s, t)
  PROVE  ReaderInv'
<1> DEFINE r == [s EXCEPT !.left = @ \ {t}]
<1>1. /\ UNCHANGED <<job, buffers, phase, front, numLauchTasks, reader>>
      /\ Places' = Places /\ Threads' = Threads
  BY DEF parse, Places, Threads
<1>2. /\ subtask[p] = {s} /\ IsSubtask(s) /\ numLauchTasks[p] = 1 /\ t \in s.left
      /\ s.parts # <<>> /\ s.buffer = front[p] /\ s.left \subseteq Threads
  BY DEF parse, ReaderInv, OneSubtask
<1>3. PICK n : chunkSize' = [chunkSize EXCEPT ![p][t] = Append(@, n)]
  BY DEF parse, Counted
<1>4. subtask' = [subtask EXCEPT ![p] = (@ \ {s}) \cup {r}]
  BY DEF parse
<1>5. IsSubtask(r) /\ r.buffer = s.buffer /\ r.parts = s.parts /\ r.left = s.left \ {t}
  <2>1. DOMAIN s = Fields
    BY <1>2 DEF IsSubtask, Fields
  <2>2. r.buffer = s.buffer /\ r.parts = s.parts /\ r.left = s.left \ {t}
    BY <2>1 DEF Fields
  <2>3. r = [k \in Fields |-> r[k]]
    BY <2>1
  <2> HIDE DEF r
  <2>4. IsSubtask(r)
    BY <2>3, SubtaskFields
  <2> QED
    BY <2>2, <2>4
<1> HIDE DEF r
<1>6. subtask'[p] = {r} /\ DOMAIN subtask' = Places
  BY <1>2, <1>4 DEF ReaderInv, Shape
<1>7. PICK S : chunkSize \in [Places -> [Threads -> Seq(S)]]
  BY DEF ReaderInv, Shape
<1>8. /\ \A q \in Places : q # p => subtask'[q] = subtask[q] /\ chunkSize'[q] = chunkSize[q]
      /\ \A u \in Threads : u # t => chunkSize'[p][u] = chunkSize[p][u]
      /\ chunkSize'[p][t] = Append(chunkSize[p][t], n)
  BY <1>3, <1>4, <1>7 DEF ReaderInv, Shape
<1>9. chunkSize' \in [Places -> [Threads -> Seq(S \cup {n})]]
  <2>1. DOMAIN chunkSize' = Places /\ \A q \in Places : chunkSize'[q] = [u \in Threads |-> chunkSize'[q][u]]
    BY <1>3, <1>7
  <2>2. \A q \in Places, u \in Threads : chunkSize'[q][u] \in Seq(S \cup {n})
    <3> SUFFICES ASSUME NEW q \in Places, NEW u \in Threads
                 PROVE  chunkSize'[q][u] \in Seq(S \cup {n})
      OBVIOUS
    <3>1. chunkSize[q][u] \in Seq(S)
      BY <1>7
    <3>2. chunkSize[q][u] \in Seq(S \cup {n}) /\ Append(chunkSize[q][u], n) \in Seq(S \cup {n})
      BY <3>1, Appended
    <3>3. CASE q = p /\ u = t
      BY <1>8, <3>2, <3>3
    <3>4. CASE ~ (q = p /\ u = t)
      BY <1>8, <3>2, <3>4
    <3> QED
      BY <3>3, <3>4
  <2>3. chunkSize' = [q \in Places |-> chunkSize'[q]]
    BY <1>3, <1>7
  <2> QED
    BY <2>1, <2>2, <2>3
<1>10. Shape'
  <2>1. \E V : chunkSize' \in [Places -> [Threads -> Seq(V)]]
    BY <1>9
  <2> QED
    BY <1>1, <1>6, <2>1 DEF ReaderInv, Shape
<1>11. OneSubtask(p)'
  BY <1>1, <1>2, <1>5, <1>6 DEF OneSubtask
<1>12. SameCount(p)'
  <2>1. \A u \in Threads : Len(chunkSize[p][u]) \in Nat
    BY <1>7
  <2>2. Len(chunkSize'[p][t]) = Len(chunkSize[p][t]) + 1
    BY <1>7, <1>8, Appended
  <2>3. Pending(p, t) = 1 /\ Pending(p, t)' = 0
    BY <1>2, <1>5, <1>6 DEF Pending
  <2>4. \A u \in Threads : u # t => Pending(p, u)' = Pending(p, u)
    BY <1>2, <1>5, <1>6 DEF Pending
  <2>5. \A u \in Threads : Count(p, u)' = Count(p, u)
    BY <1>8, <2>1, <2>2, <2>3, <2>4 DEF Count
  <2>6. 0 \in Threads
    BY Sizes DEF ReaderInv
  <2> QED
    BY <1>1, <2>5, <2>6 DEF ReaderInv, SameCount
<1>13. phase # "done"
  BY <1>2 DEF ReaderInv, MergedLast
<1>14. ASSUME NEW q \in Places, q # p PROVE OneSubtask(q)' /\ SameCount(q)'
  BY <1>1, <1>8, <1>14, PlaceStays DEF ReaderInv
<1> QED
  BY <1>1, <1>10, <1>11, <1>12, <1>13, <1>14 DEF ReaderInv, MergedLast

LEMMA Notifying ==
  ASSUME ReaderInv, NEW p \in Places, NEW s \in subtask[p], notifySubtaskCompletion(p, s)
  PROVE  ReaderInv'
<1>1. /\ UNCHANGED <<job, buffers, chunkSize, phase, front, reader>>
      /\ Places' = Places /\ Threads' = Threads
  BY DEF notifySubtaskCompletion, Places, Threads
<1>2. subtask[p] = {s} /\ numLauchTasks[p] = 1 /\ s.parts # <<>> /\ s.left = {}
  BY DEF notifySubtaskCompletion, ReaderInv, OneSubtask
<1>3. /\ subtask' = [subtask EXCEPT ![p] = @ \ {s}]
      /\ numLauchTasks' = [numLauchTasks EXCEPT ![p] = @ - 1]
  BY DEF notifySubtaskCompletion
<1>4. /\ subtask'[p] = {} /\ DOMAIN subtask' = Places
      /\ numLauchTasks'[p] = 0 /\ DOMAIN numLauchTasks' = Places
  BY <1>2, <1>3 DEF ReaderInv, Shape
<1>5. \A q \in Places : q # p => /\ subtask'[q] = subtask[q]
                                 /\ numLauchTasks'[q] = numLauchTasks[q]
  BY <1>3 DEF ReaderInv, Shape
<1>6. Shape'
  BY <1>1, <1>4 DEF ReaderInv, Shape
<1>7. OneSubtask(p)'
  BY <1>4 DEF OneSubtask
<1>8. SameCount(p)'
  <2>1. \A t \in Threads : Pending(p, t)' = 0 /\ Pending(p, t) = 0
    BY <1>2, <1>4 DEF Pending
  <2>2. \A t \in Threads : Count(p, t)' = Count(p, t)
    BY <1>1, <2>1 DEF Count
  <2>3. 0 \in Threads
    BY Sizes DEF ReaderInv
  <2> QED
    BY <1>1, <2>2, <2>3 DEF ReaderInv, SameCount
<1>9. phase # "done"
  BY <1>2 DEF ReaderInv, MergedLast
<1>10. ASSUME NEW q \in Places, q # p PROVE OneSubtask(q)' /\ SameCount(q)'
  BY <1>1, <1>5, <1>10, PlaceStays DEF ReaderInv
<1> QED
  BY <1>1, <1>6, <1>7, <1>8, <1>9, <1>10 DEF ReaderInv, MergedLast

LEMMA Stuttering == ReaderInv /\ UNCHANGED vars => ReaderInv'
<1> SUFFICES ASSUME ReaderInv, UNCHANGED vars PROVE ReaderInv'
  OBVIOUS
<1>1. UNCHANGED <<job, front, numLauchTasks, subtask, chunkSize, reader, buffers, phase>>
  BY DEF vars
<1>2. Shape'
  BY <1>1 DEF ReaderInv, Shape, Places, Threads
<1> QED
  BY <1>1, <1>2, Quiet DEF ReaderInv, MergedLast, Places

LEMMA InvStep == ReaderInv /\ [Next]_vars => ReaderInv'
<1> SUFFICES ASSUME ReaderInv, [Next]_vars PROVE ReaderInv'
  OBVIOUS
<1>1. CASE readHeader \/ guessQuotes \/ splitFiles
  BY <1>1, BeforeReading
<1>2. CASE merge
  BY <1>2, Merging
<1>3. CASE ended \/ UNCHANGED vars
  BY <1>3, Stuttering DEF ended
<1>4. ASSUME NEW p \in Places, open(p) \/ fill(p) \/ cycleBuffers(p) PROVE ReaderInv'
  BY <1>4, Opening, Filling, Cycling
<1>5. ASSUME NEW p \in Places, Subtask(p) PROVE ReaderInv'
  BY <1>5, Starting, Parsing, Notifying DEF Subtask
<1> QED
  BY <1>1, <1>2, <1>3, <1>4, <1>5 DEF Next

-----------------------------------------------------------------------------
LEMMA StateFront == ReaderInv => FrontIsParsed
BY DEF ReaderInv, OneSubtask, FrontIsParsed

LEMMA StateCounts == ReaderInv => ChunksCounted
<1> SUFFICES ASSUME ReaderInv, phase = "done", NEW p \in Places, NEW t \in Threads
             PROVE  Len(chunkSize[p][t]) = Len(chunkSize[p][0])
  BY DEF ChunksCounted
<1>1. subtask[p] = {}
  BY DEF ReaderInv, MergedLast
<1>2. Pending(p, t) = 0 /\ Pending(p, 0) = 0
  BY <1>1 DEF Pending
<1>3. Count(p, t) = Count(p, 0)
  BY DEF ReaderInv, SameCount
<1>4. 0 \in Threads
  BY Sizes DEF ReaderInv
<1>5. Len(chunkSize[p][t]) \in Nat /\ Len(chunkSize[p][0]) \in Nat
  BY <1>4 DEF ReaderInv, Shape
<1> QED
  BY <1>2, <1>3, <1>5 DEF Count

LEMMA StepKeeps == ReaderInv /\ [Next]_vars => BuffersKept
<1> SUFFICES ASSUME ReaderInv, [Next]_vars, NEW p \in Places, NEW b \in Unparsed(p)
             PROVE  buffers'[p][b] = buffers[p][b]
  BY DEF BuffersKept
<1>1. ASSUME NEW q \in Places, fill(q) PROVE buffers'[p][b] = buffers[p][b]
  <2>1. PICK d : buffers' = buffers \/ buffers' = [buffers EXCEPT ![q][1 - front[q]] = d]
    BY <1>1 DEF fill
  <2>2. CASE q # p
    BY <2>1, <2>2 DEF ReaderInv, Shape
  <2>3. CASE q = p
    <3>1. reader[p].pc = "fill"
      BY <1>1, <2>3 DEF fill
    <3>2. b = front[p]
      BY <3>1 DEF Unparsed
    <3>3. front[p] \in {0, 1} /\ DOMAIN buffers = Places /\ DOMAIN buffers[p] = {0, 1}
      BY DEF ReaderInv, Shape
    <3>4. b \in {0, 1} /\ b # 1 - front[p]
      BY <3>2, <3>3
    <3> QED
      BY <2>1, <2>3, <3>3, <3>4
  <2> QED
    BY <2>2, <2>3
<1>2. ASSUME NEW q \in Places, open(q) \/ cycleBuffers(q) PROVE buffers' = buffers
  BY <1>2 DEF open, cycleBuffers
<1>3. ASSUME NEW q \in Places, Subtask(q) PROVE buffers' = buffers
  BY <1>3 DEF Subtask, startSubtask, parse, notifySubtaskCompletion
<1>4. ASSUME readHeader \/ guessQuotes \/ splitFiles \/ merge \/ ended \/ UNCHANGED vars
     PROVE  buffers' = buffers
  BY <1>4 DEF readHeader, guessQuotes, splitFiles, merge, ended, placeVars, vars
<1> QED
  BY <1>1, <1>2, <1>3, <1>4 DEF Next

-----------------------------------------------------------------------------
\* SplitterContext of InputSplitter: for any files, places, threads and chunk sizes,
\* a buffer is not written from when it is filled until it is parsed, a subtask parses
\* the buffer in front, and all threads of a place count the same chunks.
THEOREM ChunksAreParsedInTurn == Spec => ChunksInTurn
<1>1. Init => ReaderInv
  BY InvInit
<1>2. ReaderInv /\ [Next]_vars => ReaderInv'
  BY InvStep
<1>3. Spec => []ReaderInv
  BY <1>1, <1>2, PTL DEF Spec
<1>4. ReaderInv /\ [Next]_vars => [BuffersKept /\ FrontIsParsed' /\ ChunksCounted']_vars
  <2>1. ReaderInv' => FrontIsParsed' /\ ChunksCounted'
    BY StateFront, StateCounts, PTL
  <2> QED
    BY <1>2, <2>1, StepKeeps
<1> QED
  BY <1>3, <1>4, PTL DEF Spec, ChunksInTurn
=============================================================================
