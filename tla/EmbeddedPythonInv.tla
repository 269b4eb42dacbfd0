-------------------------- MODULE EmbeddedPythonInv ---------------------------
(***************************************************************************)
(* Why the embedded interpreter works, for any number of calls and runs:   *)
(* who owns the references that the objects count, what is bound and       *)
(* borrowed at every statement, and what the answers come from.            *)
(***************************************************************************)
EXTENDS EmbeddedPython

-----------------------------------------------------------------------------
(***************************************************************************)
(* References and who owns them.                                           *)
(***************************************************************************)
One(a, b) == IF a = b /\ b # Null THEN 1 ELSE 0
\* The kinds of objects, the names they are bound to, and what they are made of.
Kinds == {"module", "dict", "none", "type", "exception", "traceback", "function", "view", "int", "array",
          "str", "bytes", "list", "tuple"}
Keys == {"__dict__", "closures", "aggregator", "terminator", "avalues", "alist", "val", "retval", "tmpAggVal",
         "aggVal", "ss", "multiplicand", "result", "testfunc", "strleft", "strright", "testlist", "testtuple",
         "mview"}
DataOf == [n : Nat, from : Int, ascii : BOOLEAN]
ItemsType == UNION {[D -> Nat] : D \in SUBSET (Keys \cup Nat)}
ObjectType == [kind : Kinds, refs : Nat, items : ItemsType, data : DataOf]
ErrorType == [type : Nat, value : Nat, traceback : Nat]
Interpreter == [heap : Seq(ObjectType), err : ErrorType,
                mem : Seq([live : BOOLEAN, from : Int])]
\* Only the counts differ.
SameObjects(g, h) ==
  /\ Len(h) = Len(g)
  /\ \A a \in 1 .. Len(g) : h[a].kind = g[a].kind /\ h[a].items = g[a].items /\ h[a].data = g[a].data
\* Objects are added, and what d holds may change.
Grows(g, h, d) ==
  /\ Len(g) <= Len(h)
  /\ \A a \in 1 .. Len(g) : /\ h[a].kind = g[a].kind /\ h[a].data = g[a].data
                            /\ a # d => h[a].items = g[a].items
\* What d holds under key, or NULL.
Item(g, d, key) == IF key \in DOMAIN g[d].items THEN g[d].items[key] ELSE Null
\* What an object holds exists.
Closed(heap) ==
  /\ \A a \in DOMAIN heap : \A k \in DOMAIN heap[a].items : heap[a].items[k] <= Len(heap)
  /\ \E keys : IsFiniteSet(keys) /\ \A a \in DOMAIN heap : DOMAIN heap[a].items \subseteq keys
\* How often the containers cs hold x.
HeldBy(heap, cs, x) == Cardinality(HoldersIn(heap, cs, x))
\* How many references to every object are in other hands than a container's.
Ledger == [Nat -> Nat]
\* own has a reference to a that own2 has not; own2 has no other than own; own with one more; no
\* object counts fewer references than there are.
Spends(own, own2, a) == \A x \in Nat : own2[x] + One(x, a) <= own[x]
Below(own2, own) == \A x \in Nat : own2[x] <= own[x]
And(own, a) == [x \in Nat |-> own[x] + One(x, a)]
Backed(heap, cs, own) == \A x \in DOMAIN heap : heap[x].refs >= HeldBy(heap, cs, x) + own[x]
Solid(heap, own) == heap \in Seq(ObjectType) /\ Closed(heap) /\ Backed(heap, Living(heap), own)
\* Every object counts its holders and the references that own says are in other hands.
Within(own, n) == \A x \in Nat : x > n => own[x] = 0
Counted(p, own) == p \in Interpreter /\ Solid(p.heap, own) /\ Within(own, Len(p.heap))
\* The references an error or an exception holds.
InError(e, a) == One(a, e.type) + One(a, e.value) + One(a, e.traceback)
AndError(own, e) == [x \in Nat |-> own[x] + InError(e, x)]
\* The references of the variables: what was made is theirs until it is stolen.
Unstolen(r) == r["testlist"] = Null /\ r["testtuple"] = Null /\ r["called"] = Null
InRegisters(r, x) ==
  One(x, r["pobj"]) + One(x, r["avalues"]) + One(x, r["pObjAggVal"]) + One(x, r["pObjSS"])
    + One(x, r["po"]) + One(x, r["testlist"]) + One(x, r["testtuple"]) + One(x, r["called"])
InNumbers(r, x) == IF Unstolen(r) THEN One(x, r["a"]) + One(x, r["b"]) + One(x, r["c"]) ELSE 0
InRoots(r, x) == One(x, MainModule) + One(x, None) + One(x, ExceptionType) + One(x, r["locals"])
\* What always stays, what the calling code owns, and all that is owned outside containers.
Rooted(r) == [x \in Nat |-> InRoots(r, x)]
Registers(r) == [x \in Nat |-> InRoots(r, x) + InRegisters(r, x) + InNumbers(r, x)]
Own == AndError(AndError(IF Running THEN Registers(regs) ELSE Rooted(regs), py.err), frame.exc)

-----------------------------------------------------------------------------
(***************************************************************************)
(* The scripts.                                                            *)
(***************************************************************************)
\* The variables that hold what they do not own, the numbers and strings that are stolen, and what
\* steals them.
Borrowed == {"result", "retval", "strleft", "strright", "testfunc"}
Numbers == {"a", "b", "c"}
Stolen == {"testlist", "testtuple", "called"}
\* The calls, by what they do to the references.
Making == {"importImport", "unicodeFromString", "longFromLong", "memoryViewFromMemoryChunk"}
Stealing == {"listNew", "tupleNew", "listFromRail", "tupleFromRail", "objectCallObject"}
Writing == {"dictNew", "dictSetItemString", "runString"}
Commands == {"loadClosures", "aggregate", "terminate", "resultList", "resultTuple", "resultString",
             "resultNumber", "resultBytes", "defTestfunc", "printView"}
Others == {"rail", "listAsRail", "tupleAsRail", "calltest", "unicodeAsASCIIString", "longAsLong", "objectStr",
           "bytesAsMemoryChunk", "bufferAsMemoryChunk", "make", "del"}
\* A statement that the scripts may have.
Fine(i) ==
  /\ i.do \in Making \cup Stealing \cup Writing \cup Others
             \cup {"importAddModule", "moduleGetDict", "dictGetItemString"}
  /\ i.do \in Making => i.keep = "object" /\ i.to \in ObjectNames \ (Kept \cup Borrowed \cup Stolen)
  /\ i.do \in Stealing => i.keep = "object" /\ i.to \in Stolen
  /\ i.do = "dictNew" => i.keep = "object" /\ i.to = "locals"
  /\ i.do = "importAddModule" => i.keep = "object" /\ i.to = "main"
  /\ i.do = "moduleGetDict" => i.keep = "object" /\ i.to = "globals" /\ i.args[1] = "main"
  /\ i.do = "dictGetItemString" =>
       i.keep = "object" /\ i.to \in Borrowed /\ i.args[1] = "locals" /\ i.args[2] = i.to
  /\ i.do = "dictSetItemString" =>
       /\ i.keep = "value" /\ i.args[1] = "locals" /\ i.args[2] \in Keys \ {"__dict__"}
       /\ i.args[3] \in ObjectNames \ (Kept \cup Borrowed) /\ 3 \in DOMAIN i.args
  /\ i.do = "runString" =>
       i.keep = "value" /\ i.args[1] \in Commands /\ i.args[2] = "globals" /\ i.args[3] = "locals"
  /\ i.do = "memoryViewFromMemoryChunk" => i.args[1] \in DOMAIN NoChunks
  /\ i.do \in Others => i.keep # "object"
\* What only one script does, and where.
Placed(s, j, i) ==
  /\ i.do = "runString" /\ i.args[1] = "aggregate" => s = "callAggregator" /\ j = 3
  /\ i.do = "runString" /\ i.args[1] = "terminate" => s = "callTerminator" /\ j = 6
  /\ i.do = "del" => s = "callTerminator" /\ j = 9
  /\ i.do = "listFromRail" => s = "test_listFromRail" /\ j = 8
  /\ i.do = "tupleFromRail" => s = "test_tupleFromRail" /\ j = 8
  /\ i.do = "objectCallObject" => s = "test_objectCallObjectFunc" /\ j = 13
\* The statement uses what may have been stolen.
UsesNumbers(i) == \E n \in DOMAIN i.args : i.args[n] \in Numbers

-----------------------------------------------------------------------------
(***************************************************************************)
(* The invariant.                                                          *)
(***************************************************************************)
\* The types of the variables.
FrameFields == {"script", "pc", "exc", "handled", "rail", "value", "run", "call", "state", "chunk"}
ExceptionRecord == [kind : {"none", "fetched", "message"}, type : Nat, value : Nat, traceback : Nat]
PythonTypes ==
  /\ regs \in [ObjectNames -> Nat] /\ \A r \in ObjectNames : regs[r] <= Len(py.heap)
  /\ DOMAIN frame = FrameFields /\ frame.exc \in ExceptionRecord
  /\ frame.script \in DOMAIN Script /\ frame.pc \in Nat /\ frame.call \in Nat
  /\ frame.chunk \in [DOMAIN NoChunks -> Nat]

\* What locals hold under key.
Local(key) == Item(py.heap, regs["locals"], key)

\* The module __main__ and its dictionary are always there.
Roots ==
  /\ py.heap[MainModule].kind = "module" /\ Item(py.heap, MainModule, "__dict__") = Globals
  /\ regs["main"] \in {Null, MainModule} /\ regs["globals"] \in {Null, Globals}
  /\ regs["locals"] # Null => py.heap[regs["locals"]].kind = "dict"

\* What is borrowed is not needed once locals are written, nor what is stolen once it is.
Ahead ==
  \A j \in frame.pc .. Len(Statements) :
    /\ Statements[j].do \in Writing => \A r \in Borrowed : regs[r] = Null
    /\ UsesNumbers(Statements[j]) => Unstolen(regs)

\* What is borrowed is what locals hold.
Borrows == \A r \in Borrowed : regs[r] # Null => regs["locals"] # Null /\ Local(r) = regs[r]

\* How far test_listFromRail and test_tupleFromRail have come.
ThreeMade ==
  /\ frame.pc >= 5 => regs["a"] # Null
  /\ frame.pc >= 6 => regs["b"] # Null
  /\ frame.pc >= 7 => regs["c"] # Null
  /\ frame.pc <= 8 => Unstolen(regs)
  /\ frame.pc = 8 => frame.rail = <<regs["a"], regs["b"], regs["c"]>>

\* How far test_objectCallObjectFunc has come.
TwoMade ==
  /\ frame.pc >= 5 => regs["a"] # Null
  /\ frame.pc >= 6 => regs["locals"] # Null /\ Local("strleft") = regs["a"]
  /\ frame.pc >= 7 => regs["b"] # Null
  /\ frame.pc >= 8 => Local("strright") = regs["b"]
  /\ frame.pc >= 10 => regs["strleft"] = regs["a"]
  /\ frame.pc >= 11 => regs["strright"] = regs["b"]
  /\ frame.pc \in {12, 13} => frame.rail = <<regs["a"], regs["b"]>>
  /\ frame.pc <= 13 => Unstolen(regs)
Rails ==
  /\ frame.script \in {"test_listFromRail", "test_tupleFromRail"} => ThreeMade
  /\ frame.script = "test_objectCallObjectFunc" => TwoMade

\* The view a shows the memory c.
Shows(a, c) == a # Null /\ py.heap[a].data.n = c

\* The memory c is alive and of this call.
Current(c) == c \in DOMAIN py.mem /\ py.mem[c].live /\ py.mem[c].from = frame.call

\* The memory of the thread and of the place, and what a call makes of its own.
ChunksLive ==
  LET both == {frame.chunk.onThread, frame.chunk.onPlace}
  IN  /\ frame.chunk.onThread # frame.chunk.onPlace
      /\ \A c \in both : c \in DOMAIN py.mem /\ py.mem[c].live
      /\ frame.script = "callAggregator" => frame.chunk.values \in both
      /\ frame.script = "callTerminator" /\ frame.pc \in 2 .. 9 => frame.chunk.mca \notin both

\* locals hold a result of this call.
ComputedNow == regs["locals"] # Null /\ Local("retval") # Null /\ py.heap[Local("retval")].data.from = frame.call

\* How far callAggregator has come.
FreshValues ==
  /\ Current(frame.chunk.values)
  /\ frame.pc >= 2 => Shows(regs["avalues"], frame.chunk.values)
  /\ frame.pc = 3 => regs["locals"] # Null /\ Local("avalues") = regs["avalues"]
  /\ frame.pc >= 4 => ComputedNow
  /\ frame.pc >= 5 => regs["retval"] = Local("retval")

\* How far callTerminator has come.
FreshAnswer ==
  /\ frame.pc \in 2 .. 9 => Current(frame.chunk.mca)
  /\ frame.pc >= 3 => Shows(regs["pObjAggVal"], frame.chunk.mca)
  /\ frame.pc \in {5, 6} => regs["locals"] # Null /\ Local("tmpAggVal") = regs["pObjAggVal"]
  /\ frame.pc >= 7 => ComputedNow
  /\ frame.pc >= 8 => regs["retval"] = Local("retval")
  /\ frame.pc >= 9 => frame.value.from = frame.call
Fresh ==
  /\ frame.script = "callAggregator" => FreshValues
  /\ frame.script = "callTerminator" => FreshAnswer

\* What holds while a call is under way.
InCall == Ahead /\ Borrows /\ Rails /\ Fresh

\* The inductive invariant.
PythonInv ==
  /\ PythonTypes /\ Counted(py, Own) /\ Roots
  /\ frame.state = "running" => ChunksLive
  /\ frame.state = "running" /\ Running => InCall
  /\ ResultsAreFresh

-----------------------------------------------------------------------------
(***************************************************************************)
(* What the calls of CPython and the programs do to the objects.           *)
(***************************************************************************)
\* The containers cs hold the same.
SameItems(g, h, cs) == \A c \in cs : h[c].items = g[c].items

\* The heap in which the count of a is n.
SetRefs(heap, a, n) == [heap EXCEPT ![a].refs = n]

\* One round: what the dead held is given back.
Falling(heap, dead, own) ==
  /\ heap \in Seq(ObjectType) /\ Closed(heap)
  /\ dead \in SUBSET (DOMAIN heap) /\ dead \cap Living(heap) = {}
  /\ Backed(heap, Living(heap) \cup dead, own)

\* A new object: what it holds is spent by own2, and it is owned at most once.
Fits(o, n) ==
  /\ o \in ObjectType /\ o.refs = 1 /\ IsFiniteSet(DOMAIN o.items)
  /\ \A k \in DOMAIN o.items : o.items[k] <= n

\* The new object c is paid for by what own2 no longer has.
Pays(own, own2, h, c) == \A x \in Nat : own2[x] + HeldBy(h, {c}, x) <= own[x] + One(x, c)

\* The same, of an object that holds u, v and w.
PaysFor(own, own2, u, v, w, c) ==
  \A x \in Nat : own2[x] + (One(x, u) + One(x, v) + One(x, w)) <= own[x] + One(x, c)

\* The heap in which d holds other items.
SetItems(g, d, items) == [g EXCEPT ![d].items = items]

\* The place of one item: what held its old value holds its new one.
ItemMoves(g, h, cs, d, key, old, v) ==
  /\ d \in cs /\ \A c \in cs : c # d => h[c].items = g[c].items
  /\ key \in DOMAIN h[d].items /\ h[d].items[key] = v /\ v # 0
  /\ old = IF key \in DOMAIN g[d].items THEN g[d].items[key] ELSE 0
  /\ \A k : k # key => (k \in DOMAIN h[d].items <=> k \in DOMAIN g[d].items)
  /\ \A k \in DOMAIN g[d].items : k # key => h[d].items[k] = g[d].items[k]

\* As many holders are lost as won.
Balanced(g, h, cs, old, v, x) == HeldBy(h, cs, x) + One(x, old) = HeldBy(g, cs, x) + One(x, v)

\* What d holds under the keys of ks may change, and nothing else.
Rewrites(g, h, d, ks) == Grows(g, h, d) /\ \A k : k \notin ks => Item(h, d, k) = Item(g, d, k)

\* A program keeps the counts right and binds only the variables of ks.
CodeSound(p, own, l, ks, o) ==
  /\ o.ok \in BOOLEAN /\ Rewrites(p.heap, o.py.heap, l, ks) /\ o.py.mem = p.mem
  /\ o.ok => Counted(o.py, own) /\ o.py.err = p.err
  /\ ~o.ok => Counted(o.py, AndError(own, o.py.err)) /\ o.py.err \in ErrorType /\ o.py.err # NoError

\* What is bound to a variable of locals, one after another.
Rebinds(p, own, l, ks, q) == /\ Counted(q, own) /\ Rewrites(p.heap, q.heap, l, ks)
                             /\ q.err = p.err /\ q.mem = p.mem
Scope(p, own, l) == Counted(p, own) /\ own[l] # 0 /\ own[ExceptionType] # 0

\* What is computed from the memory of a call.
ComputedFrom(from) == [NoData EXCEPT !.from = from]
ResultKept(q, l, key, data) == Item(q.heap, l, key) # 0 /\ q.heap[Item(q.heap, l, key)].data = data

\* What the memory shows, where a program reads it.
Reads(command, p, l) ==
  /\ command = "aggregate" => Viewed(p, GetItem(p, l, "avalues")) \in Int
  /\ command = "terminate" => Viewed(p, GetItem(p, l, "tmpAggVal")) \in Int

-----------------------------------------------------------------------------
(***************************************************************************)
(* What the functions of NativePython do: own is owned besides the error.  *)
(***************************************************************************)
\* The interpreter between two calls.
Ready(p, own) == Counted(p, AndError(own, p.err)) /\ own[ExceptionType] # 0 /\ own[None] # 0

\* What a function leaves, with the exception it throws.
Leaves(q, own, exc) ==
  IF exc = NoException THEN Counted(q, AndError(own, q.err))
                       ELSE Counted(q, AndError(AndError(own, q.err), exc))

\* own2 is owned if nothing is thrown; otherwise own.
Ends(p, own, own2, d, o) ==
  /\ Grows(p.heap, o.py.heap, d) /\ o.py.mem = p.mem /\ o.exc \in ExceptionRecord
  /\ Leaves(o.py, IF o.exc = NoException THEN own2 ELSE own, o.exc)

\* Nothing is made that is kept.
Plain(p, o) ==
  \/ \E ret : o \in Ok(p, ret) \cup Ok(Failed(p), ret)
  \/ o \in ThrowMessage(p) \cup ThrowFetched(p) \cup ThrowFetched(Failed(p))

\* An object is made, and kept.
MadeObject(p, data, o) ==
  \E kind \in Kinds :
    \/ o \in Ok(New(p, kind, <<>>, data), Newest(p) + 1)
    \/ o \in ThrowFetched(New(p, kind, <<>>, data)) \cup ThrowFetched(p) \cup ThrowMessage(p)
    \/ \E traced \in BOOLEAN : o \in ThrowFetched(Error(p, TRUE, traced))

\* q is p after d has been given v under key.
SetIs(p, own, d, v, key, q) ==
  /\ Counted(q, own) /\ Grows(p.heap, q.heap, d) /\ q.err = p.err /\ q.mem = p.mem
  /\ Item(q.heap, d, key) = v /\ \A k : k # key => Item(q.heap, d, k) = Item(p.heap, d, k)

\* The dictionary d and the value v are owned.
Settable(p, own, d, v) == Counted(p, own) /\ d # 0 /\ own[d] # 0 /\ v # 0 /\ own[v] # 0

\* own has what is given away of u, v and w besides own2.
Gives(own, own2, u, v, w) == \A x \in Nat : own2[x] + (One(x, u) + One(x, v) + One(x, w)) <= own[x]

\* The rail has the items u, v and w, or u and v.
RailOf(p, rail, u, v, w) ==
  /\ (rail = <<u, v, w>> /\ w # 0) \/ (rail = <<u, v>> /\ w = 0)
  /\ u # 0 /\ v # 0 /\ u <= Len(p.heap) /\ v <= Len(p.heap) /\ w <= Len(p.heap)

-----------------------------------------------------------------------------
(***************************************************************************)
(* What the statements of the scripts do, and the handlers.                *)
(***************************************************************************)
\* s begins with the dictionaries.
Prologued(s) ==
  /\ s[1] = Keep("main", "importAddModule", <<>>) /\ s[2] = Keep("globals", "moduleGetDict", <<"main">>)
  /\ s[3] = Keep("locals", "dictNew", <<>>)

\* A statement that is no number's.
Known(i, do) == Fine(i) /\ i.do = do /\ ~UsesNumbers(i)

\* The script x is orderly: c is where it begins to borrow, and d where it begins to steal.
Cut(x, j, c, d) ==
  LET i == Script[x][j] IN
  /\ Fine(i) /\ Placed(x, j, i)
  /\ (i.do = "dictGetItemString" => c <= j) /\ (i.do \in Writing => j < c)
  /\ (i.do \in Stealing => d <= j) /\ (UsesNumbers(i) => j < d)

\* The references of the calling code, but for those that may be stolen.
Without(r) == [x \in Nat |-> InRoots(r, x) + InRegisters(r, x)]
Makeable == ObjectNames \ (Kept \cup Borrowed \cup Stolen)
Owned == ObjectNames \ (Kept \cup Borrowed \cup Numbers)

\* A call is under way.
Calling == PythonInv /\ frame.state = "running" /\ Running
CurrentStatement == Statements[frame.pc]

\* The registers after the statement i with the outcome o.
Written(i, o) == IF i.keep = "object" THEN [regs EXCEPT ![i.to] = o.ret] ELSE regs

\* The dictionary the statement writes.
Writer(i) == IF i.do \in {"dictSetItemString", "runString"} THEN regs["locals"] ELSE 0

\* What a statement leaves, whether it throws or not.
Effect(i, o) ==
  /\ o.exc \in ExceptionRecord /\ Grows(py.heap, o.py.heap, Writer(i))
  /\ o.exc = NoException => /\ Counted(o.py, AndError(Registers(Written(i, o)), o.py.err))
                            /\ i.keep = "object" => o.ret \in Nat /\ o.ret <= Len(o.py.heap)
  /\ o.exc # NoException => Counted(o.py, AndError(AndError(Rooted(regs), o.py.err), o.exc))
  /\ i.do \notin {"make", "del"} => o.py.mem = py.mem
Runs(i, o) ==
  LET l == regs["locals"] IN
  /\ l # 0
  /\ i.args[1] = "defTestfunc" => \A k : k # "testfunc" => Item(o.py.heap, l, k) = Local(k)
  /\ i.args[1] \in {"aggregate", "terminate"} =>
       Item(o.py.heap, l, "retval") # 0 /\ o.py.heap[Item(o.py.heap, l, "retval")].data.from = frame.call
Puts(i, o) ==
  LET l == regs["locals"] IN
  /\ l # 0 /\ regs[i.args[3]] # 0 /\ Item(o.py.heap, l, i.args[2]) = regs[i.args[3]]
  /\ \A k : k # i.args[2] => Item(o.py.heap, l, k) = Local(k)

\* What a statement does when nothing is thrown.
Does(i, o) ==
  /\ i.do \in Making \cup Stealing \cup {"dictNew"} => o.ret # 0
  /\ i.do = "dictNew" => o.py.heap[o.ret].kind = "dict"
  /\ i.do = "memoryViewFromMemoryChunk" => o.py.heap[o.ret].data.n = frame.chunk[i.args[1]]
  /\ i.do = "importAddModule" => o.ret = MainModule
  /\ i.do = "moduleGetDict" => o.ret = Globals
  /\ i.do = "dictGetItemString" => regs["locals"] # 0 /\ o.ret = Local(i.args[2])
  /\ i.do = "dictSetItemString" => Puts(i, o)
  /\ i.do = "runString" => Runs(i, o)
  /\ i.do = "rail" => o.ret = [n \in DOMAIN i.args |-> regs[i.args[n]]]
  /\ i.do \in {"longAsLong", "bufferAsMemoryChunk"} /\ regs[i.args[1]] # 0 =>
       o.ret = py.heap[regs[i.args[1]]].data
  /\ i.do = "make" => o.py.mem = Append(py.mem, [live |-> TRUE, from |-> frame.call])
  /\ i.do = "del" => o.py.mem = [py.mem EXCEPT ![frame.chunk.mca].live = FALSE]

\* The statement i is executed with the outcome o.
Doing(i, o) == Calling /\ i = CurrentStatement /\ o \in Do(i)
Outcome(i, o) == Effect(i, o) /\ (o.exc = NoException => Does(i, o))

\* The step of a statement that throws.
Throws(o) ==
  /\ py' = o.py /\ regs' = regs /\ DOMAIN frame' = FrameFields
  /\ frame'.exc = o.exc /\ \A f \in FrameFields \ {"exc"} : frame'[f] = frame[f]

\* The step of a statement that returns.
Passes(i, o) ==
  /\ py' = o.py /\ regs' = Written(i, o) /\ DOMAIN frame' = FrameFields /\ frame'.pc = frame.pc + 1
  /\ \A f \in FrameFields \ {"pc", "rail", "value", "chunk"} : frame'[f] = frame[f]
  /\ frame'.rail = IF i.keep = "rail" THEN o.ret ELSE frame.rail
  /\ frame'.value = IF i.keep = "value" /\ i.do \in {"bufferAsMemoryChunk", "longAsLong"} THEN o.ret ELSE frame.value
  /\ frame'.chunk = [n \in DOMAIN NoChunks |-> frame'.chunk[n]]
  /\ frame'.chunk.mca = IF i.do = "make" THEN Len(o.py.mem) ELSE frame.chunk.mca
  /\ \A n \in DOMAIN NoChunks \ {"mca"} : frame'.chunk[n] = frame.chunk[n]
Stepping(i, o) == Doing(i, o) /\ Outcome(i, o) /\ o.exc = NoException /\ Passes(i, o)

\* What a statement says.
Says(i, keep, to, do, args) == i.keep = keep /\ i.to = to /\ i.do = do /\ i.args = args

\* What was there stays, but for what locals hold.
Onward(d) ==
  /\ Grows(py.heap, py'.heap, d) /\ d \in {0, regs["locals"]}
  /\ regs' \in [ObjectNames -> Nat] /\ \A r \in ObjectNames : regs'[r] = regs[r] \/ (r \notin Kept /\ regs'[r] = 0)
  /\ Len(py'.heap) \in Nat

\* Nothing has been assigned.
Empty(r) == r = [n \in ObjectNames |-> Null]

\* The interpreter, when other calls have been made.
Later(p, own, q) == Ready(q, own) /\ Grows(p.heap, q.heap, 0) /\ q.mem = p.mem

\* The variables of the call are gone.
OnlyKept == regs' = [r \in ObjectNames |-> IF r \in Kept THEN regs[r] ELSE Null]
MemoryType == Seq([live : BOOLEAN, from : Int])

\* The interpreter as it was, with other memory, and the frame of another call.
Returning ==
  /\ PythonInv /\ frame.state = "running" /\ Ended /\ OnlyKept
  /\ py' = [heap |-> py.heap, err |-> py.err, mem |-> py'.mem] /\ py'.mem \in MemoryType
  /\ DOMAIN frame' = FrameFields /\ frame'.exc = frame.exc /\ frame'.script \in DOMAIN Script
  /\ frame'.pc \in Nat /\ frame'.call \in Nat /\ frame'.chunk \in [DOMAIN NoChunks -> Nat]
=============================================================================
