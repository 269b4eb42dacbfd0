---------------------------- MODULE EmbeddedPython ----------------------------
(***************************************************************************)
(* The Python interpreter inside a place: NativePython, NativePyObject and *)
(* NativePyException on top of CPython, the calls PyWorkerPlaceGraph makes *)
(* to load its closures, to aggregate and to terminate, and the calls of   *)
(* python/test/TestPython.                                                 *)
(*                                                                         *)
(* An object of Python has an address, a count of references and, when it  *)
(* is a container, the addresses it holds.  An object whose count is 0 is  *)
(* gone; its address is not used again.  X10 holds plain addresses and     *)
(* counts nothing.  Every function of NativePython is the set of its       *)
(* outcomes: the interpreter after it, what it returns, what it throws.    *)
(* CPython itself is modelled by what its documentation says of the calls  *)
(* made here; no allocation fails.                                         *)
(***************************************************************************)
EXTENDS Integers, Sequences, FiniteSets, SequencesExt

CONSTANTS
  MaxCalls,   \* how often aggregator and terminator are called at most
  MaxRuns     \* how often run is called on the graph

ASSUME PythonAssumption == MaxCalls \in Nat /\ MaxRuns \in Nat

VARIABLES
  py,      \* the interpreter: objects, error indicator, memory outside of Python
  regs,    \* the NativePyObject values of the calling code
  frame    \* the calling code: script, pc, other values, exception, call number

pythonVars == <<py, regs, frame>>

-----------------------------------------------------------------------------
(* CPython. *)
Null == 0
NoData == [n |-> 0, from |-> 0, ascii |-> TRUE]
NoError == [type |-> Null, value |-> Null, traceback |-> Null]
Object(kind, items, data) == [kind |-> kind, refs |-> 1, items |-> items, data |-> data]

MainModule == 1
Globals == 2
None == 3
ExceptionType == 4
Initialized ==
  [heap |-> <<Object("module", [__dict__ |-> Globals], NoData), Object("dict", <<>>, NoData),
              Object("none", <<>>, NoData), Object("type", <<>>, NoData)>>,
   err  |-> NoError,
   mem  |-> <<>>]

New(p, kind, items, data) == [p EXCEPT !.heap = Append(@, Object(kind, items, data))]
Newest(p) == Len(p.heap)
Is(p, a, kinds) == a # Null /\ p.heap[a].kind \in kinds
ItemsOf(o) == {k \in DOMAIN o.items : o.items[k] # Null}

\* The places in the containers cs that hold object a.
HoldersIn(heap, cs, a) ==
  {h \in UNION {{c} \X ItemsOf(heap[c]) : c \in cs} : heap[h[1]].items[h[2]] = a}

IncRef(p, a) == [p EXCEPT !.heap[a].refs = @ + 1]
\* What dead objects hold is released with them.
Release(heap, dead) ==
  [a \in DOMAIN heap |-> [heap[a] EXCEPT !.refs = @ - Cardinality(HoldersIn(heap, dead, a))]]
Died(before, after) == {a \in DOMAIN before : before[a].refs # 0 /\ after[a].refs = 0}
Fall(f) == IF f.dead = {} THEN f
           ELSE LET heap == Release(f.heap, f.dead) IN [heap |-> heap, dead |-> Died(f.heap, heap)]
\* One after another objects die: not more often than there are objects.
DecRef(p, a) ==
  LET heap == [p.heap EXCEPT ![a].refs = @ - 1]
      fall[n \in Nat] == IF n = 0 THEN [heap |-> heap, dead |-> Died(p.heap, heap)]
                                  ELSE Fall(fall[n - 1])
  IN  [p EXCEPT !.heap = SubSeq(fall[Len(p.heap)].heap, 1, Len(p.heap))]

GetItem(p, d, key) == IF key \in DOMAIN p.heap[d].items THEN p.heap[d].items[key] ELSE Null
With(items, key, v) == [k \in DOMAIN items \cup {key} |-> IF k = key THEN v ELSE items[k]]
SetItem(p, d, key, v) ==
  LET old == GetItem(p, d, key)
      q == [IncRef(p, v) EXCEPT !.heap[d].items = With(@, key, v)]
  IN  IF old = Null THEN q ELSE DecRef(q, old)
\* The assignment of a new object to a variable.
Bind(p, d, key, kind, items, data) ==
  LET q == New(p, kind, items, data) IN DecRef(SetItem(q, d, key, Newest(q)), Newest(q))

\* An error: its text is ASCII or not; it has a traceback if Python code was running.
Error(p, ascii, traced) ==
  LET q == New(IncRef(p, ExceptionType), "exception", <<>>, [NoData EXCEPT !.ascii = ascii])
      r == IF traced THEN New(q, "traceback", <<>>, NoData) ELSE q
  IN  [r EXCEPT !.err = [type |-> ExceptionType, value |-> Newest(q),
                         traceback |-> IF traced THEN Newest(r) ELSE Null]]
Raised(p) == {Error(p, ascii, TRUE) : ascii \in BOOLEAN}
Failed(p) == Error(p, TRUE, FALSE)

\* What the memory shows that view a was made of.
Garbage == -1
Viewed(p, a) == LET c == p.mem[p.heap[a].data.n] IN IF c.live THEN c.from ELSE Garbage

-----------------------------------------------------------------------------
(* The programs. *)
Done(q) == [py |-> q, ok |-> TRUE]
Errors(set) == {[py |-> q, ok |-> FALSE] : q \in set}

\* integratePython: what is pickled may not load.
LoadCode(p, l) ==
  {Done(Bind(Bind(p, l, "aggregator", "function", <<>>, NoData),
             l, "terminator", "function", <<>>, NoData))} \cup Errors(Raised(p))

\* callAggregator: the aggregator may raise, and what it returns may not be a number.
AggregateCode(p, l) ==
  LET from == Viewed(p, GetItem(p, l, "avalues"))
      alist == Bind(p, l, "alist", "view", <<>>, NoData)
      val == Bind(alist, l, "val", "int", <<>>, [NoData EXCEPT !.from = from])
      array == Bind(val, l, "retval", "array", <<>>, NoData)
      appended == Bind(val, l, "retval", "array", <<>>, [NoData EXCEPT !.n = 1, !.from = from])
  IN  IF GetItem(p, l, "aggregator") = Null THEN Errors(Raised(alist))
      ELSE {Done(appended)} \cup Errors(Raised(alist)) \cup Errors(Raised(array))

\* callTerminator
TerminateCode(p, l) ==
  LET from == Viewed(p, GetItem(p, l, "tmpAggVal"))
      aggVal == Bind(p, l, "aggVal", "int", <<>>, [NoData EXCEPT !.from = from])
  IN  IF GetItem(p, l, "terminator") = Null THEN Errors(Raised(aggVal))
      ELSE Errors(Raised(aggVal)) \cup
           {Done(Bind(aggVal, l, "retval", "int", <<>>, [NoData EXCEPT !.n = n, !.from = from])) :
              n \in {0, 1}}

\* TestPython
ThreeStrings(p, l, kind) ==
  LET q == New(New(New(p, "str", <<>>, NoData), "str", <<>>, NoData), "str", <<>>, NoData)
      n == Newest(q)
  IN  {Done(Bind(q, l, "result", kind, <<n - 2, n - 1, n>>, NoData))}

Code(command, p, l) ==
  CASE command = "loadClosures" -> LoadCode(p, l)
    [] command = "aggregate"    -> AggregateCode(p, l)
    [] command = "terminate"    -> TerminateCode(p, l)
    [] command = "resultList"   -> ThreeStrings(p, l, "list")
    [] command = "resultTuple"  -> ThreeStrings(p, l, "tuple")
    [] command = "resultString" -> {Done(Bind(p, l, "result", "str", <<>>, NoData))}
    [] command = "resultNumber" -> {Done(Bind(p, l, "result", "int", <<>>, NoData))}
    [] command = "resultBytes"  -> {Done(Bind(p, l, "result", "bytes", <<>>, NoData))}
    [] command = "defTestfunc"  -> {Done(Bind(p, l, "testfunc", "function", <<>>, NoData))}
    [] command = "printView"    -> {Done(p)}

-----------------------------------------------------------------------------
(* NativePyException. *)
Exception(kind, e) == [kind |-> kind, type |-> e.type, value |-> e.value, traceback |-> e.traceback]
NoException == Exception("none", NoError)

Ok(p, ret) == {[py |-> p, ret |-> ret, exc |-> NoException]}
\* _make() takes the error from the interpreter.
ThrowFetched(p) ==
  {[py |-> [p EXCEPT !.err = NoError], ret |-> Null, exc |-> Exception("fetched", p.err)]}
\* _make(message) leaves the error where it is, and its fields NULL.
ThrowMessage(p) == {[py |-> p, ret |-> Null, exc |-> Exception("message", NoError)]}
OkUnlessError(p, ret) == IF p.err = NoError THEN Ok(p, ret) ELSE ThrowFetched(p)

\* extractExcInfo.  A text that is not ASCII leaves an error behind it.  The type passed to
\* format_exception is not initialised: the call goes well, or is one without arguments and
\* fails, or the process does.
Crashed == [py |-> Initialized, crash |-> TRUE]
Survived(p) == [py |-> p, crash |-> FALSE]
extractExcInfo(p, exc) ==
  IF exc.kind = "message" \/ exc.value = Null THEN {Survived(p)}
  ELSE LET texts == IF p.heap[exc.value].data.ascii THEN {p}
                    ELSE {Failed(p), Error(p, TRUE, TRUE)}
       IN  {Survived(q) : q \in texts} \cup
           (IF exc.traceback = Null THEN {}
            ELSE {Crashed} \cup {Survived(Failed(q)) : q \in texts})

\* DECREF of the three objects, NULL or not.
DECREF(p, exc) ==
  IF Null \in {exc.type, exc.value, exc.traceback} THEN Crashed
  ELSE Survived(DecRef(DecRef(DecRef(p, exc.type), exc.value), exc.traceback))

-----------------------------------------------------------------------------
(* NativePython. *)
importImport(p) ==
  Ok(New(p, "module", <<>>, NoData), Newest(p) + 1)
    \cup UNION {ThrowFetched(Error(p, TRUE, traced)) : traced \in BOOLEAN}
\* What it makes is never released.
calltest(p, module) == Ok(New(New(p, "tuple", <<>>, NoData), "int", <<>>, NoData), Null)
importAddModule(p) == Ok(p, MainModule)
moduleGetDict(p, module) ==
  IF Is(p, module, {"module"}) THEN Ok(p, GetItem(p, module, "__dict__")) ELSE ThrowMessage(p)
dictNew(p) == Ok(New(p, "dict", <<>>, NoData), Newest(p) + 1)
dictSetItemString(p, dict, key, value) ==
  IF Is(p, dict, {"dict"}) /\ value # Null THEN Ok(SetItem(p, dict, key, value), Null)
                                           ELSE ThrowMessage(p)
\* A borrowed reference.
dictGetItemString(p, dict, key) ==
  IF Is(p, dict, {"dict"}) THEN Ok(p, GetItem(p, dict, key)) ELSE ThrowMessage(p)

\* listNew and tupleNew: an error that is already there is thrown.
newSequence(p, kind) ==
  IF p.err = NoError THEN Ok(New(p, kind, <<>>, NoData), Newest(p) + 1) ELSE ThrowFetched(p)

\* listFromRail and tupleFromRail: the references of the items are stolen, one by one.
\* Mutant: they are given back as if they had not been.
fromRailReleasing(p, kind, rail) ==
  Ok(FoldSet(LAMBDA i, q : DecRef(q, rail[i]), New(p, kind, rail, NoData), DOMAIN rail), Newest(p) + 1)
fromRail(p, kind, rail) ==
  LET missing == SelectInSeq(rail, LAMBDA a : a = Null)
      items == IF missing = 0 THEN rail ELSE SubSeq(rail, 1, missing - 1)
      q == New(p, kind, items, NoData)
  IN  IF p.err # NoError THEN ThrowFetched(q)
      ELSE IF missing # 0 THEN ThrowMessage(q) ELSE Ok(q, Newest(q))

listNew(p) == newSequence(p, "list")
tupleNew(p) == newSequence(p, "tuple")
listFromRail(p, rail) == fromRail(p, "list", rail)
tupleFromRail(p, rail) == fromRail(p, "tuple", rail)

\* listAsRail and tupleAsRail: borrowed references.
asRail(p, kind, a) == IF Is(p, a, {kind}) THEN Ok(p, p.heap[a].items) ELSE ThrowMessage(p)

listAsRail(p, a) == asRail(p, "list", a)
tupleAsRail(p, a) == asRail(p, "tuple", a)

unicodeFromString(p) == Ok(New(p, "str", <<>>, NoData), Newest(p) + 1)
unicodeAsASCIIString(p, a) ==
  IF ~Is(p, a, {"str"}) THEN ThrowMessage(p)
  ELSE IF p.heap[a].data.ascii THEN Ok(p, p.heap[a].data) ELSE ThrowFetched(Failed(p))
longFromLong(p) == Ok(New(p, "int", <<>>, NoData), Newest(p) + 1)
longAsLong(p, a) ==
  IF a = Null THEN Ok(p, NoData)
  ELSE OkUnlessError(IF Is(p, a, {"int"}) THEN p ELSE Failed(p), p.heap[a].data)

\* Mutant: a program that fails is not noticed.
runStringUnchecked(p, command, globals, locals) ==
  UNION {Ok([o.py EXCEPT !.err = NoError], None) : o \in Code(command, p, locals)}
runString(p, command, globals, locals) ==
  IF ~Is(p, globals, {"dict"}) \/ ~Is(p, locals, {"dict"}) THEN ThrowMessage(p)
  ELSE UNION {IF o.ok THEN Ok(IncRef(o.py, None), None) ELSE ThrowFetched(o.py) :
                o \in Code(command, p, locals)}

\* The arguments become a tuple that owns them; it is released if nothing is thrown.
objectCallObject(p, callable, rail) ==
  IF ~Is(p, callable, {"function"}) THEN ThrowMessage(p)
  ELSE UNION {IF a.exc # NoException THEN {a}
              ELSE Ok(DecRef(New(a.py, "str", <<>>, NoData), a.ret), Newest(a.py) + 1)
                     \cup UNION {ThrowFetched(q) : q \in Raised(a.py)} :
                a \in tupleFromRail(p, rail)}

\* It throws nothing: a text that is not ASCII is NULL, and an error stays behind.
objectStr(p, a) ==
  IF a = Null \/ p.heap[a].data.ascii THEN Ok(p, NoData) ELSE Ok(Failed(p), NoData)

\* A copy, which the caller deletes, of what the buffer of an object holds.
asMemoryChunk(p, a) ==
  IF Is(p, a, {"bytes", "array", "view"}) THEN Ok(p, p.heap[a].data) ELSE ThrowFetched(Failed(p))
bytesAsMemoryChunk(p, a) == IF a = Null THEN ThrowMessage(p) ELSE asMemoryChunk(p, a)
\* The items must fill the buffer: those of aggregators are Double.
bufferAsMemoryChunk(p, a) == IF a = Null THEN ThrowMessage(p) ELSE asMemoryChunk(p, a)

\* A view of the memory, not a reference that keeps it.
memoryViewFromMemoryChunk(p, c) ==
  IF c = Null THEN ThrowMessage(p)
  ELSE OkUnlessError(New(p, "view", <<>>, [NoData EXCEPT !.n = c]), Newest(p) + 1)

-----------------------------------------------------------------------------
(* The calling code: a sequence of calls, each with the function, its arguments, and what
   becomes of the answer: it is kept as an object of some name, as a rail or as a value.   *)
Call(keep, to, do, args) == [keep |-> keep, to |-> to, do |-> do, args |-> args]
Keep(to, do, args) == Call("object", to, do, args)
Rail(do, args) == Call("rail", "", do, args)
Value(do, args) == Call("value", "", do, args)
Run(command) == Value("runString", <<command, "globals", "locals">>)
Put(key, to) == Value("dictSetItemString", <<"locals", key, to>>)
Take(key) == Keep(key, "dictGetItemString", <<"locals", key>>)
Elements(names) == Call("rail", "", "rail", names)

Prologue == <<Keep("main", "importAddModule", <<>>), Keep("globals", "moduleGetDict", <<"main">>),
              Keep("locals", "dictNew", <<>>)>>
TwoStrings == <<Keep("a", "unicodeFromString", <<>>), Put("strleft", "a"),
                Keep("b", "unicodeFromString", <<>>), Put("strright", "b")>>
ThreeLongs == <<Keep("a", "longFromLong", <<>>), Keep("b", "longFromLong", <<>>),
                Keep("c", "longFromLong", <<>>), Elements(<<"a", "b", "c">>)>>
ResultAsString == <<Run("resultString"), Take("result"), Value("unicodeAsASCIIString", <<"result">>)>>

integratePython ==
  Prologue \o <<Keep("pobj", "memoryViewFromMemoryChunk", <<"closures">>),
                Put("closures", "pobj"), Run("loadClosures")>>
callAggregator ==
  <<Keep("avalues", "memoryViewFromMemoryChunk", <<"values">>), Put("avalues", "avalues"),
    Run("aggregate"), Take("retval"), Value("bufferAsMemoryChunk", <<"retval">>)>>
callTerminator ==
  <<Value("make", <<>>), Keep("pObjAggVal", "memoryViewFromMemoryChunk", <<"mca">>),
    Keep("pObjSS", "longFromLong", <<>>), Put("tmpAggVal", "pObjAggVal"), Put("ss", "pObjSS"),
    Run("terminate"), Take("retval"), Value("longAsLong", <<"retval">>), Call("no", "", "del", <<>>)>>

Script ==
  [integratePython |-> integratePython,
   callAggregator  |-> callAggregator,
   callTerminator  |-> callTerminator,
   test_importFile |-> <<Keep("po", "importImport", <<>>), Value("calltest", <<"po">>)>>,
   test_dictLong   |-> Prologue \o <<Keep("a", "longFromLong", <<>>), Put("multiplicand", "a"),
                         Run("resultNumber"), Take("result"), Value("longAsLong", <<"result">>)>>,
   test_dictString |-> Prologue \o TwoStrings \o ResultAsString,
   test_listNew    |-> Prologue \o <<Keep("testlist", "listNew", <<>>), Put("testlist", "testlist")>>
                         \o ResultAsString,
   test_listFromRail |-> Prologue \o ThreeLongs
                         \o <<Keep("testlist", "listFromRail", <<>>), Put("testlist", "testlist")>>
                         \o ResultAsString,
   test_tupleNew   |-> Prologue \o <<Keep("testtuple", "tupleNew", <<>>), Put("testtuple", "testtuple")>>
                         \o ResultAsString,
   test_tupleFromRail |-> Prologue \o ThreeLongs
                         \o <<Keep("testtuple", "tupleFromRail", <<>>), Put("testtuple", "testtuple")>>
                         \o ResultAsString,
   test_listAsRail  |-> Prologue \o <<Run("resultList"), Take("result"), Rail("listAsRail", <<"result">>)>>,
   test_tupleAsRail |-> Prologue \o <<Run("resultTuple"), Take("result"), Rail("tupleAsRail", <<"result">>)>>,
   test_objectCallObjectFunc |->
     Prologue \o TwoStrings
       \o <<Run("defTestfunc"), Take("strleft"), Take("strright"),
            Elements(<<"strleft", "strright">>), Take("testfunc"),
            Keep("called", "objectCallObject", <<"testfunc">>), Value("objectStr", <<"called">>)>>,
   test_bytesAsMemoryChunk |->
     Prologue \o <<Run("resultBytes"), Take("result"), Value("bytesAsMemoryChunk", <<"result">>)>>,
   test_memoryViewFromMemoryChunkLong |->
     Prologue \o <<Value("make", <<>>), Keep("pobj", "memoryViewFromMemoryChunk", <<"mca">>),
                   Put("mview", "pobj"), Run("printView")>>]

\* The names of the objects, and of the memory chunks, the scripts use.
ObjectNames == {"main", "globals", "locals", "pobj", "avalues", "retval", "pObjAggVal", "pObjSS",
                "po", "a", "b", "c", "testlist", "testtuple", "result", "strleft", "strright", "testfunc", "called"}
NoChunks == [closures |-> 0, values |-> 0, onThread |-> 0, onPlace |-> 0, mca |-> 0]
Kept == {"main", "globals", "locals"}

Do(i) ==
  LET R(n) == regs[i.args[n]] IN
  CASE i.do = "importImport"    -> importImport(py)
    [] i.do = "calltest"        -> calltest(py, R(1))
    [] i.do = "importAddModule" -> importAddModule(py)
    [] i.do = "moduleGetDict"   -> moduleGetDict(py, R(1))
    [] i.do = "dictNew"         -> dictNew(py)
    [] i.do = "dictSetItemString" -> dictSetItemString(py, R(1), i.args[2], R(3))
    [] i.do = "dictGetItemString" -> dictGetItemString(py, R(1), i.args[2])
    [] i.do = "listNew"         -> listNew(py)
    [] i.do = "tupleNew"        -> tupleNew(py)
    [] i.do = "rail"            -> Ok(py, [n \in DOMAIN i.args |-> R(n)])
    [] i.do = "listFromRail"    -> listFromRail(py, frame.rail)
    [] i.do = "tupleFromRail"   -> tupleFromRail(py, frame.rail)
    [] i.do = "listAsRail"      -> listAsRail(py, R(1))
    [] i.do = "tupleAsRail"     -> tupleAsRail(py, R(1))
    [] i.do = "unicodeFromString"    -> unicodeFromString(py)
    [] i.do = "unicodeAsASCIIString" -> unicodeAsASCIIString(py, R(1))
    [] i.do = "longFromLong"    -> longFromLong(py)
    [] i.do = "longAsLong"      -> longAsLong(py, R(1))
    [] i.do = "runString"       -> runString(py, i.args[1], R(2), R(3))
    [] i.do = "objectCallObject" -> objectCallObject(py, R(1), frame.rail)
    [] i.do = "objectStr"       -> objectStr(py, R(1))
    [] i.do = "bytesAsMemoryChunk"  -> bytesAsMemoryChunk(py, R(1))
    [] i.do = "bufferAsMemoryChunk" -> bufferAsMemoryChunk(py, R(1))
    [] i.do = "memoryViewFromMemoryChunk" -> memoryViewFromMemoryChunk(py, frame.chunk[i.args[1]])
    [] i.do = "make" -> Ok([py EXCEPT !.mem = Append(@, [live |-> TRUE, from |-> frame.call])], Null)
    [] i.do = "del"  -> Ok([py EXCEPT !.mem[frame.chunk.mca].live = FALSE], Null)

-----------------------------------------------------------------------------
Statements == Script[frame.script]
Running == frame.pc \in DOMAIN Statements /\ frame.exc = NoException
Ended == frame.pc = Len(Statements) + 1

\* The closures are not there if nobody has set them.
PythonInit ==
  /\ \E closures \in {0, 1}, script \in {s \in DOMAIN Script : s \notin {"callAggregator", "callTerminator"}} :
       frame = [script |-> script, pc |-> 1, exc |-> NoException, handled |-> FALSE,
                rail |-> <<>>, value |-> NoData, run |-> 1, call |-> 0, state |-> "running",
                chunk |-> [NoChunks EXCEPT !.closures = closures, !.onThread = 2, !.onPlace = 3]]
  /\ py = [Initialized EXCEPT !.mem = [c \in 1 .. 3 |-> [live |-> TRUE, from |-> 0]]]
  /\ regs = [r \in ObjectNames |-> Null]

\* One call, kept or thrown.
Statement ==
  /\ frame.state = "running" /\ Running
  /\ LET i == Statements[frame.pc] IN
     \E o \in Do(i) :
       /\ py' = o.py
       /\ IF o.exc # NoException
            THEN frame' = [frame EXCEPT !.exc = o.exc] /\ UNCHANGED regs
            ELSE /\ regs' = IF i.keep = "object" THEN [regs EXCEPT ![i.to] = o.ret] ELSE regs
                 /\ frame' = [frame EXCEPT !.pc = @ + 1,
                                !.rail = IF i.keep = "rail" THEN o.ret ELSE @,
                                !.value = IF i.keep = "value" /\ i.do \in {"bufferAsMemoryChunk", "longAsLong"}
                                            THEN o.ret ELSE @,
                                !.chunk.mca = IF i.do = "make" THEN Len(o.py.mem) ELSE @]

\* catch (exception :NativePyException), the same everywhere.
Handle ==
  /\ frame.state = "running" /\ frame.exc # NoException
  /\ \E e \in extractExcInfo(py, frame.exc) :
       LET d == IF e.crash THEN e ELSE DECREF(e.py, frame.exc) IN
       /\ py' = d.py
       /\ frame' = IF d.crash THEN [frame EXCEPT !.state = "crashed", !.exc = NoException]
                   ELSE [frame EXCEPT !.pc = Len(Statements) + 1, !.exc = NoException, !.handled = TRUE]
  /\ regs' = IF frame'.state = "crashed" THEN [r \in ObjectNames |-> Null] ELSE regs

\* The next call of the run reads the values that were just collected.
Begin(script, values) ==
  /\ frame' = [frame EXCEPT !.script = script, !.pc = 1, !.handled = FALSE, !.call = @ + 1,
                            !.value = NoData, !.chunk.values = values]
  /\ py' = [py EXCEPT !.mem[values].from = frame.call + 1]

\* run deletes the two arrays when it terminates; the next one makes its own.
EndPythonRun ==
  IF frame.run = MaxRuns \/ frame.call >= MaxCalls
    THEN frame' = [frame EXCEPT !.state = "done"] /\ UNCHANGED py
    ELSE LET n == Len(py.mem) IN
         /\ frame' = [frame EXCEPT !.script = "callAggregator", !.pc = 1, !.handled = FALSE,
                        !.run = @ + 1, !.call = @ + 1, !.value = NoData,
                        !.chunk.onThread = n + 1, !.chunk.onPlace = n + 2, !.chunk.values = n + 1]
         /\ py' = [py EXCEPT !.mem = [c \in DOMAIN @ |->
                                        IF c \in {frame.chunk.onThread, frame.chunk.onPlace}
                                          THEN [@[c] EXCEPT !.live = FALSE] ELSE @[c]]
                                     \o <<[live |-> TRUE, from |-> frame.call + 1], [live |-> TRUE, from |-> 0]>>]

\* The call returns.  A superstep aggregates the values of the threads, then those of the
\* places, and asks the terminator, whose exceptions mean yes.
Return ==
  /\ frame.state = "running" /\ Ended
  /\ regs' = [r \in ObjectNames |-> IF r \in Kept THEN regs[r] ELSE Null]
  /\ LET terminate == frame.handled \/ frame.value.n = 1 IN
     CASE frame.script = "integratePython" -> Begin("callAggregator", frame.chunk.onThread)
       [] frame.script = "callAggregator" ->
            IF frame.chunk.values = frame.chunk.onThread
              THEN Begin("callAggregator", frame.chunk.onPlace)
              ELSE Begin("callTerminator", frame.chunk.onPlace)
       [] frame.script = "callTerminator" ->
            IF terminate \/ frame.call >= MaxCalls THEN EndPythonRun
                                                   ELSE Begin("callAggregator", frame.chunk.onThread)
       [] OTHER -> frame' = [frame EXCEPT !.state = "done"] /\ UNCHANGED py

PythonStopped == frame.state # "running" /\ UNCHANGED pythonVars

PythonNext == Statement \/ Handle \/ Return \/ PythonStopped
PythonSpec == PythonInit /\ [][PythonNext]_pythonVars

-----------------------------------------------------------------------------
Alive(a) == a = Null \/ py.heap[a].refs > 0
Living(heap) == {c \in DOMAIN heap : heap[c].refs > 0}
Holders(a) == HoldersIn(py.heap, Living(py.heap), a)

(* No object goes while it is held: not by a container, which would count fewer references
   than there are holders, not by the error indicator or an exception on its way, and not
   by the code that is about to use it, though the references of dictGetItemString and
   listAsRail are borrowed and those given to a list, a tuple or a call are stolen.       *)
HandlesAlive ==
  /\ \A a \in DOMAIN py.heap : py.heap[a].refs >= Cardinality(Holders(a))
  /\ \A a \in {py.err.value, py.err.traceback, frame.exc.value, frame.exc.traceback} : Alive(a)
  /\ Running /\ frame.state = "running" =>
       /\ \A n \in DOMAIN Statements[frame.pc].args :
            LET r == Statements[frame.pc].args[n] IN r \in ObjectNames => Alive(regs[r])
       /\ Statements[frame.pc].do \in {"listFromRail", "tupleFromRail", "objectCallObject"} =>
            \A n \in DOMAIN frame.rail : Alive(frame.rail[n])

(* What callAggregator and callTerminator return, unless a handler answers, was computed in
   this call from the memory of this call: not left in the dictionary, whose key retval both
   use, by a call before, and not read through a view of memory that is deleted.          *)
ResultsAreFresh ==
  frame.script \in {"callAggregator", "callTerminator"} /\ Ended /\ ~frame.handled
    /\ frame.state = "running"
    => frame.value.from = frame.call
=============================================================================
