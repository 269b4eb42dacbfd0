---------------------------- MODULE EdgeRequests -----------------------------
(***************************************************************************)
(* Changing out edges from compute: EdgeProvider, one per thread of a      *)
(* place, and WorkerPlaceGraph.updateFewInEdge.                            *)
(*                                                                         *)
(* A call that changes edges only appends a request to the log of the      *)
(* thread.  mEdgeModifyReqOffset says where the requests of a vertex end;  *)
(* it is written after compute, for a vertex that changed edges, and reset *)
(* to zero at the end of the superstep.  At the end of the superstep the   *)
(* requests of each vertex are sorted and reduced (optimizeReqEdge) and    *)
(* merged into its out edges (updateOutEdge), and what is left of them is  *)
(* merged into the in edges of the destinations (updateFewInEdge).         *)
(*                                                                         *)
(* Threads share nothing while they compute, so their vertices are visited *)
(* here one after the other.  An edge list is a sequence of [id, val].     *)
(***************************************************************************)
EXTENDS Integers, Sequences, FiniteSets, SequencesExt

CONSTANTS
  Vertex,       \* 0 .. n - 1, also their dst ids
  FirstOf,      \* FirstOf[v]: the first vertex of the range of v's thread
  Val,          \* edge values
  InitOut,      \* the out edges a graph may start with
  NewEdges,     \* the edge lists setOutEdges may be called with
  Unwritten,    \* what newly allocated memory may hold in place of an id
  Plans         \* bounds: the vertices that may change edges, the calls they may make,
                \* how many of them in one compute, and the number of supersteps

CallName == {"add", "clear", "set", "remove", "modify"}

Edge == [id : Vertex \cup Unwritten, val : Val]
Request == [id : Vertex \cup Unwritten, op : {"rmv", "add", "mod"}, val : Val]

ASSUME EdgeAssumption ==
  /\ IsFiniteSet(Vertex) /\ Vertex = 0 .. Cardinality(Vertex) - 1
  /\ FirstOf \in [Vertex -> Vertex]
  /\ \A v \in Vertex : FirstOf[v] <= v /\ \A u \in FirstOf[v] .. v : FirstOf[u] = FirstOf[v]
  /\ InitOut \subseteq [Vertex -> Seq([id : Vertex, val : Val])]
  /\ NewEdges \subseteq Seq([id : Vertex, val : Val])
  /\ Unwritten \subseteq Int /\ Unwritten # {} /\ Val # {}
  /\ Plans \subseteq [who : SUBSET Vertex, calls : SUBSET CallName, inCompute : Nat,
                      supersteps : Nat]

VARIABLES
  outEdge, inEdge,   \* the edge lists of the vertices
  log,               \* log[f]: mEdgeModifyReqWithAR of the thread that starts at f
  ends,              \* ends[v]: mEdgeModifyReqOffset(localsrcid + 1)
  cur,               \* the vertex that computes; # Vertex when all have
  calls,             \* number of calls it has made
  changed,           \* mEdgeChanged
  changedUntilNow,   \* mEdgeChangedUntilNow, of each thread
  ss,
  plan,              \* the plan of this execution
  failed,            \* an assertion or a bounds check stopped the program
  want               \* history: the edges v asked for, by the API's comments; of single
                     \* edges those it asked for in this superstep

vars == <<outEdge, inEdge, log, ends, cur, calls, changed, changedUntilNow, ss,
          plan, failed, want>>

Thread == {FirstOf[v] : v \in Vertex}
None == CHOOSE x \in Val : TRUE          \* Utils.getDummyZeroValue
Replacing == plan.calls \subseteq {"set", "clear"}

\* mEdgeModifyReqOffset(localsrcid)
start(v) == IF FirstOf[v] = v THEN 0 ELSE ends[v - 1]

\* The requests of v in its thread's log.
ReqsOf(v) == SubSeq(log[FirstOf[v]], start(v) + 1, ends[v])

Count(reqs, op) == Cardinality({k \in DOMAIN reqs : reqs[k].op = op})

(***************************************************************************)
(* updateOutEdge_temp: one pass over the old list and the requests, which  *)
(* takes both to be sorted by id.  A modified edge gets its value, but not *)
(* its id (the assignment is commented out).                               *)
(***************************************************************************)
\* Mutant: the edge with the id of the request is copied too.
BeforeOrAt(old, i, id, room) ==
  CHOOSE n \in 0 .. room :
    /\ \A k \in i .. i + n - 1 : k <= Len(old) /\ old[k].id <= id
    /\ n = room \/ i + n > Len(old) \/ old[i + n].id > id

\* How many of the edges old[i], old[i + 1], ... come before id, at most room.
Before(old, i, id, room) ==
  CHOOSE n \in 0 .. room :
    /\ \A k \in i .. i + n - 1 : k <= Len(old) /\ old[k].id < id
    /\ n = room \/ i + n > Len(old) \/ old[i + n].id >= id

MergeTurn(s, r, old, newLen, unwritten) ==
  LET n == Before(old, s.i, r.id, newLen - Len(s.new))
      new == s.new \o SubSeq(old, s.i, s.i + n - 1)
      i == s.i + n
  IN CASE ~s.ok -> s
       [] s.ok /\ r.op = "rmv" -> [new |-> new, i |-> i + 1, ok |-> TRUE]
       [] s.ok /\ r.op = "add" -> [new |-> Append(new, [id |-> r.id, val |-> r.val]),
                                  i |-> i, ok |-> Len(new) < newLen]
       [] s.ok /\ r.op = "mod" -> [new |-> Append(new, [id |-> unwritten, val |-> r.val]),
                                  i |-> i + 1,
                                  ok |-> /\ i <= Len(old) /\ old[i].id = r.id
                                         /\ Len(new) < newLen]

Merge(old, reqs, unwritten) ==
  LET newLen == Len(old) + Count(reqs, "add") - Count(reqs, "rmv")
      after[k \in 0 .. Len(reqs)] ==
        IF k = 0 THEN [new |-> <<>>, i |-> 1, ok |-> newLen >= 0]
        ELSE MergeTurn(after[k - 1], reqs[k], old, newLen, unwritten)
      end == after[Len(reqs)]
  IN  [edges |-> end.new \o SubSeq(old, end.i, Len(old)),
       ok |-> end.ok /\ newLen - Len(end.new) = Len(old) - end.i + 1]

(***************************************************************************)
(* optimizeReqEdge.  maskedStableSort keeps the bits of the operation and  *)
(* not those of the id, so it sorts removals before additions before       *)
(* modifications.  Of adjacent requests for one id the last is kept; an    *)
(* addition of an edge that is found becomes a modification, a removal of  *)
(* one that is not found is dropped.  An edge is searched for after the    *)
(* last one found.                                                         *)
(***************************************************************************)
Chosen(list, K) ==
  FlattenSeq([k \in 1 .. Len(list) |-> IF k \in K THEN <<list[k]>> ELSE <<>>])
\* Mutant: the sort is not stable.
MaskedSort(reqs) ==
  LET of(op) == Chosen(reqs, {k \in DOMAIN reqs : reqs[k].op = op})
  IN  Reverse(of("rmv")) \o of("add") \o of("mod")

MaskedStableSort(reqs) ==
  LET of(op) == Chosen(reqs, {k \in DOMAIN reqs : reqs[k].op = op})
  IN  of("rmv") \o of("add") \o of("mod")

OptimizeTurn(s, k, old, sorted) ==
  LET r == sorted[k]
      found == {i \in s.from .. Len(old) : old[i].id = r.id}
  IN IF k < Len(sorted) /\ sorted[k + 1].id = r.id THEN s
     ELSE IF found = {}
     THEN [s EXCEPT !.reqs = IF r.op = "rmv" THEN @ ELSE Append(@, r)]
     ELSE [from |-> (CHOOSE i \in found : \A j \in found : i <= j) + 1,
           reqs |-> Append(s.reqs, IF r.op = "add" THEN [r EXCEPT !.op = "mod"] ELSE r)]
Optimized(old, reqs) ==
  LET sorted == MaskedStableSort(reqs)
      after[k \in 0 .. Len(sorted)] ==
        IF k = 0 THEN [from |-> 1, reqs |-> <<>>]
        ELSE OptimizeTurn(after[k - 1], k, old, sorted)
  IN  after[Len(sorted)].reqs

-----------------------------------------------------------------------------
AsSet(list) == {list[i] : i \in DOMAIN list}

\* The concatenation of a list for every vertex, in the order of the vertices.
ByVertex(listOf) == FlattenSeq([k \in 1 .. Cardinality(Vertex) |-> listOf[k - 1]])

\* updateInEdge: the sources of the edges to v, sorted, without values.
InEdgesOf(out) ==
  [v \in Vertex |-> ByVertex([u \in Vertex |->
     [i \in 1 .. Cardinality({k \in DOMAIN out[u] : out[u][k].id = v}) |->
        [id |-> u, val |-> None]]])]

Init ==
  /\ plan \in Plans
  /\ outEdge \in InitOut
  /\ inEdge = InEdgesOf(outEdge)
  /\ log = [f \in Thread |-> <<>>]
  /\ ends = [v \in Vertex |-> 0]
  /\ cur = 0 /\ calls = 0 /\ ss = 0
  /\ changed = FALSE
  /\ changedUntilNow = [f \in Thread |-> FALSE]
  /\ failed = FALSE
  /\ want = [v \in Vertex |-> AsSet(outEdge[v])]

(***************************************************************************)
(* The calls of compute.                                                   *)
(***************************************************************************)
\* Mutant: the requests of this compute are not looked at.
ListingStored(v, unwritten) == [edges |-> outEdge[v], ok |-> TRUE]

\* outEdges: with changes, the end of the requests is fixed and the requests,
\* as they are, are merged into a buffer.
Listing(v, unwritten) ==
  IF changed
  THEN LET l == log[FirstOf[v]]
       IN  Merge(outEdge[v], SubSeq(l, start(v) + 1, Len(l)), unwritten)
  ELSE [edges |-> outEdge[v], ok |-> TRUE]

Put(v, reqs) == log' = [log EXCEPT ![FirstOf[v]] = @ \o reqs]

Requests(edges, op) ==
  [i \in 1 .. Len(edges) |-> [id |-> edges[i].id, op |-> op, val |-> edges[i].val]]

MayCall(name) ==
  /\ ~failed /\ cur \in Vertex /\ cur \in plan.who /\ ss < plan.supersteps
  /\ calls < plan.inCompute /\ name \in plan.calls
  /\ calls' = calls + 1
  /\ changed' = TRUE
  /\ UNCHANGED <<outEdge, inEdge, cur, changedUntilNow, ss, plan>>

AddOutEdge(e) ==
  /\ MayCall("add")
  /\ Put(cur, Requests(<<e>>, "add"))
  /\ want' = [want EXCEPT ![cur] = {d \in @ : d.id # e.id} \cup {e}]
  /\ UNCHANGED <<ends, failed>>

Removals(v) ==
  Requests([i \in 1 .. Len(outEdge[v]) |-> [outEdge[v][i] EXCEPT !.val = None]], "rmv")

\* Mutant: the earlier requests of the vertex stay in the log.
ClearedAppending(v) == log[FirstOf[v]] \o Removals(v)

\* clearOutEdges: the requests of the vertex are deleted by setting the size of
\* the log, and every edge listed then is removed.
Cleared(v) == SubSeq(log[FirstOf[v]], 1, start(v)) \o Removals(v)

ClearOutEdges ==
  /\ MayCall("clear")
  /\ log' = [log EXCEPT ![FirstOf[cur]] = Cleared(cur)]
  /\ ends' = [ends EXCEPT ![cur] = IF changed THEN start(cur) ELSE @]
  /\ want' = [want EXCEPT ![cur] = {}]
  /\ UNCHANGED failed

SetOutEdges(list) ==
  /\ MayCall("set")
  /\ log' = [log EXCEPT ![FirstOf[cur]] = Cleared(cur) \o Requests(list, "add")]
  /\ ends' = [ends EXCEPT ![cur] = IF changed THEN start(cur) ELSE @]
  /\ want' = [want EXCEPT ![cur] = AsSet(list)]
  /\ UNCHANGED failed

\* An iterator over the listing, and remove or modifyValue at its k-th element.
Iterate(name, op, val) ==
  /\ MayCall(name)
  /\ \E u \in Unwritten :
       LET l == Listing(cur, u) IN
       IF l.ok
       THEN \E k \in DOMAIN l.edges :
              LET id == l.edges[k].id
                  rest == {d \in want[cur] : d.id # id}
              IN /\ log' = [log EXCEPT ![FirstOf[cur]] =
                              Append(@, [id |-> id, op |-> op, val |-> val])]
                 /\ want' = [want EXCEPT ![cur] =
                               IF op = "rmv" THEN rest ELSE rest \cup {[id |-> id, val |-> val]}]
                 /\ UNCHANGED failed
       ELSE failed' = TRUE /\ UNCHANGED <<log, want>>
  /\ ends' = [ends EXCEPT ![cur] = IF changed THEN Len(log[FirstOf[cur]]) ELSE @]

RemoveEdge == Iterate("remove", "rmv", None)
ModifyValue(val) == Iterate("modify", "mod", val)

\* compute is over, or was not called: fixModifiedEdges if edges were changed.
EndVertex ==
  /\ ~failed /\ cur \in Vertex /\ ss < plan.supersteps
  /\ ends' = [ends EXCEPT ![cur] = IF changed THEN Len(log[FirstOf[cur]]) ELSE @]
  /\ changedUntilNow' = [changedUntilNow EXCEPT ![FirstOf[cur]] = @ \/ changed]
  /\ cur' = cur + 1
  /\ calls' = 0
  /\ changed' = FALSE
  /\ UNCHANGED <<outEdge, inEdge, log, ss, plan, failed, want>>

(***************************************************************************)
(* The end of the superstep.                                               *)
(***************************************************************************)
\* assert(reqEndIdx-reqStartIdx+1 >= 0)
OffsetsOrdered == \A v \in Vertex : start(v) <= ends[v]

\* Mutant: they are not sorted by source.
ArrivedUnsorted(v, op, reqsOf) ==
  ByVertex([u \in Vertex |->
    LET w == Cardinality(Vertex) - 1 - u
        to == Chosen(reqsOf[w], {k \in DOMAIN reqsOf[w] :
                                   reqsOf[w][k].id = v /\ reqsOf[w][k].op = op})
    IN  [i \in 1 .. Len(to) |-> [to[i] EXCEPT !.id = w]]])

\* The requests of the vertices for their edges to v, with an operation.
Arrived(v, op, reqsOf) ==
  ByVertex([u \in Vertex |->
    LET reqs == reqsOf[u]
        to == Chosen(reqs, {k \in DOMAIN reqs : reqs[k].id = v /\ reqs[k].op = op})
    IN  [i \in 1 .. Len(to) |-> [to[i] EXCEPT !.id = u]]])

\* Mutant: removals are not sent.
InAdditions(v, reqsOf) == Arrived(v, "add", reqsOf) \o Arrived(v, "mod", reqsOf)

\* The requests updateFewInEdge sends to v, as they arrive and are sorted: by
\* operation, and by source within an operation.
InRequests(v, reqsOf) ==
  Arrived(v, "rmv", reqsOf) \o Arrived(v, "add", reqsOf) \o Arrived(v, "mod", reqsOf)

\* reInitializeEdgeProvider
ResetEnds == [v \in Vertex |-> 0]

\* updateOutEdge and updateInEdge of EdgeProvider: the new lists of every vertex.
UpdatedOut(reqsOf, unwritten) ==
  [v \in Vertex |-> Merge(outEdge[v], reqsOf[v], unwritten)]
UpdatedIn(reqsOf, unwritten) ==
  [v \in Vertex |-> Merge(inEdge[v], InRequests(v, reqsOf), unwritten)]

\* updateOutEdge, updateFewInEdge and reInitializeEdgeProvider.
EndSuperstep ==
  /\ ~failed /\ cur \notin Vertex /\ ss < plan.supersteps
  /\ \E unwritten \in Unwritten :
     LET some == \E f \in Thread : changedUntilNow[f]
         reqsOf == [v \in Vertex |-> Optimized(outEdge[v], ReqsOf(v))]
         out == UpdatedOut(reqsOf, unwritten)
         in == UpdatedIn(reqsOf, unwritten)
     IN IF some /\ (~OffsetsOrdered \/ \E v \in Vertex : ~out[v].ok \/ ~in[v].ok)
        THEN failed' = TRUE /\ UNCHANGED <<outEdge, inEdge>>
        ELSE /\ outEdge' = IF some THEN [v \in Vertex |-> out[v].edges] ELSE outEdge
             /\ inEdge' = IF some THEN [v \in Vertex |-> in[v].edges] ELSE inEdge
             /\ UNCHANGED failed
  /\ log' = [f \in Thread |-> <<>>]
  /\ ends' = ResetEnds
  /\ changedUntilNow' = [f \in Thread |-> FALSE]
  /\ cur' = 0
  /\ ss' = ss + 1
  /\ want' = IF Replacing THEN want ELSE [v \in Vertex |-> AsSet(outEdge'[v])]
  /\ UNCHANGED <<calls, changed, plan>>

Next ==
  \/ \E id \in Vertex, val \in Val : AddOutEdge([id |-> id, val |-> val])
  \/ ClearOutEdges
  \/ \E list \in NewEdges : SetOutEdges(list)
  \/ RemoveEdge
  \/ \E val \in Val : ModifyValue(val)
  \/ EndVertex
  \/ EndSuperstep

Spec == Init /\ [][Next]_vars
-----------------------------------------------------------------------------
Same(list, set) == AsSet(list) = set /\ Len(list) = Cardinality(set)
Ascending(list) == \A i, j \in DOMAIN list : i < j => list[i].id < list[j].id
Between == cur = 0 /\ calls = 0 /\ ~failed     \* between two supersteps

\* Between supersteps every vertex whose edges were only replaced has exactly the
\* edges it asked for, whatever the threads, the vertices that change nothing, the
\* order of the calls, the reduction of requests and the merge.
OutEdgesAsRequested ==
  Between /\ Replacing => \A v \in Vertex : Same(outEdge[v], want[v])

\* Inside compute a vertex that replaces its edges reads those it has asked for.
ReadYourWrites ==
  cur \in Vertex /\ Replacing /\ ~failed =>
    \A u \in Unwritten : LET l == Listing(cur, u)
                         IN  l.ok /\ Same(l.edges, want[cur])

\* Of single edges: all additions are of new edges, each once, and no removal is of
\* an edge added before it.
With(v, op) == Chosen(ReqsOf(v), {k \in DOMAIN ReqsOf(v) : ReqsOf(v)[k].op = op})
Fresh(v) ==
  /\ With(v, "mod") = <<>>
  /\ \A i, j \in DOMAIN With(v, "add") : With(v, "add")[i].id = With(v, "add")[j].id => i = j
  /\ \A e \in AsSet(With(v, "add")) :
       e.id \notin {d.id : d \in AsSet(outEdge[v]) \cup AsSet(With(v, "rmv"))}

\* A vertex that adds new edges and removes old ones, in any mixture of calls, loses
\* none it did not want to lose and gets none it did not ask for: the sort by
\* operation and the merge put every request at its edge.  A removal may be lost
\* itself, but not if the removals came in the order of the edges.
SingleEdgesAsRequested ==
  [][ss' # ss /\ ~failed' =>
       \A v \in Vertex : Ascending(outEdge[v]) /\ Fresh(v) =>
         /\ want[v] \subseteq AsSet(outEdge'[v])
         /\ AsSet(outEdge'[v]) \subseteq want[v] \cup AsSet(outEdge[v])
         /\ Ascending(With(v, "rmv")) => Same(outEdge'[v], want[v])]_vars

\* The vertices with an edge to v, which broadcast to it.
Sources(out, v) == {u \in Vertex : \E e \in AsSet(out[u]) : e.id = v}
InEdgesAscend == \A v \in Vertex : Ascending(inEdge[v])
InEdgesReverse == \A v \in Vertex : {e.id : e \in AsSet(inEdge[v])} = Sources(outEdge, v)

\* Every vertex has between supersteps as many in edges as there are vertices with
\* an edge to it, while edges are only replaced.
InDegreesFollowOut ==
  Between /\ Replacing =>
    \A v \in Vertex : Len(inEdge[v]) = Cardinality(Sources(outEdge, v))

\* A superstep in which edges are replaced, and which starts with ascending in edges
\* that are the reverse of the out edges, ends with the reverse of the new ones:
\* a vertex gets the broadcasts of the vertices that now have an edge to it.
InEdgesFollowOut ==
  [][ss' # ss /\ ~failed' /\ Replacing /\ InEdgesAscend /\ InEdgesReverse
     => InEdgesReverse']_vars

\* v changed nothing, and a vertex before it in its thread did.
IdleBehindChange(v) == start(v) > 0 /\ ends[v] = 0

\* While edges are replaced and the in edges ascend, a superstep fails if and only
\* if a vertex is idle behind one that changed edges: no other order of calls,
\* threads or destinations violates an assertion or leaves the bounds of a list.
OnlyIdleVerticesFail ==
  [][ss' # ss /\ Replacing /\ InEdgesAscend /\ InEdgesReverse
     => (failed' <=> \E v \in Vertex : IdleBehindChange(v))]_vars

\* While edges are only replaced, no assertion and no bounds check fails, in
\* particular assert(reqEndIdx - reqStartIdx + 1 >= 0): the ends of the requests
\* of a thread's vertices ascend.
NoAssertionFails == Replacing => ~failed
=============================================================================
