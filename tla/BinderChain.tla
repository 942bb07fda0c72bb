------------------------------ MODULE BinderChain ------------------------------
(***************************************************************************)
(* Who waits for whom in a freeze (faultlog/binder.ts): from the binder    *)
(* calls the device caught, the chain that the frozen process is part of   *)
(* and the deadlocks in it.                                                *)
(***************************************************************************)
EXTENDS Naturals, FiniteSets, SequencesExt

CONSTANTS Threads,    \* <<pid, tid>>; tid 0 stands for a process all of whose binder threads are busy
          FaultPid, FaultTid,
          MaxCalls    \* bound: calls caught

ASSUME ThreadsAssumption ==
    Threads \subseteq Nat \X Nat /\ IsFiniteSet(Threads) /\ FaultPid \in Nat /\ FaultTid \in Nat

VARIABLE caught  \* the calls of the log, the longest wait first: [src, dst: threads, async]

\* A thread is put on a worklist once, so that its loop ends within as many turns as there are threads, the
\* faulting one among them; a turn after the end changes nothing.
Nodes == Threads \cup {<<FaultPid, FaultTid>>}
Turns == Cardinality(Threads) + 1
Repeat(Turn(_), x, n) == LET after[k \in 0..n] == IF k = 0 THEN x ELSE Turn(after[k - 1]) IN after[n]

\* The calls that are in S, in their order.
CallsIn(calls, S) ==
    LET kept[k \in 0..Len(calls)] ==
            IF k = 0 THEN <<>> ELSE IF calls[k] \in S THEN Append(kept[k - 1], calls[k]) ELSE kept[k - 1]
    IN  kept[Len(calls)]
Sync(calls) == CallsIn(calls, {c \in ToSet(calls) : ~c.async})

\* next: one step along the wait, or <<>>.  From a full process any thread of it goes on; what waits for a
\* full process waits for each thread of it.
downstream(c, node) == IF c.src[1] = node[1] /\ (c.src[2] = node[2] \/ node[2] = 0) THEN <<c.dst>> ELSE <<>>
upstream_Exact(c, node) == IF c.dst = node THEN <<c.src>> ELSE <<>>
upstream(c, node) == IF c.dst[1] = node[1] /\ (c.dst[2] = node[2] \/ c.dst[2] = 0) THEN <<c.src>> ELSE <<>>
next(c, node, forward) == IF forward THEN downstream(c, node) ELSE upstream(c, node)

\* walk: a worklist of threads; what it returns is the calls it went along.  In a turn of its loop a thread
\* leaves the list, and each call is tried from it.
Visit(w, c, steps) ==
    IF steps = <<>> THEN w
    ELSE [edges |-> w.edges \cup {c}, visited |-> w.visited \cup {steps[1]},
          stack |-> IF steps[1] \in w.visited THEN w.stack ELSE Append(w.stack, steps[1])]
turn(calls, forward, u) ==
    LET v[k \in 0..Len(calls)] ==
            IF k = 0 THEN [u EXCEPT !.stack = Front(@)] ELSE Visit(v[k - 1], calls[k], next(calls[k], Last(u.stack), forward))
    IN  IF u.stack = <<>> THEN u ELSE v[Len(calls)]
walk(calls, forward, w) ==
    LET u[k \in 0..Turns] == IF k = 0 THEN w ELSE turn(calls, forward, u[k - 1]) IN u[Turns].edges

\* buildPropagation starts at every thread of the faulting process that is in a call.
anchors(calls) == {<<FaultPid, FaultTid>>} \cup {n \in UNION {{c.src, c.dst} : c \in ToSet(calls)} : n[1] = FaultPid}
walkFrom(calls, forward) == walk(calls, forward, [edges |-> {}, visited |-> anchors(calls), stack |-> SetToSeq(anchors(calls))])
propagation(calls) == CallsIn(calls, walkFrom(calls, TRUE) \cup walkFrom(calls, FALSE))

\* buildGraph.  `out` is defined on the sources, in the order in which they are met.
Outs(edges) == FoldLeft(LAMBDA seen, c : IF Contains(seen, c.src) THEN seen ELSE Append(seen, c.src), <<>>, edges)
out(edges, n) == FoldLeft(LAMBDA ns, c : IF c.src = n THEN Append(ns, c.dst) ELSE ns, <<>>, edges)
in(edges, n) == FoldLeft(LAMBDA ns, c : IF c.dst = n THEN Append(ns, c.src) ELSE ns, <<>>, edges)
Inner(edges, n) == Contains(Outs(edges), n)

\* Kosaraju, first pass: the order in which a depth-first search leaves the threads.
leave(edges, d) ==
    Repeat(LAMBDA u : IF u.stack = <<>> THEN u
                      ELSE LET rest == SelectSeq(out(edges, Last(u.stack)), LAMBDA n : n \notin u.visited /\ Inner(edges, n))
                           IN  IF rest = <<>> THEN [u EXCEPT !.stack = Front(@), !.order = Append(@, Last(u.stack))]
                               ELSE [u EXCEPT !.stack = Append(@, rest[1]), !.visited = @ \cup {rest[1]}],
           d, 2 * Turns)
finishOrder(edges) ==
    FoldLeft(LAMBDA d, n : IF n \in d.visited THEN d ELSE leave(edges, [d EXCEPT !.stack = <<n>>, !.visited = @ \cup {n}]),
             [stack |-> <<>>, visited |-> {}, order |-> <<>>], Outs(edges)).order

\* Second pass, against the edges, from the last left: the roots of the strongly connected groups.
gather(edges, assigned, root) ==
    Repeat(LAMBDA g : LET prev == {p \in UNION {ToSet(in(edges, n)) : n \in g.frontier} : p \notin g.all /\ Inner(edges, p)}
                      IN  [all |-> g.all \cup prev, frontier |-> prev],
           [all |-> assigned \cup {root}, frontier |-> {root}], Turns).all
groups_Unreversed(edges) ==
    FoldLeft(LAMBDA g, root : IF root \in g.assigned THEN g
                              ELSE [roots |-> Append(g.roots, root), assigned |-> gather(edges, g.assigned, root)],
             [roots |-> <<>>, assigned |-> {}], finishOrder(edges)).roots
groups(edges) ==
    FoldLeft(LAMBDA g, root : IF root \in g.assigned THEN g
                              ELSE [roots |-> Append(g.roots, root), assigned |-> gather(edges, g.assigned, root)],
             [roots |-> <<>>, assigned |-> {}], Reverse(finishOrder(edges))).roots

\* cycleFrom: breadth first over the paths from `start`, back to it; <<>> without one.
cycleFrom(edges, start) ==
    Repeat(LAMBDA b : IF b.queue = <<>> \/ b.found # <<>> THEN b
                      ELSE LET path == Head(b.queue)
                               outs == out(edges, Last(path))
                               fresh == SelectSeq(outs, LAMBDA n : n \notin b.seen /\ Inner(edges, n))
                           IN  IF Contains(outs, start) THEN [b EXCEPT !.found = path]
                               ELSE [b EXCEPT !.queue = Tail(@) \o [k \in DOMAIN fresh |-> Append(path, fresh[k])],
                                              !.seen = @ \cup ToSet(fresh)],
           [queue |-> <<<<start>>>>, seen |-> {start}, found |-> <<>>], Turns).found
findCycles(edges) ==
    SelectSeq([k \in DOMAIN groups(edges) |-> cycleFrom(edges, groups(edges)[k])],
              LAMBDA cycle : cycle # <<>>)

------------------------------------------------------------------------------
BinderInit == caught = <<>>
\* The catcher lists one more call; a thread of a process has a tid of its own, its peer may be full.
Catch ==
    /\ Len(caught) < MaxCalls
    /\ \E src, dst \in Threads, async \in BOOLEAN :
         /\ src[2] # 0 /\ [src |-> src, dst |-> dst, async |-> async] \notin ToSet(caught)
         /\ async => src = <<FaultPid, FaultTid>> /\ dst = src  \* one asynchronous call is enough: they are left out
         /\ caught' = Append(caught, [src |-> src, dst |-> dst, async |-> async])
BinderSpec == BinderInit /\ [][Catch]_caught

------------------------------------------------------------------------------
\* The reference.  A call goes on from a thread, or from any thread of a full process; a call waits for a
\* thread, or for each thread of a full process.
GoesOn(c, n) == c.src = n \/ (n[2] = 0 /\ c.src[1] = n[1])
IsFor(c, n) == c.dst = n \/ (c.dst[2] = 0 /\ c.dst[1] = n[1])
Grown(steps, T) == T \cup UNION {steps[n] : n \in T}
Within(steps, S) == LET T[k \in 0..Turns] == IF k = 0 THEN S ELSE Grown(steps, T[k - 1]) IN T[Turns]
Below(calls, S) == Within([n \in Nodes |-> {c.dst : c \in {x \in calls : GoesOn(x, n)}}], S)
Above(calls, S) == Within([n \in Nodes |-> {c.src : c \in {x \in calls : IsFor(x, n)}}], S)
\* The search for deadlocks does not go on from a full process.
After(calls, a) == Within([n \in Nodes |-> {c.dst : c \in {x \in calls : x.src = n}}], {c.dst : c \in {x \in calls : x.src = a}})

\* The chain of a freeze holds every call on which a thread of the frozen process waits, however far down, and
\* every call that waits for one of its threads or, when it is full, for the process; it holds no other.
ChainIsWhole ==
    \E calls \in {ToSet(Sync(caught))} : \E below \in {Below(calls, anchors(Sync(caught)))} : \E above \in {Above(calls, anchors(Sync(caught)))} :
      ToSet(propagation(Sync(caught))) = {c \in calls : (\E n \in below : GoesOn(c, n)) \/ (\E n \in above : IsFor(c, n))}

\* A deadlock of the chain is told once, as a cycle of calls that are in it; nothing else is told.
DeadlocksAreTold ==
    \E edges \in {propagation(Sync(caught))} : \E cycles \in {findCycles(edges)} :
      \E after \in {[n \in Threads |-> After(ToSet(edges), n)]} :
        /\ \A k \in DOMAIN cycles : \A j \in DOMAIN cycles[k] :
             \E c \in ToSet(edges) : c.src = cycles[k][j] /\ c.dst = cycles[k][(j % Len(cycles[k])) + 1]
        /\ \A k \in DOMAIN cycles : IsInjective(cycles[k])
        /\ \A n \in Threads : n \in after[n] =>
             Cardinality({k \in DOMAIN cycles : \E m \in ToSet(cycles[k]) : m \in after[n] /\ n \in after[m]}) = 1
==============================================================================
