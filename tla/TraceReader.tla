------------------------------ MODULE TraceReader ------------------------------
(***************************************************************************)
(* hitrace's text and what `perf` reads in it (perf/hitrace.ts, summary.ts).*)
(* Threads write the markers of their scripts in any order that causes     *)
(* allow; the ring buffer has lost the head of them, and the capture stops *)
(* in the middle of the rest.                                              *)
(***************************************************************************)
EXTENDS Integers, SequencesExt, FiniteSetsExt

CONSTANTS Scripts,  \* thread -> its markers: [is: "B" or "E", name, wait: how long after its vsync, after: what it follows]
          App,      \* the app's main thread, and its pid
          Process,  \* thread -> the process it is of
          Launched  \* the capture cold-launched the app

ASSUME ScriptsAssumption ==
    \A t \in DOMAIN Scripts :
        Scripts[t] \in Seq([is : {"B", "E"}, name : STRING, wait : Nat, after : SUBSET ((DOMAIN Scripts) \X Nat)])

VARIABLES trace,    \* the markers written: [tid, is, name, wait]; their timestamps are their places
          dropped,  \* how many of the first ones the buffer has lost
          captured  \* what the parser makes of the rest: [stacks, slices]
traceVars == <<trace, dropped, captured>>

\* A slice has end 0 while it is open.
Slice(tid, open, end, depth) ==
    [tid |-> tid, pid |-> Process[tid], name |-> open.name, ts |-> open.ts, end |-> end, depth |-> depth,
     now |-> open.ts - open.wait]
Opened(e, ts) == [name |-> e.name, ts |-> ts, wait |-> e.wait]
\* Mutant: one stack for the threads of a process.
marker_ByProcess(p, e, ts) ==
    IF e.is = "B" THEN [p EXCEPT !.stacks[Process[e.tid]] = Append(@, Opened(e, ts))]
    ELSE IF p.stacks[Process[e.tid]] = <<>> THEN p
    ELSE [stacks |-> [p.stacks EXCEPT ![Process[e.tid]] = Front(@)],
          slices |-> p.slices \cup {Slice(e.tid, Last(p.stacks[Process[e.tid]]), ts, Len(p.stacks[Process[e.tid]]) - 1)}]
\* An end closes the innermost slice of its thread; one whose slice began before the capture closes none.
marker(p, e, ts) ==
    IF e.is = "B" THEN [p EXCEPT !.stacks[e.tid] = Append(@, Opened(e, ts))]
    ELSE IF p.stacks[e.tid] = <<>> THEN p
    ELSE [stacks |-> [p.stacks EXCEPT ![e.tid] = Front(@)],
          slices |-> p.slices \cup {Slice(e.tid, Last(p.stacks[e.tid]), ts, Len(p.stacks[e.tid]) - 1)}]
\* Slices are sorted by their start, which no two share: a set of them is enough.
finish(p) == p.slices \cup UNION {{Slice(t, p.stacks[t][k], 0, k - 1) : k \in DOMAIN p.stacks[t]} : t \in DOMAIN p.stacks}
\* The parser after each line of what is left when the first d are lost.
parser(d) ==
    LET p[k \in d..Len(trace)] ==
            IF k = d THEN [stacks |-> [t \in DOMAIN Scripts |-> <<>>], slices |-> {}] ELSE marker(p[k - 1], trace[k], k)
    IN  p
parseTrace(d) == finish(parser(d)[Len(trace)])

------------------------------------------------------------------------------
\* summary.ts.  perfSliceFilter keeps the main threads' outermost slices and the named ones.
FrameNames == {"ReceiveVsync", "OnVsyncEvent"}
perfSliceFilter(s) == \/ s.tid = s.pid /\ s.depth = 0
                      \/ s.name \in FrameNames \cup {"StartAbility", "spawn", "firstFrame"}
Earliest(S) == CHOOSE s \in S : \A o \in S : s.ts <= o.ts
Latest(S) == CHOOSE s \in S : \A o \in S : o.ts <= s.ts

\* appFrames: the whole ReceiveVsync slices of the main thread, else the OnVsyncEvent ones; the outermost.
WholeSlices(slices, name) == {s \in slices : s.tid = App /\ s.end # 0 /\ s.name = name}
appFrames(slices) ==
    LET named == IF WholeSlices(slices, "ReceiveVsync") # {} THEN WholeSlices(slices, "ReceiveVsync") ELSE WholeSlices(slices, "OnVsyncEvent")
    IN  {s \in named : \A o \in named : ~(o.ts < s.ts /\ s.ts < o.end)}
FrameMs(s) == s.end - s.now
\* The first frame of a launch is the startup's.
countedFrames(slices) ==
    LET frames == appFrames(slices)
    IN  IF Launched /\ frames # {} THEN frames \ {Earliest(frames)} ELSE frames

\* startupOf: <<>>, or from what to what the start was measured.
spawnedAt(slices) == {s \in slices : s.pid = App /\ s.name = "spawn"}
processTs(slices) == Earliest({s \in slices : s.pid = App}).ts
requests(slices) == {s \in slices : s.name = "StartAbility" /\ s.ts <= processTs(slices)}
composited(slices, since) == {s \in slices : s.name = "firstFrame" /\ s.ts >= since}
startupFrom(slices, since, from) ==
    IF composited(slices, since) # {}
    THEN <<[from |-> from, to |-> "composited", coldMs |-> Earliest(composited(slices, since)).ts - since]>>
    ELSE LET shown == {s \in appFrames(slices) : s.ts >= processTs(slices)}
         IN  IF shown = {} THEN <<>>
             ELSE <<[from |-> from, to |-> "firstUiFrame", coldMs |-> Earliest(shown).end - since]>>
\* Mutant: the first request of the trace, not the last before the process.
startupOf_First(slices) ==
    IF ~Launched \/ spawnedAt(slices) = {} THEN <<>>
    ELSE IF requests(slices) # {} THEN startupFrom(slices, Earliest(requests(slices)).ts, "request")
    ELSE startupFrom(slices, processTs(slices), "process")
startupOf(slices) ==
    IF ~Launched \/ spawnedAt(slices) = {} THEN <<>>
    ELSE IF requests(slices) # {} THEN startupFrom(slices, Latest(requests(slices)).ts, "request")
    ELSE startupFrom(slices, processTs(slices), "process")

------------------------------------------------------------------------------
TraceInit == trace = <<>> /\ dropped = 0 /\ captured = <<>>
Written(t) == Cardinality({i \in DOMAIN trace : trace[i].tid = t})
\* A thread writes its next marker once what causes it has been written.
Write(t) ==
    /\ captured = <<>> /\ Written(t) < Len(Scripts[t])
    /\ \E e \in {Scripts[t][Written(t) + 1]} :
         /\ \A c \in e.after : Written(c[1]) >= c[2]
         /\ trace' = Append(trace, [tid |-> t, is |-> e.is, name |-> e.name, wait |-> e.wait])
    /\ UNCHANGED <<dropped, captured>>
CaptureEnds ==
    /\ captured = <<>> /\ trace # <<>>
    /\ \E d \in 0..(Len(trace) - 1) : dropped' = d /\ captured' = <<parseTrace(d)>>
    /\ UNCHANGED trace
TraceNext == (\E t \in DOMAIN Scripts : Write(t)) \/ CaptureEnds
TraceSpec == TraceInit /\ [][TraceNext]_traceVars

------------------------------------------------------------------------------
\* The reference: an end belongs to the begin that it balances.
Balance(i, j) == LET of(is) == {k \in i..j : trace[k].tid = trace[i].tid /\ trace[k].is = is} IN Cardinality(of("B")) - Cardinality(of("E"))
EndOf(i) == LET ends == {j \in i..Len(trace) : trace[j].tid = trace[i].tid /\ Balance(i, j) = 0} IN IF ends = {} THEN 0 ELSE Min(ends)
Begins == {i \in 1..Len(trace) : trace[i].is = "B"}
Enclosing(i) == {k \in Begins : k < i /\ trace[k].tid = trace[i].tid /\ (EndOf(k) = 0 \/ EndOf(k) > i)}
Named(name) == {i \in Begins : trace[i].name = name}
\* The request that started the process, and the frame that showed it.
TrueRequest == Max({i \in Named("StartAbility") : \A s \in Named("spawn") : i < s})
FirstUiFrame == Min(Named("ReceiveVsync"))
TrueShown == IF Named("firstFrame") # {} THEN Min(Named("firstFrame"))
             ELSE IF EndOf(FirstUiFrame) # 0 THEN EndOf(FirstUiFrame)
             ELSE Len(trace) + 1

\* A capture that lost its head and its tail yields exactly the slices that began in it, each with the end and
\* the place among the slices of its own thread that are in it, whatever the other threads wrote in between.
TraceIsWhole ==
    captured # <<>> => captured[1] =
        {Slice(trace[i].tid, Opened(trace[i], i), EndOf(i), Cardinality({k \in Enclosing(i) : k > dropped}))
         : i \in {b \in Begins : b > dropped}}

\* What is measured in it is true: a frame that counts has the time of the frame from its vsync, and is never the
\* launch's first; a start measured from the request to the composited frame is the time of this launch, and one
\* measured between other points for want of those is never longer.
MeasuresAreTrue ==
    captured # <<>> => \E kept \in {{s \in captured[1] : perfSliceFilter(s)}} :
        /\ \A s \in countedFrames(kept) :
             /\ FrameMs(s) = EndOf(s.ts) - (s.ts - trace[s.ts].wait)
             /\ Launched /\ s.name = "ReceiveVsync" => s.ts # FirstUiFrame
        /\ \A u \in ToSet(startupOf(kept)) :
             /\ u.coldMs <= TrueShown - TrueRequest
             /\ u.from = "request" /\ u.to = "composited" => u.coldMs = TrueShown - TrueRequest
==============================================================================
