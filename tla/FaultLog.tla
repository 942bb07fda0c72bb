------------------------------- MODULE FaultLog -------------------------------
(***************************************************************************)
(* Why did it crash?  faultlog/device.ts looks for the newest fault on the *)
(* device while faultloggerd and hiview still write and rotate their files;*)
(* classify.ts and verdict.ts say what kind of fault a text tells of, from *)
(* the lines it has: a whole faultlog, or what a user pasted of one.       *)
(***************************************************************************)
EXTENDS Naturals, Sequences, FiniteSetsExt

CONSTANTS MaxFaults, MaxLooks  \* bounds: processes that die, looks before the deadline

Bundles == {"app", "other"}
FaultKinds == {"cpp_crash", "js_crash", "app_freeze", "sample_stack"}

\* The lines that tell: those of a whole log of the kind, and a freeze event that any log's HiLog may mention.
Header == {"timestamp", "pid"}
RecordLines == Header \cup {"reasonSignal", "registers", "faultThread", "lifeTime", "native"}
WholeLog == [cpp_crash    |-> RecordLines \cup {"threads", "jsFrame"},
             js_crash     |-> Header \cup {"reasonJs", "errorMessage", "stacktrace", "jsFrame", "native"},
             app_freeze   |-> Header \cup {"event", "msg", "threads", "native", "jsFrame"},
             sample_stack |-> {"marker1", "marker2", "marker3", "native"}]
Markers(t) == Cardinality(t \cap {"marker1", "marker2", "marker3"})

\* hasHeaderRegion: two fields of a header make a text a whole log.
full(t) == Cardinality(t \cap (Header \cup {"reasonSignal", "reasonJs", "registers", "faultThread", "lifeTime",
                                            "errorMessage", "stacktrace", "msg", "event"})) >= 2
Evidence(kind, t) ==
    t \cap CASE kind = "cpp_crash"  -> {"reasonSignal", "registers", "faultThread", "lifeTime", "native"}
             [] kind = "js_crash"   -> {"reasonJs", "errorMessage", "stacktrace", "jsFrame"}
             [] kind = "app_freeze" -> {"event", "msg", "threads"}
Decisive == [cpp_crash |-> "reasonSignal", js_crash |-> "reasonJs", app_freeze |-> "event"]
\* Mutant: the decisive line and one more.
detect_Two(kind, t) ==
    IF full(t) THEN Decisive[kind] \in t /\ Cardinality(Evidence(kind, t)) >= 2
    ELSE CASE kind = "cpp_crash"  -> "native" \in t
           [] kind = "js_crash"   -> "jsFrame" \in t
           [] kind = "app_freeze" -> t \cap {"threads", "event"} # {}
\* detectCppCrash and its like: a whole log has the decisive line and two more; an excerpt any frame or thread.
detect(kind, t) ==
    IF full(t) THEN Decisive[kind] \in t /\ Cardinality(Evidence(kind, t)) >= 3
    ELSE CASE kind = "cpp_crash"  -> "native" \in t
           [] kind = "js_crash"   -> "jsFrame" \in t
           [] kind = "app_freeze" -> t \cap {"threads", "event"} # {}
confidenceFor(kind, t) ==
    IF ~full(t) THEN "low" ELSE IF Cardinality(Evidence(kind, t)) >= (IF kind = "app_freeze" THEN 3 ELSE 4) THEN "high" ELSE "medium"
Hits(t) == {k \in DOMAIN Decisive : detect(k, t)}
Classified(kind, confidence) == [kind |-> kind, confidence |-> confidence]
verdictFromHits(t) ==
    IF Cardinality(Hits(t)) = 1 THEN \* the one that hit
        LET kind == CHOOSE k \in Hits(t) : TRUE IN Classified(kind, confidenceFor(kind, t))
    ELSE IF {"cpp_crash", "js_crash"} \subseteq Hits(t) /\ ~full(t) THEN Classified("cpp_crash", "medium")
    ELSE Classified("unknown", "low")
\* Without a whole log, sample-stack markers win: the frames are snapshots.
classifyFaultLog(t) ==
    IF Hits(t) # {} /\ full(t) THEN verdictFromHits(t)
    ELSE IF Markers(t) >= 2 THEN Classified("sample_stack", IF Markers(t) = 3 THEN "high" ELSE "medium")
    ELSE verdictFromHits(t)

------------------------------------------------------------------------------
VARIABLES faults,   \* the processes that died, by time: [kind, module]
          records,  \* faultloggerd's crash records of native crashes: the times of the faults
          logs,     \* hiview's faultlogs: the times of the faults
          search    \* latestCrash: [at, bundle, window: since when, or 0 for any time, clock: its offset was read, logs: listed,
          \*  steady: what was on the device all through this look, polls, entry, answer]
faultVars == <<faults, records, logs, search>>

FaultInit ==
    /\ faults = <<>> /\ records = {} /\ logs = {}
    /\ search \in [at : {"start"}, bundle : {"app", "any"}, window : {0}, clock : {FALSE}, logs : {{}}, steady : {{}},
                   polls : {0}, entry : {<<>>}, answer : {<<>>}]
Now_ == Len(faults)
Find(at) == search' = [search EXCEPT !.at = at]
UNCHANGED_device == UNCHANGED <<faults, records, logs>>
Searching == search.at \notin {"told", "none", "thrown", "pasted"}

\* The world: a process dies; hiview makes a faultlog of it, a record too, which may then go; old files go.
Dies == /\ Searching /\ Now_ < MaxFaults
        /\ \E kind \in FaultKinds \ {"sample_stack"}, module \in Bundles :
             /\ faults' = Append(faults, [kind |-> kind, module |-> module])
             /\ records' = IF kind = "cpp_crash" THEN records \cup {Now_ + 1} ELSE records
        /\ UNCHANGED <<logs, search>>
HiviewMakesLog == /\ Searching
                /\ \E f \in (1..Now_) \ logs : logs' = logs \cup {f} /\ records' \in {records, records \ {f}}
                /\ search' = [search EXCEPT !.steady = @ \cap (logs \cup records')]
                /\ UNCHANGED faults
Rotate == /\ Searching /\ \E f \in logs : f # Now_ /\ logs' = logs \ {f} /\ search' = [search EXCEPT !.steady = @ \ {f}]
          /\ UNCHANGED <<faults, records>>

\* `since` seconds ago is read once, against the device's clock, so that the window does not slide.
FixWindow ==
    /\ search.at = "start" /\ UNCHANGED_device
    /\ \/ Find("clock")
       \/ Find("thrown")  \* the clock could not be read
       \/ search' = [search EXCEPT !.at = "clock", !.window = Now_ + 1]
\* listFaultLogs: the clock's offset, the faultlogs, then the records, in three calls.
ReadOffset ==
    /\ search.at = "clock" /\ UNCHANGED_device
    /\ \E read \in BOOLEAN : search' = [search EXCEPT !.at = IF ~read /\ search.window > 0 THEN "thrown" ELSE "logs", !.clock = read,
                                                      !.steady = logs \cup records]
ListLogs ==
    /\ search.at = "logs" /\ UNCHANGED_device
    /\ search' = [search EXCEPT !.at = "records", !.logs = logs]
\* Of this bundle and in the window; a record that has its faultlog is left out.
Mine(f) == search.bundle \in {"any", faults[f].module} /\ f >= search.window
Entries_ == {f \in search.logs \cup records : Mine(f)}
NewerFault(f, g) ==
    IF search.clock THEN f > g
    ELSE LET record(x) == x \notin search.logs IN (record(f) /\ ~record(g)) \/ (record(f) = record(g) /\ f > g)
Newest(S) == {f \in S : \A g \in S \ {f} : NewerFault(f, g)}
ListRecords_Oldest ==
    /\ search.at = "records" /\ UNCHANGED_device
    /\ IF Entries_ = {} THEN Find("wait") ELSE search' = [search EXCEPT !.at = "read", !.entry = <<Min(Entries_)>>]
ListRecords ==
    /\ search.at = "records" /\ UNCHANGED_device
    /\ IF Entries_ = {} THEN Find("wait")
       ELSE \E f \in Newest(Entries_) : search' = [search EXCEPT !.at = "read", !.entry = <<f>>]
\* Nothing yet: look again until the deadline.
Again ==
    /\ search.at = "wait" /\ UNCHANGED_device
    /\ \/ search.polls < MaxLooks /\ search' = [search EXCEPT !.at = "clock", !.polls = @ + 1]
       \/ Find("none")
\* The faultlog through hidumper, else `cat`; a record is rendered as the faultlog hiview would write.  A file
\* that has gone makes the command throw.
readFaultLog ==
    /\ search.at = "read" /\ UNCHANGED_device
    /\ \E f \in {search.entry[1]} :
         IF f \in search.logs
         THEN \/ f \in logs /\ \E noise \in SUBSET {"event"} :
                    search' = [search EXCEPT !.at = "told", !.answer = <<classifyFaultLog(WholeLog[faults[f].kind] \cup noise)>>]
              \/ f \notin logs /\ Find("thrown")
         ELSE \/ f \in records /\ search' = [search EXCEPT !.at = "told", !.answer = <<classifyFaultLog(RecordLines)>>]
              \/ f \notin records /\ Find("thrown")

\* analyzeFaultLog of a text: some lines of one log.
Pasted(t) == search' = [search EXCEPT !.at = "pasted", !.answer = <<classifyFaultLog(t)>>]
Paste == /\ search.at = "start" /\ search.bundle = "any" /\ faults = <<>> /\ UNCHANGED <<records, logs>>
         /\ \E kind \in FaultKinds : faults' = <<[kind |-> kind, module |-> "app"]>>
              /\ \E t \in SUBSET (WholeLog[kind] \cup {"event"}) : Pasted(t)

FaultNext == \/ Dies \/ HiviewMakesLog \/ Rotate \/ FixWindow \/ ReadOffset \/ ListLogs \/ ListRecords \/ Again \/ readFaultLog
             \/ Paste
FaultSpec == FaultInit /\ [][FaultNext]_faultVars

------------------------------------------------------------------------------
\* The fault that is told is one of the bundle that was asked for and, in a run that fixed a window, of that
\* run; none that was on the device all through the look and is newer was passed over, if its clock was read.
\* "None" is told only if no fault of the bundle was on the device, in one form, all through the last look: a
\* record that becomes a faultlog between the two listings is in neither.
CrashIsFound ==
    /\ search.at \in {"read", "told"} =>
         /\ Mine(search.entry[1])
         /\ search.clock => \A f \in search.steady : Mine(f) => f <= search.entry[1]
    /\ search.at = "none" => ~\E f \in search.steady : Mine(f)

\* A fault that was found is told as the kind it is.  Of a pasted text, whatever it lost, a kind that is told
\* with confidence is that of the log it is from.
KindIsTrue ==
    /\ search.at = "told" => search.answer[1].kind = faults[search.entry[1]].kind
    /\ search.at = "pasted" /\ search.answer[1].confidence = "high" => search.answer[1].kind = faults[1].kind
==============================================================================
