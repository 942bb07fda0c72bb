------------------------------- MODULE TestRun -------------------------------
(***************************************************************************)
(* `test` (testing/runTests.ts, parseTestOutput.ts): build a module's main *)
(* and test HAPs, install both, hold the screen on, run the suite with     *)
(* `aa test`, and judge what its runner printed.  The runner prints a block*)
(* when a case starts and one when it ends; it, the connection and the user*)
(* may go at any line.                                                     *)
(***************************************************************************)
EXTENDS Integers, SequencesExt

CONSTANTS Suites,         \* the suites, of cases [name, code, stack, message], the last two the lines of each
          SigningChanges  \* may the project have stopped signing since the HAPs on disk were built
\* A case that has ended has a code of its own: 1 says that one has started.
ASSUME SuitesAssumption == Suites \subseteq Seq([name : STRING, code : Int \ {1}, stack : Nat, message : Nat])

NoValue == "none"
TestTargets == {"main", "test"}

VARIABLES test,      \* [at, suite, build, signs, picked, restore, aborted, ok, outcome; lost: the timeout was overridden
                     \*  unheard, or not given back]
          built,     \* the HAPs on disk: target -> signed or not -> the sources it was built from
          phone,     \* [main, test: the code installed; held: the screen timeout is overridden]
          printed,   \* how far `aa test` has printed: [part: of what there is to say, lines: of the part]
          runner,    \* "off", "running", "crashed" or "finished"
          parsed,    \* what parseTestOutput makes of them
          bundleLog  \* [on: hilog streams and the pid is polled, known: a poll saw the app]
testVars == <<test, built, phone, printed, runner, parsed, bundleLog>>

------------------------------------------------------------------------------
\* The lines of the runner: a block when a case starts, one when it ends, and the end of the run.
Status(k, v) == [is |-> "status", key |-> k, value |-> v]
Texts(n) == [k \in 1..n |-> [is |-> "text"]]
Several(key, n) == IF n = 0 THEN <<>> ELSE <<Status(key, "text")>> \o Texts(n - 1)
Code(n) == [is |-> "code", value |-> n]
Blank == [is |-> "blank"]
CaseLines(c) ==
    <<Status("class", "S"), Status("test", c.name), Code(1), Blank, Status("class", "S")>>
    \o Several("stack", c.stack) \o Several("stream", c.message)
    \o <<Status("test", c.name), Code(c.code), Status("consuming", c.name), Blank>>
Suite == test.suite
CasesWith(n) == Cardinality({k \in DOMAIN Suite : Suite[k].code = n})
EndLines == <<[is |-> "result", value |-> [run |-> Len(Suite), fail |-> CasesWith(-2), error |-> CasesWith(-1)]],
              [is |-> "report", value |-> IF CasesWith(0) = Len(Suite) THEN 0 ELSE -1], [is |-> "finished", value |-> 0]>>
\* A part of the transcript is a case; the last one is the end.
Parts == Len(Suite) + 1
Transcript(part) == IF part \in DOMAIN Suite THEN CaseLines(Suite[part]) ELSE EndLines

statusFromCode(code) == CASE code = 0 -> "pass" [] code = -2 -> "fail" [] code = -1 -> "error"
                          [] code = -3 -> "ignore" [] OTHER -> "unknown"

\* A field is its lines; no lines, and for the rest no value, when it was not printed.
Fields == [k \in {"class", "test", "stack", "stream", "consuming"} |-> <<>>]
Unparsed == [tests |-> <<>>, fields |-> Fields, lastKey |-> NoValue, summary |-> <<>>,
             reportCode |-> <<>>, resultCode |-> <<>>]

\* The time a case took comes after its block.
ParseStatus(p, l) ==
    IF l.key = "consuming" /\ p.tests # <<>> /\ p.fields.test = <<>>
    THEN [p EXCEPT !.tests[Len(p.tests)].ms = l.value, !.lastKey = l.key]
    ELSE [p EXCEPT !.fields[l.key] = <<l.value>>, !.lastKey = l.key]
\* Mutant: the block of a start counts as a result.
ParseCode_Started(p, l) ==
    [p EXCEPT !.fields = Fields, !.lastKey = NoValue,
              !.tests = IF p.fields.test = <<>> THEN @
                        ELSE Append(@, [name |-> p.fields.test, status |-> statusFromCode(l.value),
                                        stack |-> Len(p.fields.stack), message |-> Len(p.fields.stream),
                                        ms |-> NoValue])]
\* The block that says a case has started, code 1, is no result.
ParseCode(p, l) ==
    [p EXCEPT !.fields = Fields, !.lastKey = NoValue,
              !.tests = IF l.value = 1 \/ p.fields.test = <<>> THEN @
                        ELSE Append(@, [name |-> p.fields.test, status |-> statusFromCode(l.value),
                                        stack |-> Len(p.fields.stack), message |-> Len(p.fields.stream),
                                        ms |-> NoValue])]
\* Any other line goes on with the field printed last.
ParseText(p) == IF p.lastKey = NoValue \/ p.fields[p.lastKey] = <<>> THEN p
                ELSE [p EXCEPT !.fields[p.lastKey] = Append(@, "text")]
ParseLine(p, l) ==
    CASE l.is = "status"   -> ParseStatus(p, l)
      [] l.is = "code"     -> ParseCode(p, l)
      [] l.is = "result"   -> [p EXCEPT !.summary = <<l.value>>]
      [] l.is = "report"   -> [p EXCEPT !.reportCode = <<l.value>>]
      [] l.is = "finished" -> [p EXCEPT !.resultCode = <<l.value>>]
      [] l.is = "blank"    -> [p EXCEPT !.lastKey = NoValue]
      [] OTHER             -> ParseText(p)

------------------------------------------------------------------------------
NoHap == [t \in TestTargets |-> NoValue]
TestInit ==
    /\ \E build, signs, old \in BOOLEAN, suite \in Suites :
         /\ SigningChanges \/ ~old \/ signs
         /\ test = [at |-> IF build THEN "buildMain" ELSE "pick", suite |-> suite, build |-> build, signs |-> signs, picked |-> NoHap,
                    restore |-> FALSE, lost |-> FALSE, aborted |-> FALSE, ok |-> FALSE, outcome |-> NoValue]
         /\ built = [t \in TestTargets |-> [signed |-> IF old THEN "old" ELSE NoValue, unsigned |-> NoValue]]
    /\ phone = [main |-> NoValue, test |-> NoValue, held |-> FALSE]
    /\ printed = [part |-> 1, lines |-> 0] /\ runner = "off" /\ parsed = Unparsed
    /\ bundleLog = [on |-> FALSE, known |-> FALSE]

At(where) == test.at = where
Step(next) == test' = [test EXCEPT !.at = next]
Reported(outcome) == [test EXCEPT !.at = "reported", !.outcome = outcome, !.ok = outcome = "passed"]
Thrown == [test EXCEPT !.at = "thrown"]
Report(outcome) == test' = Reported(outcome)
Throw == test' = Thrown
StillBefore == UNCHANGED <<printed, runner, parsed, bundleLog>>

\* A target builds, or the report says that it did not; a cancelled build throws.
Builds(where, target, next) ==
    /\ At(where) /\ StillBefore /\ UNCHANGED phone
    /\ \/ /\ ~test.aborted /\ Step(next)
          /\ built' = [built EXCEPT ![target][IF test.signs THEN "signed" ELSE "unsigned"] = "new"]
       \/ ~test.aborted /\ Report("runner-error") /\ UNCHANGED built
       \/ test.aborted /\ Throw /\ UNCHANGED built
BuildMain == Builds("buildMain", "main", "buildTest")
BuildTest == Builds("buildTest", "test", "pick")

\* pickHap and existingHapOrUnsigned: the signed HAP, else the unsigned one.
pick(target) == IF built[target].signed # NoValue THEN built[target].signed ELSE built[target].unsigned
Pick == /\ At("pick") /\ StillBefore /\ UNCHANGED <<built, phone>>
        /\ IF \E t \in TestTargets : pick(t) = NoValue THEN Report("runner-error")
           ELSE test' = [test EXCEPT !.at = "installMain", !.picked = [t \in TestTargets |-> pick(t)]]

\* applyChanges may reinstall, which drops every other module of the bundle; it is not told of an abort.
InstallMain ==
    /\ At("installMain") /\ StillBefore /\ UNCHANGED built
    /\ \/ Report("runner-error") /\ \E gone \in BOOLEAN :
            phone' = IF gone THEN [phone EXCEPT !.main = NoValue, !.test = NoValue] ELSE phone
       \/ /\ Step("installTest")
          /\ \E reinstalls \in BOOLEAN :
               phone' = [phone EXCEPT !.main = test.picked.main, !.test = IF reinstalls THEN NoValue ELSE @]
InstallTest ==
    /\ At("installTest") /\ StillBefore /\ UNCHANGED built
    /\ \/ test.aborted /\ Throw /\ UNCHANGED phone
       \/ ~test.aborted /\ Report("runner-error") /\ UNCHANGED phone
       \/ ~test.aborted /\ Step("wake") /\ phone' = [phone EXCEPT !.test = test.picked.test]
\* wakeAndUnlock and holdScreenOn: what fails in either is a warning.  Only a hold that answers is given
\* back, and one whose answer is lost holds all the same.
Hold ==
    /\ At("wake") /\ StillBefore /\ UNCHANGED built
    /\ \E holds, answers \in BOOLEAN :
         /\ test' = [test EXCEPT !.at = "start", !.restore = holds /\ answers, !.lost = holds /\ ~answers]
         /\ phone' = [phone EXCEPT !.held = holds]

StartRunner ==
    /\ At("start") /\ UNCHANGED <<built, phone, printed, parsed>>
    /\ Step("run") /\ bundleLog' = [bundleLog EXCEPT !.on = TRUE]
    /\ runner' = IF test.aborted THEN "off" ELSE "running"

\* The runner prints; hdc hands the lines on as they come.
RunnerPrints ==
    /\ runner = "running" /\ At("run")
    /\ parsed' = ParseLine(parsed, Transcript(printed.part)[printed.lines + 1])
    /\ printed' = IF printed.lines + 1 < Len(Transcript(printed.part)) THEN [printed EXCEPT !.lines = @ + 1]
                  ELSE [part |-> printed.part + 1, lines |-> 0]
    /\ runner' = IF printed'.part > Parts THEN "finished" ELSE "running"
    /\ UNCHANGED <<test, built, phone, bundleLog>>
RunnerCrashes == /\ runner = "running" /\ runner' = "crashed"
                 /\ UNCHANGED <<test, built, phone, printed, parsed, bundleLog>>
\* collectBundleLog: the lines kept are those of pids that a poll saw.
PollPid == /\ bundleLog.on /\ runner = "running" /\ ~bundleLog.known
           /\ bundleLog' = [bundleLog EXCEPT !.known = TRUE]
           /\ UNCHANGED <<test, built, phone, printed, runner, parsed>>

AbortTest == /\ ~test.aborted /\ test.at \notin {"reported", "thrown"}
             /\ test' = [test EXCEPT !.aborted = TRUE]
             /\ UNCHANGED <<built, phone, printed, runner, parsed, bundleLog>>

\* Mutant: a cancelled run does not give the screen back.
Leave_Forgets(end) ==
    /\ bundleLog' = [bundleLog EXCEPT !.on = FALSE]
    /\ UNCHANGED <<built, printed, parsed>>
    /\ \/ /\ test' = end /\ phone' = [phone EXCEPT !.held = @ /\ (~test.restore \/ test.aborted)]
       \/ /\ test.restore /\ test' = [end EXCEPT !.lost = TRUE] /\ UNCHANGED phone
\* However `aa test` ends, the log is stopped and the screen given back before the run is over.  Nobody
\* hears of a restoring call that fails or is refused.
Leave(end) ==
    /\ bundleLog' = [bundleLog EXCEPT !.on = FALSE]
    /\ UNCHANGED <<built, printed, parsed>>
    /\ \/ /\ test' = end /\ phone' = [phone EXCEPT !.held = @ /\ ~test.restore]
       \/ /\ test.restore /\ test' = [end EXCEPT !.lost = TRUE] /\ UNCHANGED phone

Count(p, s) == Len(SelectSeq(p.tests, LAMBDA t : t.status = s))
Summary(p) == IF p.summary # <<>> THEN p.summary[1]
              ELSE [run |-> Len(p.tests), fail |-> Count(p, "fail"), error |-> Count(p, "error")]
\* Mutant: a run that never finished is judged by the cases it printed.
decideOutcome_Started(p) ==
    IF Summary(p).run = 0 THEN "runner-error"
    ELSE IF Summary(p).fail > 0 \/ Summary(p).error > 0 THEN "failed" ELSE "passed"
decideOutcome(p) ==
    IF p.resultCode # <<0>> \/ Summary(p).run = 0 THEN "runner-error"
    ELSE IF Summary(p).fail > 0 \/ Summary(p).error > 0 THEN "failed" ELSE "passed"

RunEnds == /\ At("run") /\ ~test.aborted /\ runner \in {"finished", "crashed"}
           /\ Leave(Reported(decideOutcome(parsed))) /\ UNCHANGED runner
\* hdc fails, loses the device, or times out: whatever was printed, the run did not complete.
RunFails == At("run") /\ ~test.aborted /\ Leave(Reported("runner-error")) /\ UNCHANGED runner
RunCancelled == At("run") /\ test.aborted /\ Leave(Thrown) /\ UNCHANGED runner

TestNext == \/ BuildMain \/ BuildTest \/ Pick \/ InstallMain \/ InstallTest \/ Hold \/ StartRunner
            \/ RunnerPrints \/ RunnerCrashes \/ PollPid \/ AbortTest
            \/ RunEnds \/ RunFails \/ RunCancelled
TestSpec == TestInit /\ [][TestNext]_testVars

------------------------------------------------------------------------------
\* What the report lists is what the runner said before it went: its cases in order, each once, with its
\* own status, the lines of its own stack and message, and the time it took itself.
ReportIsTheRun ==
    /\ Len(parsed.tests) <= Len(Suite)
    /\ \A k \in DOMAIN parsed.tests : \E ms \in {NoValue, Suite[k].name} :
         parsed.tests[k] = [name |-> <<Suite[k].name>>, status |-> statusFromCode(Suite[k].code),
                            stack |-> Suite[k].stack, message |-> Suite[k].message, ms |-> ms]

\* A pass is a whole run: every case ran to its end and none failed, with both HAPs on the device, and on the
\* code built here when it was built here, so that no case of an older build passes for this one.
PassedIsWhole ==
    test.ok => /\ runner = "finished" /\ printed.part > Parts
               /\ Len(parsed.tests) = Len(Suite) /\ \A c \in ToSet(Suite) : c.code \notin {-2, -1}
               /\ phone.main = test.picked.main /\ phone.test = test.picked.test
               /\ test.build => phone.main = "new" /\ phone.test = "new"

\* However it ends, no hilog is left streaming, and the screen timeout is the user's again unless the
\* answer of the call that overrode it was lost, or the call that restores it failed or was refused.
TestLeavesDevice == test.at \in {"reported", "thrown"} => ~bundleLog.on /\ (phone.held => test.lost)
==============================================================================
