------------------------------- MODULE MCDevice -------------------------------
(***************************************************************************)
(* Commands that build for a device, drive it or read what it says, checked*)
(* side by side: a behaviour is one of them, and the variables of the      *)
(* others keep one initial value.                                          *)
(***************************************************************************)
EXTENDS ApplyChanges, HapBuild, TestRun, PerfCapture, TraceReader, BinderChain, FaultLog, LogBundle

VARIABLE command
deviceVars == <<command, vars, buildVars, testVars, perfVars, traceVars, caught, faultVars, bundleVars>>

Is(c, choice) == command = c \/ choice
DeviceInit ==
    /\ command \in {"apply", "build", "test", "perf", "trace", "binder", "faultlog", "bundle"}
    /\ Init        /\ Is("apply", opt.cmd = "stop" /\ ~opt.isSystemBundle /\ ~opt.tcp /\ up /\ installed = "none" /\ link = "ok")
    /\ BuildInit   /\ Is("build", hap.platform = CHOOSE p \in Platforms : TRUE)
                   /\ Is("build", hap.os = "HarmonyOS" /\ ~hap.sdk /\ ~hap.deps /\ hap.signing = None /\ hap.haps = None)
    /\ TestInit    /\ Is("test", ~test.build /\ test.signs /\ built.main.signed = NoValue /\ test.suite = CHOOSE t \in Suites : TRUE)
    /\ PerfInit    /\ Is("perf", capture.launch /\ capture.flow /\ capture.hiperf /\ phone_.trace = "off")
    /\ TraceInit   /\ BinderInit
    /\ FaultInit   /\ Is("faultlog", search.bundle = "app")
    /\ BundleInit  /\ Is("bundle", bundle.redact /\ bundle.log = CHOOSE l \in Logs : TRUE)

DeviceNext ==
    \/ command = "apply" /\ Next
       /\ UNCHANGED <<command, buildVars, testVars, perfVars, traceVars, caught, faultVars, bundleVars>>
    \/ command = "build" /\ BuildNext
       /\ UNCHANGED <<command, vars, testVars, perfVars, traceVars, caught, faultVars, bundleVars>>
    \/ command = "test" /\ TestNext
       /\ UNCHANGED <<command, vars, buildVars, perfVars, traceVars, caught, faultVars, bundleVars>>
    \/ command = "perf" /\ PerfNext
       /\ UNCHANGED <<command, vars, buildVars, testVars, traceVars, caught, faultVars, bundleVars>>
    \/ command = "trace" /\ TraceNext
       /\ UNCHANGED <<command, vars, buildVars, testVars, perfVars, caught, faultVars, bundleVars>>
    \/ command = "binder" /\ Catch
       /\ UNCHANGED <<command, vars, buildVars, testVars, perfVars, traceVars, faultVars, bundleVars>>
    \/ command = "faultlog" /\ FaultNext
       /\ UNCHANGED <<command, vars, buildVars, testVars, perfVars, traceVars, caught, bundleVars>>
    \/ command = "bundle" /\ BundleNext
       /\ UNCHANGED <<command, vars, buildVars, testVars, perfVars, traceVars, caught, faultVars>>

DeviceSpec == DeviceInit /\ [][DeviceNext]_deviceVars

------------------------------------------------------------------------------
\* The model's constants.
Case(name, code, lines) == [name |-> name, code |-> code, stack |-> lines, message |-> lines]
MCSuites == {<<Case("a", -2, 2), Case("b", 0, 0)>>, <<Case("a", 0, 0), Case("b", -3, 0)>>}

Problem(kind, sev, code, text, file, symbol) ==
    [kind |-> kind, sev |-> sev, code |-> code, text |-> text, file |-> file, symbol |-> symbol]
MCProblems ==
    {Problem("coded", "error", 105, "m1", "oh_modules", "s"), Problem("lines", "error", 106, "m2", None, None),
     Problem("located", "warning", 0, "m3", "b", None), Problem("hvigor", "error", NATIVE_WRAPPER_CODE, "m4", None, None),
     Problem("hvigor", "error", 3, "m5", "c", None), Problem("lld", "error", 0, "m6", "d", None),
     Problem("clang", "warning", 0, "m7", "d", None), Problem("failed", None, 0, "t1", None, None),
     Problem("failed", None, 0, "t2", None, None), Problem("result", None, 2, None, None, None),
     Problem("ohpm", "error", 6, "m8", None, None)}
MCDeclares == (10 :> {}) @@ (12 :> {"s"})

B(name, wait, after) == [is |-> "B", name |-> name, wait |-> wait, after |-> after]
E == [is |-> "E", name |-> "", wait |-> 0, after |-> {}]
\* Two requests, the second of which starts the process; a frame that is shown and one that comes later.
MCScripts ==
    [aa     |-> <<B("StartAbility", 0, {}), E, B("StartAbility", 0, {})>>,
     app    |-> <<B("spawn", 0, {<<"aa", 3>>}), E, B("ReceiveVsync", 1, {}), B("OnVsyncEvent", 0, {}), E, E,
                  B("ReceiveVsync", 2, {}), E>>,
     worker |-> <<B("other", 0, {<<"app", 3>>}), E>>,
     render |-> <<B("firstFrame", 0, {<<"app", 6>>})>>]
MCProcess == [aa |-> "aa", app |-> "app", worker |-> "app", render |-> "render"]

MCThreads == {<<1, 1>>, <<1, 2>>, <<2, 1>>, <<2, 0>>}

Line(is, time) == [is |-> is, time |-> time]
MCLogs == {<<Line("record", a), Line(k, 0), Line("record", b)>> : a, b \in {4, 8, 10}, k \in {"more", "banner", "odd"}}
          \cup {<<Line("more", 0), Line("record", 10)>>, <<>>}
------------------------------------------------------------------------------
\* TestRun, PerfCapture: however a command ends, the device is left as it was found: no hilog streams, no trace
\* session and no profiler runs on, no file stays, and the screen timeout is the user's again, unless the answer to
\* a call that the device has obeyed was lost, or a call that undoes one failed or was refused.
DeviceIsGivenBack ==
    CASE command = "test" -> TestLeavesDevice
      [] command = "perf" -> CaptureLeavesDevice
      [] OTHER            -> TRUE

\* TestRun, PerfCapture, TraceReader: what a report says was run or recorded is what happened.  The cases of a test
\* report are the runner's, and a pass is a whole run of the code that was built; a capture that is ok covers what
\* it was asked to measure, and the slices of a trace are those that began in it, whatever the buffer lost.
ReportsAreTrue ==
    CASE command = "test"  -> ReportIsTheRun /\ PassedIsWhole
      [] command = "perf"  -> OkIsMeasured
      [] command = "trace" -> TraceIsWhole
      [] OTHER             -> TRUE

\* BinderChain, FaultLog, LogBundle: what is told of a fault is what the device had to say: every call of the chain
\* that the frozen process is in, the newest fault with its own kind, and a bundle that is what it says it is, with
\* the lines of the time that was asked for.
EvidenceIsTrue ==
    CASE command = "binder"   -> ChainIsWhole
      [] command = "faultlog" -> CrashIsFound /\ KindIsTrue
      [] command = "bundle"   -> BundleIsTrue /\ RedactionHolds /\ WindowIsTrue
      [] OTHER                -> TRUE

\* HapBuild, TraceReader, BinderChain: what is computed from those texts is true of them: the problems hvigor
\* printed, each once; the times of the frames and of the start; each deadlock of the chain, once.
ReadingsAreTrue ==
    CASE command = "build"  -> ProblemsAreTold
      [] command = "trace"  -> MeasuresAreTrue
      [] command = "binder" -> DeadlocksAreTold
      [] OTHER              -> TRUE
==============================================================================
