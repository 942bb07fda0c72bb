------------------------------ MODULE PerfCapture ------------------------------
(***************************************************************************)
(* `perf` (perf/perfTrace.ts): begin a hitrace capture on the device, launch *)
(* the app, sample it with hiperf, replay a flow, finish, pull the trace and *)
(* give everything back.  Any hdc call may throw, before or after the device *)
(* has done what it asks; the user may cancel.                             *)
(***************************************************************************)
EXTENDS Naturals

CONSTANT MaxThrows  \* bound: calls that throw

VARIABLES
    capture, \* [at, launch, flow, hiperf: what was asked; tracing, sampling, restore: the locals of perfTrace;
             \*  flowEnded, locked, error, ok, aborted, throws]
    phone_,  \* [trace: whose hitrace session runs, hiperf: hiperf records, held: the screen timeout is
             \*  overridden, files: files on the device, since: what the session has seen begin]
    lost     \* what the device has done although the call that asked for it threw or was refused
perfVars == <<capture, phone_, lost>>

PerfInit ==
    /\ capture \in [at : {"wake"}, launch : BOOLEAN, flow : BOOLEAN, hiperf : BOOLEAN, tracing : {FALSE}, sampling : {FALSE},
                    restore : {FALSE}, flowEnded : {"none"}, error : {FALSE}, ok : {FALSE}, aborted : {FALSE}, throws : {0}]
    /\ phone_ \in [trace : {"off", "other"}, hiperf : {FALSE}, held : {FALSE}, files : {{}}, since : {{}}]
    /\ lost = {}

Is_(where) == capture.at = where
To_(next) == capture' = [capture EXCEPT !.at = next]
Fails(c) == [c EXCEPT !.at = "stopHiperf", !.error = TRUE]  \* to the `finally`
\* A call throws: the report has an error and the `finally` runs.
CallThrows == capture.throws < MaxThrows /\ capture' = Fails([capture EXCEPT !.throws = @ + 1])
Unheard(what) == lost' = lost \cup {what}

\* wakeAndUnlock, when something is to be shown: a lock screen with a credential ends the capture.
wakeAndUnlock ==
    /\ Is_("wake") /\ UNCHANGED <<phone_, lost>>
    /\ \/ To_("hold")
       \/ (capture.launch \/ capture.flow) /\ (CallThrows \/ capture' = Fails(capture))
\* holdScreenOn does not throw: without an answer there is nothing to give back.
holdScreenOn ==
    /\ Is_("hold")
    /\ IF capture.launch \/ capture.flow
       THEN \E held, heard \in BOOLEAN :
              /\ capture' = [capture EXCEPT !.at = "stop", !.restore = held /\ heard]
              /\ phone_' = [phone_ EXCEPT !.held = held]
              /\ IF held /\ ~heard THEN Unheard("held") ELSE UNCHANGED lost
       ELSE To_("stop") /\ UNCHANGED <<phone_, lost>>
\* The app is stopped first so that the capture holds a cold start; a failure does not matter.
forceStop_ == Is_("stop") /\ To_("begin") /\ UNCHANGED <<phone_, lost>>

Session == [phone_ EXCEPT !.trace = "ours", !.since = {}]
\* A session that runs already is refused: it is stopped, and the capture begins again.
traceBegin_NoTakeOver ==
    /\ Is_("begin") /\ UNCHANGED lost
    /\ capture' = [capture EXCEPT !.at = "launch", !.tracing = TRUE]
    /\ phone_' = IF phone_.trace = "off" THEN Session ELSE phone_
traceBegin ==
    /\ Is_("begin")
    /\ \/ phone_.trace = "off" /\ capture' = [capture EXCEPT !.at = "launch", !.tracing = TRUE] /\ phone_' = Session /\ UNCHANGED lost
       \/ phone_.trace # "off" /\ To_("takeOver") /\ UNCHANGED <<phone_, lost>>
       \/ CallThrows /\ UNCHANGED <<phone_, lost>>
       \/ phone_.trace = "off" /\ CallThrows /\ phone_' = Session /\ Unheard("trace")
takeOver ==
    /\ Is_("takeOver") /\ UNCHANGED lost
    /\ \/ To_("begin") /\ phone_' = [phone_ EXCEPT !.trace = "off"]
       \/ CallThrows /\ phone_' \in {phone_, [phone_ EXCEPT !.trace = "off"]}

Sees(what) == phone_' = IF phone_.trace = "ours" THEN [phone_ EXCEPT !.since = @ \cup {what}] ELSE phone_
launchApp_ ==
    /\ Is_("launch") /\ UNCHANGED lost
    /\ \/ ~capture.launch /\ To_("hiperf") /\ UNCHANGED phone_
       \/ capture.launch /\ To_("hiperf") /\ Sees("launch")
       \/ capture.launch /\ CallThrows /\ UNCHANGED phone_
\* hiperf records in the background; without a process or a pid it is left out.
startHiperf ==
    /\ Is_("hiperf")
    /\ \/ To_("flow") /\ UNCHANGED <<phone_, lost>>
       \/ /\ capture.hiperf /\ capture' = [capture EXCEPT !.at = "flow", !.sampling = TRUE]
          /\ phone_' = [phone_ EXCEPT !.hiperf = TRUE, !.files = @ \cup {"perf"}] /\ UNCHANGED lost
       \/ /\ capture.hiperf /\ CallThrows /\ Unheard("hiperf")
          /\ phone_' = [phone_ EXCEPT !.hiperf = TRUE, !.files = @ \cup {"perf"}]
\* A flow that failed was still measured; one that could not run, or a cancelled capture, was not.
replay ==
    /\ Is_("flow") /\ UNCHANGED lost
    /\ \/ capture.aborted /\ capture' = Fails(capture) /\ UNCHANGED phone_
       \/ ~capture.aborted /\ ~capture.flow /\ To_("pid") /\ UNCHANGED phone_
       \/ ~capture.aborted /\ capture.flow /\ capture' = Fails([capture EXCEPT !.flowEnded = "error"]) /\ UNCHANGED phone_
       \/ /\ ~capture.aborted /\ capture.flow /\ Sees("flow")
          /\ \E how \in {"passed", "failed"} : capture' = [capture EXCEPT !.at = "pid", !.flowEnded = how]

\* SIGINT, polls, SIGKILL; hiperf may also be gone by itself.
stopProcess ==
    \/ phone_' = [phone_ EXCEPT !.hiperf = FALSE] /\ UNCHANGED lost
    \/ UNCHANGED phone_ /\ Unheard("hiperf")
collectHiperf ==
    /\ Is_("pid")
    /\ \/ ~capture.sampling /\ To_("finish") /\ UNCHANGED <<phone_, lost>>
       \/ /\ capture.sampling /\ capture' = [capture EXCEPT !.at = "finish", !.sampling = FALSE]
          /\ phone_' = [phone_ EXCEPT !.hiperf = FALSE] /\ UNCHANGED lost
       \/ capture.sampling /\ CallThrows /\ UNCHANGED <<phone_, lost>>
       \/ /\ capture.sampling /\ capture.throws < MaxThrows  \* stopped; the report of it throws
          /\ capture' = Fails([capture EXCEPT !.throws = @ + 1, !.sampling = FALSE])
          /\ phone_' = [phone_ EXCEPT !.hiperf = FALSE] /\ UNCHANGED lost
Ended_ == [phone_ EXCEPT !.trace = "off", !.files = @ \cup {"trace"}]
\* hitrace that answers with a failure may have kept its session.
traceFinish ==
    /\ Is_("finish")
    /\ \/ phone_' = Ended_ /\ capture' = [capture EXCEPT !.at = "recv", !.tracing = FALSE] /\ UNCHANGED lost
       \/ capture' = [Fails(capture) EXCEPT !.tracing = FALSE] /\ UNCHANGED phone_ /\ Unheard("trace")
       \/ CallThrows /\ phone_' \in {phone_, Ended_} /\ UNCHANGED lost
recvTrace ==
    /\ Is_("recv") /\ UNCHANGED <<phone_, lost>>
    /\ (CallThrows \/ To_("stopHiperf"))

\* The `finally`: each call of it may fail, and the next is made all the same.
finallyStopHiperf ==
    /\ Is_("stopHiperf") /\ To_("nodump")
    /\ IF capture.sampling THEN stopProcess ELSE UNCHANGED <<phone_, lost>>
finallyNodump_OnError ==
    /\ Is_("nodump") /\ To_("rm") /\ UNCHANGED lost
    /\ phone_' = IF capture.tracing /\ ~capture.aborted THEN [phone_ EXCEPT !.trace = "off"] ELSE phone_
finallyNodump ==
    /\ Is_("nodump") /\ To_("rm")
    /\ \/ ~capture.tracing /\ UNCHANGED <<phone_, lost>>
       \/ capture.tracing /\ phone_' = [phone_ EXCEPT !.trace = "off"] /\ UNCHANGED lost
       \/ capture.tracing /\ UNCHANGED phone_ /\ Unheard("trace")
finallyRm ==
    /\ Is_("rm") /\ To_("restore")
    /\ \/ phone_' = [phone_ EXCEPT !.files = {}] /\ UNCHANGED lost
       \/ UNCHANGED phone_ /\ Unheard("files")
finallyRestore ==
    /\ Is_("restore") /\ To_(IF capture.error THEN "reported" ELSE "summarise")
    /\ \/ phone_' = [phone_ EXCEPT !.held = @ /\ ~capture.restore] /\ UNCHANGED lost
       \/ UNCHANGED phone_ /\ capture.restore /\ Unheard("held")

\* The pulled trace is read; a file that cannot be read is an error too.
summarise ==
    /\ Is_("summarise") /\ UNCHANGED <<phone_, lost>>
    /\ \E reads \in BOOLEAN : capture' = [capture EXCEPT !.at = "reported", !.ok = reads, !.error = ~reads]

AbortCapture == /\ ~capture.aborted /\ capture.at # "reported"
                /\ capture' = [capture EXCEPT !.aborted = TRUE] /\ UNCHANGED <<phone_, lost>>

PerfNext == \/ wakeAndUnlock \/ holdScreenOn \/ forceStop_ \/ traceBegin \/ takeOver \/ launchApp_ \/ startHiperf \/ replay
            \/ collectHiperf \/ traceFinish \/ recvTrace \/ finallyStopHiperf \/ finallyNodump \/ finallyRm \/ finallyRestore
            \/ summarise \/ AbortCapture
PerfSpec == PerfInit /\ [][PerfNext]_perfVars
------------------------------------------------------------------------------
\* A capture that was reported has stopped its hitrace session and its hiperf, removed its files and given
\* the screen timeout back, however it ended, unless the device did not do as it was told or did it unheard.
CaptureLeavesDevice ==
    capture.at = "reported" =>
        /\ phone_.trace = "ours" => "trace" \in lost
        /\ phone_.hiperf => "hiperf" \in lost
        /\ phone_.held => "held" \in lost
        /\ phone_.files # {} => lost \cap {"files", "hiperf"} # {}

\* A report that is ok measured what was asked for: the session it read began before the launch and the
\* flow and ended after them, also when it took over from one that was left running.
OkIsMeasured ==
    capture.ok => /\ capture.launch => "launch" \in phone_.since
                  /\ capture.flow => "flow" \in phone_.since /\ capture.flowEnded \in {"passed", "failed"}
                  /\ phone_.trace # "other"
==============================================================================
