------------------------------ MODULE FlowRecord ------------------------------
(***************************************************************************)
(* `record` (flow/record.ts): a recorder process runs on the device while  *)
(* somebody acts on it; the command starts it, watches it, stops it, and   *)
(* reads what it wrote, and stops what it started (recordFlow's `finally`).*)
(* Every call to the device may fail.  `run` only throws when hdc gives no *)
(* answer: a call that hdc refuses is one that printed something else, so  *)
(* that a look at the recorder finds it gone.                              *)
(***************************************************************************)
EXTENDS FlowDevice

CONSTANTS Gestures(_),      \* what a user does on one of Devices: inputs
          EventOf(_, _, _), \* the events written for an input: the screens before and after it, its number
          MaxGestures,
          MaxPolls          \* looks at the recorder's console, and at the process that ends

VARIABLES rpc,
          recorder,     \* the process on the device: "none", "starting", "on" or "ending"
          pid,          \* the command knows it
          touchLog,     \* the child process that follows the touches
          rrestore, rpolls,
          ends,         \* what the command does once it is cleaned up: "ok" or "error"
          taken         \* history: <<the screen before, the input, the screen after>> of what was done, and
                        \* from the pull on, of what the pulled events tell
record == <<rpc, recorder, pid, touchLog, rrestore, rpolls, ends, taken>>

RecordInit == /\ rpc = "wake" /\ recorder = "none" /\ pid = FALSE /\ touchLog = FALSE
              /\ rrestore = FALSE /\ rpolls = 0 /\ ends = "ok" /\ taken = <<>>

Throw == rpc' = "finally" /\ ends' = "error"
Goto(at) == rpc' = at /\ UNCHANGED ends

RecordWake == /\ rpc = "wake"
              /\ \E result \in {"ready", "locked", "error"} :
                    /\ wakeAndUnlock(result)
                    /\ IF result = "ready" THEN Goto("hold") ELSE Throw
              /\ UNCHANGED <<recorder, pid, touchLog, rrestore, rpolls, taken>>

RecordHold == /\ rpc = "hold" /\ Goto("read") /\ rrestore' \in BOOLEAN /\ holdScreenOn(rrestore')
              /\ UNCHANGED <<recorder, pid, touchLog, rpolls, taken>>

\* The display, the input methods, the clock and the first layout; then the touch log starts.  A
\* recording can do without the clock.
RecordRead == /\ rpc = "read"
              /\ \/ (Rest \/ Refused("read")) /\ touchLog' = TRUE /\ Goto("clear")
                 \/ CallFails("read") /\ UNCHANGED touchLog /\ Throw
              /\ UNCHANGED <<recorder, pid, rrestore, rpolls, taken>>

\* The files of an earlier session are removed.
RecordClear == /\ rpc = "clear"
               /\ \/ (Rest \/ Refused("clear")) /\ Goto("start")
                  \/ CallFails("clear") /\ Throw
               /\ UNCHANGED <<recorder, pid, touchLog, rrestore, rpolls, taken>>

RecordStart == /\ rpc = "start" /\ rpolls' = 0
               /\ \/ recorder' = "starting" /\ pid' = TRUE /\ Goto("console") /\ Rest
                  \/ Refused("start") /\ UNCHANGED <<recorder, pid>> /\ Throw
                  \/ CallFails("start") /\ recorder' \in {"none", "starting"} /\ UNCHANGED pid /\ Throw
               /\ UNCHANGED <<touchLog, rrestore, taken>>

\* The recorder, by itself.
RecorderReady == /\ recorder = "starting" /\ recorder' = "on"
                 /\ UNCHANGED <<device, rpc, pid, touchLog, rrestore, rpolls, ends, taken>>
RecorderEnds  == /\ recorder \in {"starting", "on", "ending"} /\ recorder' = "none"
                 /\ UNCHANGED <<device, rpc, pid, touchLog, rrestore, rpolls, ends, taken>>

\* The console says that it records, or had begun to; or the process has gone; or it is looked at again.
\* A console that is refused says nothing, and a look at the process that is refused finds it gone.
RecordConsole ==
    /\ rpc = "console"
    /\ \/ recorder \in {"on", "none"} /\ Goto("recording") /\ rpolls' = 0 /\ UNCHANGED <<device, pid>>
       \/ recorder = "none" /\ pid' = FALSE /\ Throw /\ UNCHANGED <<device, rpolls>>
       \/ /\ (recorder = "starting" /\ UNCHANGED device) \/ (recorder # "none" /\ Refused("console"))
          /\ rpolls' = rpolls + 1 /\ UNCHANGED pid
          /\ IF rpolls' = MaxPolls THEN Throw ELSE Goto("console")
       \/ Refused("alive") /\ pid' = FALSE /\ Throw /\ UNCHANGED rpolls
       \/ CallFails("console") /\ Throw /\ UNCHANGED <<pid, rpolls>>
    /\ UNCHANGED <<recorder, touchLog, rrestore, taken>>

Gesture == /\ rpc = "recording" /\ recorder = "on" /\ AtRest /\ lock = "none" /\ Len(taken) < MaxGestures
           /\ \E i \in Gestures(dev) :
                /\ Input(i)
                /\ taken' = Append(taken, [before |-> dev, input |-> i, after |-> dev'])
           /\ UNCHANGED <<rpc, recorder, pid, touchLog, rrestore, rpolls, ends>>

\* A look at the process; one that throws is no answer, and one that is refused finds it gone.
RecordPoll == /\ rpc = "recording"
              /\ \/ ~AtRest /\ Rest /\ UNCHANGED pid /\ Goto("recording")
                 \/ recorder = "none" /\ pid' = FALSE /\ Goto("pull") /\ UNCHANGED device
                 \/ Refused("poll") /\ pid' = FALSE /\ Goto("pull")
                 \/ CallFails("poll") /\ UNCHANGED pid /\ Goto("recording")
              /\ touchLog' = IF rpc' = "pull" THEN FALSE ELSE touchLog
              /\ UNCHANGED <<recorder, rrestore, rpolls, taken>>

\* The duration is over, or Ctrl+C.
RecordEnds == /\ rpc = "recording" /\ Goto("interrupt") /\ rpolls' = 0
              /\ UNCHANGED <<device, recorder, pid, touchLog, rrestore, taken>>

\* stopRecorder, by the command and again by its `finally`: it throws when a call does.  A signal that is
\* refused goes unnoticed, and a look that is refused finds the recorder gone.
StopThrows == IF rpc \in {"interrupt", "lingers", "kill"} THEN Throw ELSE Goto("restore")
Stopped    == IF rpc \in {"interrupt", "lingers", "kill"}
              THEN touchLog' = FALSE /\ pid' = FALSE /\ Goto("pull")
              ELSE UNCHANGED touchLog /\ pid' = FALSE /\ Goto("restore")

Interrupt == /\ rpc \in {"interrupt", "finally"} /\ pid /\ rpolls' = 0
             /\ \/ /\ \/ recorder' = (IF recorder = "none" THEN "none" ELSE "ending") /\ UNCHANGED device
                      \/ UNCHANGED recorder /\ Refused(rpc)
                   /\ Goto(IF rpc = "interrupt" THEN "lingers" ELSE "finally lingers")
                \/ CallFails(rpc) /\ StopThrows /\ UNCHANGED recorder
             /\ UNCHANGED <<pid, touchLog, rrestore, taken>>

Linger_NoKill ==
          /\ rpc \in {"lingers", "finally lingers"}
          /\ \/ (recorder = "none" \/ rpolls + 1 = MaxPolls) /\ Stopped /\ UNCHANGED <<device, rpolls>>
             \/ Refused(rpc) /\ Stopped /\ UNCHANGED rpolls
             \/ recorder # "none" /\ rpolls + 1 < MaxPolls /\ rpolls' = rpolls + 1 /\ UNCHANGED <<device, pid, touchLog>> /\ Goto(rpc)
             \/ CallFails(rpc) /\ StopThrows /\ UNCHANGED <<pid, touchLog, rpolls>>
          /\ UNCHANGED <<recorder, rrestore, taken>>
Linger == /\ rpc \in {"lingers", "finally lingers"}
          /\ \/ recorder = "none" /\ Stopped /\ UNCHANGED <<device, rpolls>>
             \/ Refused(rpc) /\ Stopped /\ UNCHANGED rpolls
             \/ /\ recorder # "none" /\ rpolls' = rpolls + 1 /\ UNCHANGED <<device, pid, touchLog>>
                /\ Goto(IF rpolls' < MaxPolls THEN rpc ELSE IF rpc = "lingers" THEN "kill" ELSE "finally kill")
             \/ CallFails(rpc) /\ StopThrows /\ UNCHANGED <<pid, touchLog, rpolls>>
          /\ UNCHANGED <<recorder, rrestore, taken>>

Kill == /\ rpc \in {"kill", "finally kill"}
        /\ \/ recorder' = "none" /\ Stopped /\ UNCHANGED device
           \/ Refused(rpc) /\ Stopped /\ UNCHANGED recorder
           \/ CallFails(rpc) /\ StopThrows /\ UNCHANGED <<recorder, pid, touchLog>>
        /\ UNCHANGED <<rrestore, rpolls, taken>>

\* The events; their layouts and the last screen, which the flow can do without.  A recorder that goes on
\* may not have written the last event yet, and events that are refused are none.
Pull == /\ rpc = "pull"
        /\ \/ Rest /\ Goto("finally") /\ UNCHANGED taken
           \/ Rest /\ Goto("finally") /\ recorder # "none" /\ taken # <<>> /\ taken' = Front(taken)
           \/ Refused("pull") /\ Goto("finally") /\ taken' \in {<<>>, taken}
           \/ CallFails("pull") /\ Throw /\ UNCHANGED taken
        /\ UNCHANGED <<recorder, pid, touchLog, rrestore, rpolls>>

NothingToStop == /\ rpc = "finally" /\ ~pid /\ Goto("restore")
                 /\ UNCHANGED <<device, recorder, pid, touchLog, rrestore, rpolls, taken>>

RecordRestore == /\ rpc = "restore" /\ Goto("done")
                 /\ touchLog' = FALSE
                 /\ restoreScreenOn(rrestore)
                 /\ UNCHANGED <<recorder, pid, rrestore, rpolls, taken>>

RecordStep == \/ RecordWake \/ RecordHold \/ RecordRead \/ RecordClear \/ RecordStart \/ RecordConsole \/ RecordPoll
              \/ RecordEnds \/ Interrupt \/ Linger \/ Kill \/ Pull \/ NothingToStop \/ RecordRestore
RecordNext == RecordStep \/ RecorderReady \/ RecorderEnds \/ Gesture

\* --------------------------------------------------- what it has recorded
\* An event is written, and its screen dumped, some time after its touch: here before the next one
\* (README of the CLI: a pause of about 3 s).  Touch k is at 10k.
Touches(history) == {k \in DOMAIN history : history[k].input.kind # "keyEvent" \/ history[k].input.key = <<"back">>}

\* timed: the touch-downs and the layouts' times could be read.
Recording(history, timed) ==
    [events  |-> FlattenSeq([k \in DOMAIN history |-> EventOf(history[k].before, history[k].input, k)]),
     layouts |-> [k \in DOMAIN history |-> Shot[history[k].after].tree],
     initial |-> Shot[Home].tree,
     final   |-> <<Shot[IF history = <<>> THEN Home ELSE Last(history).after].tree>>,
     times   |-> IF timed THEN <<[initial |-> 0,
                                  downs   |-> [j \in 1 .. Cardinality(Touches(history)) |-> 10 * Sorted(Touches(history))[j]],
                                  layouts |-> [k \in DOMAIN history |-> 10 * k + 5]]>> ELSE <<>>,
     ime |-> Ime, bundle |-> None]
=============================================================================
