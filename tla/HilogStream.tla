----------------------------- MODULE HilogStream -----------------------------
(***************************************************************************)
(* hdc/hilog.ts: waitForLog, watchLog and captureLog.  Each reads `hdc     *)
(* shell hilog`, which replays the device's buffer and then streams, while *)
(* the device logs, reboots with or without a battery-backed clock, and    *)
(* the stream dies and is started again.  The capture keeps every line (no *)
(* `pattern`); a wait and a watch are for a bundle.                        *)
(***************************************************************************)
EXTENDS Integers, SequencesExt

CONSTANTS MaxLines,      \* lines the device logs
          MaxReboots,
          MaxDrops,      \* times a stream dies by itself
          Deadline,      \* timeoutMs or durationMs, in ticks of the clocks
          Lookback,      \* lookbackMs, in ticks
          CallTime       \* the device's clock at the call; 0 is the clock of a reset device

ASSUME HilogAssumption == /\ MaxLines \in Nat /\ MaxReboots \in Nat /\ MaxDrops \in Nat
                          /\ Deadline \in Nat /\ Lookback \in Nat
                          /\ CallTime \in Nat /\ CallTime > Deadline + Lookback

VARIABLES job,           \* "wait", "watch" or "capture"
          lpc,           \* what the call awaits
          ended,         \* how it settled
          got,           \* the entries found or collected, or the lines of the file, as pieces of lines
          since,         \* the cutoff of recentEntryFilter
          readIn,        \* the boot the device's clock was read in last, or Never
          stream,        \* the hilog child: its -P filter, the line it prints next, half of it printed
          buf,           \* the pieces of lines at the end of what was read
          elapsed,       \* the host's clock, from the call
          log,           \* every line the device ever logged
          held,          \* the first line that is in the device's buffer
          device         \* its clock, boots, whether it is reachable, the bundle's process (or 0), drops
logVars == <<job, lpc, ended, got, since, readIn, stream, buf, elapsed, log, held, device>>

Anything == -(Deadline + Lookback) - 1       \* below every cutoff: no cutoff
Never    == -1
NoStream == [on |-> FALSE, pid |-> 0, next |-> 1, half |-> FALSE]
Line(pid, match, at) == [boot |-> device.boot, at |-> at, pid |-> pid, match |-> match]

LogInit ==
    /\ job \in {"wait", "watch", "capture"} /\ lpc = (IF job = "capture" THEN "spawn" ELSE "clock")
    /\ device = [clock |-> CallTime, boot |-> 0, up |-> TRUE, app |-> 1, drops |-> 0]
    /\ log \in {<<>>, <<[boot |-> 0, at |-> CallTime - Lookback - 1, pid |-> 1, match |-> TRUE]>>}
    /\ held \in {1, IF job = "capture" THEN Len(log) + 1 ELSE 1}       \* `clear`: hilog -r
    /\ ended = "no" /\ got = <<>> /\ since = Anything /\ readIn = Never
    /\ stream = NoStream /\ buf = <<>> /\ elapsed = 0

------------------------------------------------------------------------------
\* The device, as long as the call watches it.
Device == ended = "no" /\ UNCHANGED <<job, lpc, ended, got, since, readIn, stream, buf, elapsed>>
LogLine == /\ device.up /\ Len(log) < MaxLines
           /\ \E pid \in {9, device.app} \ {0}, match \in BOOLEAN :
                  log' = Append(log, Line(pid, match, device.clock))
           /\ UNCHANGED <<held, device>> /\ Device
TickClocks == /\ ended = "no" /\ elapsed < Deadline /\ elapsed' = elapsed + 1
              /\ device' = [device EXCEPT !.clock = @ + 1]
              /\ UNCHANGED <<job, lpc, ended, got, since, readIn, stream, buf, log, held>>
AppRestarts == /\ device.up /\ device.app < 2
               /\ device' = [device EXCEPT !.app = IF @ = 1 THEN 0 ELSE 2]
               /\ UNCHANGED <<log, held>> /\ Device
BootDone == /\ ~device.up /\ device' = [device EXCEPT !.up = TRUE]
            /\ UNCHANGED <<log, held>> /\ Device

------------------------------------------------------------------------------
\* cleanup, then resolve or reject: once.  A capture writes out the line it has begun.
Settle(how, result) ==
    /\ ended' = how /\ got' = (IF job = "capture" /\ buf # <<>> THEN Append(result, buf) ELSE result)
    /\ stream' = NoStream /\ buf' = <<>>
    /\ lpc' = (IF lpc \in {"read", "pause"} THEN "off" ELSE lpc)     \* a pending lookup runs on
TimerFires == /\ ended = "no" /\ elapsed = Deadline
              /\ Settle(IF job = "wait" THEN "timeout" ELSE "done", got)
              /\ UNCHANGED <<job, since, readIn, elapsed, log, held, device>>
Abort == /\ ended = "no" /\ Settle(IF job = "capture" THEN "done" ELSE "cancelled", got)
         /\ UNCHANGED <<job, since, readIn, elapsed, log, held, device>>

\* recentEntryFilter: the device's time at the call, less lookbackMs; or everything, with a warning.
ReadClock ==
    /\ lpc = "clock" /\ lpc' = "lookup"
    /\ \/ device.up /\ since' = device.clock - elapsed - Lookback /\ readIn' = device.boot
       \/ since' = Anything /\ UNCHANGED readIn
    /\ UNCHANGED <<job, ended, got, stream, buf, elapsed, log, held, device>>

\* Mutants: a reconnection ends the filter; the cutoff is kept when the clock was reset.
RereadClock_Lifts ==
    /\ lpc = "reread" /\ lpc' = "lookup" /\ since' = Anything
    /\ UNCHANGED <<job, ended, got, readIn, stream, buf, elapsed, log, held, device>>
RereadClock_Keeps ==
    /\ lpc = "reread" /\ lpc' = "lookup"
    /\ device.up /\ readIn' = device.boot
    /\ UNCHANGED <<job, ended, got, since, stream, buf, elapsed, log, held, device>>

\* afterReconnect: a clock behind the cutoff was reset, and the buffer is all new.
RereadClock ==
    /\ lpc = "reread" /\ lpc' = "lookup"
    /\ IF since = Anything THEN UNCHANGED <<since, readIn>>
       ELSE \/ device.up /\ readIn' = device.boot /\ since' = (IF device.clock < since THEN Anything ELSE since)
            \/ UNCHANGED <<since, readIn>>
    /\ UNCHANGED <<job, ended, got, stream, buf, elapsed, log, held, device>>

\* Mutant: the lookup's answer starts a stream for a call that has settled.
LookUp_Unguarded ==
    /\ lpc = "lookup"
    /\ stream' = [NoStream EXCEPT !.on = TRUE, !.pid = device.app, !.next = held]
    /\ lpc' = "read"
    /\ UNCHANGED <<job, ended, got, since, readIn, buf, elapsed, log, held, device>>

\* spawnStream: with no process of that name the stream has no filter.  hdc may fail to be spawned.
LookUp ==
    /\ lpc = "lookup"
    /\ IF ended # "no" THEN lpc' = "off" /\ UNCHANGED <<ended, got, stream, buf>>
       ELSE \/ /\ stream' = [NoStream EXCEPT !.on = TRUE, !.next = held,
                                             !.pid = IF device.up THEN device.app ELSE 0]
               /\ lpc' = "read" /\ UNCHANGED <<ended, got, buf>>
            \/ ended' = "failed" /\ lpc' = "off" /\ UNCHANGED <<got, stream, buf>>
    /\ UNCHANGED <<job, since, readIn, elapsed, log, held, device>>

SpawnCapture ==
    /\ lpc = "spawn" /\ ended = "no"
    /\ \/ stream' = [NoStream EXCEPT !.on = TRUE, !.next = held] /\ lpc' = "read" /\ UNCHANGED <<ended, got, buf>>
       \/ Settle("failed", got)
    /\ UNCHANGED <<job, since, readIn, elapsed, log, held, device>>

PauseEnds == /\ lpc = "pause" /\ lpc' = (IF job = "capture" THEN "spawn" ELSE "reread")
             /\ UNCHANGED <<job, ended, got, since, readIn, stream, buf, elapsed, log, held, device>>

\* onEnd: a wait and a capture reconnect until the deadline; what was read of a line stays in buf.
StreamEnds ==
    /\ stream' = NoStream
    /\ lpc' = (IF lpc # "read" THEN lpc ELSE IF job = "watch" \/ elapsed >= Deadline THEN "off" ELSE "pause")
    /\ UNCHANGED <<job, ended, got, since, readIn, buf, elapsed, log>>
Drop == /\ stream.on /\ StreamEnds /\ UNCHANGED held
        /\ \/ ~device.up /\ UNCHANGED device
           \/ device.drops < MaxDrops /\ device' = [device EXCEPT !.drops = @ + 1]
Reboot == /\ ended = "no" /\ device.up /\ device.boot < MaxReboots /\ StreamEnds /\ held' = Len(log) + 1
          /\ \E clock \in {0, device.clock} :
                device' = [device EXCEPT !.boot = @ + 1, !.up = FALSE, !.app = 0, !.clock = clock]

------------------------------------------------------------------------------
\* What was logged since the call, and what the filter takes for it: the stamp of a line is its head's.
LoggedSinceCall(i) == log[i].boot > 0 \/ log[i].at >= CallTime - Lookback

Recent(pieces) == log[pieces[1]].at >= since

\* A line made of pieces of several may parse or not, and match by any of them.
MayMatch(pieces)  == \E i \in ToSet(pieces) : log[i].match
MustMatch(pieces) == Len(pieces) = 1 /\ MayMatch(pieces)

\* One line is complete: parsed, filtered and matched, or written to the file.
ReadLine(pieces) ==
    IF job = "capture" THEN got' = Append(got, pieces) /\ buf' = <<>> /\ UNCHANGED <<lpc, ended>>
    ELSE \/ /\ Recent(pieces) /\ MayMatch(pieces)
            /\ got' = Append(got, pieces) /\ buf' = <<>>
            /\ IF job = "wait" THEN ended' = "found" /\ lpc' = "off" ELSE UNCHANGED <<ended, lpc>>
         \/ /\ ~(Recent(pieces) /\ MustMatch(pieces))
            /\ buf' = <<>> /\ UNCHANGED <<got, lpc, ended>>

\* Mutant: what completes a half line is not joined to it.
Data_DropsTheRest ==
    LET i == SelectInSeq(SubSeq(log, stream.next, Len(log)),
                         LAMBDA l : stream.pid \in {0, l.pid}) + stream.next - 1
    IN  /\ stream.on /\ device.up /\ i >= stream.next
        /\ \/ /\ ~stream.half /\ buf' = Append(buf, i) /\ stream' = [stream EXCEPT !.half = TRUE, !.next = i]
              /\ UNCHANGED <<got, lpc, ended>>
           \/ /\ IF stream.half THEN buf' = <<>> /\ UNCHANGED <<got, lpc, ended>> ELSE ReadLine(Append(buf, i))
              /\ stream' = IF ended' = "no" THEN [stream EXCEPT !.half = FALSE, !.next = i + 1] ELSE NoStream
        /\ UNCHANGED <<job, since, readIn, elapsed, log, held, device>>

\* A chunk brings half of the next line that passes -P, or the rest of it.
Data ==
    LET i == SelectInSeq(SubSeq(log, stream.next, Len(log)),
                         LAMBDA l : stream.pid \in {0, l.pid}) + stream.next - 1
    IN  /\ stream.on /\ device.up /\ i >= stream.next
        /\ \/ /\ ~stream.half /\ buf' = Append(buf, i) /\ stream' = [stream EXCEPT !.half = TRUE, !.next = i]
              /\ UNCHANGED <<got, lpc, ended>>
           \/ /\ ReadLine(IF stream.half THEN buf ELSE Append(buf, i))
              /\ stream' = IF ended' = "no" THEN [stream EXCEPT !.half = FALSE, !.next = i + 1] ELSE NoStream
        /\ UNCHANGED <<job, since, readIn, elapsed, log, held, device>>

LogNext == \/ LogLine \/ TickClocks \/ AppRestarts \/ BootDone \/ Reboot \/ Drop
           \/ ReadClock \/ RereadClock \/ LookUp \/ SpawnCapture \/ PauseEnds \/ Data
           \/ TimerFires \/ Abort
LogSpec == LogInit /\ [][LogNext]_logVars

------------------------------------------------------------------------------
\* The entry a wait resolves with holds something logged since the call, whatever the buffer replays
\* after each reconnection and whatever the reboot did to the clock.
FoundIsRecent == job = "wait" /\ ended = "found" /\ readIn # Never =>
                     \E i \in ToSet(got[Len(got)]) : LoggedSinceCall(i)

\* No line that was logged since the call, matches and was read whole is passed over, lines of a device
\* that came back with its clock reset included (unless that clock could not be read).
RecentIsFound ==
    [][\A i \in DOMAIN log :
         (job # "capture" /\ stream.on /\ (since = Anything \/ readIn = device.boot) /\ buf = <<>> /\ log[i].match
            /\ LoggedSinceCall(i) /\ stream.pid \in {0, log[i].pid} /\ stream.next <= i /\ stream'.next = i + 1)
         => got' = Append(got, <<i>>)]_logVars

\* A call that has settled leaves no hilog running.
NothingLeftStreaming == ended # "no" => ~stream.on

\* The file of a capture whose stream never died holds every line from the first in the buffer on, once
\* and in order; only the last may be cut.
CaptureIsGapless == job = "capture" /\ device.boot = 0 /\ device.drops = 0 =>
                        /\ got = [k \in DOMAIN got |-> <<held + k - 1>>]
                        /\ stream.on => stream.next = held + Len(got)

\* So what a log call hands out can be relied on: the three together.
LogIsSound == FoundIsRecent /\ NothingLeftStreaming /\ CaptureIsGapless
==============================================================================
