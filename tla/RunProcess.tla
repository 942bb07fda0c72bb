------------------------------ MODULE RunProcess ------------------------------
(***************************************************************************)
(* hdc/exec.ts and killProcessTree: one `hdc shell` command run through    *)
(* shellChecked, hdcExec and runProcess.  The child may have a child of    *)
(* its own (a wrapper's hdc, an hdc server) that holds its pipes; kills    *)
(* land and events arrive some time after they were caused.                *)
(***************************************************************************)
EXTENDS Integers, SequencesExt

CONSTANTS Platforms,     \* of "posix" and "windows"
          MaxOutput      \* tokens a command prints

VARIABLES host,          \* the platform
          call,          \* "new", "running", or how the promise was settled
          result,        \* the exit code reported, or NoResult
          timedOut,      \* the timer has fired
          signal,        \* whether a kill is on its way
          child,         \* NotYet, Alive or its exit code, Killed for a signal
          grandchild,    \* whether a descendant holds the pipes
          remote,        \* the command on the device: Alive, its exit code, or NotYet when hdc finds no device
          output         \* what hdc printed: [Fail], text, or an exit-code marker <<code>>
execVars == <<host, call, result, timedOut, signal, child, grandchild, remote, output>>

NotYet   == -4
Alive    == -3
NoResult == -2
Killed   == -1
Settled  == call \notin {"new", "running"}

ExecInit ==
    /\ host \in Platforms /\ call = "new" /\ result = NoResult
    /\ timedOut = FALSE /\ signal = FALSE /\ child = NotYet /\ grandchild = FALSE
    /\ remote \in {Alive, NotYet} /\ output = <<>>

------------------------------------------------------------------------------
\* hdcClientFailure: [Fail] as the first line stands for what was not run.
hdcClientFailure(out) == out # <<>> /\ out[1] = <<"fail">>
hdcExec(code, out) == IF code = 0 /\ hdcClientFailure(out) THEN 1 ELSE code

\* parseRemoteExit: the last marker counts; without one the exit code of hdc has to do.
IsMarker(token) == token[1] = "rc"
\* Mutant: the first marker counts, which the command may have printed itself.
shellChecked_First(code, out) ==
    IF \E i \in DOMAIN out : IsMarker(out[i]) THEN out[SelectInSeq(out, IsMarker)][2] ELSE hdcExec(code, out)
shellChecked(code, out) ==
    IF \E i \in DOMAIN out : IsMarker(out[i]) THEN out[SelectLastInSeq(out, IsMarker)][2] ELSE hdcExec(code, out)

------------------------------------------------------------------------------
\* Outside the process.
Prints == /\ child = Alive /\ remote = Alive /\ Len(output) < MaxOutput
         /\ \E token \in {<<"text">>, <<"rc", 0>>} : output' = Append(output, token)
         /\ UNCHANGED <<host, call, result, timedOut, signal, child, grandchild, remote>>
RemoteEnds == /\ child = Alive /\ remote = Alive
              /\ \E code \in {0, 1} : remote' = code /\ output' = Append(output, <<"rc", code>>)
              /\ UNCHANGED <<host, call, result, timedOut, signal, child, grandchild>>
HdcRefuses == /\ child = Alive /\ remote = NotYet /\ output = <<>> /\ output' = <<<<"fail">>>>
           /\ UNCHANGED <<host, call, result, timedOut, signal, child, grandchild, remote>>
Forks == /\ child = Alive /\ ~grandchild /\ ~signal /\ call = "running" /\ grandchild' = TRUE
         /\ UNCHANGED <<host, call, result, timedOut, signal, child, remote, output>>
GrandchildEnds == /\ grandchild /\ grandchild' = FALSE
                  /\ UNCHANGED <<host, call, result, timedOut, signal, child, remote, output>>
\* hdc ends with the command, after a refusal, or because the connection is lost: with 0 all the same.
ChildEnds == /\ child = Alive /\ \E code \in {0, 1} : child' = code /\ (code = 1 => remote = Alive)
             /\ UNCHANGED <<host, call, result, timedOut, signal, grandchild, remote, output>>

\* Mutant: only the child is killed on Windows, too.
KillLands_ChildOnly ==
    /\ signal /\ signal' = FALSE /\ child' = (IF child = Alive THEN Killed ELSE child)
    /\ UNCHANGED <<host, call, result, timedOut, grandchild, remote, output>>

\* killProcessTree: on Windows the tree of a child that is still alive, elsewhere the child.
KillLands == /\ signal /\ signal' = FALSE /\ child' = (IF child = Alive THEN Killed ELSE child)
             /\ grandchild' = (grandchild /\ ~(host = "windows" /\ child = Alive))
             /\ UNCHANGED <<host, call, result, timedOut, remote, output>>

------------------------------------------------------------------------------
Settle_(how, code) == call' = how /\ result' = code
SpawnCall == /\ call = "new"
             /\ \/ call' = "running" /\ child' = Alive /\ UNCHANGED result
                \/ \E how \in {"cancelled", "failed"} : Settle_(how, NoResult) /\ UNCHANGED child
             /\ UNCHANGED <<host, timedOut, signal, grandchild, remote, output>>
\* An abort settles the promise at once; a timeout leaves that to `close`.
AbortCall == /\ call = "running" /\ Settle_("cancelled", NoResult) /\ signal' = TRUE
             /\ UNCHANGED <<host, timedOut, child, grandchild, remote, output>>
TimesOut == /\ call = "running" /\ ~timedOut /\ timedOut' = TRUE /\ signal' = TRUE
            /\ UNCHANGED <<host, call, result, child, grandchild, remote, output>>
\* `close`: the child has ended and nobody holds its pipes.
Close == /\ call = "running" /\ child \notin {NotYet, Alive} /\ ~grandchild
         /\ IF timedOut THEN Settle_("timeout", NoResult)
            ELSE Settle_("resolved", shellChecked(child, output))
         /\ UNCHANGED <<host, timedOut, signal, child, grandchild, remote, output>>

ExecNext == \/ Prints \/ RemoteEnds \/ HdcRefuses \/ Forks \/ GrandchildEnds \/ ChildEnds \/ KillLands
            \/ SpawnCall \/ AbortCall \/ TimesOut \/ Close
ExecSpec == ExecInit /\ [][ExecNext]_execVars

------------------------------------------------------------------------------
\* A command that failed on the device, or that hdc refused, is not reported as a success, although hdc
\* exits with 0 and whatever the command itself has printed.  (A connection that is lost before the
\* command has ended leaves no marker of its own, and may be.)
FailureIsReported == call = "resolved" /\ (remote = 1 \/ hdcClientFailure(output)) => result # 0

\* Once the kill of a timeout or an abort has landed, the child has ended, and on Windows what it has
\* begun, whose hold on the pipes would keep a timed-out call waiting for `close`.
NothingOutlivesTheCall ==
    (Settled \/ timedOut) /\ ~signal =>
        /\ child # Alive
        /\ child = Killed /\ host = "windows" => ~grandchild

\* So a call that settles has told what became of its command, here and on the device.
CallIsSettled == FailureIsReported /\ NothingOutlivesTheCall
==============================================================================
