------------------------------- MODULE HapBuild -------------------------------
(***************************************************************************)
(* `build` (build/buildHap.ts, runHvigorw.ts, ohpm.ts, diagnostics.ts): the *)
(* SDK is looked for, missing dependencies are installed, hvigor runs, and *)
(* its output is read for diagnostics.  hvigor prints problems in blocks of *)
(* lines, some of them twice.  It is more than one process: hvigorw, and   *)
(* what that starts, which has its pipes; a cancelled build is killed at   *)
(* any line, without waiting for the kill to arrive.                       *)
(***************************************************************************)
EXTENDS Integers, SequencesExt, TLC

CONSTANTS Problems,   \* blocks hvigor prints: [kind, sev, code, text, file, symbol]
          MaxBlocks,  \* bound: blocks of one build
          KeptLines,  \* DIAGNOSIS_OUTPUT_LIMIT, in lines
          Declares,   \* installed SDKs: API level -> the symbols it declares
          Platforms   \* process.platform: "win32", or "posix" for any other

None == "none"
NoCode == 0
NATIVE_WRAPPER_CODE == 308018
VARIABLES hap,     \* [at, platform, os, sdk, api, deps, signing, haps, aborted]
          hvigor,  \* [runs: its processes, of "hvigorw" and "child", kill: "none", "sent" or "arrived",
                   \*  closed: the build has seen them all leave its pipes]
          blocks,  \* what it has printed, as far as the build listens
          report   \* <<>>, then the report of the build
buildVars == <<hap, hvigor, blocks, report>>
------------------------------------------------------------------------------
\* The lines of a block.
L(is, p) == [is |-> is, p |-> p]
BlankLine == L("blank", None)
Render(p) ==
    CASE p.kind = "coded"   -> <<L("coded", p), L("atFile", p), BlankLine>>
      [] p.kind = "lines"   -> <<L("coded", p), L("text", p), L("text", p), BlankLine>>
      [] p.kind = "located" -> <<L("located", p), L("text", p), BlankLine>>
      [] p.kind = "hvigor"  -> <<L("hvigor", p), L("message", p)>>
      [] p.kind = "lld"     -> <<L("lld", p), L("referenced", p)>>
      [] p.kind = "ohpm"    -> <<L("ohpmStart", p), L("ohpm", p), L("message", p)>>
      [] OTHER              -> <<L(p.kind, p)>>
Source(p) == CASE p.kind \in {"coded", "lines", "located"} -> "arkts" [] p.kind \in {"lld", "clang"} -> "native"
               [] OTHER -> p.kind
IsProblem(p) == p.kind \notin {"failed", "result"}
\* What there is to tell of a block, its task apart.
Told(p) == [severity |-> p.sev, source |-> Source(p), code |-> p.code, file |-> p.file,
            message |-> IF p.kind = "lines" THEN <<p.text, p.text>> ELSE <<p.text>>]
Tell(p, message, file) == [Told(p) EXCEPT !.message = message, !.file = file]

Read0 == [diags |-> <<>>, failed |-> None, task |-> None, errors |-> 0, ohpm |-> FALSE, end |-> 0]
Key(d) == [d.diag EXCEPT !.severity = None]
\* Mutant: the task and the severity count too, so a repeated block is told again.
push_All(r, d) == [r EXCEPT !.diags = Append(@, [diag |-> d, task |-> r.task])]
push(r, d) ==
    LET e == [diag |-> d, task |-> IF d.source = "ohpm" THEN None ELSE r.task] IN
    IF \E k \in DOMAIN r.diags : Key(r.diags[k]) = Key(e) THEN r ELSE [r EXCEPT !.diags = Append(@, e)]

Ends(l) == l.is \in {"blank", "try", "coded", "located", "result"}
\* messageAfter: the last line of the message of the block at i.
messageEnd(lines, i) ==
    CHOOSE e \in i..Len(lines) : /\ \A k \in (i + 1)..e : ~Ends(lines[k])
                                 /\ e = Len(lines) \/ Ends(lines[e + 1])
Message(lines, from, to) == [k \in 1..(to - from) |-> lines[from + k].p.text]
\* ERROR_MESSAGE_RE, on the five lines after an ohpm error: not all of them need be its own.
ohpmMessage(lines, i) ==
    LET after == SubSeq(lines, i + 1, IF i + 5 < Len(lines) THEN i + 5 ELSE Len(lines))
        told  == SelectSeq(after, LAMBDA l : l.is \in {"message", "atFile"})
    IN  Message(told, 0, Len(told))
Next_(lines, i) == IF i < Len(lines) THEN lines[i + 1] ELSE BlankLine
MaxOf(a, b) == IF a > b THEN a ELSE b

ReadArkTs(r, lines, i) ==
    LET p == lines[i].p  e == messageEnd(lines, i) IN
    IF lines[i].is = "coded" /\ Next_(lines, i).is = "atFile"
    THEN [push(r, Tell(p, <<lines[i + 1].p.text>>, lines[i + 1].p.file)) EXCEPT !.end = i + 1]
    ELSE [push(r, Tell(p, Message(lines, i, e), IF lines[i].is = "located" THEN p.file ELSE None)) EXCEPT !.end = e]
ReadLine_(r, lines, i) ==
    LET l == lines[i]  next == Next_(lines, i) IN
    CASE i <= r.end -> r
      [] i > r.end /\ l.is = "failed"    -> [r EXCEPT !.failed = IF @ = None THEN l.p.text ELSE @, !.task = l.p.text]
      [] i > r.end /\ l.is = "result"    -> [r EXCEPT !.errors = MaxOf(@, l.p.code)]
      [] i > r.end /\ l.is \in {"coded", "located"} -> ReadArkTs(r, lines, i)
      [] i > r.end /\ l.is = "ohpmStart" -> [r EXCEPT !.ohpm = TRUE]
      [] i > r.end /\ l.is = "ohpm" /\ r.ohpm -> [push(r, Tell(l.p, ohpmMessage(lines, i), None)) EXCEPT !.ohpm = FALSE]
      \* HVIGOR_CODED_RE also takes the line of an ohpm error whose `ohpm ERROR:` it has not seen.
      [] i > r.end /\ l.is \in {"hvigor", "ohpm"} ->
           push(r, [Tell(l.p, IF next.is = "blank" THEN <<>> ELSE <<next.p.text>>,
                         IF next.is = "message" THEN next.p.file ELSE None) EXCEPT !.source = "hvigor"])
      [] i > r.end /\ l.is = "lld"       -> push(r, Tell(l.p, <<l.p.text>>, IF next.is = "referenced" THEN next.p.file ELSE None))
      [] i > r.end /\ l.is = "clang"     -> push(r, Tell(l.p, <<l.p.text>>, l.p.file))
      [] OTHER -> r
Diags(r) == [k \in DOMAIN r.diags |-> r.diags[k].diag]
\* hvigor's own unknown error around a failed native build is left out once a native error is known.
parseBuildOutput(lines) ==
    LET r == FoldLeft(LAMBDA s, i : ReadLine_(s, lines, i), Read0, [i \in 1..Len(lines) |-> i])
        native == \E d \in ToSet(Diags(r)) : d.source = "native" /\ d.severity = "error"
    IN [failed |-> r.failed, errors |-> r.errors, tasks |-> {d.task : d \in ToSet(r.diags)},
        diags |-> SelectSeq(Diags(r), LAMBDA d : ~(native /\ d.source = "hvigor" /\ d.code = NATIVE_WRAPPER_CODE))]

Kept(lines) == SubSeq(lines, MaxOf(1, Len(lines) - KeptLines + 1), Len(lines))
Output(bs) == Kept(FlattenSeq([k \in DOMAIN bs |-> Render(bs[k])]))

------------------------------------------------------------------------------
\* Hints that name a cause the compiler does not.
Symbols(ds) == {p.symbol : p \in {q \in Problems : q.symbol # None /\ Told(q) \in ToSet(ds)}}
Newer(ds) == {api \in DOMAIN Declares : api > hap.api /\ Symbols(ds) \subseteq Declares[api]}
sdkTooOldDiagnostic(ds) ==
    IF hap.os = "HarmonyOS" \/ Symbols(ds) = {} \/ Newer(ds) = {} THEN <<>>
    ELSE <<[severity |-> "error", source |-> "sdk", file |-> None, message |-> <<>>,
            code |-> CHOOSE a \in Newer(ds) : \A b \in Newer(ds) : a <= b]>>
dependencyApiDiagnostic(ds) ==
    IF \E d \in ToSet(ds) : d.severity = "error" /\ d.source = "arkts" /\ d.file = "oh_modules"
    THEN <<[severity |-> "warning", source |-> "sdk", code |-> NoCode, file |-> "oh_modules", message |-> <<>>]>> ELSE <<>>
signingMismatch == hap.haps = "signed" /\ hap.signing # None /\ hap.signing # hap.os
SigningDiagnostic ==
    IF signingMismatch THEN <<[severity |-> "warning", source |-> "signing", code |-> NoCode,
                               file |-> "build-profile.json5", message |-> <<>>]>> ELSE <<>>

------------------------------------------------------------------------------
Systems == {"OpenHarmony", "HarmonyOS"}
BuildInit ==
    /\ hap \in [at : {"sdk"}, platform : Platforms, os : Systems, sdk : BOOLEAN, api : {CHOOSE a \in DOMAIN Declares : \A b \in DOMAIN Declares : a <= b},
                deps : BOOLEAN, signing : {None} \cup Systems, haps : {None, "unsigned", "signed"}, aborted : {FALSE}]
    /\ hvigor = [runs |-> {}, kill |-> "none", closed |-> FALSE] /\ blocks = <<>> /\ report = <<>>

BuildAt(where) == hap.at = where
Go(next) == hap' = [hap EXCEPT !.at = next]
Throws_ == Go("thrown") /\ UNCHANGED <<hvigor, blocks, report>>
Answer(ok, ds, failed) == report' = <<[ok |-> ok, diags |-> ds, failed |-> failed,
                                       errors |-> Len(SelectSeq(ds, LAMBDA d : d.severity = "error"))]>>

\* A project that compiles against an SDK which is not installed ends here.
findMissingProjectSdk ==
    /\ BuildAt("sdk") /\ UNCHANGED <<hvigor, blocks>>
    /\ IF hap.os = "OpenHarmony" /\ ~hap.sdk
       THEN Go("done") /\ Answer(FALSE, <<[severity |-> "error", source |-> "sdk", code |-> hap.api, file |-> None,
                                           message |-> <<>>]>>, None)
       ELSE Go("deps") /\ UNCHANGED report
\* oh_modules is installed when it is missing.  A failed install is told by its own output, or else as a whole.
ensureOhModules ==
    /\ BuildAt("deps")
    /\ \/ hap.deps /\ Go("spawn") /\ UNCHANGED <<hvigor, blocks, report>>
       \/ ~hap.deps /\ ~hap.aborted /\ hap' = [hap EXCEPT !.at = "spawn", !.deps = TRUE] /\ UNCHANGED <<hvigor, blocks, report>>
       \/ ~hap.deps /\ hap.aborted /\ Throws_
       \/ /\ ~hap.deps /\ ~hap.aborted /\ \E bs \in {<<>>} \cup {<<p>> : p \in {q \in Problems : q.kind = "ohpm"}} :
               LET ds == parseBuildOutput(Output(bs)).diags
               IN Answer(FALSE, IF ds # <<>> THEN ds ELSE <<[severity |-> "error", source |-> "ohpm", code |-> NoCode,
                                                              file |-> None, message |-> <<>>]>>, "ohpm")
          /\ Go("done") /\ UNCHANGED <<hvigor, blocks>>

\* A build that was cancelled before, or that cannot start, throws.
runHvigorw ==
    /\ BuildAt("spawn")
    /\ \/ Throws_
       \/ ~hap.aborted /\ Go("hvigor") /\ hvigor' = [hvigor EXCEPT !.runs = {"hvigorw"}] /\ UNCHANGED <<blocks, report>>

\* hvigor: hvigorw starts what does the work; they end by themselves, in any order; either prints a block.
HvigorStarts == /\ "hvigorw" \in hvigor.runs /\ "child" \notin hvigor.runs
                /\ hvigor' = [hvigor EXCEPT !.runs = @ \cup {"child"}]
                /\ UNCHANGED <<hap, blocks, report>>
HvigorExits == /\ \E p \in hvigor.runs : hvigor' = [hvigor EXCEPT !.runs = @ \ {p}]
               /\ UNCHANGED <<hap, blocks, report>>
HvigorPrints ==
    /\ hvigor.runs # {} /\ BuildAt("hvigor") /\ Len(blocks) < MaxBlocks
    /\ \E p \in Problems : blocks' = Append(blocks, p)
    /\ UNCHANGED <<hap, hvigor, report>>

\* A cancelled build sends its kill and throws at once.
onAbort == /\ ~hap.aborted /\ hap.at \notin {"done", "thrown"}
           /\ hap' = [hap EXCEPT !.aborted = TRUE, !.at = IF @ = "hvigor" THEN "thrown" ELSE @]
           /\ hvigor' = IF BuildAt("hvigor") THEN [hvigor EXCEPT !.kill = "sent"] ELSE hvigor
           /\ UNCHANGED <<blocks, report>>
\* killProcessTree: taskkill ends the tree of a process that still runs.  A signal, on the other platforms
\* and where there is no taskkill, only reaches the process itself.
killProcessTree ==
    /\ hvigor.kill = "sent" /\ UNCHANGED <<hap, blocks, report>>
    /\ \/ /\ hap.platform = "win32" /\ "hvigorw" \in hvigor.runs
          /\ hvigor' = [hvigor EXCEPT !.kill = "arrived", !.runs = {}]
       \/ hvigor' = [hvigor EXCEPT !.kill = "arrived", !.runs = @ \ {"hvigorw"}]

FailedReport(r) ==
    LET tooOld == sdkTooOldDiagnostic(r.diags)
    IN Answer(FALSE, r.diags \o tooOld \o dependencyApiDiagnostic(r.diags \o tooOld), r.failed)
onClose ==
    /\ BuildAt("hvigor") /\ hvigor.runs = {} /\ Go("done") /\ hvigor' = [hvigor EXCEPT !.closed = TRUE]
    /\ UNCHANGED blocks
    /\ \E r \in {parseBuildOutput(Output(blocks))} :
         \/ Answer(TRUE, r.diags \o SigningDiagnostic, None)
         \/ FailedReport(r)

BuildNext == findMissingProjectSdk \/ ensureOhModules \/ runHvigorw \/ HvigorStarts \/ HvigorExits \/ HvigorPrints
             \/ onAbort \/ killProcessTree \/ onClose
BuildSpec == BuildInit /\ [][BuildNext]_buildVars

------------------------------------------------------------------------------
FromOutput == SelectSeq(report[1].diags, LAMBDA d : d.source \notin {"sdk", "signing"})
Printed == {p \in ToSet(blocks) : IsProblem(p)}
Whole == Len(FlattenSeq([k \in DOMAIN blocks |-> Render(blocks[k])])) <= KeptLines
Wraps(d) == d.source = "hvigor" /\ d.code = NATIVE_WRAPPER_CODE

\* The two ways in which an ohpm error is told as something else: its first line was cut off, and it is
\* told as hvigor's; or its message runs on with messages that were printed right after it.
Misread(d, p) == /\ p.kind = "ohpm" /\ ~Whole /\ d = [Told(p) EXCEPT !.source = "hvigor"]
RunsOn(d, p)  == /\ p.kind = "ohpm" /\ d = [Told(p) EXCEPT !.message = @ \o Tail(d.message)]
                 /\ ToSet(Tail(d.message)) \subseteq {q.text : q \in {q \in Printed : q.kind \in {"coded", "hvigor", "ohpm"}}}

\* A build's report names the problems that hvigor printed, each once however often it was printed and
\* whatever was printed next to it, and invents none when the start of a long output is gone.  Only the
\* wrapper around a native error may be left out, and only beside that error; and an ohpm error is
\* hvigor's when its first line is gone, or runs on with the messages after it.
ProblemsAreTold ==
    report # <<>> /\ hvigor.closed =>
        /\ \A d \in ToSet(FromOutput) : \E p \in Printed : d = Told(p) \/ Misread(d, p) \/ RunsOn(d, p)
        /\ IsInjective(FromOutput)
        /\ Whole => \A p \in Printed :
                      \/ \E d \in ToSet(FromOutput) : d = Told(p) \/ RunsOn(d, p)
                      \/ Wraps(Told(p)) /\ \E e \in ToSet(FromOutput) : e.source = "native" /\ e.severity = "error"
==============================================================================
