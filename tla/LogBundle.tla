------------------------------- MODULE LogBundle -------------------------------
(***************************************************************************)
(* `log bundle` (cli/lib/logBundle.ts): what one device says, in a         *)
(* directory, redacted in a second one, in an archive.  Every hdc call may *)
(* fail, the clock of the device may be set meanwhile, a file may not be   *)
(* redactable, and the disk may be full.                                   *)
(***************************************************************************)
EXTENDS Integers, SequencesExt, FiniteSets

CONSTANTS Logs,      \* the buffers: lines [is: record, more, banner or odd; time: when it was written, told without its year]
          Now,       \* the device's clock when the snapshot starts
          Year,      \* how long a year is
          Duration   \* how far back to look

\* The buffer is younger than a year when the clock is read again.
ASSUME LogsAssumption ==
    /\ Now \in Nat /\ Year \in Nat \ {0} /\ Duration \in Nat
    /\ Logs \subseteq Seq([is : {"record", "more", "banner", "odd"}, time : Nat])
    /\ \A log \in Logs : \A k \in DOMAIN log : log[k].is = "record" => Now + 1 - Year < log[k].time /\ log[k].time <= Now

VARIABLES bundle,    \* [at, redact, log, failed: commands, before, after: the clock read, window: the lines in it or <<>>,
                     \*  why: why it was not applied, odd: output has replacement characters, error, complete]
          disk_      \* [raw, redacted: the files of the directories; zip: what is archived; manifest: what it says of it]
bundleVars == <<bundle, disk_>>

Gone == {"none"}  \* no archive

------------------------------------------------------------------------------
\* parseHilogTimestamp: the year that brings the line closest to the clock, which a line may not be past.
Away(a, b) == IF a > b THEN a - b ELSE b - a
Candidates(t, ref) == {((ref \div Year) + k) * Year + (t % Year) : k \in {-1, 0, 1}}
Closest(t, ref) == CHOOSE c \in Candidates(t, ref) : \A o \in Candidates(t, ref) :
                      Away(c, ref) < Away(o, ref) \/ (Away(c, ref) = Away(o, ref) /\ c <= o)
parseHilogTimestamp(t, ref) == IF Closest(t, ref) <= ref + 2 THEN <<Closest(t, ref)>> ELSE <<>>

\* filterHilogWindow: a line that is no record goes with the record before it; one that cannot be told apart
\* from a record, or a time that cannot be right, refuses the whole log.
KeepLine_Strays(w, l) == IF w.keep \/ l.is = "more" THEN [w EXCEPT !.lines = Append(@, l)] ELSE w
KeepLine(w, l) == IF w.keep THEN [w EXCEPT !.lines = Append(@, l)] ELSE w
Filter(w, l, end) ==
    LET at == parseHilogTimestamp(l.time, end)
    IN  IF w.bad THEN w
        ELSE IF l.is = "record" THEN (IF at = <<>> \/ (at # <<>> /\ at[1] > end) THEN [w EXCEPT !.bad = TRUE]
                                       ELSE KeepLine([w EXCEPT !.saw = TRUE, !.keep = at[1] > end - Duration], l))
        ELSE IF l.is = "banner" THEN w
        ELSE IF l.is = "odd" THEN [w EXCEPT !.bad = TRUE]
        ELSE IF w.saw THEN KeepLine(w, l) ELSE [w EXCEPT !.bad = TRUE]
\* The clock must not have gone back, nor on by more than the capture took and a little: 1 and 2 here.
Filtered(lines, end) ==
    LET w[k \in 0..Len(lines)] ==
            IF k = 0 THEN [saw |-> FALSE, keep |-> FALSE, lines |-> <<>>, bad |-> FALSE] ELSE Filter(w[k - 1], lines[k], end)
    IN  w[Len(lines)]
filterHilogWindow(lines, before, after) ==
    IF after < before \/ after > before + 3 \/ Filtered(lines, after).bad \/ ~Filtered(lines, after).saw THEN <<>>
    ELSE <<Filtered(lines, after).lines>>

------------------------------------------------------------------------------
BundleInit ==
    /\ bundle \in [at : {"targets"}, redact : BOOLEAN, log : Logs, failed : {{}}, before : {Now}, after : {Now}, window : {<<>>},
                    odd : {FALSE}, error : {FALSE}, complete : {FALSE}]
    /\ disk_ = [raw |-> {}, redacted |-> {}, zip |-> Gone, manifest |-> "none"]

In(where) == bundle.at = where
Saved(files) == disk_' = [disk_ EXCEPT !.raw = @ \cup files]
\* run: a command's output is saved, and "" if it threw; its failure is recorded and the next one runs.
Collect(name, next) ==
    /\ In(name) /\ Saved({name})
    /\ \E fails \in BOOLEAN, odd \in {FALSE, name = "hilog"} :
         bundle' = [bundle EXCEPT !.at = next, !.odd = @ \/ odd, !.failed = IF fails THEN @ \cup {name} ELSE @]
\* One connected device must be meant: without it nothing else is collected.
ListTargets == Collect("targets", "which")
selectTarget ==
    /\ In("which") /\ UNCHANGED disk_
    /\ \/ "targets" \notin bundle.failed /\ bundle' = [bundle EXCEPT !.at = "before"]
       \/ bundle' = [bundle EXCEPT !.at = "manifest", !.failed = @ \cup {"targets"}]
timeBefore == Collect("before", "hilog")
hilogSnapshot == Collect("hilog", "after")
\* The device's clock goes on, or is set.
timeAfter ==
    /\ In("after") /\ Saved({"after"})
    /\ \E fails \in BOOLEAN, after \in {Now, Now + 1, Now - 2, Now + 9} :
         bundle' = [bundle EXCEPT !.at = "window", !.after = after, !.failed = IF fails THEN @ \cup {"after"} ELSE @]
applyWindow ==
    /\ In("window") /\ UNCHANGED disk_
    /\ bundle' = [bundle EXCEPT !.at = "faultlog",
                     !.window = IF bundle.failed \cap {"before", "hilog", "after"} # {} THEN <<>>
                                ELSE filterHilogWindow(bundle.log, bundle.before, bundle.after)]
collectFaultlog == Collect("faultlog", "filter")
\* filterHilog writes a part of the window; a format it cannot parse is noted.
writeFiltered ==
    /\ In("filter") /\ bundle' = [bundle EXCEPT !.at = "rest"]
    /\ \/ UNCHANGED disk_
       \/ bundle.window # <<>> /\ Saved({"hilog-filtered"})
collectRest == Collect("rest", "manifest")

\* The manifest says what the archive will be; redactTree leaves nothing behind when a file cannot be redacted.
writeManifest ==
    /\ In("manifest") /\ bundle' = [bundle EXCEPT !.at = IF bundle.redact THEN "redact" ELSE "zip"]
    /\ disk_' = [disk_ EXCEPT !.raw = @ \cup {"manifest"}, !.manifest = "success"]
Shared(f) == IF f = "hilog" THEN (IF bundle.window = <<>> THEN "omitted" ELSE "window") ELSE f
redactTree_All ==
    /\ In("redact")
    /\ \/ /\ bundle' = [bundle EXCEPT !.at = "zip"]
          /\ disk_' = [disk_ EXCEPT !.redacted = @ \cup {IF f = "hilog" /\ bundle.window # <<>> THEN "window" ELSE f : f \in disk_.raw}]
       \/ bundle' = [bundle EXCEPT !.at = "undo"] /\ UNCHANGED disk_
redactTree ==
    /\ In("redact")
    /\ \/ /\ bundle' = [bundle EXCEPT !.at = "zip"]
          /\ disk_' = [disk_ EXCEPT !.redacted = {Shared(f) : f \in disk_.raw}]
       \/ bundle' = [bundle EXCEPT !.at = "undo"] /\ UNCHANGED disk_
\* writeZip reads the files one by one and writes the archive at the end; a full disk may leave a part of it.
writeZip ==
    /\ In("zip")
    /\ \/ /\ bundle' = [bundle EXCEPT !.at = "report"]
          /\ disk_' = [disk_ EXCEPT !.zip = IF bundle.redact THEN disk_.redacted ELSE disk_.raw]
       \/ /\ bundle' = [bundle EXCEPT !.at = "undo"]
          /\ disk_' \in {disk_, [disk_ EXCEPT !.zip = {"part"}]}
\* Mutant: the manifest is not written again.
undo_KeepsManifest ==
    /\ In("undo") /\ bundle' = [bundle EXCEPT !.at = "report", !.error = TRUE]
    /\ disk_' = [disk_ EXCEPT !.zip = Gone, !.redacted = {}]
undo ==
    /\ In("undo") /\ bundle' = [bundle EXCEPT !.at = "report", !.error = TRUE]
    /\ disk_' = [disk_ EXCEPT !.zip = Gone, !.redacted = {}, !.manifest = "failed"]
report_ ==
    /\ In("report") /\ UNCHANGED disk_
    /\ bundle' = [bundle EXCEPT !.at = "done", !.complete = bundle.failed = {} /\ ~bundle.error /\ ~bundle.odd /\ bundle.window # <<>>]

BundleNext == \/ ListTargets \/ selectTarget \/ timeBefore \/ hilogSnapshot \/ timeAfter \/ applyWindow \/ collectFaultlog
              \/ writeFiltered \/ collectRest \/ writeManifest \/ redactTree \/ writeZip \/ undo \/ report_
BundleSpec == BundleInit /\ [][BundleNext]_bundleVars

------------------------------------------------------------------------------
\* The lines the user asked for, by when they were really written: each record of the time asked for, with
\* the lines that go on with it.
RecordOf(log, k) ==
    LET before == {j \in 1..k : log[j].is = "record"} IN IF before = {} THEN 0 ELSE CHOOSE j \in before : \A i \in before : i <= j
Meant(log, end) == {k \in DOMAIN log : /\ log[k].is # "banner" /\ RecordOf(log, k) # 0
                                        /\ log[RecordOf(log, k)].time > end - Duration}

\* What is taken for the time asked for is those lines, in their order, also over the turn of a year, or nothing.
WindowIsTrue ==
    LET meant == Meant(bundle.log, bundle.after)
    IN  bundle.window # <<>> => /\ Len(bundle.window[1]) = Cardinality(meant)
                                /\ \A m \in meant : bundle.window[1][Cardinality({j \in meant : j <= m})] = bundle.log[m]

\* What a redacted archive holds of the log is never more than that.
RedactionHolds ==
    bundle.redact => /\ disk_.zip \cap {"hilog"} = {}
                     /\ disk_.zip \cap {"hilog-filtered", "window"} # {} => bundle.window # <<>>

\* When the command is done, the manifest says of the archive what there is: a whole archive, or none, and then no
\* redacted copy either; and a bundle that calls itself complete has everything, for the time asked for.
BundleIsTrue ==
    bundle.at = "done" =>
        /\ (disk_.manifest = "success") <=> (disk_.zip # Gone)
        /\ disk_.zip # {"part"} /\ (disk_.zip = Gone => disk_.redacted = {})
        /\ bundle.complete => {"targets", "before", "hilog", "after", "faultlog", "rest", "manifest"} \subseteq disk_.raw
                              /\ disk_.zip # Gone /\ bundle.window # <<>> /\ bundle.failed = {}
==============================================================================
