-------------------------------- MODULE MCFlow --------------------------------
(***************************************************************************)
(* Somebody acts on a small app while `record` runs, and `replay` runs the *)
(* flow it wrote.  The app has a form with a text field and a button, a    *)
(* list of two rows that look the same, and a page for each row.           *)
(***************************************************************************)
EXTENDS FlowReplay, FlowRecord

CONSTANT AnyTyping       \* the user also corrects what is typed, and adds to it with a hardware keyboard

NodeOf(type, b) == [type |-> type, text |-> None, desc |-> None, id |-> None, key |-> None, bundle |-> None,
                    win |-> 0, click |-> TRUE, focus |-> FALSE, hidden |-> FALSE, fill |-> FALSE, z |-> 0,
                    b |-> b, kids |-> <<>>]
Window(bundle, win, b, kids) == [NodeOf("Window", b) EXCEPT !.bundle = bundle, !.win = win, !.click = FALSE,
                                                            !.fill = TRUE, !.kids = kids]
Screen(windows) == [NodeOf("root", <<0, 0, 6, 4>>) EXCEPT !.click = FALSE, !.kids = windows]

Contents == {<<>>, <<"a">>, <<"a", "a">>}
TextOf(typed) == CASE typed = <<>> -> None [] typed = <<"a">> -> "a" [] OTHER -> "aa"
MCCharsOf == [t \in {"a", "aa"} |-> CHOOSE s \in Contents : TextOf(s) = t]

MCDevices == [page : {"form"}, typed : Contents, kb : BOOLEAN]
                 \union [page : {"list", "first", "second"}, typed : Contents, kb : {FALSE}]
MCHome == [page |-> "form", typed |-> <<>>, kb |-> FALSE]

FieldBox == <<0, 0, 2, 2>>
LabelBox == <<4, 0, 6, 2>>          \* a text that takes no touch
NextBox(d) == IF d.kb THEN <<2, 0, 4, 2>> ELSE <<2, 2, 4, 4>>    \* it makes room for the keyboard
KeyBox   == <<0, 2, 2, 4>>
DelBox   == <<2, 2, 4, 4>>
Row1     == <<0, 0, 4, 2>>
Row2     == <<0, 2, 4, 4>>

Page(d) ==
    CASE d.page = "form" -> <<[NodeOf("TextInput", FieldBox) EXCEPT !.id = "name", !.text = TextOf(d.typed), !.focus = d.kb],
                              [NodeOf("Button", NextBox(d)) EXCEPT !.text = "Next"],
                              [NodeOf("Text", LabelBox) EXCEPT !.text = "Name", !.click = FALSE]>>
      [] d.page = "list" -> <<[NodeOf("Row", Row1) EXCEPT !.text = "Row"], [NodeOf("Row", Row2) EXCEPT !.text = "Row"]>>
      [] OTHER           -> <<[NodeOf("Text", <<0, 0, 4, 4>>) EXCEPT !.id = d.page, !.click = FALSE]>>
Keyboard == Window("ime", 2, <<0, 2, 6, 4>>,
                   <<[NodeOf("Key", KeyBox) EXCEPT !.text = "a"], [NodeOf("Key", DelBox) EXCEPT !.text = "Delete"]>>)
Raw(d) == Screen(<<Window("app", 1, <<0, 0, 6, 4>>, Page(d))>> \o (IF d.kb THEN <<Keyboard>> ELSE <<>>))
MCLockScreen == [page |-> "lock", typed |-> <<>>, kb |-> FALSE]
LockRaw == Screen(<<Window("SCBScreenLock", 3, <<0, 0, 4, 4>>,
                           <<[NodeOf("Stack", <<0, 0, 4, 4>>) EXCEPT !.id = "ScreenLockRootComponent"]>>)>>)
MCShot == [d \in MCDevices \union {MCLockScreen} |-> dumpLayout(IF d = MCLockScreen THEN LockRaw ELSE Raw(d), TRUE, 0, "ime")]

\* ------------------------------------------------------- what inputs do
Typing(d, chars, clear) ==
    LET all == IF clear THEN chars ELSE d.typed \o chars
    IN  [d EXCEPT !.typed = SubSeq(all, 1, Min({2, Len(all)}))]
Tapped(d, p) ==
    IF d.page = "form" /\ d.kb /\ BoxContains(KeyBox, p) THEN Typing(d, <<"a">>, FALSE)
    ELSE IF d.page = "form" /\ d.kb /\ BoxContains(DelBox, p) THEN [d EXCEPT !.typed = IF @ = <<>> THEN @ ELSE Front(@)]
    ELSE IF d.page = "form" /\ BoxContains(NextBox(d), p) THEN [d EXCEPT !.page = "list", !.kb = FALSE]
    ELSE IF d.page = "form" /\ BoxContains(FieldBox, p) THEN [d EXCEPT !.kb = TRUE]
    ELSE IF d.page = "list" /\ BoxContains(Row1, p) THEN [d EXCEPT !.page = "first"]
    ELSE IF d.page = "list" /\ BoxContains(Row2, p) THEN [d EXCEPT !.page = "second"]
    ELSE d
Back(d) == IF d.kb THEN [d EXCEPT !.kb = FALSE]
           ELSE IF d.page = "list" THEN [d EXCEPT !.page = "form"]
           ELSE IF d.page \in {"first", "second"} THEN [d EXCEPT !.page = "list"]
           ELSE d
MCAfter(d, i) ==
    IF i.kind = "keyEvent" /\ i.key = <<"back">> THEN Back(d)
    ELSE IF i.kind = "keyEvent" /\ i.key = <<"a">> THEN (IF d.kb THEN Typing(d, i.key, FALSE) ELSE d)
    ELSE IF i.kind = "keyEvent" THEN d
    ELSE IF i.kind = "inputText" /\ i.at = <<>> THEN (IF d.kb THEN Typing(d, i.text, i.clear) ELSE d)
    ELSE IF i.kind = "inputText" THEN (IF Tapped(d, i.at).kb THEN Typing(Tapped(d, i.at), i.text, i.clear) ELSE d)
    ELSE IF i.kind = "click" THEN Tapped(d, i.at)
    ELSE d

\* ---------------------------------------------------- what the user does
Click(b) == [kind |-> "click", at |-> Center(b)]
KeyPress(key) == [kind |-> "keyEvent", key |-> <<key>>]
MCGestures(d) ==
    {KeyPress("back")} \union
    (CASE d.page = "form" -> {Click(FieldBox), Click(NextBox(d)), Click(LabelBox)}
                                \union (IF d.kb /\ Len(d.typed) < 2 THEN {Click(KeyBox), KeyPress("Enter")} ELSE {})
                                \union (IF d.kb /\ (d.typed = <<>> \/ AnyTyping) THEN {KeyPress("a")} ELSE {})
                                \union (IF d.kb /\ AnyTyping THEN {Click(DelBox)} ELSE {})
       [] d.page = "list" -> {Click(Row1), Click(Row2)}
       [] OTHER           -> {})

NoWidget == [type |-> None, id |-> None, text |-> None]
WidgetOf(hit) == IF hit = {} THEN NoWidget ELSE Only({[type |-> n.type, id |-> n.id, text |-> n.text] : n \in hit})
Widget(d, p) == Only({WidgetOf(hit) : hit \in {elementAt(Shot[d].tree, p)}})
\* The widget of a touch is found late, on the screen that the touch has led to.
MCEventOf(d, i, k) ==
    IF i.kind = "click" THEN <<[op |-> "click", bundle |-> "app", fingers |-> 1, at |-> i.at, to |-> <<>>,
                                widget |-> Widget(After(d, i), i.at), file |-> k]>>
    ELSE IF i.key = <<"back">> THEN <<[op |-> "back", bundle |-> "app", fingers |-> 1, at |-> <<>>, to |-> <<>>,
                                  widget |-> NoWidget, file |-> k]>>
    ELSE <<[op |-> "key", codes |-> i.key, file |-> 0], [op |-> "key", codes |-> i.key, file |-> k]>>

\* -------------------------------------------------------- the composition
Histories[n \in 0 .. MaxGestures] ==
    IF n = 0 THEN {<<>>}
    ELSE Histories[n - 1] \union
         UNION {LET d == IF h = <<>> THEN Home ELSE Last(h).after
                IN  {Append(h, [before |-> d, input |-> i, after |-> After(d, i)]) : i \in Gestures(d)}
                : h \in Histories[n - 1]}

\* The flows that each history may be written down as.
CONSTANT Written
MCWritten == [h \in Histories[MaxGestures] |-> flowFromRecording({Recording(h, timed) : timed \in BOOLEAN})]

NoFlow == [bundle |-> None, steps |-> <<>>, all |-> <<>>]
vars == <<device, record, replay>>

Init == /\ DeviceInit /\ RecordInit
        /\ \E opts \in [wake : {TRUE}, launch : {TRUE}, fallback : BOOLEAN] : ReplayInit(NoFlow, opts)

\* The flow is written, and run by another command, on the screen as it is by then.  uitest dumps no
\* screen while a recorder runs: a replay waits for one that was left behind to end.
RunFlow == /\ pc = "idle" /\ rpc = "done" /\ ends = "ok" /\ recorder = "none"
           /\ \E f \in Written[taken] : \E steps \in {dropFocusTaps(f.steps)} :
                  /\ parseFlow(steps)
                  /\ flow' = [bundle |-> f.bundle, steps |-> steps, all |-> f.steps]
                  /\ pc' = IF steps = <<>> THEN "done" ELSE "wake"
           /\ UNCHANGED <<device, record, options, index, seen, cur, target, fellBack, sinceAct, inStep, waited,
                          aborted, restore, report, done, inputs>>

Next == \/ RecordNext /\ UNCHANGED replay
        \/ ReplayNext /\ UNCHANGED record
        \/ RunFlow
        \/ pc = "done" /\ UNCHANGED vars
        \/ rpc = "done" /\ ends = "error" /\ UNCHANGED vars

Spec == Init /\ [][Next]_vars /\ WF_vars(RecordStep /\ UNCHANGED replay) /\ WF_vars(ReplayStep /\ UNCHANGED record)
             /\ WF_vars(RunFlow) /\ WF_vars(RecorderReady /\ UNCHANGED replay)
-----------------------------------------------------------------------------
Flawless == failed = {} /\ lock = "none" /\ ~aborted

\* Every event that was recorded is part of one step, or left out for the typing that taps its field;
\* the steps are in the order of the events.
EventsBecomeSteps ==
    (rpc = "done" /\ ends = "ok" /\ pc = "wake") =>
        LET Of == [k \in DOMAIN Steps |-> Steps[k].of]
            Lines(t) == IF t.input.kind = "keyEvent" /\ t.input.key # <<"back">> THEN 2 ELSE 1
        IN  /\ 1 .. FoldLeft(LAMBDA n, t : n + Lines(t), 0, taken) = UNION {s.of : s \in ToSet(flow.all)}
            /\ \A s \in ToSet(flow.all) \ ToSet(Steps) : s.action = "click"
            /\ \A j, k \in DOMAIN Of : j < k => \A x \in Of[j], y \in Of[k] : x < y

\* What was recorded, and did not go wrong, is what a replay does: on the app that was recorded it
\* runs every step and leaves the app where the recording left it (a keyboard in the way is dismissed).
RecordedFlowReplays ==
    /\ EventsBecomeSteps
    /\ (pc = "done" /\ Steps # <<>> /\ Flawless) =>
          /\ report.outcome = "passed"
          /\ [dev EXCEPT !.kb = FALSE] = [taken[Len(taken)].after EXCEPT !.kb = FALSE]

\* An input sent to an element lands where that element is when it lands: not where an earlier
\* screen, or one still moving, showed it.
TapsWhatItNames ==
    inputs # <<>> =>
        LET i == inputs[Len(inputs)]
            s == Steps[i.step]
            r == pickTarget(Selectable(i.on), Sel(s.selector), <<>>)
        IN  (i.kind \notin {"keyEvent", "hideKeyboard"} /\ Has(s.selector) /\ ~i.fell /\ lock = "none")
                => r.found /\ Center(r.node.b) = i.at

\* Back is pressed to reach an element only while the keyboard is up: otherwise it leaves the page.
BackOnlyWithKeyboard ==
    \A k \in DOMAIN inputs : inputs[k].kind = "hideKeyboard" => Shot[inputs[k].on].keyboard # None

\* So every input a replay sends does what its step names, and nothing else.
InputsMeanTheirSteps == TapsWhatItNames /\ BackOnlyWithKeyboard

\* Inputs are sent in the order of the steps, and once.
InOrder ==
    \A j, k \in DOMAIN inputs :
        (j < k /\ "hideKeyboard" \notin {inputs[j].kind, inputs[k].kind}) => inputs[j].step < inputs[k].step

\* So a replay that passes has sent the input of every step that does not only wait, each as its step says.
PassedMeansDone ==
    /\ InOrder
    /\ report.outcome = "passed" =>
          LET sent == {k \in DOMAIN inputs : inputs[k].kind # "hideKeyboard"}
          IN  /\ {inputs[k].step : k \in sent} = {k \in DOMAIN Steps : Steps[k].action # "wait"}
              /\ \A k \in sent : inputs[k].kind = Steps[inputs[k].step].action
              /\ done = DOMAIN Steps

\* Whatever fails while it records, the touch log ends with the command, and so does the recorder and so
\* is the screen timeout given back, with these exceptions: the start of the recorder, or a clean-up of
\* `finally`, gave no answer; a look at whether the recorder runs, or its SIGKILL, was refused (which the
\* command takes for a recorder that has gone); the hold gave no answer; the restoring call failed.  And the events are pulled from a recorder that has ended, unless one of those
\* refusals says that it has.
NothingLeftRunning ==
    /\ rpc = "done" => ~touchLog
    /\ (rpc = "done" /\ recorder # "none") =>
          \/ CallFailed({"start", "finally", "finally lingers", "finally kill"}, "throws")
          \/ CallFailed({"alive", "poll", "lingers", "kill", "finally lingers", "finally kill"}, "refused")
    /\ (rpc = "pull" /\ recorder # "none") => CallFailed({"poll", "lingers", "kill"}, "refused")
    /\ (rpc = "done" /\ pc \in {"idle", "done"} /\ held) => CallFailed({"hold", "restore"}, "throws")

=============================================================================
