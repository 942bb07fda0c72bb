---------------------------- MODULE FlowRecording ----------------------------
(***************************************************************************)
(* What `record` makes of a recording (flow/recording.ts): the touches and *)
(* keystrokes `uitest uiRecord` wrote, placed on the screens dumped while  *)
(* recording, become the steps of a flow.                                  *)
(*                                                                         *)
(* A selector is [clauses, index], as Selector!selectorFor gives it; a     *)
(* point is <<x, y>> in half units, <<>> when absent.  An event is         *)
(*   [op |-> "key", codes, file]  or                                       *)
(*   [op, bundle, fingers, at, to, widget, file]                           *)
(* where `file` numbers the layout dumped when the event was written (0    *)
(* for none).   A step's `of` is the set of events it stands for: it is a   *)
(* history of the model and no field of a flow.                            *)
(***************************************************************************)
EXTENDS ElementTarget

\* ------------------------------------------------------------ keystrokes
Shift == {"Shift"}
Chord == {"Ctrl"}
Backspace == "Delete"
Letters == "a" :> "A" @@ "b" :> "B"

\* The character typed with these keys held: a sequence of none or one.
keystrokeChar(codes) ==
    LET keys == SelectSeq(codes, LAMBDA c : c \notin Shift)
        shifted == Len(keys) # Len(codes)
    IN  IF ToSet(codes) \intersect Chord # {} \/ Len(keys) # 1 \/ keys[1] \notin DOMAIN Letters THEN <<>>
        ELSE IF shifted THEN <<Letters[keys[1]]>> ELSE keys

\* ------------------------------------------------- elements under a touch
Nodes(tree) == LET flat == flattenLayout(tree) IN {<<i, flat[i]>> : i \in DOMAIN flat}
LastOf(found) == LET top == {n \in found : \A m \in found : m[1] <= n[1]}
                 IN  {n[2] : n \in top}            \* none or one
FirstOf(found) == LET top == {n \in found : \A m \in found : n[1] <= m[1]}
                  IN  {n[2] : n \in top}

keyboardWindowIds(trees, ime) ==
    UNION {LET kb == findKeyboardWindow(t, ime)
           IN  IF kb = <<>> THEN {}
               ELSE ({kb[1].windowId} \ {0})
                        \union {w.windowId : w \in {v \in ToSet(listLayoutWindows(t)) : v.bundle = kb[1].bundle}}
           : t \in trees}

Identifies(n) == n.text # None \/ n.desc # None \/ n.id # None \/ n.key # None \/ n.click \/ n.type # None

elementAt(tree, p) ==
    LastOf({n \in Nodes(tree) : /\ n[2].type # "root" /\ n[2].bundle = None
                                /\ ~n[2].covered /\ ~n[2].hidden
                                /\ BoxContains(n[2].b, p) /\ Identifies(n[2])})

WIDGET_FIELDS == {"type", "id", "text"}
touchedElement(tree, p, widget) ==
    LET given == {f \in WIDGET_FIELDS : widget[f] # None}
        same  == {n \in Nodes(tree) : /\ ~n[2].covered /\ BoxContains(n[2].b, p)
                                      /\ \A f \in given : n[2][f] = widget[f]}
    IN  IF given # {} /\ same # {} THEN LastOf(same) ELSE elementAt(tree, p)

Editable == {"TextInput"}
focusedField(tree, kbIds) ==
    LastOf({n \in Nodes(tree) : n[2].focus /\ n[2].windowId \notin kbIds /\ n[2].type \in Editable})

\* ------------------------------------------------ selectors of text fields
Eq(key, value) == [key |-> key, op |-> "=", value |-> value]
TypeClause(n)  == IF n.type # None THEN <<Eq("type", n.type)>> ELSE <<>>
FieldValue(n, key) == IF key = "key" THEN n.key ELSE selectorAttribute(n, key)
FIELD_KEYS == <<"id", "key", "desc">>

\* A selector that typing into the field does not change; NoSelector when there is none.
fieldSelector(tree, field) ==
    LET keys   == SelectSeq(FIELD_KEYS, LAMBDA k : FieldValue(field, k) # None)
        stable == [k \in DOMAIN keys |-> Eq(keys[k], FieldValue(field, keys[k]))]
        exact  == {k \in DOMAIN stable : Len(matchSelector(tree, TypeClause(field) \o <<stable[k]>>)) = 1}
        all    == TypeClause(field) \o stable
        found  == matchSelector(tree, all)
        mine   == {k \in DOMAIN found : found[k].b = field.b}
    IN  CASE exact # {} -> [clauses |-> TypeClause(field) \o <<stable[Min(exact)]>>, index |-> <<>>]
          [] exact = {} /\ (all = <<>> \/ mine = {}) -> NoSelector
          [] OTHER -> [clauses |-> all, index |-> IF Len(found) > 1 THEN <<Min(mine) - 1>> ELSE <<>>]

SAME_FIELDS == {"type", "id", "key", "desc"}
sameField(tree, field) ==
    LET same == {n \in Nodes(tree) : \A f \in SAME_FIELDS : n[2][f] = field[f]}
        c    == Center(field.b)
    IN  FirstOf(IF c = <<>> \/ Cardinality(same) <= 1 THEN same
                ELSE {n \in same : \A m \in same : ~Nearer(m[2], n[2], c)})

\* What shows that a step took effect: an element of the app that is new on the screen after it.
ExpectPasses == <<<<"id", "key">>, <<"text", "desc">>>>
expectFor(before, after, bundle, kbIds) ==
    LET flat == flattenLayout(after)
        nodes == {i \in DOMAIN flat : /\ flat[i].b # NoBox /\ ~flat[i].covered /\ ~flat[i].hidden
                                      /\ bundle # None => flat[i].window = bundle
                                      /\ flat[i].windowId \notin kbIds}
        Clauses(i, key) == TypeClause(flat[i]) \o <<Eq(key, selectorAttribute(flat[i], key))>>
        New == {c \in {<<p, i, k>> : p \in 1 .. 2, i \in nodes, k \in 1 .. 2} :
                  LET key == ExpectPasses[c[1]][c[3]]
                      n   == flat[c[2]]
                  IN  /\ key = "key" => n.key # None
                      /\ selectorAttribute(n, key) # None
                      /\ Len(SelectSeq(matchSelector(after, Clauses(c[2], key)), LAMBDA m : ~m.covered)) = 1
                      /\ matchSelector(before, Clauses(c[2], key)) = <<>>}
        Sooner(c, d) == \/ c[1] < d[1]
                        \/ c[1] = d[1] /\ (c[2] < d[2] \/ (c[2] = d[2] /\ c[3] < d[3]))
    IN  IF before = after \/ New = {} THEN NoSelector
        ELSE LET c == CHOOSE x \in New : \A y \in New \ {x} : Sooner(x, y)
             IN  [clauses |-> Clauses(c[2], ExpectPasses[c[1]][c[3]]), index |-> <<>>]

\* --------------------------------------------------- screens of the events
NAVIGATION_OPS == {"back", "home", "recent"}
Downs(ev, navigation) == CASE ev.op = "key"             -> 0
                           [] ev.op \in NAVIGATION_OPS  -> navigation
                           [] ev.op = "doubleClick"     -> 2 * ev.fingers
                           [] OTHER                     -> ev.fingers
DownsBefore(events, i, navigation) ==
    FoldLeft(LAMBDA s, ev : s + Downs(ev, navigation), 0, SubSeq(events, 1, i - 1))

\* The touch-down of each event that has one, or <<>> when they cannot be told apart.
alignTouches(events, downs) ==
    LET fits == {n \in {0, 1} : DownsBefore(events, Len(events) + 1, n) = Len(downs)}
        n    == Min(fits)
    IN  IF fits = {} THEN <<>>
        ELSE <<[i \in {k \in DOMAIN events : Downs(events[k], n) > 0} |-> downs[DownsBefore(events, i, n) + 1]]>>

SETTLE == 1                 \* SETTLE_MS, in ticks of the device's clock
NoTree == <<>>

\* The screen each event happened on and the one that shows its effect (<<tree>>, or none).
ScenesByOrder(input) ==
    LET n == Len(input.events)
        Own(i) == LET f == input.events[i].file
                  IN  IF f \in DOMAIN input.layouts THEN <<input.layouts[f]>> ELSE NoTree
        Before(i) == LET dumped == {j \in 1 .. i - 1 : Own(j) # NoTree}
                     IN  IF dumped = {} THEN input.initial ELSE Own(Max(dumped))[1]
    IN  [i \in 1 .. n |-> [before |-> Before(i),
                           after  |-> IF Own(i) = NoTree /\ i = n THEN input.final ELSE Own(i)]]

ScenesByTime(input, touch) ==
    LET events == input.events
        files  == DOMAIN input.layouts \intersect DOMAIN input.times[1].layouts
        entries == {<<input.times[1].initial, 0, input.initial>>}
                       \union {<<input.times[1].layouts[f], f, input.layouts[f]>> : f \in files}
        timeline == SetToSortSeq(entries, LAMBDA a, b : a[1] < b[1] \/ (a[1] = b[1] /\ a[2] < b[2]))
        OnScreen(t) == LET old == {k \in DOMAIN timeline : timeline[k][1] < t}
                       IN  IF old = {} THEN input.initial ELSE timeline[Max(old)][3]
        Effect(t) == LET new == {k \in DOMAIN timeline : timeline[k][1] > t + SETTLE}
                     IN  IF new = {} THEN NoTree ELSE <<timeline[Min(new)][3]>>
        Next_(i) == {j \in DOMAIN touch : j > i}
        End == IF input.final # NoTree THEN input.final[1] ELSE Last(timeline)[3]
        Scene(s, i) ==
            LET before == IF i \in DOMAIN touch THEN OnScreen(touch[i]) ELSE s.previous
                shown  == IF Next_(i) # {} THEN <<OnScreen(touch[Min(Next_(i))])>>
                          ELSE IF i < Len(events) /\ i \in DOMAIN touch THEN Effect(touch[i]) ELSE NoTree
                after  == IF shown = NoTree THEN End ELSE shown[1]
            IN  [previous |-> after,
                 out |-> Append(s.out, [before |-> before, after |-> IF after = before THEN NoTree ELSE <<after>>])]
    IN  FoldLeft(Scene, [previous |-> input.initial, out |-> <<>>], [i \in DOMAIN events |-> i]).out

scenes(input) ==
    LET touch == IF input.times = <<>> THEN <<>> ELSE alignTouches(input.events, input.times[1].downs)
    IN  IF touch = <<>> THEN ScenesByOrder(input) ELSE ScenesByTime(input, touch[1])

\* ------------------------------------------------------------ the steps
POINTER_ACTIONS == ("click" :> "click") @@ ("longClick" :> "longClick") @@ ("doubleClick" :> "doubleClick")
                       @@ ("swipe" :> "swipe") @@ ("fling" :> "swipe") @@ ("drag" :> "swipe")

NewStep(action, of) == [action |-> action, selector |-> NoSelector, fallback |-> <<>>, to |-> <<>>, key |-> <<>>,
                        text |-> <<>>, fieldText |-> None, clear |-> FALSE, gone |-> FALSE, expect |-> NoSelector, of |-> of]

\* run: <<>> or the typing in progress; stroke: <<>> or the first line of a keystroke.
Start(input) == [steps |-> <<>>, run |-> <<>>, stroke |-> <<>>, skipped |-> {}, bundle |-> input.bundle]

withExpect(step, s, bundle, ime) ==
    IF s.after = NoTree THEN step
    ELSE [step EXCEPT !.expect = expectFor(s.before, s.after[1], bundle,
                                           keyboardWindowIds({s.before, s.after[1]}, ime))]

Typed(chars) == FoldLeft(LAMBDA s, c : IF c = <<Backspace>> THEN (IF s = <<>> THEN s ELSE Front(s)) ELSE s \o c,
                         <<>>, chars)

\* The step on a field: found at x.field, as it was (x.prior, if it was) and as it is (x.now).
typingStep(bare, x) ==
    IF x.field = {} THEN bare
    ELSE [bare EXCEPT !.selector = IF x.prior # {} THEN fieldSelector(x.before, Only(x.prior)) ELSE fieldSelector(x.after, Only(x.now)),
                      !.fieldText = Only(x.now).text,
                      !.clear = /\ Only(x.now).text # None /\ x.prior # {}
                                /\ Only(x.prior).text \notin {None, Only(x.now).text}]
theField(before, after, kbIds) ==
    IF focusedField(after, kbIds) # {} THEN focusedField(after, kbIds) ELSE focusedField(before, kbIds)
InBoth(before, after, field) ==
    [before |-> before, after |-> after, field |-> field,
     prior |-> UNION {sameField(before, f) : f \in field},
     now   |-> UNION {IF sameField(after, f) # {} THEN sameField(after, f) ELSE {f} : f \in field}]
flushRun(st, ime) ==
    IF st.run = <<>> THEN st
    ELSE LET r     == st.run[1]
             first == r.first.before
             after == IF r.last.after # NoTree THEN r.last.after[1] ELSE r.last.before
         IN  Only({[st EXCEPT !.run = <<>>,
                              !.steps = Append(@, typingStep([NewStep("inputText", r.of) EXCEPT !.text = Typed(r.typed)], x))] :
                       x \in {InBoth(first, after, theField(first, after, keyboardWindowIds({first, after}, ime)))}})

\* A keystroke or a tap on the soft keyboard joins the typing in progress, or starts it.
AddToRun(st, chars, s, of) ==
    LET r == IF st.run = <<>> THEN [first |-> s, last |-> s, typed |-> <<>>, of |-> {}] ELSE st.run[1]
    IN  [st EXCEPT !.run = <<[r EXCEPT !.typed = Append(@, chars), !.last = s, !.of = @ \union of]>>]

\* What a keystroke k, [codes, scene, of], makes of the steps; `flushed` is them with the typing written down.
StrokeStep(k) == [NewStep("keyEvent", k.of) EXCEPT !.key = k.codes]
addStroke_LeavesTyping(st, flushed, k, ime) ==
    LET ch == keystrokeChar(k.codes)
    IN  IF ch # <<>> THEN AddToRun(st, ch, k.scene, k.of)
        ELSE [st EXCEPT !.steps = Append(@, withExpect(StrokeStep(k), k.scene, st.bundle, ime))]
addStroke(st, flushed, k, ime) ==
    LET ch   == keystrokeChar(k.codes)
        back == k.codes = <<Backspace>>
    IN  IF ch # <<>> \/ (back /\ st.run # <<>>) THEN AddToRun(st, IF back THEN <<Backspace>> ELSE ch, k.scene, k.of)
        ELSE [flushed EXCEPT !.steps = Append(@, withExpect(StrokeStep(k), k.scene, flushed.bundle, ime))]
addKeystroke(st, k, ime) == Only({addStroke(st, flushed, k, ime) : flushed \in {flushRun(st, ime)}})

\* A keystroke is two lines: the keys held, then the layout.  These are the ones a line completes, and
\* the one it leaves open.
Completed(st, ev, i, s) ==
    IF ev.file = 0 THEN st.stroke
    ELSE LET k == IF st.stroke # <<>> THEN st.stroke[1] ELSE [codes |-> ev.codes, scene |-> s, of |-> {}]
         IN  <<[codes |-> k.codes, scene |-> [before |-> k.scene.before, after |-> s.after], of |-> k.of \union {i}]>>
LeftOpen(ev, i, s) == IF ev.file = 0 THEN <<[codes |-> ev.codes, scene |-> s, of |-> {i}]>> ELSE <<>>

Skip(st, i) == [st EXCEPT !.skipped = @ \union {i}]
Named(st, ev) == IF st.bundle = None THEN [st EXCEPT !.bundle = ev.bundle] ELSE st

AddPointer(named, flushed, node, ev, i, s, ime) ==
    LET n       == CHOOSE x \in node : TRUE
        keyTap  == node # {} /\ n.windowId # 0 /\ n.windowId \in keyboardWindowIds({s.before}, ime)
        labels  == SelectSeq(<<n.text, ev.widget.text>>, LAMBDA t : t \in DOMAIN Letters)
        char    == IF labels = <<>> THEN <<>> ELSE <<labels[1]>>
        action  == POINTER_ACTIONS[ev.op]
        step    == IF ev.op \in {"back", "home"} THEN [NewStep("keyEvent", {i}) EXCEPT !.key = <<ev.op>>]
                   ELSE [NewStep(action, {i}) EXCEPT
                            !.selector = IF node = {} THEN NoSelector ELSE selectorFor(s.before, n),
                            !.fallback = ev.at, !.to = IF action = "swipe" THEN ev.to ELSE <<>>]
    IN  IF \/ ev.op \notin DOMAIN POINTER_ACTIONS \union {"back", "home"}
           \/ ev.op \in DOMAIN POINTER_ACTIONS /\ (ev.fingers # 1 \/ ev.at = <<>>) THEN Skip(named, i)
        ELSE IF ev.op = "click" /\ keyTap THEN AddToRun(named, char, s, {i})
        ELSE IF ev.op \in {"swipe", "fling", "drag"} /\ ev.to = <<>> THEN Skip(flushed, i)
        ELSE [flushed EXCEPT !.steps = Append(@, withExpect(step, s, flushed.bundle, ime))]
OnPointer(st, ev, i, s, ime) ==
    Only({AddPointer(x.named, x.flushed, x.node, ev, i, s, ime) :
             x \in {[named |-> named, flushed |-> flushRun(named, ime),
                     node |-> touchedElement(s.before, ev.at, ev.widget)] : named \in {Named(st, ev)}}})

\* Two selectors for one field: equal but for a text clause after the first.
sameTarget(a, b) ==
    LET Strip(s) == <<[k \in 1 .. 1 |-> s.clauses[k]] \o
                       SelectSeq(Tail(s.clauses), LAMBDA c : c.key # "text"), s.index>>
    IN  Strip(a) = Strip(b)

\* inputText taps its field: the tap next to it is left out.
dropFocusTaps(steps) ==
    LET Typing(k, sel) == /\ k \in DOMAIN steps /\ steps[k].action = "inputText"
                          /\ steps[k].selector # NoSelector /\ sameTarget(steps[k].selector, sel)
        kept == {i \in DOMAIN steps : ~(/\ steps[i].action = "click" /\ steps[i].selector # NoSelector
                                        /\ \E k \in {i - 1, i + 1} : Typing(k, steps[i].selector))}
        order == Sorted(kept)
    IN  [k \in DOMAIN order |-> steps[order[k]]]

OnKeys(st, k, ime, open) == [(IF k = <<>> THEN st ELSE addKeystroke(st, k[1], ime)) EXCEPT !.stroke = open]
OnEvent(st, input, i, s) ==
    IF input.events[i].op = "key" THEN OnKeys(st, Completed(st, input.events[i], i, s), input.ime, LeftOpen(input.events[i], i, s))
    ELSE OnPointer(st, input.events[i], i, s, input.ime)

\* The steps after the events.
StepsOf(input, scene) ==
    FoldLeft(LAMBDA st, i : OnEvent(st, input, i, scene[i]), Start(input), [i \in DOMAIN scene |-> i])

\* After the last event: a keystroke left open, and then the typing.
AtEnd(st, ime) == flushRun(OnKeys(st, st.stroke, ime, <<>>), ime)

\* For each of some recordings: [steps, skipped, bundle]; the flow has the steps that dropFocusTaps leaves.
flowFromRecording(inputs) ==
    {AtEnd(x.st, x.ime) :
        x \in {[st |-> StepsOf(r.input, r.scene), ime |-> r.input.ime] :
                   r \in {[input |-> input, scene |-> scenes(input)] : input \in inputs}}}
=============================================================================
