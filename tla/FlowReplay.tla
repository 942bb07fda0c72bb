------------------------------ MODULE FlowReplay ------------------------------
(***************************************************************************)
(* `replay` (flow/replay.ts): for each step of a flow, wait for its        *)
(* selector, act on the element, wait for what the step is expected to     *)
(* show; stop at the first step that fails.  The element is found by       *)
(* locateTarget and the input sent by performInput (hdc/uiActions.ts).     *)
(*                                                                         *)
(* Time is counted in dumps of the screen.  A dump is [screen, at]: what   *)
(* it shows, and the time since the last input, up to SETTLED.             *)
(***************************************************************************)
EXTENDS FlowDevice

CONSTANTS SETTLED,      \* settleMs
          TIMEOUT,      \* stepTimeoutMs
          CharsOf       \* the characters of a text field's content

\* A screen moves for less than settleMs: the second dump after an input shows it at rest.
ASSUME SettlingCoversMotion == SETTLED \in Nat \ {0, 1} /\ TIMEOUT \in Nat /\ SETTLED <= TIMEOUT

VARIABLES flow,       \* [bundle, steps]
          options,    \* [wake, launch, fallback]
          pc, index,
          seen,       \* <<dump>> that shows the current screen, or <<>>
          cur,        \* <<dump>> the step's element is looked up in
          target,     \* <<node>> picked
          fellBack,   \* the step acts on its fallback point
          sinceAct, inStep, waited,
          aborted, restore,
          report,     \* [outcome, reason, failedStep]
          done,       \* the steps that are ok
          inputs      \* history: what was sent, for which step and to which screen
replay == <<flow, options, pc, index, seen, cur, target, fellBack, sinceAct, inStep, waited,
            aborted, restore, report, done, inputs>>

Steps   == flow.steps
TheStep == Steps[index]
Sel(s)  == [kind |-> "dsl", clauses |-> s.clauses, index |-> s.index]
Has(s)  == s # NoSelector

\* A flow file is replayed only if its steps can be.
FLOW_ACTIONS == {"click", "longClick", "doubleClick", "swipe", "inputText", "keyEvent", "wait"}
POINTED      == {"click", "longClick", "doubleClick", "swipe"}
checkStep(s) == /\ s.action \in FLOW_ACTIONS
                /\ s.action \in POINTED => Has(s.selector) \/ s.fallback # <<>>
                /\ s.action = "wait" => Has(s.selector)
                /\ (s.to # <<>>) = (s.action = "swipe")
                /\ (s.key # <<>>) = (s.action = "keyEvent")
                /\ s.text # <<>> \/ s.fieldText # None \/ s.clear => s.action = "inputText"
                /\ s.gone => s.action = "wait"
parseFlow(steps) == steps \in Seq(ToSet(steps)) /\ \A s \in ToSet(steps) : checkStep(s)

Selectable(screen)  == selectableTree(Shot[screen], 0)
Shows(screen, s)    == findVisibleMatch(Selectable(screen), Sel(s)).found
Match(screen)       == findVisibleMatch(Selectable(screen), Sel(TheStep.selector))
Picked(screen)      == pickTarget(Selectable(screen), Sel(TheStep.selector), <<>>)

Tick == /\ sinceAct' = Min({sinceAct + 1, SETTLED})
        /\ inStep'   = Min({inStep + 1, TIMEOUT})
NoTick == UNCHANGED <<sinceAct, inStep>>

ReplayInit(f, opts) ==
    /\ flow = f /\ options = opts
    /\ pc = "idle" /\ index = 1 /\ seen = <<>> /\ cur = <<>> /\ target = <<>> /\ fellBack = FALSE
    /\ sinceAct = 0 /\ inStep = 0 /\ waited = 0 /\ aborted = FALSE /\ restore = FALSE
    /\ report = [outcome |-> "error", reason |-> None, failedStep |-> 0]
    /\ done = {} /\ inputs = <<>>

Stay == UNCHANGED <<flow, options, aborted>>

\* ------------------------------------------------------------ beginning
Wake == /\ pc = "wake" /\ Stay /\ NoTick
        /\ \E result \in {"ready", "locked", "error"} :
             /\ IF options.wake THEN wakeAndUnlock(result) ELSE result = "ready" /\ UNCHANGED device
             /\ pc' = IF result = "ready" THEN "hold" ELSE "restore"
        /\ UNCHANGED <<index, seen, cur, target, fellBack, waited, restore, report, done, inputs>>

Hold == /\ pc = "hold" /\ Stay /\ NoTick /\ pc' = "launch"
        /\ IF options.wake THEN restore' \in BOOLEAN /\ holdScreenOn(restore')
           ELSE UNCHANGED <<device, restore>>
        /\ UNCHANGED <<index, seen, cur, target, fellBack, waited, report, done, inputs>>

Launch == /\ pc = "launch" /\ Stay /\ UNCHANGED inStep
          /\ IF ~options.launch THEN pc' = "step" /\ UNCHANGED <<device, sinceAct>>
             ELSE \/ /\ flow.bundle # None /\ dev' = Home /\ old' = IF dev = Home THEN <<>> ELSE <<dev>>
                     /\ sinceAct' = 0 /\ pc' = "step" /\ UNCHANGED <<lock, held, failed>>
                  \/ pc' = "restore" /\ UNCHANGED sinceAct
                     /\ IF flow.bundle = None THEN UNCHANGED device ELSE CallFails("launch")
          /\ UNCHANGED <<index, seen, cur, target, fellBack, waited, restore, report, done, inputs>>

\* -------------------------------------------------------------- a step
\* The selector is looked up in the dump that the last wait left, before the screen is dumped again.
Cached == Has(TheStep.selector) /\ seen # <<>> /\ ~TheStep.gone /\ Shows(seen[1].screen, TheStep.selector)
BeginStep ==
    /\ pc = "step" /\ Stay /\ UNCHANGED <<device, sinceAct>>
    /\ inStep' = 0 /\ waited' = 0 /\ target' = <<>> /\ fellBack' = ~Has(TheStep.selector)
    /\ \E cached \in {Cached} :
         /\ pc' = CASE aborted                           -> "restore"
                    [] ~aborted /\ cached                -> "settle"
                    [] ~aborted /\ ~Has(TheStep.selector) -> "act"
                    [] OTHER                             -> "wait"
         /\ cur' = IF cached THEN seen ELSE <<>>
         /\ seen' = IF Has(TheStep.selector) /\ ~cached THEN <<>> ELSE seen
    /\ UNCHANGED <<index, restore, report, done, inputs>>

Diverge(reason) == /\ pc' = "describe"
                   /\ report' = [outcome |-> "diverged", reason |-> reason, failedStep |-> index]

\* waitForTargetLayout: one poll, by a step that is at pc.  A dump that fails is no answer.
Poll(at, s, gone, next) ==
    /\ pc = at /\ ~aborted /\ waited < TIMEOUT /\ Tick /\ Stay
    /\ \/ \E screen \in Dumps : /\ Rest
                                /\ IF Shows(screen, s) # gone
                                   THEN /\ cur' = <<[screen |-> screen, at |-> sinceAct']>>
                                        /\ pc' = next /\ waited' = 0
                                   ELSE pc' = pc /\ waited' = waited + 1 /\ UNCHANGED cur
       \/ CallFails("poll") /\ waited' = waited + 1 /\ UNCHANGED <<cur, pc>>
    /\ seen' = IF pc' = next THEN cur' ELSE seen
    /\ UNCHANGED <<index, target, fellBack, restore, report, done, inputs>>

Cancelled(at) == /\ pc = at /\ aborted /\ pc' = "restore" /\ Stay /\ NoTick
                 /\ UNCHANGED <<device, index, seen, cur, target, fellBack, waited, restore, report, done, inputs>>

Wait == Poll("wait", TheStep.selector, TheStep.gone, "settle")
WaitEnds ==
    /\ pc = "wait" /\ waited = TIMEOUT /\ Stay /\ NoTick /\ UNCHANGED device
    /\ IF options.fallback /\ TheStep.fallback # <<>> /\ ~TheStep.gone /\ TheStep.action \notin {"wait", "keyEvent"}
       THEN fellBack' = TRUE /\ pc' = "act" /\ UNCHANGED report
       ELSE Diverge("not-found") /\ UNCHANGED fellBack
    /\ UNCHANGED <<index, seen, cur, target, waited, restore, done, inputs>>

\* ------------------------------------------------------ before it acts
Targeted == TheStep.action \notin {"wait", "keyEvent"} /\ ~fellBack

SameNode(a, b) == a.type = b.type /\ a.id = b.id /\ a.text = b.text /\ a.b = b.b

\* A dump taken while the screen may move is confirmed by a second one.
Confirm ==
    /\ pc = "settle" /\ Targeted /\ cur[1].at < SETTLED /\ inStep < TIMEOUT /\ Stay /\ Tick
    /\ \/ /\ Rest
          /\ \E screen \in Dumps : \E now \in {Match(screen)}, before \in {Match(cur[1].screen)} :
                /\ pc' = CASE ~now.found -> "rewait"
                           [] now.found /\ SameNode(before.node, now.node) -> "locate"
                           [] OTHER -> "settle"
                /\ cur' = IF now.found THEN <<[screen |-> screen, at |-> sinceAct']>> ELSE cur
       \/ CallFails("confirm") /\ pc' = "rewait" /\ UNCHANGED cur
    /\ waited' = 0
    /\ UNCHANGED <<index, seen, target, fellBack, restore, report, done, inputs>>

Settled_AtOnce ==
    /\ pc = "settle" /\ pc' = IF Targeted THEN "locate" ELSE IF TheStep.action = "wait" THEN "acted" ELSE "act"
    /\ Stay /\ NoTick
    /\ UNCHANGED <<device, index, seen, cur, target, fellBack, waited, restore, report, done, inputs>>
Settled ==
    /\ pc = "settle" /\ (~Targeted \/ cur[1].at >= SETTLED \/ inStep >= TIMEOUT)
    /\ pc' = IF Targeted THEN "locate" ELSE IF TheStep.action = "wait" THEN "acted" ELSE "act"
    /\ Stay /\ NoTick
    /\ UNCHANGED <<device, index, seen, cur, target, fellBack, waited, restore, report, done, inputs>>

Rewait     == Poll("rewait", TheStep.selector, FALSE, "settle")
RewaitEnds == /\ pc = "rewait" /\ waited = TIMEOUT /\ Diverge("not-found") /\ Stay /\ NoTick
              /\ UNCHANGED <<device, index, seen, cur, target, fellBack, waited, restore, done, inputs>>

\* -------------------------------------------------------- locateTarget
\* What a look at a layout leads to: failing for good, looking again, or reaching for the element.
Look(screen, onNothing) ==
    \E r \in {Picked(screen)} :
        /\ target' = IF r.found THEN <<r.node>> ELSE <<>>
        /\ IF ~r.found /\ (r.reason = "ambiguous" \/ onNothing = "fail")
           THEN Diverge(CASE r.reason = "none" -> "not-found" [] OTHER -> r.reason)
           ELSE /\ pc' = IF r.found THEN "reach" ELSE onNothing
                /\ UNCHANGED report

LookCached == /\ pc = "locate" /\ Look(cur[1].screen, "relook") /\ Stay /\ NoTick
              /\ UNCHANGED <<device, index, seen, cur, fellBack, waited, restore, done, inputs>>

Relook == /\ pc = "relook" /\ Stay /\ Tick
          /\ \/ \E screen \in Dumps : /\ Rest
                                      /\ cur' = <<[screen |-> screen, at |-> sinceAct']>>
                                      /\ Look(screen, "reach")
             \/ CallFails("dump") /\ Diverge("action-failed") /\ UNCHANGED <<cur, target>>
          /\ UNCHANGED <<index, seen, fellBack, waited, restore, done, inputs>>

KeyboardUp == Shot[cur[1].screen].keyboard # None
Unreached_Always == target = <<>> \/ ~target[1].click
Unreached == KeyboardUp /\ (target = <<>> \/ ~target[1].click)

Note(kind, at) == inputs' = Append(inputs, [step |-> index, kind |-> kind, at |-> at, on |-> dev, fell |-> fellBack])

\* The soft keyboard may be in the way: dismiss it, wait for the reflow, and look again.  The wait is
\* KEYBOARD_SETTLE_MS, shorter than settleMs, and the dump after it is not confirmed: an app is assumed to
\* have made room by then.
PressBack == /\ pc = "reach" /\ Unreached /\ Stay /\ Tick
             /\ \/ /\ dev' = After(dev, [kind |-> "keyEvent", key |-> <<"back">>]) /\ old' = <<>>
                   /\ Note("hideKeyboard", <<>>) /\ pc' = "afterBack" /\ UNCHANGED <<report, lock, held, failed>>
                \/ CallFails("input") /\ Diverge("action-failed") /\ UNCHANGED inputs
             /\ UNCHANGED <<index, seen, cur, target, fellBack, waited, restore, done>>

AfterBack == /\ pc = "afterBack" /\ Stay /\ Tick
             /\ \/ \E screen \in Dumps : /\ Rest
                                         /\ \E r \in {Picked(screen)} :
                                                /\ target' = IF r.found THEN <<r.node>> ELSE <<>>
                                                /\ IF r.found THEN pc' = "act" /\ UNCHANGED report
                                                   ELSE Diverge(CASE r.reason = "none" -> "not-found" [] OTHER -> r.reason)
                \/ CallFails("dump") /\ Diverge("action-failed") /\ UNCHANGED target
             /\ UNCHANGED <<index, seen, cur, fellBack, waited, restore, done, inputs>>

Reached == /\ pc = "reach" /\ ~Unreached /\ Stay /\ NoTick
           /\ IF target = <<>> THEN Diverge("not-found") ELSE pc' = "act" /\ UNCHANGED report
           /\ UNCHANGED <<device, index, seen, cur, target, fellBack, waited, restore, done, inputs>>

\* -------------------------------------------------------- performInput
Point == IF target # <<>> THEN Center(target[1].b)
         ELSE IF fellBack /\ TheStep.action # "keyEvent" THEN TheStep.fallback ELSE <<>>

StepInput == LET s == TheStep
             IN  [kind |-> s.action, at |-> Point, to |-> s.to, key |-> s.key, clear |-> s.clear,
                  text |-> IF s.fieldText # None THEN CharsOf[s.fieldText] ELSE s.text]

Act_IgnoresFailure ==
       /\ pc = "act" /\ Stay /\ seen' = <<>> /\ waited' = 0 /\ UNCHANGED inStep /\ pc' = "acted"
       /\ \/ Input(StepInput) /\ Note(TheStep.action, Point) /\ sinceAct' = 0
          \/ CallFails("input") /\ UNCHANGED <<inputs, sinceAct>>
       /\ UNCHANGED <<index, cur, target, fellBack, restore, report, done>>
Act == /\ pc = "act" /\ Stay /\ seen' = <<>> /\ waited' = 0 /\ UNCHANGED inStep
       /\ \/ Input(StepInput) /\ Note(TheStep.action, Point) /\ sinceAct' = 0 /\ pc' = "acted" /\ UNCHANGED report
          \/ CallFails("input") /\ Diverge("action-failed") /\ UNCHANGED <<inputs, sinceAct>>
       /\ UNCHANGED <<index, cur, target, fellBack, restore, done>>

\* ---------------------------------------------------------- after it
Expect     == /\ pc = "acted" /\ Has(TheStep.expect)
              /\ pc' = "expect" /\ waited' = 0 /\ Stay /\ NoTick
              /\ UNCHANGED <<device, index, seen, cur, target, fellBack, restore, report, done, inputs>>
ExpectWait == Poll("expect", TheStep.expect, FALSE, "ok")
ExpectEnds == /\ pc = "expect" /\ waited = TIMEOUT /\ Diverge("expect-not-found") /\ Stay /\ NoTick
              /\ UNCHANGED <<device, index, seen, cur, target, fellBack, waited, restore, done, inputs>>

StepDone == /\ pc = "ok" \/ (pc = "acted" /\ ~Has(TheStep.expect))
            /\ done' = done \union {index} /\ Stay /\ NoTick
            /\ IF index < Len(Steps) THEN index' = index + 1 /\ pc' = "step" /\ UNCHANGED report
               ELSE pc' = "restore" /\ report' = [report EXCEPT !.outcome = "passed"] /\ UNCHANGED index
            /\ UNCHANGED <<device, seen, cur, target, fellBack, waited, restore, inputs>>

\* What was on screen when it diverged: a lock screen, or another app, is the wrong screen.
Describe == /\ pc = "describe" /\ pc' = "restore" /\ Stay /\ Tick
            /\ \/ \E screen \in Dumps :
                    LET apps == {w.bundle : w \in ToSet(listLayoutWindows(Shot[screen].tree))}
                    IN  /\ Rest
                        /\ report' = IF isLockScreenShown(Shot[screen].tree) \/ (flow.bundle # None /\ flow.bundle \notin apps)
                                     THEN [report EXCEPT !.reason = "wrong-screen"] ELSE report
               \/ CallFails("dump") /\ UNCHANGED report
            /\ UNCHANGED <<index, seen, cur, target, fellBack, waited, restore, done, inputs>>

Restore == /\ pc = "restore" /\ pc' = "done" /\ Stay /\ NoTick
           /\ restoreScreenOn(restore)
           /\ UNCHANGED <<index, seen, cur, target, fellBack, waited, restore, report, done, inputs>>

\* Ctrl+C.
Abort == /\ pc \notin {"idle", "done"} /\ ~aborted /\ aborted' = TRUE
         /\ UNCHANGED <<device, flow, options, pc, index, seen, cur, target, fellBack, sinceAct, inStep, waited,
                        restore, report, done, inputs>>

ReplayStep == \/ Wake \/ Hold \/ Launch \/ BeginStep \/ Wait \/ WaitEnds \/ Confirm \/ Settled \/ Rewait \/ RewaitEnds
              \/ LookCached \/ Relook \/ PressBack \/ AfterBack \/ Reached \/ Act \/ Expect \/ ExpectWait \/ ExpectEnds
              \/ StepDone \/ Describe \/ Restore \/ (\E at \in {"wait", "rewait", "expect"} : Cancelled(at))
ReplayNext == ReplayStep \/ Abort
=============================================================================
