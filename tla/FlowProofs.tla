------------------------------ MODULE FlowProofs ------------------------------
(***************************************************************************)
(* Proofs about `record` and `replay`, for every app that the screens are  *)
(* of, every user, and any number of gestures and of failures: neither     *)
(* leaves anything running on the device, what a replay sends goes where   *)
(* its step says, and a replay that passes has sent all of it.             *)
(***************************************************************************)
EXTENDS MCFlow, TLAPS

CleanUpFailed == CallFailed({"finally", "finally lingers", "finally kill"}, "throws")
(* The command takes a recorder for gone that it was not allowed to look at, *)
(* or to kill.                                                               *)
TakenForGone  == CallFailed({"alive", "poll", "lingers", "kill", "finally lingers", "finally kill"}, "refused")

(* The recorder, while it may still run, is known or could not be told of;   *)
(* and the screen is held only by who gives it back.                         *)
RunningInv ==
    /\ pc # "idle" => rpc = "done"
    /\ rpc = "done" => ~touchLog
    /\ recorder # "none" => pid \/ CallFailed({"start"}, "throws") \/ CleanUpFailed \/ TakenForGone
    /\ rpc \in {"restore", "done"} => ~pid \/ CleanUpFailed
    /\ rpc = "pull" /\ recorder # "none" => CallFailed({"poll", "lingers", "kill"}, "refused")
HeldInv ==
    /\ rpc \in {"wake", "hold"} => ~held
    /\ pc \in {"idle", "wake", "hold"} => ~restore
    /\ held => \/ rpc # "done" /\ rrestore
               \/ pc \notin {"idle", "done"} /\ restore
               \/ CallFailed({"hold", "restore"}, "throws")

(* What a replay has sent so far, at each point of its run.                  *)
Locating == {"locate", "relook", "reach", "afterBack"}
Sent     == {"acted", "expect", "ok"}
Working  == {"wake", "hold", "launch", "step", "wait", "settle", "rewait", "act"} \cup Locating \cup Sent
Over     == {"describe", "restore", "done"}

Sends(k)  == Steps[k].action # "wait"
IsSent(k) == \E n \in DOMAIN inputs : inputs[n].step = k /\ inputs[n].kind # "hideKeyboard"

ReplayTyped ==
    /\ pc \in {"idle"} \cup Working \cup Over
    /\ inputs \in Seq(ToSet(inputs))
    /\ report = [outcome |-> report.outcome, reason |-> report.reason, failedStep |-> report.failedStep]
    /\ pc \notin {"restore", "done"} => report.outcome # "passed"
    /\ pc \in Working => parseFlow(Steps) /\ index \in DOMAIN Steps
    /\ pc \in Locating => Targeted
    /\ pc = "act" => Sends(index)
    /\ pc \in {"idle", "wake"} => inputs = <<>>

SentInv ==
    /\ pc = "idle" => index = 1 /\ done = {}
    /\ pc \in Working =>
         /\ done = 1 .. index - 1
         /\ \A n \in DOMAIN inputs : /\ inputs[n].step \in 1 .. index /\ Sends(inputs[n].step)
                                     /\ inputs[n].kind \in {"hideKeyboard", Steps[inputs[n].step].action}
         /\ \A k \in 1 .. index - 1 : (Sends(k) => IsSent(k))
         /\ pc \in Sent => (Sends(index) => IsSent(index))
         /\ pc \notin Sent => \A n \in DOMAIN inputs : (inputs[n].step = index => inputs[n].kind = "hideKeyboard")

(* What a replay knows of the screen: a dump that may be of a screen that    *)
(* was moving is too young to act on.                                        *)
Shown(dump) == dump.screen \in Dumps
ClockInv ==
    /\ sinceAct \in 0 .. SETTLED /\ inStep \in 0 .. TIMEOUT
    /\ old # <<>> => sinceAct = 0
    /\ pc = "idle" => sinceAct = 0
    /\ pc = "wait" /\ old # <<>> => inStep = 0
    /\ pc \in {"settle", "rewait"} \cup Locating => old = <<>>
SeenInv ==
    /\ pc \in {"idle", "wake", "hold", "launch"} => seen = <<>>
    /\ pc \in {"step", "wait", "settle", "rewait", "locate", "relook", "reach"} \cup Sent =>
          (seen # <<>> => old = <<>> /\ seen[1].at \in Nat /\ (Shown(seen[1]) \/ seen[1].at < SETTLED))
    /\ pc = "settle" => cur[1].at \in Nat /\ (Shown(cur[1]) \/ (cur[1].at < SETTLED /\ inStep < TIMEOUT))
    /\ pc \in {"locate", "relook", "reach"} => Shown(cur[1])

IsPicked(screen) == Picked(screen).found /\ target = <<Picked(screen).node>>
TargetInv ==
    /\ pc = "reach" => target = <<>> \/ IsPicked(cur[1].screen)
    /\ pc = "act" => fellBack \/ TheStep.action = "keyEvent" \/ (lock = "none" => IsPicked(dev))

FlowInv == /\ RunningInv /\ HeldInv /\ ReplayTyped /\ InOrder /\ SentInv /\ ClockInv /\ SeenInv /\ TargetInv
           /\ NothingLeftRunning /\ InputsMeanTheirSteps /\ PassedMeansDone
-----------------------------------------------------------------------------
(* A call that fails, and the calls of power.ts: what they make of the       *)
(* device.                                                                   *)
LEMMA CallsFail ==
    ASSUME NEW STATE call, CallFails(call)
    PROVE  /\ failed' = failed \cup {<<call, "throws">>} /\ old' = <<>>
           /\ dev' = dev /\ lock' = lock /\ held' = held
    BY DEF CallFails, GoesWrong

LEMMA CallsAreRefused ==
    ASSUME NEW STATE call, Refused(call)
    PROVE  /\ failed' = failed \cup {<<call, "refused">>} /\ old' = <<>>
           /\ dev' = dev /\ lock' = lock /\ held' = held
    BY DEF Refused, GoesWrong

LEMMA WakeEffect ==
    ASSUME NEW result, wakeAndUnlock(result)
    PROVE  /\ dev' = dev /\ old' \in {old, <<>>} /\ held' = held /\ failed \subseteq failed'
    BY DEF wakeAndUnlock, CallFails, GoesWrong

LEMMA HoldEffect ==
    ASSUME NEW restores, holdScreenOn(restores)
    PROVE  /\ dev' = dev /\ old' \in {old, <<>>} /\ lock' = lock /\ failed \subseteq failed'
           /\ restores \/ held' = held \/ CallFailed({"hold"}, "throws")'
    BY DEF holdScreenOn, GoesWrong, CallFailed

LEMMA RestoreEffect ==
    ASSUME NEW restores, restoreScreenOn(restores)
    PROVE  /\ dev' = dev /\ old' \in {old, <<>>} /\ lock' = lock /\ failed \subseteq failed'
           /\ held' = held \/ ~held'
           /\ restores => ~held' \/ CallFailed({"restore"}, "throws")'
    BY DEF restoreScreenOn, CallFails, GoesWrong, CallFailed, device

-----------------------------------------------------------------------------
(* `record`: each step, as far as what it has started is concerned.          *)
LEMMA RecordRunning ==
    ASSUME RunningInv, HeldInv, RecordNext, UNCHANGED replay
    PROVE  /\ RunningInv' /\ HeldInv'
           /\ pc = "idle" \/ UNCHANGED device
<1> USE DEF RunningInv, HeldInv, CleanUpFailed, TakenForGone, CallFailed, replay, device, Throw, Goto
<1>1. CASE RecordWake
    <2> PICK result \in {"ready", "locked", "error"} : wakeAndUnlock(result)
        BY <1>1 DEF RecordWake
    <2> QED BY <1>1, WakeEffect DEF RecordWake
<1>2. CASE RecordHold
    BY <1>2, HoldEffect DEF RecordHold
<1>3. CASE RecordRead
    BY <1>3, CallsFail, CallsAreRefused DEF RecordRead, Rest
<1>4. CASE RecordClear
    BY <1>4, CallsFail, CallsAreRefused DEF RecordClear, Rest
<1>5. CASE RecordStart
    BY <1>5, CallsFail, CallsAreRefused DEF RecordStart, Rest
<1>6. CASE RecorderReady
    BY <1>6 DEF RecorderReady
<1>7. CASE RecorderEnds
    BY <1>7 DEF RecorderEnds
<1>8. CASE RecordConsole
    BY <1>8, CallsFail, CallsAreRefused DEF RecordConsole
<1>9. CASE Gesture
    <2>1. held' = held /\ failed' = failed
        BY <1>9, Zenon DEF Gesture, Input
    <2>2. /\ rpc = "recording"
          /\ UNCHANGED <<rpc, recorder, pid, touchLog, rrestore>>
        BY <1>9, Zenon DEF Gesture
    <2> QED BY <2>1, <2>2
<1>10. CASE RecordPoll
    BY <1>10, CallsFail, CallsAreRefused DEF RecordPoll, Rest
<1>11. CASE RecordEnds
    BY <1>11 DEF RecordEnds
<1>12. CASE Interrupt
    BY <1>12, CallsFail, CallsAreRefused DEF Interrupt, StopThrows
<1>13. CASE Linger
    <2>1. \/ recorder = "none" /\ Stopped /\ UNCHANGED device
          \/ Refused(rpc) /\ Stopped
          \/ UNCHANGED <<device, pid, touchLog>> /\ rpc' \in {rpc, "kill", "finally kill"}
          \/ CallFails(rpc) /\ StopThrows /\ UNCHANGED <<pid, touchLog>>
        BY <1>13 DEF Linger
    <2>2. rpc \in {"lingers", "finally lingers"} /\ UNCHANGED <<recorder, rrestore>>
        BY <1>13 DEF Linger
    <2>3. CASE recorder = "none" /\ Stopped /\ UNCHANGED device
        BY <2>2, <2>3 DEF Stopped
    <2>4. CASE UNCHANGED <<device, pid, touchLog>> /\ rpc' \in {rpc, "kill", "finally kill"}
        BY <2>2, <2>4
    <2>5. CASE CallFails(rpc) /\ StopThrows /\ UNCHANGED <<pid, touchLog>>
        BY <2>2, <2>5, CallsFail DEF StopThrows
    <2>6. CASE Refused(rpc) /\ Stopped
        BY <2>2, <2>6, CallsAreRefused DEF Stopped
    <2> QED BY <2>1, <2>3, <2>4, <2>5, <2>6
<1>14. CASE Kill
    <2>1. \/ recorder' = "none" /\ Stopped /\ UNCHANGED device
          \/ Refused(rpc) /\ Stopped /\ UNCHANGED recorder
          \/ CallFails(rpc) /\ StopThrows /\ UNCHANGED <<recorder, pid, touchLog>>
        BY <1>14 DEF Kill
    <2>2. rpc \in {"kill", "finally kill"} /\ UNCHANGED rrestore
        BY <1>14 DEF Kill
    <2>3. CASE recorder' = "none" /\ Stopped /\ UNCHANGED device
        BY <2>2, <2>3 DEF Stopped
    <2>4. CASE CallFails(rpc) /\ StopThrows /\ UNCHANGED <<recorder, pid, touchLog>>
        BY <2>2, <2>4, CallsFail DEF StopThrows
    <2>5. CASE Refused(rpc) /\ Stopped /\ UNCHANGED recorder
        BY <2>2, <2>5, CallsAreRefused DEF Stopped
    <2> QED BY <2>1, <2>3, <2>4, <2>5
<1>15. CASE Pull
    BY <1>15, CallsFail, CallsAreRefused DEF Pull, Rest
<1>16. CASE NothingToStop
    BY <1>16 DEF NothingToStop
<1>17. CASE RecordRestore
    BY <1>17, RestoreEffect DEF RecordRestore
<1> QED
    BY <1>1, <1>2, <1>3, <1>4, <1>5, <1>6, <1>7, <1>8, <1>9, <1>10, <1>11, <1>12, <1>13, <1>14, <1>15,
       <1>16, <1>17 DEF RecordNext, RecordStep
-----------------------------------------------------------------------------
(* `replay`: what every look at the screen leaves as it is, and what every   *)
(* step does.                                                                *)
Quiet == dev' = dev /\ lock' = lock /\ held' = held /\ failed \subseteq failed'
Same  == UNCHANGED <<flow, options, restore, done>>

Looked(at, next) ==
    /\ pc = at /\ Quiet /\ old' = <<>> /\ Tick /\ Same
    /\ UNCHANGED <<aborted, index, target, fellBack, report, inputs>>
    /\ \/ pc' = at /\ seen' = seen /\ cur' = cur
       \/ pc' = next /\ seen' = cur' /\ \E screen \in Dumps : cur' = <<[screen |-> screen, at |-> sinceAct']>>

LEMMA PollEffect ==
    ASSUME NEW CONSTANT at, NEW STATE s, NEW STATE gone, NEW CONSTANT next, at # next, Poll(at, s, gone, next)
    PROVE  Looked(at, next)
<1> USE DEF Looked
<1>1. /\ pc = at /\ Tick /\ Same /\ UNCHANGED <<aborted, index, target, fellBack, report, inputs>>
      /\ seen' = IF pc' = next THEN cur' ELSE seen
    BY DEF Poll, Same, Stay
<1>2. CASE CallFails("poll") /\ UNCHANGED <<cur, pc>>
    BY <1>1, <1>2, CallsFail DEF Quiet
<1>3. CASE \E screen \in Dumps : /\ Rest
                                 /\ IF Shows(screen, s) # gone
                                    THEN cur' = <<[screen |-> screen, at |-> sinceAct']>> /\ pc' = next
                                    ELSE pc' = pc /\ UNCHANGED cur
    BY <1>1, <1>3 DEF Rest, Quiet
<1> QED BY <1>2, <1>3, Zenon DEF Poll

LEMMA PollsLook == /\ Wait => Looked("wait", "settle")
                   /\ Rewait => Looked("rewait", "settle")
                   /\ ExpectWait => Looked("expect", "ok")
<1>1. ASSUME Wait PROVE Looked("wait", "settle")
    BY <1>1, PollEffect, "wait" # "settle", Zenon DEF Wait
<1>2. ASSUME Rewait PROVE Looked("rewait", "settle")
    BY <1>2, PollEffect, "rewait" # "settle", Zenon DEF Rewait
<1>3. ASSUME ExpectWait PROVE Looked("expect", "ok")
    BY <1>3, PollEffect, "expect" # "ok", Zenon DEF ExpectWait
<1> QED BY <1>1, <1>2, <1>3

LEMMA CancelEffect ==
    ASSUME NEW at \in {"wait", "rewait", "expect"}, Cancelled(at)
    PROVE  /\ pc = at /\ aborted /\ pc' = "restore" /\ NoTick
           /\ UNCHANGED <<device, flow, options, aborted, index, seen, cur, target, fellBack, waited, restore,
                          report, done, inputs>>
    BY DEF Cancelled, Stay

(* The clean-up is not forgotten.                                            *)
LEMMA ReplayRunning ==
    ASSUME RunningInv, HeldInv, ReplayNext, UNCHANGED record
    PROVE  RunningInv' /\ HeldInv'
<1> USE DEF RunningInv, HeldInv, CleanUpFailed, TakenForGone, CallFailed, record, device, Stay
<1>1. CASE Wake
    BY <1>1, WakeEffect DEF Wake
<1>2. CASE Hold
    BY <1>2, HoldEffect DEF Hold
<1>3. CASE Launch
    BY <1>3, CallsFail DEF Launch
<1>4. CASE BeginStep
    BY <1>4 DEF BeginStep
<1>5. CASE Wait
    <2>1. Looked("wait", "settle")
        BY <1>5, PollsLook
    <2> QED BY <2>1 DEF Looked, Quiet, Same
<1>6. CASE WaitEnds
    BY <1>6 DEF WaitEnds, Diverge
<1>7. CASE Confirm
    BY <1>7, CallsFail DEF Confirm, Rest
<1>8. CASE Settled
    BY <1>8 DEF Settled
<1>9. CASE Rewait
    <2>1. Looked("rewait", "settle")
        BY <1>9, PollsLook
    <2> QED BY <2>1 DEF Looked, Quiet, Same
<1>10. CASE RewaitEnds
    BY <1>10 DEF RewaitEnds, Diverge
<1>11. CASE LookCached
    BY <1>11 DEF LookCached, Look, Diverge
<1>12. CASE Relook
    BY <1>12, CallsFail DEF Relook, Look, Diverge, Rest
<1>13. CASE PressBack
    BY <1>13, CallsFail DEF PressBack, Diverge
<1>14. CASE AfterBack
    BY <1>14, CallsFail DEF AfterBack, Diverge, Rest
<1>15. CASE Reached
    BY <1>15 DEF Reached, Diverge
<1>16. CASE Act
    BY <1>16, CallsFail DEF Act, Diverge, Input
<1>17. CASE Expect
    BY <1>17 DEF Expect
<1>18. CASE ExpectWait
    <2>1. Looked("expect", "ok")
        BY <1>18, PollsLook
    <2> QED BY <2>1 DEF Looked, Quiet, Same
<1>19. CASE ExpectEnds
    BY <1>19 DEF ExpectEnds, Diverge
<1>20. CASE StepDone
    BY <1>20 DEF StepDone
<1>21. CASE Describe
    BY <1>21, CallsFail DEF Describe, Rest
<1>22. CASE Restore
    BY <1>22, RestoreEffect DEF Restore
<1>23. CASE \E at \in {"wait", "rewait", "expect"} : Cancelled(at)
    BY <1>23, CancelEffect DEF NoTick
<1>24. CASE Abort
    BY <1>24 DEF Abort
<1> QED
    BY <1>1, <1>2, <1>3, <1>4, <1>5, <1>6, <1>7, <1>8, <1>9, <1>10, <1>11, <1>12, <1>13, <1>14, <1>15,
       <1>16, <1>17, <1>18, <1>19, <1>20, <1>21, <1>22, <1>23, <1>24 DEF ReplayNext, ReplayStep

(* Facts about sequences: of inputs, and of the steps of a flow.             *)
LEMMA OneMoreInput ==
    ASSUME NEW s, s \in Seq(ToSet(s)), NEW e
    PROVE  /\ Len(s) \in Nat /\ DOMAIN s = 1 .. Len(s)
           /\ Append(s, e) \in Seq(ToSet(Append(s, e)))
           /\ Len(Append(s, e)) = Len(s) + 1 /\ DOMAIN Append(s, e) = 1 .. Len(s) + 1
           /\ Append(s, e)[Len(s) + 1] = e /\ \A k \in DOMAIN s : Append(s, e)[k] = s[k]
<1> DEFINE T == ToSet(s) \cup {e}
<1>1. s \in Seq(T) /\ e \in T
    OBVIOUS
<1>2. /\ Append(s, e) \in Seq(T)
      /\ Len(s) \in Nat /\ DOMAIN s = 1 .. Len(s)
      /\ Len(Append(s, e)) = Len(s) + 1 /\ DOMAIN Append(s, e) = 1 .. Len(s) + 1
      /\ Append(s, e)[Len(s) + 1] = e /\ \A k \in DOMAIN s : Append(s, e)[k] = s[k]
    <2> HIDE DEF T
    <2> QED BY <1>1
<1>3. \A k \in 1 .. Len(Append(s, e)) : Append(s, e)[k] \in ToSet(Append(s, e))
    BY <1>2 DEF ToSet
<1> QED BY <1>2, <1>3

LEMMA NoteEffect ==
    ASSUME inputs \in Seq(ToSet(inputs)), NEW STATE kind, NEW STATE at, Note(kind, at)
    PROVE  /\ Len(inputs) \in Nat /\ DOMAIN inputs = 1 .. Len(inputs)
           /\ inputs' \in Seq(ToSet(inputs'))
           /\ Len(inputs') = Len(inputs) + 1 /\ DOMAIN inputs' = 1 .. Len(inputs) + 1
           /\ inputs'[Len(inputs) + 1] = [step |-> index, kind |-> kind, at |-> at, on |-> dev, fell |-> fellBack]
           /\ \A k \in DOMAIN inputs : inputs'[k] = inputs[k]
    BY OneMoreInput DEF Note

(* An input is sent, by the two steps that do, or its call fails.            *)
BackSent == /\ Note("hideKeyboard", <<>>) /\ pc' = "afterBack" /\ UNCHANGED <<report, lock>>
ActSent  == /\ Note(TheStep.action, Point) /\ sinceAct' = 0 /\ pc' = "acted" /\ UNCHANGED <<report, lock>>
NotSent  == /\ Diverge("action-failed") /\ UNCHANGED <<inputs, lock>>
LEMMA PressBackEffect ==
    ASSUME PressBack
    PROVE  /\ pc = "reach" /\ Unreached /\ Stay /\ Tick /\ old' = <<>>
           /\ UNCHANGED <<index, seen, cur, target, fellBack, waited, restore, done>>
           /\ BackSent \/ NotSent
<1>1. /\ pc = "reach" /\ Unreached /\ Stay /\ Tick
      /\ UNCHANGED <<index, seen, cur, target, fellBack, waited, restore, done>>
    BY Zenon DEF PressBack
<1>2. \/ old' = <<>> /\ Note("hideKeyboard", <<>>) /\ pc' = "afterBack" /\ UNCHANGED <<report, lock, held, failed>>
      \/ CallFails("input") /\ Diverge("action-failed") /\ UNCHANGED inputs
    BY Zenon DEF PressBack
<1> QED BY <1>1, <1>2, CallsFail DEF BackSent, NotSent

LEMMA ActEffect ==
    ASSUME Act
    PROVE  /\ pc = "act" /\ Stay /\ seen' = <<>> /\ UNCHANGED inStep
           /\ UNCHANGED <<index, cur, target, fellBack, restore, done>>
           /\ ActSent \/ (NotSent /\ old' = <<>> /\ sinceAct' = sinceAct)
<1>1. /\ pc = "act" /\ Stay /\ seen' = <<>> /\ UNCHANGED inStep
      /\ UNCHANGED <<index, cur, target, fellBack, restore, done>>
    BY Zenon DEF Act
<1>2. \/ lock' = lock /\ Note(TheStep.action, Point) /\ sinceAct' = 0 /\ pc' = "acted" /\ UNCHANGED report
      \/ CallFails("input") /\ Diverge("action-failed") /\ UNCHANGED <<inputs, sinceAct>>
    BY Zenon DEF Act, Input
<1> QED BY <1>1, <1>2, CallsFail DEF ActSent, NotSent

LEMMA FlowSteps ==
    ASSUME NEW steps, parseFlow(steps)
    PROVE  /\ Len(steps) \in Nat /\ DOMAIN steps = 1 .. Len(steps)
           /\ \A k \in DOMAIN steps : checkStep(steps[k])
    BY DEF parseFlow, ToSet

LEMMA ReplayTypes ==
    ASSUME ReplayTyped, ReplayNext, UNCHANGED record
    PROVE  ReplayTyped'
<1> USE DEF ReplayTyped, Working, Over, Locating, Sent, Sends, Stay, Steps, TheStep, Targeted
<1>1. CASE Wake
    BY <1>1 DEF Wake
<1>2. CASE Hold
    BY <1>2 DEF Hold
<1>3. CASE Launch
    BY <1>3 DEF Launch
<1>4. CASE BeginStep
    BY <1>4, FlowSteps DEF BeginStep, checkStep
<1>5. CASE Wait
    <2>1. Looked("wait", "settle")
        BY <1>5, PollsLook
    <2> QED BY <2>1 DEF Looked, Same
<1>6. CASE WaitEnds
    BY <1>6 DEF WaitEnds, Diverge
<1>7. CASE Confirm
    BY <1>7 DEF Confirm
<1>8. CASE Settled
    BY <1>8 DEF Settled
<1>9. CASE Rewait
    <2>1. Looked("rewait", "settle")
        BY <1>9, PollsLook
    <2> QED BY <2>1 DEF Looked, Same
<1>10. CASE RewaitEnds
    BY <1>10 DEF RewaitEnds, Diverge
<1>11. CASE LookCached
    BY <1>11 DEF LookCached, Look, Diverge
<1>12. CASE Relook
    BY <1>12 DEF Relook, Look, Diverge
<1>13. CASE PressBack
    <2>1. inputs' \in Seq(ToSet(inputs'))
        BY <1>13, PressBackEffect, NoteEffect DEF BackSent, NotSent
    <2> QED BY <2>1, <1>13, PressBackEffect DEF BackSent, NotSent, Diverge
<1>14. CASE AfterBack
    BY <1>14 DEF AfterBack, Diverge
<1>15. CASE Reached
    BY <1>15 DEF Reached, Diverge
<1>16. CASE Act
    <2>1. inputs' \in Seq(ToSet(inputs'))
        BY <1>16, ActEffect, NoteEffect DEF ActSent, NotSent
    <2> QED BY <2>1, <1>16, ActEffect DEF ActSent, NotSent, Diverge
<1>17. CASE Expect
    BY <1>17 DEF Expect
<1>18. CASE ExpectWait
    <2>1. Looked("expect", "ok")
        BY <1>18, PollsLook
    <2> QED BY <2>1 DEF Looked, Same
<1>19. CASE ExpectEnds
    BY <1>19 DEF ExpectEnds, Diverge
<1>20. CASE StepDone
    BY <1>20, FlowSteps DEF StepDone
<1>21. CASE Describe
    BY <1>21 DEF Describe
<1>22. CASE Restore
    BY <1>22 DEF Restore
<1>23. CASE \E at \in {"wait", "rewait", "expect"} : Cancelled(at)
    BY <1>23, CancelEffect DEF NoTick
<1>24. CASE Abort
    BY <1>24 DEF Abort
<1> QED
    BY <1>1, <1>2, <1>3, <1>4, <1>5, <1>6, <1>7, <1>8, <1>9, <1>10, <1>11, <1>12, <1>13, <1>14, <1>15,
       <1>16, <1>17, <1>18, <1>19, <1>20, <1>21, <1>22, <1>23, <1>24 DEF ReplayNext, ReplayStep

(* What has been sent, and in which order.                                   *)
Noted(kind) ==
    /\ DOMAIN inputs = 1 .. Len(inputs) /\ Len(inputs) \in Nat /\ DOMAIN inputs' = 1 .. Len(inputs) + 1
    /\ \A k \in DOMAIN inputs : inputs'[k] = inputs[k]
    /\ inputs'[Len(inputs) + 1].step = index /\ inputs'[Len(inputs) + 1].kind = kind
LEMMA SentIsNoted ==
    ASSUME ReplayTyped
    PROVE  /\ BackSent => Noted("hideKeyboard") /\ pc' = "afterBack" /\ UNCHANGED report
           /\ ActSent => Noted(TheStep.action) /\ pc' = "acted" /\ UNCHANGED report
<1>1. inputs \in Seq(ToSet(inputs))
    BY DEF ReplayTyped
<1>2. ASSUME NEW STATE kind, NEW STATE at, Note(kind, at) PROVE Noted(kind)
    <2>1. inputs'[Len(inputs) + 1] = [step |-> index, kind |-> kind, at |-> at, on |-> dev, fell |-> fellBack]
        BY <1>1, <1>2, NoteEffect
    <2>2. inputs'[Len(inputs) + 1].step = index /\ inputs'[Len(inputs) + 1].kind = kind
        BY <2>1
    <2> QED BY <1>1, <1>2, <2>2, NoteEffect DEF Noted
<1>3. BackSent => Noted("hideKeyboard")
    BY <1>2, Zenon DEF BackSent
<1>4. ActSent => Noted(TheStep.action)
    BY <1>2, Zenon DEF ActSent
<1> QED BY <1>3, <1>4 DEF BackSent, ActSent

LEMMA ReplaySends ==
    ASSUME ReplayTyped, InOrder, SentInv, PassedMeansDone, ReplayNext, UNCHANGED record
    PROVE  InOrder' /\ SentInv' /\ PassedMeansDone'
<1>0. /\ pc \in Working => index \in 1 .. Len(Steps) /\ DOMAIN Steps = 1 .. Len(Steps) /\ Len(Steps) \in Nat
      /\ pc \notin {"restore", "done"} => report.outcome # "passed"
      /\ report = [outcome |-> report.outcome, reason |-> report.reason, failedStep |-> report.failedStep]
      /\ pc \in Working => TheStep.action # "hideKeyboard"
    BY FlowSteps DEF ReplayTyped, checkStep, FLOW_ACTIONS, TheStep
<1> USE <1>0 DEF InOrder, SentInv, PassedMeansDone, Working, Over, Locating, Sent, Sends, IsSent, Stay, Steps, TheStep
<1>1. CASE Wake
    BY <1>1 DEF Wake
<1>2. CASE Hold
    BY <1>2 DEF Hold
<1>3. CASE Launch
    BY <1>3 DEF Launch
<1>4. CASE BeginStep
    BY <1>4 DEF BeginStep
<1>5. CASE Wait
    <2>1. Looked("wait", "settle")
        BY <1>5, PollsLook
    <2> QED BY <2>1 DEF Looked, Same
<1>6. CASE WaitEnds
    BY <1>6 DEF WaitEnds, Diverge
<1>7. CASE Confirm
    BY <1>7 DEF Confirm
<1>8. CASE Settled
    BY <1>8 DEF Settled
<1>9. CASE Rewait
    <2>1. Looked("rewait", "settle")
        BY <1>9, PollsLook
    <2> QED BY <2>1 DEF Looked, Same
<1>10. CASE RewaitEnds
    BY <1>10 DEF RewaitEnds, Diverge
<1>11. CASE LookCached
    BY <1>11 DEF LookCached, Look, Diverge
<1>12. CASE Relook
    BY <1>12 DEF Relook, Look, Diverge
<1>13. CASE PressBack
    <2>1. CASE NotSent
        BY <2>1, <1>13, PressBackEffect DEF NotSent, Diverge
    <2>2. CASE BackSent
        <3>1. Noted("hideKeyboard") /\ pc' = "afterBack" /\ UNCHANGED report
            BY <2>2, SentIsNoted
        <3>2. pc = "reach" /\ UNCHANGED <<flow, index, done>>
            BY <1>13, PressBackEffect
        <3>3. Sends(index)
            BY <3>2 DEF ReplayTyped, Targeted
        <3>4. InOrder'
            BY <3>1, <3>2 DEF Noted
        <3>5. SentInv'
            BY <3>1, <3>2, <3>3 DEF Noted
        <3> QED BY <3>1, <3>2, <3>4, <3>5
    <2> QED BY <2>1, <2>2, <1>13, PressBackEffect
<1>14. CASE AfterBack
    BY <1>14 DEF AfterBack, Diverge
<1>15. CASE Reached
    BY <1>15 DEF Reached, Diverge
<1>16. CASE Act
    <2>1. CASE NotSent
        BY <2>1, <1>16, ActEffect DEF NotSent, Diverge
    <2>2. CASE ActSent
        <3>1. Noted(TheStep.action) /\ pc' = "acted" /\ UNCHANGED report
            BY <2>2, SentIsNoted
        <3>2. pc = "act" /\ UNCHANGED <<flow, index, done>>
            BY <1>16, ActEffect
        <3>3. Sends(index)
            BY <3>2 DEF ReplayTyped, Targeted
        <3>4. InOrder'
            BY <3>1, <3>2 DEF Noted
        <3>5. SentInv'
            BY <3>1, <3>2, <3>3 DEF Noted
        <3> QED BY <3>1, <3>2, <3>4, <3>5
    <2> QED BY <2>1, <2>2, <1>16, ActEffect
<1>17. CASE Expect
    BY <1>17 DEF Expect
<1>18. CASE ExpectWait
    <2>1. Looked("expect", "ok")
        BY <1>18, PollsLook
    <2> QED BY <2>1 DEF Looked, Same
<1>19. CASE ExpectEnds
    BY <1>19 DEF ExpectEnds, Diverge
<1>20. CASE StepDone
    <2>1. /\ pc \in Sent /\ UNCHANGED <<flow, inputs>>
          /\ done' = 1 .. index
        BY <1>20 DEF StepDone
    <2>2. \A k \in 1 .. index : Sends(k) => IsSent(k)
        BY <2>1
    <2>3. CASE index < Len(Steps)
        BY <1>20, <2>1, <2>2, <2>3 DEF StepDone
    <2>4. CASE ~(index < Len(Steps))
        <3>1. index = Len(Steps) /\ pc' = "restore" /\ DOMAIN Steps = 1 .. index
            BY <1>20, <2>1, <2>4 DEF StepDone
        <3>2. \A n \in DOMAIN inputs : /\ inputs[n].step \in DOMAIN Steps /\ Sends(inputs[n].step)
                                       /\ inputs[n].kind \in {"hideKeyboard", Steps[inputs[n].step].action}
            BY <2>1, <3>1
        <3>3. PassedMeansDone'
            BY <2>1, <2>2, <3>1, <3>2
        <3> QED BY <2>1, <3>1, <3>3
    <2> QED BY <2>3, <2>4
<1>21. CASE Describe
    BY <1>21 DEF Describe
<1>22. CASE Restore
    BY <1>22 DEF Restore
<1>23. CASE \E at \in {"wait", "rewait", "expect"} : Cancelled(at)
    BY <1>23, CancelEffect DEF NoTick
<1>24. CASE Abort
    BY <1>24 DEF Abort
<1> QED
    BY <1>1, <1>2, <1>3, <1>4, <1>5, <1>6, <1>7, <1>8, <1>9, <1>10, <1>11, <1>12, <1>13, <1>14, <1>15,
       <1>16, <1>17, <1>18, <1>19, <1>20, <1>21, <1>22, <1>23, <1>24 DEF ReplayNext, ReplayStep

-----------------------------------------------------------------------------
(* The screen, and how long it has been at rest.                             *)
LEMMA MinOfTwo ==
    ASSUME NEW a \in Nat, NEW b \in Nat
    PROVE  Min({a, b}) = IF a <= b THEN a ELSE b
<1>1. \E x \in {a, b} : \A y \in {a, b} : x =< y
    OBVIOUS
<1>2. Min({a, b}) \in {a, b} /\ \A y \in {a, b} : Min({a, b}) =< y
    BY <1>1 DEF Min
<1> QED BY <1>2

LEMMA TickEffect ==
    ASSUME ClockInv, Tick
    PROVE  /\ sinceAct' \in 0 .. SETTLED /\ inStep' \in 0 .. TIMEOUT
           /\ sinceAct = 0 => sinceAct' < SETTLED
           /\ inStep = 0 => inStep' < TIMEOUT
<1>1. /\ sinceAct \in Nat /\ inStep \in Nat /\ sinceAct + 1 \in Nat /\ inStep + 1 \in Nat
      /\ SETTLED \in Nat /\ TIMEOUT \in Nat /\ SETTLED > 1 /\ TIMEOUT > 1
    BY SettlingCoversMotion DEF ClockInv
<1>2. /\ sinceAct' = IF sinceAct + 1 <= SETTLED THEN sinceAct + 1 ELSE SETTLED
      /\ inStep' = IF inStep + 1 <= TIMEOUT THEN inStep + 1 ELSE TIMEOUT
    BY <1>1, MinOfTwo DEF Tick
<1> QED BY <1>1, <1>2

LEMMA DumpsStay ==
    ASSUME dev' = dev, lock' = lock
    PROVE  /\ old' = old => Dumps' = Dumps
           /\ old' = <<>> /\ old = <<>> => Dumps' = Dumps
    BY DEF Dumps

(* What a poll finds is on the screen, or was a moment ago.                  *)
LEMMA LookSees ==
    ASSUME NEW CONSTANT at, NEW CONSTANT next,
           (at \in {"wait", "rewait"} /\ next = "settle") \/ (at = "expect" /\ next = "ok"),
           Looked(at, next), ClockInv, SeenInv
    PROVE  ClockInv' /\ SeenInv'
<1> USE DEF Looked, Quiet, Shown
<1>1. ClockInv'
    BY TickEffect DEF ClockInv, Locating
<1>2. CASE pc' = at /\ seen' = seen /\ cur' = cur
    <2>1. old = <<>> => Dumps' = Dumps
        BY DumpsStay
    <2> QED BY <1>1, <1>2, <2>1 DEF SeenInv, Locating, Sent
<1>3. CASE pc' = next /\ seen' = cur' /\ \E screen \in Dumps : cur' = <<[screen |-> screen, at |-> sinceAct']>>
    <2>1. PICK screen \in Dumps : cur' = <<[screen |-> screen, at |-> sinceAct']>>
        BY <1>3
    <2>2. cur'[1].screen = screen /\ cur'[1].at = sinceAct' /\ sinceAct' \in Nat
        BY <1>1, <2>1, SettlingCoversMotion DEF ClockInv
    <2>3. CASE old = <<>>
        <3>1. Dumps' = Dumps
            BY <2>3, DumpsStay
        <3> QED BY <1>1, <1>3, <2>1, <2>2, <3>1 DEF SeenInv, Locating, Sent
    <2>4. CASE old # <<>>
        <3>1. sinceAct = 0 /\ sinceAct' < SETTLED /\ (at = "wait" => inStep' < TIMEOUT) /\ at # "rewait"
            BY <2>4, TickEffect DEF ClockInv
        <3> QED BY <1>1, <1>3, <2>2, <3>1 DEF SeenInv, Locating, Sent
    <2> QED BY <2>3, <2>4
<1> QED BY <1>1, <1>2, <1>3

LEMMA ReplaySees ==
    ASSUME ReplayTyped, ClockInv, SeenInv, ReplayNext, UNCHANGED record
    PROVE  ClockInv' /\ SeenInv'
<1> USE DEF Locating, Sent, Stay, Shown, NoTick
<1>1. CASE Wake
    <2>1. PICK result \in {"ready", "locked", "error"} : IF options.wake THEN wakeAndUnlock(result) ELSE UNCHANGED device
        BY <1>1 DEF Wake
    <2>2. old' \in {old, <<>>}
        BY <2>1, WakeEffect DEF device
    <2>3. pc = "wake" /\ pc' \in {"hold", "restore"} /\ UNCHANGED <<sinceAct, inStep, seen>>
        BY <1>1 DEF Wake
    <2> QED BY <2>2, <2>3 DEF ClockInv, SeenInv
<1>2. CASE Hold
    <2>1. old' \in {old, <<>>}
        BY <1>2, HoldEffect DEF Hold, device
    <2>2. pc = "hold" /\ pc' = "launch" /\ UNCHANGED <<sinceAct, inStep, seen>>
        BY <1>2 DEF Hold
    <2> QED BY <2>1, <2>2 DEF ClockInv, SeenInv
<1>3. CASE Launch
    <2>1. pc = "launch" /\ pc' \in {"step", "restore"} /\ UNCHANGED <<inStep, seen>>
        BY <1>3 DEF Launch
    <2>2. sinceAct' = 0 \/ (sinceAct' = sinceAct /\ old' \in {old, <<>>})
        BY <1>3, CallsFail DEF Launch, device
    <2> QED BY <2>1, <2>2, SettlingCoversMotion DEF ClockInv, SeenInv
<1>4. CASE BeginStep
    <2>1. /\ pc = "step" /\ UNCHANGED <<dev, old, lock, sinceAct>> /\ inStep' = 0
          /\ \/ pc' = "settle" /\ seen # <<>> /\ cur' = seen /\ seen' = seen
             \/ pc' \in {"restore", "act", "wait"} /\ seen' \in {seen, <<>>}
        BY <1>4 DEF BeginStep, device, Cached
    <2>2. Dumps' = Dumps
        BY <2>1, DumpsStay
    <2> QED BY <2>1, <2>2, SettlingCoversMotion DEF ClockInv, SeenInv
<1>5. CASE Wait
    <2>1. Looked("wait", "settle")
        BY <1>5, PollsLook
    <2> QED BY <2>1, LookSees
<1>6. CASE WaitEnds
    BY <1>6, DumpsStay DEF WaitEnds, Diverge, ClockInv, SeenInv, device
<1>7. CASE Confirm
    BY <1>7, DumpsStay, TickEffect, CallsFail DEF Confirm, ClockInv, SeenInv, Rest
<1>8. CASE Settled
    <2>1. /\ pc = "settle" /\ pc' \in {"locate", "acted", "act"}
          /\ pc' = "locate" => cur[1].at >= SETTLED \/ inStep >= TIMEOUT
          /\ UNCHANGED <<dev, old, lock, sinceAct, inStep, cur, seen>>
        BY <1>8 DEF Settled, device
    <2>2. Dumps' = Dumps
        BY <2>1, DumpsStay
    <2> QED BY <2>1, <2>2, SettlingCoversMotion DEF ClockInv, SeenInv
<1>9. CASE Rewait
    <2>1. Looked("rewait", "settle")
        BY <1>9, PollsLook
    <2> QED BY <2>1, LookSees
<1>10. CASE RewaitEnds
    BY <1>10, DumpsStay DEF RewaitEnds, Diverge, ClockInv, SeenInv, device
<1>11. CASE LookCached
    BY <1>11, DumpsStay DEF LookCached, Look, Diverge, ClockInv, SeenInv, device
<1>12. CASE Relook
    BY <1>12, DumpsStay, TickEffect, CallsFail DEF Relook, Look, Diverge, ClockInv, SeenInv, Rest
<1>13. CASE PressBack
    BY <1>13, PressBackEffect, TickEffect DEF PressBack, BackSent, NotSent, Diverge, ClockInv, SeenInv
<1>14. CASE AfterBack
    BY <1>14, TickEffect, CallsFail DEF AfterBack, Diverge, Rest, ClockInv, SeenInv
<1>15. CASE Reached
    BY <1>15, DumpsStay DEF Reached, Diverge, ClockInv, SeenInv, device
<1>16. CASE Act
    BY <1>16, ActEffect, SettlingCoversMotion DEF Act, ActSent, NotSent, Diverge, ClockInv, SeenInv
<1>17. CASE Expect
    BY <1>17, DumpsStay DEF Expect, ClockInv, SeenInv, device
<1>18. CASE ExpectWait
    <2>1. Looked("expect", "ok")
        BY <1>18, PollsLook
    <2> QED BY <2>1, LookSees
<1>19. CASE ExpectEnds
    BY <1>19, DumpsStay DEF ExpectEnds, Diverge, ClockInv, SeenInv, device
<1>20. CASE StepDone
    BY <1>20, DumpsStay DEF StepDone, ClockInv, SeenInv, device
<1>21. CASE Describe
    BY <1>21, TickEffect, CallsFail DEF Describe, Rest, ClockInv, SeenInv
<1>22. CASE Restore
    BY <1>22, RestoreEffect DEF Restore, ClockInv, SeenInv
<1>23. CASE \E at \in {"wait", "rewait", "expect"} : Cancelled(at)
    BY <1>23, CancelEffect DEF ClockInv, SeenInv, device
<1>24. CASE Abort
    BY <1>24, DumpsStay DEF Abort, ClockInv, SeenInv, device
<1> QED
    BY <1>1, <1>2, <1>3, <1>4, <1>5, <1>6, <1>7, <1>8, <1>9, <1>10, <1>11, <1>12, <1>13, <1>14, <1>15,
       <1>16, <1>17, <1>18, <1>19, <1>20, <1>21, <1>22, <1>23, <1>24 DEF ReplayNext, ReplayStep

-----------------------------------------------------------------------------
(* The element a step acts on.                                               *)
LEMMA PickedStays ==
    ASSUME flow' = flow, index' = index
    PROVE  \A screen : Picked(screen)' = Picked(screen)
    BY DEF Picked, TheStep, Steps

LEMMA AtRestShowsDev ==
    ASSUME lock = "none", old = <<>>, NEW screen, screen \in Dumps
    PROVE  screen = dev
    BY DEF Dumps, ToSet

LEMMA ReplayAims ==
    ASSUME ReplayTyped, ClockInv, SeenInv, TargetInv, ReplayNext, UNCHANGED record
    PROVE  TargetInv'
<1> USE DEF Stay, NoTick
<1>1. CASE Wake
    BY <1>1 DEF Wake, TargetInv
<1>2. CASE Hold
    BY <1>2 DEF Hold, TargetInv
<1>3. CASE Launch
    BY <1>3 DEF Launch, TargetInv
<1>4. CASE BeginStep
    <2>1. pc' = "act" => fellBack'
        BY <1>4 DEF BeginStep
    <2>2. pc' # "reach"
        BY <1>4 DEF BeginStep
    <2> QED BY <2>1, <2>2 DEF TargetInv
<1>5. CASE Wait \/ Rewait \/ ExpectWait
    BY <1>5, PollsLook DEF Looked, TargetInv
<1>6. CASE WaitEnds
    BY <1>6 DEF WaitEnds, Diverge, TargetInv
<1>7. CASE Confirm
    <2>1. pc' \in {"rewait", "locate", "settle"}
        BY <1>7 DEF Confirm
    <2> QED BY <2>1 DEF TargetInv
<1>8. CASE Settled
    BY <1>8 DEF Settled, Targeted, TargetInv, TheStep, Steps
<1>9. CASE RewaitEnds
    BY <1>9 DEF RewaitEnds, Diverge, TargetInv
<1>10. CASE LookCached
    <2>1. /\ Look(cur[1].screen, "relook") /\ UNCHANGED <<flow, index, cur>>
        BY <1>10 DEF LookCached
    <2>2. PICK r \in {Picked(cur[1].screen)} :
              /\ target' = IF r.found THEN <<r.node>> ELSE <<>>
              /\ pc' \in {"describe", "reach", "relook"}
        BY <2>1 DEF Look, Diverge
    <2>3. target' = <<>> \/ (Picked(cur[1].screen).found /\ target' = <<Picked(cur[1].screen).node>>)
        BY <2>2
    <2> QED BY <2>1, <2>2, <2>3, PickedStays DEF TargetInv, IsPicked
<1>11. CASE Relook
    <2>1. UNCHANGED <<flow, index>>
        BY <1>11 DEF Relook
    <2>2. CASE CallFails("dump") /\ Diverge("action-failed") /\ UNCHANGED <<cur, target>>
        BY <2>2 DEF Diverge, TargetInv
    <2>3. CASE \E screen \in Dumps : /\ cur' = <<[screen |-> screen, at |-> sinceAct']>>
                                     /\ Look(screen, "reach")
        <3>1. PICK screen \in Dumps : /\ cur' = <<[screen |-> screen, at |-> sinceAct']>>
                                      /\ Look(screen, "reach")
            BY <2>3
        <3>2. PICK r \in {Picked(screen)} :
                  /\ target' = IF r.found THEN <<r.node>> ELSE <<>>
                  /\ pc' \in {"describe", "reach"}
            BY <3>1 DEF Look, Diverge
        <3>3. target' = <<>> \/ (Picked(screen).found /\ target' = <<Picked(screen).node>>)
            BY <3>2
        <3>4. cur'[1].screen = screen
            BY <3>1
        <3> QED BY <2>1, <3>2, <3>3, <3>4, PickedStays DEF TargetInv, IsPicked
    <2> QED BY <1>11, <2>2, <2>3, Zenon DEF Relook
<1>12. CASE PressBack
    BY <1>12, PressBackEffect DEF BackSent, NotSent, Diverge, TargetInv
<1>13. CASE AfterBack
    <2>1. UNCHANGED <<flow, index>> /\ pc = "afterBack"
        BY <1>13 DEF AfterBack
    <2>2. CASE CallFails("dump") /\ Diverge("action-failed") /\ UNCHANGED target
        BY <2>2 DEF Diverge, TargetInv
    <2>3. CASE \E screen \in Dumps :
                  /\ Rest
                  /\ \E r \in {Picked(screen)} :
                       /\ target' = IF r.found THEN <<r.node>> ELSE <<>>
                       /\ IF r.found THEN pc' = "act" /\ UNCHANGED report
                          ELSE Diverge(CASE r.reason = "none" -> "not-found" [] OTHER -> r.reason)
        <3>1. PICK screen \in Dumps :
                  /\ Rest
                  /\ \E r \in {Picked(screen)} :
                       /\ target' = IF r.found THEN <<r.node>> ELSE <<>>
                       /\ IF r.found THEN pc' = "act" ELSE pc' = "describe"
            BY <2>3 DEF Diverge
        <3>2. lock' = "none" => screen = dev'
            BY <2>1, <3>1, AtRestShowsDev DEF Rest, ClockInv, Locating
        <3>3. pc' \in {"act", "describe"} /\ (pc' = "act" => Picked(screen).found /\ target' = <<Picked(screen).node>>)
            BY <3>1
        <3> QED BY <2>1, <3>2, <3>3, PickedStays DEF TargetInv, IsPicked
    <2> QED BY <1>13, <2>2, <2>3, Zenon DEF AfterBack
<1>14. CASE Reached
    <2>1. pc = "reach" /\ UNCHANGED <<flow, index, target, dev, lock, cur>>
        BY <1>14 DEF Reached, device
    <2>2. pc' = "describe" \/ (pc' = "act" /\ target # <<>>)
        BY <1>14 DEF Reached, Diverge
    <2>3. lock = "none" => cur[1].screen = dev
        BY <2>1, AtRestShowsDev DEF SeenInv, Shown, ClockInv, Locating
    <2> QED BY <2>1, <2>2, <2>3, PickedStays DEF TargetInv, IsPicked
<1>15. CASE Act
    BY <1>15, ActEffect DEF ActSent, NotSent, Diverge, TargetInv
<1>16. CASE Expect
    BY <1>16 DEF Expect, TargetInv
<1>17. CASE ExpectEnds
    BY <1>17 DEF ExpectEnds, Diverge, TargetInv
<1>18. CASE StepDone
    BY <1>18 DEF StepDone, TargetInv
<1>19. CASE Describe
    BY <1>19 DEF Describe, TargetInv
<1>20. CASE Restore
    BY <1>20 DEF Restore, TargetInv
<1>21. CASE \E at \in {"wait", "rewait", "expect"} : Cancelled(at)
    BY <1>21, CancelEffect DEF TargetInv
<1>22. CASE Abort
    BY <1>22, PickedStays DEF Abort, TargetInv, device, IsPicked, TheStep, Steps
<1> QED
    BY <1>1, <1>2, <1>3, <1>4, <1>5, <1>6, <1>7, <1>8, <1>9, <1>10, <1>11, <1>12, <1>13, <1>14, <1>15, <1>16,
       <1>17, <1>18, <1>19, <1>20, <1>21, <1>22 DEF ReplayNext, ReplayStep

(* A step that sends nothing, with the device as locked as it was.           *)
LEMMA InputsStay ==
    ASSUME InputsMeanTheirSteps, UNCHANGED <<flow, inputs>>, inputs # <<>> => lock' = lock
    PROVE  InputsMeanTheirSteps'
    BY DEF InputsMeanTheirSteps, TapsWhatItNames, BackOnlyWithKeyboard, Steps

LEMMA LockStays ==
    ASSUME ReplayTyped, ReplayNext, ~PressBack, ~Act
    PROVE  UNCHANGED <<flow, inputs>> /\ (inputs # <<>> => lock' = lock)
<1> USE DEF Stay
<1>1. CASE Wake
    BY <1>1 DEF Wake, ReplayTyped
<1>2. CASE Hold
    BY <1>2, HoldEffect DEF Hold, device
<1>3. CASE Launch
    BY <1>3, CallsFail DEF Launch, device
<1>4. CASE BeginStep \/ WaitEnds \/ Settled \/ RewaitEnds \/ LookCached \/ Reached
    BY <1>4 DEF BeginStep, WaitEnds, Settled, RewaitEnds, LookCached, Reached, device
<1>5. CASE Expect \/ ExpectEnds \/ StepDone \/ Abort
    BY <1>5 DEF Expect, ExpectEnds, StepDone, Abort, device
<1>6. CASE Wait \/ Rewait \/ ExpectWait
    BY <1>6, PollsLook DEF Looked, Quiet, Same
<1>7. CASE Confirm
    BY <1>7, CallsFail DEF Confirm, Rest
<1>8. CASE Relook
    BY <1>8, CallsFail DEF Relook, Rest
<1>9. CASE AfterBack
    BY <1>9, CallsFail DEF AfterBack, Rest
<1>10. CASE Describe
    BY <1>10, CallsFail DEF Describe, Rest
<1>11. CASE Restore
    BY <1>11, RestoreEffect DEF Restore
<1>12. CASE \E at \in {"wait", "rewait", "expect"} : Cancelled(at)
    BY <1>12, CancelEffect DEF device
<1> QED
    BY <1>1, <1>2, <1>3, <1>4, <1>5, <1>6, <1>7, <1>8, <1>9, <1>10, <1>11, <1>12 DEF ReplayNext, ReplayStep

LEMMA ReplayMeans ==
    ASSUME ReplayTyped, ClockInv, SeenInv, TargetInv, InputsMeanTheirSteps, ReplayNext, UNCHANGED record
    PROVE  InputsMeanTheirSteps'
<1>1. CASE ~PressBack /\ ~Act
    BY <1>1, LockStays, InputsStay
<1>2. inputs \in Seq(ToSet(inputs))
    BY DEF ReplayTyped
<1>3. CASE PressBack
    <2>1. /\ pc = "reach" /\ Unreached /\ flow' = flow
          /\ BackSent \/ NotSent
        BY <1>3, PressBackEffect DEF Stay
    <2>2. CASE NotSent
        BY <2>1, <2>2, InputsStay DEF NotSent
    <2>3. CASE BackSent
        <3>1. /\ DOMAIN inputs = 1 .. Len(inputs) /\ Len(inputs) \in Nat
              /\ DOMAIN inputs' = 1 .. Len(inputs) + 1 /\ Len(inputs') = Len(inputs) + 1
              /\ \A k \in DOMAIN inputs : inputs'[k] = inputs[k]
              /\ inputs'[Len(inputs) + 1] = [step |-> index, kind |-> "hideKeyboard", at |-> <<>>, on |-> dev,
                                             fell |-> fellBack]
            BY <1>2, <2>3, NoteEffect DEF BackSent
        <3>2. inputs'[Len(inputs) + 1].kind = "hideKeyboard" /\ inputs'[Len(inputs) + 1].on = dev
            BY <3>1
        <3>3. Shot[dev].keyboard # None
            <4>1. cur[1].screen \in Dumps /\ old = <<>> /\ Shot[cur[1].screen].keyboard # None
                BY <2>1 DEF SeenInv, ClockInv, Locating, Shown, Unreached, KeyboardUp
            <4>2. cur[1].screen = IF lock = "none" THEN dev ELSE LockScreen
                BY <4>1 DEF Dumps, ToSet
            <4> QED BY <4>1, <4>2, NoKeyboardOnLockScreen
        <3>4. BackOnlyWithKeyboard'
            BY <3>1, <3>2, <3>3 DEF BackOnlyWithKeyboard, InputsMeanTheirSteps
        <3>5. TapsWhatItNames'
            BY <3>1, <3>2 DEF TapsWhatItNames
        <3> QED BY <3>4, <3>5 DEF InputsMeanTheirSteps
    <2> QED BY <2>1, <2>2, <2>3
<1>4. CASE Act
    <2>1. /\ pc = "act" /\ UNCHANGED <<flow, index>>
          /\ ActSent \/ NotSent
        BY <1>4, ActEffect DEF Stay
    <2>2. CASE NotSent
        BY <2>1, <2>2, InputsStay DEF NotSent
    <2>3. CASE ActSent
        <3>1. /\ DOMAIN inputs = 1 .. Len(inputs) /\ Len(inputs) \in Nat
              /\ DOMAIN inputs' = 1 .. Len(inputs) + 1 /\ Len(inputs') = Len(inputs) + 1
              /\ \A k \in DOMAIN inputs : inputs'[k] = inputs[k]
              /\ inputs'[Len(inputs) + 1] = [step |-> index, kind |-> TheStep.action, at |-> Point, on |-> dev,
                                             fell |-> fellBack]
            BY <1>2, <2>3, NoteEffect DEF ActSent
        <3> DEFINE i == inputs'[Len(inputs')]
        <3>2. /\ i.step = index /\ i.kind = TheStep.action /\ i.at = Point /\ i.on = dev /\ i.fell = fellBack
            BY <3>1
        <3>3. BackOnlyWithKeyboard'
            <4>1. TheStep.action # "hideKeyboard"
                BY <2>1, FlowSteps DEF ReplayTyped, Working, TheStep, checkStep, FLOW_ACTIONS
            <4> QED BY <3>1, <3>2, <4>1 DEF BackOnlyWithKeyboard, InputsMeanTheirSteps
        <3>4. TapsWhatItNames'
            <4>1. SUFFICES ASSUME TheStep.action \notin {"keyEvent", "hideKeyboard"}, ~fellBack, lock' = "none"
                           PROVE  Picked(dev).found /\ Center(Picked(dev).node.b) = Point
                BY <2>1, <3>1, <3>2 DEF TapsWhatItNames, Picked, TheStep, Steps
            <4>2. Picked(dev).found /\ target = <<Picked(dev).node>>
                BY <2>1, <2>3, <4>1 DEF TargetInv, IsPicked, ActSent
            <4>3. Point = Center(target[1].b)
                BY <4>2 DEF Point
            <4> QED BY <4>2, <4>3
        <3> QED BY <3>3, <3>4 DEF InputsMeanTheirSteps
    <2> QED BY <2>1, <2>2, <2>3
<1> QED BY <1>1, <1>3, <1>4

-----------------------------------------------------------------------------
(* Every step of the two commands, and of the replay's beginning.            *)
LEMMA InvInit == Init => FlowInv
<1> SUFFICES ASSUME Init PROVE FlowInv
    OBVIOUS
<1>1. PICK opts : ReplayInit(NoFlow, opts)
    BY DEF Init
<1>2. RunningInv /\ HeldInv
    BY <1>1 DEF Init, DeviceInit, RecordInit, ReplayInit, RunningInv, HeldInv
<1>3. ReplayTyped /\ InOrder /\ SentInv
    BY <1>1 DEF ReplayInit, ReplayTyped, InOrder, SentInv, Working, Over, Locating, Sent, Sends, Targeted
<1>4. ClockInv /\ SeenInv /\ TargetInv
    BY <1>1, SettlingCoversMotion DEF Init, DeviceInit, ReplayInit, ClockInv, SeenInv, TargetInv, Locating, Sent
<1>5. NothingLeftRunning
    BY <1>1 DEF Init, DeviceInit, RecordInit, ReplayInit, NothingLeftRunning
<1>6. InputsMeanTheirSteps
    BY <1>1 DEF ReplayInit, InputsMeanTheirSteps, TapsWhatItNames, BackOnlyWithKeyboard
<1>7. PassedMeansDone
    BY <1>1 DEF ReplayInit, PassedMeansDone, InOrder
<1> QED BY <1>2, <1>3, <1>4, <1>5, <1>6, <1>7 DEF FlowInv

LEMMA InvStep == FlowInv /\ [Next]_vars => FlowInv'
<1> SUFFICES ASSUME FlowInv, [Next]_vars PROVE FlowInv'
    OBVIOUS
<1> USE DEF FlowInv
<1>1. CASE RecordNext /\ UNCHANGED replay
    <2>1. RunningInv' /\ HeldInv' /\ (pc = "idle" \/ UNCHANGED device)
        BY <1>1, RecordRunning
    <2>2. ReplayTyped' /\ InOrder' /\ SentInv' /\ PassedMeansDone'
        BY <1>1 DEF replay, ReplayTyped, InOrder, SentInv, PassedMeansDone, Steps, TheStep, Sends, IsSent, Targeted
    <2>3. CASE pc = "idle"
        <3>1. inputs = <<>>
            BY <2>3 DEF ReplayTyped
        <3>2. InputsMeanTheirSteps'
            BY <1>1, <3>1, InputsStay DEF replay
        <3>3. ClockInv' /\ SeenInv' /\ TargetInv'
            BY <1>1, <2>3 DEF replay, ClockInv, SeenInv, TargetInv, Locating, Sent
        <3> QED BY <2>1, <2>2, <3>2, <3>3 DEF RunningInv, HeldInv, NothingLeftRunning, CleanUpFailed, TakenForGone, CallFailed
    <2>4. CASE UNCHANGED device
        <3>1. InputsMeanTheirSteps'
            BY <1>1, <2>4, InputsStay DEF replay, device
        <3>2. ClockInv' /\ SeenInv' /\ TargetInv'
            BY <1>1, <2>4, DumpsStay, PickedStays DEF replay, device, ClockInv, SeenInv, TargetInv,
               Locating, Sent, Shown, IsPicked, TheStep, Steps
        <3> QED BY <2>1, <2>2, <3>1, <3>2 DEF RunningInv, HeldInv, NothingLeftRunning, CleanUpFailed, TakenForGone, CallFailed
    <2> QED BY <2>1, <2>3, <2>4
<1>2. CASE ReplayNext /\ UNCHANGED record
    <2>1. RunningInv' /\ HeldInv'
        BY <1>2, ReplayRunning
    <2>2. ReplayTyped'
        BY <1>2, ReplayTypes
    <2>3. InOrder' /\ SentInv' /\ PassedMeansDone'
        BY <1>2, ReplaySends
    <2>4. ClockInv' /\ SeenInv' /\ TargetInv' /\ InputsMeanTheirSteps'
        BY <1>2, ReplaySees, ReplayAims, ReplayMeans
    <2> QED BY <2>1, <2>2, <2>3, <2>4 DEF RunningInv, HeldInv, NothingLeftRunning, CleanUpFailed, TakenForGone, CallFailed
<1>3. CASE RunFlow
    <2>1. PICK steps : parseFlow(steps) /\ flow'.steps = steps /\ pc' = IF steps = <<>> THEN "done" ELSE "wake"
        BY <1>3 DEF RunFlow
    <2>2. /\ pc = "idle" /\ rpc = "done"
          /\ UNCHANGED <<device, record, index, seen, cur, target, fellBack, sinceAct, inStep, restore, report,
                         done, inputs>>
        BY <1>3 DEF RunFlow
    <2>3. inputs = <<>> /\ report.outcome # "passed"
        BY <2>2 DEF ReplayTyped
    <2>4. RunningInv' /\ HeldInv' /\ NothingLeftRunning'
        BY <2>1, <2>2 DEF RunningInv, HeldInv, NothingLeftRunning, CleanUpFailed, TakenForGone, CallFailed, device, record
    <2>5. pc' = "wake" => 1 \in DOMAIN steps
        BY <2>1, FlowSteps DEF parseFlow
    <2>6. ReplayTyped'
        BY <2>1, <2>2, <2>3, <2>5 DEF ReplayTyped, SentInv, Steps, Working, Over, Locating, Sent
    <2>7. InOrder' /\ SentInv' /\ PassedMeansDone'
        BY <2>1, <2>2, <2>3 DEF InOrder, SentInv, PassedMeansDone, Sent, Working, Over, Locating
    <2>8. ClockInv' /\ SeenInv' /\ TargetInv'
        BY <2>1, <2>2 DEF ClockInv, SeenInv, TargetInv, Locating, Sent, device
    <2>9. InputsMeanTheirSteps'
        BY <2>2, <2>3 DEF InputsMeanTheirSteps, TapsWhatItNames, BackOnlyWithKeyboard
    <2> QED BY <2>4, <2>6, <2>7, <2>8, <2>9
<1>4. CASE UNCHANGED vars
    <2>1. UNCHANGED <<device, record, replay>>
        BY <1>4 DEF vars
    <2>2. RunningInv' /\ HeldInv' /\ NothingLeftRunning'
        BY <2>1 DEF RunningInv, HeldInv, NothingLeftRunning, CleanUpFailed, TakenForGone, CallFailed, device, record, replay
    <2>3. ReplayTyped' /\ InOrder' /\ SentInv' /\ PassedMeansDone'
        BY <2>1 DEF replay, ReplayTyped, InOrder, SentInv, PassedMeansDone, Steps, TheStep, Sends, IsSent, Targeted
    <2>4. ClockInv' /\ SeenInv' /\ TargetInv'
        BY <2>1, DumpsStay, PickedStays DEF replay, device, ClockInv, SeenInv, TargetInv,
           Locating, Sent, Shown, IsPicked, TheStep, Steps
    <2>5. InputsMeanTheirSteps'
        BY <2>1, InputsStay DEF replay, device
    <2> QED BY <2>2, <2>3, <2>4, <2>5
<1>5. CASE UNCHANGED vars /\ (pc = "done" \/ (rpc = "done" /\ ends = "error"))
    BY <1>4, <1>5
<1> QED BY <1>1, <1>2, <1>3, <1>4, <1>5 DEF Next

LEMMA InvIsInvariant == Spec => []FlowInv
    BY InvInit, InvStep, PTL DEF Spec

-----------------------------------------------------------------------------
(* record.ts's and replay.ts's `finally`: for every app, every user and any  *)
(* number of failures, no touch log is left behind; a recorder only when its *)
(* start or a clean-up of `finally` gave no answer, or a look at it or its   *)
(* SIGKILL was refused; a screen timeout only when holding or restoring it   *)
(* failed.                                                                   *)
THEOREM NothingIsLeftRunning == Spec => []NothingLeftRunning
<1>1. FlowInv => NothingLeftRunning
    BY DEF FlowInv
<1> QED BY <1>1, InvIsInvariant, PTL

(* settled, locateTarget and performInput: whatever app the flow drives and  *)
(* however its screens move, an input sent to an element lands where that    *)
(* element is by then, and Back is only pressed on a keyboard.               *)
THEOREM InputsLandOnTheirSteps == Spec => []InputsMeanTheirSteps
<1>1. FlowInv => InputsMeanTheirSteps
    BY DEF FlowInv
<1> QED BY <1>1, InvIsInvariant, PTL

(* replay's loop over the steps: for every flow that parseFlow accepts, a    *)
(* replay sends inputs in the order of the steps, and one that passes has    *)
(* sent the input of each.                                                   *)
THEOREM PassedReplaysAreDone == Spec => []PassedMeansDone
<1>1. FlowInv => PassedMeansDone
    BY DEF FlowInv
<1> QED BY <1>1, InvIsInvariant, PTL

===============================================================================
