------------------------------ MODULE FlowDevice ------------------------------
(***************************************************************************)
(* The device that `record` and `replay` work on: the screen its app       *)
(* shows, the inputs that change it, and the calls that look at it.        *)
(*                                                                         *)
(* A change of screen takes time: until a dump has been taken after it, a  *)
(* dump may still show the screen before.  A call may throw, or be refused: *)
(* hdc then answers all the same (`[Fail]...`), which not every caller sees.*)
(* Either way it was not run, unless the action says otherwise.            *)
(***************************************************************************)
EXTENDS FlowRecording

CONSTANTS Devices,          \* what the app and the keyboard can show
          Home,             \* what a launch shows
          LockScreen,       \* what a locked device shows
          Shot,             \* the dump of each of these screens (LayoutTree!dumpLayout)
          After(_, _),      \* what an input makes of one of Devices
          Ime,              \* the input method's bundle
          MaxFaults         \* calls that may fail

\* A keyboard types into an app, not over the lock screen that a swipe takes away.
ASSUME NoKeyboardOnLockScreen == Shot[LockScreen].keyboard = None

VARIABLES dev,      \* what the screen shows, once it is at rest
          old,      \* <<what it showed before>> while it is moving
          lock,     \* the lock screen: "none", "swipe" or "pin"
          held,     \* the screen timeout is overridden
          failed    \* the calls that failed, and how: <<call, "throws" or "refused">>
device == <<dev, old, lock, held, failed>>

DeviceInit == /\ dev = Home /\ old = <<>> /\ held = FALSE
              /\ lock \in {"none", "swipe", "pin"} /\ failed = {}

AtRest == old = <<>>

\* The screens that a dump may show now.
Dumps == IF lock # "none" THEN {LockScreen} ELSE {dev} \union ToSet(old)

isLockScreenShown(tree) == \E n \in ToSet(flattenLayout(tree)) : n.id = "ScreenLockRootComponent"

\* Time passes; an input is sent; a call throws, or is refused.
Rest      == old' = <<>> /\ UNCHANGED <<dev, lock, held, failed>>
Input(i)  == /\ dev' = IF lock = "none" THEN After(dev, i) ELSE dev
             /\ old' = IF dev' = dev THEN <<>> ELSE <<dev>>
             /\ UNCHANGED <<lock, held, failed>>
GoesWrong(call, how) == /\ Cardinality(failed) < MaxFaults /\ <<call, how>> \notin failed
                        /\ failed' = failed \union {<<call, how>>}
                        /\ old' = <<>> /\ UNCHANGED <<dev, lock>>
CallFails(call)  == GoesWrong(call, "throws") /\ UNCHANGED held
Refused(call)    == GoesWrong(call, "refused") /\ UNCHANGED held
CallFailed(calls, how) == \E c \in calls : <<c, how>> \in failed

\* ------------------------------------------------------------- power.ts
\* A lock screen without a credential is swiped away; a look at it that fails is no lock screen.
wakeAndUnlock(result) ==
    \/ /\ result = IF lock = "pin" THEN "locked" ELSE "ready"
       /\ lock' = IF lock = "swipe" THEN "none" ELSE lock
       /\ UNCHANGED <<dev, old, held, failed>>
    \/ result \in {"ready", "error"} /\ CallFails("wake")

\* A failure to hold the screen on, or to restore its timeout, is no failure of the command.  A hold
\* whose answer is lost may hold all the same.
holdScreenOn(restores) ==
    \/ restores /\ held' = TRUE /\ UNCHANGED <<dev, old, lock, failed>>
    \/ ~restores /\ GoesWrong("hold", "throws") /\ held' \in {held, TRUE}
restoreScreenOn(restores) ==
    IF restores THEN \/ held' = FALSE /\ UNCHANGED <<dev, old, lock, failed>>
                     \/ CallFails("restore")
    ELSE UNCHANGED device
=============================================================================
