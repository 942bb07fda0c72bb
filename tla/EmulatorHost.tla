---------------------------- MODULE EmulatorHost ----------------------------
(***************************************************************************)
(* What the emulator commands promise about the QEMU processes of a host:  *)
(* an emulator is launched only when it is not running, and the default    *)
(* emulator (which opens the base images read-write) and the pool          *)
(* instances (which keep them open as read-only backing files) never run   *)
(* together.  Any number of emulators may end at any moment.               *)
(***************************************************************************)
CONSTANTS
    Pool,      \* the pool instances
    Default,   \* the emulator that run.sh launches
    Processes  \* process ids

VARIABLE runs  \* per emulator: the processes that run it

Emulators == Pool \cup {Default}

Init == runs = [n \in Emulators |-> {}]

Launch(n, p) ==
    /\ runs[n] = {}
    /\ n = Default => \A m \in Pool : runs[m] = {}
    /\ n \in Pool => runs[Default] = {}
    /\ runs' = [runs EXCEPT ![n] = {p}]

Exit ==
    /\ runs' \in [Emulators -> SUBSET Processes]
    /\ \A n \in Emulators : runs'[n] \subseteq runs[n]

Next == Exit \/ \E n \in Emulators, p \in Processes : Launch(n, p)

Spec == Init /\ [][Next]_runs
==============================================================================
