----------------------------- MODULE DeviceProofs -----------------------------
(***************************************************************************)
(* What holds of the commands that drive a device.  ApplyChanges, for every*)
(* number of processes and of polls: a success has the HAP on the device,  *)
(* the device is spared, and on a device that settles before the           *)
(* installation what is reported or passed as alive runs the new HAP.      *)
(* PerfCapture and TestRun: the device is given back, and a capture that is*)
(* ok measured what it was asked to.                                       *)
(***************************************************************************)
EXTENDS MCDevice, TLAPS

------------------------------------------------------------------------------
(* Applying a build (ApplyChanges).                                          *)

PidsOrNone == Pids \cup {NoPid}
Smoking    == {"smokePid", "smokeAgain", "smokeProbe"}
(* Where a command can be: what it has behind it is read off its pc.         *)
Rebooted   == {"waitDown", "waitUp", "finalPid", "launch", "done"} \cup Smoking
Installs   == {"install", "uninstall", "freshInstall"}
HasHap     == {"verify", "postPid", "reboot", "waitDown", "waitUp", "finalPid", "launch"} \cup Smoking
Looking    == {"start", "stop", "prePid", "verify", "postPid", "reboot", "waitDown", "waitUp"} \cup Installs
PCs        == Looking \cup Rebooted

Methods == {"none", "replace", "uninstall-install", "reboot"}
Results == {"none", "ok", "failed", "refused", "timeout"}
Locals == [pc : PCs, pre : PidsOrNone, post : PidsOrNone, method : Methods, result : Results,
           polls : Nat, wedged : Nat, ready : Nat, asked : Nat, seen : PidsOrNone, again : PidsOrNone,
           passed : BOOLEAN]

(* The steps of each command.                                                *)
Itinerary(cmd, pc) ==
    /\ pc \in {"prePid", "install", "verify", "postPid", "finalPid"} => cmd = "apply"
    /\ pc = "freshInstall" => cmd \in {"apply", "install"}
    /\ pc = "uninstall" => cmd \in {"apply", "uninstall"}
    /\ pc = "stop" => cmd = "stop"
    /\ pc \in {"launch"} \cup Smoking => cmd \in {"apply", "launch"}
    /\ pc \in {"reboot", "waitDown"} => cmd \in {"apply", "reboot"}
    /\ pc = "waitUp" => cmd \in {"apply", "reboot", "waitBundle", "waitBoot"}

LocalsTyped ==
    /\ run \in Locals
    /\ Itinerary(opt.cmd, run.pc)
    /\ run.pc = "done" <=> run.result # "none"
    /\ opt.cmd # "apply" => run.method = "none"

(* A command reboots the device once at most.                                *)
RebootsOnce ==
    /\ run.pc \notin Rebooted => boots = 0 /\ ~rebooting
    /\ boots = 0 \/ (boots = 1 /\ ~rebooting)

(* Only a TCP session outlives its device; a poll that finds the application *)
(* up behind one has counted it as wedged.                                   *)
WedgedInv ==
    /\ link = "dead" => opt.tcp
    /\ run.pc \in Looking => run.polls < MaxPolls
    /\ run.pc \in Looking \/ run.result = "timeout" => run.ready <= run.wedged

TypeInv == TypeOK /\ LocalsTyped /\ RebootsOnce /\ WedgedInv

(* What is on the device, and what may be taken off it.                      *)
InstalledInv ==
    /\ opt.cmd \in {"apply", "install"} /\ (run.pc \in HasHap \/ run.result = "ok") => installed = "new"
    /\ opt.cmd = "apply" /\ run.pc = "uninstall" => Mismatch /\ (~opt.isSystemBundle \/ opt.allowUninstall)

(* An asset path is stale only if the HAP changes one.                       *)
CacheInv ==
    /\ cached => opt.assetsChanged
    /\ \A p \in Pids : ran[p] = "cached" => opt.assetsChanged

(* Before the installation the process is the one that was read; after it,   *)
(* one that runs the old HAP is that one still.                              *)
OldProcessInv ==
    opt.cmd = "apply" =>
        /\ run.pc \in {"install", "uninstall"} /\ Reachable => proc = run.pre
        /\ run.pc = "freshInstall" => IF installed = "none" THEN proc = NoPid ELSE Mismatch
        /\ run.pc \in {"verify", "postPid"} /\ proc # NoPid /\ ran[proc] = "old"
              => proc = run.pre /\ opt.isSystemBundle

(* After a reboot only the new HAP runs, and so it does without one when the *)
(* pid told so.                                                              *)
NewProcessInv ==
    opt.cmd = "apply" =>
        /\ run.pc \in {"reboot", "waitDown", "waitUp", "finalPid"} => run.method = "reboot"
        /\ run.method = "reboot" /\ run.pc \in Rebooted \ {"done"} /\ boots > run.asked
              => ~cached /\ (proc # NoPid => ran[proc] = "new")
        /\ run.pc \in {"launch"} \cup Smoking /\ run.method # "reboot" /\ run.post # NoPid
              => ~opt.assetsChanged /\ (proc # NoPid => ran[proc] = "new")

SettledInv == CacheInv /\ OldProcessInv /\ NewProcessInv
------------------------------------------------------------------------------
LEMMA ConstantTypes == MaxStarts \in Nat /\ MaxPolls \in Nat /\ MaxPolls > 0 /\ NoPid \notin Pids
BY ApplyAssumption DEF Pids, NoPid

LEMMA PcNames ==
    /\ PCs = {"start", "stop", "prePid", "install", "uninstall", "freshInstall", "verify", "postPid", "reboot", "waitDown",
              "waitUp", "finalPid", "launch", "smokePid", "smokeAgain", "smokeProbe", "done"}
    /\ Rebooted = {"waitDown", "waitUp", "finalPid", "launch", "smokePid", "smokeAgain", "smokeProbe", "done"}
    /\ Looking = {"start", "stop", "prePid", "install", "uninstall", "freshInstall", "verify", "postPid", "reboot", "waitDown",
                  "waitUp"}
    /\ HasHap = {"verify", "postPid", "reboot", "waitDown", "waitUp", "finalPid", "launch", "smokePid", "smokeAgain",
                 "smokeProbe"}
BY DEF PCs, Looking, Rebooted, HasHap, Installs, Smoking

LEMMA TypeInvInit == Init => TypeInv
<1> SUFFICES ASSUME Init PROVE TypeInv
    OBVIOUS
<1> USE ConstantTypes DEF Init
<1>1. TypeOK
    <2>1. opt \in Options /\ boots \in 0..2 /\ installed \in {"none", "old", "new"} /\ crash \in {"none", "unwritten", "logged"}
        OBVIOUS
    <2>6. {up, rebooting, cached} \subseteq BOOLEAN
        OBVIOUS
    <2>2. run.polls \in 0..MaxPolls /\ run.wedged \in 0..WEDGED_POLLS_BEFORE_RESTART - 1
        BY DEF WEDGED_POLLS_BEFORE_RESTART
    <2>3. proc \in Pids \cup {NoPid}
        BY ApplyAssumption DEF Pids, NoPid
    <2>4. ran \in [Pids -> {"nothing", "old", "new", "cached"}]
        OBVIOUS
    <2>5. proc \in Started \cup {NoPid}
        BY <2>3 DEF Started
    <2> QED BY <2>1, <2>2, <2>4, <2>5, <2>6 DEF TypeOK
<1>2. LocalsTyped
    BY PcNames DEF LocalsTyped, Itinerary, Smoking, Locals, PidsOrNone, Methods, Results
<1>3. RebootsOnce /\ WedgedInv
    BY PcNames DEF RebootsOnce, WedgedInv
<1> QED BY <1>1, <1>2, <1>3 DEF TypeInv

------------------------------------------------------------------------------
(* What a step does to the locals.                                           *)
SameReads == run'.pre = run.pre /\ run'.post = run.post /\ run'.seen = run.seen /\ run'.again = run.again
SamePolls == run'.polls = run.polls /\ run'.wedged = run.wedged /\ run'.ready = run.ready /\ run'.asked = run.asked
Arrives(pc) == run'.pc = pc /\ run'.result = run.result
Ended     == run'.pc = "done" /\ run'.result \in Results \ {"none", "timeout"}

LEMMA Going ==
    ASSUME run \in Locals, NEW pc \in PCs, Goto(pc)
    PROVE  run' \in Locals /\ Arrives(pc) /\ run'.method = run.method /\ SameReads /\ SamePolls
BY DEF Locals, Goto, Arrives, SameReads, SamePolls

LEMMA Finishing ==
    ASSUME run \in Locals, NEW e \in Results, Finish(e)
    PROVE  /\ run' \in Locals /\ run'.pc = "done" /\ run'.result = e
           /\ run'.method = run.method /\ SameReads /\ SamePolls
BY PcNames DEF Locals, Finish, Arrives, SameReads, SamePolls

LEMMA StartMoves ==
    ASSUME TypeInv, Start
    PROVE  /\ run.pc = "start" /\ Still
           /\ run' \in Locals /\ run'.method = run.method /\ SameReads /\ SamePolls
           /\ \/ Ended /\ run'.result = "failed"
              \/ Arrives("prePid") /\ opt.cmd = "apply"
              \/ Arrives("freshInstall") /\ opt.cmd = "install"
              \/ Arrives("waitUp") /\ opt.cmd \in {"waitBundle", "waitBoot"}
              \/ Arrives("uninstall") /\ opt.cmd = "uninstall"
              \/ Arrives("stop") /\ opt.cmd = "stop"
              \/ Arrives("launch") /\ opt.cmd = "launch"
              \/ Arrives("reboot") /\ opt.cmd = "reboot"
<1>1. run \in Locals /\ opt.cmd \in Commands
    BY DEF TypeInv, LocalsTyped, TypeOK, Options
<1>2. CASE Finish("failed")
    BY <1>1, <1>2, Finishing DEF Start, Ended, Results
<1>3. CASE \E pc \in PCs : Goto(pc) /\ \/ pc = "prePid" /\ opt.cmd = "apply"
                                       \/ pc = "freshInstall" /\ opt.cmd = "install"
                                       \/ pc = "waitUp" /\ opt.cmd \in {"waitBundle", "waitBoot"}
                                       \/ pc \in {"uninstall", "stop", "launch", "reboot"} /\ opt.cmd = pc
    BY <1>1, <1>3, Going DEF Start
<1>4. \/ Finish("failed")
      \/ opt.cmd = "apply" /\ Goto("prePid")
      \/ opt.cmd = "install" /\ Goto("freshInstall")
      \/ opt.cmd \in {"waitBundle", "waitBoot"} /\ Goto("waitUp")
      \/ opt.cmd \in {"uninstall", "stop", "launch", "reboot"} /\ Goto(opt.cmd)
    BY <1>1 DEF Start, Commands
<1> QED BY <1>2, <1>3, <1>4, PcNames
LEMMA Reads == ASSUME TypeInv, NEW p \in PidReads PROVE p \in PidsOrNone /\ p \in Started \cup {NoPid} /\ (p # NoPid => p = proc)
BY DEF PidReads, TypeInv, TypeOK, PidsOrNone, Started

LEMMA PrePidMoves ==
    ASSUME TypeInv, PrePid
    PROVE  /\ run.pc = "prePid" /\ Still
           /\ run' \in Locals /\ run'.method = run.method /\ SamePolls
           /\ run'.post = run.post /\ run'.seen = run.seen /\ run'.again = run.again
           /\ \/ Ended /\ run'.result = "failed" /\ run'.pre = run.pre
              \/ Arrives("install") /\ run'.pre \in PidReads
<1>1. run \in Locals
    BY DEF TypeInv, LocalsTyped
<1>2. CASE Finish("failed")
    BY <1>1, <1>2, Finishing DEF PrePid, Ended, Results, SameReads
<1>3. ASSUME NEW p \in PidReads, run' = [run EXCEPT !.pre = p, !.pc = "install"]
      PROVE  /\ run' \in Locals /\ run'.method = run.method /\ SamePolls /\ Arrives("install") /\ run'.pre = p
             /\ run'.post = run.post /\ run'.seen = run.seen /\ run'.again = run.again
    BY <1>1, <1>3, Reads, PcNames DEF Locals, SamePolls, Arrives
<1> QED BY <1>2, <1>3 DEF PrePid

(* What the bundle manager leaves of a HAP it takes.                         *)
Taken == /\ installed' = "new" /\ cached' = (cached \/ (installed = "old" /\ opt.assetsChanged))
         /\ proc' = NoPid \/ (opt.isSystemBundle /\ proc' = proc)
         /\ UNCHANGED <<opt, up, rebooting, boots, ran, crash, link>>

LEMMA InstallMoves ==
    ASSUME TypeInv, Install
    PROVE  /\ run.pc = "install"
           /\ run' \in Locals /\ SameReads /\ SamePolls
           /\ \/ Still /\ Ended /\ run'.result # "ok" /\ run'.method = run.method
              \/ /\ Still /\ Arrives("uninstall") /\ run'.method = "uninstall-install"
                 /\ Mismatch /\ (~opt.isSystemBundle \/ opt.allowUninstall)
              \/ /\ Reachable /\ Taken
                 /\ \/ Arrives("verify") /\ run'.method = "replace"
                    \/ Ended /\ run'.result # "ok" /\ run'.method = run.method
<1>1. run \in Locals
    BY DEF TypeInv, LocalsTyped
<1>2. \A e \in {"failed", "refused"} :
         Finish(e) => run' \in Locals /\ SameReads /\ SamePolls /\ Ended /\ run'.result # "ok" /\ run'.method = run.method
    BY <1>1, Finishing DEF Ended, Results
<1>3. \A pc \in PCs, m \in Methods :
         run' = [run EXCEPT !.pc = pc, !.method = m]
            => run' \in Locals /\ SameReads /\ SamePolls /\ Arrives(pc) /\ run'.method = m
    BY <1>1 DEF Locals, SameReads, SamePolls, Arrives
<1>4. CASE Throws \/ (decideInstallMethod = "refuse" /\ Finish("refused") /\ Still)
    BY <1>2, <1>4 DEF Install, Throws, Still
<1>5. CASE /\ decideInstallMethod = "uninstall-install"
           /\ run' = [run EXCEPT !.pc = "uninstall", !.method = "uninstall-install"] /\ Still
    <2>1. Mismatch /\ (~opt.isSystemBundle \/ opt.allowUninstall)
        BY <1>5 DEF decideInstallMethod
    <2> QED BY <1>3, <1>5, <2>1, PcNames DEF Methods, Install
<1>6. CASE /\ Reachable /\ TakeHap
           /\ run' = [run EXCEPT !.pc = "verify", !.method = "replace"] \/ Finish("failed")
    <2>1. Taken
        BY <1>6 DEF TakeHap, Taken
    <2> QED BY <1>2, <1>3, <1>6, <2>1, PcNames DEF Methods, Install
<1> QED BY <1>4, <1>5, <1>6 DEF Install

LEMMA ThenMoves ==
    ASSUME run \in Locals, NEW pc \in PCs, Then(pc)
    PROVE  /\ run' \in Locals /\ run'.method = run.method /\ SameReads /\ SamePolls
           /\ \/ opt.cmd = "apply" /\ Arrives(pc)
              \/ opt.cmd # "apply" /\ Ended /\ run'.result = "ok"
BY Going, Finishing DEF Then, Ended, Results

LEMMA UninstallMoves ==
    ASSUME TypeInv, Uninstall
    PROVE  /\ run.pc = "uninstall"
           /\ run' \in Locals /\ run'.method = run.method /\ SameReads /\ SamePolls
           /\ \/ Ended /\ run'.result = "failed" /\ Still
              \/ /\ Reachable /\ \/ opt.cmd = "apply" /\ Arrives("freshInstall")
                                 \/ opt.cmd # "apply" /\ Ended /\ run'.result = "ok"
                 /\ UNCHANGED <<opt, up, rebooting, boots, cached, ran, crash, link>>
                 /\ (installed' = "none" /\ proc' = NoPid) \/ UNCHANGED <<installed, proc>>
<1>1. run \in Locals /\ "freshInstall" \in PCs
    BY PcNames DEF TypeInv, LocalsTyped
<1>2. CASE Throws
    BY <1>1, <1>2, Finishing DEF Uninstall, Throws, Still, Ended, Results
<1>3. CASE Reachable /\ Then("freshInstall")
    BY <1>1, <1>3, ThenMoves DEF Uninstall, Still, device
<1> QED BY <1>2, <1>3 DEF Uninstall

LEMMA FreshInstallMoves ==
    ASSUME TypeInv, FreshInstall
    PROVE  /\ run.pc = "freshInstall"
           /\ run' \in Locals /\ run'.method = run.method /\ SameReads /\ SamePolls
           /\ \/ Ended /\ run'.result = "failed" /\ Still
              \/ /\ Reachable /\ ~Mismatch /\ Taken
                 /\ \/ opt.cmd = "apply" /\ Arrives("verify")
                    \/ opt.cmd # "apply" /\ Ended /\ run'.result = "ok"
                    \/ Ended /\ run'.result = "failed"
<1>1. run \in Locals /\ "verify" \in PCs
    BY PcNames DEF TypeInv, LocalsTyped
<1>2. CASE Throws
    BY <1>1, <1>2, Finishing DEF FreshInstall, Throws, Still, Ended, Results
<1>3. CASE Reachable /\ ~Mismatch /\ TakeHap /\ Then("verify")
    BY <1>1, <1>3, ThenMoves DEF FreshInstall, TakeHap, Taken
<1>4. CASE Reachable /\ ~Mismatch /\ TakeHap /\ Finish("failed")
    BY <1>1, <1>4, Finishing DEF FreshInstall, TakeHap, Taken, Ended, Results
<1> QED BY <1>2, <1>3, <1>4 DEF FreshInstall

LEMMA StopMoves ==
    ASSUME TypeInv, Stop
    PROVE  /\ run.pc = "stop" /\ run' \in Locals /\ run'.method = run.method /\ SameReads /\ SamePolls
           /\ Ended
           /\ UNCHANGED <<opt, up, rebooting, boots, installed, cached, ran, crash, link>>
           /\ proc' \in {NoPid, proc}
<1>1. run \in Locals
    BY DEF TypeInv, LocalsTyped
<1> QED BY <1>1, Finishing DEF Stop, Throws, device, Ended, Results

LEMMA VerifyMoves ==
    ASSUME TypeInv, Verify
    PROVE  /\ run.pc = "verify" /\ Still
           /\ run' \in Locals /\ run'.method = run.method /\ SameReads /\ SamePolls
           /\ (Ended /\ run'.result = "failed") \/ Arrives("postPid")
<1>1. run \in Locals
    BY DEF TypeInv, LocalsTyped
<1> QED BY <1>1, Finishing, Going, PcNames DEF Verify, Ended, Results
(* applyChanges has read `p` last, and returns.                              *)
Returned(p) ==
    /\ run' \in Locals /\ run'.post = p /\ run'.method = run.method /\ SamePolls
    /\ run'.pre = run.pre /\ run'.seen = run.seen /\ run'.again = run.again
    /\ IF opt.smoke THEN Arrives("launch") ELSE Ended /\ run'.result = "ok"

LEMMA Returning ==
    ASSUME run \in Locals, NEW p \in PidsOrNone, Return([run EXCEPT !.post = p])
    PROVE  Returned(p)
<1>1. PICK q : q = [run EXCEPT !.post = p]
    OBVIOUS
<1>2. q \in Locals /\ q.post = p /\ q.pc = run.pc /\ q.result = run.result /\ q.method = run.method
      /\ q.pre = run.pre /\ q.seen = run.seen /\ q.again = run.again
      /\ q.polls = run.polls /\ q.wedged = run.wedged /\ q.ready = run.ready /\ q.asked = run.asked
    BY <1>1 DEF Locals
<1>3. run' = IF opt.smoke THEN [q EXCEPT !.pc = "launch"] ELSE [q EXCEPT !.pc = "done", !.result = "ok"]
    BY <1>1 DEF Return
<1>4. CASE opt.smoke
    BY <1>2, <1>3, <1>4, PcNames DEF Locals, Returned, Arrives, SamePolls
<1>5. CASE ~opt.smoke
    BY <1>2, <1>3, <1>5, PcNames DEF Locals, Returned, Ended, SamePolls, Results
<1> QED BY <1>4, <1>5

LEMMA PostPidMoves ==
    ASSUME TypeInv, PostPid
    PROVE  /\ run.pc = "postPid" /\ Still /\ run' \in Locals
           /\ \/ \E p \in PidReads : ~decideReboot(run.pre, p) /\ Returned(p)
              \/ /\ Arrives("reboot") /\ run'.post \in PidReads /\ run'.method = "reboot" /\ SamePolls
                 /\ run'.pre = run.pre /\ run'.seen = run.seen /\ run'.again = run.again
              \/ Ended /\ run'.result = "failed" /\ run'.method = run.method /\ SameReads /\ SamePolls
<1>1. run \in Locals
    BY DEF TypeInv, LocalsTyped
<1>2. CASE Finish("failed")
    BY <1>1, <1>2, Finishing DEF PostPid, Ended, Results
<1>3. ASSUME NEW p \in PidReads,
             IF decideReboot(run.pre, p) THEN run' = [run EXCEPT !.post = p, !.pc = "reboot", !.method = "reboot"]
             ELSE Return([run EXCEPT !.post = p])
      PROVE  /\ run' \in Locals
             /\ \/ ~decideReboot(run.pre, p) /\ Returned(p)
                \/ /\ Arrives("reboot") /\ run'.post = p /\ run'.method = "reboot" /\ SamePolls
                   /\ run'.pre = run.pre /\ run'.seen = run.seen /\ run'.again = run.again
    <2>1. CASE decideReboot(run.pre, p)
        <3>1. PICK q : q = [run EXCEPT !.post = p, !.pc = "reboot"]
            OBVIOUS
        <3>2. /\ q \in Locals /\ q.pc = "reboot" /\ q.post = p /\ q.result = run.result
              /\ q.pre = run.pre /\ q.seen = run.seen /\ q.again = run.again
              /\ q.polls = run.polls /\ q.wedged = run.wedged /\ q.ready = run.ready /\ q.asked = run.asked
            BY <1>1, <3>1, Reads, PcNames DEF Locals
        <3>3. run' = [q EXCEPT !.method = "reboot"]
            BY <1>1, <1>3, <2>1, <3>1
        <3> QED BY <3>2, <3>3 DEF Locals, Arrives, SamePolls, Methods
    <2>2. CASE ~decideReboot(run.pre, p)
        BY <1>1, <1>3, <2>2, Reads, Returning DEF Returned
    <2> QED BY <2>1, <2>2
<1> QED BY <1>2, <1>3 DEF PostPid

LEMMA FinalPidMoves ==
    ASSUME TypeInv, FinalPid
    PROVE  /\ run.pc = "finalPid" /\ Still /\ run' \in Locals
           /\ \/ \E p \in PidReads : Returned(p)
              \/ Ended /\ run'.result = "failed" /\ run'.method = run.method /\ SameReads /\ SamePolls
<1>1. run \in Locals
    BY DEF TypeInv, LocalsTyped
<1>2. CASE Finish("failed")
    BY <1>1, <1>2, Finishing DEF FinalPid, Ended, Results
<1>3. ASSUME NEW p \in PidReads, Return([run EXCEPT !.post = p])
      PROVE  run' \in Locals /\ Returned(p)
    BY <1>1, <1>3, Reads, Returning DEF Returned
<1> QED BY <1>2, <1>3 DEF FinalPid

LEMMA RebootMoves ==
    ASSUME TypeInv, Reboot
    PROVE  /\ run.pc = "reboot" /\ run' \in Locals /\ Arrives("waitDown") /\ run'.method = run.method /\ SameReads
           /\ run'.asked = boots /\ run'.polls = run.polls /\ run'.wedged = run.wedged /\ run'.ready = run.ready
           /\ rebooting' = (rebooting \/ Reachable)
           /\ UNCHANGED <<opt, up, boots, installed, cached, proc, ran, crash, link>>
<1>1. run \in Locals /\ boots \in Nat
    BY DEF TypeInv, LocalsTyped, TypeOK
<1> QED BY <1>1, PcNames DEF Reboot, Locals, Arrives, SameReads

LEMMA WaitDownMoves ==
    ASSUME TypeInv, WaitDown
    PROVE  /\ run.pc = "waitDown" /\ Still
           /\ run' \in Locals /\ Arrives("waitUp") /\ run'.method = run.method /\ SameReads /\ SamePolls
<1>1. run \in Locals
    BY DEF TypeInv, LocalsTyped
<1> QED BY <1>1, Going, PcNames DEF WaitDown

LEMMA WaitUpMoves ==
    ASSUME TypeInv, WaitUp
    PROVE  /\ run.pc = "waitUp" /\ link' = Reconnected /\ UNCHANGED <<opt, device>>
           /\ run' \in Locals /\ run'.method = run.method /\ SameReads /\ run'.asked = run.asked
           /\ run'.wedged = (IF Restarts THEN 0 ELSE WedgedPolls) /\ run'.polls = run.polls + 1
           /\ run'.ready = (IF Present /\ Reconnected # "none" THEN run.ready + 1 ELSE 0)
           /\ \/ Found /\ opt.cmd = "apply" /\ Arrives("finalPid")
              \/ Found /\ opt.cmd # "apply" /\ Ended /\ run'.result = "ok"
              \/ ~Found /\ Arrives("waitUp") /\ run'.polls < MaxPolls
              \/ ~Found /\ run'.pc = "done" /\ run'.result = "timeout"
<1>1. run \in Locals /\ WedgedPolls \in Nat
    BY DEF TypeInv, LocalsTyped, WedgedPolls, Locals
<1>0. PICK w, n : /\ w = (IF Restarts THEN 0 ELSE WedgedPolls)
                  /\ n = (IF Present /\ Reconnected # "none" THEN run.ready + 1 ELSE 0)
    OBVIOUS
<1>2. PICK q : q = [run EXCEPT !.wedged = w, !.polls = run.polls + 1, !.ready = n]
    OBVIOUS
<1>3. /\ q \in Locals /\ q.pc = run.pc /\ q.result = run.result /\ q.method = run.method
      /\ q.pre = run.pre /\ q.post = run.post /\ q.seen = run.seen /\ q.again = run.again /\ q.asked = run.asked
      /\ q.wedged = (IF Restarts THEN 0 ELSE WedgedPolls) /\ q.polls = run.polls + 1
      /\ q.ready = (IF Present /\ Reconnected # "none" THEN run.ready + 1 ELSE 0)
    <2>1. w \in Nat /\ n \in Nat /\ run.polls + 1 \in Nat
        BY <1>0, <1>1 DEF Locals
    <2> HIDE <1>0
    <2>2. q \in Locals /\ q.pc = run.pc /\ q.result = run.result /\ q.method = run.method
          /\ q.pre = run.pre /\ q.post = run.post /\ q.seen = run.seen /\ q.again = run.again /\ q.asked = run.asked
          /\ q.wedged = w /\ q.polls = run.polls + 1 /\ q.ready = n
        BY <1>1, <1>2, <2>1 DEF Locals
    <2> QED BY <1>0, <2>2
<1>4. IF Found
      THEN run' = IF opt.cmd = "apply" THEN [q EXCEPT !.pc = "finalPid"] ELSE [q EXCEPT !.pc = "done", !.result = "ok"]
      ELSE run' = IF q.polls < MaxPolls THEN q ELSE [q EXCEPT !.pc = "done", !.result = "timeout"]
    BY <1>0, <1>1, <1>2 DEF WaitUp
<1>5. run.pc = "waitUp" /\ link' = Reconnected /\ UNCHANGED <<opt, device>>
    BY DEF WaitUp
<1>6. CASE Found
    <2>1. CASE opt.cmd = "apply"
        <3>1. run' = [q EXCEPT !.pc = "finalPid"]
            BY <1>4, <1>6, <2>1
        <3>2. run' \in Locals /\ run'.pc = "finalPid" /\ run'.result = q.result /\ run'.method = q.method /\ run'.asked = q.asked
              /\ run'.pre = q.pre /\ run'.post = q.post /\ run'.seen = q.seen /\ run'.again = q.again
              /\ run'.wedged = q.wedged /\ run'.polls = q.polls /\ run'.ready = q.ready
            BY <1>3, <3>1, PcNames DEF Locals
        <3> QED BY <1>3, <1>5, <1>6, <2>1, <3>2 DEF SameReads, Arrives
    <2>2. CASE opt.cmd # "apply"
        <3>1. run' = [q EXCEPT !.pc = "done", !.result = "ok"]
            BY <1>4, <1>6, <2>2
        <3>2. run' \in Locals /\ run'.pc = "done" /\ run'.result = "ok" /\ run'.method = q.method /\ run'.asked = q.asked
              /\ run'.pre = q.pre /\ run'.post = q.post /\ run'.seen = q.seen /\ run'.again = q.again
              /\ run'.wedged = q.wedged /\ run'.polls = q.polls /\ run'.ready = q.ready
            BY <1>3, <3>1, PcNames DEF Locals, Results
        <3> QED BY <1>3, <1>5, <1>6, <2>2, <3>2 DEF SameReads, Ended, Results
    <2> QED BY <2>1, <2>2
<1>7. CASE ~Found /\ q.polls < MaxPolls
    BY <1>3, <1>4, <1>5, <1>7 DEF SameReads, Arrives
<1>8. CASE ~Found /\ ~(q.polls < MaxPolls)
    BY <1>3, <1>4, <1>5, <1>8, PcNames DEF Locals, SameReads, Arrives, Results
<1> QED BY <1>6, <1>7, <1>8

LEMMA LaunchMoves ==
    ASSUME TypeInv, Launch
    PROVE  /\ run.pc = "launch" /\ run' \in Locals /\ run'.method = run.method /\ SameReads /\ SamePolls
           /\ \/ Ended /\ run'.result = "failed" /\ Still
              \/ /\ NewProcess \/ UNCHANGED <<proc, ran>>
                 /\ Reachable /\ installed # "none" /\ crash' \in {"none", crash}
                 /\ UNCHANGED <<opt, up, rebooting, boots, installed, cached, link>>
                 /\ IF opt.smoke THEN Arrives("smokePid") ELSE Ended /\ run'.result = "ok"
<1>1. run \in Locals
    BY DEF TypeInv, LocalsTyped
<1>2. CASE Throws
    BY <1>1, <1>2, Finishing DEF Launch, Throws, Still, Ended, Results
<1>3. ASSUME run' = IF opt.smoke THEN [run EXCEPT !.pc = "smokePid"] ELSE [run EXCEPT !.pc = "done", !.result = "ok"]
      PROVE  /\ run' \in Locals /\ run'.method = run.method /\ SameReads /\ SamePolls
             /\ IF opt.smoke THEN Arrives("smokePid") ELSE Ended /\ run'.result = "ok"
    <2>1. CASE opt.smoke
        BY <1>1, <1>3, <2>1, PcNames DEF Locals, SameReads, SamePolls, Arrives
    <2>2. CASE ~opt.smoke
        BY <1>1, <1>3, <2>2, PcNames DEF Locals, SameReads, SamePolls, Ended, Results
    <2> QED BY <2>1, <2>2
<1>4. Throws \/ /\ NewProcess \/ UNCHANGED <<proc, ran>>
                /\ Reachable /\ installed # "none" /\ crash' \in {"none", crash}
                /\ UNCHANGED <<opt, up, rebooting, boots, installed, cached, link>>
                /\ run' = IF opt.smoke THEN [run EXCEPT !.pc = "smokePid"]
                          ELSE [run EXCEPT !.pc = "done", !.result = "ok"]
    BY DEF Launch
<1>5. run.pc = "launch"
    BY DEF Launch
<1> QED BY <1>2, <1>3, <1>4, <1>5

LEMMA SmokePidMoves ==
    ASSUME TypeInv, SmokePid
    PROVE  /\ run.pc = "smokePid" /\ Still
           /\ run' \in Locals /\ run'.method = run.method /\ SamePolls
           /\ run'.pre = run.pre /\ run'.post = run.post /\ run'.again = run.again
           /\ \/ Ended /\ run'.result = "failed" /\ run'.seen = run.seen
              \/ Arrives("smokeAgain") /\ run'.seen \in PidReads
<1>1. run \in Locals
    BY DEF TypeInv, LocalsTyped
<1>2. CASE Finish("failed")
    BY <1>1, <1>2, Finishing DEF SmokePid, Ended, Results, SameReads
<1>3. ASSUME NEW p \in PidReads, run' = [run EXCEPT !.seen = p, !.pc = "smokeAgain"]
      PROVE  /\ run' \in Locals /\ run'.method = run.method /\ SamePolls /\ Arrives("smokeAgain") /\ run'.seen = p
             /\ run'.pre = run.pre /\ run'.post = run.post /\ run'.again = run.again
    BY <1>1, <1>3, Reads, PcNames DEF Locals, SamePolls, Arrives
<1> QED BY <1>2, <1>3 DEF SmokePid

LEMMA SmokeAgainMoves ==
    ASSUME TypeInv, SmokeAgain
    PROVE  /\ run.pc = "smokeAgain" /\ Still
           /\ run' \in Locals /\ run'.method = run.method /\ SamePolls
           /\ run'.pre = run.pre /\ run'.post = run.post /\ run'.seen = run.seen
           /\ \/ Ended /\ run'.result = "failed" /\ run'.again = run.again
              \/ Arrives("smokeProbe") /\ run'.again \in PidReads \cup {NoPid}
<1>1. run \in Locals
    BY DEF TypeInv, LocalsTyped
<1>2. CASE Finish("failed")
    BY <1>1, <1>2, Finishing DEF SmokeAgain, Ended, Results, SameReads
<1>3. ASSUME NEW p \in PidReads \cup {NoPid}, run' = [run EXCEPT !.again = p, !.pc = "smokeProbe"]
      PROVE  /\ run' \in Locals /\ run'.method = run.method /\ SamePolls /\ Arrives("smokeProbe") /\ run'.again = p
             /\ run'.pre = run.pre /\ run'.post = run.post /\ run'.seen = run.seen
    <2>1. p \in PidsOrNone
        BY Reads DEF PidsOrNone
    <2> QED BY <1>1, <1>3, <2>1, PcNames DEF Locals, SamePolls, Arrives
<1>4. Finish("failed") \/ \E p \in PidReads \cup {NoPid} : run' = [run EXCEPT !.again = p, !.pc = "smokeProbe"]
    BY DEF SmokeAgain
<1>5. run.pc = "smokeAgain" /\ Still
    BY DEF SmokeAgain
<1> QED BY <1>2, <1>3, <1>4, <1>5

LEMMA SmokeProbeMoves ==
    ASSUME TypeInv, SmokeProbe
    PROVE  /\ run.pc = "smokeProbe" /\ Still
           /\ run' \in Locals /\ run'.method = run.method /\ SameReads /\ SamePolls
           /\ Ended /\ run'.result = "ok"
<1>1. run \in Locals
    BY DEF TypeInv, LocalsTyped
<1>2. PICK b \in BOOLEAN : run' = [run EXCEPT !.pc = "done", !.result = "ok", !.passed = b]
    <2>1. \A blank \in BOOLEAN : \A crashed : (alive /\ ~blank /\ ~crashed) \in BOOLEAN
        OBVIOUS
    <2> QED BY <2>1 DEF SmokeProbe
<1>3. run.pc = "smokeProbe" /\ Still
    BY DEF SmokeProbe
<1> QED BY <1>1, <1>2, <1>3, PcNames DEF Locals, SameReads, SamePolls, Ended, Results
------------------------------------------------------------------------------
LEMMA DeviceMoves == ASSUME Device PROVE run' = run /\ opt' = opt
BY DEF Device, ProcessStarts, ProcessDies, HiviewWrites, GoDown, ComeUp, LinkChanges

LEMMA LocalsStep ==
    ASSUME TypeInv, [Next]_vars
    PROVE  LocalsTyped'
<1>0. LocalsTyped /\ opt.cmd \in Commands
    BY DEF TypeInv, TypeOK, Options
<1>1. CASE Start
    BY <1>1, StartMoves, <1>0 DEF LocalsTyped, Itinerary, Smoking, Still, Arrives, Ended
<1>2. CASE PrePid
    BY <1>2, PrePidMoves, <1>0 DEF LocalsTyped, Itinerary, Still, Arrives, Ended
<1>3. CASE Install
    BY <1>3, InstallMoves, <1>0 DEF LocalsTyped, Itinerary, Still, Taken, Arrives, Ended
<1>4. CASE Uninstall
    BY <1>4, UninstallMoves, <1>0 DEF LocalsTyped, Itinerary, Smoking, Still, Arrives, Ended
<1>5. CASE FreshInstall
    BY <1>5, FreshInstallMoves, <1>0 DEF LocalsTyped, Itinerary, Smoking, Still, Taken, Arrives, Ended
<1>6. CASE Stop
    BY <1>6, StopMoves, <1>0 DEF LocalsTyped, Itinerary, Smoking, Ended
<1>7. CASE Verify
    BY <1>7, VerifyMoves, <1>0 DEF LocalsTyped, Itinerary, Still, Arrives, Ended
<1>8. CASE PostPid
    BY <1>8, PostPidMoves, <1>0 DEF LocalsTyped, Itinerary, Still, Arrives, Ended, Returned
<1>9. CASE FinalPid
    BY <1>9, FinalPidMoves, <1>0 DEF LocalsTyped, Itinerary, Still, Arrives, Ended, Returned
<1>10. CASE Reboot
    BY <1>10, RebootMoves, <1>0 DEF LocalsTyped, Itinerary, Smoking, Arrives
<1>11. CASE WaitDown
    BY <1>11, WaitDownMoves, <1>0 DEF LocalsTyped, Itinerary, Smoking, Still, Arrives
<1>12. CASE WaitUp
    BY <1>12, WaitUpMoves, <1>0 DEF LocalsTyped, Itinerary, Smoking, Arrives, Ended
<1>13. CASE Launch
    BY <1>13, LaunchMoves, <1>0 DEF LocalsTyped, Itinerary, Still, Arrives, Ended
<1>14. CASE SmokePid
    BY <1>14, SmokePidMoves, <1>0 DEF LocalsTyped, Itinerary, Smoking, Still, Arrives, Ended
<1>15. CASE SmokeAgain
    BY <1>15, SmokeAgainMoves, <1>0 DEF LocalsTyped, Itinerary, Smoking, Still, Arrives, Ended
<1>16. CASE SmokeProbe
    BY <1>16, SmokeProbeMoves, <1>0 DEF LocalsTyped, Itinerary, Smoking, Still, Ended
<1>17. CASE Device
    BY <1>17, DeviceMoves, <1>0 DEF LocalsTyped
<1>18. CASE UNCHANGED vars
    BY <1>18, <1>0 DEF vars, LocalsTyped
<1> QED BY <1>1, <1>2, <1>3, <1>4, <1>5, <1>6, <1>7, <1>8, <1>9, <1>10, <1>11, <1>12, <1>13, <1>14, <1>15, <1>16, <1>17,
           <1>18 DEF Next, Command

LEMMA RebootsStep ==
    ASSUME TypeInv, [Next]_vars
    PROVE  RebootsOnce'
<1>0. RebootsOnce /\ rebooting \in BOOLEAN /\ boots \in Nat
    BY DEF TypeInv, TypeOK
<1>1. CASE Start
    BY <1>1, StartMoves, <1>0, PcNames DEF RebootsOnce, Still, device
<1>2. CASE PrePid
    BY <1>2, PrePidMoves, <1>0, PcNames DEF RebootsOnce, Still, device
<1>3. CASE Install
    BY <1>3, InstallMoves, <1>0, PcNames DEF RebootsOnce, Still, device, Taken
<1>4. CASE Uninstall
    BY <1>4, UninstallMoves, <1>0, PcNames DEF RebootsOnce, Still, device
<1>5. CASE FreshInstall
    BY <1>5, FreshInstallMoves, <1>0, PcNames DEF RebootsOnce, Still, device, Taken
<1>6. CASE Stop
    BY <1>6, StopMoves, <1>0, PcNames DEF RebootsOnce
<1>7. CASE Verify
    BY <1>7, VerifyMoves, <1>0, PcNames DEF RebootsOnce, Still, device
<1>8. CASE PostPid
    BY <1>8, PostPidMoves, <1>0, PcNames DEF RebootsOnce, Still, device
<1>9. CASE FinalPid
    BY <1>9, FinalPidMoves, <1>0, PcNames DEF RebootsOnce, Still, device, Arrives, Ended, Returned
<1>10. CASE Reboot
    BY <1>10, RebootMoves, <1>0, PcNames DEF RebootsOnce, Arrives
<1>11. CASE WaitDown
    BY <1>11, WaitDownMoves, <1>0, PcNames DEF RebootsOnce, Still, device, Arrives
<1>12. CASE WaitUp
    BY <1>12, WaitUpMoves, <1>0, PcNames DEF RebootsOnce, device, Arrives, Ended
<1>13. CASE Launch
    BY <1>13, LaunchMoves, <1>0, PcNames DEF RebootsOnce, Still, device, Arrives, Ended
<1>14. CASE SmokePid
    BY <1>14, SmokePidMoves, <1>0, PcNames DEF RebootsOnce, Still, device, Arrives, Ended
<1>15. CASE SmokeAgain
    BY <1>15, SmokeAgainMoves, <1>0, PcNames DEF RebootsOnce, Still, device, Arrives, Ended
<1>16. CASE SmokeProbe
    BY <1>16, SmokeProbeMoves, <1>0, PcNames DEF RebootsOnce, Still, device, Ended
<1>17. CASE ProcessStarts
    BY <1>17, <1>0 DEF ProcessStarts, RebootsOnce
<1>18. CASE ProcessDies
    BY <1>18, <1>0 DEF ProcessDies, RebootsOnce
<1>19. CASE HiviewWrites
    BY <1>19, <1>0 DEF HiviewWrites, RebootsOnce
<1>20. CASE GoDown
    BY <1>20, <1>0 DEF GoDown, RebootsOnce
<1>21. CASE ComeUp
    BY <1>21, <1>0 DEF ComeUp, RebootsOnce
<1>22. CASE LinkChanges
    BY <1>22, <1>0 DEF LinkChanges, RebootsOnce, device
<1>23. CASE UNCHANGED vars
    BY <1>23, <1>0 DEF vars, RebootsOnce, device
<1> QED BY <1>1, <1>2, <1>3, <1>4, <1>5, <1>6, <1>7, <1>8, <1>9, <1>10, <1>11, <1>12, <1>13, <1>14, <1>15, <1>16, <1>17,
           <1>18, <1>19, <1>20, <1>21, <1>22, <1>23 DEF Next, Command, Device

LEMMA WedgedStep ==
    ASSUME TypeInv, [Next]_vars
    PROVE  WedgedInv'
<1>0. /\ WedgedInv /\ opt \in Options /\ link \in {"ok", "none", "dead"} /\ (link = "ok" => up) /\ proc \in Pids \cup {NoPid}
      /\ (proc # NoPid => up) /\ run \in Locals /\ run.wedged \in 0..2 /\ run.ready \in Nat
      /\ (run.pc = "done" <=> run.result # "none")
    BY DEF TypeInv, TypeOK, LocalsTyped, Locals, Started, WEDGED_POLLS_BEFORE_RESTART
<1>1. CASE Start
    BY <1>1, StartMoves, <1>0, PcNames DEF WedgedInv, Still, SamePolls
<1>2. CASE PrePid
    BY <1>2, PrePidMoves, <1>0, PcNames DEF WedgedInv, Still, SamePolls
<1>3. CASE Install
    BY <1>3, InstallMoves, <1>0, PcNames DEF WedgedInv, Still, SamePolls, Taken
<1>4. CASE Uninstall
    BY <1>4, UninstallMoves, <1>0, PcNames DEF WedgedInv, Still, SamePolls
<1>5. CASE FreshInstall
    BY <1>5, FreshInstallMoves, <1>0, PcNames DEF WedgedInv, Still, SamePolls, Taken
<1>6. CASE Stop
    BY <1>6, StopMoves, <1>0, PcNames DEF WedgedInv, Ended
<1>7. CASE Verify
    BY <1>7, VerifyMoves, <1>0, PcNames DEF WedgedInv, Still, SamePolls
<1>8. CASE PostPid
    BY <1>8, PostPidMoves, <1>0, PcNames DEF WedgedInv, Still, SamePolls, Returned
<1>9. CASE FinalPid
    BY <1>9, FinalPidMoves, <1>0, PcNames DEF WedgedInv, Still, Arrives, Ended, Returned
<1>10. CASE Reboot
    BY <1>10, RebootMoves, <1>0, PcNames DEF WedgedInv
<1>11. CASE WaitDown
    BY <1>11, WaitDownMoves, <1>0, PcNames DEF WedgedInv, Still, SamePolls
<1>12. CASE WaitUp
    <2>1. /\ run'.wedged = (IF Restarts THEN 0 ELSE WedgedPolls)
          /\ run'.ready = (IF Present /\ Reconnected # "none" THEN run.ready + 1 ELSE 0)
          /\ link' = Reconnected /\ opt' = opt /\ run.pc = "waitUp"
        BY <1>12, WaitUpMoves
    <2>2. link' = "dead" => opt'.tcp
        BY <1>0, <2>1 DEF WedgedInv, Reconnected
    <2>3. ~Found => run'.ready <= run'.wedged
        <3>1. CASE Present /\ Reconnected # "none" /\ ~Found
            <4>1. Reconnected = "dead" /\ up
                BY <1>0, <3>1 DEF Found, Present, Reconnected
            <4>2. opt.tcp /\ link = "dead" /\ ~Restarts
                BY <1>0, <4>1 DEF Reconnected, WedgedInv
            <4>3. WedgedPolls = run.wedged + 1
                BY <4>2 DEF WedgedPolls, Wedged, Reachable
            <4> QED BY <1>0, <2>1, <3>1, <4>2, <4>3, PcNames DEF WedgedInv
        <3>2. CASE ~(Present /\ Reconnected # "none")
            <4>1. run'.ready = 0
                BY <2>1, <3>2
            <4>2. WedgedPolls >= 0
                BY <1>0 DEF WedgedPolls
            <4> QED BY <2>1, <4>1, <4>2
        <3> QED BY <3>1, <3>2
    <2> QED BY <1>12, <1>0, <2>2, <2>3, WaitUpMoves, PcNames DEF WedgedInv, Arrives, Ended
<1>13. CASE Launch
    BY <1>13, LaunchMoves, <1>0, PcNames DEF WedgedInv, Still, Arrives, Ended
<1>14. CASE SmokePid
    BY <1>14, SmokePidMoves, <1>0, PcNames DEF WedgedInv, Still, Arrives, Ended
<1>15. CASE SmokeAgain
    BY <1>15, SmokeAgainMoves, <1>0, PcNames DEF WedgedInv, Still, Arrives, Ended
<1>16. CASE SmokeProbe
    BY <1>16, SmokeProbeMoves, <1>0, PcNames DEF WedgedInv, Still, Ended
<1>17. CASE ProcessStarts
    BY <1>17, <1>0 DEF ProcessStarts, WedgedInv
<1>18. CASE ProcessDies
    BY <1>18, <1>0 DEF ProcessDies, WedgedInv
<1>19. CASE HiviewWrites
    BY <1>19, <1>0 DEF HiviewWrites, WedgedInv
<1>20. CASE GoDown
    BY <1>20, <1>0 DEF GoDown, WedgedInv
<1>21. CASE ComeUp
    BY <1>21, <1>0 DEF ComeUp, WedgedInv
<1>22. CASE LinkChanges
    BY <1>22, <1>0 DEF LinkChanges, WedgedInv
<1>23. CASE UNCHANGED vars
    BY <1>23, <1>0 DEF vars, WedgedInv
<1> QED BY <1>1, <1>2, <1>3, <1>4, <1>5, <1>6, <1>7, <1>8, <1>9, <1>10, <1>11, <1>12, <1>13, <1>14, <1>15, <1>16, <1>17,
           <1>18, <1>19, <1>20, <1>21, <1>22, <1>23 DEF Next, Command, Device

LEMMA DeviceStep ==
    ASSUME TypeInv, [Next]_vars
    PROVE  /\ opt' = opt
           /\ {up, rebooting, cached}' \subseteq BOOLEAN
           /\ installed' \in {"none", "old", "new"} /\ crash' \in {"none", "unwritten", "logged"}
           /\ ran' \in [Pids -> {"nothing", "old", "new", "cached"}]
           /\ \A p \in Pids : ran[p] # "nothing" => ran'[p] = ran[p]
           /\ proc' \in Pids \cup {NoPid} /\ (proc' # NoPid => up' /\ ran'[proc'] # "nothing")
           /\ link' \in {"ok", "none", "dead"} /\ (link' = "ok" => up')
<1>0. /\ up \in BOOLEAN /\ rebooting \in BOOLEAN /\ cached \in BOOLEAN /\ opt \in Options
      /\ installed \in {"none", "old", "new"} /\ crash \in {"none", "unwritten", "logged"}
      /\ ran \in [Pids -> {"nothing", "old", "new", "cached"}]
      /\ proc \in Pids \cup {NoPid} /\ (proc # NoPid => up /\ ran[proc] # "nothing")
      /\ link \in {"ok", "none", "dead"} /\ (link = "ok" => up)
    BY DEF TypeInv, TypeOK, Started
<1>n. ASSUME NewProcess, UNCHANGED <<up, installed, cached>>
      PROVE  /\ ran' \in [Pids -> {"nothing", "old", "new", "cached"}]
             /\ \A p \in Pids : ran[p] # "nothing" => ran'[p] = ran[p]
             /\ proc' \in Pids /\ up' /\ ran'[proc'] # "nothing"
    BY <1>0, <1>n DEF NewProcess, Started
<1>1. CASE Start
    BY <1>1, StartMoves, <1>0 DEF Still, device
<1>2. CASE PrePid
    BY <1>2, PrePidMoves, <1>0 DEF Still, device
<1>3. CASE Install
    BY <1>3, InstallMoves, <1>0, <1>n, TypeInv DEF Still, device, Taken
<1>4. CASE Uninstall
    BY <1>4, UninstallMoves, <1>0 DEF Still, device
<1>5. CASE FreshInstall
    BY <1>5, FreshInstallMoves, <1>0, <1>n, TypeInv DEF Still, device, Taken
<1>6. CASE Stop
    BY <1>6, StopMoves, <1>0
<1>7. CASE Verify
    BY <1>7, VerifyMoves, <1>0 DEF Still, device
<1>8. CASE PostPid
    BY <1>8, PostPidMoves, <1>0 DEF Still, device
<1>9. CASE FinalPid
    BY <1>9, FinalPidMoves, <1>0 DEF Still, device
<1>10. CASE Reboot
    BY <1>10, RebootMoves, <1>0
<1>11. CASE WaitDown
    BY <1>11, WaitDownMoves, <1>0 DEF Still, device
<1>12. CASE WaitUp
    <2>1. link' \in {"ok", "none", "dead"} /\ (link' = "ok" => up)
        BY <1>12, <1>0, WaitUpMoves DEF Reconnected
    <2> QED BY <1>12, <1>0, <2>1, WaitUpMoves DEF device
<1>13. CASE Launch
    BY <1>13, LaunchMoves, <1>0, <1>n DEF Still, device
<1>14. CASE SmokePid
    BY <1>14, SmokePidMoves, <1>0 DEF Still, device
<1>15. CASE SmokeAgain
    BY <1>15, SmokeAgainMoves, <1>0 DEF Still, device
<1>16. CASE SmokeProbe
    BY <1>16, SmokeProbeMoves, <1>0 DEF Still, device
<1>17. CASE ProcessStarts
    BY <1>17, <1>0, <1>n DEF ProcessStarts
<1>18. CASE ProcessDies
    BY <1>18, <1>0 DEF ProcessDies
<1>19. CASE HiviewWrites
    BY <1>19, <1>0 DEF HiviewWrites
<1>20. CASE GoDown
    BY <1>20, <1>0, <1>n, TypeInv DEF GoDown, device, Options
<1>21. CASE ComeUp
    BY <1>21, <1>0 DEF ComeUp
<1>22. CASE LinkChanges
    BY <1>22, <1>0 DEF LinkChanges, device
<1>23. CASE UNCHANGED vars
    BY <1>23, <1>0 DEF vars, device
<1> QED BY <1>1, <1>2, <1>3, <1>4, <1>5, <1>6, <1>7, <1>8, <1>9, <1>10, <1>11, <1>12, <1>13, <1>14, <1>15, <1>16, <1>17,
           <1>18, <1>19, <1>20, <1>21, <1>22, <1>23 DEF Next, Command, Device

LEMMA TypeInvStep == TypeInv /\ [Next]_vars => TypeInv'
<1> SUFFICES ASSUME TypeInv, [Next]_vars PROVE TypeInv'
    OBVIOUS
<1>1. LocalsTyped' /\ RebootsOnce' /\ WedgedInv'
    BY LocalsStep, RebootsStep, WedgedStep
<1>2. Started \subseteq Started'
    BY DeviceStep DEF TypeInv, TypeOK, Started
<1>3. proc' \in Started' \cup {NoPid} /\ proc \in Started \cup {NoPid} /\ PidReads \subseteq Started' \cup {NoPid}
    BY <1>2, DeviceStep DEF TypeInv, TypeOK, Started, PidReads
<1>4. {run'.pre, run'.post, run'.seen, run'.again} \subseteq Started' \cup {NoPid}
    <2>1. \A x \in {run'.pre, run'.post, run'.seen, run'.again} :
              x \in PidReads \cup {NoPid, run.pre, run.post, run.seen, run.again}
        <3> USE DEF SameReads
        <3>1. CASE Start
            BY <3>1, StartMoves, TypeInv DEF Returned
        <3>2. CASE PrePid
            BY <3>2, PrePidMoves, TypeInv DEF Returned
        <3>3. CASE Install
            BY <3>3, InstallMoves, TypeInv DEF Returned
        <3>4. CASE Uninstall
            BY <3>4, UninstallMoves, TypeInv DEF Returned
        <3>5. CASE FreshInstall
            BY <3>5, FreshInstallMoves, TypeInv DEF Returned
        <3>6. CASE Stop
            BY <3>6, StopMoves, TypeInv DEF Returned
        <3>7. CASE Verify
            BY <3>7, VerifyMoves, TypeInv DEF Returned
        <3>8. CASE PostPid
            BY <3>8, PostPidMoves, TypeInv DEF Returned
        <3>9. CASE FinalPid
            BY <3>9, FinalPidMoves, TypeInv DEF Returned
        <3>10. CASE Reboot
            BY <3>10, RebootMoves, TypeInv DEF Returned
        <3>11. CASE WaitDown
            BY <3>11, WaitDownMoves, TypeInv DEF Returned
        <3>12. CASE WaitUp
            BY <3>12, WaitUpMoves, TypeInv DEF Returned
        <3>13. CASE Launch
            BY <3>13, LaunchMoves, TypeInv DEF Returned
        <3>14. CASE SmokePid
            BY <3>14, SmokePidMoves, TypeInv DEF Returned
        <3>15. CASE SmokeAgain
            BY <3>15, SmokeAgainMoves, TypeInv DEF Returned
        <3>16. CASE SmokeProbe
            BY <3>16, SmokeProbeMoves, TypeInv DEF Returned
        <3>17. CASE Device
            BY <3>17, DeviceMoves, TypeInv DEF vars
        <3>18. CASE UNCHANGED vars
            BY <3>18, TypeInv DEF vars, vars
        <3> QED BY <3>1, <3>2, <3>3, <3>4, <3>5, <3>6, <3>7, <3>8, <3>9, <3>10, <3>11, <3>12, <3>13, <3>14, <3>15, <3>16,
                   <3>17, <3>18 DEF Next, Command
    <2>2. {run.pre, run.post, run.seen, run.again} \subseteq Started \cup {NoPid}
        BY DEF TypeInv, TypeOK
    <2> QED BY <1>2, <1>3, <2>1, <2>2
<1>5. run'.polls \in 0..MaxPolls /\ run'.wedged \in 0..WEDGED_POLLS_BEFORE_RESTART - 1
    <2>0. /\ run.polls \in 0..MaxPolls /\ run.wedged \in 0..2 /\ (run.pc = "waitUp" => run.polls < MaxPolls)
          /\ run'.polls \in Nat /\ run.polls \in Nat /\ MaxPolls \in Nat
        BY <1>1, ConstantTypes, PcNames DEF TypeInv, TypeOK, WedgedInv, WEDGED_POLLS_BEFORE_RESTART, LocalsTyped, Locals
    <2>1. SamePolls \/ Reboot \/ WaitUp
        <3> USE DEF SamePolls
        <3>1. CASE Start
            BY <3>1, StartMoves, TypeInv DEF Returned
        <3>2. CASE PrePid
            BY <3>2, PrePidMoves, TypeInv DEF Returned
        <3>3. CASE Install
            BY <3>3, InstallMoves, TypeInv DEF Returned
        <3>4. CASE Uninstall
            BY <3>4, UninstallMoves, TypeInv DEF Returned
        <3>5. CASE FreshInstall
            BY <3>5, FreshInstallMoves, TypeInv DEF Returned
        <3>6. CASE Stop
            BY <3>6, StopMoves, TypeInv DEF Returned
        <3>7. CASE Verify
            BY <3>7, VerifyMoves, TypeInv DEF Returned
        <3>8. CASE PostPid
            BY <3>8, PostPidMoves, TypeInv DEF Returned
        <3>9. CASE FinalPid
            BY <3>9, FinalPidMoves, TypeInv DEF Returned
        <3>10. CASE Reboot
            BY <3>10, RebootMoves, TypeInv DEF Returned
        <3>11. CASE WaitDown
            BY <3>11, WaitDownMoves, TypeInv DEF Returned
        <3>12. CASE WaitUp
            BY <3>12, WaitUpMoves, TypeInv DEF Returned
        <3>13. CASE Launch
            BY <3>13, LaunchMoves, TypeInv DEF Returned
        <3>14. CASE SmokePid
            BY <3>14, SmokePidMoves, TypeInv DEF Returned
        <3>15. CASE SmokeAgain
            BY <3>15, SmokeAgainMoves, TypeInv DEF Returned
        <3>16. CASE SmokeProbe
            BY <3>16, SmokeProbeMoves, TypeInv DEF Returned
        <3>17. CASE Device
            BY <3>17, DeviceMoves, TypeInv DEF vars
        <3>18. CASE UNCHANGED vars
            BY <3>18, TypeInv DEF vars, vars
        <3> QED BY <3>1, <3>2, <3>3, <3>4, <3>5, <3>6, <3>7, <3>8, <3>9, <3>10, <3>11, <3>12, <3>13, <3>14, <3>15, <3>16,
                   <3>17, <3>18 DEF Next, Command
    <2>2. CASE SamePolls
        BY <2>0, <2>2 DEF SamePolls, WEDGED_POLLS_BEFORE_RESTART
    <2>3. CASE Reboot
        BY <2>0, <2>3, RebootMoves DEF WEDGED_POLLS_BEFORE_RESTART
    <2>4. CASE WaitUp
        <3>1. run'.wedged \in 0..2
            BY <2>0, <2>4, WaitUpMoves DEF Restarts, WedgedPolls, WEDGED_POLLS_BEFORE_RESTART
        <3>2. run'.polls \in 0..MaxPolls
            BY <2>0, <2>4, WaitUpMoves
        <3> QED BY <3>1, <3>2 DEF WEDGED_POLLS_BEFORE_RESTART
    <2> QED BY <2>1, <2>2, <2>3, <2>4
<1>6. boots' \in 0..2 /\ run'.result \in {"none", "ok", "failed", "refused", "timeout"}
    BY <1>1 DEF RebootsOnce, LocalsTyped, Locals, Results
<1>7. TypeOK'
    BY <1>3, <1>4, <1>5, <1>6, DeviceStep DEF TypeInv, TypeOK
<1> QED BY <1>1, <1>7 DEF TypeInv

(* The state has its types, and a command never reboots the device twice.    *)
THEOREM TypeCorrect == Spec => []TypeOK
<1>1. TypeInv => TypeOK
    BY DEF TypeInv
<1> QED BY <1>1, TypeInvInit, TypeInvStep, PTL DEF Spec
------------------------------------------------------------------------------
(* Whatever the device does meanwhile.                                       *)
LEMMA InstalledStep ==
    ASSUME TypeInv, InstalledInv, [Next]_vars
    PROVE  InstalledInv'
<1>0. /\ InstalledInv /\ LocalsTyped /\ installed \in {"none", "old", "new"} /\ opt.cmd \in Commands
      /\ (run.pc = "done" <=> run.result # "none") /\ (run'.pc = "done" <=> run'.result # "none")
    BY LocalsStep DEF TypeInv, TypeOK, LocalsTyped, Options
<1>1. CASE Start
    BY <1>1, StartMoves, <1>0, PcNames DEF InstalledInv, Still, Arrives
<1>2. CASE PrePid
    BY <1>2, PrePidMoves, <1>0, PcNames DEF InstalledInv, Arrives
<1>3. CASE Install
    BY <1>3, InstallMoves, PcNames DEF InstalledInv, Mismatch, Still, device, Arrives, Ended, Taken
<1>4. CASE Uninstall
    BY <1>4, UninstallMoves, <1>0, PcNames DEF InstalledInv, LocalsTyped, Itinerary, Arrives
<1>5. CASE FreshInstall
    BY <1>5, FreshInstallMoves, <1>0, PcNames DEF InstalledInv, Arrives, Taken
<1>6. CASE Stop
    BY <1>6, StopMoves, <1>0 DEF InstalledInv, LocalsTyped, Itinerary
<1>7. CASE Verify
    BY <1>7, VerifyMoves, <1>0, PcNames DEF InstalledInv, Still, device, Arrives
<1>8. CASE PostPid
    BY <1>8, PostPidMoves, <1>0, PcNames DEF InstalledInv, Still, device, Arrives, Returned
<1>9. CASE FinalPid
    BY <1>9, FinalPidMoves, <1>0, PcNames DEF InstalledInv, Still, device, Arrives, Returned
<1>10. CASE Reboot
    BY <1>10, RebootMoves, PcNames DEF InstalledInv, Arrives
<1>11. CASE WaitDown
    BY <1>11, WaitDownMoves, PcNames DEF InstalledInv, Still, device, Arrives
<1>12. CASE WaitUp
    BY <1>12, WaitUpMoves, PcNames DEF InstalledInv, device, Arrives
<1>13. CASE Launch
    BY <1>13, LaunchMoves, <1>0, PcNames DEF InstalledInv, Arrives
<1>14. CASE SmokePid
    BY <1>14, SmokePidMoves, <1>0, PcNames DEF InstalledInv, Still, device, Arrives
<1>15. CASE SmokeAgain
    BY <1>15, SmokeAgainMoves, <1>0, PcNames DEF InstalledInv, Still, device, Arrives
<1>16. CASE SmokeProbe
    BY <1>16, SmokeProbeMoves, <1>0, PcNames DEF InstalledInv, Still, device
<1>17. CASE ProcessStarts
    BY <1>17 DEF ProcessStarts, InstalledInv, Mismatch
<1>18. CASE ProcessDies
    BY <1>18 DEF ProcessDies, InstalledInv, Mismatch
<1>19. CASE HiviewWrites
    BY <1>19 DEF HiviewWrites, InstalledInv, Mismatch
<1>20. CASE GoDown
    BY <1>20 DEF GoDown, InstalledInv, Mismatch
<1>21. CASE ComeUp
    BY <1>21 DEF ComeUp, InstalledInv, Mismatch
<1>22. CASE LinkChanges
    BY <1>22 DEF LinkChanges, InstalledInv, Mismatch, device
<1>23. CASE UNCHANGED vars
    BY <1>23 DEF vars, InstalledInv, Mismatch, device
<1> QED BY <1>1, <1>2, <1>3, <1>4, <1>5, <1>6, <1>7, <1>8, <1>9, <1>10, <1>11, <1>12, <1>13, <1>14, <1>15, <1>16, <1>17,
           <1>18, <1>19, <1>20, <1>21, <1>22, <1>23 DEF Next, Command, Device

(* ApplyChanges: an apply or install that tells of a success has the HAP on the device.  hdc exits with 0 when the *)
(* bundle manager has rejected it, and the connection may be lost around any call.                                *)
THEOREM SuccessInstalls == Spec => []SuccessIsInstalled
<1>1. Init => InstalledInv
    BY PcNames DEF Init, InstalledInv
<1>2. InstalledInv => SuccessIsInstalled
    BY DEF InstalledInv, SuccessIsInstalled
<1>3. TypeInv /\ InstalledInv /\ [Next]_vars => InstalledInv'
    BY InstalledStep
<1> QED BY <1>1, <1>2, <1>3, TypeInvInit, TypeInvStep, PTL DEF Spec

LEMMA SystemBundleStep ==
    ASSUME TypeInv, InstalledInv, [Next]_vars,
           opt.cmd = "apply", opt.isSystemBundle, ~opt.allowUninstall, installed = "old"
    PROVE  installed' # "none"
<1>1. CASE Start
    BY <1>1, StartMoves DEF Still, device
<1>2. CASE PrePid
    BY <1>2, PrePidMoves DEF Still, device
<1>3. CASE Install
    BY <1>3, InstallMoves DEF Still, device, Taken
<1>4. CASE Uninstall
    BY <1>4, UninstallMoves DEF InstalledInv
<1>5. CASE FreshInstall
    BY <1>5, FreshInstallMoves DEF Still, device, Taken
<1>6. CASE Stop
    BY <1>6, StopMoves
<1>7. CASE Verify
    BY <1>7, VerifyMoves DEF Still, device
<1>8. CASE PostPid
    BY <1>8, PostPidMoves DEF Still, device
<1>9. CASE FinalPid
    BY <1>9, FinalPidMoves DEF Still, device
<1>10. CASE Reboot
    BY <1>10, RebootMoves
<1>11. CASE WaitDown
    BY <1>11, WaitDownMoves DEF Still, device
<1>12. CASE WaitUp
    BY <1>12, WaitUpMoves DEF device
<1>13. CASE Launch
    BY <1>13, LaunchMoves DEF Still, device
<1>14. CASE SmokePid
    BY <1>14, SmokePidMoves DEF Still, device
<1>15. CASE SmokeAgain
    BY <1>15, SmokeAgainMoves DEF Still, device
<1>16. CASE SmokeProbe
    BY <1>16, SmokeProbeMoves DEF Still, device
<1>17. CASE ProcessStarts
    BY <1>17, InstalledInv DEF ProcessStarts, device
<1>18. CASE ProcessDies
    BY <1>18, InstalledInv DEF ProcessDies, device
<1>19. CASE HiviewWrites
    BY <1>19, InstalledInv DEF HiviewWrites, device
<1>20. CASE GoDown
    BY <1>20, InstalledInv DEF GoDown, device
<1>21. CASE ComeUp
    BY <1>21, InstalledInv DEF ComeUp, device
<1>22. CASE LinkChanges
    BY <1>22, InstalledInv DEF LinkChanges, device
<1>23. CASE UNCHANGED vars
    BY <1>23, InstalledInv DEF vars, device
<1> QED BY <1>1, <1>2, <1>3, <1>4, <1>5, <1>6, <1>7, <1>8, <1>9, <1>10, <1>11, <1>12, <1>13, <1>14, <1>15, <1>16, <1>17,
           <1>18, <1>19, <1>20, <1>21, <1>22, <1>23 DEF Next, Command, Device

LEMMA RestartStep ==
    ASSUME TypeInv, WaitUp, opt.tcp, Restarts
    PROVE  link = "dead"
<1>1. Wedged
    BY DEF Restarts, WedgedPolls, WEDGED_POLLS_BEFORE_RESTART
<1> QED BY <1>1 DEF Wedged, Reachable, TypeInv, TypeOK

LEMMA TimeoutStep ==
    ASSUME TypeInv', run'.result = "timeout"
    PROVE  run'.ready < WEDGED_POLLS_BEFORE_RESTART
<1>1. run'.ready \in Nat /\ run'.wedged \in 0..2 /\ run'.ready <= run'.wedged
    BY DEF TypeInv, TypeOK, LocalsTyped, Locals, WedgedInv, WEDGED_POLLS_BEFORE_RESTART
<1> QED BY <1>1 DEF WEDGED_POLLS_BEFORE_RESTART

(* ApplyChanges: no command uninstalls a system bundle unasked, none restarts the hdc server but for a session   *)
(* that is dead, and none times out on an application that three polls in a row found up behind one.             *)
THEOREM DeviceSpared == Spec => DeviceIsSpared
<1>1. TypeInv /\ InstalledInv /\ [Next]_vars =>
          [opt.cmd = "apply" /\ opt.isSystemBundle /\ ~opt.allowUninstall /\ installed = "old" => installed' # "none"]_vars
    BY SystemBundleStep
<1>2. TypeInv /\ [Next]_vars => [WaitUp /\ opt.tcp /\ Restarts => link = "dead"]_vars
    BY RestartStep
<1>3. TypeInv' => [run'.result = "timeout" => run'.ready < WEDGED_POLLS_BEFORE_RESTART]_vars
    BY TimeoutStep
<1>4. Init => InstalledInv
    BY PcNames DEF Init, InstalledInv
<1>5. TypeInv /\ InstalledInv /\ [Next]_vars => InstalledInv'
    BY InstalledStep
<1> QED BY <1>1, <1>2, <1>3, <1>4, <1>5, TypeInvInit, TypeInvStep, PTL
        DEF Spec, DeviceIsSpared, SystemBundleStays, RestartOnlyWhenDead, WedgeCostsNoTimeout
------------------------------------------------------------------------------
(* A device that settles before the installation.                            *)
LEMMA CacheStep ==
    ASSUME TypeInv, CacheInv, [Next]_vars
    PROVE  CacheInv'
<1>0. CacheInv /\ installed \in {"none", "old", "new"} /\ ran \in [Pids -> {"nothing", "old", "new", "cached"}]
      /\ cached \in BOOLEAN
    BY DEF TypeInv, TypeOK
<1>n. ASSUME NewProcess, UNCHANGED <<opt, cached>>
      PROVE  CacheInv'
    BY <1>0, <1>n DEF NewProcess, CacheInv
<1>1. CASE Start
    BY <1>1, StartMoves DEF CacheInv, Still, device
<1>2. CASE PrePid
    BY <1>2, PrePidMoves DEF CacheInv, Still, device
<1>3. CASE Install
    BY <1>3, InstallMoves, <1>0 DEF CacheInv, Still, device, Taken
<1>4. CASE Uninstall
    BY <1>4, UninstallMoves DEF CacheInv, Still, device
<1>5. CASE FreshInstall
    BY <1>5, FreshInstallMoves, <1>0 DEF CacheInv, Still, device, Taken
<1>6. CASE Stop
    BY <1>6, StopMoves DEF CacheInv
<1>7. CASE Verify
    BY <1>7, VerifyMoves DEF CacheInv, Still, device
<1>8. CASE PostPid
    BY <1>8, PostPidMoves DEF CacheInv, Still, device
<1>9. CASE FinalPid
    BY <1>9, FinalPidMoves DEF CacheInv, Still, device
<1>10. CASE Reboot
    BY <1>10, RebootMoves DEF CacheInv
<1>11. CASE WaitDown
    BY <1>11, WaitDownMoves DEF CacheInv, Still, device
<1>12. CASE WaitUp
    BY <1>12, WaitUpMoves DEF CacheInv, device
<1>13. CASE Launch
    BY <1>13, LaunchMoves, <1>n DEF CacheInv, Still, device
<1>14. CASE SmokePid
    BY <1>14, SmokePidMoves DEF CacheInv, Still, device
<1>15. CASE SmokeAgain
    BY <1>15, SmokeAgainMoves DEF CacheInv, Still, device
<1>16. CASE SmokeProbe
    BY <1>16, SmokeProbeMoves DEF CacheInv, Still, device
<1>17. CASE ProcessStarts
    BY <1>17, <1>n DEF ProcessStarts
<1>18. CASE ProcessDies
    BY <1>18 DEF ProcessDies, CacheInv
<1>19. CASE HiviewWrites
    BY <1>19 DEF HiviewWrites, CacheInv
<1>20. CASE GoDown
    BY <1>20 DEF GoDown, CacheInv
<1>21. CASE ComeUp
    BY <1>21 DEF ComeUp, CacheInv
<1>22. CASE LinkChanges
    BY <1>22 DEF LinkChanges, CacheInv, device
<1>23. CASE UNCHANGED vars
    BY <1>23 DEF vars, CacheInv, device
<1> QED BY <1>1, <1>2, <1>3, <1>4, <1>5, <1>6, <1>7, <1>8, <1>9, <1>10, <1>11, <1>12, <1>13, <1>14, <1>15, <1>16, <1>17,
           <1>18, <1>19, <1>20, <1>21, <1>22, <1>23 DEF Next, Command, Device

LEMMA OldProcessStep ==
    ASSUME ~Unsettled, TypeInv, InstalledInv, OldProcessInv, [Next]_vars
    PROVE  OldProcessInv'
<1>0. /\ OldProcessInv /\ InstalledInv /\ LocalsTyped /\ RebootsOnce /\ installed \in {"none", "old", "new"}
      /\ opt.cmd \in Commands /\ link \in {"ok", "none", "dead"} /\ (link = "ok" => up) /\ proc \in Pids \cup {NoPid}
      /\ (run.pc = "done" <=> run.result # "none") /\ NoPid \notin Pids /\ up \in BOOLEAN
      /\ ran \in [Pids -> {"nothing", "old", "new", "cached"}] /\ opt.cmd \in Commands
    BY ConstantTypes DEF TypeInv, TypeOK, LocalsTyped, Options, Started
<1>n. ASSUME NewProcess, installed = "new"
      PROVE  proc' # NoPid /\ ran'[proc'] # "old"
    BY <1>0, <1>n DEF NewProcess
<1>1. CASE Start
    BY <1>1, StartMoves DEF OldProcessInv, Still, Arrives, Ended
<1>2. CASE PrePid
    BY <1>2, PrePidMoves DEF OldProcessInv, Reachable, PidReads, Still, device, Arrives, Ended
<1>3. CASE Install
    BY <1>3, InstallMoves DEF OldProcessInv, Reachable, SameReads, Still, device, Arrives, Ended, Taken
<1>4. CASE Uninstall
    BY <1>4, UninstallMoves DEF InstalledInv, OldProcessInv, Mismatch, Arrives, Ended
<1>5. CASE FreshInstall
    BY <1>5, FreshInstallMoves DEF OldProcessInv, Arrives, Ended, Taken
<1>6. CASE Stop
    BY <1>6, StopMoves DEF OldProcessInv, Ended
<1>7. CASE Verify
    BY <1>7, VerifyMoves DEF OldProcessInv, SameReads, Still, device, Arrives, Ended
<1>8. CASE PostPid
    BY <1>8, PostPidMoves DEF OldProcessInv, Arrives, Ended, Returned
<1>9. CASE FinalPid
    BY <1>9, FinalPidMoves DEF OldProcessInv, Arrives, Ended, Returned
<1>10. CASE Reboot
    BY <1>10, RebootMoves DEF OldProcessInv, Arrives
<1>11. CASE WaitDown
    BY <1>11, WaitDownMoves DEF OldProcessInv, Arrives
<1>12. CASE WaitUp
    BY <1>12, WaitUpMoves DEF OldProcessInv, Arrives
<1>13. CASE Launch
    BY <1>13, LaunchMoves DEF OldProcessInv, Arrives, Ended
<1>14. CASE SmokePid
    BY <1>14, SmokePidMoves DEF OldProcessInv, Arrives, Ended
<1>15. CASE SmokeAgain
    BY <1>15, SmokeAgainMoves DEF OldProcessInv, Arrives, Ended
<1>16. CASE SmokeProbe
    BY <1>16, SmokeProbeMoves DEF OldProcessInv, Ended
<1>17. CASE ProcessStarts
    BY <1>17, <1>n, PcNames DEF ProcessStarts, OldProcessInv, InstalledInv, Settled
<1>18. CASE ProcessDies
    BY <1>18 DEF ProcessDies, OldProcessInv, Settled
<1>19. CASE HiviewWrites
    BY <1>19 DEF HiviewWrites, OldProcessInv, Mismatch, Reachable
<1>20. CASE GoDown
    BY <1>20 DEF GoDown, OldProcessInv, Mismatch, Reachable
<1>21. CASE ComeUp
    BY <1>21, <1>0 DEF ComeUp, OldProcessInv, Mismatch, Reachable
<1>22. CASE LinkChanges
    BY <1>22 DEF LinkChanges, OldProcessInv, Settled, device
<1>23. CASE UNCHANGED vars
    BY <1>23 DEF vars, OldProcessInv, Mismatch, Reachable, device
<1> QED BY <1>1, <1>2, <1>3, <1>4, <1>5, <1>6, <1>7, <1>8, <1>9, <1>10, <1>11, <1>12, <1>13, <1>14, <1>15, <1>16, <1>17,
           <1>18, <1>19, <1>20, <1>21, <1>22, <1>23 DEF Next, Command, Device

LEMMA NewProcessStep ==
    ASSUME ~Unsettled, TypeInv, InstalledInv, SettledInv, [Next]_vars
    PROVE  NewProcessInv'
<1>0. /\ NewProcessInv /\ InstalledInv /\ LocalsTyped /\ RebootsOnce /\ CacheInv /\ installed \in {"none", "old", "new"}
      /\ opt.cmd \in Commands /\ proc \in Started \cup {NoPid} /\ Started \subseteq Pids
      /\ (run.pc = "done" <=> run.result # "none") /\ NoPid \notin Pids
      /\ ran \in [Pids -> {"nothing", "old", "new", "cached"}] /\ run.asked \in Nat /\ boots \in Nat
    BY ConstantTypes DEF TypeInv, TypeOK, LocalsTyped, Locals, Options, SettledInv, Started
<1>n. ASSUME NewProcess, installed = "new", ~cached
      PROVE  proc' # NoPid /\ ran'[proc'] = "new"
    BY <1>0, <1>n DEF NewProcess
<1>1. CASE Start
    BY <1>1, StartMoves, PcNames DEF NewProcessInv, Smoking, Still, Arrives, Ended
<1>2. CASE PrePid
    BY <1>2, PrePidMoves, PcNames DEF NewProcessInv, Smoking, Arrives, Ended
<1>3. CASE Install
    BY <1>3, InstallMoves DEF NewProcessInv, Smoking, Arrives, Ended
<1>4. CASE Uninstall
    BY <1>4, UninstallMoves, PcNames DEF NewProcessInv, Smoking, Arrives, Ended
<1>5. CASE FreshInstall
    BY <1>5, FreshInstallMoves, PcNames DEF NewProcessInv, Smoking, Arrives, Ended
<1>6. CASE Stop
    BY <1>6, StopMoves DEF NewProcessInv, Smoking, Ended
<1>7. CASE Verify
    BY <1>7, VerifyMoves, PcNames DEF NewProcessInv, Smoking, Arrives, Ended
<1>8. CASE PostPid
    <2>1. ASSUME NEW p \in PidReads, ~decideReboot(run.pre, p), Returned(p), p # NoPid, opt.cmd = "apply"
          PROVE  ~opt.assetsChanged /\ proc = p /\ ran[proc] = "new"
        <3>1. p = proc /\ ran[p] # "nothing" /\ ran[p] # "cached" /\ ~opt.assetsChanged
            BY <1>0, <2>1, Reads DEF decideReboot, CacheInv, Started
        <3>2. ran[p] # "old"
            BY <1>8, <2>1, <3>1, PostPidMoves DEF decideReboot, SettledInv, OldProcessInv
        <3> QED BY <1>0, <2>1, <3>1, <3>2
    <2>2. run.pc = "postPid" /\ Still /\ opt.cmd = "apply"
        BY <1>8, <1>0, PostPidMoves DEF LocalsTyped, Itinerary
    <2>3. CASE \E p \in PidReads : ~decideReboot(run.pre, p) /\ Returned(p)
        <3>1. PICK p \in PidReads : ~decideReboot(run.pre, p) /\ Returned(p)
            BY <2>3
        <3>2. run'.post = p /\ run'.pc \in {"launch", "done"} /\ opt' = opt /\ proc' = proc /\ ran' = ran
            BY <2>2, <3>1 DEF Returned, Arrives, Ended, Still, device
        <3>3. boots = 0 /\ run'.asked = run.asked
            BY <1>0, <2>2, <3>1, PcNames DEF RebootsOnce, Returned, SamePolls
        <3>4. boots' = boots /\ ~(boots > run.asked /\ boots = 0)
            BY <1>0, <2>2 DEF Still, device
        <3> QED BY <2>1, <2>2, <3>1, <3>2, <3>3, <3>4 DEF NewProcessInv
    <2>4. CASE ~\E p \in PidReads : ~decideReboot(run.pre, p) /\ Returned(p)
        BY <1>8, <2>2, <2>4, PostPidMoves, PcNames DEF NewProcessInv, Arrives, Ended, Smoking
    <2> QED BY <2>3, <2>4
<1>9. CASE FinalPid
    BY <1>9, FinalPidMoves, <1>0, PcNames DEF NewProcessInv, SamePolls, Still, device, Returned
<1>10. CASE Reboot
    BY <1>10, RebootMoves, <1>0 DEF NewProcessInv
<1>11. CASE WaitDown
    BY <1>11, WaitDownMoves, <1>0, PcNames DEF NewProcessInv, SamePolls, Still, device
<1>12. CASE WaitUp
    BY <1>12, WaitUpMoves, <1>0, PcNames DEF NewProcessInv, device
<1>13. CASE Launch
    BY <1>13, LaunchMoves, <1>0, <1>n, PcNames DEF NewProcessInv, InstalledInv, CacheInv, SameReads, SamePolls, Still,
       device, Arrives, Ended
<1>14. CASE SmokePid
    BY <1>14, SmokePidMoves, <1>0, PcNames DEF NewProcessInv, Smoking, SamePolls, Still, device, Arrives, Ended
<1>15. CASE SmokeAgain
    BY <1>15, SmokeAgainMoves, <1>0, PcNames DEF NewProcessInv, Smoking, SamePolls, Still, device, Arrives, Ended
<1>16. CASE SmokeProbe
    BY <1>16, SmokeProbeMoves DEF NewProcessInv, Smoking, Ended
<1>17. CASE ProcessStarts
    BY <1>17, <1>0, <1>n, PcNames DEF ProcessStarts, NewProcessInv, InstalledInv, CacheInv, Smoking
<1>18. CASE ProcessDies
    BY <1>18, <1>0 DEF ProcessDies, NewProcessInv
<1>19. CASE HiviewWrites
    BY <1>19, <1>0 DEF HiviewWrites, NewProcessInv
<1>20. CASE GoDown
    BY <1>20, <1>0 DEF GoDown, NewProcessInv
<1>21. CASE ComeUp
    BY <1>21, <1>0 DEF ComeUp, NewProcessInv
<1>22. CASE LinkChanges
    BY <1>22, <1>0 DEF LinkChanges, NewProcessInv, device
<1>23. CASE UNCHANGED vars
    BY <1>23, <1>0 DEF vars, NewProcessInv, device
<1> QED BY <1>1, <1>2, <1>3, <1>4, <1>5, <1>6, <1>7, <1>8, <1>9, <1>10, <1>11, <1>12, <1>13, <1>14, <1>15, <1>16, <1>17,
           <1>18, <1>19, <1>20, <1>21, <1>22, <1>23 DEF Next, Command, Device

LEMMA SettledInvInit == Init => InstalledInv /\ SettledInv
<1> SUFFICES ASSUME Init PROVE InstalledInv /\ SettledInv
    OBVIOUS
<1>1. InstalledInv /\ CacheInv
    BY PcNames DEF Init, InstalledInv, CacheInv
<1>2. OldProcessInv /\ NewProcessInv
    BY DEF Init, OldProcessInv, NewProcessInv
<1> QED BY <1>1, <1>2 DEF SettledInv

LEMMA SettledInvStep ==
    ASSUME ~Unsettled
    PROVE  TypeInv /\ InstalledInv /\ SettledInv /\ [Next]_vars => InstalledInv' /\ SettledInv'
BY InstalledStep, CacheStep, OldProcessStep, NewProcessStep DEF SettledInv

LEMMA TookStep ==
    ASSUME TypeInv, InstalledInv, SettledInv, [Next]_vars, run.pc \in {"postPid", "finalPid"},
           run'.pc = "launch" \/ run'.result = "ok", run'.post # NoPid, run.method = "reboot" => boots > run.asked
    PROVE  ran[run'.post] = "new"
<1>0. /\ opt.cmd = "apply" /\ run.result = "none" /\ NoPid \notin Pids
      /\ ran \in [Pids -> {"nothing", "old", "new", "cached"}]
    BY ConstantTypes DEF TypeInv, TypeOK, LocalsTyped, Itinerary
<1>1. \E p \in PidReads : Returned(p) /\ (run.pc = "postPid" => ~decideReboot(run.pre, p))
    <2>1. CASE PostPid
        BY <1>0, <2>1, PostPidMoves DEF Ended, Arrives
    <2>2. CASE FinalPid
        BY <2>2, FinalPidMoves DEF Ended
    <2>3. CASE Device \/ UNCHANGED vars
        BY <1>0, <2>3, DeviceMoves DEF vars
    <2> QED BY <2>1, <2>2, <2>3 DEF Next, Command, Start, PrePid, Install, Uninstall, FreshInstall, Stop, Verify, Reboot,
               WaitDown, WaitUp, Launch, SmokePid, SmokeAgain, SmokeProbe
<1>2. PICK p \in PidReads : Returned(p) /\ (run.pc = "postPid" => ~decideReboot(run.pre, p))
    BY <1>1
<1>3. run'.post = p /\ p = proc /\ ran[p] # "nothing" /\ p \in Pids
    BY <1>2, Reads DEF Returned, Started
<1>4. CASE run.pc = "postPid"
    BY <1>0, <1>2, <1>3, <1>4 DEF decideReboot, SettledInv, CacheInv, OldProcessInv
<1>5. CASE run.pc = "finalPid"
    BY <1>0, <1>2, <1>3, <1>5, PcNames DEF SettledInv, NewProcessInv
<1> QED BY <1>4, <1>5

LEMMA AliveStep ==
    ASSUME TypeInv, SettledInv, [Next]_vars, run.pc = "smokeAgain", run'.pc = "smokeProbe", alive'
    PROVE  /\ proc = run.seen
           /\ run.method \in {"replace", "uninstall-install"} /\ run.post # NoPid => ran[proc] = "new"
<1>1. SmokeAgain
    <2>1. CASE Device \/ UNCHANGED vars
        BY <2>1, DeviceMoves DEF vars
    <2> QED BY <2>1 DEF Next, Command, Start, PrePid, Install, Uninstall, FreshInstall, Stop, Verify, PostPid, FinalPid,
               Reboot, WaitDown, WaitUp, Launch, SmokePid, SmokeProbe
<1>2. run.seen # NoPid /\ run'.again = run.seen /\ run'.again \in PidReads \cup {NoPid}
    BY <1>1, SmokeAgainMoves DEF alive, Ended
<1>3. proc = run.seen /\ proc # NoPid
    BY <1>2, Reads
<1>4. opt.cmd = "apply" \/ run.method = "none"
    BY DEF TypeInv, LocalsTyped
<1> QED BY <1>3, <1>4 DEF SettledInv, NewProcessInv, Smoking

(* ApplyChanges: on a device whose processes and connection keep still while apply has yet to install, the pid that *)
(* is reported is one of a process that runs the new HAP with its own assets, if a reboot that was asked for came.  *)
THEOREM ChangeIsTaken == ASSUME ~Unsettled PROVE Spec => TookChange
<1>1. TypeInv /\ InstalledInv /\ SettledInv /\ [Next]_vars =>
          [run.pc \in {"postPid", "finalPid"} /\ (run'.pc = "launch" \/ run'.result = "ok") /\ run'.post # NoPid
             /\ (run.method = "reboot" => boots > run.asked) => ran[run'.post] = "new"]_vars
    BY TookStep
<1> QED BY <1>1, TypeInvInit, TypeInvStep, SettledInvInit, SettledInvStep, PTL DEF Spec, TookChange

(* ApplyChanges: under the same assumption a launch is passed as alive only while the process first seen still runs, *)
(* and after an installation that needed no reboot that process runs the new HAP.                                   *)
THEOREM PassedStaysUp == ASSUME ~Unsettled PROVE Spec => SmokePassedStayedUp
<1>1. TypeInv /\ SettledInv /\ [Next]_vars =>
          [run.pc = "smokeAgain" /\ run'.pc = "smokeProbe" /\ alive' =>
             /\ proc = run.seen
             /\ run.method \in {"replace", "uninstall-install"} /\ run.post # NoPid => ran[proc] = "new"]_vars
    BY AliveStep
<1> QED BY <1>1, TypeInvInit, TypeInvStep, SettledInvInit, SettledInvStep, PTL DEF Spec, SmokePassedStayedUp

------------------------------------------------------------------------------
(* Performance captures (PerfCapture).                                       *)

(* The state has its types.                                                  *)
Closing == {"stopHiperf", "nodump", "rm", "restore", "summarise", "reported"}  \* the `finally` and after
Places == {"wake", "hold", "stop", "begin", "takeOver", "launch", "hiperf", "flow", "pid", "finish", "recv"} \cup Closing
Captures ==
    [at: Places,
     launch: BOOLEAN, flow: BOOLEAN, hiperf: BOOLEAN, tracing: BOOLEAN, sampling: BOOLEAN, restore: BOOLEAN,
     flowEnded: {"none", "error", "passed", "failed"}, error: BOOLEAN, ok: BOOLEAN, aborted: BOOLEAN, throws: Nat]
Phones_ == [trace: {"off", "other", "ours"}, hiperf: BOOLEAN, held: BOOLEAN, files: SUBSET {"perf", "trace"},
            since: SUBSET {"launch", "flow"}]
CaptureTypeOK == capture \in Captures /\ phone_ \in Phones_

(* What runs on the device is what a local remembers, until the `finally`    *)
(* has seen to it, or what nobody heard of.                                  *)
CaptureHeld ==
    /\ phone_.trace = "ours" => (capture.tracing /\ capture.at \notin Closing \ {"stopHiperf", "nodump"}) \/ "trace" \in lost
    /\ phone_.hiperf => (capture.sampling /\ capture.at \notin Closing \ {"stopHiperf"}) \/ "hiperf" \in lost
    /\ phone_.held => (capture.restore /\ capture.at \notin {"summarise", "reported"}) \/ "held" \in lost
    /\ phone_.files # {} => capture.at \notin {"restore", "summarise", "reported"} \/ lost \cap {"files", "hiperf"} # {}

(* Without an error the session has seen each part that is over.             *)
Measured ==
    /\ capture.ok => capture.at = "reported" /\ ~capture.error
    /\ capture.at = "summarise" => ~capture.error
    /\ ~capture.error =>
         /\ capture.at \in {"launch", "hiperf", "flow", "pid", "finish"} => phone_.trace = "ours"
         /\ capture.at \in {"hiperf", "flow", "pid", "finish", "recv"} \cup Closing =>
              (capture.launch => "launch" \in phone_.since)
         /\ capture.at \in {"pid", "finish", "recv"} \cup Closing =>
              (capture.flow => "flow" \in phone_.since /\ capture.flowEnded \in {"passed", "failed"})
         /\ capture.at \in {"recv"} \cup Closing => phone_.trace # "other"
CaptureInv == CaptureTypeOK /\ CaptureHeld /\ Measured

LEMMA CaptureInitInv == PerfInit => CaptureInv
<1> SUFFICES ASSUME PerfInit PROVE CaptureInv
    OBVIOUS
<1>1. capture \in Captures
    <2>1. capture = [at |-> capture.at, launch |-> capture.launch, flow |-> capture.flow, hiperf |-> capture.hiperf,
                     tracing |-> capture.tracing, sampling |-> capture.sampling, restore |-> capture.restore,
                     flowEnded |-> capture.flowEnded, error |-> capture.error, ok |-> capture.ok,
                     aborted |-> capture.aborted, throws |-> capture.throws]
        BY DEF PerfInit
    <2>2. /\ capture.at = "wake" /\ capture.flowEnded = "none" /\ capture.throws = 0
          /\ {capture.launch, capture.flow, capture.hiperf, capture.tracing, capture.sampling, capture.restore,
              capture.error, capture.ok, capture.aborted} \subseteq BOOLEAN
        BY DEF PerfInit
    <2> QED BY <2>1, <2>2 DEF Captures, Places
<1>2. phone_ \in Phones_
    BY DEF PerfInit, Phones_
<1>3. capture.at = "wake" /\ capture.ok = FALSE
    BY DEF PerfInit
<1>4. phone_.trace # "ours" /\ ~phone_.hiperf /\ ~phone_.held /\ phone_.files = {}
    BY DEF PerfInit
<1> QED BY <1>1, <1>2, <1>3, <1>4 DEF CaptureInv, CaptureTypeOK, CaptureHeld, Measured, Closing

(* A capture's step on the locals that the device depends on.              *)
Locals_(c, at, tracing, sampling, restore, flowEnded, error, ok) ==
    /\ c \in Captures /\ c.launch = capture.launch /\ c.flow = capture.flow
    /\ c.at = at /\ c.tracing = tracing /\ c.sampling = sampling /\ c.restore = restore /\ c.flowEnded = flowEnded
    /\ c.error = error /\ c.ok = ok
With(c, at) == Locals_(c, at, capture.tracing, capture.sampling, capture.restore, capture.flowEnded, capture.error, capture.ok)
Failed_(c, tracing, sampling, flowEnded) ==
    Locals_(c, "stopHiperf", tracing, sampling, capture.restore, flowEnded, TRUE, capture.ok)

LEMMA CaptureLocals ==
    ASSUME capture \in Captures
    PROVE  /\ \A x \in Places : With([capture EXCEPT !.at = x], x)
           /\ Failed_(Fails(capture), capture.tracing, capture.sampling, capture.flowEnded)
           /\ Failed_(Fails([capture EXCEPT !.throws = @ + 1]), capture.tracing, capture.sampling, capture.flowEnded)
           /\ Failed_(Fails([capture EXCEPT !.flowEnded = "error"]), capture.tracing, capture.sampling, "error")
           /\ Failed_(Fails([capture EXCEPT !.throws = @ + 1, !.sampling = FALSE]), capture.tracing, FALSE, capture.flowEnded)
           /\ Failed_([Fails(capture) EXCEPT !.tracing = FALSE], FALSE, capture.sampling, capture.flowEnded)
           /\ With([capture EXCEPT !.aborted = TRUE], capture.at)
<1> USE DEF Captures, Places, Closing, With, Failed_, Locals_, Fails
<1> DEFINE thrown == [capture EXCEPT !.throws = @ + 1]
           silent == [capture EXCEPT !.throws = @ + 1, !.sampling = FALSE]
<1>1. With(thrown, capture.at)
    <2>1. capture.throws + 1 \in Nat
        OBVIOUS
    <2> QED BY <2>1
<1>2. Locals_(silent, capture.at, capture.tracing, FALSE, capture.restore, capture.flowEnded, capture.error, capture.ok)
    <2>1. capture.throws + 1 \in Nat
        OBVIOUS
    <2> QED BY <2>1
<1> HIDE DEF thrown, silent
<1>3. \A x \in Places : With([capture EXCEPT !.at = x], x)
    OBVIOUS
<1>4. Failed_(Fails(capture), capture.tracing, capture.sampling, capture.flowEnded)
    OBVIOUS
<1>5. Failed_(Fails(thrown), capture.tracing, capture.sampling, capture.flowEnded)
    BY <1>1
<1>6. Failed_(Fails([capture EXCEPT !.flowEnded = "error"]), capture.tracing, capture.sampling, "error")
    OBVIOUS
<1>7. Failed_(Fails(silent), capture.tracing, FALSE, capture.flowEnded)
    BY <1>2
<1>8. Failed_([Fails(capture) EXCEPT !.tracing = FALSE], FALSE, capture.sampling, capture.flowEnded)
    OBVIOUS
<1>9. With([capture EXCEPT !.aborted = TRUE], capture.at)
    OBVIOUS
<1> HIDE DEF Captures, Places, Closing, With, Failed_, Locals_, Fails
<1> QED BY <1>3, <1>4, <1>5, <1>6, <1>7, <1>8, <1>9 DEF thrown, silent

LEMMA CaptureMoves ==
    ASSUME capture \in Captures
    PROVE  /\ \A r \in BOOLEAN : Locals_([capture EXCEPT !.at = "stop", !.restore = r], "stop", capture.tracing,
                                  capture.sampling, r, capture.flowEnded, capture.error, capture.ok)
           /\ Locals_([capture EXCEPT !.at = "launch", !.tracing = TRUE], "launch", TRUE, capture.sampling,
                      capture.restore, capture.flowEnded, capture.error, capture.ok)
           /\ Locals_([capture EXCEPT !.at = "flow", !.sampling = TRUE], "flow", capture.tracing, TRUE,
                      capture.restore, capture.flowEnded, capture.error, capture.ok)
           /\ \A how \in {"passed", "failed"} :
                Locals_([capture EXCEPT !.at = "pid", !.flowEnded = how], "pid", capture.tracing, capture.sampling,
                        capture.restore, how, capture.error, capture.ok)
           /\ Locals_([capture EXCEPT !.at = "finish", !.sampling = FALSE], "finish", capture.tracing, FALSE,
                      capture.restore, capture.flowEnded, capture.error, capture.ok)
           /\ Locals_([capture EXCEPT !.at = "recv", !.tracing = FALSE], "recv", FALSE, capture.sampling,
                      capture.restore, capture.flowEnded, capture.error, capture.ok)
           /\ \A reads \in BOOLEAN :
                Locals_([capture EXCEPT !.at = "reported", !.ok = reads, !.error = ~reads], "reported", capture.tracing,
                        capture.sampling, capture.restore, capture.flowEnded, ~reads, reads)
<1> USE DEF Captures, Places, Closing, Locals_
<1>1. \A r \in BOOLEAN : Locals_([capture EXCEPT !.at = "stop", !.restore = r], "stop", capture.tracing,
                                  capture.sampling, r, capture.flowEnded, capture.error, capture.ok)
    OBVIOUS
<1>2. Locals_([capture EXCEPT !.at = "launch", !.tracing = TRUE], "launch", TRUE, capture.sampling,
              capture.restore, capture.flowEnded, capture.error, capture.ok)
    OBVIOUS
<1>3. Locals_([capture EXCEPT !.at = "flow", !.sampling = TRUE], "flow", capture.tracing, TRUE,
              capture.restore, capture.flowEnded, capture.error, capture.ok)
    OBVIOUS
<1>4. \A how \in {"passed", "failed"} :
        Locals_([capture EXCEPT !.at = "pid", !.flowEnded = how], "pid", capture.tracing, capture.sampling,
                capture.restore, how, capture.error, capture.ok)
    OBVIOUS
<1>5. Locals_([capture EXCEPT !.at = "finish", !.sampling = FALSE], "finish", capture.tracing, FALSE,
              capture.restore, capture.flowEnded, capture.error, capture.ok)
    OBVIOUS
<1>6. Locals_([capture EXCEPT !.at = "recv", !.tracing = FALSE], "recv", FALSE, capture.sampling,
              capture.restore, capture.flowEnded, capture.error, capture.ok)
    OBVIOUS
<1>7. \A reads \in BOOLEAN :
        Locals_([capture EXCEPT !.at = "reported", !.ok = reads, !.error = ~reads], "reported", capture.tracing,
                capture.sampling, capture.restore, capture.flowEnded, ~reads, reads)
    OBVIOUS
<1> HIDE DEF Captures, Places, Closing, Locals_
<1> QED BY <1>1, <1>2, <1>3, <1>4, <1>5, <1>6, <1>7

(* What a step does to the device.                                           *)
Device_(p, session, hiperf, held, files, since) ==
    /\ p \in Phones_ /\ p.trace = session /\ p.hiperf = hiperf /\ p.held = held /\ p.files = files /\ p.since = since

LEMMA PhoneFields ==
    ASSUME phone_ \in Phones_
    PROVE  /\ \A h \in BOOLEAN : Device_([phone_ EXCEPT !.held = h], phone_.trace, phone_.hiperf, h, phone_.files, phone_.since)
           /\ Device_(Session, "ours", phone_.hiperf, phone_.held, phone_.files, {})
           /\ Device_([phone_ EXCEPT !.trace = "off"], "off", phone_.hiperf, phone_.held, phone_.files, phone_.since)
           /\ \A what \in {"launch", "flow"} : Device_([phone_ EXCEPT !.since = @ \cup {what}], phone_.trace, phone_.hiperf,
                                                       phone_.held, phone_.files, phone_.since \cup {what})
           /\ Device_([phone_ EXCEPT !.hiperf = TRUE, !.files = @ \cup {"perf"}], phone_.trace, TRUE, phone_.held,
                      phone_.files \cup {"perf"}, phone_.since)
           /\ Device_([phone_ EXCEPT !.hiperf = FALSE], phone_.trace, FALSE, phone_.held, phone_.files, phone_.since)
           /\ Device_(Ended_, "off", phone_.hiperf, phone_.held, phone_.files \cup {"trace"}, phone_.since)
           /\ Device_([phone_ EXCEPT !.files = {}], phone_.trace, phone_.hiperf, phone_.held, {}, phone_.since)
<1> USE DEF Phones_, Device_
<1>1. \A h \in BOOLEAN : Device_([phone_ EXCEPT !.held = h], phone_.trace, phone_.hiperf, h, phone_.files, phone_.since)
    OBVIOUS
<1>2. Device_(Session, "ours", phone_.hiperf, phone_.held, phone_.files, {})
    BY DEF Session
<1>3. Device_([phone_ EXCEPT !.trace = "off"], "off", phone_.hiperf, phone_.held, phone_.files, phone_.since)
    OBVIOUS
<1>4. \A what \in {"launch", "flow"} : Device_([phone_ EXCEPT !.since = @ \cup {what}], phone_.trace, phone_.hiperf,
                                               phone_.held, phone_.files, phone_.since \cup {what})
    OBVIOUS
<1>5. Device_([phone_ EXCEPT !.hiperf = TRUE, !.files = @ \cup {"perf"}], phone_.trace, TRUE, phone_.held,
              phone_.files \cup {"perf"}, phone_.since)
    OBVIOUS
<1>6. Device_([phone_ EXCEPT !.hiperf = FALSE], phone_.trace, FALSE, phone_.held, phone_.files, phone_.since)
    OBVIOUS
<1>7. Device_(Ended_, "off", phone_.hiperf, phone_.held, phone_.files \cup {"trace"}, phone_.since)
    BY DEF Ended_
<1>8. Device_([phone_ EXCEPT !.files = {}], phone_.trace, phone_.hiperf, phone_.held, {}, phone_.since)
    OBVIOUS
<1> HIDE DEF Phones_, Device_
<1> QED BY <1>1, <1>2, <1>3, <1>4, <1>5, <1>6, <1>7, <1>8

LEMMA CaptureNextInv == CaptureInv /\ [PerfNext]_perfVars => CaptureInv'
<1> SUFFICES ASSUME CaptureInv, [PerfNext]_perfVars PROVE CaptureInv'
    OBVIOUS
<1> DEFINE goes(x) == With(capture', x)
           fails == Failed_(capture', capture.tracing, capture.sampling, capture.flowEnded)
           moves(at, tracing, sampling, restore, flowEnded) ==
               Locals_(capture', at, tracing, sampling, restore, flowEnded, capture.error, capture.ok)
           onDevice(session, hiperf, held, files, since) == Device_(phone_', session, hiperf, held, files, since)
           sees(what) == IF phone_.trace = "ours"
                         THEN onDevice("ours", phone_.hiperf, phone_.held, phone_.files, phone_.since \cup {what})
                         ELSE phone_' = phone_
<1>1. capture \in Captures /\ phone_ \in Phones_
    BY DEF CaptureInv, CaptureTypeOK
<1>2. /\ \A x \in Places : To_(x) => goes(x)
      /\ CallThrows => fails
      /\ capture' = Fails(capture) => fails
    BY <1>1, CaptureLocals DEF To_, CallThrows
<1>3. Places = {"wake", "hold", "stop", "begin", "takeOver", "launch", "hiperf", "flow", "pid", "finish", "recv",
                "stopHiperf", "nodump", "rm", "restore", "summarise", "reported"}
    BY DEF Places, Closing
<1> USE DEF Is_, Unheard
<1>4. ASSUME wakeAndUnlock
      PROVE  /\ capture.at = "wake" /\ phone_' = phone_ /\ lost' = lost
             /\ goes("hold") \/ fails
    BY <1>1, <1>2, <1>3, <1>4 DEF wakeAndUnlock
<1>5. ASSUME holdScreenOn
      PROVE  /\ capture.at = "hold"
             /\ \/ \E held, heard \in BOOLEAN :
                     /\ moves("stop", capture.tracing, capture.sampling, held /\ heard, capture.flowEnded)
                     /\ onDevice(phone_.trace, phone_.hiperf, held, phone_.files, phone_.since)
                     /\ IF held /\ ~heard THEN lost' = lost \cup {"held"} ELSE lost' = lost
                \/ goes("stop") /\ phone_' = phone_ /\ lost' = lost
    BY <1>1, <1>2, <1>3, <1>5, CaptureMoves, PhoneFields DEF holdScreenOn
<1>6. ASSUME forceStop_
      PROVE  capture.at = "stop" /\ goes("begin") /\ phone_' = phone_ /\ lost' = lost
    BY <1>1, <1>2, <1>3, <1>6 DEF forceStop_
<1>7. ASSUME traceBegin
      PROVE  /\ capture.at = "begin"
             /\ \/ /\ moves("launch", TRUE, capture.sampling, capture.restore, capture.flowEnded) /\ lost' = lost
                   /\ onDevice("ours", phone_.hiperf, phone_.held, phone_.files, {})
                \/ (goes("takeOver") \/ fails) /\ phone_' = phone_ /\ lost' = lost
                \/ /\ fails /\ lost' = lost \cup {"trace"}
                   /\ onDevice("ours", phone_.hiperf, phone_.held, phone_.files, {})
    BY <1>1, <1>2, <1>3, <1>7, CaptureMoves, PhoneFields DEF traceBegin
<1>8. ASSUME takeOver
      PROVE  /\ capture.at = "takeOver" /\ lost' = lost
             /\ goes("begin") \/ fails
             /\ phone_' = phone_ \/ onDevice("off", phone_.hiperf, phone_.held, phone_.files, phone_.since)
    BY <1>1, <1>2, <1>3, <1>8, PhoneFields DEF takeOver
<1>9. ASSUME launchApp_
      PROVE  /\ capture.at = "launch" /\ lost' = lost
             /\ \/ ((goes("hiperf") /\ ~capture.launch) \/ fails) /\ phone_' = phone_
                \/ goes("hiperf") /\ sees("launch")
    BY <1>1, <1>2, <1>3, <1>9, PhoneFields DEF launchApp_, Sees
<1>10. ASSUME startHiperf
      PROVE  /\ capture.at = "hiperf"
             /\ \/ goes("flow") /\ phone_' = phone_ /\ lost' = lost
                \/ /\ onDevice(phone_.trace, TRUE, phone_.held, phone_.files \cup {"perf"}, phone_.since)
                   /\ \/ moves("flow", capture.tracing, TRUE, capture.restore, capture.flowEnded) /\ lost' = lost
                      \/ fails /\ lost' = lost \cup {"hiperf"}
    BY <1>1, <1>2, <1>3, <1>10, CaptureMoves, PhoneFields DEF startHiperf
<1>11. ASSUME replay
      PROVE  /\ capture.at = "flow" /\ lost' = lost
             /\ \/ /\ phone_' = phone_
                   /\ \/ fails
                      \/ goes("pid") /\ ~capture.flow
                      \/ Failed_(capture', capture.tracing, capture.sampling, "error")
                \/ /\ sees("flow")
                   /\ \E how \in {"passed", "failed"} :
                        moves("pid", capture.tracing, capture.sampling, capture.restore, how)
    BY <1>1, <1>2, <1>3, <1>11, CaptureLocals, CaptureMoves, PhoneFields DEF replay, Sees
<1>12. ASSUME collectHiperf
      PROVE  /\ capture.at = "pid" /\ lost' = lost
             /\ \/ ((goes("finish") /\ ~capture.sampling) \/ fails) /\ phone_' = phone_
                \/ /\ onDevice(phone_.trace, FALSE, phone_.held, phone_.files, phone_.since)
                   /\ \/ moves("finish", capture.tracing, FALSE, capture.restore, capture.flowEnded)
                      \/ Failed_(capture', capture.tracing, FALSE, capture.flowEnded)
    BY <1>1, <1>2, <1>3, <1>12, CaptureLocals, CaptureMoves, PhoneFields DEF collectHiperf
<1>13. ASSUME traceFinish
      PROVE  /\ capture.at = "finish"
             /\ \/ /\ moves("recv", FALSE, capture.sampling, capture.restore, capture.flowEnded) /\ lost' = lost
                   /\ onDevice("off", phone_.hiperf, phone_.held, phone_.files \cup {"trace"}, phone_.since)
                \/ /\ Failed_(capture', FALSE, capture.sampling, capture.flowEnded)
                   /\ phone_' = phone_ /\ lost' = lost \cup {"trace"}
                \/ /\ fails /\ lost' = lost
                   /\ \/ phone_' = phone_
                      \/ onDevice("off", phone_.hiperf, phone_.held, phone_.files \cup {"trace"}, phone_.since)
    BY <1>1, <1>2, <1>3, <1>13, CaptureLocals, CaptureMoves, PhoneFields DEF traceFinish
<1>14. ASSUME recvTrace
      PROVE  /\ capture.at = "recv" /\ phone_' = phone_ /\ lost' = lost
             /\ goes("stopHiperf") \/ fails
    BY <1>1, <1>2, <1>3, <1>14 DEF recvTrace
<1>15. ASSUME finallyStopHiperf
      PROVE  /\ capture.at = "stopHiperf" /\ goes("nodump")
             /\ \/ /\ onDevice(phone_.trace, FALSE, phone_.held, phone_.files, phone_.since) /\ lost' = lost
                \/ /\ phone_' = phone_ /\ lost' = lost \cup {"hiperf"}
                \/ /\ ~capture.sampling /\ phone_' = phone_ /\ lost' = lost
    BY <1>1, <1>2, <1>3, <1>15, PhoneFields DEF finallyStopHiperf, stopProcess
<1>16. ASSUME finallyNodump
      PROVE  /\ capture.at = "nodump" /\ goes("rm")
             /\ \/ /\ onDevice("off", phone_.hiperf, phone_.held, phone_.files, phone_.since) /\ lost' = lost
                \/ /\ phone_' = phone_ /\ lost' = lost \cup {"trace"}
                \/ /\ ~capture.tracing /\ phone_' = phone_ /\ lost' = lost
    BY <1>1, <1>2, <1>3, <1>16, PhoneFields DEF finallyNodump
<1>17. ASSUME finallyRm
      PROVE  /\ capture.at = "rm" /\ goes("restore")
             /\ \/ /\ onDevice(phone_.trace, phone_.hiperf, phone_.held, {}, phone_.since) /\ lost' = lost
                \/ /\ phone_' = phone_ /\ lost' = lost \cup {"files"}
    BY <1>1, <1>2, <1>3, <1>17, PhoneFields DEF finallyRm
<1>18. ASSUME finallyRestore
      PROVE  /\ capture.at = "restore" /\ goes(IF capture.error THEN "reported" ELSE "summarise")
             /\ \/ /\ lost' = lost
                   /\ onDevice(phone_.trace, phone_.hiperf, phone_.held /\ ~capture.restore, phone_.files, phone_.since)
                \/ /\ phone_' = phone_ /\ lost' = lost \cup {"held"}
    BY <1>1, <1>2, <1>3, <1>18, PhoneFields DEF finallyRestore
<1>19. ASSUME summarise
      PROVE  /\ capture.at = "summarise" /\ phone_' = phone_ /\ lost' = lost
             /\ \E reads \in BOOLEAN :
                  Locals_(capture', "reported", capture.tracing, capture.sampling, capture.restore, capture.flowEnded,
                          ~reads, reads)
    BY <1>1, <1>2, <1>3, <1>19, CaptureMoves DEF summarise
<1>20. ASSUME AbortCapture
      PROVE  goes(capture.at) /\ phone_' = phone_ /\ lost' = lost
    BY <1>1, <1>2, <1>3, <1>20, CaptureLocals DEF AbortCapture
<1> USE DEF CaptureInv, CaptureTypeOK, CaptureHeld, Measured, Closing, With, Failed_, Locals_, Device_
<1>21. CASE wakeAndUnlock
    BY <1>21, <1>4
<1>22. CASE holdScreenOn
    BY <1>22, <1>5
<1>23. CASE forceStop_
    BY <1>23, <1>6
<1>24. CASE traceBegin
    BY <1>24, <1>7
<1>25. CASE takeOver
    BY <1>25, <1>8
<1>26. CASE launchApp_
    BY <1>26, <1>9
<1>27. CASE startHiperf
    BY <1>27, <1>10
<1>28. CASE replay
    BY <1>28, <1>11
<1>29. CASE collectHiperf
    BY <1>29, <1>12
<1>30. CASE traceFinish
    BY <1>30, <1>13
<1>31. CASE recvTrace
    BY <1>31, <1>14
<1>32. CASE finallyStopHiperf
    BY <1>32, <1>15
<1>33. CASE finallyNodump
    BY <1>33, <1>16
<1>34. CASE finallyRm
    BY <1>34, <1>17
<1>35. CASE finallyRestore
    BY <1>35, <1>18
<1>36. CASE summarise
    BY <1>36, <1>19
<1>37. CASE AbortCapture
    BY <1>37, <1>20
<1>38. CASE UNCHANGED perfVars
    BY <1>38 DEF perfVars
<1> HIDE DEF CaptureInv
<1> QED BY <1>21, <1>22, <1>23, <1>24, <1>25, <1>26, <1>27, <1>28, <1>29, <1>30, <1>31, <1>32, <1>33, <1>34, <1>35, <1>36, <1>37, <1>38 DEF PerfNext

(* A capture that was reported has given the device back.                    *)
THEOREM CaptureGivesBack == PerfSpec => []CaptureLeavesDevice
<1>1. CaptureInv => CaptureLeavesDevice
    BY DEF CaptureInv, CaptureHeld, Closing, CaptureLeavesDevice
<1> QED BY <1>1, CaptureInitInv, CaptureNextInv, PTL DEF PerfSpec

(* A report that is ok measured what was asked for.                          *)
THEOREM CaptureIsMeasured == PerfSpec => []OkIsMeasured
<1>1. CaptureInv => OkIsMeasured
    BY DEF CaptureInv, Measured, Closing, OkIsMeasured
<1> QED BY <1>1, CaptureInitInv, CaptureNextInv, PTL DEF PerfSpec

------------------------------------------------------------------------------
(* Test runs (TestRun).                                                      *)

(* The log streams while `aa test` runs, and the screen timeout is           *)
(* overridden for as long as somebody means to give it back, or unheard.     *)
TestRecords ==
    /\ {"at", "restore", "lost", "aborted", "ok", "outcome", "picked"} \subseteq DOMAIN test
    /\ {"main", "test", "held"} \subseteq DOMAIN phone /\ {"on", "known"} \subseteq DOMAIN bundleLog
    /\ {test.restore, test.lost, phone.held, bundleLog.on} \subseteq BOOLEAN
TestHolds ==
    /\ bundleLog.on => test.at = "run"
    /\ phone.held => (test.restore /\ test.at \in {"start", "run"}) \/ test.lost
TestInv == TestRecords /\ TestHolds

LEMMA TestInitInv == TestInit => TestInv
BY DEF TestInit, TestInv, TestRecords, TestHolds

LEMMA TestNextInv == TestInv /\ [TestNext]_testVars => TestInv'
<1> SUFFICES ASSUME TestInv, [TestNext]_testVars PROVE TestInv'
    OBVIOUS
<1> USE DEF TestInv, TestRecords, TestHolds, Step, Report, Throw, Reported, Thrown, StillBefore, At
<1>1. CASE BuildMain
    BY <1>1 DEF BuildMain, Builds
<1>2. CASE BuildTest
    BY <1>2 DEF BuildTest, Builds
<1>3. CASE Pick
    BY <1>3 DEF Pick
<1>4. CASE InstallMain
    BY <1>4 DEF InstallMain
<1>5. CASE InstallTest
    BY <1>5 DEF InstallTest
<1>6. CASE Hold
    BY <1>6 DEF Hold
<1>7. CASE StartRunner
    BY <1>7 DEF StartRunner
<1>8. CASE RunnerPrints
    BY <1>8 DEF RunnerPrints
<1>9. CASE RunnerCrashes
    BY <1>9 DEF RunnerCrashes
<1>10. CASE PollPid
    BY <1>10 DEF PollPid
<1>11. CASE AbortTest
    BY <1>11 DEF AbortTest
<1>12. CASE RunEnds
    BY <1>12 DEF RunEnds, Leave
<1>13. CASE RunFails
    BY <1>13 DEF RunFails, Leave
<1>14. CASE RunCancelled
    BY <1>14 DEF RunCancelled, Leave
<1>15. CASE UNCHANGED testVars
    BY <1>15 DEF testVars
<1> HIDE DEF TestInv
<1> QED BY <1>1, <1>2, <1>3, <1>4, <1>5, <1>6, <1>7, <1>8, <1>9, <1>10, <1>11, <1>12, <1>13, <1>14, <1>15 DEF TestNext

(* A test run that is over streams no log and holds no screen on.            *)
THEOREM TestGivesBack == TestSpec => []TestLeavesDevice
<1>1. TestInv => TestLeavesDevice
    BY DEF TestInv, TestHolds, TestLeavesDevice
<1> QED BY <1>1, TestInitInv, TestNextInv, PTL DEF TestSpec
==============================================================================
