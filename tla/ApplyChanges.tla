---------------------------- MODULE ApplyChanges ----------------------------
(***************************************************************************)
(* One of `oniro-app app apply | install | uninstall | stop | launch`,     *)
(* `reboot` and `wait` on one device (install/apply.ts, hdc/lifecycle.ts,  *)
(* hdc/app.ts, hdc/smoke.ts).  apply installs a HAP, decides whether the   *)
(* running process took it, reboots when it did not, waits for the bundle  *)
(* to come back, launches it and judges the launch.  The device acts on    *)
(* its own between any two hdc calls of the command.                       *)
(***************************************************************************)
EXTENDS Naturals

CONSTANTS
    MaxStarts,   \* bound: processes the bundle has had
    MaxPolls,    \* bound: polls that fit before a wait's deadline
    Unsettled    \* may the bundle's process or the connection come and go
                 \* while apply has yet to install?

ASSUME ApplyAssumption == MaxStarts \in Nat \ {0} /\ MaxPolls \in Nat \ {0} /\ Unsettled \in BOOLEAN

VARIABLES
    opt,        \* the command, its options, and the HAP
    up,         \* the device runs
    rebooting,  \* it was told to reboot and has yet to go down
    boots,      \* times it has gone down
    installed,  \* the bundle on it
    cached,     \* its extractor cache holds asset paths of the old bundle
    proc,       \* the bundle's process, 0 when there is none
    ran,        \* per process: the program and assets it runs
    crash,      \* the faultlog of the bundle
    link,       \* the hdc session: "ok", "none", or kept but dead
    run         \* the command's locals

device == <<up, rebooting, boots, installed, cached, proc, ran, crash>>
vars == <<opt, device, link, run>>

Pids == 1..MaxStarts
NoPid == 0
Started == {p \in Pids : ran[p] # "nothing"}
WEDGED_POLLS_BEFORE_RESTART == 3

Reachable == up /\ link = "ok"

Commands == {"apply", "install", "uninstall", "stop", "launch", "reboot", "waitBundle", "waitBoot"}
Options == [cmd: Commands,
            ours: BOOLEAN,        \* the HAP is one of this bundle
            consistent: BOOLEAN,  \* its signature is that of the installed one
            assetsChanged: BOOLEAN, isSystemBundle: BOOLEAN, allowUninstall: BOOLEAN,
            smoke: BOOLEAN, tcp: BOOLEAN]

Init ==
    /\ opt \in Options
    /\ opt.cmd # "apply" => opt.ours /\ ~opt.assetsChanged /\ ~opt.allowUninstall
    /\ opt.cmd \notin {"apply", "install"} => opt.consistent
    /\ opt.cmd \notin {"apply", "launch"} => ~opt.smoke
    /\ up \in BOOLEAN /\ rebooting = FALSE /\ boots = 0
    /\ installed \in {"none", "old"} /\ cached = FALSE /\ crash = "none"
    /\ proc \in {NoPid, 1} /\ (proc = 1 => up /\ installed = "old")
    /\ ran = [p \in Pids |-> IF p = proc THEN "old" ELSE "nothing"]
    /\ link \in {"ok", "none", "dead"} /\ (link = "ok" => up) /\ (link = "dead" => opt.tcp)
    /\ run = [pc |-> "start", pre |-> NoPid, post |-> NoPid, method |-> "none", result |-> "none",
              polls |-> 0, wedged |-> 0, ready |-> 0, asked |-> 0, seen |-> NoPid, again |-> NoPid,
              passed |-> FALSE]

------------------------------------------------------------------------------
(* What a call finds or does on the device.                                  *)

(* findRunningProcess: an hdc that cannot reach the device prints [Fail],    *)
(* which reads as "not running", or hangs until its timeout.                 *)
PidReads == IF Reachable THEN {proc} ELSE {NoPid}

Goto(pc) == run' = [run EXCEPT !.pc = pc]
Finish(result) == run' = [run EXCEPT !.pc = "done", !.result = result]
Throws == Finish("failed") /\ UNCHANGED <<opt, device, link>>
Still == UNCHANGED <<opt, device, link>>

(* The bundle's process starts, with what is installed and cached.           *)
NewProcess ==
    /\ up /\ proc = NoPid /\ installed # "none"
    /\ \E p \in Pids \ Started :
         /\ \A q \in Pids \ Started : p <= q
         /\ proc' = p
         /\ ran' = [ran EXCEPT ![p] = IF installed = "new" /\ cached THEN "cached" ELSE installed]

(* The bundle manager takes the HAP: the application is stopped; a           *)
(* persistent one may go on running.                                         *)
TakeHap ==
    /\ installed' = "new"
    /\ cached' = (cached \/ (installed = "old" /\ opt.assetsChanged))
    /\ \/ proc' = NoPid
       \/ opt.isSystemBundle /\ UNCHANGED proc
    /\ UNCHANGED <<opt, up, rebooting, boots, ran, crash, link>>

------------------------------------------------------------------------------
(* applyChanges                                                              *)
Mismatch == installed = "old" /\ ~opt.consistent

(* Mutant: system bundles are uninstalled like any other.                    *)
decideInstallMethod_Any == IF ~Mismatch THEN "replace" ELSE "uninstall-install"

decideInstallMethod ==
    IF ~Mismatch THEN "replace"
    ELSE IF opt.isSystemBundle /\ ~opt.allowUninstall THEN "refuse" ELSE "uninstall-install"

(* Mutant: only a changed asset path counts.                                 *)
decideReboot_AssetsOnly(pre, post) == opt.assetsChanged

decideReboot(pre, post) ==
    opt.assetsChanged \/ (opt.isSystemBundle /\ pre # NoPid /\ post = pre)

(* The HAP must exist and be one of the bundle.                              *)
Start ==
    /\ run.pc = "start"
    /\ \/ opt.ours /\ Goto(CASE opt.cmd = "apply"   -> "prePid"
                              [] opt.cmd = "install" -> "freshInstall"
                              [] opt.cmd \in {"waitBundle", "waitBoot"} -> "waitUp"
                              [] OTHER               -> opt.cmd)
       \/ opt.cmd \in {"apply", "install"} /\ Finish("failed")
    /\ Still

PrePid ==
    /\ run.pc = "prePid"
    /\ \/ \E p \in PidReads : run' = [run EXCEPT !.pre = p, !.pc = "install"]
       \/ ~Reachable /\ Finish("failed")
    /\ Still

(* hdc install -r.  The connection may be lost before or after the bundle    *)
(* manager has done its work.                                                *)
Install ==
    /\ run.pc = "install"
    /\ \/ Throws
       \/ /\ Reachable /\ decideInstallMethod = "refuse"
          /\ Finish("refused") /\ Still
       \/ /\ Reachable /\ decideInstallMethod = "uninstall-install"
          /\ run' = [run EXCEPT !.pc = "uninstall", !.method = "uninstall-install"] /\ Still
       \/ /\ Reachable /\ ~Mismatch
          /\ TakeHap
          /\ \/ run' = [run EXCEPT !.pc = "verify", !.method = "replace"]
             \/ Finish("failed")

(* `app install` and `app uninstall` end where apply goes on.                *)
Then(pc) == IF opt.cmd = "apply" THEN Goto(pc) ELSE Finish("ok")

(* uninstallApp looks at hdc's exit code only, and goes on when the bundle   *)
(* manager has refused.                                                      *)
Uninstall ==
    /\ run.pc = "uninstall"
    /\ \/ ~Reachable /\ Throws
       \/ Reachable /\ Then("freshInstall") /\ Still
       \/ /\ Reachable /\ Then("freshInstall")
          /\ installed' = "none" /\ proc' = NoPid
          /\ UNCHANGED <<opt, up, rebooting, boots, cached, ran, crash, link>>

(* Mutant: a rejected installation goes unnoticed.                           *)
FreshInstall_Unchecked ==
    /\ run.pc = "freshInstall"
    /\ \/ Then("verify") /\ Still
       \/ Reachable /\ installed = "none" /\ TakeHap /\ Then("verify")

(* hdc install; its exit code says nothing of a rejection, its output does.  *)
FreshInstall ==
    /\ run.pc = "freshInstall"
    /\ \/ Throws
       \/ Reachable /\ ~Mismatch /\ TakeHap /\ (Then("verify") \/ Finish("failed"))

(* aa force-stop; the system starts a persistent bundle again.              *)
Stop ==
    /\ run.pc = "stop"
    /\ \/ ~Reachable /\ Throws
       \/ /\ Reachable /\ Finish("ok")
          /\ proc' = NoPid
          /\ UNCHANGED <<opt, up, rebooting, boots, installed, cached, ran, crash, link>>

Verify ==
    /\ run.pc = "verify"
    /\ \/ ~(Reachable /\ installed # "none") /\ Finish("failed")
       \/ Reachable /\ installed # "none" /\ Goto("postPid")
    /\ Still

(* applyChanges returns; with --smoke the application is launched and judged.*)
Return(locals) ==
    run' = IF opt.smoke THEN [locals EXCEPT !.pc = "launch"]
           ELSE [locals EXCEPT !.pc = "done", !.result = "ok"]

PostPid ==
    /\ run.pc = "postPid"
    /\ \/ \E p \in PidReads :
            IF decideReboot(run.pre, p)
            THEN run' = [run EXCEPT !.post = p, !.pc = "reboot", !.method = "reboot"]
            ELSE Return([run EXCEPT !.post = p])
       \/ ~Reachable /\ Finish("failed")
    /\ Still

FinalPid ==
    /\ run.pc = "finalPid"
    /\ \/ \E p \in PidReads : Return([run EXCEPT !.post = p])
       \/ ~Reachable /\ Finish("failed")
    /\ Still

------------------------------------------------------------------------------
(* reboot, waitForBundle, waitForBoot                                        *)

(* The device is told to reboot; a command that fails is taken for one that  *)
(* the reboot cut off.                                                       *)
Reboot ==
    /\ run.pc = "reboot"
    /\ rebooting' = (rebooting \/ Reachable)
    /\ run' = [run EXCEPT !.pc = "waitDown", !.asked = boots]
    /\ UNCHANGED <<opt, up, boots, installed, cached, proc, ran, crash, link>>

(* Until the device does not answer, or for 30 s.                            *)
WaitDown ==
    /\ run.pc = "waitDown"
    /\ Goto("waitUp")
    /\ Still

(* Mutant: a session that claims to be connected counts as wedged.           *)
Wedged_Claims == opt.tcp /\ link # "none"

(* hdc tconn answers "repeat operation", and the device does not.            *)
Wedged == opt.tcp /\ link # "none" /\ ~Reachable

(* Mutant: the count begins again at every poll.                             *)
WedgedPolls_PerPoll == IF Wedged THEN 1 ELSE 0

(* The polls in a row that found the session dead; the third restarts the    *)
(* hdc server.                                                               *)
WedgedPolls == IF Wedged THEN run.wedged + 1 ELSE 0
Restarts == WedgedPolls = WEDGED_POLLS_BEFORE_RESTART

(* Mutant: tconn is taken to have connected, whatever it says.               *)
Reconnected_Blind == IF opt.tcp /\ (link = "none" \/ Restarts) THEN "ok" ELSE link

(* Before each poll: reconnect a TCP target.                                 *)
Reconnected ==
    IF opt.tcp /\ (link = "none" \/ Restarts) THEN (IF up THEN "ok" ELSE "none") ELSE link

(* What is waited for; waitForBoot asks only whether the device answers.     *)
Present == up /\ (opt.cmd = "waitBoot" \/ proc # NoPid)
Found == Present /\ Reconnected = "ok"

WaitUp ==
    /\ run.pc = "waitUp"
    /\ link' = Reconnected
    /\ LET next == [run EXCEPT !.wedged = IF Restarts THEN 0 ELSE WedgedPolls,
                               !.polls = @ + 1,
                               !.ready = IF Present /\ Reconnected # "none" THEN @ + 1 ELSE 0]
       IN  IF Found
           THEN run' = IF opt.cmd = "apply" THEN [next EXCEPT !.pc = "finalPid"]
                       ELSE [next EXCEPT !.pc = "done", !.result = "ok"]
           ELSE run' = IF next.polls < MaxPolls THEN next
                       ELSE [next EXCEPT !.pc = "done", !.result = "timeout"]
    /\ UNCHANGED <<opt, device>>

------------------------------------------------------------------------------
(* launchApp and smokeCheck                                                  *)

(* The main ability is looked up and started; a locked screen refuses.  Only *)
(* crashes from two seconds before the launch on count.                      *)
Launch ==
    /\ run.pc = "launch"
    /\ \/ Throws
       \/ /\ Reachable /\ installed # "none"
          /\ \/ proc = NoPid /\ NewProcess
             \/ proc # NoPid /\ UNCHANGED <<proc, ran>>
          /\ crash' \in {"none", crash}
          /\ run' = IF opt.smoke THEN [run EXCEPT !.pc = "smokePid"]
                    ELSE [run EXCEPT !.pc = "done", !.result = "ok"]
          /\ UNCHANGED <<opt, up, rebooting, boots, installed, cached, link>>

(* The pid is looked for until a deadline.                                   *)
SmokePid ==
    /\ run.pc = "smokePid"
    /\ \/ \E p \in PidReads : run' = [run EXCEPT !.seen = p, !.pc = "smokeAgain"]
       \/ ~Reachable /\ Finish("failed")
    /\ Still

(* After the delay and the screenshot the pid is read again.                 *)
SmokeAgain ==
    /\ run.pc = "smokeAgain"
    /\ \/ \E p \in PidReads :
            run' = [run EXCEPT !.again = IF run.seen = NoPid THEN NoPid ELSE p, !.pc = "smokeProbe"]
       \/ run.seen # NoPid /\ ~Reachable /\ Finish("failed")
    /\ Still

(* Mutant: any process of the bundle will do.                                *)
alive_Any == run.seen # NoPid /\ run.again # NoPid

alive == run.seen # NoPid /\ run.again = run.seen

(* The faultlog is read (a read that fails counts as no crash) and the       *)
(* verdict given; the frame may be blank.                                    *)
SmokeProbe ==
    /\ run.pc = "smokeProbe"
    /\ \E blank \in BOOLEAN, crashed \in {FALSE} \cup (IF Reachable THEN {crash = "logged"} ELSE {}) :
         /\ Reachable => crashed = (crash = "logged")
         /\ run' = [run EXCEPT !.pc = "done", !.result = "ok", !.passed = alive /\ ~blank /\ ~crashed]
    /\ Still

Command ==
    \/ Start \/ PrePid \/ Install \/ Uninstall \/ FreshInstall \/ Stop \/ Verify \/ PostPid \/ FinalPid
    \/ Reboot \/ WaitDown \/ WaitUp
    \/ Launch \/ SmokePid \/ SmokeAgain \/ SmokeProbe

------------------------------------------------------------------------------
(* The device                                                                *)
Settled ==
    /\ ~Unsettled /\ opt.cmd = "apply"
    /\ run.pc \in {"prePid", "install", "uninstall", "freshInstall"}

(* A persistent bundle is started by the system, another one by its user.    *)
ProcessStarts ==
    /\ ~Settled /\ NewProcess
    /\ UNCHANGED <<opt, up, rebooting, boots, installed, cached, crash, link, run>>

ProcessDies ==
    /\ ~Settled /\ proc # NoPid
    /\ proc' = NoPid /\ crash' \in {crash, "unwritten"}
    /\ UNCHANGED <<opt, up, rebooting, boots, installed, cached, ran, link, run>>

(* hiview writes the faultlog seconds after the death.                       *)
HiviewWrites ==
    /\ crash = "unwritten" /\ crash' = "logged"
    /\ UNCHANGED <<opt, up, rebooting, boots, installed, cached, proc, ran, link, run>>

(* Only a reboot clears the extractor cache.                                 *)
GoDown ==
    /\ rebooting /\ up
    /\ up' = FALSE /\ rebooting' = FALSE /\ boots' = boots + 1
    /\ proc' = NoPid /\ cached' = FALSE
    /\ link' \in (IF opt.tcp /\ link # "none" THEN {"none", "dead"} ELSE {"none"})
    /\ UNCHANGED <<opt, installed, ran, crash, run>>

ComeUp ==
    /\ ~up /\ up' = TRUE
    /\ UNCHANGED <<opt, rebooting, boots, installed, cached, proc, ran, crash, link, run>>

(* hdc loses a device, and finds a USB one again by itself.                  *)
LinkChanges ==
    /\ ~Settled
    /\ \/ link = "ok" /\ link' = "none"
       \/ link = "none" /\ up /\ ~opt.tcp /\ link' = "ok"
    /\ UNCHANGED <<opt, device, run>>

Device == ProcessStarts \/ ProcessDies \/ HiviewWrites \/ GoDown \/ ComeUp \/ LinkChanges

Next == Command \/ Device

Spec == Init /\ [][Next]_vars

------------------------------------------------------------------------------
(* Properties                                                                *)

(* The state has its types; what runs has been started on a device that is   *)
(* up, and hdc has a live session only with one that is.                     *)
TypeOK ==
    /\ opt \in Options
    /\ {up, rebooting, cached} \subseteq BOOLEAN /\ boots \in 0..2
    /\ installed \in {"none", "old", "new"} /\ crash \in {"none", "unwritten", "logged"}
    /\ ran \in [Pids -> {"nothing", "old", "new", "cached"}]
    /\ proc \in Started \cup {NoPid} /\ (proc # NoPid => up)
    /\ link \in {"ok", "none", "dead"} /\ (link = "ok" => up)
    /\ run.polls \in 0..MaxPolls /\ run.wedged \in 0..WEDGED_POLLS_BEFORE_RESTART - 1
    /\ {run.pre, run.post, run.seen, run.again} \subseteq Started \cup {NoPid}
    /\ run.result \in {"none", "ok", "failed", "refused", "timeout"}

(* The pid that applyChanges reports is one of a process that runs the new   *)
(* HAP with its own assets, if the reboot it asked for has taken place.      *)
TookChange ==
    [][run.pc \in {"postPid", "finalPid"} /\ (run'.pc = "launch" \/ run'.result = "ok") /\ run'.post # NoPid
         /\ (run.method = "reboot" => boots > run.asked)
       => ran[run'.post] = "new"]_vars

(* An apply or install that succeeds has the HAP on the device, although hdc *)
(* exits with 0 when the bundle manager has rejected it.                     *)
SuccessIsInstalled == opt.cmd \in {"apply", "install"} /\ run.result = "ok" => installed = "new"

(* System bundles are not uninstalled (that can brick the device) unless     *)
(* explicitly allowed.                                                       *)
SystemBundleStays ==
    [][opt.cmd = "apply" /\ opt.isSystemBundle /\ ~opt.allowUninstall /\ installed = "old" => installed' # "none"]_vars

(* A session that hdc keeps although it is dead does not cost a wait its     *)
(* deadline: when the third poll in a row finds what is waited for there but *)
(* for the session, it is found.                                             *)
WedgeCostsNoTimeout ==
    [][run'.result = "timeout" => run'.ready < WEDGED_POLLS_BEFORE_RESTART]_vars

(* The hdc server, which serves other devices too, is restarted only when    *)
(* the session is dead.                                                      *)
RestartOnlyWhenDead ==
    [][WaitUp /\ opt.tcp /\ Restarts => link = "dead"]_vars

(* So apply spares the device what could brick it, other devices the cure of *)
(* a session of this one, and its caller the wait for a session that is dead. *)
DeviceIsSpared == SystemBundleStays /\ RestartOnlyWhenDead /\ WedgeCostsNoTimeout

(* A launch is passed as alive only if the process first seen still runs.    *)
SmokePassedStayedUp ==
    [][run.pc = "smokeAgain" /\ run'.pc = "smokeProbe" /\ alive' =>
         /\ proc = run.seen
         /\ run.method \in {"replace", "uninstall-install"} /\ run.post # NoPid => ran[proc] = "new"]_vars
==============================================================================
