---------------------------- MODULE EmulatorPool ----------------------------
(***************************************************************************)
(* The emulator commands of packages/core/src/emulator on a Linux host:    *)
(* the pool (startPoolInstance, getPoolInstanceStatus, stopPoolInstance)   *)
(* and the default emulator (startEmulator, stopEmulator), as separate OS  *)
(* processes that share the process table, the pool's instance.json files, *)
(* its qcow2 overlays, the base images and the default emulator's PID file.*)
(*                                                                         *)
(* A client is one running CLI process.  Between two of its steps any      *)
(* other process may run: the steps of a handler are its awaits and its    *)
(* accesses to shared files.  QEMU itself is external: it is modelled from *)
(* what pool.ts and lifecycle.ts rely on (it takes its host ports and the  *)
(* image locks when it comes up, and exits when it cannot).                *)
(***************************************************************************)
EXTENDS Integers, FiniteSets

CONSTANTS
    Clients,       \* CLI processes running an emulator command
    Instances,     \* the pool instance numbers in use
    Pids,          \* process ids the OS hands out, recycled when free
    NoPid,         \* `undefined` where a PID is expected
    ForeignPids,   \* PIDs an unrelated program may get
    MaxVersion,    \* bound: how often the base images change
    MayCrash,      \* a client may be killed between two of its steps
    MayReinstall,  \* `emulator install --force` may run
    PromptExit     \* a QEMU that pkill signalled is gone when pkill returns

MAX_POOL_INSTANCE == 99

ASSUME PoolAssumption ==
    /\ Instances \subseteq 1..MAX_POOL_INSTANCE
    /\ NoPid \notin Pids
    /\ ForeignPids \subseteq Pids
    /\ MaxVersion \in Nat
    /\ {MayCrash, MayReinstall, PromptExit} \subseteq BOOLEAN

VARIABLES
    owner,      \* per PID: the instance its QEMU runs, Foreign or NoOne
    phase,      \* per PID of a QEMU: how far it is
    state,      \* per instance: the contents of instance.json
    overlays,   \* per instance: its directory, and the overlay set there
    writtenOn,  \* per instance: the image version its overlays were written on
    image,      \* fingerprint (size, mtime) of the base images, as a counter
    pidFile,    \* the default emulator's PID file
    cl          \* per client: where it is in its command, and its locals

files == <<state, overlays, writtenOn>>
os    == <<owner, phase>>
vars  == <<owner, phase, state, overlays, writtenOn, image, pidFile, cl>>

DefaultEmulator == 0
NoOne == -1
Foreign == -2
Owners == Instances \cup {DefaultEmulator, NoOne, Foreign}

(* "launching": exec'ed, ports and locks not yet taken.  "ready": the guest *)
(* has completed this boot at least once.                                   *)
Phases == {"launching", "booting", "ready"}

(* "nodir": the instance has no directory.  "absent": an overlay is missing. *)
(* "clean": all there, never opened by a QEMU.  "written": a guest used them. *)
Overlays == {"nodir", "absent", "clean", "written"}

(* What instance.json records; `bases` is 0 exactly when there is no file.  *)
PoolInstanceState == [pid: Pids \cup {NoPid}, readyAt: BOOLEAN, lostAt: BOOLEAN, bases: Nat]
NoState == [pid |-> NoPid, readyAt |-> FALSE, lostAt |-> FALSE, bases |-> 0]

(* The next step of a client: of a pool command, or of one without instance. *)
PoolLabels ==
    {"start.default", "start.ports", "start.fresh", "start.fingerprint",
     "start.remove", "start.create", "start.spawn", "start.record", "start.window",
     "status.read", "status.probe", "status.reread", "status.write",
     "stop.signal", "stop.wait", "stop.write"}
Labels == PoolLabels \cup
    {"idle", "boot.pool", "boot.spawn", "boot.record", "boot.window", "halt.pkill", "halt.rm"}
Healths == {"stopped", "booting", "ready", "hdc-lost", "stuck"}

Locals == [pc: Labels, inst: Instances \cup {DefaultEmulator},
           flag: BOOLEAN,                 \* start --fresh, stop --discard
           prior: PoolInstanceState,      \* instance.json as this command read it
           bases: Nat,                    \* fingerprint of this start's overlays
           pid: Pids \cup {NoPid},        \* the child this command spawned
           health: Healths]
Idle == [pc |-> "idle", inst |-> DefaultEmulator, flag |-> FALSE, prior |-> NoState,
         bases |-> 0, pid |-> NoPid, health |-> "stopped"]

Live(p)  == p \in Pids /\ owner[p] # NoOne
Qemu(p)  == owner[p] \in Instances \cup {DefaultEmulator}
Up(p)    == Qemu(p) /\ phase[p] # "launching"
UpFor(n) == {p \in Pids : Up(p) /\ owner[p] = n}
At(c, l) == cl[c].pc = l

(* `cmdline.includes(dir)`: the directory of instance n ends in the decimal *)
(* numeral of n, so it occurs in the command line of every instance whose   *)
(* numeral n is a prefix of.                                                *)
DirNamedBy(m, n) == m = n \/ m \div 10 = n

isPidAlive(p) == Live(p)
(* Mutant: liveness alone, as on other hosts than Linux.                     *)
isInstanceProcess_AnyLive(p, n) == isPidAlive(p)

isInstanceProcess(p, n) == isPidAlive(p) /\ owner[p] \in Instances /\ DirNamedBy(owner[p], n)
readDefaultEmulatorPid == IF isPidAlive(pidFile) THEN pidFile ELSE NoPid
livePool == {n \in Instances : isInstanceProcess(state[n].pid, n)}

(* The PID of a child is not handed out again while the client that spawned *)
(* it still watches for its early exit.                                     *)
Watched == {cl[c].pid : c \in {d \in Clients : cl[d].pc \in
              {"start.record", "start.window", "boot.record", "boot.window"}}}
FreePids == {p \in Pids \ Watched : owner[p] = NoOne}

Init ==
    /\ owner = [p \in Pids |-> NoOne]
    /\ phase = [p \in Pids |-> "launching"]
    /\ state = [n \in Instances |-> NoState]
    /\ overlays = [n \in Instances |-> "nodir"]
    /\ writtenOn = [n \in Instances |-> 0]
    /\ image = 1
    /\ pidFile = NoPid
    /\ cl = [c \in Clients |-> Idle]

(* The processes in gone end.                                                *)
End(gone) ==
    /\ owner' = [p \in Pids |-> IF p \in gone THEN NoOne ELSE owner[p]]
    /\ phase' = [p \in Pids |-> IF p \in gone THEN "launching" ELSE phase[p]]

(* The overlays of instance n, and what was written in them, give way to v.  *)
Discard(n, v) ==
    /\ overlays' = [overlays EXCEPT ![n] = v]
    /\ writtenOn' = [writtenOn EXCEPT ![n] = 0]

Finish(c)  == cl' = [cl EXCEPT ![c] = Idle]
Goto(c, l) == cl' = [cl EXCEPT ![c].pc = l]

(* Write instance.json by rename: it fails when another client has deleted   *)
(* the directory meanwhile, which ends the command.                          *)
HasDir(n) == overlays[n] # "nodir"

(* Mutant: the rename brings the record back where there is no directory.    *)
writePoolState_AnyDir(n, s) ==
    /\ state' = [state EXCEPT ![n] = s]
    /\ UNCHANGED <<os, overlays, writtenOn, image, pidFile>>

writePoolState(n, s) ==
    /\ state' = IF HasDir(n) THEN [state EXCEPT ![n] = s] ELSE state
    /\ UNCHANGED <<os, overlays, writtenOn, image, pidFile>>

------------------------------------------------------------------------------
(* getPoolInstanceStatus                                                     *)

(* The health code of one probe.                                             *)
classifyEmulatorHealth(alive, reachable, completed, wasReady, late) ==
    CASE ~alive                  -> "stopped"
      [] alive /\ reachable /\ completed -> "ready"
      [] alive /\ ~(reachable /\ completed) /\ wasReady ->
            IF reachable THEN "booting" ELSE "hdc-lost"
      [] OTHER                   -> IF late THEN "stuck" ELSE "booting"

(* What hdc can answer at instance n's address: the boot is complete only if *)
(* the guest there completed it; any probe may time out, and a guest that    *)
(* completed its boot may reboot.                                            *)
probeEmulatorBoot(n) ==
    {<<FALSE, FALSE>>}
      \cup (IF UpFor(n) # {} THEN {<<TRUE, FALSE>>} ELSE {})
      \cup (IF \E p \in UpFor(n) : phase[p] = "ready" THEN {<<TRUE, TRUE>>} ELSE {})

StatusRead(c, n) ==
    /\ At(c, "idle") \/ (At(c, "status.read") /\ cl[c].inst = n)
    /\ IF isInstanceProcess(state[n].pid, n)
       THEN cl' = [cl EXCEPT ![c] = [Idle EXCEPT !.pc = "status.probe", !.inst = n, !.prior = state[n]]]
       ELSE Finish(c)
    /\ UNCHANGED <<os, files, image, pidFile>>

StatusProbe(c) ==
    /\ At(c, "status.probe")
    /\ \E r \in probeEmulatorBoot(cl[c].inst), late \in BOOLEAN :
         cl' = [cl EXCEPT ![c].pc = "status.reread",
                          ![c].health = classifyEmulatorHealth(TRUE, r[1], r[2], cl[c].prior.readyAt, late)]
    /\ UNCHANGED <<os, files, image, pidFile>>

(* The record as this probe updates it.                                      *)
Recorded(latest, health) ==
    CASE health = "ready"    -> [latest EXCEPT !.readyAt = TRUE, !.lostAt = FALSE]
      [] health = "hdc-lost" -> [latest EXCEPT !.lostAt = TRUE]
      [] OTHER               -> latest

StatusReread(c) ==
    /\ At(c, "status.reread")
    /\ LET latest == state[cl[c].inst]
           next   == Recorded(latest, cl[c].health)
       IN  IF latest.pid = cl[c].prior.pid /\ next # latest
           THEN cl' = [cl EXCEPT ![c].pc = "status.write", ![c].prior = next]
           ELSE Finish(c)
    /\ UNCHANGED <<os, files, image, pidFile>>

StatusWrite(c) ==
    /\ At(c, "status.write")
    /\ writePoolState(cl[c].inst, cl[c].prior)
    /\ Finish(c)

------------------------------------------------------------------------------
(* startPoolInstance                                                         *)

StartRead(c, n, fresh) ==
    /\ At(c, "idle")
    /\ IF isInstanceProcess(state[n].pid, n)
       THEN IF fresh THEN Finish(c)
            ELSE cl' = [cl EXCEPT ![c] = [Idle EXCEPT !.pc = "status.read", !.inst = n]]
       ELSE cl' = [cl EXCEPT ![c] = [Idle EXCEPT !.pc = "start.default", !.inst = n,
                                                 !.flag = fresh, !.prior = state[n]]]
    /\ UNCHANGED <<os, files, image, pidFile>>

StartCheckDefault(c) ==
    /\ At(c, "start.default")
    /\ IF readDefaultEmulatorPid # NoPid THEN Finish(c) ELSE Goto(c, "start.ports")
    /\ UNCHANGED <<os, files, image, pidFile>>

StartCheckPorts(c) ==
    /\ At(c, "start.ports")
    /\ IF UpFor(cl[c].inst) # {} THEN Finish(c) ELSE Goto(c, "start.fresh")
    /\ UNCHANGED <<os, files, image, pidFile>>

(* mkdir, then --fresh deletes the overlays there.                           *)
StartFresh(c) ==
    /\ At(c, "start.fresh")
    /\ IF cl[c].flag \/ ~HasDir(cl[c].inst)
       THEN Discard(cl[c].inst, "absent") ELSE UNCHANGED <<overlays, writtenOn>>
    /\ Goto(c, "start.fingerprint")
    /\ UNCHANGED <<os, state, image, pidFile>>

(* From here on this start only uses the fingerprint b.                      *)
Overlaid(c, l, b) ==
    cl' = [cl EXCEPT ![c] = [Idle EXCEPT !.pc = l, !.inst = cl[c].inst, !.bases = b]]

(* Mutant: overlays that are all there are reused, whatever their bases.     *)
StartFingerprint_Reuses(c) ==
    LET l == cl[c]
        recorded == IF l.flag THEN 0 ELSE l.prior.bases
        complete == overlays[l.inst] \in {"clean", "written"} /\ recorded # 0
    IN  /\ At(c, "start.fingerprint")
        /\ IF complete THEN Overlaid(c, "start.spawn", image)
                       ELSE Overlaid(c, "start.remove", image)
        /\ UNCHANGED <<os, files, image, pidFile>>

(* ensureOverlays up to its first deletion: fingerprint the base images and  *)
(* decide whether the overlays there are reused, refused or made anew.       *)
StartFingerprint(c) ==
    LET l == cl[c]
        recorded == IF l.flag THEN 0 ELSE l.prior.bases
        complete == overlays[l.inst] \in {"clean", "written"} /\ recorded # 0
    IN  /\ At(c, "start.fingerprint")
        /\ \/ /\ complete /\ recorded = image
              /\ Overlaid(c, "start.spawn", recorded)
           \/ /\ complete /\ recorded # image
              /\ Finish(c)
           \/ /\ ~complete
              /\ Overlaid(c, "start.remove", image)
        /\ UNCHANGED <<os, files, image, pidFile>>

StartRemove(c) ==
    /\ At(c, "start.remove")
    /\ IF HasDir(cl[c].inst)
       THEN Discard(cl[c].inst, "absent") ELSE UNCHANGED <<overlays, writtenOn>>
    /\ Goto(c, "start.create")
    /\ UNCHANGED <<os, state, image, pidFile>>

(* qemu-img create, which fails on files a running QEMU holds locked and in  *)
(* a directory that is gone.                                                 *)
StartCreate(c) ==
    LET n == cl[c].inst
    IN  /\ At(c, "start.create")
        /\ IF ~HasDir(n) \/ (overlays[n] = "written" /\ UpFor(n) # {})
           THEN Finish(c) /\ UNCHANGED <<overlays, writtenOn>>
           ELSE Discard(n, "clean") /\ Goto(c, "start.spawn")
        /\ UNCHANGED <<os, state, image, pidFile>>

(* A start gives up: an image, the launcher, /dev/kvm, qemu-img or QEMU is   *)
(* missing, or another program holds a port.                                 *)
StartFails(c) ==
    /\ cl[c].pc \in {"start.default", "start.ports", "start.fresh", "start.create", "start.spawn", "boot.spawn"}
    /\ Finish(c)
    /\ UNCHANGED <<os, files, image, pidFile>>

(* Give PID p to a new QEMU of owner o, whose parent is client c.            *)
Spawn(c, p, o, l) ==
    /\ p \in FreePids
    /\ owner' = [owner EXCEPT ![p] = o]
    /\ phase' = [phase EXCEPT ![p] = "launching"]
    /\ cl' = [cl EXCEPT ![c].pc = l, ![c].pid = p]
    /\ UNCHANGED <<files, image, pidFile>>

StartSpawn(c, p) ==
    /\ At(c, "start.spawn") /\ HasDir(cl[c].inst)
    /\ Spawn(c, p, cl[c].inst, "start.record")

(* Mutant: the fingerprint is taken at launch, not before the overlays.      *)
Launched_LateBases(c) ==
    [pid |-> cl[c].pid, readyAt |-> FALSE, lostAt |-> FALSE, bases |-> image]

(* Mutant: the new boot inherits what was recorded about the last one.       *)
Launched_Inherits(c) == [state[cl[c].inst] EXCEPT !.pid = cl[c].pid, !.bases = cl[c].bases]

Launched(c) == [pid |-> cl[c].pid, readyAt |-> FALSE, lostAt |-> FALSE, bases |-> cl[c].bases]

StartRecord(c) ==
    /\ At(c, "start.record")
    /\ writePoolState(cl[c].inst, Launched(c))
    /\ IF HasDir(cl[c].inst) THEN Goto(c, "start.window") ELSE Finish(c)

(* The early-exit window: QEMU survived it, or its record loses the PID.     *)
StartWindow(c) ==
    /\ At(c, "start.window")
    /\ IF Live(cl[c].pid)
       THEN /\ cl' = [cl EXCEPT ![c] = [Idle EXCEPT !.pc = "status.read", !.inst = cl[c].inst]]
            /\ UNCHANGED <<os, files, image, pidFile>>
       ELSE Finish(c) /\ writePoolState(cl[c].inst, [Launched(c) EXCEPT !.pid = NoPid])

------------------------------------------------------------------------------
(* stopPoolInstance                                                          *)

(* Read the record; then `hdc tconn -remove` runs, until StopSignal.         *)
StopRead(c, n, discard) ==
    /\ At(c, "idle")
    /\ cl' = [cl EXCEPT ![c] = [Idle EXCEPT !.inst = n, !.flag = discard, !.prior = state[n],
                 !.pc = IF state[n] = NoState THEN "stop.write" ELSE "stop.signal"]]
    /\ UNCHANGED <<os, files, image, pidFile>>

StopSignal(c) ==
    /\ At(c, "stop.signal")
    /\ Goto(c, IF isInstanceProcess(cl[c].prior.pid, cl[c].inst) THEN "stop.wait" ELSE "stop.write")
    /\ UNCHANGED <<os, files, image, pidFile>>

(* Mutant: no SIGKILL at the deadline.                                       *)
StopWait_NoKill(c) ==
    /\ At(c, "stop.wait")
    /\ Goto(c, "stop.write")
    /\ UNCHANGED <<os, files, image, pidFile>>

(* The wait after SIGTERM ends when the process is gone, or at the deadline  *)
(* with SIGKILL.                                                             *)
StopWait(c) ==
    LET p == cl[c].prior.pid
    IN  /\ At(c, "stop.wait")
        /\ End(IF isInstanceProcess(p, cl[c].inst) THEN {p} ELSE {})
        /\ Goto(c, "stop.write")
        /\ UNCHANGED <<files, image, pidFile>>

StopWrite(c) ==
    LET n == cl[c].inst
    IN  /\ At(c, "stop.write")
        /\ \/ /\ cl[c].flag
              /\ state' = [state EXCEPT ![n] = NoState]
              /\ Discard(n, "nodir")
              /\ UNCHANGED <<os, image, pidFile>>
           \/ /\ ~cl[c].flag /\ cl[c].prior # NoState
              /\ writePoolState(n, [NoState EXCEPT !.bases = cl[c].prior.bases])
           \/ /\ ~cl[c].flag /\ cl[c].prior = NoState
              /\ UNCHANGED <<os, files, image, pidFile>>
        /\ Finish(c)

------------------------------------------------------------------------------
(* startEmulator, stopEmulator, installEmulator: the default emulator        *)

(* Mutant: a failed wait on the running emulator reads as a stale PID file.  *)
BootRead_Relaunches(c) ==
    /\ At(c, "idle")
    /\ cl' = [cl EXCEPT ![c] = [Idle EXCEPT !.pc = "boot.pool"]]
    /\ UNCHANGED <<os, files, image, pidFile>>

BootRead(c) ==
    /\ At(c, "idle")
    /\ IF Live(pidFile) THEN Finish(c) ELSE cl' = [cl EXCEPT ![c] = [Idle EXCEPT !.pc = "boot.pool"]]
    /\ UNCHANGED <<os, files, image, pidFile>>

(* Mutant: running pool instances are not looked for.                        *)
BootCheckPool_Skipped(c) ==
    /\ At(c, "boot.pool") /\ Goto(c, "boot.spawn")
    /\ UNCHANGED <<os, files, image, pidFile>>

BootCheckPool(c) ==
    /\ At(c, "boot.pool")
    /\ IF livePool # {} THEN Finish(c) ELSE Goto(c, "boot.spawn")
    /\ UNCHANGED <<os, files, image, pidFile>>

BootSpawn(c, p) == At(c, "boot.spawn") /\ Spawn(c, p, DefaultEmulator, "boot.record")

BootRecord(c) ==
    /\ At(c, "boot.record")
    /\ pidFile' = cl[c].pid
    /\ Goto(c, "boot.window")
    /\ UNCHANGED <<os, files, image>>

BootWindow(c) ==
    /\ At(c, "boot.window")
    /\ Finish(c)
    /\ UNCHANGED <<os, files, image, pidFile>>

(* SIGTERM to whatever process the PID file names.                           *)
HaltRead(c) ==
    /\ At(c, "idle")
    /\ cl' = [cl EXCEPT ![c] = [Idle EXCEPT !.pc = "halt.pkill", !.pid = pidFile]]
    /\ End(IF Live(pidFile) /\ owner[pidFile] = Foreign THEN {pidFile} ELSE {})
    /\ UNCHANGED <<files, image, pidFile>>

(* pkill -f qemu-system-x86_64: SIGTERM to every QEMU.  They need not have   *)
(* exited when it returns.                                                   *)
HaltPkill(c) ==
    /\ At(c, "halt.pkill")
    /\ \E gone \in SUBSET {p \in Pids : Qemu(p)} :
         /\ PromptExit => gone = {p \in Pids : Qemu(p)}
         /\ End(gone)
    /\ Goto(c, "halt.rm")
    /\ UNCHANGED <<files, image, pidFile>>

HaltRemove(c) ==
    /\ At(c, "halt.rm")
    /\ pidFile' = NoPid
    /\ Finish(c)
    /\ UNCHANGED <<os, files, image>>

(* installEmulator unpacks over the images, whoever has them open.           *)
Reinstall(c) ==
    /\ MayReinstall /\ At(c, "idle") /\ image < MaxVersion
    /\ image' = image + 1
    /\ UNCHANGED <<os, files, pidFile, cl>>

Crash(c) ==
    /\ MayCrash /\ ~At(c, "idle")
    /\ Finish(c)
    /\ UNCHANGED <<os, files, image, pidFile>>

------------------------------------------------------------------------------
(* The OS and QEMU                                                           *)

(* QEMU's own locks: the default emulator opens the base images read-write,  *)
(* pool instances share them read-only; ports and overlays admit one QEMU.   *)
MayComeUp(p) ==
    LET n == owner[p]
    IN  IF n = DefaultEmulator THEN \A q \in Pids : ~Up(q)
        ELSE UpFor(n) = {} /\ UpFor(DefaultEmulator) = {} /\ overlays[n] \in {"clean", "written"}

QemuUp(p) ==
    /\ Qemu(p) /\ phase[p] = "launching" /\ MayComeUp(p)
    /\ phase' = [phase EXCEPT ![p] = "booting"]
    /\ LET n == owner[p] IN
       IF n \in Instances /\ overlays[n] = "clean"
       THEN /\ overlays' = [overlays EXCEPT ![n] = "written"]
            /\ writtenOn' = [writtenOn EXCEPT ![n] = image]
       ELSE UNCHANGED <<overlays, writtenOn>>
    /\ UNCHANGED <<owner, state, image, pidFile, cl>>

(* QEMU dies: it cannot have its ports or locks, it crashes, the guest       *)
(* powers off, or a SIGTERM took effect.                                     *)
QemuExit(p) ==
    /\ Qemu(p)
    /\ End({p})
    /\ UNCHANGED <<files, image, pidFile, cl>>

GuestReady(p) ==
    /\ Up(p) /\ phase[p] = "booting"
    /\ phase' = [phase EXCEPT ![p] = "ready"]
    /\ UNCHANGED <<owner, files, image, pidFile, cl>>

DefaultWrites(p) ==
    /\ Up(p) /\ owner[p] = DefaultEmulator /\ image < MaxVersion
    /\ image' = image + 1
    /\ UNCHANGED <<os, files, pidFile, cl>>

ForeignProgram(p) ==
    /\ p \in ForeignPids
    /\ \/ p \in FreePids /\ owner' = [owner EXCEPT ![p] = Foreign]
       \/ owner[p] = Foreign /\ owner' = [owner EXCEPT ![p] = NoOne]
    /\ UNCHANGED <<phase, files, image, pidFile, cl>>

------------------------------------------------------------------------------
PoolCommand(c) ==
    \/ \E n \in Instances : StatusRead(c, n)
    \/ StatusProbe(c) \/ StatusReread(c) \/ StatusWrite(c)
    \/ \E n \in Instances, fresh \in BOOLEAN : StartRead(c, n, fresh)
    \/ StartCheckDefault(c) \/ StartCheckPorts(c) \/ StartFresh(c)
    \/ StartFingerprint(c) \/ StartRemove(c) \/ StartCreate(c) \/ StartFails(c)
    \/ \E p \in Pids : StartSpawn(c, p)
    \/ StartRecord(c) \/ StartWindow(c)
    \/ \E n \in Instances, discard \in BOOLEAN : StopRead(c, n, discard)
    \/ StopSignal(c) \/ StopWait(c) \/ StopWrite(c)

DefaultCommand(c) ==
    \/ BootRead(c) \/ BootCheckPool(c)
    \/ \E p \in Pids : BootSpawn(c, p)
    \/ BootRecord(c) \/ BootWindow(c)
    \/ HaltRead(c) \/ HaltPkill(c) \/ HaltRemove(c)
    \/ Reinstall(c)

Environment(p) ==
    QemuUp(p) \/ QemuExit(p) \/ GuestReady(p) \/ DefaultWrites(p) \/ ForeignProgram(p)

Next ==
    \/ \E c \in Clients : PoolCommand(c) \/ DefaultCommand(c) \/ Crash(c)
    \/ \E p \in Pids : Environment(p)

Spec == Init /\ [][Next]_vars

(* Node runs a client's command to its end unless the process is killed; QEMU *)
(* and the guest owe nothing.                                                *)
Proceed(c) == ~At(c, "idle") /\ (PoolCommand(c) \/ DefaultCommand(c))
FairSpec == Spec /\ \A c \in Clients : WF_vars(Proceed(c))

------------------------------------------------------------------------------
(* Properties                                                                *)

(* The state has its types, a pool command has an instance, and an instance  *)
(* without a directory has no instance.json.                                 *)
TypeOK ==
    /\ owner \in [Pids -> Owners]
    /\ phase \in [Pids -> Phases]
    /\ state \in [Instances -> PoolInstanceState]
    /\ overlays \in [Instances -> Overlays]
    /\ writtenOn \in [Instances -> Nat]
    /\ image \in Nat \ {0}
    /\ pidFile \in Pids \cup {NoPid}
    /\ cl \in [Clients -> Locals]
    /\ \A c \in Clients : cl[c].pc \in PoolLabels => cl[c].inst \in Instances
    /\ \A n \in Instances : ~HasDir(n) => state[n] = NoState

Quiet == \A c \in Clients : At(c, "idle")

(* A recorded fingerprint that equals the present images vouches for the     *)
(* overlays: whatever commands overlapped, died half-way or found the images *)
(* replaced, ensureOverlays never reuses a set that was written on other     *)
(* images.                                                                   *)
FingerprintSound ==
    \A n \in Instances :
        state[n].bases = image /\ overlays[n] = "written" => writtenOn[n] = image

(* Why: fingerprint b is no newer than the images, nor than what is written  *)
(* in the overlays of instance n.                                            *)
Fits(b, n) == b <= image /\ (overlays[n] = "written" => b <= writtenOn[n])

(* No record, and no copy of one that a client still holds, is newer than    *)
(* the overlays it describes; a start that has yet to delete the old set is  *)
(* the exception.                                                            *)
FingerprintInv ==
    /\ \A n \in Instances :
          /\ Fits(state[n].bases, n)
          /\ overlays[n] = "written" => writtenOn[n] <= image
    /\ \A c \in Clients :
          /\ cl[c].bases <= image
          /\ cl[c].inst \in Instances =>
                /\ Fits(cl[c].prior.bases, cl[c].inst)
                /\ ~At(c, "start.remove") => Fits(cl[c].bases, cl[c].inst)

(* instance.json keeps QEMU's PID while it runs: between commands every live *)
(* QEMU of the pool is one that status and stop can find.                    *)
(* So does the PID file the default emulator's: its rerun detection and the  *)
(* exclusion of the pool rest on that.                                       *)
RunningIsRecorded ==
    Quiet => \A p \in Pids : /\ owner[p] \in Instances => state[owner[p]].pid = p
                             /\ owner[p] = DefaultEmulator => pidFile = p

(* A running guest uses overlays made on the images it reads beneath them:   *)
(* this is what the checks of both starts and the fingerprints are for.      *)
OverlaysMatchBase ==
    \A p \in Pids : Up(p) /\ owner[p] \in Instances => writtenOn[owner[p]] = image

(* The record tells hdc-lost and booting apart: an instance recorded ready   *)
(* has completed this boot, and it is recorded lost only after that.         *)
HealthRecordTruthful ==
    \A n \in Instances :
        /\ state[n].lostAt => state[n].readyAt
        /\ Quiet /\ state[n].readyAt /\ isInstanceProcess(state[n].pid, n)
              => phase[state[n].pid] = "ready"

(* So status, stop and the next start can believe what the records say.      *)
RecordsAreTruthful == RunningIsRecorded /\ HealthRecordTruthful

(* stopPoolInstance leaves other instances, the default emulator and every   *)
(* other process alone.                                                      *)
StopSparesOthers ==
    [][\A c \in Clients, p \in Pids :
          StopWait(c) /\ owner'[p] # owner[p] => owner[p] = cl[c].inst]_vars

(* A stop that found its QEMU ends it, also when QEMU ignores SIGTERM.       *)
StopEndsQemu ==
    \A c \in Clients, p \in Pids :
        (At(c, "stop.wait") /\ cl[c].prior.pid = p /\ owner[p] = cl[c].inst) ~> owner[p] = NoOne

(* The commands implement the abstract host: nothing is launched twice, and  *)
(* the default emulator and the pool stay apart.                             *)
Host == INSTANCE EmulatorHost WITH
    Pool <- Instances, Default <- DefaultEmulator, Processes <- Pids,
    runs <- [n \in Instances \cup {DefaultEmulator} |-> {p \in Pids : owner[p] = n}]
OneEmulatorAtATime == Host!Spec
==============================================================================
