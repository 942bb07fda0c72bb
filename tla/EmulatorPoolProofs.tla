-------------------------- MODULE EmulatorPoolProofs -------------------------
(***************************************************************************)
(* Theorems about EmulatorPool, for any number of clients, instances and   *)
(* PIDs, with crashes and reinstallations: the state keeps its types, and  *)
(* a fingerprint in instance.json that matches the base images vouches for *)
(* the overlays beside it.                                                 *)
(***************************************************************************)
EXTENDS EmulatorPool, TLAPS

USE PoolAssumption DEF MAX_POOL_INSTANCE

------------------------------------------------------------------------------
(* Typing                                                                    *)

(* TypeOK without the clients: what the actions do to the shared state.      *)
SharedTypes ==
    /\ owner \in [Pids -> Owners]
    /\ phase \in [Pids -> Phases]
    /\ state \in [Instances -> PoolInstanceState]
    /\ overlays \in [Instances -> Overlays]
    /\ writtenOn \in [Instances -> Nat]
    /\ image \in Nat \ {0}
    /\ pidFile \in Pids \cup {NoPid}

ClientTypes ==
    /\ cl \in [Clients -> Locals]
    /\ \A c \in Clients : cl[c].pc \in PoolLabels => cl[c].inst \in Instances

DirTypes == \A n \in Instances : ~HasDir(n) => state[n] = NoState

(* The constants of the module are typed, and 0, -1, -2 number no instance.  *)
LEMMA ConstantTypes ==
    /\ NoState \in PoolInstanceState
    /\ Idle \in Locals /\ Idle.pc \notin PoolLabels
    /\ DefaultEmulator \notin Instances /\ NoOne \notin Instances /\ Foreign \notin Instances
BY DEF NoState, Idle, PoolInstanceState, Locals, Labels, PoolLabels, Healths, DefaultEmulator, NoOne, Foreign

(* A client whose locals are cleared keeps its types.                        *)
LEMMA FinishTypes == ASSUME ClientTypes, NEW c \in Clients, Finish(c) PROVE ClientTypes'
BY ConstantTypes DEF ClientTypes, Finish

(* So does one that moves on to another step.                                *)
LEMMA GotoTypes ==
    ASSUME ClientTypes, NEW c \in Clients, NEW l \in Labels, Goto(c, l),
           l \in PoolLabels => cl[c].inst \in Instances
    PROVE  ClientTypes'
BY DEF ClientTypes, Goto, Locals

(* Processes that end leave the shared state typed.                          *)
LEMMA EndTypes ==
    ASSUME SharedTypes, NEW gone, End(gone), UNCHANGED <<files, image, pidFile>>
    PROVE  SharedTypes'
BY DEF SharedTypes, End, Owners, Phases, files

(* Discarding overlays leaves them typed.                                    *)
LEMMA DiscardTypes ==
    ASSUME SharedTypes, NEW n \in Instances, NEW v \in Overlays, Discard(n, v)
    PROVE  overlays' \in [Instances -> Overlays] /\ writtenOn' \in [Instances -> Nat]
BY DEF SharedTypes, Discard

(* Writing instance.json keeps the types, and creates no directory.          *)
LEMMA WriteTypes ==
    ASSUME SharedTypes, DirTypes, NEW n \in Instances, NEW s \in PoolInstanceState, writePoolState(n, s)
    PROVE  SharedTypes' /\ DirTypes'
BY DEF SharedTypes, DirTypes, writePoolState, os, HasDir

(* DirTypes depends on two variables only.                                   *)
LEMMA SameDirTypes ==
    ASSUME DirTypes, UNCHANGED <<overlays, state>> PROVE DirTypes'
BY DEF DirTypes, HasDir

(* Steps that only move a client on keep the shared types.                   *)
LEMMA SameTypes ==
    ASSUME SharedTypes, DirTypes, UNCHANGED <<os, files, image, pidFile>>
    PROVE  SharedTypes' /\ DirTypes'
BY DEF SharedTypes, DirTypes, os, files, HasDir

------------------------------------------------------------------------------
(* Every step keeps the types                                                *)

(* What a client keeps when its locals change in one record.                 *)
LEMMA LocalsTypes ==
    ASSUME ClientTypes, NEW c \in Clients, NEW r \in Locals, cl' = [cl EXCEPT ![c] = r],
           r.pc \in PoolLabels => r.inst \in Instances
    PROVE  ClientTypes'
BY DEF ClientTypes

(* The steps of getPoolInstanceStatus keep the types.                        *)
LEMMA StatusTypes ==
    ASSUME SharedTypes, ClientTypes, DirTypes, NEW c \in Clients,
           \/ \E n \in Instances : StatusRead(c, n)
           \/ StatusProbe(c) \/ StatusReread(c) \/ StatusWrite(c)
    PROVE  SharedTypes' /\ ClientTypes' /\ DirTypes'
<1>1. CASE \E n \in Instances : StatusRead(c, n)
  <2> PICK n \in Instances : StatusRead(c, n) BY <1>1
  <2> DEFINE r == [Idle EXCEPT !.pc = "status.probe", !.inst = n, !.prior = state[n]]
  <2>1. SharedTypes' /\ DirTypes' BY SameTypes DEF StatusRead
  <2>2. r \in Locals BY ConstantTypes DEF SharedTypes, Idle, Locals, Labels, PoolLabels
  <2>3. r.inst = n BY DEF Idle
  <2>4. ClientTypes' BY <2>2, <2>3, FinishTypes, LocalsTypes DEF StatusRead
  <2> QED BY <2>1, <2>4
<1>2. CASE StatusProbe(c)
  <2>1. SharedTypes' /\ DirTypes' BY <1>2, SameTypes DEF StatusProbe
  <2>2. \A r \in probeEmulatorBoot(cl[c].inst), late \in BOOLEAN :
          classifyEmulatorHealth(TRUE, r[1], r[2], cl[c].prior.readyAt, late) \in Healths
    BY DEF classifyEmulatorHealth, Healths
  <2>3. PICK h \in Healths : cl' = [cl EXCEPT ![c].pc = "status.reread", ![c].health = h]
    BY <1>2, <2>2 DEF StatusProbe
  <2>4. cl[c].inst \in Instances BY <1>2 DEF StatusProbe, At, ClientTypes, PoolLabels
  <2> DEFINE r == [cl[c] EXCEPT !.pc = "status.reread", !.health = h]
  <2>5. r \in Locals /\ r.inst \in Instances /\ cl' = [cl EXCEPT ![c] = r]
    BY <2>3, <2>4 DEF ClientTypes, Locals, Labels, PoolLabels
  <2> HIDE DEF r
  <2>6. ClientTypes' BY <2>5, LocalsTypes
  <2> QED BY <2>1, <2>6
<1>3. CASE StatusReread(c)
  <2>1. SharedTypes' /\ DirTypes' BY <1>3, SameTypes DEF StatusReread
  <2>2. cl[c].inst \in Instances BY <1>3 DEF StatusReread, At, ClientTypes, PoolLabels
  <2>3. Recorded(state[cl[c].inst], cl[c].health) \in PoolInstanceState
    BY <2>2 DEF Recorded, SharedTypes, PoolInstanceState
  <2>4. ClientTypes'
    BY <1>3, <2>2, <2>3, FinishTypes DEF StatusReread, ClientTypes, Locals, Labels, PoolLabels
  <2> QED BY <2>1, <2>4
<1>4. CASE StatusWrite(c)
  <2>1. cl[c].inst \in Instances /\ cl[c].prior \in PoolInstanceState
    BY <1>4 DEF StatusWrite, At, ClientTypes, PoolLabels, Locals
  <2> QED BY <1>4, <2>1, WriteTypes, FinishTypes DEF StatusWrite
<1> QED BY <1>1, <1>2, <1>3, <1>4
(* The steps of startPoolInstance keep the types.                            *)
LEMMA StartTypes ==
    ASSUME SharedTypes, ClientTypes, DirTypes, NEW c \in Clients,
           \/ \E n \in Instances, fresh \in BOOLEAN : StartRead(c, n, fresh)
           \/ StartCheckDefault(c) \/ StartCheckPorts(c) \/ StartFresh(c)
           \/ StartFingerprint(c) \/ StartRemove(c) \/ StartCreate(c) \/ StartFails(c)
           \/ \E p \in Pids : StartSpawn(c, p)
           \/ StartRecord(c) \/ StartWindow(c)
    PROVE  SharedTypes' /\ ClientTypes' /\ DirTypes'
<1>1. CASE \E n \in Instances, fresh \in BOOLEAN : StartRead(c, n, fresh)
  <2> PICK n \in Instances, fresh \in BOOLEAN : StartRead(c, n, fresh) BY <1>1
  <2> DEFINE waits == [Idle EXCEPT !.pc = "status.read", !.inst = n]
             starts == [Idle EXCEPT !.pc = "start.default", !.inst = n,
                                    !.flag = fresh, !.prior = state[n]]
  <2>1. SharedTypes' /\ DirTypes' BY SameTypes DEF StartRead
  <2>2. waits \in Locals /\ waits.inst = n BY ConstantTypes DEF Idle, Locals, Labels, PoolLabels
  <2>3. starts \in Locals /\ starts.inst = n
    BY ConstantTypes DEF SharedTypes, Idle, Locals, Labels, PoolLabels
  <2>4. Finish(c) \/ cl' = [cl EXCEPT ![c] = waits] \/ cl' = [cl EXCEPT ![c] = starts]
    BY DEF StartRead
  <2> HIDE DEF waits, starts
  <2>5. ClientTypes' BY <2>2, <2>3, <2>4, FinishTypes, LocalsTypes
  <2> QED BY <2>1, <2>5
<1>2. CASE StartCheckDefault(c)
  BY <1>2, SameTypes, FinishTypes, GotoTypes DEF StartCheckDefault, At, ClientTypes, Labels, PoolLabels
<1>3. CASE StartCheckPorts(c)
  BY <1>3, SameTypes, FinishTypes, GotoTypes DEF StartCheckPorts, At, ClientTypes, Labels, PoolLabels
<1>4. CASE StartFresh(c)
  <2>1. cl[c].inst \in Instances BY <1>4 DEF StartFresh, At, ClientTypes, PoolLabels
  <2>2. ClientTypes' BY <1>4, <2>1, GotoTypes DEF StartFresh, Labels, PoolLabels
  <2>3. SharedTypes' BY <1>4, <2>1, DiscardTypes DEF StartFresh, SharedTypes, Overlays, os
  <2>4. DirTypes' BY <1>4, <2>1 DEF StartFresh, DirTypes, HasDir, Discard, SharedTypes
  <2> QED BY <2>2, <2>3, <2>4
<1>5. CASE StartFingerprint(c)
  <2>1. SharedTypes' /\ DirTypes' BY <1>5, SameTypes DEF StartFingerprint
  <2>2. cl[c].inst \in Instances BY <1>5 DEF StartFingerprint, At, ClientTypes, PoolLabels
  <2>3. ASSUME NEW l \in {"start.spawn", "start.remove"}, NEW b \in Nat, Overlaid(c, l, b)
        PROVE  ClientTypes'
    <3> DEFINE r == [Idle EXCEPT !.pc = l, !.inst = cl[c].inst, !.bases = b]
    <3>1. r \in Locals /\ r.inst \in Instances
      BY <2>2, ConstantTypes DEF Idle, Locals, Labels, PoolLabels
    <3> QED BY <2>3, <3>1, LocalsTypes DEF Overlaid
  <2>4. image \in Nat /\ cl[c].prior.bases \in Nat /\ 0 \in Nat
    BY DEF SharedTypes, ClientTypes, Locals, PoolInstanceState
  <2>5. \/ Finish(c)
        \/ \E b \in Nat : Overlaid(c, "start.spawn", b) \/ Overlaid(c, "start.remove", b)
    BY <1>5, <2>4 DEF StartFingerprint
  <2>6. ClientTypes' BY <2>3, <2>5, FinishTypes
  <2> QED BY <2>1, <2>6
<1>6. CASE StartRemove(c)
  <2>1. cl[c].inst \in Instances BY <1>6 DEF StartRemove, At, ClientTypes, PoolLabels
  <2>2. ClientTypes' BY <1>6, <2>1, GotoTypes DEF StartRemove, Labels, PoolLabels
  <2>3. SharedTypes' BY <1>6, <2>1, DiscardTypes DEF StartRemove, SharedTypes, Overlays, os
  <2>4. DirTypes' BY <1>6, <2>1 DEF StartRemove, DirTypes, HasDir, Discard, SharedTypes
  <2> QED BY <2>2, <2>3, <2>4
<1>7. CASE StartCreate(c)
  <2>1. cl[c].inst \in Instances BY <1>7 DEF StartCreate, At, ClientTypes, PoolLabels
  <2>2. ClientTypes' BY <1>7, <2>1, FinishTypes, GotoTypes DEF StartCreate, Labels, PoolLabels
  <2>3. SharedTypes' BY <1>7, <2>1, DiscardTypes DEF StartCreate, SharedTypes, Overlays, os
  <2>4. DirTypes' BY <1>7, <2>1 DEF StartCreate, DirTypes, HasDir, Discard, SharedTypes
  <2> QED BY <2>2, <2>3, <2>4
<1>8. CASE StartFails(c)
  BY <1>8, SameTypes, FinishTypes DEF StartFails
<1>9. CASE \E p \in Pids : StartSpawn(c, p)
  <2> PICK p \in Pids : StartSpawn(c, p) BY <1>9
  <2>1. cl[c].inst \in Instances BY DEF StartSpawn, At, ClientTypes, PoolLabels
  <2>2. SharedTypes' BY <2>1 DEF StartSpawn, Spawn, SharedTypes, Owners, Phases, files
  <2>3. DirTypes' BY SameDirTypes DEF StartSpawn, Spawn, files
  <2> DEFINE r == [cl[c] EXCEPT !.pc = "start.record", !.pid = p]
  <2>4. r \in Locals /\ r.inst \in Instances /\ cl' = [cl EXCEPT ![c] = r]
    BY <2>1 DEF StartSpawn, Spawn, ClientTypes, Locals, Labels, PoolLabels
  <2> HIDE DEF r
  <2>5. ClientTypes' BY <2>4, LocalsTypes
  <2> QED BY <2>2, <2>3, <2>5
<1>10. CASE StartRecord(c)
  <2>1. cl[c].inst \in Instances BY <1>10 DEF StartRecord, At, ClientTypes, PoolLabels
  <2>2. Launched(c) \in PoolInstanceState BY DEF Launched, PoolInstanceState, ClientTypes, Locals
  <2>3. SharedTypes' /\ DirTypes' BY <1>10, <2>1, <2>2, WriteTypes DEF StartRecord
  <2>4. ClientTypes' BY <1>10, <2>1, FinishTypes, GotoTypes DEF StartRecord, Labels, PoolLabels
  <2> QED BY <2>3, <2>4
<1>11. CASE StartWindow(c)
  <2> DEFINE r == [Idle EXCEPT !.pc = "status.read", !.inst = cl[c].inst]
             exited == [Launched(c) EXCEPT !.pid = NoPid]
  <2>1. cl[c].inst \in Instances BY <1>11 DEF StartWindow, At, ClientTypes, PoolLabels
  <2>2. exited \in PoolInstanceState BY DEF Launched, PoolInstanceState, ClientTypes, Locals
  <2>3. SharedTypes' /\ DirTypes' BY <1>11, <2>1, <2>2, WriteTypes, SameTypes DEF StartWindow
  <2>4. r \in Locals /\ r.inst \in Instances
    BY <2>1, ConstantTypes DEF Idle, Locals, Labels, PoolLabels
  <2>5. ClientTypes' BY <1>11, <2>4, FinishTypes, LocalsTypes DEF StartWindow
  <2> QED BY <2>3, <2>5
<1> QED BY <1>1, <1>2, <1>3, <1>4, <1>5, <1>6, <1>7, <1>8, <1>9, <1>10, <1>11
(* The steps of stopPoolInstance keep the types.                             *)
LEMMA StopTypes ==
    ASSUME SharedTypes, ClientTypes, DirTypes, NEW c \in Clients,
           \/ \E n \in Instances, discard \in BOOLEAN : StopRead(c, n, discard)
           \/ StopSignal(c) \/ StopWait(c) \/ StopWrite(c)
    PROVE  SharedTypes' /\ ClientTypes' /\ DirTypes'
<1>1. CASE \E n \in Instances, discard \in BOOLEAN : StopRead(c, n, discard)
  <2> PICK n \in Instances, discard \in BOOLEAN : StopRead(c, n, discard) BY <1>1
  <2> DEFINE r == [Idle EXCEPT !.inst = n, !.flag = discard, !.prior = state[n],
                      !.pc = IF state[n] = NoState THEN "stop.write" ELSE "stop.signal"]
  <2>1. SharedTypes' /\ DirTypes' BY SameTypes DEF StopRead
  <2>2. r \in Locals /\ r.inst = n
    BY ConstantTypes DEF SharedTypes, Idle, Locals, Labels, PoolLabels
  <2>3. cl' = [cl EXCEPT ![c] = r] BY DEF StopRead
  <2> HIDE DEF r
  <2>4. ClientTypes' BY <2>2, <2>3, LocalsTypes
  <2> QED BY <2>1, <2>4
<1>2. CASE StopSignal(c)
  <2>1. cl[c].inst \in Instances BY <1>2 DEF StopSignal, At, ClientTypes, PoolLabels
  <2>2. Goto(c, "stop.wait") \/ Goto(c, "stop.write") BY <1>2 DEF StopSignal
  <2>3. ClientTypes' BY <2>1, <2>2, GotoTypes DEF Labels, PoolLabels
  <2> QED BY <1>2, <2>3, SameTypes DEF StopSignal
<1>3. CASE StopWait(c)
  <2>1. cl[c].inst \in Instances BY <1>3 DEF StopWait, At, ClientTypes, PoolLabels
  <2>2. ClientTypes' BY <1>3, <2>1, GotoTypes DEF StopWait, Labels, PoolLabels
  <2> QED BY <1>3, <2>2, EndTypes, SameDirTypes DEF StopWait, files
<1>4. CASE StopWrite(c)
  <2>1. cl[c].inst \in Instances BY <1>4 DEF StopWrite, At, ClientTypes, PoolLabels
  <2>2. ClientTypes' BY <1>4, FinishTypes DEF StopWrite
  <2>3. CASE cl[c].flag
    <3>1. SharedTypes'
      BY <1>4, <2>1, <2>3, DiscardTypes, ConstantTypes DEF StopWrite, SharedTypes, Overlays, os
    <3>2. DirTypes' BY <1>4, <2>1, <2>3 DEF StopWrite, DirTypes, HasDir, Discard, SharedTypes
    <3> QED BY <2>2, <3>1, <3>2
  <2>4. CASE ~cl[c].flag
    <3> DEFINE s == [NoState EXCEPT !.bases = cl[c].prior.bases]
    <3>1. s \in PoolInstanceState BY DEF NoState, PoolInstanceState, ClientTypes, Locals
    <3>2. writePoolState(cl[c].inst, s) \/ UNCHANGED <<os, files, image, pidFile>>
      BY <1>4, <2>4 DEF StopWrite
    <3> QED BY <2>1, <2>2, <3>1, <3>2, WriteTypes, SameTypes
  <2> QED BY <2>3, <2>4
<1> QED BY <1>1, <1>2, <1>3, <1>4

(* The steps of the commands on the default emulator, and a crash, keep them. *)
LEMMA DefaultTypes ==
    ASSUME SharedTypes, ClientTypes, DirTypes, NEW c \in Clients, DefaultCommand(c) \/ Crash(c)
    PROVE  SharedTypes' /\ ClientTypes' /\ DirTypes'
<1>1. CASE BootRead(c)
  <2> DEFINE r == [Idle EXCEPT !.pc = "boot.pool"]
  <2>1. r \in Locals /\ r.pc \notin PoolLabels BY ConstantTypes DEF Idle, Locals, Labels, PoolLabels
  <2>2. Finish(c) \/ cl' = [cl EXCEPT ![c] = r] BY <1>1 DEF BootRead
  <2> HIDE DEF r
  <2> QED BY <1>1, <2>1, <2>2, FinishTypes, LocalsTypes, SameTypes DEF BootRead
<1>2. CASE BootCheckPool(c)
  BY <1>2, SameTypes, FinishTypes, GotoTypes DEF BootCheckPool, Labels, PoolLabels
<1>3. CASE \E p \in Pids : BootSpawn(c, p)
  <2> PICK p \in Pids : BootSpawn(c, p) BY <1>3
  <2> DEFINE r == [cl[c] EXCEPT !.pc = "boot.record", !.pid = p]
  <2>1. SharedTypes' BY DEF BootSpawn, Spawn, SharedTypes, Owners, Phases, files
  <2>2. DirTypes' BY SameDirTypes DEF BootSpawn, Spawn, files
  <2>3. r \in Locals /\ r.pc \notin PoolLabels /\ cl' = [cl EXCEPT ![c] = r]
    BY DEF BootSpawn, Spawn, ClientTypes, Locals, Labels, PoolLabels
  <2> HIDE DEF r
  <2>4. ClientTypes' BY <2>3, LocalsTypes
  <2> QED BY <2>1, <2>2, <2>4
<1>4. CASE BootRecord(c)
  <2>1. ClientTypes' BY <1>4, GotoTypes DEF BootRecord, Labels, PoolLabels
  <2>2. SharedTypes' BY <1>4 DEF BootRecord, SharedTypes, os, files, ClientTypes, Locals
  <2> QED BY <1>4, <2>1, <2>2, SameDirTypes DEF BootRecord, files
<1>5. CASE BootWindow(c)
  BY <1>5, SameTypes, FinishTypes DEF BootWindow
<1>6. CASE HaltRead(c)
  <2> DEFINE r == [Idle EXCEPT !.pc = "halt.pkill", !.pid = pidFile]
  <2>1. r \in Locals /\ r.pc \notin PoolLabels /\ cl' = [cl EXCEPT ![c] = r]
    BY <1>6, ConstantTypes DEF HaltRead, SharedTypes, Idle, Locals, Labels, PoolLabels
  <2> HIDE DEF r
  <2>2. ClientTypes' BY <2>1, LocalsTypes
  <2> QED BY <1>6, <2>2, EndTypes, SameDirTypes DEF HaltRead, files
<1>7. CASE HaltPkill(c)
  <2>1. ClientTypes' BY <1>7, GotoTypes DEF HaltPkill, Labels, PoolLabels
  <2> QED BY <1>7, <2>1, EndTypes, SameDirTypes DEF HaltPkill, files
<1>8. CASE HaltRemove(c)
  BY <1>8, FinishTypes, SameDirTypes DEF HaltRemove, SharedTypes, os, files
<1>9. CASE Reinstall(c)
  BY <1>9, SameDirTypes DEF Reinstall, SharedTypes, ClientTypes, os, files
<1>10. CASE Crash(c)
  BY <1>10, FinishTypes, SameTypes DEF Crash
<1> QED BY <1>1, <1>2, <1>3, <1>4, <1>5, <1>6, <1>7, <1>8, <1>9, <1>10 DEF DefaultCommand

(* The steps of the OS and of QEMU keep the types.                           *)
LEMMA EnvironmentTypes ==
    ASSUME SharedTypes, ClientTypes, DirTypes, NEW p \in Pids, Environment(p)
    PROVE  SharedTypes' /\ ClientTypes' /\ DirTypes'
<1>1. ClientTypes'
  BY DEF Environment, QemuUp, QemuExit, GuestReady, DefaultWrites, ForeignProgram, ClientTypes
<1>2. CASE QemuUp(p)
  <2>1. SharedTypes' BY <1>2 DEF QemuUp, SharedTypes, Phases, Overlays
  <2>2. DirTypes' BY <1>2 DEF QemuUp, DirTypes, HasDir, SharedTypes
  <2> QED BY <1>1, <2>1, <2>2
<1>3. CASE QemuExit(p)
  BY <1>1, <1>3, EndTypes, SameDirTypes DEF QemuExit, files
<1>4. CASE GuestReady(p)
  BY <1>1, <1>4, SameDirTypes DEF GuestReady, SharedTypes, Phases, files
<1>5. CASE DefaultWrites(p)
  BY <1>1, <1>5, SameDirTypes DEF DefaultWrites, SharedTypes, os, files
<1>6. CASE ForeignProgram(p)
  BY <1>1, <1>6, SameDirTypes DEF ForeignProgram, SharedTypes, Owners, files
<1> QED BY <1>2, <1>3, <1>4, <1>5, <1>6 DEF Environment

(* TypeOK is preserved by every step.                                        *)
LEMMA TypeStep == TypeOK /\ [Next]_vars => TypeOK'
<1> SUFFICES ASSUME TypeOK, [Next]_vars PROVE TypeOK' OBVIOUS
<1>1. SharedTypes /\ ClientTypes /\ DirTypes BY DEF TypeOK, SharedTypes, ClientTypes, DirTypes
<1>2. SharedTypes' /\ ClientTypes' /\ DirTypes'
  <2>1. ASSUME NEW c \in Clients, PoolCommand(c) PROVE SharedTypes' /\ ClientTypes' /\ DirTypes'
    BY <1>1, <2>1, StatusTypes, StartTypes, StopTypes DEF PoolCommand
  <2>2. CASE UNCHANGED vars
    BY <1>1, <2>2 DEF vars, SharedTypes, ClientTypes, DirTypes, HasDir
  <2> QED BY <1>1, <2>1, <2>2, DefaultTypes, EnvironmentTypes DEF Next
<1> QED BY <1>2 DEF TypeOK, SharedTypes, ClientTypes, DirTypes

(* Every reachable state has its types: a command works on an instance that  *)
(* exists, and no instance.json outlives its directory.                      *)
THEOREM TypeCorrect == Spec => []TypeOK
<1>1. Init => TypeOK
  BY ConstantTypes DEF Init, TypeOK, Owners, Phases, Overlays, HasDir
<1> QED BY <1>1, TypeStep, PTL DEF Spec

------------------------------------------------------------------------------
(* The fingerprint                                                           *)

(* FingerprintInv survives a step that only changes clients, and those by    *)
(* giving client c the locals r.                                             *)
LEMMA InvLocals ==
    ASSUME TypeOK, FingerprintInv, UNCHANGED <<state, overlays, writtenOn, image>>,
           NEW c \in Clients, NEW r, cl' = [cl EXCEPT ![c] = r],
           r.bases <= image,
           r.inst \in Instances =>
              /\ Fits(r.prior.bases, r.inst)
              /\ r.pc # "start.remove" => Fits(r.bases, r.inst)
    PROVE  FingerprintInv'
BY DEF FingerprintInv, Fits, At, TypeOK

(* Moving client c on keeps it, unless that leaves "start.remove".           *)
LEMMA InvGoto ==
    ASSUME TypeOK, FingerprintInv, UNCHANGED <<state, overlays, writtenOn, image>>,
           NEW c \in Clients, NEW l, Goto(c, l), ~At(c, "start.remove")
    PROVE  FingerprintInv'
BY DEF FingerprintInv, Fits, At, TypeOK, Goto, Locals

(* So does clearing its locals.                                             *)
LEMMA InvFinish ==
    ASSUME TypeOK, FingerprintInv, UNCHANGED <<state, overlays, writtenOn, image>>,
           NEW c \in Clients, Finish(c)
    PROVE  FingerprintInv'
BY ConstantTypes DEF FingerprintInv, Fits, At, TypeOK, Finish, Idle

(* Writing a record that fits keeps it.                                      *)
LEMMA InvWrite ==
    ASSUME TypeOK, FingerprintInv, NEW c \in Clients, NEW n \in Instances, NEW s \in PoolInstanceState,
           writePoolState(n, s), Fits(s.bases, n),
           Finish(c) \/ \E l \in Labels : Goto(c, l), ~At(c, "start.remove")
    PROVE  FingerprintInv'
BY ConstantTypes
   DEF FingerprintInv, Fits, At, TypeOK, Finish, Goto, Idle, writePoolState, Locals, PoolInstanceState

(* Discarding overlays keeps it, whatever label the client leaves.           *)
LEMMA InvDiscard ==
    ASSUME TypeOK, FingerprintInv, NEW c \in Clients, NEW v \in Overlays \ {"written"},
           Discard(cl[c].inst, v), cl[c].inst \in Instances, UNCHANGED <<state, image>>,
           NEW l \in Labels, Goto(c, l)
    PROVE  FingerprintInv'
BY DEF FingerprintInv, Fits, At, TypeOK, Goto, Discard, Locals, Overlays
(* The fingerprint of no record fits any instance.                           *)
LEMMA ZeroFits == ASSUME TypeOK, NEW n \in Instances PROVE Fits(0, n) /\ 0 <= image
BY DEF Fits, TypeOK

(* getPoolInstanceStatus only ever writes a record back that fitted when it  *)
(* was read, and still does.                                                 *)
LEMMA InvStatus ==
    ASSUME TypeOK, FingerprintInv, NEW c \in Clients,
           \/ \E n \in Instances : StatusRead(c, n)
           \/ StatusProbe(c) \/ StatusReread(c) \/ StatusWrite(c)
    PROVE  FingerprintInv'
<1>1. CASE \E n \in Instances : StatusRead(c, n)
  <2> PICK n \in Instances : StatusRead(c, n) BY <1>1
  <2> DEFINE r == [Idle EXCEPT !.pc = "status.probe", !.inst = n, !.prior = state[n]]
  <2>1. r.bases = 0 /\ r.inst = n /\ r.prior = state[n] BY DEF Idle
  <2>2. Fits(state[n].bases, n) /\ Fits(0, n) /\ 0 <= image
    BY ZeroFits DEF FingerprintInv
  <2>3. UNCHANGED <<state, overlays, writtenOn, image>> BY DEF StatusRead, files
  <2>4. Finish(c) \/ cl' = [cl EXCEPT ![c] = r] BY DEF StatusRead
  <2> HIDE DEF r
  <2> QED BY <2>1, <2>2, <2>3, <2>4, InvFinish, InvLocals
<1>2. CASE StatusProbe(c)
  <2>1. PICK h : cl' = [cl EXCEPT ![c].pc = "status.reread", ![c].health = h]
    BY <1>2 DEF StatusProbe
  <2> DEFINE r == [cl[c] EXCEPT !.pc = "status.reread", !.health = h]
  <2>2. cl' = [cl EXCEPT ![c] = r] /\ r.bases = cl[c].bases /\ r.inst = cl[c].inst
          /\ r.prior = cl[c].prior
    BY <2>1 DEF TypeOK, Locals
  <2>3. ~At(c, "start.remove") BY <1>2 DEF StatusProbe, At
  <2>4. UNCHANGED <<state, overlays, writtenOn, image>> BY <1>2 DEF StatusProbe, files
  <2> HIDE DEF r
  <2> QED BY <2>2, <2>3, <2>4, InvLocals DEF FingerprintInv
<1>3. CASE StatusReread(c)
  <2> DEFINE n == cl[c].inst
             next == Recorded(state[n], cl[c].health)
             r == [cl[c] EXCEPT !.pc = "status.write", !.prior = next]
  <2>1. n \in Instances BY <1>3 DEF StatusReread, At, TypeOK, PoolLabels
  <2>2. next.bases = state[n].bases BY <2>1 DEF Recorded, TypeOK, PoolInstanceState
  <2>3. Finish(c) \/ cl' = [cl EXCEPT ![c] = r] BY <1>3 DEF StatusReread, TypeOK, Locals
  <2>4. r.bases = cl[c].bases /\ r.inst = n /\ r.prior = next BY DEF TypeOK, Locals
  <2>5. ~At(c, "start.remove") BY <1>3 DEF StatusReread, At
  <2>6. UNCHANGED <<state, overlays, writtenOn, image>> BY <1>3 DEF StatusReread, files
  <2> HIDE DEF r, next
  <2> QED BY <2>1, <2>2, <2>3, <2>4, <2>5, <2>6, InvFinish, InvLocals DEF FingerprintInv
<1>4. CASE StatusWrite(c)
  <2>1. cl[c].inst \in Instances /\ cl[c].prior \in PoolInstanceState
    BY <1>4 DEF StatusWrite, At, TypeOK, PoolLabels, Locals
  <2>2. Fits(cl[c].prior.bases, cl[c].inst) BY <2>1 DEF FingerprintInv
  <2>3. ~At(c, "start.remove") BY <1>4 DEF StatusWrite, At
  <2> QED BY <1>4, <2>1, <2>2, <2>3, InvWrite DEF StatusWrite
<1> QED BY <1>1, <1>2, <1>3, <1>4

(* A start records the fingerprint it took before it made its overlays, or   *)
(* the one it found beside them.                                             *)
LEMMA InvStart ==
    ASSUME TypeOK, FingerprintInv, NEW c \in Clients,
           \/ \E n \in Instances, fresh \in BOOLEAN : StartRead(c, n, fresh)
           \/ StartCheckDefault(c) \/ StartCheckPorts(c) \/ StartFresh(c)
           \/ StartFingerprint(c) \/ StartRemove(c) \/ StartCreate(c) \/ StartFails(c)
           \/ \E p \in Pids : StartSpawn(c, p)
           \/ StartRecord(c) \/ StartWindow(c)
    PROVE  FingerprintInv'
<1> USE DEF files
<1>1. CASE \E n \in Instances, fresh \in BOOLEAN : StartRead(c, n, fresh)
  <2> PICK n \in Instances, fresh \in BOOLEAN : StartRead(c, n, fresh) BY <1>1
  <2> DEFINE waits == [Idle EXCEPT !.pc = "status.read", !.inst = n]
             starts == [Idle EXCEPT !.pc = "start.default", !.inst = n,
                                    !.flag = fresh, !.prior = state[n]]
  <2>1. waits.bases = 0 /\ waits.inst = n /\ waits.prior.bases = 0 BY DEF Idle, NoState
  <2>2. starts.bases = 0 /\ starts.inst = n /\ starts.prior = state[n] BY DEF Idle
  <2>3. Fits(state[n].bases, n) /\ Fits(0, n) /\ 0 <= image
    BY ZeroFits DEF FingerprintInv
  <2>4. Finish(c) \/ cl' = [cl EXCEPT ![c] = waits] \/ cl' = [cl EXCEPT ![c] = starts]
    BY DEF StartRead
  <2>5. UNCHANGED <<state, overlays, writtenOn, image>> BY DEF StartRead
  <2> HIDE DEF waits, starts
  <2> QED BY <2>1, <2>2, <2>3, <2>4, <2>5, InvFinish, InvLocals
<1>2. CASE StartCheckDefault(c)
  BY <1>2, InvFinish, InvGoto DEF StartCheckDefault, At
<1>3. CASE StartCheckPorts(c)
  BY <1>3, InvFinish, InvGoto DEF StartCheckPorts, At
<1>4. CASE StartFresh(c)
  <2>1. cl[c].inst \in Instances /\ "start.fingerprint" \in Labels
    BY <1>4 DEF StartFresh, At, TypeOK, PoolLabels, Labels
  <2>2. UNCHANGED <<state, image>> /\ Goto(c, "start.fingerprint") /\ ~At(c, "start.remove")
    BY <1>4 DEF StartFresh, At
  <2>3. Discard(cl[c].inst, "absent") \/ UNCHANGED <<overlays, writtenOn>> BY <1>4 DEF StartFresh
  <2>4. "absent" \in Overlays \ {"written"} BY DEF Overlays
  <2> QED BY <2>1, <2>2, <2>3, <2>4, InvDiscard, InvGoto
<1>5. CASE StartFingerprint(c)
  <2> DEFINE l == cl[c]
             recorded == IF l.flag THEN 0 ELSE l.prior.bases
  <2>1. l.inst \in Instances BY <1>5 DEF StartFingerprint, At, TypeOK, PoolLabels
  <2>2. Fits(recorded, l.inst) /\ Fits(0, l.inst) /\ image \in Nat
    BY <2>1, ZeroFits DEF FingerprintInv, TypeOK
  <2>3. UNCHANGED <<state, overlays, writtenOn, image>> BY <1>5 DEF StartFingerprint
  <2>4. Overlaid(c, "start.spawn", recorded) \/ Finish(c) \/ Overlaid(c, "start.remove", image)
    BY <1>5 DEF StartFingerprint
  <2>5. ASSUME NEW s \in Labels, NEW b, Overlaid(c, s, b), b <= image,
               s # "start.remove" => Fits(b, l.inst)
        PROVE  FingerprintInv'
    <3> DEFINE r == [Idle EXCEPT !.pc = s, !.inst = l.inst, !.bases = b]
    <3>1. r.pc = s /\ r.inst = l.inst /\ r.bases = b /\ r.prior.bases = 0 BY DEF Idle, NoState
    <3>2. cl' = [cl EXCEPT ![c] = r] BY <2>5 DEF Overlaid
    <3> HIDE DEF r
    <3> QED BY <2>2, <2>3, <2>5, <3>1, <3>2, InvLocals
  <2>6. {"start.spawn", "start.remove"} \subseteq Labels BY DEF Labels, PoolLabels
  <2>7. recorded <= image /\ image <= image BY <2>2 DEF Fits
  <2> QED BY <2>2, <2>3, <2>4, <2>5, <2>6, <2>7, InvFinish
<1>6. CASE StartRemove(c)
  <2>1. cl[c].inst \in Instances /\ "start.create" \in Labels
    BY <1>6 DEF StartRemove, At, TypeOK, PoolLabels, Labels
  <2>2. UNCHANGED <<state, image>> /\ Goto(c, "start.create") BY <1>6 DEF StartRemove
  <2>3. CASE HasDir(cl[c].inst)
    BY <1>6, <2>1, <2>2, <2>3, InvDiscard DEF StartRemove, Overlays
  <2>4. CASE ~HasDir(cl[c].inst)
    <3>1. UNCHANGED <<overlays, writtenOn>> BY <1>6, <2>4 DEF StartRemove
    <3>2. overlays[cl[c].inst] # "written" BY <2>4 DEF HasDir
    <3> DEFINE r == [cl[c] EXCEPT !.pc = "start.create"]
    <3>3. cl' = [cl EXCEPT ![c] = r] /\ r.bases = cl[c].bases /\ r.inst = cl[c].inst
            /\ r.prior = cl[c].prior
      BY <2>2 DEF Goto, TypeOK, Locals
    <3>4. cl[c].bases <= image /\ Fits(cl[c].prior.bases, cl[c].inst) /\ Fits(cl[c].bases, cl[c].inst)
      BY <2>1, <3>2 DEF FingerprintInv, Fits
    <3> HIDE DEF r
    <3> QED BY <2>2, <3>1, <3>3, <3>4, InvLocals
  <2> QED BY <2>3, <2>4
<1>7. CASE StartCreate(c)
  <2>1. cl[c].inst \in Instances /\ "start.spawn" \in Labels
    BY <1>7 DEF StartCreate, At, TypeOK, PoolLabels, Labels
  <2>2. \/ Finish(c) /\ UNCHANGED <<overlays, writtenOn>>
        \/ Discard(cl[c].inst, "clean") /\ Goto(c, "start.spawn")
    BY <1>7 DEF StartCreate
  <2>3. UNCHANGED <<state, image>> BY <1>7 DEF StartCreate
  <2>4. "clean" \in Overlays \ {"written"} BY DEF Overlays
  <2> QED BY <2>1, <2>2, <2>3, <2>4, InvFinish, InvDiscard
<1>8. CASE StartFails(c)
  BY <1>8, InvFinish DEF StartFails
<1>9. CASE \E p \in Pids : StartSpawn(c, p)
  <2> PICK p \in Pids : StartSpawn(c, p) BY <1>9
  <2> DEFINE r == [cl[c] EXCEPT !.pc = "start.record", !.pid = p]
  <2>1. cl' = [cl EXCEPT ![c] = r] /\ r.bases = cl[c].bases /\ r.inst = cl[c].inst
          /\ r.prior = cl[c].prior
    BY DEF StartSpawn, Spawn, TypeOK, Locals
  <2>2. ~At(c, "start.remove") BY DEF StartSpawn, At
  <2>3. UNCHANGED <<state, overlays, writtenOn, image>> BY DEF StartSpawn, Spawn
  <2> HIDE DEF r
  <2> QED BY <2>1, <2>2, <2>3, InvLocals DEF FingerprintInv
<1>10. CASE StartRecord(c)
  <2>1. cl[c].inst \in Instances /\ ~At(c, "start.remove") /\ "start.window" \in Labels
    BY <1>10 DEF StartRecord, At, TypeOK, PoolLabels, Labels
  <2>2. Launched(c) \in PoolInstanceState /\ Launched(c).bases = cl[c].bases
    BY DEF Launched, PoolInstanceState, TypeOK, Locals
  <2>3. Fits(cl[c].bases, cl[c].inst) BY <2>1 DEF FingerprintInv
  <2> QED BY <1>10, <2>1, <2>2, <2>3, InvWrite DEF StartRecord
<1>11. CASE StartWindow(c)
  <2> DEFINE waits == [Idle EXCEPT !.pc = "status.read", !.inst = cl[c].inst]
             exited == [Launched(c) EXCEPT !.pid = NoPid]
  <2>1. cl[c].inst \in Instances /\ ~At(c, "start.remove")
    BY <1>11 DEF StartWindow, At, TypeOK, PoolLabels
  <2>2. exited \in PoolInstanceState /\ exited.bases = cl[c].bases
    BY DEF Launched, PoolInstanceState, TypeOK, Locals
  <2>3. Fits(cl[c].bases, cl[c].inst) /\ Fits(0, cl[c].inst) /\ 0 <= image
    BY <2>1, ZeroFits DEF FingerprintInv
  <2>4. waits.bases = 0 /\ waits.inst = cl[c].inst /\ waits.prior.bases = 0 BY DEF Idle, NoState
  <2>5. \/ cl' = [cl EXCEPT ![c] = waits] /\ UNCHANGED <<state, overlays, writtenOn, image>>
        \/ Finish(c) /\ writePoolState(cl[c].inst, exited)
    BY <1>11 DEF StartWindow
  <2> HIDE DEF waits, exited
  <2>6. CASE Finish(c) /\ writePoolState(cl[c].inst, exited)
    <3>1. Fits(exited.bases, cl[c].inst) BY <2>2, <2>3
    <3> QED BY <2>1, <2>2, <2>6, <3>1, InvWrite
  <2>7. CASE cl' = [cl EXCEPT ![c] = waits] /\ UNCHANGED <<state, overlays, writtenOn, image>>
    BY <2>3, <2>4, <2>7, InvLocals
  <2> QED BY <2>5, <2>6, <2>7
<1> QED BY <1>1, <1>2, <1>3, <1>4, <1>5, <1>6, <1>7, <1>8, <1>9, <1>10, <1>11
(* A stop writes the fingerprint back that it read, or discards everything.  *)
LEMMA InvStop ==
    ASSUME TypeOK, FingerprintInv, NEW c \in Clients,
           \/ \E n \in Instances, discard \in BOOLEAN : StopRead(c, n, discard)
           \/ StopSignal(c) \/ StopWait(c) \/ StopWrite(c)
    PROVE  FingerprintInv'
<1> USE DEF files
<1>1. CASE \E n \in Instances, discard \in BOOLEAN : StopRead(c, n, discard)
  <2> PICK n \in Instances, discard \in BOOLEAN : StopRead(c, n, discard) BY <1>1
  <2> DEFINE r == [Idle EXCEPT !.inst = n, !.flag = discard, !.prior = state[n],
                      !.pc = IF state[n] = NoState THEN "stop.write" ELSE "stop.signal"]
  <2>1. r.bases = 0 /\ r.inst = n /\ r.prior = state[n] BY DEF Idle
  <2>2. Fits(state[n].bases, n) /\ Fits(0, n) /\ 0 <= image BY ZeroFits DEF FingerprintInv
  <2>3. cl' = [cl EXCEPT ![c] = r] /\ UNCHANGED <<state, overlays, writtenOn, image>>
    BY DEF StopRead
  <2> HIDE DEF r
  <2> QED BY <2>1, <2>2, <2>3, InvLocals
<1>2. CASE StopSignal(c)
  BY <1>2, InvGoto DEF StopSignal, At
<1>3. CASE StopWait(c)
  BY <1>3, InvGoto DEF StopWait, At
<1>4. CASE StopWrite(c)
  <2>1. cl[c].inst \in Instances /\ ~At(c, "start.remove") /\ Finish(c)
    BY <1>4 DEF StopWrite, At, TypeOK, PoolLabels
  <2>2. CASE cl[c].flag
    BY <1>4, <2>1, <2>2, ConstantTypes
       DEF StopWrite, FingerprintInv, Fits, At, TypeOK, Finish, Idle, NoState, Discard
  <2>3. CASE ~cl[c].flag
    <3> DEFINE s == [NoState EXCEPT !.bases = cl[c].prior.bases]
    <3>1. s \in PoolInstanceState /\ s.bases = cl[c].prior.bases
      BY DEF NoState, PoolInstanceState, TypeOK, Locals
    <3>2. Fits(cl[c].prior.bases, cl[c].inst) BY <2>1 DEF FingerprintInv
    <3>3. writePoolState(cl[c].inst, s) \/ UNCHANGED <<state, overlays, writtenOn, image>>
      BY <1>4, <2>3 DEF StopWrite
    <3> HIDE DEF s
    <3> QED BY <2>1, <3>1, <3>2, <3>3, InvWrite, InvFinish
  <2> QED BY <2>2, <2>3
<1> QED BY <1>1, <1>2, <1>3, <1>4

(* The commands on the default emulator touch no record; the images only     *)
(* grow newer.                                                               *)
LEMMA InvDefault ==
    ASSUME TypeOK, FingerprintInv, NEW c \in Clients, DefaultCommand(c) \/ Crash(c)
    PROVE  FingerprintInv'
<1> USE DEF files
<1>1. CASE BootRead(c)
  <2> DEFINE r == [Idle EXCEPT !.pc = "boot.pool"]
  <2>1. r.bases = 0 /\ r.inst = DefaultEmulator BY DEF Idle
  <2>2. Finish(c) \/ cl' = [cl EXCEPT ![c] = r] BY <1>1 DEF BootRead
  <2>3. UNCHANGED <<state, overlays, writtenOn, image>> /\ 0 <= image BY <1>1 DEF BootRead, TypeOK
  <2> HIDE DEF r
  <2> QED BY <2>1, <2>2, <2>3, ConstantTypes, InvFinish, InvLocals
<1>2. CASE BootCheckPool(c)
  BY <1>2, InvFinish, InvGoto DEF BootCheckPool, At
<1>3. CASE \E p \in Pids : BootSpawn(c, p)
  <2> PICK p \in Pids : BootSpawn(c, p) BY <1>3
  <2> DEFINE r == [cl[c] EXCEPT !.pc = "boot.record", !.pid = p]
  <2>1. cl' = [cl EXCEPT ![c] = r] /\ r.bases = cl[c].bases /\ r.inst = cl[c].inst
          /\ r.prior = cl[c].prior
    BY DEF BootSpawn, Spawn, TypeOK, Locals
  <2>2. ~At(c, "start.remove") BY DEF BootSpawn, At
  <2>3. UNCHANGED <<state, overlays, writtenOn, image>> BY DEF BootSpawn, Spawn
  <2> HIDE DEF r
  <2> QED BY <2>1, <2>2, <2>3, InvLocals DEF FingerprintInv
<1>4. CASE BootRecord(c)
  BY <1>4, InvGoto DEF BootRecord, At
<1>5. CASE BootWindow(c)
  BY <1>5, InvFinish DEF BootWindow
<1>6. CASE HaltRead(c)
  <2> DEFINE r == [Idle EXCEPT !.pc = "halt.pkill", !.pid = pidFile]
  <2>1. r.bases = 0 /\ r.inst = DefaultEmulator BY DEF Idle
  <2>2. cl' = [cl EXCEPT ![c] = r] BY <1>6 DEF HaltRead
  <2>3. UNCHANGED <<state, overlays, writtenOn, image>> /\ 0 <= image BY <1>6 DEF HaltRead, TypeOK
  <2> HIDE DEF r
  <2> QED BY <2>1, <2>2, <2>3, ConstantTypes, InvLocals
<1>7. CASE HaltPkill(c)
  BY <1>7, InvGoto DEF HaltPkill, At
<1>8. CASE HaltRemove(c)
  BY <1>8, InvFinish DEF HaltRemove
<1>9. CASE Reinstall(c)
  BY <1>9 DEF Reinstall, FingerprintInv, Fits, At, TypeOK, Locals, PoolInstanceState
<1>10. CASE Crash(c)
  BY <1>10, InvFinish DEF Crash
<1> QED BY <1>1, <1>2, <1>3, <1>4, <1>5, <1>6, <1>7, <1>8, <1>9, <1>10 DEF DefaultCommand

(* A QEMU that first writes to its overlays does so on the present images,   *)
(* which no fingerprint is newer than.                                       *)
LEMMA InvEnvironment ==
    ASSUME TypeOK, FingerprintInv, NEW p \in Pids, Environment(p)
    PROVE  FingerprintInv'
<1> USE DEF files
<1>1. CASE QemuUp(p)
  <2>1. UNCHANGED <<state, image, cl>> BY <1>1 DEF QemuUp
  <2>2. \/ UNCHANGED <<overlays, writtenOn>>
        \/ \E m \in Instances : /\ overlays' = [overlays EXCEPT ![m] = "written"]
                                /\ writtenOn' = [writtenOn EXCEPT ![m] = image]
    BY <1>1 DEF QemuUp
  <2>3. ASSUME NEW n \in Instances, NEW b, Fits(b, n) PROVE Fits(b, n)'
    BY <2>1, <2>2, <2>3 DEF Fits, TypeOK
  <2>4. ASSUME NEW n \in Instances PROVE (overlays[n] = "written" => writtenOn[n] <= image)'
    BY <2>1, <2>2 DEF FingerprintInv, TypeOK
  <2> QED BY <2>1, <2>3, <2>4 DEF FingerprintInv, At
<1>2. CASE DefaultWrites(p)
  BY <1>2 DEF DefaultWrites, FingerprintInv, Fits, At, TypeOK, Locals, PoolInstanceState
<1>3. CASE QemuExit(p) \/ GuestReady(p) \/ ForeignProgram(p)
  BY <1>3 DEF QemuExit, GuestReady, ForeignProgram, FingerprintInv, Fits, At
<1> QED BY <1>1, <1>2, <1>3 DEF Environment

(* FingerprintInv is inductive, relative to the types.                       *)
LEMMA InvStep == TypeOK /\ FingerprintInv /\ [Next]_vars => FingerprintInv'
<1> SUFFICES ASSUME TypeOK, FingerprintInv, [Next]_vars PROVE FingerprintInv' OBVIOUS
<1>1. ASSUME NEW c \in Clients, PoolCommand(c) PROVE FingerprintInv'
  BY <1>1, InvStatus, InvStart, InvStop DEF PoolCommand
<1>2. CASE UNCHANGED vars
  BY <1>2 DEF vars, FingerprintInv, Fits, At
<1> QED BY <1>1, <1>2, InvDefault, InvEnvironment DEF Next

(* ensureOverlays never reuses overlays that were written on other images,   *)
(* whatever commands overlap, crash or reinstall the images: a recorded      *)
(* fingerprint is never newer than the overlays it describes, and the images *)
(* only grow newer, so equality with the images leaves no room.              *)
THEOREM FingerprintIsSound == Spec => []FingerprintSound
<1>1. Init => FingerprintInv
  BY ConstantTypes DEF Init, FingerprintInv, Fits, At, Idle, NoState
<1>2. TypeOK /\ FingerprintInv => FingerprintSound
  BY DEF TypeOK, FingerprintInv, Fits, FingerprintSound, PoolInstanceState
<1> QED BY <1>1, <1>2, TypeCorrect, InvStep, PTL DEF Spec
------------------------------------------------------------------------------
(* stopPoolInstance ends no process but its own instance's QEMU, provided no *)
(* instance's directory name is a prefix of another's (1 and 10 are).        *)
THEOREM StopSparesWithoutPrefixes ==
    ASSUME \A m, n \in Instances : DirNamedBy(m, n) => m = n
    PROVE  Spec => StopSparesOthers
<1>1. ASSUME TypeOK, [Next]_vars, NEW c \in Clients, NEW p \in Pids,
             StopWait(c), owner'[p] # owner[p]
      PROVE  owner[p] = cl[c].inst
  <2> DEFINE q == cl[c].prior.pid
  <2>1. cl[c].inst \in Instances BY <1>1 DEF StopWait, At, TypeOK, PoolLabels
  <2>2. isInstanceProcess(q, cl[c].inst) /\ p = q BY <1>1 DEF StopWait, End, TypeOK
  <2>3. owner[p] \in Instances /\ DirNamedBy(owner[p], cl[c].inst)
    BY <2>2 DEF isInstanceProcess
  <2> QED BY <2>1, <2>3
<1>2. TypeOK /\ [Next]_vars =>
        [\A c \in Clients, p \in Pids :
            StopWait(c) /\ owner'[p] # owner[p] => owner[p] = cl[c].inst]_vars
  BY <1>1
<1> QED BY <1>2, TypeCorrect, PTL DEF Spec, StopSparesOthers
------------------------------------------------------------------------------
(* One command at a time                                                     *)

(* A user who runs one emulator command at a time, to its end, leaves the    *)
(* images alone while doing so and has no instance numbers of which one is   *)
(* a prefix of another; pkill returns when the QEMUs are gone.               *)
Orderly ==
    /\ \A c, d \in Clients : c = d
    /\ MayCrash = FALSE /\ MayReinstall = FALSE /\ PromptExit = TRUE
    /\ \A m, n \in Instances : DirNamedBy(m, n) => m = n

Nobody(n) == \A p \in Pids : owner[p] # n

(* Where each QEMU is found: in the record of its instance or the PID file,  *)
(* or, until that is written, by the command that launched it.  The default  *)
(* emulator and the pool do not run together.                                *)
Launching(l, n) == l.pc = "start.record" /\ l.inst = n
FoundInv ==
    /\ \A p \in Pids : owner[p] \in Instances =>
          state[owner[p]].pid = p \/ \E c \in Clients : Launching(cl[c], owner[p])
    /\ \A p \in Pids : owner[p] = DefaultEmulator =>
          /\ pidFile = p \/ \E c \in Clients : At(c, "boot.record")
          /\ \A n \in Instances : Nobody(n)

(* What a client with locals l knows from its checks, and will still hold    *)
(* when it acts.                                                             *)
BeforeSpawn == {"start.ports", "start.fresh", "start.fingerprint", "start.remove", "start.create", "start.spawn"}
Knows(l) ==
    /\ l.pc \in BeforeSpawn \cup {"start.default", "stop.write"} => Nobody(l.inst)
    /\ l.pc \in BeforeSpawn \cup {"boot.pool", "boot.spawn", "halt.rm"} => Nobody(DefaultEmulator)
    /\ l.pc \in {"boot.spawn", "halt.rm"} => \A m \in Instances : Nobody(m)
    /\ l.pc \in {"start.record", "start.window"} => HasDir(l.inst)
    /\ l.pc = "start.record" => \A p \in Pids : owner[p] = l.inst => p = l.pid
    /\ l.pc = "start.window" => state[l.inst].pid = l.pid
    /\ l.pc = "boot.record" => \A p \in Pids : owner[p] = DefaultEmulator => p = l.pid
    /\ l.pc \in {"stop.signal", "stop.wait"} => l.prior.pid = state[l.inst].pid

(* A record, or a probe's update of it, is true of the QEMU that it names.   *)
TrueOf(s, n) ==
    /\ s.lostAt => s.readyAt
    /\ s.readyAt => \A p \in Pids : owner[p] = n /\ s.pid = p => phase[p] = "ready"

Asks(l) ==
    /\ l.pc \in {"status.probe", "status.reread"} => l.prior = state[l.inst]
    /\ l.pc = "status.reread" /\ l.health = "hdc-lost" => state[l.inst].readyAt
    /\ l.pc = "status.reread" /\ l.health = "ready" =>
          \A p \in Pids : owner[p] = l.inst /\ state[l.inst].pid = p => phase[p] = "ready"
    /\ l.pc = "status.write" => l.prior.pid = state[l.inst].pid /\ TrueOf(l.prior, l.inst)

HealthInv ==
    \A n \in Instances : /\ state[n].lostAt => state[n].readyAt
                         /\ TrueOf(state[n], n) \/ \E c \in Clients : Launching(cl[c], n)

(* The overlays of a QEMU, and those that a start is about to give one, are  *)
(* written on the images of the moment or not at all.                        *)
Fresh(n) == overlays[n] = "written" => writtenOn[n] = image
OverlayInv ==
    \A p \in Pids : owner[p] \in Instances =>
        Fresh(owner[p]) /\ (Up(p) => overlays[owner[p]] = "written")

ClientInv(l) == Knows(l) /\ Asks(l) /\ (l.pc = "start.spawn" => Fresh(l.inst))

OrderlyInv == FoundInv /\ HealthInv /\ OverlayInv /\ \A c \in Clients : ClientInv(cl[c])
(* An idle client knows nothing.                                             *)
LEMMA IdleKnows == ClientInv(Idle)
BY DEF ClientInv, Knows, Asks, BeforeSpawn, Idle

(* When one client moves on and nothing else happens, what it now knows and  *)
(* asks is all that has to hold.                                             *)
LEMMA OnlyMoves ==
    ASSUME Orderly, TypeOK, OrderlyInv, UNCHANGED <<os, files, image, pidFile>>,
           NEW c \in Clients, NEW r, cl' = [cl EXCEPT ![c] = r],
           cl[c].pc \notin {"start.record", "boot.record"}, ClientInv(r)
    PROVE  OrderlyInv'
<1>1. /\ \A d \in Clients : d = c
      /\ cl'[c] = r
    BY DEF Orderly, TypeOK
<1>2. UNCHANGED <<owner, phase, state, overlays, writtenOn, image, pidFile>>
    BY DEF os, files
<1>3. FoundInv'
    BY <1>1, <1>2 DEF OrderlyInv, FoundInv, Launching, At, Nobody
<1>4. HealthInv'
    BY <1>1, <1>2 DEF OrderlyInv, HealthInv, Launching, TrueOf
<1>5. OverlayInv'
    BY <1>2 DEF OrderlyInv, OverlayInv, Fresh, Up, Qemu
<1>6. ClientInv(r)'
    BY <1>2 DEF ClientInv, Knows, Asks, Nobody, HasDir, TrueOf, Fresh
<1>7. (\A d \in Clients : ClientInv(cl[d]))'
    BY <1>1, <1>6
<1> QED BY <1>3, <1>4, <1>5, <1>7 DEF OrderlyInv

LEMMA OnlyFinish ==
    ASSUME Orderly, TypeOK, OrderlyInv, UNCHANGED <<os, files, image, pidFile>>,
           NEW c \in Clients, Finish(c), cl[c].pc \notin {"start.record", "boot.record"}
    PROVE  OrderlyInv'
BY OnlyMoves, IdleKnows DEF Finish

(* A running QEMU of instance n is the one that its record names.            *)
LEMMA RecordNames ==
    ASSUME Orderly, TypeOK, OrderlyInv, NEW c \in Clients, NEW n \in Instances,
           ~Launching(cl[c], n)
    PROVE  /\ \A p \in Pids : owner[p] = n => state[n].pid = p
           /\ isInstanceProcess(state[n].pid, n) <=> ~Nobody(n)
           /\ TrueOf(state[n], n)
<1>1. \A d \in Clients : d = c
    BY DEF Orderly
<1>2. \A p \in Pids : owner[p] = n => state[n].pid = p
    BY <1>1 DEF OrderlyInv, FoundInv
<1>3. isInstanceProcess(state[n].pid, n) <=> state[n].pid \in Pids /\ owner[state[n].pid] = n
    <2>1. DirNamedBy(n, n)
        BY DEF DirNamedBy
    <2>2. n # NoOne
        BY ConstantTypes
    <2> QED BY <2>1, <2>2 DEF isInstanceProcess, isPidAlive, Live, Orderly, TypeOK
<1> QED BY <1>1, <1>2, <1>3 DEF Nobody, OrderlyInv, HealthInv

(* The same of the default emulator and the PID file.                        *)
LEMMA FileNames ==
    ASSUME Orderly, TypeOK, OrderlyInv, NEW c \in Clients, ~At(c, "boot.record"), ~Live(pidFile)
    PROVE  Nobody(DefaultEmulator)
<1>1. \A p \in Pids : owner[p] = DefaultEmulator => pidFile = p
    BY DEF Orderly, OrderlyInv, FoundInv
<1> QED BY <1>1 DEF Nobody, Live, NoOne, DefaultEmulator

(* The steps of getPoolInstanceStatus.                                       *)
LEMMA OrderlyStatus ==
    ASSUME Orderly, TypeOK, OrderlyInv, NEW c \in Clients,
           \/ \E n \in Instances : StatusRead(c, n)
           \/ StatusProbe(c) \/ StatusReread(c) \/ StatusWrite(c)
    PROVE  OrderlyInv'
<1>0. PICK l : l = cl[c] /\ l \in Locals /\ ClientInv(l)
    BY DEF TypeOK, OrderlyInv
<1>1. CASE \E n \in Instances : StatusRead(c, n)
    <2>1. PICK n \in Instances : StatusRead(c, n)
        BY <1>1
    <2>2. PICK r : r = [Idle EXCEPT !.pc = "status.probe", !.inst = n, !.prior = state[n]]
        OBVIOUS
    <2>3. ClientInv(r)
        BY <2>2 DEF ClientInv, Knows, Asks, BeforeSpawn, Idle
    <2>4. cl[c].pc \notin {"start.record", "boot.record"} /\ UNCHANGED <<os, files, image, pidFile>>
        BY <2>1 DEF StatusRead, At
    <2>5. Finish(c) \/ cl' = [cl EXCEPT ![c] = r]
        BY <2>1, <2>2 DEF StatusRead
    <2> QED BY <2>3, <2>4, <2>5, OnlyFinish, OnlyMoves
<1>2. CASE StatusProbe(c)
    <2>1. PICK n \in Instances : n = l.inst
        BY <1>0, <1>2 DEF StatusProbe, At, TypeOK, PoolLabels
    <2>2. PICK a \in probeEmulatorBoot(n) : \E late \in BOOLEAN :
             cl' = [cl EXCEPT ![c].pc = "status.reread",
                              ![c].health = classifyEmulatorHealth(TRUE, a[1], a[2], cl[c].prior.readyAt, late)]
        BY <1>0, <1>2, <2>1 DEF StatusProbe
    <2>3. PICK late \in BOOLEAN, h \in Healths :
             /\ h = classifyEmulatorHealth(TRUE, a[1], a[2], l.prior.readyAt, late)
             /\ cl' = [cl EXCEPT ![c].pc = "status.reread", ![c].health = h]
        BY <1>0, <2>2 DEF classifyEmulatorHealth, Healths
    <2>4. PICK r : r = [l EXCEPT !.pc = "status.reread", !.health = h]
        OBVIOUS
    <2>5. l.pc = "status.probe" /\ l.prior = state[n] /\ ~Launching(cl[c], n)
        BY <1>0, <1>2, <2>1 DEF StatusProbe, At, ClientInv, Asks, Launching
    <2>6. r.pc = "status.reread" /\ r.inst = n /\ r.prior = state[n] /\ r.health = h
        BY <1>0, <2>1, <2>4, <2>5 DEF Locals
    <2>7. h = "hdc-lost" => state[n].readyAt
        <3>1. l.prior.readyAt \in BOOLEAN
            BY <1>0 DEF Locals, PoolInstanceState
        <3> QED BY <2>3, <2>5, <3>1 DEF classifyEmulatorHealth
    <2>8. h = "ready" => \A p \in Pids : owner[p] = n /\ state[n].pid = p => phase[p] = "ready"
        <3> SUFFICES ASSUME h = "ready", NEW p \in Pids, owner[p] = n PROVE phase[p] = "ready"
            OBVIOUS
        <3>1. a[1] /\ a[2]
            BY <2>3 DEF classifyEmulatorHealth, probeEmulatorBoot
        <3>2. PICK q \in UpFor(n) : phase[q] = "ready"
            <4>1. a = <<FALSE, FALSE>> \/ a = <<TRUE, FALSE>> => ~a[2]
                <5>1. CASE a = <<FALSE, FALSE>>
                    BY <5>1
                <5>2. CASE a = <<TRUE, FALSE>>
                    BY <5>2
                <5> QED BY <5>1, <5>2
            <4>2. a \notin {<<FALSE, FALSE>>, <<TRUE, FALSE>>}
                BY <3>1, <4>1
            <4>3. a \in IF \E q \in UpFor(n) : phase[q] = "ready" THEN {<<TRUE, TRUE>>} ELSE {}
                BY <2>2, <4>2 DEF probeEmulatorBoot
            <4> QED BY <4>3
        <3>3. q \in Pids /\ owner[q] = n
            BY DEF UpFor
        <3> QED BY <2>5, <3>2, <3>3, RecordNames
    <2>9. ClientInv(r)
        BY <2>6, <2>7, <2>8 DEF ClientInv, Knows, Asks, BeforeSpawn
    <2>10. cl' = [cl EXCEPT ![c] = r]
        BY <1>0, <2>3, <2>4 DEF Locals
    <2>11. UNCHANGED <<os, files, image, pidFile>>
        BY <1>2 DEF StatusProbe
    <2> QED BY <1>0, <2>5, <2>9, <2>10, <2>11, OnlyMoves
<1>3. CASE StatusReread(c)
    <2>1. PICK n \in Instances : n = l.inst
        BY <1>0, <1>3 DEF StatusReread, At, TypeOK, PoolLabels
    <2>2. l.pc = "status.reread" /\ ~Launching(cl[c], n) /\ UNCHANGED <<os, files, image, pidFile>>
        BY <1>0, <1>3 DEF StatusReread, At, Launching
    <2>3. PICK next : next = Recorded(state[n], l.health)
        OBVIOUS
    <2>4. next.pid = state[n].pid /\ TrueOf(next, n)
        <3>1. TrueOf(state[n], n) /\ state[n] \in PoolInstanceState
            BY <2>2, RecordNames DEF TypeOK
        <3>2. PICK s \in PoolInstanceState : s = state[n]
            BY <3>1
        <3>3. /\ l.health = "hdc-lost" => s.readyAt
              /\ l.health = "ready" => \A p \in Pids : owner[p] = n /\ s.pid = p => phase[p] = "ready"
            BY <1>0, <2>1, <2>2, <3>2 DEF ClientInv, Asks
        <3> QED BY <2>3, <3>1, <3>2, <3>3 DEF Recorded, TrueOf, PoolInstanceState
    <2>5. PICK r : r = [l EXCEPT !.pc = "status.write", !.prior = next]
        OBVIOUS
    <2>6. r.pc = "status.write" /\ r.prior = next /\ r.inst = n
        BY <1>0, <2>1, <2>5 DEF Locals
    <2>7. ClientInv(r)
        BY <2>4, <2>6 DEF ClientInv, Knows, Asks, BeforeSpawn
    <2>8. Finish(c) \/ cl' = [cl EXCEPT ![c] = r]
        BY <1>0, <1>3, <2>1, <2>3, <2>5 DEF StatusReread, Locals
    <2> QED BY <1>0, <2>2, <2>7, <2>8, OnlyFinish, OnlyMoves
<1>4. CASE StatusWrite(c)
    <2>1. PICK n \in Instances : n = l.inst
        BY <1>0, <1>4 DEF StatusWrite, At, TypeOK, PoolLabels
    <2>2. /\ l.pc = "status.write" /\ ~Launching(cl[c], n)
          /\ l.prior.pid = state[n].pid /\ TrueOf(l.prior, n)
        BY <1>0, <1>4, <2>1 DEF StatusWrite, At, Launching, ClientInv, Asks
    <2>3. /\ UNCHANGED <<owner, phase, overlays, writtenOn, image, pidFile>>
          /\ state' = state \/ state' = [state EXCEPT ![n] = l.prior]
          /\ cl' = [cl EXCEPT ![c] = Idle]
        BY <1>0, <1>4, <2>1 DEF StatusWrite, writePoolState, os, Finish
    <2>4. \A m \in Instances : state'[m] = state[m] \/ (m = n /\ state'[m] = l.prior)
        BY <2>3 DEF TypeOK
    <2>5. \A d \in Clients : d = c /\ cl'[d] = Idle /\ cl[d] = l
        BY <1>0, <2>3 DEF Orderly, TypeOK
    <2>6. FoundInv'
        BY <2>2, <2>3, <2>4, <2>5 DEF OrderlyInv, FoundInv, Launching, Nobody, At
    <2>7. HealthInv'
        <3>1. TrueOf(l.prior, n) <=> TrueOf(l.prior, n)'
            BY <1>0, <2>3 DEF TrueOf
        <3> QED BY <2>2, <2>3, <2>4, <2>5 DEF OrderlyInv, HealthInv, Launching, TrueOf
    <2>8. OverlayInv'
        BY <2>3 DEF OrderlyInv, OverlayInv, Fresh, Up, Qemu
    <2>9. (\A d \in Clients : ClientInv(cl[d]))'
        BY <2>5 DEF ClientInv, Knows, Asks, BeforeSpawn, Idle
    <2> QED BY <2>6, <2>7, <2>8, <2>9 DEF OrderlyInv
<1> QED BY <1>1, <1>2, <1>3, <1>4
(* While nobody runs instance n, a start may make its overlays anew.         *)
LEMMA OnlyOverlays ==
    ASSUME Orderly, TypeOK, OrderlyInv, UNCHANGED <<os, state, image, pidFile>>,
           NEW c \in Clients, NEW r, cl' = [cl EXCEPT ![c] = r],
           cl[c].pc \in BeforeSpawn, r.pc \in BeforeSpawn \cup {"idle"}, r.inst = cl[c].inst,
           r.pc = "start.spawn" => overlays'[r.inst] = "clean",
           overlays' \in [Instances -> Overlays],
           \A m \in Instances : m # cl[c].inst => overlays'[m] = overlays[m] /\ writtenOn'[m] = writtenOn[m]
    PROVE  OrderlyInv'
<1>1. \A d \in Clients : d = c /\ cl'[d] = r
    BY DEF Orderly, TypeOK
<1>2. UNCHANGED <<owner, phase, state, image, pidFile>>
    BY DEF os
<1>3. Nobody(cl[c].inst) /\ Nobody(DefaultEmulator)
    BY DEF OrderlyInv, ClientInv, Knows
<1>4. FoundInv'
    BY <1>1, <1>2 DEF OrderlyInv, FoundInv, Launching, At, Nobody, BeforeSpawn
<1>5. HealthInv'
    BY <1>1, <1>2 DEF OrderlyInv, HealthInv, Launching, TrueOf, BeforeSpawn
<1>6. OverlayInv'
    BY <1>2, <1>3 DEF OrderlyInv, OverlayInv, Fresh, Up, Qemu, Nobody
<1>7. ClientInv(r)'
    BY <1>2, <1>3 DEF ClientInv, Knows, Asks, Nobody, Fresh, BeforeSpawn
<1> QED BY <1>1, <1>4, <1>5, <1>6, <1>7 DEF OrderlyInv

LEMMA MovesOn ==
    ASSUME TypeOK, NEW c \in Clients, NEW l \in Labels, Goto(c, l)
    PROVE  \E r \in Locals : /\ cl' = [cl EXCEPT ![c] = r] /\ r.pc = l /\ r.inst = cl[c].inst
                             /\ r.prior = cl[c].prior /\ r.pid = cl[c].pid /\ r.flag = cl[c].flag
<1>1. PICK q \in Locals : q = cl[c]
    BY DEF TypeOK
<1>2. PICK r : r = [q EXCEPT !.pc = l]
    OBVIOUS
<1>3. r \in Locals /\ r.pc = l /\ r.inst = q.inst /\ r.prior = q.prior /\ r.pid = q.pid /\ r.flag = q.flag
    BY <1>2 DEF Locals
<1> QED BY <1>1, <1>2, <1>3 DEF Goto

(* The checks of startPoolInstance.                                          *)
LEMMA OrderlyChecks ==
    ASSUME Orderly, TypeOK, FingerprintInv, OrderlyInv, NEW c \in Clients,
           \/ \E n \in Instances, fresh \in BOOLEAN : StartRead(c, n, fresh)
           \/ StartCheckDefault(c) \/ StartCheckPorts(c) \/ StartFingerprint(c) \/ StartFails(c)
    PROVE  OrderlyInv'
<1>0. PICK l : l = cl[c] /\ l \in Locals /\ ClientInv(l)
    BY DEF TypeOK, OrderlyInv
<1>a. UNCHANGED <<os, files, image, pidFile>> /\ cl[c].pc \notin {"start.record", "boot.record"}
    BY DEF StartRead, StartCheckDefault, StartCheckPorts, StartFingerprint, StartFails, At
<1>b. ASSUME Finish(c) PROVE OrderlyInv'
    BY <1>a, <1>b, OnlyFinish
<1>1. CASE \E n \in Instances, fresh \in BOOLEAN : StartRead(c, n, fresh)
    <2>1. PICK n \in Instances, fresh \in BOOLEAN : StartRead(c, n, fresh)
        BY <1>1
    <2>2. PICK waits : waits = [Idle EXCEPT !.pc = "status.read", !.inst = n]
        OBVIOUS
    <2>3. PICK starts : starts = [Idle EXCEPT !.pc = "start.default", !.inst = n,
                                              !.flag = fresh, !.prior = state[n]]
        OBVIOUS
    <2>4. ClientInv(waits)
        BY <2>2 DEF ClientInv, Knows, Asks, BeforeSpawn, Idle
    <2>5. ~Launching(cl[c], n)
        BY <1>a DEF Launching
    <2>6. CASE isInstanceProcess(state[n].pid, n)
        <3>1. Finish(c) \/ cl' = [cl EXCEPT ![c] = waits]
            BY <2>1, <2>2, <2>6 DEF StartRead
        <3> QED BY <1>a, <1>b, <2>4, <3>1, OnlyMoves
    <2>7. CASE ~isInstanceProcess(state[n].pid, n)
        <3>1. cl' = [cl EXCEPT ![c] = starts]
            BY <2>1, <2>3, <2>7 DEF StartRead
        <3>2. Nobody(n)
            BY <2>5, <2>7, RecordNames
        <3>3. ClientInv(starts)
            BY <2>3, <3>2 DEF ClientInv, Knows, Asks, BeforeSpawn, Idle
        <3> QED BY <1>a, <3>1, <3>3, OnlyMoves
    <2> QED BY <2>6, <2>7
<1>2. CASE StartCheckDefault(c)
    <2>1. CASE readDefaultEmulatorPid # NoPid
        BY <1>2, <1>b, <2>1 DEF StartCheckDefault
    <2>2. CASE readDefaultEmulatorPid = NoPid
        <3>1. ~Live(pidFile)
            BY <2>2 DEF readDefaultEmulatorPid, isPidAlive, Live
        <3>2. Nobody(DefaultEmulator)
            BY <1>a, <3>1, FileNames DEF At
        <3>3. PICK r \in Locals : cl' = [cl EXCEPT ![c] = r] /\ r.pc = "start.ports" /\ r.inst = l.inst
            BY <1>0, <1>2, <2>2, MovesOn DEF StartCheckDefault, Labels, PoolLabels
        <3>4. Nobody(l.inst)
            BY <1>0, <1>2 DEF ClientInv, Knows, StartCheckDefault, At
        <3>5. ClientInv(r)
            BY <3>2, <3>3, <3>4 DEF ClientInv, Knows, Asks, BeforeSpawn
        <3> QED BY <1>a, <3>3, <3>5, OnlyMoves
    <2> QED BY <2>1, <2>2
<1>3. CASE StartCheckPorts(c)
    <2>1. CASE UpFor(cl[c].inst) # {}
        BY <1>3, <1>b, <2>1 DEF StartCheckPorts
    <2>2. CASE UpFor(cl[c].inst) = {}
        <3>1. PICK r \in Locals : cl' = [cl EXCEPT ![c] = r] /\ r.pc = "start.fresh" /\ r.inst = l.inst
            BY <1>0, <1>3, <2>2, MovesOn DEF StartCheckPorts, Labels, PoolLabels
        <3>2. Nobody(l.inst) /\ Nobody(DefaultEmulator)
            BY <1>0, <1>3 DEF ClientInv, Knows, StartCheckPorts, At, BeforeSpawn
        <3>3. ClientInv(r)
            BY <3>1, <3>2 DEF ClientInv, Knows, Asks, BeforeSpawn
        <3> QED BY <1>a, <3>1, <3>3, OnlyMoves
    <2> QED BY <2>1, <2>2
<1>4. CASE StartFingerprint(c)
    <2>1. PICK n \in Instances : n = l.inst
        BY <1>0, <1>4 DEF StartFingerprint, At, TypeOK, PoolLabels
    <2>2. Nobody(n) /\ Nobody(DefaultEmulator)
        BY <1>0, <1>4, <2>1 DEF ClientInv, Knows, StartFingerprint, At, BeforeSpawn
    <2>3. \/ Finish(c)
          \/ Overlaid(c, "start.spawn", l.prior.bases) /\ l.prior.bases = image
          \/ Overlaid(c, "start.remove", image)
        BY <1>0, <1>4 DEF StartFingerprint, TypeOK
    <2>4. ASSUME NEW q \in {"start.spawn", "start.remove"}, NEW b, Overlaid(c, q, b),
                 q = "start.spawn" => Fresh(n)
          PROVE  OrderlyInv'
        <3>1. PICK r : r = [Idle EXCEPT !.pc = q, !.inst = l.inst, !.bases = b]
            OBVIOUS
        <3>2. r.pc = q /\ r.inst = n
            BY <2>1, <3>1 DEF Idle
        <3>3. ClientInv(r)
            BY <2>2, <2>4, <3>2 DEF ClientInv, Knows, Asks, BeforeSpawn
        <3>4. cl' = [cl EXCEPT ![c] = r]
            BY <1>0, <2>4, <3>1 DEF Overlaid
        <3> QED BY <1>a, <3>3, <3>4, OnlyMoves
    <2>5. l.prior.bases = image => Fresh(n)
        <3>1. Fits(l.prior.bases, n) /\ (overlays[n] = "written" => writtenOn[n] <= image)
            BY <1>0, <2>1 DEF FingerprintInv
        <3> QED BY <3>1 DEF Fits, Fresh, TypeOK
    <2> QED BY <1>b, <2>3, <2>4, <2>5
<1>5. CASE StartFails(c)
    BY <1>5, <1>b DEF StartFails
<1> QED BY <1>1, <1>2, <1>3, <1>4, <1>5

(* The overlays are made.                                                    *)
LEMMA OrderlyOverlays ==
    ASSUME Orderly, TypeOK, OrderlyInv, NEW c \in Clients,
           StartFresh(c) \/ StartRemove(c) \/ StartCreate(c)
    PROVE  OrderlyInv'
<1>1. PICK n \in Instances : n = cl[c].inst /\ cl[c].pc \in BeforeSpawn
    BY DEF StartFresh, StartRemove, StartCreate, At, TypeOK, PoolLabels, BeforeSpawn
<1>2. UNCHANGED <<os, state, image, pidFile>>
    BY DEF StartFresh, StartRemove, StartCreate
<1>3. PICK v \in Overlays : Discard(n, v) \/ UNCHANGED <<overlays, writtenOn>>
    BY <1>1 DEF StartFresh, StartRemove, StartCreate, Overlays
<1>4. /\ overlays' \in [Instances -> Overlays]
      /\ \A m \in Instances : m # n => overlays'[m] = overlays[m] /\ writtenOn'[m] = writtenOn[m]
    BY <1>3 DEF TypeOK, Discard
<1>5. CASE ~StartCreate(c)
    <2>1. PICK q \in {"start.fingerprint", "start.create"} : Goto(c, q)
        BY <1>5 DEF StartFresh, StartRemove
    <2>2. PICK r \in Locals : cl' = [cl EXCEPT ![c] = r] /\ r.pc = q /\ r.inst = n
        BY <1>1, <2>1, MovesOn DEF Labels, PoolLabels
    <2> QED BY <1>1, <1>2, <1>4, <2>2, OnlyOverlays DEF BeforeSpawn
<1>6. CASE StartCreate(c)
    <2>1. \/ Finish(c) /\ UNCHANGED <<overlays, writtenOn>>
          \/ Discard(n, "clean") /\ Goto(c, "start.spawn")
        BY <1>1, <1>6 DEF StartCreate
    <2>2. CASE Finish(c) /\ UNCHANGED <<overlays, writtenOn>>
        BY <1>1, <1>2, <2>2, OnlyFinish DEF files, BeforeSpawn
    <2>3. CASE Discard(n, "clean") /\ Goto(c, "start.spawn")
        <3>1. PICK r \in Locals : cl' = [cl EXCEPT ![c] = r] /\ r.pc = "start.spawn" /\ r.inst = n
            BY <1>1, <2>3, MovesOn DEF Labels, PoolLabels
        <3>2. overlays'[n] = "clean"
            BY <2>3 DEF Discard, TypeOK
        <3> QED BY <1>1, <1>2, <1>4, <3>1, <3>2, OnlyOverlays DEF BeforeSpawn
    <2> QED BY <2>1, <2>2, <2>3
<1> QED BY <1>5, <1>6
(* A new QEMU of owner o is one that nobody ran: its client is the one place *)
(* that names it until it writes the record.                                 *)
LEMMA Spawned ==
    ASSUME TypeOK, NEW c \in Clients, NEW p \in Pids, NEW o \in Instances \cup {DefaultEmulator},
           NEW l \in Labels, Spawn(c, p, o, l)
    PROVE  /\ owner[p] = NoOne /\ \A q \in Pids : owner'[q] = IF q = p THEN o ELSE owner[q]
           /\ \A q \in Pids : phase'[q] = IF q = p THEN "launching" ELSE phase[q]
           /\ UNCHANGED <<state, overlays, writtenOn, image, pidFile>>
BY DEF Spawn, files, FreePids, TypeOK

LEMMA SpawnMoves ==
    ASSUME TypeOK, NEW c \in Clients, NEW p \in Pids, NEW o, NEW l \in Labels, Spawn(c, p, o, l)
    PROVE  \E r \in Locals : cl' = [cl EXCEPT ![c] = r] /\ r.pc = l /\ r.inst = cl[c].inst /\ r.pid = p
<1>1. PICK q \in Locals : q = cl[c]
    BY DEF TypeOK
<1>2. PICK r : r = [q EXCEPT !.pc = l, !.pid = p]
    OBVIOUS
<1>3. r \in Locals /\ r.pc = l /\ r.inst = q.inst /\ r.pid = p
    BY <1>2 DEF Locals
<1>4. cl' = [cl EXCEPT ![c] = r]
    BY <1>1, <1>2 DEF Spawn
<1> QED BY <1>1, <1>3, <1>4

LEMMA OrderlySpawn ==
    ASSUME Orderly, TypeOK, OrderlyInv, NEW c \in Clients, NEW p \in Pids, StartSpawn(c, p)
    PROVE  OrderlyInv'
<1>1. PICK n \in Instances : n = cl[c].inst /\ cl[c].pc = "start.spawn" /\ HasDir(n) /\ Spawn(c, p, n, "start.record")
    BY DEF StartSpawn, At, TypeOK, PoolLabels
<1>2. Nobody(n) /\ Nobody(DefaultEmulator) /\ Fresh(n)
    BY <1>1 DEF OrderlyInv, ClientInv, Knows, BeforeSpawn
<1>3. /\ owner[p] = NoOne /\ \A q \in Pids : owner'[q] = IF q = p THEN n ELSE owner[q]
      /\ \A q \in Pids : phase'[q] = IF q = p THEN "launching" ELSE phase[q]
      /\ UNCHANGED <<state, overlays, writtenOn, image, pidFile>>
    BY <1>1, Spawned DEF Labels, PoolLabels
<1>4. PICK r \in Locals : cl' = [cl EXCEPT ![c] = r] /\ r.pc = "start.record" /\ r.inst = n /\ r.pid = p
    BY <1>1, SpawnMoves DEF Labels, PoolLabels
<1>5. \A d \in Clients : d = c /\ cl'[d] = r /\ cl[d].pc = "start.spawn"
    BY <1>1, <1>4 DEF Orderly, TypeOK
<1>6. n # DefaultEmulator
    BY ConstantTypes
<1>7. FoundInv'
    BY <1>2, <1>3, <1>4, <1>5, <1>6 DEF OrderlyInv, FoundInv, Launching, At, Nobody
<1>8. HealthInv'
    <2>1. \A m \in Instances : (state[m].lostAt => state[m].readyAt) /\ TrueOf(state[m], m)
        BY <1>5 DEF OrderlyInv, HealthInv, Launching
    <2>2. \A m \in Instances : m # n => TrueOf(state[m], m)'
        BY <1>3, <2>1 DEF TrueOf
    <2>3. Launching(r, n)
        BY <1>4 DEF Launching
    <2> QED BY <1>3, <1>5, <2>1, <2>2, <2>3 DEF HealthInv, Launching
<1>9. OverlayInv'
    BY <1>2, <1>3 DEF OrderlyInv, OverlayInv, Fresh, Up, Qemu
<1>10. ClientInv(r)'
    BY <1>1, <1>2, <1>3, <1>4 DEF ClientInv, Knows, Asks, Nobody, HasDir, BeforeSpawn
<1> QED BY <1>5, <1>7, <1>8, <1>9, <1>10 DEF OrderlyInv

(* The record is written, at once or when QEMU has exited early.             *)
LEMMA OrderlyRecord ==
    ASSUME Orderly, TypeOK, OrderlyInv, NEW c \in Clients, StartRecord(c) \/ StartWindow(c)
    PROVE  OrderlyInv'
<1>0. PICK l : l = cl[c] /\ l \in Locals /\ ClientInv(l)
    BY DEF TypeOK, OrderlyInv
<1>1. PICK n \in Instances : n = l.inst /\ l.pc \in {"start.record", "start.window"} /\ HasDir(n)
    BY <1>0 DEF StartRecord, StartWindow, At, TypeOK, PoolLabels, ClientInv, Knows
<1>2. ASSUME NEW s \in PoolInstanceState, writePoolState(n, s), s.readyAt = FALSE, s.lostAt = FALSE,
             NEW r, cl' = [cl EXCEPT ![c] = r], r.inst = n,
             r.pc = "start.window" /\ s.pid = r.pid,
             \A p \in Pids : owner[p] = n => s.pid = p
      PROVE  OrderlyInv'
    <2>1. /\ UNCHANGED <<owner, phase, overlays, writtenOn, image, pidFile>>
          /\ \A m \in Instances : state'[m] = IF m = n THEN s ELSE state[m]
        BY <1>1, <1>2 DEF writePoolState, os, TypeOK
    <2>2. \A d \in Clients : d = c /\ cl'[d] = r /\ cl[d] = l
        BY <1>0, <1>2 DEF Orderly, TypeOK
    <2>3. FoundInv'
        <3>1. ASSUME NEW p \in Pids, owner[p] \in Instances PROVE state'[owner[p]].pid = p
            <4>1. PICK m \in Instances : m = owner[p]
                BY <3>1
            <4>2. CASE m = n
                BY <1>2, <2>1, <4>1, <4>2
            <4>3. CASE m # n
                <5>1. \A d \in Clients : ~Launching(cl[d], m)
                    BY <1>1, <2>2, <4>3 DEF Launching
                <5> QED BY <2>1, <4>1, <4>3, <5>1 DEF OrderlyInv, FoundInv
            <4> QED BY <4>2, <4>3
        <3>2. \A p \in Pids : owner[p] = DefaultEmulator => pidFile = p /\ \A m \in Instances : Nobody(m)
            BY <1>1, <2>2 DEF OrderlyInv, FoundInv, At
        <3> QED BY <2>1, <3>1, <3>2 DEF FoundInv, Nobody
    <2>4. HealthInv'
        BY <1>1, <1>2, <2>1, <2>2 DEF OrderlyInv, HealthInv, Launching, TrueOf
    <2>5. OverlayInv'
        BY <2>1 DEF OrderlyInv, OverlayInv, Fresh, Up, Qemu
    <2>6. ClientInv(r)'
        BY <1>1, <1>2, <2>1 DEF ClientInv, Knows, Asks, HasDir, BeforeSpawn
    <2> QED BY <2>2, <2>3, <2>4, <2>5, <2>6 DEF OrderlyInv
<1>3. CASE StartRecord(c)
    <2>1. PICK s : s = Launched(c)
        OBVIOUS
    <2>2. /\ s \in PoolInstanceState /\ s.readyAt = FALSE /\ s.lostAt = FALSE /\ s.pid = l.pid
          /\ writePoolState(n, s) /\ Goto(c, "start.window") /\ l.pc = "start.record"
        BY <1>0, <1>1, <1>3, <2>1 DEF StartRecord, At, Launched, PoolInstanceState, Locals
    <2>3. PICK r \in Locals : cl' = [cl EXCEPT ![c] = r] /\ r.pc = "start.window" /\ r.inst = n /\ r.pid = l.pid
        BY <1>0, <1>1, <2>2, MovesOn DEF Labels, PoolLabels
    <2>4. \A p \in Pids : owner[p] = n => s.pid = p
        BY <1>0, <1>1, <2>2 DEF ClientInv, Knows
    <2> QED BY <1>2, <2>2, <2>3, <2>4
<1>4. CASE StartWindow(c)
    <2>1. l.pc = "start.window" /\ cl[c].pc \notin {"start.record", "boot.record"} /\ ~Launching(cl[c], n)
        BY <1>0, <1>4 DEF StartWindow, At, Launching
    <2>2. CASE Live(l.pid)
        <3>1. PICK r : r = [Idle EXCEPT !.pc = "status.read", !.inst = n]
            OBVIOUS
        <3>2. ClientInv(r)
            BY <3>1 DEF ClientInv, Knows, Asks, BeforeSpawn, Idle
        <3> QED BY <1>0, <1>1, <1>4, <2>1, <2>2, <3>1, <3>2, OnlyMoves DEF StartWindow
    <2>3. CASE ~Live(l.pid)
        <3>1. PICK s : s = [Launched(c) EXCEPT !.pid = NoPid]
            OBVIOUS
        <3>2. s \in PoolInstanceState /\ s.readyAt = FALSE /\ s.lostAt = FALSE
            BY <1>0, <3>1 DEF Launched, PoolInstanceState, Locals
        <3>3. writePoolState(n, s) /\ cl' = [cl EXCEPT ![c] = Idle]
            BY <1>0, <1>1, <1>4, <2>3, <3>1 DEF StartWindow, Finish
        <3>4. \A p \in Pids : owner[p] # n
            <4>1. \A p \in Pids : owner[p] = n => l.pid = p
                BY <1>0, <1>1, <2>1, RecordNames DEF ClientInv, Knows
            <4> QED BY <2>3, <4>1, ConstantTypes DEF Live
        <3>5. \A m \in Instances : state'[m] = IF m = n THEN s ELSE state[m]
            BY <1>1, <3>3 DEF writePoolState, TypeOK
        <3>6. UNCHANGED <<owner, phase, overlays, writtenOn, image, pidFile>>
            BY <3>3 DEF writePoolState, os
        <3>7. \A d \in Clients : d = c /\ cl'[d] = Idle /\ cl[d] = l
            BY <1>0, <3>3 DEF Orderly, TypeOK
        <3>8. FoundInv'
            BY <2>1, <3>4, <3>5, <3>6, <3>7 DEF OrderlyInv, FoundInv, Launching, At, Nobody
        <3>9. HealthInv'
            BY <2>1, <3>2, <3>5, <3>6, <3>7 DEF OrderlyInv, HealthInv, Launching, TrueOf
        <3>10. OverlayInv'
            BY <3>6 DEF OrderlyInv, OverlayInv, Fresh, Up, Qemu
        <3>11. ClientInv(Idle)'
            BY DEF ClientInv, Knows, Asks, BeforeSpawn, Idle
        <3> QED BY <3>7, <3>8, <3>9, <3>10, <3>11 DEF OrderlyInv
    <2> QED BY <2>2, <2>3
<1> QED BY <1>3, <1>4
(* Processes that end, or that never were a QEMU, take no knowledge away.    *)
Fewer == \A p \in Pids : (owner'[p] = owner[p] /\ phase'[p] = phase[p]) \/ owner'[p] \in {NoOne, Foreign}

LEMMA EndIsFewer == ASSUME TypeOK, NEW gone, End(gone) PROVE Fewer
BY DEF TypeOK, End, Fewer

LEMMA FewerShared ==
    ASSUME Orderly, TypeOK, OrderlyInv, Fewer, UNCHANGED <<files, image, pidFile>>,
           \/ UNCHANGED cl
           \/ \E c \in Clients : \E r : cl' = [cl EXCEPT ![c] = r] /\ cl[c].pc \notin {"start.record", "boot.record"}
    PROVE  FoundInv' /\ HealthInv' /\ OverlayInv'
<1>1. UNCHANGED <<state, overlays, writtenOn, image, pidFile>>
    BY DEF files
<1>2. \A p \in Pids : owner'[p] \in Instances \cup {DefaultEmulator} => owner'[p] = owner[p] /\ phase'[p] = phase[p]
    BY ConstantTypes DEF Fewer, NoOne, Foreign, DefaultEmulator
<1>3. \A d \in Clients : cl[d].pc \in {"start.record", "boot.record"} => cl'[d] = cl[d]
    BY DEF Orderly, TypeOK
<1>4. FoundInv'
    <2>1. ASSUME NEW p \in Pids, owner'[p] \in Instances
          PROVE  state[owner'[p]].pid = p \/ \E d \in Clients : Launching(cl'[d], owner'[p])
        BY <1>2, <1>3, <2>1 DEF OrderlyInv, FoundInv, Launching
    <2>2. ASSUME NEW p \in Pids, owner'[p] = DefaultEmulator
          PROVE  /\ pidFile = p \/ \E d \in Clients : cl'[d].pc = "boot.record"
                 /\ \A n \in Instances : Nobody(n)'
        BY <1>2, <1>3, <2>2 DEF OrderlyInv, FoundInv, At, Nobody
    <2> QED BY <1>1, <2>1, <2>2 DEF FoundInv, Launching, At
<1>5. HealthInv'
    <2>1. \A n \in Instances : TrueOf(state[n], n) => TrueOf(state[n], n)'
        BY <1>1, <1>2 DEF TrueOf
    <2>2. \A d \in Clients, n \in Instances : Launching(cl[d], n) => Launching(cl'[d], n)
        BY <1>3 DEF Launching
    <2> QED BY <1>1, <2>1, <2>2 DEF OrderlyInv, HealthInv
<1>6. OverlayInv'
    BY <1>1, <1>2 DEF OrderlyInv, OverlayInv, Fresh, Up, Qemu
<1> QED BY <1>4, <1>5, <1>6

LEMMA FewerKnown ==
    ASSUME TypeOK, Fewer, UNCHANGED <<files, image, pidFile>>, NEW l \in Locals, ClientInv(l),
           l.pc \in PoolLabels => l.inst \in Instances
    PROVE  ClientInv(l)'
<1>1. UNCHANGED <<state, overlays, writtenOn, image, pidFile>>
    BY DEF files
<1>2. \A p \in Pids : owner'[p] \in Instances \cup {DefaultEmulator} => owner'[p] = owner[p] /\ phase'[p] = phase[p]
    BY ConstantTypes DEF Fewer, NoOne, Foreign, DefaultEmulator
<1>3. \A n \in Instances \cup {DefaultEmulator} : Nobody(n) => Nobody(n)'
    BY <1>2 DEF Nobody
<1>4. Knows(l)'
    <2>1. l.pc \in BeforeSpawn \cup {"start.default", "stop.write"} => Nobody(l.inst)'
        BY <1>3 DEF ClientInv, Knows, BeforeSpawn, PoolLabels
    <2>2. l.pc \in BeforeSpawn \cup {"boot.pool", "boot.spawn", "halt.rm"} => Nobody(DefaultEmulator)'
        BY <1>3 DEF ClientInv, Knows
    <2>3. l.pc \in {"boot.spawn", "halt.rm"} => \A m \in Instances : Nobody(m)'
        BY <1>3 DEF ClientInv, Knows
    <2>4. l.pc = "start.record" => \A p \in Pids : owner'[p] = l.inst => p = l.pid
        BY <1>2 DEF ClientInv, Knows, PoolLabels
    <2>5. l.pc = "boot.record" => \A p \in Pids : owner'[p] = DefaultEmulator => p = l.pid
        BY <1>2 DEF ClientInv, Knows
    <2> QED BY <1>1, <2>1, <2>2, <2>3, <2>4, <2>5 DEF ClientInv, Knows, HasDir, BeforeSpawn
<1>5. Asks(l)'
    <2>1. l.pc = "status.reread" \/ l.pc = "status.write" => l.inst \in Instances
        BY DEF PoolLabels
    <2> QED BY <1>1, <1>2, <2>1 DEF ClientInv, Asks, TrueOf
<1> QED BY <1>1, <1>4, <1>5 DEF ClientInv, Fresh

(* The steps of stopPoolInstance.                                            *)
LEMMA OrderlyStop ==
    ASSUME Orderly, TypeOK, OrderlyInv, NEW c \in Clients,
           \/ \E n \in Instances, discard \in BOOLEAN : StopRead(c, n, discard)
           \/ StopSignal(c) \/ StopWait(c) \/ StopWrite(c)
    PROVE  OrderlyInv'
<1>0. PICK l : l = cl[c] /\ l \in Locals /\ ClientInv(l)
    BY DEF TypeOK, OrderlyInv
<1>a. cl[c].pc \notin {"start.record", "boot.record"} /\ \A m : ~Launching(cl[c], m)
    BY DEF StopRead, StopSignal, StopWait, StopWrite, At, Launching
<1>1. CASE \E n \in Instances, discard \in BOOLEAN : StopRead(c, n, discard)
    <2>1. PICK n \in Instances, discard \in BOOLEAN : StopRead(c, n, discard)
        BY <1>1
    <2>2. PICK r : r = [Idle EXCEPT !.inst = n, !.flag = discard, !.prior = state[n],
                          !.pc = IF state[n] = NoState THEN "stop.write" ELSE "stop.signal"]
        OBVIOUS
    <2>3. /\ r.inst = n /\ r.prior = state[n]
          /\ r.pc = IF state[n] = NoState THEN "stop.write" ELSE "stop.signal"
        BY <2>2 DEF Idle
    <2>4. state[n] = NoState => Nobody(n)
        <3>1. NoState.pid \notin Pids
            BY DEF NoState
        <3> QED BY <1>a, <3>1, RecordNames DEF Nobody
    <2>5. ClientInv(r)
        BY <2>3, <2>4 DEF ClientInv, Knows, Asks, BeforeSpawn
    <2> QED BY <1>a, <2>1, <2>2, <2>5, OnlyMoves DEF StopRead
<1>2. CASE StopSignal(c)
    <2>1. PICK n \in Instances : n = l.inst /\ l.pc = "stop.signal" /\ l.prior.pid = state[n].pid
        BY <1>0, <1>2 DEF StopSignal, At, TypeOK, PoolLabels, ClientInv, Knows
    <2>2. PICK q : /\ Goto(c, q)
                   /\ q = IF isInstanceProcess(state[n].pid, n) THEN "stop.wait" ELSE "stop.write"
        BY <1>0, <1>2, <2>1 DEF StopSignal
    <2>3. q \in {"stop.wait", "stop.write"} /\ (q = "stop.write" => Nobody(n))
        BY <1>a, <2>2, RecordNames
    <2>4. PICK r \in Locals : cl' = [cl EXCEPT ![c] = r] /\ r.pc = q /\ r.inst = n /\ r.prior = l.prior
        BY <1>0, <2>1, <2>2, <2>3, MovesOn DEF Labels, PoolLabels
    <2>5. ClientInv(r)
        BY <2>1, <2>3, <2>4 DEF ClientInv, Knows, Asks, BeforeSpawn
    <2> QED BY <1>2, <1>a, <2>4, <2>5, OnlyMoves DEF StopSignal
<1>3. CASE StopWait(c)
    <2>1. PICK n \in Instances : n = l.inst /\ l.pc = "stop.wait" /\ l.prior.pid = state[n].pid
        BY <1>0, <1>3 DEF StopWait, At, TypeOK, PoolLabels, ClientInv, Knows
    <2>2. PICK r \in Locals : cl' = [cl EXCEPT ![c] = r] /\ r.pc = "stop.write" /\ r.inst = n
        BY <1>0, <1>3, <2>1, MovesOn DEF StopWait, Labels, PoolLabels
    <2>3. /\ End(IF isInstanceProcess(state[n].pid, n) THEN {state[n].pid} ELSE {})
          /\ UNCHANGED <<files, image, pidFile>>
        BY <1>0, <1>3, <2>1 DEF StopWait
    <2>4. FoundInv' /\ HealthInv' /\ OverlayInv'
        <3>1. Fewer
            BY <2>3, EndIsFewer
        <3> QED BY <1>a, <2>2, <2>3, <3>1, FewerShared
    <2>5. Nobody(n)'
        <3> SUFFICES ASSUME NEW p \in Pids PROVE owner'[p] # n
            BY DEF Nobody
        <3>1. n # NoOne
            BY ConstantTypes
        <3>2. CASE owner[p] = n
            <4>1. state[n].pid = p /\ isInstanceProcess(state[n].pid, n)
                BY <1>a, <3>2, RecordNames DEF Nobody
            <4> QED BY <2>3, <3>1, <4>1 DEF End
        <3>3. CASE owner[p] # n
            BY <2>3, <3>1, <3>3 DEF End
        <3> QED BY <3>2, <3>3
    <2>6. ClientInv(r)'
        BY <2>2, <2>5 DEF ClientInv, Knows, Asks, BeforeSpawn
    <2>7. \A d \in Clients : d = c /\ cl'[d] = r
        BY <2>2 DEF Orderly, TypeOK
    <2> QED BY <2>4, <2>6, <2>7 DEF OrderlyInv
<1>4. CASE StopWrite(c)
    <2>1. PICK n \in Instances : n = l.inst /\ l.pc = "stop.write" /\ Nobody(n)
        BY <1>0, <1>4 DEF StopWrite, At, TypeOK, PoolLabels, ClientInv, Knows
    <2>2. /\ UNCHANGED <<owner, phase, image, pidFile>> /\ cl' = [cl EXCEPT ![c] = Idle]
          /\ \A m \in Instances : m # n => /\ state'[m] = state[m]
                                           /\ overlays'[m] = overlays[m] /\ writtenOn'[m] = writtenOn[m]
          /\ state'[n] = state[n] \/ (state'[n].readyAt = FALSE /\ state'[n].lostAt = FALSE)
        <3>1. /\ UNCHANGED <<owner, phase, image, pidFile>> /\ cl' = [cl EXCEPT ![c] = Idle]
            BY <1>4 DEF StopWrite, writePoolState, os, Finish
        <3>2. CASE l.flag
            BY <1>0, <1>4, <2>1, <3>1, <3>2 DEF StopWrite, Discard, TypeOK, NoState
        <3>3. CASE ~l.flag
            <4>1. PICK s : s = [NoState EXCEPT !.bases = l.prior.bases]
                OBVIOUS
            <4>2. s.readyAt = FALSE /\ s.lostAt = FALSE
                BY <4>1 DEF NoState
            <4>3. UNCHANGED <<overlays, writtenOn>> /\ state' \in {state, [state EXCEPT ![n] = s]}
                BY <1>0, <1>4, <2>1, <3>3, <4>1 DEF StopWrite, writePoolState, files
            <4> QED BY <3>1, <4>2, <4>3 DEF TypeOK
        <3> QED BY <3>2, <3>3
    <2>3. \A d \in Clients : d = c /\ cl'[d] = Idle /\ \A m : ~Launching(cl[d], m)
        BY <1>a, <2>2 DEF Orderly, TypeOK
    <2>4. FoundInv'
        BY <1>a, <2>1, <2>2, <2>3 DEF OrderlyInv, FoundInv, At, Nobody
    <2>5. HealthInv'
        <3>1. \A m \in Instances : (state[m].lostAt => state[m].readyAt) /\ TrueOf(state[m], m)
            BY <2>3 DEF OrderlyInv, HealthInv
        <3>2. ASSUME NEW m \in Instances PROVE (state'[m].lostAt => state'[m].readyAt) /\ TrueOf(state[m], m)'
            <4>1. CASE state'[m] = state[m]
                BY <2>2, <3>1, <4>1 DEF TrueOf
            <4>2. CASE state'[m] # state[m]
                BY <2>2, <4>2 DEF TrueOf
            <4> QED BY <4>1, <4>2
        <3> QED BY <3>2 DEF HealthInv
    <2>6. OverlayInv'
        BY <2>1, <2>2 DEF OrderlyInv, OverlayInv, Fresh, Up, Qemu, Nobody
    <2>7. ClientInv(Idle)'
        BY DEF ClientInv, Knows, Asks, BeforeSpawn, Idle
    <2> QED BY <2>3, <2>4, <2>5, <2>6, <2>7 DEF OrderlyInv
<1> QED BY <1>1, <1>2, <1>3, <1>4
(* The commands on the default emulator.                                     *)
LEMMA OrderlyDefault ==
    ASSUME Orderly, TypeOK, OrderlyInv, NEW c \in Clients, DefaultCommand(c) \/ Crash(c)
    PROVE  OrderlyInv'
<1>0. PICK l : l = cl[c] /\ l \in Locals /\ ClientInv(l)
    BY DEF TypeOK, OrderlyInv
<1>1. CASE BootRead(c)
    <2>1. UNCHANGED <<os, files, image, pidFile>> /\ cl[c].pc \notin {"start.record", "boot.record"}
        BY <1>1 DEF BootRead, At
    <2>2. PICK r : r = [Idle EXCEPT !.pc = "boot.pool"]
        OBVIOUS
    <2>3. CASE Live(pidFile)
        BY <1>1, <2>1, <2>3, OnlyFinish DEF BootRead
    <2>4. CASE ~Live(pidFile)
        <3>1. Nobody(DefaultEmulator)
            BY <2>1, <2>4, FileNames DEF At
        <3>2. ClientInv(r)
            BY <2>2, <3>1 DEF ClientInv, Knows, Asks, BeforeSpawn, Idle
        <3> QED BY <1>1, <2>1, <2>2, <2>4, <3>2, OnlyMoves DEF BootRead
    <2> QED BY <2>3, <2>4
<1>2. CASE BootCheckPool(c)
    <2>1. UNCHANGED <<os, files, image, pidFile>> /\ cl[c].pc \notin {"start.record", "boot.record"}
          /\ Nobody(DefaultEmulator) /\ \A n \in Instances : ~Launching(cl[c], n)
        BY <1>0, <1>2 DEF BootCheckPool, At, ClientInv, Knows, Launching
    <2>2. CASE livePool # {}
        BY <1>2, <2>1, <2>2, OnlyFinish DEF BootCheckPool
    <2>3. CASE livePool = {}
        <3>1. \A n \in Instances : Nobody(n)
            BY <2>1, <2>3, RecordNames DEF livePool
        <3>2. PICK r \in Locals : cl' = [cl EXCEPT ![c] = r] /\ r.pc = "boot.spawn"
            BY <1>2, <2>3, MovesOn DEF BootCheckPool, Labels
        <3>3. ClientInv(r)
            BY <2>1, <3>1, <3>2 DEF ClientInv, Knows, Asks, BeforeSpawn
        <3> QED BY <2>1, <3>2, <3>3, OnlyMoves
    <2> QED BY <2>2, <2>3
<1>3. CASE \E p \in Pids : BootSpawn(c, p)
    <2>1. PICK p \in Pids : cl[c].pc = "boot.spawn" /\ Spawn(c, p, DefaultEmulator, "boot.record")
        BY <1>3 DEF BootSpawn, At
    <2>2. \A n \in Instances \cup {DefaultEmulator} : Nobody(n)
        BY <1>0, <2>1 DEF ClientInv, Knows
    <2>3. /\ \A q \in Pids : owner'[q] = IF q = p THEN DefaultEmulator ELSE owner[q]
          /\ UNCHANGED <<state, overlays, writtenOn, image, pidFile>>
        BY <2>1, Spawned DEF Labels
    <2>4. PICK r \in Locals : cl' = [cl EXCEPT ![c] = r] /\ r.pc = "boot.record" /\ r.pid = p
        BY <2>1, SpawnMoves DEF Labels
    <2>5. \A d \in Clients : d = c /\ cl'[d] = r /\ \A n : ~Launching(cl[d], n)
        BY <2>1, <2>4 DEF Orderly, TypeOK, Launching
    <2>6. \A n \in Instances : Nobody(n)'
        BY <2>2, <2>3, ConstantTypes DEF Nobody
    <2>7. FoundInv'
        BY <2>4, <2>5, <2>6 DEF FoundInv, At, Nobody
    <2>8. HealthInv'
        BY <2>3, <2>5, <2>6 DEF OrderlyInv, HealthInv, TrueOf, Nobody
    <2>9. OverlayInv'
        BY <2>6 DEF OverlayInv, Nobody
    <2>10. ClientInv(r)'
        BY <2>2, <2>3, <2>4 DEF ClientInv, Knows, Asks, BeforeSpawn, Nobody
    <2> QED BY <2>5, <2>7, <2>8, <2>9, <2>10 DEF OrderlyInv
<1>4. CASE BootRecord(c)
    <2>1. l.pc = "boot.record" /\ pidFile' = l.pid /\ UNCHANGED <<owner, phase, state, overlays, writtenOn, image>>
        BY <1>0, <1>4 DEF BootRecord, At, os, files
    <2>2. PICK r \in Locals : cl' = [cl EXCEPT ![c] = r] /\ r.pc = "boot.window"
        BY <1>4, MovesOn DEF BootRecord, Labels
    <2>3. \A d \in Clients : d = c /\ cl'[d] = r /\ cl[d] = l
        BY <1>0, <2>2 DEF Orderly, TypeOK
    <2>4. \A p \in Pids : owner[p] = DefaultEmulator => p = l.pid
        BY <1>0, <2>1 DEF ClientInv, Knows
    <2>5. FoundInv'
        BY <2>1, <2>3, <2>4 DEF OrderlyInv, FoundInv, Launching, Nobody
    <2>6. HealthInv' /\ OverlayInv'
        BY <2>1, <2>3 DEF OrderlyInv, HealthInv, Launching, TrueOf, OverlayInv, Fresh, Up, Qemu
    <2>7. ClientInv(r)'
        BY <2>2 DEF ClientInv, Knows, Asks, BeforeSpawn
    <2> QED BY <2>3, <2>5, <2>6, <2>7 DEF OrderlyInv
<1>5. CASE BootWindow(c)
    BY <1>5, OnlyFinish DEF BootWindow, At
<1>6. CASE HaltRead(c) \/ HaltPkill(c)
    <2>1. PICK gone : End(gone)
        BY <1>6 DEF HaltRead, HaltPkill
    <2>2. UNCHANGED <<files, image, pidFile>> /\ cl[c].pc \notin {"start.record", "boot.record"}
        BY <1>6 DEF HaltRead, HaltPkill, At
    <2>3. PICK r : cl' = [cl EXCEPT ![c] = r] /\ r.pc \in {"halt.pkill", "halt.rm"} /\ (r.pc = "halt.rm" => HaltPkill(c))
        <3>1. CASE HaltRead(c)
            <4>1. PICK r : r = [Idle EXCEPT !.pc = "halt.pkill", !.pid = pidFile]
                OBVIOUS
            <4>2. r.pc = "halt.pkill"
                BY <4>1 DEF Idle
            <4> QED BY <3>1, <4>1, <4>2 DEF HaltRead
        <3>2. CASE HaltPkill(c)
            BY <3>2, MovesOn DEF HaltPkill, Labels
        <3> QED BY <1>6, <3>1, <3>2
    <2>4. FoundInv' /\ HealthInv' /\ OverlayInv'
        BY <2>1, <2>2, <2>3, EndIsFewer, FewerShared
    <2>5. HaltPkill(c) => \A n \in Instances \cup {DefaultEmulator} : Nobody(n)'
        <3> SUFFICES ASSUME HaltPkill(c) PROVE \A p \in Pids : owner'[p] \notin Instances \cup {DefaultEmulator}
            BY DEF Nobody
        <3>1. End({p \in Pids : Qemu(p)})
            BY DEF HaltPkill, Orderly
        <3> QED BY <3>1, ConstantTypes DEF End, Qemu, NoOne, DefaultEmulator
    <2>6. ClientInv(r)'
        BY <2>3, <2>5 DEF ClientInv, Knows, Asks, BeforeSpawn
    <2>7. \A d \in Clients : d = c /\ cl'[d] = r
        BY <2>3 DEF Orderly, TypeOK
    <2> QED BY <2>4, <2>6, <2>7 DEF OrderlyInv
<1>7. CASE HaltRemove(c)
    <2>1. l.pc = "halt.rm" /\ UNCHANGED <<owner, phase, state, overlays, writtenOn, image>>
          /\ cl' = [cl EXCEPT ![c] = Idle]
        BY <1>0, <1>7 DEF HaltRemove, At, os, files, Finish
    <2>2. \A n \in Instances \cup {DefaultEmulator} : Nobody(n)
        BY <1>0, <2>1 DEF ClientInv, Knows
    <2>3. \A d \in Clients : d = c /\ cl'[d] = Idle /\ cl[d] = l
        BY <1>0, <2>1 DEF Orderly, TypeOK
    <2>4. FoundInv' /\ OverlayInv'
        BY <2>1, <2>2 DEF FoundInv, OverlayInv, Nobody
    <2>5. HealthInv'
        BY <2>1, <2>3 DEF OrderlyInv, HealthInv, Launching, TrueOf
    <2>6. ClientInv(Idle)'
        BY DEF ClientInv, Knows, Asks, BeforeSpawn, Idle
    <2> QED BY <2>3, <2>4, <2>5, <2>6 DEF OrderlyInv
<1>8. ~Reinstall(c) /\ ~Crash(c)
    BY DEF Reinstall, Crash, Orderly
<1> QED BY <1>1, <1>2, <1>3, <1>4, <1>5, <1>6, <1>7, <1>8 DEF DefaultCommand
(* QEMU and the guest, and programs that have nothing to do with them.       *)
LEMMA OrderlyEnvironment ==
    ASSUME Orderly, TypeOK, OrderlyInv, NEW p \in Pids, Environment(p)
    PROVE  OrderlyInv'
<1>0. /\ \A d \in Clients : cl[d] \in Locals /\ ClientInv(cl[d]) /\ (cl[d].pc \in PoolLabels => cl[d].inst \in Instances)
      /\ cl' = cl
    BY DEF TypeOK, OrderlyInv, Environment, QemuUp, QemuExit, GuestReady, DefaultWrites, ForeignProgram
<1>1. CASE QemuExit(p) \/ ForeignProgram(p)
    <2>1. Fewer
        <3>1. CASE QemuExit(p)
            BY <3>1, EndIsFewer DEF QemuExit
        <3>2. CASE ForeignProgram(p)
            BY <3>2 DEF ForeignProgram, Fewer, TypeOK
        <3> QED BY <1>1, <3>1, <3>2
    <2>2. UNCHANGED <<files, image, pidFile>>
        BY <1>1 DEF QemuExit, ForeignProgram
    <2>3. FoundInv' /\ HealthInv' /\ OverlayInv'
        BY <1>0, <2>1, <2>2, FewerShared
    <2>4. ASSUME NEW d \in Clients PROVE ClientInv(cl[d])'
        <3>1. PICK l \in Locals : l = cl[d] /\ l = cl'[d] /\ ClientInv(l) /\ (l.pc \in PoolLabels => l.inst \in Instances)
            BY <1>0
        <3>2. ClientInv(l)'
            BY <2>1, <2>2, <3>1, FewerKnown
        <3> QED BY <3>1, <3>2
    <2> QED BY <2>3, <2>4 DEF OrderlyInv
<1>2. CASE QemuUp(p) \/ GuestReady(p)
    <2>1. UNCHANGED <<owner, state, image, pidFile, cl>>
        BY <1>2 DEF QemuUp, GuestReady, files
    <2>2. /\ Qemu(p)
          /\ \A q \in Pids : q # p => phase'[q] = phase[q]
          /\ phase[p] # "ready" /\ phase'[p] \in {"booting", "ready"}
        BY <1>2 DEF QemuUp, GuestReady, TypeOK, Up
    <2>3. \A n \in Instances : HasDir(n) => HasDir(n)'
        BY <1>2 DEF QemuUp, GuestReady, files, HasDir, TypeOK
    <2>4. FoundInv'
        BY <2>1 DEF OrderlyInv, FoundInv, Launching, At, Nobody
    <2>5. \A s, n : TrueOf(s, n) => TrueOf(s, n)'
        BY <2>1, <2>2 DEF TrueOf
    <2>6. HealthInv'
        BY <2>1, <2>5 DEF OrderlyInv, HealthInv, Launching
    <2>7. OverlayInv' /\ \A n \in Instances : Fresh(n) => Fresh(n)'
        <3>1. CASE QemuUp(p)
            <4>1. owner[p] \in Instances => overlays[owner[p]] \in {"clean", "written"}
                BY <3>1, ConstantTypes DEF QemuUp, MayComeUp
            <4>2. CASE owner[p] \in Instances /\ overlays[owner[p]] = "clean"
                <5>1. /\ \A n \in Instances : overlays'[n] = IF n = owner[p] THEN "written" ELSE overlays[n]
                      /\ \A n \in Instances : writtenOn'[n] = IF n = owner[p] THEN image ELSE writtenOn[n]
                    BY <3>1, <4>2 DEF QemuUp, TypeOK
                <5>2. \A n \in Instances : Fresh(n) => Fresh(n)'
                    BY <2>1, <5>1 DEF Fresh
                <5> QED BY <2>1, <2>2, <5>1, <5>2 DEF OrderlyInv, OverlayInv, Up, Qemu
            <4>3. CASE ~(owner[p] \in Instances /\ overlays[owner[p]] = "clean")
                <5>1. UNCHANGED <<overlays, writtenOn>>
                    BY <3>1, <4>3 DEF QemuUp
                <5> QED BY <2>1, <2>2, <4>1, <4>3, <5>1 DEF OrderlyInv, OverlayInv, Up, Qemu, Fresh
            <4> QED BY <4>2, <4>3
        <3>2. CASE GuestReady(p)
            BY <2>1, <2>2, <3>2 DEF GuestReady, files, OrderlyInv, OverlayInv, Up, Qemu, Fresh
        <3> QED BY <1>2, <3>1, <3>2
    <2>8. ASSUME NEW d \in Clients PROVE ClientInv(cl[d])'
        <3>1. PICK l \in Locals : l = cl[d] /\ l = cl'[d] /\ ClientInv(l) /\ (l.pc \in PoolLabels => l.inst \in Instances)
            BY <1>0
        <3>2. Knows(l)'
            BY <2>1, <2>3, <3>1 DEF ClientInv, Knows, Nobody, PoolLabels
        <3>3. Asks(l)'
            BY <2>1, <2>2, <2>5, <3>1 DEF ClientInv, Asks
        <3>4. ClientInv(l)'
            BY <2>7, <3>1, <3>2, <3>3 DEF ClientInv, PoolLabels
        <3> QED BY <3>1, <3>4
    <2> QED BY <2>4, <2>6, <2>7, <2>8 DEF OrderlyInv
<1>3. CASE DefaultWrites(p)
    <2>1. UNCHANGED <<owner, phase, state, overlays, writtenOn, pidFile, cl>> /\ owner[p] = DefaultEmulator
        BY <1>3 DEF DefaultWrites, os, files
    <2>2. ~Nobody(DefaultEmulator) /\ \A q \in Pids : owner[q] \notin Instances
        BY <2>1 DEF Nobody, OrderlyInv, FoundInv
    <2>3. FoundInv' /\ HealthInv'
        BY <2>1 DEF OrderlyInv, FoundInv, HealthInv, Launching, TrueOf, At, Nobody
    <2>4. OverlayInv'
        BY <2>1, <2>2 DEF OverlayInv
    <2>5. ASSUME NEW d \in Clients PROVE ClientInv(cl[d])'
        <3>1. Knows(cl[d])' /\ Asks(cl[d])'
            BY <1>0, <2>1 DEF ClientInv, Knows, Asks, TrueOf, Nobody, HasDir
        <3>2. cl[d].pc # "start.spawn"
            BY <1>0, <2>2 DEF ClientInv, Knows, BeforeSpawn
        <3> QED BY <2>1, <3>1, <3>2 DEF ClientInv
    <2> QED BY <2>3, <2>4, <2>5 DEF OrderlyInv
<1> QED BY <1>1, <1>2, <1>3 DEF Environment

LEMMA OrderlyStep ==
    ASSUME Orderly PROVE TypeOK /\ FingerprintInv /\ OrderlyInv /\ [Next]_vars => OrderlyInv'
<1> SUFFICES ASSUME TypeOK, FingerprintInv, OrderlyInv, [Next]_vars PROVE OrderlyInv'
    OBVIOUS
<1>1. ASSUME NEW c \in Clients, PoolCommand(c) PROVE OrderlyInv'
    BY <1>1, OrderlyStatus, OrderlyChecks, OrderlyOverlays, OrderlySpawn, OrderlyRecord, OrderlyStop DEF PoolCommand
<1>2. CASE UNCHANGED vars
    BY <1>2 DEF vars, OrderlyInv, FoundInv, HealthInv, OverlayInv, ClientInv, Knows, Asks, Launching, TrueOf,
       Fresh, Nobody, HasDir, At, Up, Qemu
<1> QED BY <1>1, <1>2, OrderlyDefault, OrderlyEnvironment DEF Next

LEMMA OrderlyAlways == ASSUME Orderly PROVE Spec => [](TypeOK /\ FingerprintInv /\ OrderlyInv)
<1>1. Init => FingerprintInv
    BY ConstantTypes DEF Init, FingerprintInv, Fits, At, Idle, NoState
<1>2. Init => OrderlyInv
    <2> SUFFICES ASSUME Init PROVE OrderlyInv
        OBVIOUS
    <2>1. \A p \in Pids : owner[p] \notin Instances \cup {DefaultEmulator}
        BY ConstantTypes DEF Init, NoOne, DefaultEmulator
    <2>2. HealthInv
        BY DEF Init, HealthInv, TrueOf, NoState
    <2>3. \A c \in Clients : ClientInv(cl[c])
        BY IdleKnows DEF Init
    <2> QED BY <2>1, <2>2, <2>3 DEF OrderlyInv, FoundInv, OverlayInv
<1> QED BY <1>1, <1>2, TypeCorrect, InvStep, OrderlyStep, PTL DEF Spec

------------------------------------------------------------------------------
(* What an orderly user can rely on                                          *)

(* Between commands, every running QEMU is the one that its record or the    *)
(* PID file names, and what a record says of the boot is true of it.         *)
THEOREM OrderlyRecordsAreTruthful == ASSUME Orderly PROVE Spec => []RecordsAreTruthful
<1>1. TypeOK /\ OrderlyInv => RecordsAreTruthful
    <2> SUFFICES ASSUME TypeOK, OrderlyInv PROVE RunningIsRecorded /\ HealthRecordTruthful
        BY DEF RecordsAreTruthful
    <2>1. RunningIsRecorded
        BY DEF RunningIsRecorded, Quiet, At, OrderlyInv, FoundInv, Launching
    <2>2. ASSUME NEW n \in Instances, Quiet, state[n].readyAt, isInstanceProcess(state[n].pid, n)
          PROVE  phase[state[n].pid] = "ready"
        <3>1. state[n].pid \in Pids /\ owner[state[n].pid] = n
            BY <2>2 DEF isInstanceProcess, isPidAlive, Live, Orderly
        <3>2. TrueOf(state[n], n)
            BY <2>2 DEF OrderlyInv, HealthInv, Quiet, At, Launching
        <3> QED BY <2>2, <3>1, <3>2 DEF TrueOf
    <2>3. \A n \in Instances : state[n].lostAt => state[n].readyAt
        BY DEF OrderlyInv, HealthInv
    <2> QED BY <2>1, <2>2, <2>3 DEF HealthRecordTruthful
<1> QED BY <1>1, OrderlyAlways, PTL

(* A running guest reads the images that its overlays were made on: the      *)
(* default emulator, which writes to them, never runs beside it, and a start *)
(* reuses only overlays whose fingerprint is that of the images.             *)
THEOREM OrderlyOverlaysMatch == ASSUME Orderly PROVE Spec => []OverlaysMatchBase
<1>1. OrderlyInv => OverlaysMatchBase
    BY DEF OrderlyInv, OverlayInv, OverlaysMatchBase, Fresh
<1> QED BY <1>1, OrderlyAlways, PTL
(* Only the two launches give a process to an emulator.                      *)
NoLaunch == \A p \in Pids : owner'[p] \in Instances \cup {DefaultEmulator} => owner'[p] = owner[p]

LEMMA OthersLaunchNothing ==
    ASSUME TypeOK, [Next]_vars,
           ~ \E c \in Clients, p \in Pids : StartSpawn(c, p) \/ BootSpawn(c, p)
    PROVE  NoLaunch
<1>1. ASSUME NEW gone, End(gone) PROVE NoLaunch
    BY <1>1, ConstantTypes DEF TypeOK, End, NoLaunch, NoOne, DefaultEmulator
<1>2. ASSUME owner' = owner PROVE NoLaunch
    BY <1>2 DEF NoLaunch
<1>3. ASSUME NEW c \in Clients, PoolCommand(c) PROVE NoLaunch
    <2>1. StopWait(c) \/ owner' = owner
        <3>1. StartWindow(c) => owner' = owner
            BY DEF StartWindow, writePoolState, os
        <3>2. StopWrite(c) => owner' = owner
            BY DEF StopWrite, writePoolState, os
        <3>3. StatusWrite(c) \/ StartRecord(c) => owner' = owner
            BY DEF StatusWrite, StartRecord, writePoolState, os
        <3> QED BY <1>3, <3>1, <3>2, <3>3 DEF PoolCommand, StatusRead, StatusProbe, StatusReread, StartRead, StartCheckDefault,
               StartCheckPorts, StartFresh, StartFingerprint, StartRemove, StartCreate, StartFails, StopRead, StopSignal, os
    <2> QED BY <1>1, <1>2, <2>1 DEF StopWait
<1>4. ASSUME NEW c \in Clients, DefaultCommand(c) \/ Crash(c) PROVE NoLaunch
    <2>1. HaltRead(c) \/ HaltPkill(c) \/ owner' = owner
        BY <1>4 DEF DefaultCommand, Crash, BootRead, BootCheckPool, BootRecord, BootWindow, HaltRemove, Reinstall, os
    <2> QED BY <1>1, <1>2, <2>1 DEF HaltRead, HaltPkill
<1>5. ASSUME NEW p \in Pids, Environment(p) PROVE NoLaunch
    <2>1. QemuExit(p) \/ ForeignProgram(p) \/ owner' = owner
        BY <1>5 DEF Environment, QemuUp, GuestReady, DefaultWrites, os
    <2>2. ForeignProgram(p) => NoLaunch
        BY ConstantTypes DEF ForeignProgram, NoLaunch, TypeOK, NoOne, Foreign, DefaultEmulator
    <2> QED BY <1>1, <1>2, <2>1, <2>2 DEF QemuExit
<1>6. CASE UNCHANGED vars
    BY <1>2, <1>6 DEF vars
<1> QED BY <1>3, <1>4, <1>5, <1>6 DEF Next

(* The commands of an orderly user keep the promise of EmulatorHost: nothing *)
(* is launched twice, and the default emulator and the pool stay apart.  The *)
(* processes of an emulator are those that the OS runs for it.               *)
THEOREM OrderlyHost == ASSUME Orderly PROVE Spec => OneEmulatorAtATime
<1> DEFINE Shown == [n \in Instances \cup {DefaultEmulator} |-> {p \in Pids : owner[p] = n}]
<1>1. Init => Host!Init
    <2> SUFFICES ASSUME Init PROVE \A n \in Instances \cup {DefaultEmulator} : {p \in Pids : owner[p] = n} = {}
        BY DEF Host!Init, Host!Emulators
    <2> QED BY ConstantTypes DEF Init, NoOne, DefaultEmulator
<1>2. ASSUME TypeOK, OrderlyInv, [Next]_vars PROVE [Host!Next]_Shown
    <2>1. CASE ~ \E c \in Clients, p \in Pids : StartSpawn(c, p) \/ BootSpawn(c, p)
        <3>1. \A n \in Instances \cup {DefaultEmulator} : {p \in Pids : owner'[p] = n} \subseteq {p \in Pids : owner[p] = n}
            BY <1>2, <2>1, OthersLaunchNothing DEF NoLaunch
        <3>2. Host!Exit
            BY <3>1 DEF Host!Exit, Host!Emulators
        <3> QED BY <3>2 DEF Host!Next
    <2>2. ASSUME NEW c \in Clients, NEW p \in Pids, NEW o \in Instances \cup {DefaultEmulator}, NEW l \in Labels,
                 Spawn(c, p, o, l), Nobody(o), Nobody(DefaultEmulator), o = DefaultEmulator => \A n \in Instances : Nobody(n)
          PROVE  Host!Next
        <3>1. owner[p] = NoOne /\ \A q \in Pids : owner'[q] = IF q = p THEN o ELSE owner[q]
            BY <1>2, <2>2, Spawned
        <3>2. Shown[o] = {} /\ Shown[DefaultEmulator] = {} /\ (o = DefaultEmulator => \A n \in Instances : Shown[n] = {})
            BY <2>2 DEF Nobody
        <3>3. Shown' = [Shown EXCEPT ![o] = {p}]
            <4>1. {q \in Pids : owner'[q] = o} = {p}
                BY <2>2, <3>1 DEF Nobody
            <4>2. \A n \in (Instances \cup {DefaultEmulator}) \ {o} :
                     {q \in Pids : owner'[q] = n} = {q \in Pids : owner[q] = n}
                <5> SUFFICES ASSUME NEW n \in (Instances \cup {DefaultEmulator}) \ {o}, NEW q \in Pids
                             PROVE  owner'[q] = n <=> owner[q] = n
                    OBVIOUS
                <5>1. n # NoOne
                    BY ConstantTypes DEF NoOne, DefaultEmulator
                <5> QED BY <3>1, <5>1
            <4> QED BY <4>1, <4>2
        <3>4. Host!Launch(o, p)
            BY <3>2, <3>3 DEF Host!Launch
        <3> QED BY <3>4 DEF Host!Next, Host!Emulators
    <2>3. ASSUME NEW c \in Clients, NEW p \in Pids, StartSpawn(c, p) PROVE Host!Next
        <3>1. PICK n \in Instances : n = cl[c].inst /\ cl[c].pc = "start.spawn" /\ Spawn(c, p, n, "start.record")
            BY <1>2, <2>3 DEF StartSpawn, At, TypeOK, PoolLabels
        <3>2. Nobody(n) /\ Nobody(DefaultEmulator) /\ n # DefaultEmulator
            BY <1>2, <3>1, ConstantTypes DEF OrderlyInv, ClientInv, Knows, BeforeSpawn
        <3> QED BY <2>2, <3>1, <3>2 DEF Labels, PoolLabels
    <2>4. ASSUME NEW c \in Clients, NEW p \in Pids, BootSpawn(c, p) PROVE Host!Next
        <3>1. cl[c].pc = "boot.spawn" /\ Spawn(c, p, DefaultEmulator, "boot.record")
            BY <2>4 DEF BootSpawn, At
        <3>2. Nobody(DefaultEmulator) /\ \A n \in Instances : Nobody(n)
            BY <1>2, <3>1 DEF OrderlyInv, ClientInv, Knows
        <3>3. "boot.record" \in Labels
            BY DEF Labels
        <3> QED BY <2>2, <3>1, <3>2, <3>3
    <2> QED BY <2>1, <2>3, <2>4
<1>3. TypeOK /\ OrderlyInv /\ [Next]_vars => [Host!Next]_Shown
    BY <1>2
<1> QED BY <1>1, <1>3, OrderlyAlways, PTL DEF Spec, OneEmulatorAtATime, Host!Spec
===============================================================================
