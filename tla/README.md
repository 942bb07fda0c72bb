# oniro-app-builder: a TLA+ verification of its stateful core

`oniro-app` is a command-line program (and an MCP server) that installs
OpenHarmony/HarmonyOS toolchains, runs emulators, signs in to HarmonyOS, creates,
builds and signs applications, and drives devices through `hdc`.  No daemon owns
its state: every command is a Node.js process of its own, and processes share
files under the user's directories, the processes of the host (QEMU, hdc) and the
device.  Two terminals, an agent beside a developer, Ctrl-C and a full disk are
therefore the normal environment of every read-modify-write the code does; and
half of the code reads what tools and devices print, cut off anywhere.

The modules here model those parts, one action per step that another process, a
failure or a kill can separate from the next, and the pure functions between them
as operators.  TLC checks them on small instances; TLAPS proves the most important
properties of twenty-two of them for every instance.  `PROJECT.json` maps every
definition to the lines it stands for.

Contents: 1 the system, 2 the modules, 3 the runs, 4 the proofs, 5 where the code
and its words part, 6 limits of the code, 7 what is not modelled, 8 the plan.

## 1. The system

### Who shares what

| State | Kept in | Written by | Read by |
| --- | --- | --- | --- |
| QEMU processes | the host's process table | `emulator start`, `stop` | every emulator command |
| `instance.json`, overlays | one directory per pool instance | `start`, `stop`, and the status probe | the same, `list` |
| PID file of the default emulator | the emulator directory | `start`, `stop` | pool starts too |
| base images | the emulator directory | `emulator install`, the default emulator's guest | every start |
| `token.enc`, `kek.bin` | the configuration directory | login, logout, and every load that meets trouble | everything that signs |
| toolchain, work directories | the tools' install directory | `cmdtools install`, `remove` | builds |
| SDK directories, scratch root | the SDK root | `sdk install`, `remove` | builds |
| keystore, certificate, profile | `~/.ohos/config`, AppGallery Connect | `sign --harmonyos` | builds, the next signing |
| `build-profile.json5`, `signatures/`, HAPs | the project | `create`, `sign`, builds, the user | builds, `sign`, `verify`, `install` |
| installed bundles, processes, fault logs, recorder files, the trace session | the device | apply, launch, tests, flows, captures; the device itself | every device command |
| the hdc server and its sessions | one server per host | `wait`, `reboot` (restart) | every device command |
| `credentials.json` | the configuration directory | `store login`, `logout` | `store publish`, `register-release` |
| JSON-RPC lines in progress | one MCP server process | the server | its client |

No file has a lock.  Some are written by rename, most in place.

### Components

`PROJECT.json` lists them with their sources and how much of each is modelled.
For each: its state, its operations, what makes it hard, what it must guarantee.

* **Emulator pool and default emulator** (`emulator/*.ts`).  State: above, first four
  rows.  Operations: start, status, stop of a numbered instance; start and stop of the
  default emulator; installation of the images.  Hard: PIDs are recycled, QEMU dies on
  its own, overlays are only valid on the images they were made on, a status probe
  writes.  Must: find what it launched, kill nothing else, never run a guest on
  overlays of other images, tell "still booting" from "hdc lost it".
* **HarmonyOS sign-in** (`harmonyos/auth/callbackServer.ts`, `session.ts`).  State:
  the loopback listener, the pending promise, the reader of pasted lines.  Hard:
  the browser, the paste and the timeout race while the token is exchanged.  Must:
  decide once, save only what was decided, end, and leave no port open.
* **Stored session** (`tokenStore.ts`, `session.ts`).  State: two files, the
  service's idea of the JWT.  Operations: login, `getUserInfo` under most commands,
  logout.  Hard: processes overlap and die between two file operations; load
  deletes.  Must: a stored token can be decrypted, a good session is not dropped,
  what a command said is what the next one finds.
* **Automatic signing** (`harmonyos/signing/*.ts`): key, certificate, devices and
  profile are made in order on disk and at AppGallery Connect, and reused while
  valid.  Hard: a failure between any two; two projects of one team, which share one
  certificate.  Must: what is reused can sign.
* **OpenHarmony signing and projects** (`sign/*.ts`, `project/*.ts`): create a project
  from a template, prepare its signing material, sign and verify HAPs.  State: the
  project's files.  Hard: half-done steps are the input of the next command; bundles
  are renamed between; certificates, chains and profiles have orders and dates.  Must:
  what is signed is for this bundle and verifies, and a verdict is true.
* **Command-line tools** (`cmdTools/install.ts`) and **SDK** (`sdk/*.ts`).  Operations:
  install (stage, park, place, undo) and remove; download with abort, extract, replace
  one API level's directory.  Hard: any rename may fail, also in the undo; kills; a
  scratch root that installs share.  Must: all or nothing, lose nothing.
* **Child processes** (`hdc/exec.ts`): abort, timeout, error and close race to settle
  one promise, while a grandchild may hold the pipes.  Must: settle once and with the
  first cause, leave no process.
* **Applying, launching, judging** (`install/apply.ts`, `hdc/app.ts`, `smoke.ts`) and
  **waiting and rebooting** (`hdc/wait.ts`, `lifecycle.ts`).  State: the device and the
  hdc session.  Hard: the device changes between any two calls, hdc exits with 0 on
  failure, a session survives its device.  Must: report success only for a program
  that runs with its own assets, reboot when needed, never brick a device, use up
  no deadline on a dead session.
* **Build** (`build/*.ts`): dependencies, hvigor and its abort, the diagnostics in its
  output.  Hard: parallel tasks, problems printed twice, blocks of lines, a process that
  starts others.  Must: tell each problem once, and none that was not printed.
* **Tests on a device** (`testing/*.ts`) and **performance traces** (`perf/*.ts`).  State:
  HAPs on disk, the device's bundles, screen timeout, trace session and profiler.  Hard: a
  pipeline of a dozen calls that fail one by one, output that stops anywhere, ring
  buffers that lose their head.  Must: a pass is a whole run of what was built, figures
  are those of the trace, the device is given back.
* **Flows** (`flow/*.ts`): a recorder process on the device; gestures and typing become
  steps with selectors; a replay waits, acts, and waits for an effect.  Hard: dumps
  show the screen before, the keyboard moves what is below it.  Must: replay what was
  recorded, tap what is named, leave nothing running.
* **UI tree** (`hdc/dump.ts`, `selector.ts`, `xpath.ts`, `layoutQuery.ts`, `layoutDiff.ts`):
  pure algorithms on trees and their small languages.  Must: mean what they say.
* **Logs** (`hdc/hilog.ts`, `cli/lib/logBundle.ts`): follow a stream that dies and is
  respawned with the device's buffer, while clocks step; collect a bundle from sections
  that fail.  Must: no loss, nothing old taken for new, no unredacted file in an archive.
* **Fault logs** (`faultlog/*.ts`): the newest fault on a device that still writes it; the
  kind of a text; who waits for whom in a freeze.
* **MCP server** (`cli/src/mcp/protocol.ts`, `commands/serve.ts`).  State: the lines in
  progress, the agreed version.  Hard: lines and batches overlap, stdin may close and
  stdout break at any time.  Must: answer each request once and whole, in any order,
  and exit owing nothing.
* **App store client** (`cli/commands/store.ts`).  State: `credentials.json` with one
  token per store.  Operations: login, logout, publish, register a release on GitHub.
  Hard: other publishers and jobs act between a question and the request it is for;
  an answer may be lost after the store has acted.  Must: send a token only to the store
  that issued it, register what was asked for, and say what happened.
* **Screen inventory** (`screens/*.ts`): which pages a project's sources declare, what each
  renders and where it leads; a specification checked against that.  Must: miss no page,
  count what is rendered, and judge a specification by the sources.
* **MCP tools, API index and documentation, image comparison, doctor, command line**:
  section 7.

### How they interact

Commands call core operations; `apply` calls waits, launch and smoke check; `test`
builds, installs and reads a log; a capture replays a flow; signing calls the
session; every device operation goes through `runProcess`.  Separate processes meet
only in the files and on the device.  So the compositions that matter are: many
processes over one component's files (each module below has that built in), a
command over a device that changes, and a recording whose flow another command
replays.

## 2. The modules

One action is what one process does between two points where another process, a
callback, a failure or a kill can come in: an `await`, or one access to a shared
file.  What is computed between two such points is an operator.

| Module | Models | State in the code |
| --- | --- | --- |
| `EmulatorPool` | `emulator/*.ts`, processes as clients | `owner`, `phase`: process table; `state`: `instance.json`; `overlays`, `writtenOn`: overlay files and what lies beneath them; `image`: fingerprint of the base images; `pidFile`; `cl`: each client's step and locals |
| `EmulatorHost` | what those commands promise about QEMU processes | abstract; `EmulatorPool` implements it |
| `LoginCallback` | one `auth login` on its event loop | `promise`, `settled`, `reader`, `server`, `request`: the closures of `startCallbackServer` and `login`; `saved`: the store |
| `HarmonyOsSession` | token store and its users, as processes | `tokenFile`, `keyFile`, `writing` (open descriptors); `live`, `issued`: the service; `denied`: permissions |
| `AutoSign` | `harmonyOsAutoSign` of projects of one team | `cmd`: label and locals; `onDisk`, `profile`, `config`: the files of `~/.ohos/config` and `signingConfigs`; `agc`: the certificate and devices at AppGallery Connect; `connected`: devices |
| `OhosSigning` | create, prepare, sign, verify of one project | `proj`: its files; `haps`: built and signed; `task`: the command, its label and locals; `temps`: its temporary directory and file |
| `CmdToolsInstall` | install and remove as file operations | `made`, `at`: directories and the files in each; `cl`: pc, `createdTarget`, the loops of `swapInto` |
| `ToolsDirectory` | what an install promises | abstract; `CmdToolsInstall` implements it |
| `SdkInstall` | SDK installs as processes | `at`: labels; `sdk`: the SDK's directory; `work`, `scratch`, `tar`, `unpacked`: each install's scratch directory and what is in it; `root`: `.oniro-tmp`; `abort` |
| `StorePublish` | store commands of one publisher | `cli`: each command's label, arguments and what it said; `creds`: `credentials.json`; `shop`, `release`: the store, GitHub |
| `RunProcess` | one command through `shellChecked`, `hdcExec`, `runProcess` | `host`: platform; `remote`: what the device says; the child, its grandchild, pipes, timer, abort, and the promise |
| `HilogStream` | `waitForLog`, `watchLog`, `captureLog` | `log`, `held`, `device`: the device's log, buffer and clock; `stream`, `buf`: the child and the unfinished line; `since`: the cutoff; `got`: results |
| `LogBundle` | `collectLogBundle` | `bundle`: label, sections, clock, window; `disk_`: directories, archive, manifest |
| `ApplyChanges` | one device command, and the device | `up`, `installed`, `cached`, `proc`, `ran`, `crash`: the device; `link`: the hdc session; `run`: the command's locals |
| `HapBuild` | a build and its report | `hap`: command; `hvigor`, `blocks`: its processes, the kill on its way to them, and what they printed; `report` |
| `TestRun` | `runTests` | `test`: command; `built`: HAPs on disk; `phone`; `printed`, `runner`: `aa test`; `parsed`; `bundleLog` |
| `PerfCapture` | `perfTrace` | `capture`: its locals; `phone_`: trace session, profiler, screen, files; `lost`: answers that were lost |
| `TraceReader` | hitrace's text and its reading | `trace`: markers written; `dropped`: lost from the buffer; `captured`: slices |
| `FaultLog` | `latestCrash`, `listFaultLogs`, `classifyFaultLog` | `records`, `logs`: crash records and faultlogs on the device; `search`: the command |
| `BinderChain` | `binder.ts` | `caught`: the calls of a freeze log |
| `FlowDevice` | the device of a flow | `dev`: what it shows; `old`: what dumps still show; `lock`, `held`; `failed`: the calls that threw or were refused |
| `FlowRecord` | `record` | `rpc`, `pid`, `rrestore`: the command; `recorder`, `touchLog`: what it started |
| `FlowRecording` | `flowFromRecording` | operators |
| `FlowReplay` | `replay`, and what `parseFlow` accepts | `flow`, `pc`, `index`, `seen`, `target`, `report`, …: `replayFlow`'s locals |
| `ElementTarget` | which element a command means | operators |
| `LayoutTree`, `Selector`, `XPath`, `LayoutDiff` | dumps, covered nodes, selectors, XPath, differences | operators |
| `ScreenInventory` | `inventoryScreens`, `checkScreensAgainstSpec` | operators |
| `McpServer` | one server, its client and its pipe | `replies`: the promises per line; `version`; `written`, `flushed`: stdout; `pc`: `serveStdio` |
| `EmulatorPoolProofs`, `SigningProofs` (of `HarmonyOsSession`, `LoginCallback`, `AutoSign` and `OhosSigning`), `DeviceProofs` (of `ApplyChanges`, `PerfCapture` and `TestRun`), `CommandsProofs` (of `RunProcess`, `HilogStream` and `SdkInstall`), `SharedFilesProofs` (of `CmdToolsInstall` and `StorePublish`), `McpServerProofs`, `FlowProofs` (of `FlowDevice`, `FlowRecord` and `FlowReplay`), `ReportProofs` (of `TestRun`, `HapBuild`, `TraceReader`, `BinderChain`, `FaultLog` and `LogBundle`) | theorems and their proofs | |
| `MCCommands`, `MCDevice`, `MCSharedFiles` | commands that share no state, side by side | `command`: which one |
| `MCFlow`, `MCScreen`, `MC…` | the app and gestures of a flow; dumps, texts and projects; symmetry, archives, lines | |

Definitions keep the source's names (`isInstanceProcess`, `writePoolState`,
`decideReboot`, `selectTools`, …).  The operators `X_Word` beside a definition `X`
are mutants of it, the bug each stands for in its comment: with the mutant in
place of the definition, the property that `PROJECT.json` names must fail.

### EmulatorPool

A start reads the record, checks the default emulator and the ports, fingerprints the
images, makes or reuses the overlays, spawns, records the PID and watches for an early
exit (`StartRead` … `StartWindow`); a status probe reads, probes, re-reads and
writes (`StatusRead` … `StatusWrite`); a stop reads, signals, waits and writes
(`StopRead` … `StopWrite`); `Boot*` and `Halt*` are the default emulator.  QEMU is
external: it takes ports and image locks when it comes up (`QemuUp`), or exits.
`StopWait` is the SIGTERM, the wait and the SIGKILL at the deadline in one.  The host is
Linux: elsewhere `isInstanceProcess` looks at liveness only.  `DirNamedBy` is
the substring test of `state.ts` on directory names that end in a number.
The fingerprint is a counter of the images' changes: sizes and mtimes of different
images are taken to differ.

### LoginCallback

`Get`, `Post` with `BodyEnd`, `Paste` and `Timeout` compete; `settle` is the continuation
that the first of them runs; `Exchange`, `Validate`, `Save` and `Stop` follow it while
further requests still arrive.  A callback is what distinguishes it: whose `code`
it carries, whether the user quit, whether it is complete.

### HarmonyOsSession

`writeFileSync` is two actions, the open that truncates and the write, since a process
can be killed, and another can read, in between.  A descriptor whose file was
unlinked writes to nowhere (`writing`).  A file is `Absent`, `Torn` or a blob with
the key that made it.

### AutoSign and OhosSigning

`AutoSign`: every request to AppGallery Connect and every write is a step at which the
command may fail or be killed.  A key stands for the pair, its password and whatever was
issued for it, so material agrees when it names one key.  The certificate belongs to the
team: signing a second project replaces it.

`OhosSigning`: one project folder over a few commands in any order, the user's builds and
renamings between them.  A copy or a removal that is cut off leaves nothing, or all files
but one.  The profile carries the bundle it was issued for and its dates; a chain is the
certificates in the order of the file; a killed command's temporary names are never
looked for by another.

### CmdToolsInstall, SdkInstall, StorePublish

`CmdToolsInstall`: each rename, removal and directory is an action, and may fail while
faults are left (`MaxFaults`).  `Fetch` is download, extraction and the search in the
archive.  The install directory is `Target`, work directories lie in it; `Kept` is where
`KeepParked` puts what could not be restored.

`SdkInstall`: an SDK is a set of <<component, install>>, so that a mixture shows.  The abort
listener of a download that has ended may remove the archive while it is unpacked;
`.oniro-tmp` is removed by whoever finds it empty.

`StorePublish`: a request does not arrive, or is carried out (or refused) and its answer
arrives or not; a timed-out POST is told as "check before retrying".  The store's own
checks, GitHub and its releases are external.  One bundle is enough: commands for two
meet only in the credentials file.  The temporary file of `writeCredentials` is left out.

### ApplyChanges

The command's steps are its hdc calls; between any two the device may start, lose,
crash, reboot or disconnect (`Device`).  `TakeHap` is the bundle manager: it stops the
application, except a persistent one, and leaves the asset cache as it was.
`decideInstallMethod` sees the signature mismatch through the manager's answer, as
the code does; whether asset paths changed, whether the HAP is the bundle's and
whether the bundle is a system one are inputs.

### RunProcess, HilogStream, LogBundle

`RunProcess`: a kill lands some time after it was sent, and `close` comes when the child is
dead and nobody holds the pipes.  An exit code travels as the marker that `shellChecked`
appends, which a device that is cut off never prints.

`HilogStream`: a line is two pieces, so that a stream can die between them.  A new stream
starts with the device's buffer (`held`) and the filter it was given; the cutoff
`since` is computed from a clock that a reboot may reset.  The buffer is younger than a
year (hilog prints none).

`LogBundle`: sections run one by one and may fail; the window is cut by the clocks read
before and after; the undo's own removals succeed.

### HapBuild, TestRun, PerfCapture, TraceReader

`HapBuild`: hvigor prints blocks of lines of tasks that run in parallel; the reader is the
code's state machine over lines.  hvigor is `hvigorw` and what that starts, which end when
they like; the pipes close when both have ended.  An abort sends a kill and waits for nothing;
`killProcessTree` is its arrival, at the whole tree on Windows and at the spawned process
elsewhere.  `TestRun` prints the transcript of a suite line by line
and cuts it anywhere; the call that gives the screen back may fail or be refused, which
`power.ts` swallows.  `PerfCapture` lets any hdc call throw before or after the device
has obeyed; the histories `lost` and `since` say what the device did that the command
cannot know.  `TraceReader` interleaves the scripts of threads under their causal order,
drops a prefix (the ring buffer) and stops anywhere; threads do not migrate between CPUs and
timestamps are unique.

### FaultLog and BinderChain

Records and faultlogs are times of faults; hiview turns one into the other between any two
calls.  `KindIsTrue` ranges over every set of the lines that the classifier looks for.
`BinderChain` grows the caught calls one at a time; the order in which the code's own walk
reports chains is not kept, only which it reports.

### Flows

`FlowDevice` is the app, the keyboard, the lock screen and the time a change of screen
takes: at most one dump after it may still show the old screen.  `FlowRecord` and
`FlowReplay` are the two commands, over the same device one after the other;
`FlowRecording` turns what was recorded into steps, `ElementTarget` picks elements as `dump.ts`
does.  `parseFlow` turns away what cannot be run; no flow that was
recorded is (deadlock is checked, and `RunFlow` is guarded by it).  The user is slow: the next gesture comes when the screen has been dumped (the
recorder waits for about three seconds).  A call goes wrong in two ways.  It throws, or hdc
refuses it (`[Fail]`): `record` calls `shell()`, which resolves for any exit code, so what a
refused call makes of each step is modelled there, and every other caller throws on it.
Neither was run, but for a hold of the screen, which may have been obeyed unheard.
`uitest` dumps no screen while a recorder runs, so `RunFlow` waits for one that was left to end.
After the Back that dismisses a keyboard the screen is taken to be at rest
(`PressBack`): the code waits `KEYBOARD_SETTLE_MS`, 400 ms, less than `settleMs`, and does not
confirm the dump that follows.

### LayoutTree, Selector, XPath, LayoutDiff, ScreenInventory

Operators, each compared with a definition that uses none of the code's stacks, scanners
or orders of search: covered nodes with the painting order, written selectors with reading
them back, an XPath with the selector of the same clause, a difference with the one node
that was added, an inventory with the closure of who renders whom.  A walk of a tree is
a recursive function of the path it has taken, so that proofs may be about what uses it.
Windows are in
painting order with the keyboard's last.  In `ScreenInventory` a source file is what the
scanner leaves of it: declarations, each with the calls of its block in order; constants
are resolved already, and the placeholder texts are left out.

### McpServer

A line is a batch of one or more messages; everything up to a tool's first await
happens in `ReadLine`; `ToolEnds` is any tool's end, `AnswerLine` the end of
`Promise.all`, `Flush` the pipe.  Protocol versions are "old" (before 2025-06-18, without
structured content) and "new".

### MCCommands, MCDevice, MCSharedFiles

These put machines that share no state side by side: the variable `command` chooses
one in the initial state, and the others keep one initial value.  A run is then the union
of the machines' state spaces, never their product, and each property is about one of
them.

## 3. The runs

| Run | Question | Instance and why it suffices |
| --- | --- | --- |
| `pool_one` | Do commands one after the other keep every QEMU recorded, guests on their own images, stops to their own process, and implement `EmulatorHost`? | two instances, the default emulator, two PIDs (so PIDs are recycled, also by a foreign program), two image versions.  One client: commands overlap with QEMU and its guests, not with each other |
| `pool_shared` | Do fingerprints stay sound when two processes work on one instance and crash, and images are replaced? | two clients separate a read from a write; three image versions are old, recorded and new |
| `pool_prefix` | (violation) Is a recycled PID never mistaken? | instances 1 and 10 |
| `session_race` | (violation) Do overlapping commands keep a good session? | two clients |
| `tools_install` | After kills and failed removals, is a completed install of the tools exact?  Is what store commands say of sign-ins and publications true? | two installs, two faults: one in the swap and one in its undo.  Two store commands, the three kinds of release (listed, paged, draft), two assets a page and two pages: the asset asked for is on the first, the second or none |
| `tools_overlap` | (violation) Does a failing install spare one that overlaps? | two installs |
| `device` | For each command that builds for, drives or reads a device: is what it reports what happened, is what it computes from what it read true, is a device given back after a test run or a capture, is a change taken and a system bundle safe? | four processes of the bundle (before, after the installation, after the reboot, after a crash), four polls per wait, one more than it takes to restart the hdc server; three blocks of hvigor output, so that two tasks overlap round a third, of which the last six lines are kept, so that a block is cut; one throw in a capture, anywhere; four caught binder calls, enough for a cycle with a tail; two faults and one look beyond the first |
| `commands` | The same for the commands of the host: logs, one hdc command, SDK, signing of both kinds, the session, sign-in, tools | per machine: one reboot and one drop of the stream; two SDK installs of which one is from an archive; two projects of one team and one device; two commands over one project; two tokens and two keys; two requests and two pasted lines; three faults in an install (swap, undo, `KeepParked`) |
| `sign_killed` | (violation) Does a signing that is cut off leave material that agrees? | one project, three runs |
| `mcp` | Are requests answered once, whole, independently of each other, and is nothing lost at the end? | three lines, so that two overlap and a third comes between; lines that together reach every branch of the dispatch |
| `flow` | Does a replay do what was recorded, does a tap land on what it names, is nothing left running, are events pulled from a recorder that has ended? | an app of four pages with two rows that look the same, three gestures, one failed call, two polls; a screen counts as settled after two dumps and times out after three |
| `screen` | Do the pure functions about screens mean what they are for? | all trees of three nodes below the root, of nine kinds; selector texts of four characters, alone and after the beginnings in `Begun`: a quotation, a first clause, a quoted clause (so second clauses, and quoted values with an index, are reached); projects of three declarations over three files of two modules with up to four statements: enough for a cycle, a shared component and two declarations of one name |

`Settled` in `ApplyChanges` (constant `Unsettled = FALSE`) is an assumption of `device`: while
`apply` has yet to install, the bundle's process neither starts nor dies and the
connection holds.  `SigningChanges = FALSE` is another: whether a project is signed does
not change between two builds of a test run.  Section 6 says what happens without them.

**Fairness.**  `pool_one`: weak fairness of each client's own steps (Node runs a
command to its end); QEMU and guests owe nothing.  `commands`: weak fairness of a sign-in's
`Progress` (timers fire, the HTTP client has a timeout); browser and user owe nothing, and
neither do the other machines.  `mcp`: weak fairness of the server's own steps and of the
pipe while somebody reads it; tools may run for ever and clients owe nothing.  `flow`
states weak fairness of the two commands' own steps and of the recorder's start; its
properties are safety.  Every other run checks safety only, under no fairness.

**Deadlock** is checked in the pool runs and in `flow`, where something can always move.
The others may stop: one command, a bounded number of installs, tokens or lines.

## 4. The proofs

TLAPS checks every theorem to its last leaf, for every value of the constants that
satisfies the assumptions of the component's module: sets of clients, PIDs, instances,
installers, files, components and tokens are arbitrary, also infinite, and so are the
numbers of lines, reboots, polls and messages; the suites of a test, the scripts of the
threads that write a trace and the processes in a freeze are any.  What a theorem assumes beyond that is in
its statement.  Each inductive invariant was checked by TLC on the run's instance before
it was proved.

| Module | Theorem | Property (run) | Assuming | By |
| --- | --- | --- | --- | --- |
| `EmulatorPoolProofs` | `TypeCorrect` | `TypeOK` | | one lemma per group of commands |
| | `FingerprintIsSound` | `FingerprintSound` (`pool_shared`) | | `FingerprintInv` |
| | `StopSparesWithoutPrefixes` | `StopSparesOthers` (`pool_one`) | no number is a prefix of another | `TypeOK` |
| | `OrderlyRecordsAreTruthful` | `RecordsAreTruthful` (`pool_one`) | `Orderly` | `OrderlyInv` |
| | `OrderlyOverlaysMatch` | `OverlaysMatchBase` (`pool_one`) | `Orderly` | `OrderlyInv` |
| | `OrderlyHost` | `OneEmulatorAtATime` (`pool_one`) | `Orderly` | `OrderlyInv` |
| `SigningProofs` | `TypeCorrect` | `TypeOK` | | |
| | `KeyedTokenReadable` | `TokenReadable` (`commands`) | a key exists | `KeyedInv` |
| | `SingleTokenReadable` | `TokenReadable` (`commands`) | one client | `SingleInv` |
| | `SingleOutcomeIsTrue` | part of `SessionsAreTold` (`commands`) | one client | `SingleInv`, `ToldInv` |
| | `SingleSessionIsKept` | `LiveSessionsAreKept` (`commands`) | one client, no `keysParent` problem | also `DiscardInv` |
| | `SignInOutcomeIsTrue` | part of `SessionsAreTold` (`commands`) | | `SignInInv` |
| | `SignInLeavesNothing` | part of `SessionsAreTold` (`commands`) | | `SignInInv` |
| | `SignedMaterialIsSound` | `SignedMaterialAgrees`, part of `SigningIsSound` (`commands`) | `~LosesConfig` | `SignInv` |
| | `ProjectIsSound` | the rest of `SigningIsSound` (`commands`) | | `ProjectInv` |
| | `SignInsAreTold` | `SessionsAreTold` (`commands`) | one client | the above, `Alone` |
| | `SigningsAreSound` | `SigningIsSound` (`commands`) | `~LosesConfig` | the above, `Alone` |
| `DeviceProofs` | `TypeCorrect` | `TypeOK` | | `TypeInv` |
| | `SuccessInstalls` | `SuccessIsInstalled` (`device`) | | `InstalledInv` |
| | `DeviceSpared` | `DeviceIsSpared` (`device`) | | `TypeInv`, `InstalledInv` |
| | `ChangeIsTaken` | `TookChange` (`device`) | `~Unsettled` | `SettledInv` |
| | `PassedStaysUp` | `SmokePassedStayedUp` (`device`) | `~Unsettled` | `SettledInv` |
| | `CaptureGivesBack` | part of `DeviceIsGivenBack` (`device`) | | `CaptureInv` |
| | `CaptureIsMeasured` | part of `ReportsAreTrue` (`device`) | | `CaptureInv` |
| | `TestGivesBack` | part of `DeviceIsGivenBack` (`device`) | | `TestInv` |
| `ReportProofs` | `ReportIsTheRunner` | part of `ReportsAreTrue` (`device`) | | `TranscriptInv` |
| | `PassIsWhole` | part of `ReportsAreTrue` (`device`) | `~SigningChanges` | `TranscriptInv`, `PassInv` |
| | `TraceReadWhole` | part of `ReportsAreTrue` (`device`) | | `TraceInv`, `ParserInv` |
| | `ReportsTellTheTruth` | `ReportsAreTrue` (`device`) | `~SigningChanges` | the above, `SideBySide` |
| | `ChainIsTold` | part of `EvidenceIsTrue` (`device`) | | `WalkInv`, `WithinIs` |
| | `NewestIsFound` | part of `EvidenceIsTrue` (`device`) | | `SearchInv` |
| | `KindIsTold` | part of `EvidenceIsTrue` (`device`) | | `SearchInv` |
| | `BundleIsHonest` | part of `EvidenceIsTrue` (`device`) | | `BundleInv` |
| | `WindowIsMeant` | part of `EvidenceIsTrue` (`device`) | | `WindowInv`, `ReadInv` |
| | `EvidenceTellsTheTruth` | `EvidenceIsTrue` (`device`) | | the above, `SideBySide` |
| | `DeviceComesBack` | `DeviceIsGivenBack` (`device`) | | `CaptureGivesBack`, `TestGivesBack`, `SideBySide` |
| `CommandsProofs` | `CallTellsTheTruth` | `CallIsSettled` (`commands`) | | `ExecInv` |
| | `LogCallsAreSound` | `LogIsSound` (`commands`) | | `LogInv` |
| | `NoRecentLineIsMissed` | `RecentIsFound` (`commands`) | | `LogInv` |
| | `SdkStaysSafe` | `SdkIsSafe` (`commands`) | | `SdkInv` |
| | `OldSdkOutlives` | `OldSdkOutlivesFailures` (`commands`) | | `SdkInv` |
| `SharedFilesProofs` | `TypeCorrect` | `TypeOK` | | |
| | `CompletedInstallsAreExact` | `ToolsAreExact` (`tools_install`) | no overlap | `InstallInv` |
| | `FailedInstallsAreUndone` | `FailureRestores` | no overlap, removals succeed | `AtomicInv` |
| | `InstallIsAtomic` | `AtomicInstall` (part of `ToolsAreAtomic`, `commands`) | also no kill, nothing kept | `AtomicInv` |
| | `StoreTellsTheTruth` | `StoreIsTold` (`tools_install`) | | `StoreInv` |
| `McpServerProofs` | `AnswersComplete` | `AnswersAreComplete` (`mcp`) | | `McpInv` |
| | `AnswersFit` | `AnswersFitTheClient` (`mcp`) | | `McpInv` |
| | `NothingIsOwedAtTheEnd` | `ExitsWithNothingOwed` (`mcp`) | | `McpInv` |
| `FlowProofs` | `NothingIsLeftRunning` | `NothingLeftRunning` (`flow`) | | `FlowInv` |
| | `InputsLandOnTheirSteps` | `InputsMeanTheirSteps` (`flow`) | `SettlingCoversMotion`, `NoKeyboardOnLockScreen` | `FlowInv` |
| | `PassedReplaysAreDone` | `PassedMeansDone` (`flow`) | | `FlowInv` |

None of the properties is inductive as it stands.  What is needed beside each:

* **Pool, overlapping.**  A record may be copied by a client, wait there, and be written
  back later.  `FingerprintInv` says of every record, on disk or in a client's hands, that
  its fingerprint is no newer than the images and than what is written in the overlays
  (`Fits`).  Fingerprints only grow, so a recorded one that equals the images leaves no
  room for overlays on others; a start that is about to delete the old overlays is the one
  exception.
* **Pool, one command at a time.**  `Orderly` is the situation of `pool_one` (one client,
  no kill, the images stay, QEMUs go when they are told, no prefixes): without it the
  records are wrong, as `pool_prefix` and section 6 show.  `FoundInv` says that a running
  QEMU is named by its record or by the command that has just launched it, `Knows` and
  `Asks` what a command has checked and will still hold when it acts, `HealthInv` and
  `OverlayInv` what records and overlays say.  A foreign program may still take a PID at any
  time, and a guest come up or die.  `OrderlyHost` is the step simulation of `EmulatorHost`.
* **Session.**  `KeyedInv`: nobody makes a key, and what is about to be written uses the one
  there is.  `SingleInv`: a client makes a key only where none is, and so no token.
  `ToldInv`: between its load and its end a command knows what is stored.  A token that
  cannot be decrypted is discarded; `DiscardInv` says that this is no good session, which
  needs a directory above the keys that can be searched: otherwise `ensureDir` fails and
  the session is dropped (section 6).  One client, because `session_race` shows what two do.
* **Sign-in.**  `LoginInv`: an accepted callback is held exactly while it is exchanged,
  validated and saved, and a login that waits has accepted none, so a late callback finds
  either a login that waits or one that is settled.  `SignInInv`: requests are read only
  while the server listens, and whatever returns has closed it.
* **Signing.**  `MaterialInv`: a profile is on disk only with the certificate and the
  keystore it was issued for, but while it is verified and written (that is what
  `LosesConfig` would leave behind, and `sign_killed` shows); `DevicesInv` carries the
  connected devices from their registration to the profile.  Another project may delete
  the team's certificate between any two steps: what was issued still agrees with itself.
* **Projects.**  `CreateInv` is what a creation that is under way has checked and written;
  `GenerateInv` that the template, then the profile on disk, is the one due: of the
  project's bundle and the chain that was read (`Due`).  `TempsInv` says where a command
  is that holds something in the temporary directory.  Nobody edits a project while a
  command of its own runs, and between commands all that is claimed is what
  the last one left.
* **Store.**  `CredentialInv`: every token of the file was issued by the store it is filed
  under, also in what a command has read and not yet written back.  `Finding` is what a
  command has learnt (the package is the user's, the asset was asked for and is uploaded,
  nothing before this page matches), `Telling` and `Registering` what its word then means.
  The asset is the *first* match of the embedded list or of a page; that the pages
  up to one cover the list's first places is arithmetic over any page size.
* **Apply.**  `LocalsTyped` is the itinerary: where the command is tells what it has read
  and done.  `RebootsOnce` and `WedgedInv` tie the polls to the session: `ready` never
  exceeds `wedged`, which the third restarts.  `InstalledInv` says from where on the HAP is
  there.  `SettledInv` follows the process: `OldProcessInv` (before the installation it is
  the one that was read; after it, one that runs the old HAP is still that one) and
  `NewProcessInv` (after a reboot that took place only the new HAP runs).  That is where
  `~Unsettled` is used: a process that dies or starts between the read and the installation
  makes two different processes of the old HAP and the pid says nothing (section 6).
* **Captures and test runs.**  `CaptureHeld`: what runs or stays on the device is what a
  local of `perfTrace` remembers, until the step of the `finally` that gives it back, or
  else something that was obeyed unheard.  `Measured`: without an error, each part
  that is over was seen by the session.  A session of somebody else's is taken over before
  the launch, never after.  `TestHolds` is the same for the log and the screen timeout of a
  test run; `test.lost` covers a restoring call that failed or was refused as well.
* **Reports of tests.**  `TranscriptInv` says after every line what the parser knows: the
  cases told so far are those the runner has finished (`ToldSoFar`), and in the middle of a
  case the texts kept are as many as its lines so far (`InItsCase`; `CaseParsed` is one line
  of a case).  `PassInv` follows the HAPs from the builds over the choice to the device; a
  pass is decided after the runner's last line.
* **Traces.**  `ParserInv`: what stands on a thread's stack are the begins of that thread that
  are balanced by no end yet, in their order, and every slice told is true.  Its step
  is one lemma (`ParserKeeps`: another thread's marker, a begin, an end with and without its
  begin), and the induction over the lines gives `ParsedWhole` for any trace and any cut.
* **Chains of a freeze.**  `WalkInv` of the loop of `walk`: what has left the worklist has been
  gone on from, nothing is visited that cannot be reached, and each turn takes one thread
  from the list that never comes back, so that it is empty within as many turns as there
  are threads (`WalkIs`).  The reference grows a set as often (`WithinIs`: a chain of subsets
  of a finite set that never shrinks stands still).
* **Fault logs and bundles.**  `SearchInv`: what was on the device all through a look is in one
  of its two listings (`SteadyListed`).  A kind told with confidence has the lines that only
  one kind of log has (`Confident`).  `BundleInv`: what a collection without a failed
  command has behind it (`Collected`), what the archive may hold (`Archived`, `Redacted`).
* **The window of a log.**  A line tells its time without the year.  Of the years about the
  clock's, the closest brings a line younger than a year to its own time or past the clock,
  and then the log is refused (`ClosestIs`).  `ReadInv`, by induction over the lines: what is
  kept so far is what is meant so far, in its order.  `LogsAssumption` asks that the buffer is
  younger than a year: an older line would be taken for one of the last year, in the code too.
* **Side by side.**  A behaviour of `MCCommands` or `MCDevice` is one command, and the steps
  of one leave the variables of the others alone, so each specification holds within it
  (`Alone`, `SideBySide`); the properties of the runs follow from those of the components.
* **One command of hdc.**  The marker is the last thing printed (`EndIsLast`), and a refusal
  is printed alone, so the last marker of the output is the one that was appended.
* **Logs.**  `HeldInv`: what the device's buffer holds is of its present boot, and of the time
  after the call if there was a boot and the clock went on.  `ClockInv`: the clock went on
  or was reset by a boot, and the cutoff is that of the call, of a reset clock, or lifted.
  `StreamInv`: half of a line stays in the buffer of the stream that prints it.  A
  stream prints the *first* line that passes its filter (`NextLineIsFirst`); a
  least element comes from the well-foundedness of `<` on the naturals.
* **Tools.**  `MovingInv` says where every file of the old and of the new release is, from
  the sets `parked` and `placed` alone; `KeptInv` that nothing is kept aside while an
  install is under way that found no directory.  `FailInv` adds what an undo has to put
  back.  `Overlap = FALSE` is what `tools_overlap` breaks.
* **SDK.**  `ReplaceInv`: who replaces has unpacked all of its own.  `ScratchInv`: a scratch
  directory belongs to an install that runs, the root to whoever has one in it or is about
  to make one.
* **MCP.**  `RepliesFit`, `VersionInv` (a version is agreed exactly when a valid `initialize`
  was read) and `EndingInv` (what has been awaited on the way to the exit).

* **Flows.**  Clean-up (`RunningInv`, `HeldInv`): from its start to its end the recorder's pid
  is known to the command, or its start lost its answer, or a clean-up gave none, or it was
  taken for gone because a look at it was refused (`TakenForGone`); and who holds the screen on
  will give it back.  Sending (`SentInv`): the steps before `index` have sent their input,
  the step at `index` has sent nothing but a Back for the keyboard until `acted`, which is
  where `parseFlow` is needed: an action is none of the replay's own keys, and a `wait` has
  a selector, so it never reaches `act`.  Screens (`ClockInv`, `SeenInv`, `TargetInv`): a
  dump that may show a screen that was moving is younger than `settleMs` since the last
  input, and `settled` confirms such a dump with another one.  So what an input is aimed at
  was picked in a dump of the screen that it lands on.
  Two assumptions about the device.  `SettlingCoversMotion`: an animation is over
  before `settleMs`, which is the purpose of that option (`replay.ts`), and the
  step timeout is not below it, as with the command's defaults.  `NoKeyboardOnLockScreen`:
  no soft keyboard on the lock screen, or Back would be sent to it.

**Recursive functions.**  The library's induction theorems take an operator as a parameter,
which the provers cannot instantiate.  `parser`, `turn`, `walk`, `CallsIn`, `Within` and
`Filtered` are functions on a range of naturals instead; `Recursion` (such a function
exists) and `Induct` (a set with 0 and the successor of each of its members has every
natural) are stated over sets and proved from the well-foundedness of `<`.  Only functions over a range of numbers
that the model writes in this form are reached so: the folds of the community modules,
recursion over trees and `RECURSIVE` operators are not.

Only model-checked:

* liveness (`SignInEnds`, `StopEndsQemu`, `OnlyOwnToolsDelay`), which is beyond the prover;
* the pure functions of `screen` and of `flow`'s recording, whose recursion over trees, texts
  and events is induction over data, and for the same reason `ReadingsAreTrue`: the problems
  in hvigor's output, the figures of a trace, and the cycles of a freeze (two depth-first
  passes by folds);
* `FailureKeepsTools` (in `ToolsAreAtomic`): it depends on the bound.  Three failures in a
  row (the swap, its undo and `KeepParked`) leave the parked tools in the work directory,
  which the next install sweeps; with a fourth, that install fails too and nothing is left
  (the limit of section 6).  `commands` allows three;
* that a recorded flow replays (`RecordedFlowReplays`): it compares what the user did with
  what `flowFromRecording` made of it, which is such a function.

## 5. Where the code and its words part

* **A prefix is taken for the directory** (`pool_prefix`, `state.ts:116`).  The
  command line of instance 10 contains the directory of instance 1.
* **A live session is removed** (`session_race`, `tokenStore.ts:159`).  A load that met
  the file between open and write removes the session that is complete by now.
* **A failed install removes another's tools** (`tools_overlap`, `cmdTools/install.ts:341`).
  "Nothing of the user's was there" was decided before the download.
* **A signing that was cut off is reused** (`sign_killed`, `autoSign.ts:216`).  The new
  keystore's files are there, the project has the password of the old one.

## 6. Limits of the code

The properties are worded around these.

Emulators, session, tools:
* Two overlapping starts of one instance: the second record replaces the first, whose
  QEMU status and stop no longer find.  A PID that a stop has cleared comes back when a
  status probe re-read the record before the stop's write and writes after it.
* `pkill` returns before QEMU has exited: the next start may launch beside it
  (`PromptExit` excludes that in `pool_one`).  `emulator stop` signals whatever process
  the default PID file names, unchecked.
* A pasted callback is reported as accepted although another one already decided.
* Two overlapping first logins each make a key; one token cannot be decrypted.
* `load` keeps a session it may not read, unless the directory above the keys cannot be
  searched: the key then seems missing, making its directory fails, and the session is dropped.
* Old tools that an install parked are litter to the next one if the first was killed,
  if a removal failed during its undo, or if moving them aside failed too.
* Overlapping SDK installs can tear the SDK, and a kill between the removal and the move
  loses it.  A scratch directory made outside the `try` may stay.
* The abort listeners of a download outlive it: a later abort removes the archive.

Applying and waiting:
* `decideReboot` compares the pid after the installation with the one before it.  When the
  persistent process is not running at the first read, or starts again between it and
  the installation, no reboot follows and the command reports the pid of the old program.
* `uninstallApp` looks at hdc's exit code only.  For a bundle that is no system bundle,
  an `uninstall-install` whose second half fails leaves no application.
* `reboot` with a wait can return on the process from before, if the device went
  down later than 30 s or unseen; a crash written after the smoke check's look at
  the faultlog is missed.

Child processes and logs:
* A timeout waits for `close`: a grandchild with the pipes keeps the promise pending, and
  `onOutput` may be called after the promise was rejected.
* Half a line of a dead stream is glued to the first line of the next; `captureLog` writes
  lines of the device's buffer again after a respawn; a reboot between the reading of the
  clock and the stream leaves a stale cutoff; an abort before the call is not noticed; a
  `bundle` that is not running is followed without a filter.
* A kill between the manifest and the archive of a log bundle leaves a manifest that says
  success; the undo removes `<dir>-redacted` and the archive also when they were another's.

Building, testing, measuring:
* `killProcessTree` says that it kills "everything it started" (`spawnCompat.ts:166`); except on
  Windows it kills the spawned process alone.  What `hvigorw` has started runs on after a
  cancelled build and may write to the project.
* A signed HAP of an older build beats a fresh unsigned one (`discoverHaps.ts:52`); with
  `SigningChanges = TRUE` a test then passes on code that was not built.
* An interrupted `ohpm install` leaves a partial `oh_modules` that the next build takes for
  complete.  With tasks in parallel, diagnostics that follow a failed task are attributed to it.
* `runTests` gives `applyChanges` no abort signal.  A screen timeout, a trace session or a
  recorder whose starting call lost its answer is never given back, nor is a screen timeout
  whose restoring call fails or is refused.
* Once the start of a long output is cut off, an ohpm error whose `ohpm ERROR:` line is gone is told
  as hvigor's (`Misread`); and an ohpm error's message takes in the messages of the next five
  lines, also those of other errors (`RunsOn`).  `ProblemsAreTold` excepts just these.
* Two captures at once: the second takes over the first's trace session.  A thread that
  migrates between ring buffers can lose a marker in the middle.  When the launch's first
  frame was lost, the next frame is left out of the statistics.
* A record that becomes a faultlog between the two listings of the last look is in neither.
  Without a readable clock every crash record sorts before every faultlog.  A crash record
  that is still being written makes `latestCrash` throw.  A cppcrash with a freeze event and
  a `MSG` line in its log is classified as unknown.  Binder cycles do not expand thread 0.

Signing and projects:
* Signing a second project of a team deletes the first's certificate, and
  `shouldRegenerate` cannot tell.  The build profile is read at the start and written back
  whole at the end, in place.
* `extractLeafCertificate` accepts a chain of two, and takes a leaf-first chain's root.
  `prepareSigning` says "present" for a half-done signing.  A module named as a
  folder of the template fails after copying and leaves a project that a retry refuses.

Flows and screens:
* Most refused calls of `record` go unnoticed.  A look at the recorder that hdc refuses holds no
  `alive`, so the recorder counts as gone (`record.ts:171`, `192`, `292`): its pid is forgotten, its
  events are pulled while it records, and `finally` does not stop it.  A refused SIGKILL leaves it
  too, and a refused pull gives a flow without steps.  `NothingLeftRunning` excepts these calls.
* Deleting back to the same text records the whole text without a clear; a quick `Next`
  after the last key, and quick gestures in general, are placed on a stale layout; a
  keystroke line that is pending when a touch begins is recorded after it; a recorded
  Back leaves the page if the replay has dismissed the keyboard itself.  `settled` confirms
  a match that is not the one the action picks.
* The memo of `structReach` is incomplete for what a cycle's inner structs render: with A and B
  rendering each other and A rendering C, B's page leads nowhere that only C does.  A
  destination that no page registers is left out when a page of any module shows a struct
  of its name.  A name is matched ignoring case and path, so one specification entry may mean
  two screens.

Store and server:
* Two overlapping saves of `credentials.json` lose one.  A connection that breaks after the
  store has acted is told as "could not reach".  When the second question for the
  publisher's apps fails, "already published by another publisher" may be false.
  `ONIRO_STORE_TOKEN` goes to whatever store `--url` names.  An asset whose name is a number
  cannot be named; assets beyond ten pages are not found.
* A client that initializes twice with different versions may be sent structured
  content under the older one.  Concurrent MCP tools on one device are not ordered.

## 7. What is not modelled

Of the modelled components: timing and heartbeats of polling loops, messages and
formatting, the parsers of hdc's, hiperf's and hitrace's own syntax (their outcomes are
choices), the scanner of ArkTS text, command lines of QEMU, hdc and hvigor, ZIP and
certificate bytes, redaction patterns, read-only reports, `emulator remove`, the recovery
modes of `reboot`, the linter, `signHap.ts` of HarmonyOS, what a store listing says, the second by
which a log bundle lets the device's clock run back (`logBundle.ts:537`: the model's unit of
time is longer), a `mkdirSync` of an SDK install that throws, and of the screen inventory `loadContent` and
routes whose names are computed.

Not modelled at all: the MCP tools and the choice of their target (each calls one
core operation; the schema walk and the order of the choice are to be a pure module), the
API index and documentation search (text ranking), image comparison (pixel arithmetic),
doctor and checks (read-only reports), the command line (argument parsing), the
vendored plug-in.

## 8. The plan

Runs, properties and hazards stay few, a dozen and forty: a component brings its two or
three hardest questions, and plainer properties make way.

1. Theorems.  The figures of a trace, which need no recursion beyond what is proved of the
   slices; then the walks of `LayoutTree`, by induction over the path.
2. The choice of a device and the argument schemas of the MCP tools, as operators.
3. The composition of `LoginCallback` with `HarmonyOsSession` (the save of the first is the
   login of the second), and of `AutoSign` with `HapBuild` (a build between two signings).
4. The waits of `wait` on logs and on the UI, over `HilogStream` and `FlowDevice`.
