--------------------------- MODULE CmdToolsInstall ---------------------------
(***************************************************************************)
(* `oniro-app cmdtools install` and `cmdtools remove`                      *)
(* (cmdTools/install.ts): an archive is staged inside the install          *)
(* directory, the old entries are parked in a second work directory, the   *)
(* new ones placed, and a failure is undone.  Each install is a process;   *)
(* an action is one file-system operation, and any of them may fail.       *)
(***************************************************************************)
EXTENDS Integers, FiniteSets

CONSTANTS
    Entries, ToolEntries,  \* top-level names; those of the tools
    Installers,            \* installs: numbers from 2; release 1 was there before
    Archive,               \* the entries each archive brings
    Keep,                  \* the entry that holds the scratch directory, if any
    MaxFaults,             \* bound: operations that fail
    RmFails, Kills, Overlap  \* may removals fail, installs be killed, or overlap

ASSUME InstallAssumption ==
    /\ ToolEntries \subseteq Entries /\ Keep \subseteq Entries
    /\ Installers \subseteq Nat \ {0, 1}
    /\ Archive \in [Installers -> SUBSET Entries]
    /\ MaxFaults \in Nat
    /\ {RmFails, Kills, Overlap} \subseteq BOOLEAN

VARIABLES
    made,   \* directories that exist: the install directory, those inside it
    at,     \* the files in each
    faults, \* operations that have failed
    cl      \* per install: pc, createdTarget, the loops of swapInto; and for
            \* the properties, the install directory before it
vars == <<made, at, faults, cl>>

Target == <<"target", 0>>
Staging(i) == <<"staging", i>>
Previous(i) == <<"previous", i>>
Kept(i) == <<"kept", i>>
WorkDirs == {<<k, i>> : k \in {"staging", "previous"}, i \in Installers}
Dirs == WorkDirs \cup {Target} \cup {Kept(i) : i \in Installers}

Files == Entries \X ({1} \cup Installers)
Names(files) == {f[1] : f \in files}
Release(i) == Archive[i] \X {i}

Idle == [pc |-> "idle", createdTarget |-> FALSE, park |-> {}, place |-> {},
         parked |-> {}, placed |-> {}, was |-> {}, present |-> {}]

Init ==
    /\ \/ made = {} /\ at = [d \in Dirs |-> {}]
       \/ /\ made = {Target}
          /\ \E S \in SUBSET Entries : at = [d \in Dirs |-> IF d = Target THEN S \X {1} ELSE {}]
    /\ faults = 0
    /\ cl = [i \in Installers |-> Idle]

------------------------------------------------------------------------------
(* File-system operations.                                                   *)
Fault == faults < MaxFaults /\ faults' = faults + 1
NoFault == UNCHANGED faults
RmFault == RmFails /\ Fault

CanRename(e, from, to) ==
    /\ from \in made /\ to \in made
    /\ e \in Names(at[from]) /\ e \notin Names(at[to])

Rename(e, from, to) ==
    LET moved == {f \in at[from] : f[1] = e}
    IN  at' = [at EXCEPT ![from] = @ \ moved, ![to] = @ \cup moved]

(* Mutant: what is inside a removed directory stays.                         *)
Removal_Flat(dirs) ==
    /\ made' = made \ dirs
    /\ at' = [d \in Dirs |-> IF d \in dirs THEN {} ELSE at[d]]

(* rmSync of directories, recursive and forced: the install directory holds  *)
(* all the others.                                                           *)
Removal(dirs) ==
    LET gone == IF Target \in dirs THEN Dirs ELSE dirs
    IN  /\ made' = made \ gone
        /\ at' = [d \in Dirs |-> IF d \in gone THEN {} ELSE at[d]]

Goto(i, pc) == cl' = [cl EXCEPT ![i].pc = pc]
Keeps == UNCHANGED <<made, at>>

(* What the user has in the install directory: all files but those that an   *)
(* install staged and those that it has replaced.                            *)
Present ==
    UNION {at[d] : d \in Dirs \ ({Staging(i) : i \in Installers} \cup
                                 {Previous(i) : i \in {j \in Installers : cl[j].pc = "done"}})}

Running(i) == cl[i].pc \notin {"idle", "done", "failed", "killed"}

------------------------------------------------------------------------------
(* installCmdTools.                                                          *)
Start(i) ==
    /\ cl[i].pc = "idle"
    /\ Overlap \/ \A j \in Installers : ~Running(j)
    /\ cl' = [cl EXCEPT ![i] = [Idle EXCEPT !.pc = "fetch",
                !.createdTarget = Target \notin made,
                !.was = at[Target], !.present = Present]]
    /\ Keeps /\ NoFault

(* Download, extraction and the search for the tools in the archive.         *)
Fetch(i) ==
    /\ cl[i].pc = "fetch"
    /\ Keeps
    /\ \/ Goto(i, "prepare") /\ NoFault
       \/ Goto(i, "failing") /\ Fault

Prepare(i) ==
    /\ cl[i].pc = "prepare"
    /\ made' = made \cup {Target}
    /\ Goto(i, "clean")
    /\ UNCHANGED <<at, faults>>

(* Mutant: every directory of ours in the target is a leftover.              *)
Clean_Everything(i) ==
    /\ cl[i].pc = "clean"
    /\ \E gone \in SUBSET (made \ {Target}) :
         /\ Removal(gone)
         /\ \/ gone = made \ {Target} /\ Goto(i, "stage") /\ NoFault
            \/ gone # made \ {Target} /\ Goto(i, "failing") /\ RmFault

(* Work directories left behind by an interrupted install are removed.       *)
Clean(i) ==
    /\ cl[i].pc = "clean"
    /\ LET leftovers == WorkDirs \cap made
       IN  \E gone \in SUBSET leftovers :
             /\ Removal(gone)
             /\ \/ Target \in made /\ gone = leftovers /\ Goto(i, "stage") /\ NoFault
                \/ Target \in made /\ gone # leftovers /\ Goto(i, "failing") /\ RmFault
                \/ Target \notin made /\ Goto(i, "failing") /\ NoFault

Stage(i) ==
    /\ cl[i].pc = "stage"
    /\ \/ Target \in made /\ made' = made \cup {Staging(i)} /\ Goto(i, "fill") /\ NoFault
       \/ Target \notin made /\ UNCHANGED made /\ Goto(i, "failing") /\ NoFault
    /\ UNCHANGED at

(* The archive's entries are moved or copied in, some of them if that fails. *)
Fill(i) ==
    /\ cl[i].pc = "fill"
    /\ \/ /\ Staging(i) \in made
          /\ at' = [at EXCEPT ![Staging(i)] = Release(i)]
          /\ Goto(i, "swap") /\ NoFault
       \/ /\ Staging(i) \in made
          /\ \E S \in SUBSET Release(i) : at' = [at EXCEPT ![Staging(i)] = S]
          /\ Goto(i, "failing") /\ Fault
       \/ Staging(i) \notin made /\ UNCHANGED at /\ Goto(i, "failing") /\ NoFault
    /\ UNCHANGED made

(* Mutant: only entries of the new archive are replaced.                     *)
Swap_IncomingOnly(i) ==
    /\ cl[i].pc = "swap" /\ Staging(i) \in made
    /\ made' = made \cup {Previous(i)}
    /\ cl' = [cl EXCEPT ![i].pc = "park", ![i].place = Names(at[Staging(i)]),
                ![i].park = (Names(at[Target]) \cap Names(at[Staging(i)])) \ Keep]
    /\ UNCHANGED at /\ NoFault

(* swapInto lists what it will park and place.                               *)
Swap(i) ==
    /\ cl[i].pc = "swap"
    /\ \/ /\ Target \notin made
          /\ UNCHANGED made /\ Goto(i, "failing")
       \/ /\ Target \in made /\ Staging(i) \notin made
          /\ made' = made \cup {Previous(i)} /\ Goto(i, "failing")
       \/ /\ Target \in made /\ Staging(i) \in made
          /\ made' = made \cup {Previous(i)}
          /\ LET incoming == Names(at[Staging(i)])
             IN  cl' = [cl EXCEPT ![i].pc = "park", ![i].place = incoming,
                   ![i].park = (Names(at[Target]) \cap (incoming \cup ToolEntries)) \ Keep]
    /\ UNCHANGED at /\ NoFault

(* One rename of a loop over `todo`, recorded in `done`.                     *)
Move(i, e, from, to, todo, done) ==
    /\ CanRename(e, from, to) /\ Rename(e, from, to)
    /\ cl' = [cl EXCEPT ![i][todo] = @ \ {e}, ![i][done] = @ \cup {e}]
    /\ NoFault

(* The rename fails, by itself or because another process was at the files.  *)
Fails(i, e, from, to, pc) ==
    /\ IF CanRename(e, from, to) THEN Fault ELSE NoFault
    /\ UNCHANGED at /\ Goto(i, pc)

Park(i) ==
    /\ cl[i].pc = "park" /\ UNCHANGED made
    /\ \/ cl[i].park = {} /\ UNCHANGED at /\ Goto(i, "place") /\ NoFault
       \/ \E e \in cl[i].park :
            \/ Move(i, e, Target, Previous(i), "park", "parked")
            \/ Fails(i, e, Target, Previous(i), "undo")

(* Mutant: an entry that cannot be placed is skipped.                        *)
Place_Skips(i) ==
    /\ cl[i].pc = "place" /\ UNCHANGED made
    /\ \/ cl[i].place = {} /\ UNCHANGED at /\ Goto(i, "finish") /\ NoFault
       \/ \E e \in cl[i].place :
            \/ Move(i, e, Staging(i), Target, "place", "placed")
            \/ /\ UNCHANGED at /\ cl' = [cl EXCEPT ![i].place = @ \ {e}]
               /\ IF CanRename(e, Staging(i), Target) THEN Fault ELSE NoFault

Place(i) ==
    /\ cl[i].pc = "place" /\ UNCHANGED made
    /\ \/ cl[i].place = {} /\ UNCHANGED at /\ Goto(i, "finish") /\ NoFault
       \/ \E e \in cl[i].place :
            \/ Move(i, e, Staging(i), Target, "place", "placed")
            \/ Fails(i, e, Staging(i), Target, "undo")

(* The new entries go; an rmSync that throws ends the undo.                  *)
Undo(i) ==
    /\ cl[i].pc = "undo" /\ UNCHANGED made
    /\ \/ cl[i].placed = {} /\ UNCHANGED at /\ Goto(i, "restore") /\ NoFault
       \/ \E e \in cl[i].placed :
            \/ /\ at' = [at EXCEPT ![Target] = {f \in @ : f[1] # e}]
               /\ cl' = [cl EXCEPT ![i].placed = @ \ {e}] /\ NoFault
            \/ UNCHANGED at /\ Goto(i, "failing") /\ RmFault

(* The old entries come back, then their work directory goes.                *)
Restore(i) ==
    /\ cl[i].pc = "restore"
    /\ \/ cl[i].parked = {} /\ Removal({Previous(i)}) /\ Goto(i, "failing") /\ NoFault
       \/ /\ UNCHANGED made
          /\ \E e \in cl[i].parked :
               \/ /\ CanRename(e, Previous(i), Target) /\ Rename(e, Previous(i), Target)
                  /\ cl' = [cl EXCEPT ![i].parked = @ \ {e}] /\ NoFault
               \/ Fails(i, e, Previous(i), Target, "keep")

(* Mutant: what could not be restored stays where the next install cleans.   *)
KeepParked_InPlace(i) ==
    /\ cl[i].pc = "keep" /\ Goto(i, "failing") /\ Keeps /\ NoFault

(* What could not be restored is moved out of reach of the next install.     *)
KeepParked(i) ==
    /\ cl[i].pc = "keep" /\ Goto(i, "failing")
    /\ \/ /\ Previous(i) \in made
          /\ made' = (made \ {Previous(i)}) \cup {Kept(i)}
          /\ at' = [at EXCEPT ![Previous(i)] = {}, ![Kept(i)] = at[Previous(i)]]
          /\ NoFault
       \/ Keeps /\ IF Previous(i) \in made THEN Fault ELSE NoFault

(* The old release is deleted, best effort; the staging directory always.    *)
Finish(i) ==
    /\ cl[i].pc = "finish" /\ Goto(i, "done")
    /\ \/ Removal({Previous(i), Staging(i)}) /\ NoFault
       \/ Removal({Staging(i)}) /\ RmFault

(* Mutant: the staging directory is left when the install fails.             *)
Failing_LeavesStaging(i) ==
    /\ cl[i].pc = "failing" /\ Goto(i, "failed")
    /\ Removal(IF cl[i].createdTarget THEN {Target} ELSE {})
    /\ NoFault

(* A directory that this install created is removed as a whole.              *)
Failing(i) ==
    /\ cl[i].pc = "failing" /\ Goto(i, "failed")
    /\ Removal(IF cl[i].createdTarget THEN {Target} ELSE {Staging(i)})
    /\ NoFault

Kill(i) ==
    /\ Kills /\ Running(i)
    /\ Keeps /\ NoFault
    /\ cl' = [cl EXCEPT ![i].pc = "killed"]

(* cmdtools remove.                                                          *)
removeCmdTools ==
    /\ Target \in made
    /\ Overlap \/ \A j \in Installers : ~Running(j)
    /\ Removal({Target})
    /\ UNCHANGED <<faults, cl>>

Step(i) ==
    \/ Start(i) \/ Fetch(i) \/ Prepare(i) \/ Clean(i) \/ Stage(i) \/ Fill(i) \/ Swap(i)
    \/ Park(i) \/ Place(i) \/ Undo(i) \/ Restore(i) \/ KeepParked(i)
    \/ Finish(i) \/ Failing(i) \/ Kill(i)

Next == (\E i \in Installers : Step(i)) \/ removeCmdTools

Spec == Init /\ [][Next]_vars

------------------------------------------------------------------------------
Labels == {"idle", "fetch", "prepare", "clean", "stage", "fill", "swap", "park", "place",
           "undo", "restore", "keep", "finish", "failing", "done", "failed", "killed"}

(* The state has its types; a directory that does not exist is empty, and    *)
(* nothing exists outside the install directory.                             *)
TypeOK ==
    /\ made \subseteq Dirs
    /\ at \in [Dirs -> SUBSET Files]
    /\ faults \in 0..MaxFaults
    /\ cl \in [Installers -> [pc: Labels, createdTarget: BOOLEAN,
                 park: SUBSET Entries, place: SUBSET Entries,
                 parked: SUBSET Entries, placed: SUBSET Entries,
                 was: SUBSET Files, present: SUBSET Files]]
    /\ \A d \in Dirs : d \notin made => at[d] = {}
    /\ Target \notin made => made = {}

(* An install that fails loses no file of the user's that was in the install *)
(* directory when it began, tools that an earlier install parked included.   *)
FailureKeepsTools ==
    [][\A i \in Installers : Failing(i) =>
         cl[i].present \subseteq UNION {at'[d] : d \in Dirs}]_vars

(* Old tools that could not be restored outlive every later install.         *)
KeptToolsStay ==
    [][\A i \in Installers : at[Kept(i)] # {} /\ ~removeCmdTools => at'[Kept(i)] = at[Kept(i)]]_vars

(* An install that fails, unless it could not put all the old entries back,  *)
(* leaves the directory as it was: no mixture of two releases, nothing of    *)
(* its own.                                                                  *)
FailureRestores ==
    [][\A i \in Installers : Failing(i) /\ cl[i].parked = {} =>
         /\ at'[Target] = cl[i].was
         /\ {Staging(i), Previous(i)} \cap made' = {}
         /\ Target \notin made' <=> cl[i].createdTarget]_vars

(* A completed install holds exactly the archive, and what is not the tools'.*)
SuccessIsExact ==
    [][\A i \in Installers : Finish(i) =>
         at'[Target] = {f \in cl[i].was : f[1] \notin (ToolEntries \cup Archive[i]) \ Keep}
                       \cup Release(i)]_vars

(* A completed install is exactly its release, and what an earlier one could *)
(* not put back stays for the user.                                          *)
ToolsAreExact == SuccessIsExact /\ KeptToolsStay

(* Another install's failure removes no completed install.                   *)
FailureSparesOthers ==
    [][\A i \in Installers : Failing(i) => \A f \in at[Target] \ at'[Target] : f[2] = i]_vars

(* An install is atomic, or at worst sets some of the old tools aside: until *)
(* its last entry is placed the directory counts as what undoing would       *)
(* restore.                                                                  *)
Swapping == {i \in Installers : cl[i].pc \in {"park", "place", "undo", "restore"}}
Restored(i) == {f \in at[Target] : f[1] \notin cl[i].placed} \cup at[Previous(i)]
Directory == INSTANCE ToolsDirectory WITH
    contents <- IF Swapping = {} THEN at[Target] ELSE Restored(CHOOSE i \in Swapping : TRUE)
AtomicInstall == Directory!Spec
==============================================================================
