--------------------------- MODULE SharedFilesProofs ---------------------------
(***************************************************************************)
(* Proofs about two kinds of commands that change files which others of    *)
(* their kind change too.  CmdToolsInstall, for any entries, archives,     *)
(* number of installs and of failures: what an install leaves when it      *)
(* completes, and that installs which do not overlap implement             *)
(* ToolsDirectory.  StorePublish, for any number of commands, assets and   *)
(* pages: what the commands of the app store tell their user is true.      *)
(***************************************************************************)
EXTENDS CmdToolsInstall, StorePublish, TLAPS, SequenceTheorems

Record == [pc: Labels, createdTarget: BOOLEAN,
           park: SUBSET Entries, place: SUBSET Entries,
           parked: SUBSET Entries, placed: SUBSET Entries,
           was: SUBSET Files, present: SUBSET Files]

(* At most one install is running.                                           *)
OneAtATime == \A i, j \in Installers : Running(i) /\ Running(j) => i = j

(* The entries of the old release that install i moves out of the way.       *)
Replaceable(i) == (Names(cl[i].was) \cap (Archive[i] \cup ToolEntries)) \ Keep

Early == {"fetch", "prepare", "clean", "stage", "fill", "swap"}
Moving == {"park", "place", "undo", "restore", "keep", "finish"}

(* Before it swaps, an install has changed nothing that the user sees.       *)
EarlyInv(i) ==
    /\ cl[i].pc \in Early => at[Target] = cl[i].was /\ cl[i].parked = {} /\ cl[i].placed = {}
    /\ cl[i].pc \in Early \cup {"idle"} => at[Previous(i)] = {}
    /\ cl[i].pc = "swap" => at[Staging(i)] = Release(i)

(* From then on, what is parked and what is placed say where each file is.   *)
MovingInv(i) ==
    /\ cl[i].pc \in Moving =>
         /\ at[Target] = {f \in cl[i].was : f[1] \notin cl[i].parked}
                         \cup {f \in Release(i) : f[1] \in cl[i].placed}
         /\ at[Previous(i)] = {f \in cl[i].was : f[1] \in cl[i].parked}
         /\ \A f \in cl[i].was : f[1] \in cl[i].placed => f[1] \in cl[i].parked
         /\ cl[i].parked \subseteq Replaceable(i)
    /\ cl[i].pc \in {"park", "place"} =>
         /\ at[Staging(i)] = {f \in Release(i) : f[1] \notin cl[i].placed}
         /\ cl[i].park \cup cl[i].parked = Replaceable(i)
         /\ cl[i].place \cup cl[i].placed = Archive[i]
    /\ cl[i].pc \in {"park", "restore", "keep"} => cl[i].placed = {}
    /\ cl[i].pc \in {"place", "finish"} => cl[i].parked = Replaceable(i)
    /\ cl[i].pc = "place" => cl[i].park = {}
    /\ cl[i].pc = "finish" => cl[i].placed = Archive[i]
    /\ cl[i].pc = "keep" => cl[i].parked # {}

(* Old tools are kept aside at the end only, and never by an install that    *)
(* found no directory; until that one ends, nobody has any.                  *)
KeptInv(i) ==
    /\ cl[i].pc \in Early \cup Moving \cup {"idle"} => at[Kept(i)] = {}
    /\ Running(i) /\ cl[i].createdTarget => cl[i].was = {} /\ \A j \in Installers : at[Kept(j)] = {}

SwapInv == \A i \in Installers : EarlyInv(i) /\ MovingInv(i) /\ KeptInv(i)
InstallInv == TypeOK /\ OneAtATime /\ SwapInv

------------------------------------------------------------------------------
(* The directories of the installs are distinct.                             *)
LEMMA Apart ==
    ASSUME NEW i \in Installers, NEW j \in Installers
    PROVE  /\ {Target, Staging(i), Previous(i), Kept(i)} \subseteq Dirs
           /\ Target \notin {Staging(i), Previous(i), Kept(i)}
           /\ Staging(i) \notin {Previous(j), Kept(j)}
           /\ Previous(i) # Kept(j)
           /\ i # j => Staging(i) # Staging(j) /\ Previous(i) # Previous(j) /\ Kept(i) # Kept(j)
           /\ {Staging(i), Previous(i)} \subseteq WorkDirs
           /\ {Target, Kept(i)} \cap WorkDirs = {}
    BY DEF Target, Staging, Previous, Kept, Dirs, WorkDirs

(* What a removal does, of the install directory or of others.               *)
LEMMA RemovalEffect ==
    ASSUME TypeOK, NEW dirs \in SUBSET Dirs, Removal(dirs)
    PROVE  /\ made' \subseteq made
           /\ at' \in [Dirs -> SUBSET Files]
           /\ Target \in dirs => made' = {} /\ \A d \in Dirs : at'[d] = {}
           /\ Target \notin dirs =>
                 made' = made \ dirs /\ \A d \in Dirs : at'[d] = IF d \in dirs THEN {} ELSE at[d]
           /\ \A d \in Dirs : at'[d] \in {{}, at[d]}
           /\ \A d \in Dirs : d \notin made' => at'[d] = {}
           /\ Target \notin made' => made' = {}
    BY DEF TypeOK, Removal

(* What an assignment of the next step does to the record of an install.     *)
LEMMA GotoEffect ==
    ASSUME TypeOK, NEW i \in Installers, NEW pc \in Labels, Goto(i, pc)
    PROVE  /\ cl' \in [Installers -> Record]
           /\ cl'[i] = [cl[i] EXCEPT !.pc = pc]
           /\ \A j \in Installers \ {i} : cl'[j] = cl[j]
    BY DEF TypeOK, Goto, Record

(* The same for the step that lists what will be parked and placed.          *)
LEMMA SwapEffect ==
    ASSUME TypeOK, NEW i \in Installers, Swap(i),
           ~Goto(i, "failing") \/ (Target \in made /\ Staging(i) \in made)
    PROVE  /\ cl' \in [Installers -> Record]
           /\ cl'[i].pc = "park" /\ cl'[i].place = Names(at[Staging(i)])
           /\ cl'[i].park = (Names(at[Target]) \cap (Names(at[Staging(i)]) \cup ToolEntries)) \ Keep
           /\ cl'[i].was = cl[i].was /\ cl'[i].createdTarget = cl[i].createdTarget
           /\ cl'[i].parked = cl[i].parked /\ cl'[i].placed = cl[i].placed
           /\ \A j \in Installers \ {i} : cl'[j] = cl[j]
<1>1. cl \in [Installers -> Record]
    BY DEF TypeOK, Record
<1>2. PICK r \in Record : r = cl[i]
    BY <1>1
<1>3. PICK place, park :
          /\ place = Names(at[Staging(i)])
          /\ park = (Names(at[Target]) \cap (Names(at[Staging(i)]) \cup ToolEntries)) \ Keep
    OBVIOUS
<1>4. place \subseteq Entries /\ park \subseteq Entries
    <2>1. \A d \in Dirs : Names(at[d]) \subseteq Entries
        BY DEF TypeOK, Files, Names
    <2>2. Target \in Dirs /\ Staging(i) \in Dirs
        BY Apart
    <2> QED BY <1>3, <2>1, <2>2, InstallAssumption
<1> DEFINE s == [[[r EXCEPT !.pc = "park"] EXCEPT !.place = place] EXCEPT !.park = park]
<1>5. s \in Record
    BY <1>4 DEF Record, Labels
<1>6. cl' = [cl EXCEPT ![i] = s]
    <2>1. cl' = [cl EXCEPT ![i].pc = "park", ![i].place = place, ![i].park = park]
        BY <1>3 DEF Swap
    <2> QED BY <2>1, <1>1, <1>2
<1> QED BY <1>1, <1>2, <1>3, <1>5, <1>6 DEF Record

(* A step of install i leaves the records of the others, and at most empties *)
(* their directories.                                                        *)
Own(i) == {Target, Staging(i), Previous(i), Kept(i)}
Elsewhere(i) ==
    /\ \A j \in Installers \ {i} : cl'[j] = cl[j]
    /\ \A d \in Dirs \ Own(i) : at'[d] \in {{}, at[d]}

FilesTyped ==
    /\ made \subseteq Dirs
    /\ at \in [Dirs -> SUBSET Files]
    /\ \A d \in Dirs : d \notin made => at[d] = {}
    /\ Target \notin made => made = {}
(* Every step of an install keeps the types, and the others' files.          *)
LEMMA StepFrame ==
    ASSUME TypeOK, NEW i \in Installers, Step(i)
    PROVE  TypeOK' /\ Elsewhere(i)
<1> USE InstallAssumption
<1> DEFINE ClTyped == cl' \in [Installers -> Record]
<1>f. faults' \in 0..MaxFaults
    <2>1. Fault \/ NoFault
        BY DEF Step, Start, Fetch, Prepare, Clean, Stage, Fill, Swap, Park, Place, Undo, Restore,
               KeepParked, Finish, Failing, Kill, Move, Fails, RmFault, Fault, NoFault
    <2> QED BY <2>1 DEF TypeOK, Fault, NoFault
<1> SUFFICES FilesTyped' /\ ClTyped /\ Elsewhere(i)
    BY <1>f DEF TypeOK, FilesTyped, Record
<1>d. /\ Own(i) \subseteq Dirs
      /\ Target \in Dirs /\ Staging(i) \in Dirs /\ Previous(i) \in Dirs /\ Kept(i) \in Dirs
      /\ Target \notin {Staging(i), Previous(i), Kept(i)}
      /\ Previous(i) # Kept(i) /\ Previous(i) # Staging(i)
      /\ WorkDirs \subseteq Dirs /\ Target \notin WorkDirs
    BY Apart DEF Own, Dirs
<1>t. /\ FilesTyped /\ cl \in [Installers -> Record]
      /\ Release(i) \subseteq Files
      /\ Archive[i] \subseteq Entries
      /\ \A d \in Dirs : at[d] \subseteq Files /\ Names(at[d]) \subseteq Entries
    BY DEF TypeOK, FilesTyped, Record, Release, Files, Names
<1>r. \A dirs \in SUBSET Dirs : Removal(dirs) =>
        FilesTyped' /\ \A d \in Dirs : at'[d] \in {{}, at[d]}
    <2> SUFFICES ASSUME NEW dirs \in SUBSET Dirs, Removal(dirs)
                 PROVE  FilesTyped' /\ \A d \in Dirs : at'[d] \in {{}, at[d]}
        OBVIOUS
    <2> QED BY RemovalEffect, <1>t DEF FilesTyped
<1>g. \A pc \in Labels : Goto(i, pc) => ClTyped /\ \A j \in Installers \ {i} : cl'[j] = cl[j]
    <2> SUFFICES ASSUME NEW pc \in Labels, Goto(i, pc)
                 PROVE  ClTyped /\ \A j \in Installers \ {i} : cl'[j] = cl[j]
        OBVIOUS
    <2> QED BY GotoEffect
<1>k. Keeps => FilesTyped' /\ \A d \in Dirs : at'[d] = at[d]
    BY <1>t DEF Keeps, FilesTyped
<1>m. UNCHANGED at => \A d \in Dirs : at'[d] = at[d]
    OBVIOUS
<1>n. ASSUME UNCHANGED made, NEW e, Move(i, e, Target, Previous(i), "park", "parked")
      PROVE  FilesTyped' /\ ClTyped /\ Elsewhere(i)
    <2>0. /\ CanRename(e, Target, Previous(i)) /\ Rename(e, Target, Previous(i))
          /\ cl' = [cl EXCEPT ![i].park = @ \ {e}, ![i].parked = @ \cup {e}]
        BY <1>n DEF Move
    <2>1. Target \in Dirs /\ Previous(i) \in Dirs /\ Target # Previous(i)
        BY <1>d DEF Own
    <2>2. /\ at' \in [Dirs -> SUBSET Files]
          /\ \A d \in Dirs \ {Target, Previous(i)} : at'[d] = at[d]
          /\ Target \in made /\ Previous(i) \in made
        BY <2>0, <2>1 DEF TypeOK, Rename, CanRename
    <2>3. FilesTyped'
        BY <2>2, <1>t, <1>n DEF FilesTyped
    <2>4. e \in Entries
        BY <2>0, <2>1, <1>t DEF CanRename
    <2>5. ClTyped /\ \A j \in Installers \ {i} : cl'[j] = cl[j]
        BY <2>0, <2>4, <1>t DEF Record
    <2> QED BY <2>2, <2>3, <2>5 DEF Elsewhere, Own
<1>p. ASSUME UNCHANGED made, NEW e, Move(i, e, Staging(i), Target, "place", "placed")
      PROVE  FilesTyped' /\ ClTyped /\ Elsewhere(i)
    <2>0. /\ CanRename(e, Staging(i), Target) /\ Rename(e, Staging(i), Target)
          /\ cl' = [cl EXCEPT ![i].place = @ \ {e}, ![i].placed = @ \cup {e}]
        BY <1>p DEF Move
    <2>1. Staging(i) \in Dirs /\ Target \in Dirs /\ Staging(i) # Target
        BY <1>d DEF Own
    <2>2. /\ at' \in [Dirs -> SUBSET Files]
          /\ \A d \in Dirs \ {Staging(i), Target} : at'[d] = at[d]
          /\ Staging(i) \in made /\ Target \in made
        BY <2>0, <2>1 DEF TypeOK, Rename, CanRename
    <2>3. FilesTyped'
        BY <2>2, <1>t, <1>p DEF FilesTyped
    <2>4. e \in Entries
        BY <2>0, <2>1, <1>t DEF CanRename
    <2>5. ClTyped /\ \A j \in Installers \ {i} : cl'[j] = cl[j]
        BY <2>0, <2>4, <1>t DEF Record
    <2> QED BY <2>2, <2>3, <2>5 DEF Elsewhere, Own
<1>o. \A e, from, to : \A pc \in Labels : Fails(i, e, from, to, pc) /\ UNCHANGED made
        => FilesTyped' /\ ClTyped /\ Elsewhere(i)
    BY <1>g, <1>d, <1>t DEF Fails, FilesTyped, Elsewhere, Own
<1>1. CASE Start(i)
    <2>1. FilesTyped' /\ \A d \in Dirs : at'[d] = at[d]
        BY <1>1, <1>k DEF Start
    <2>2. Present \subseteq Files
        BY <1>t DEF Present
    <2>3. [Idle EXCEPT !.pc = "fetch", !.createdTarget = Target \notin made,
                !.was = at[Target], !.present = Present] \in Record
        BY <1>t, <1>d, <2>2 DEF Idle, Record, Labels
    <2>4. ClTyped /\ \A j \in Installers \ {i} : cl'[j] = cl[j]
        BY <1>1, <2>3, <1>t DEF Start
    <2> QED BY <2>1, <2>4, <1>d DEF Elsewhere, Own
<1>2. CASE Fetch(i)
    BY <1>2, <1>k, <1>g, <1>d DEF Fetch, Elsewhere, Own, Labels
<1>3. CASE Prepare(i)
    <2>1. ClTyped /\ \A j \in Installers \ {i} : cl'[j] = cl[j]
        BY <1>3, <1>g DEF Prepare, Labels
    <2>2. FilesTyped'
        BY <1>3, <1>t, <1>d DEF Prepare, FilesTyped
    <2> QED BY <1>3, <2>1, <2>2, <1>d DEF Prepare, Elsewhere
<1>4. CASE Clean(i)
    <2>1. PICK gone \in SUBSET (WorkDirs \cap made) : Removal(gone)
        BY <1>4 DEF Clean
    <2>2. ClTyped /\ \A j \in Installers \ {i} : cl'[j] = cl[j]
        BY <1>4, <1>g DEF Clean, Labels
    <2> QED BY <2>1, <2>2, <1>r, <1>d DEF Elsewhere, Own, Dirs
<1>5. CASE Stage(i)
    <2>1. ClTyped /\ \A j \in Installers \ {i} : cl'[j] = cl[j]
        BY <1>5, <1>g DEF Stage, Labels
    <2>2. FilesTyped'
        BY <1>5, <1>t, <1>d DEF Stage, FilesTyped
    <2> QED BY <1>5, <2>1, <2>2, <1>d DEF Stage, Elsewhere
<1>6. CASE Fill(i)
    <2>1. ClTyped /\ \A j \in Installers \ {i} : cl'[j] = cl[j]
        BY <1>6, <1>g DEF Fill, Labels
    <2>2. UNCHANGED made
        BY <1>6 DEF Fill
    <2>3. CASE UNCHANGED at
        BY <2>1, <2>2, <2>3, <1>t, <1>d DEF Elsewhere, Own, FilesTyped
    <2>4. CASE Staging(i) \in made /\ \E S \in SUBSET Release(i) : at' = [at EXCEPT ![Staging(i)] = S]
        <3>1. FilesTyped'
            BY <2>2, <2>4, <1>t, <1>d DEF FilesTyped
        <3> QED BY <2>1, <2>4, <3>1, <1>t, <1>d DEF Elsewhere, Own, FilesTyped
    <2> QED BY <1>6, <2>3, <2>4 DEF Fill
<1>7. CASE Swap(i)
    <2>1. UNCHANGED at
        BY <1>7 DEF Swap
    <2>2. FilesTyped'
        BY <1>7, <1>t, <1>d DEF Swap, FilesTyped
    <2>3. ClTyped /\ \A j \in Installers \ {i} : cl'[j] = cl[j]
        <3>1. CASE Goto(i, "failing")
            BY <3>1, <1>g DEF Labels
        <3>2. CASE ~Goto(i, "failing")
            BY <1>7, <3>2, SwapEffect
        <3> QED BY <3>1, <3>2
    <2> QED BY <2>1, <2>2, <2>3, <1>d DEF Elsewhere, Own
<1>8. CASE Park(i)
    <2>1. CASE UNCHANGED at /\ Goto(i, "place")
        BY <1>8, <2>1, <1>g, <1>t, <1>d DEF Park, FilesTyped, Elsewhere, Own, Labels
    <2>2. CASE \E e \in cl[i].park : Move(i, e, Target, Previous(i), "park", "parked")
        BY <1>8, <2>2, <1>n DEF Park
    <2>3. CASE \E e \in cl[i].park : Fails(i, e, Target, Previous(i), "undo")
        BY <1>8, <2>3, <1>o DEF Park, Labels
    <2> QED BY <1>8, <2>1, <2>2, <2>3 DEF Park
<1>9. CASE Place(i)
    <2>1. CASE UNCHANGED at /\ Goto(i, "finish")
        BY <1>9, <2>1, <1>g, <1>t, <1>d DEF Place, FilesTyped, Elsewhere, Own, Labels
    <2>2. CASE \E e \in cl[i].place : Move(i, e, Staging(i), Target, "place", "placed")
        BY <1>9, <2>2, <1>p DEF Place
    <2>3. CASE \E e \in cl[i].place : Fails(i, e, Staging(i), Target, "undo")
        BY <1>9, <2>3, <1>o DEF Place, Labels
    <2> QED BY <1>9, <2>1, <2>2, <2>3 DEF Place
<1>10. CASE Undo(i)
    <2>1. CASE UNCHANGED at /\ (Goto(i, "restore") \/ Goto(i, "failing"))
        BY <1>10, <2>1, <1>g, <1>t, <1>d DEF Undo, FilesTyped, Elsewhere, Own, Labels
    <2>2. ASSUME NEW e \in cl[i].placed,
                 at' = [at EXCEPT ![Target] = {f \in @ : f[1] # e}],
                 cl' = [cl EXCEPT ![i].placed = @ \ {e}]
          PROVE  FilesTyped' /\ ClTyped /\ Elsewhere(i)
        <3>1. FilesTyped' /\ \A d \in Dirs \ {Target} : at'[d] = at[d]
            BY <1>10, <2>2, <1>t, <1>d DEF Undo, FilesTyped
        <3>2. ClTyped /\ \A j \in Installers \ {i} : cl'[j] = cl[j]
            BY <2>2, <1>t DEF Record
        <3> QED BY <3>1, <3>2, <1>d DEF Elsewhere, Own
    <2> QED BY <1>10, <2>1, <2>2 DEF Undo
<1>11. CASE Restore(i)
    <2>1. CASE Removal({Previous(i)}) /\ Goto(i, "failing")
        BY <2>1, <1>r, <1>g, <1>d DEF Elsewhere, Own, Labels
    <2>2. ASSUME UNCHANGED made, NEW e \in cl[i].parked,
                 CanRename(e, Previous(i), Target), Rename(e, Previous(i), Target),
                 cl' = [cl EXCEPT ![i].parked = @ \ {e}]
          PROVE  FilesTyped' /\ ClTyped /\ Elsewhere(i)
        <3>1. /\ at' \in [Dirs -> SUBSET Files]
              /\ \A d \in Dirs \ {Previous(i), Target} : at'[d] = at[d]
              /\ Previous(i) \in made /\ Target \in made
            BY <2>2, <1>d DEF TypeOK, Rename, CanRename
        <3>2. FilesTyped'
            BY <3>1, <2>2, <1>t DEF FilesTyped
        <3>3. ClTyped /\ \A j \in Installers \ {i} : cl'[j] = cl[j]
            BY <2>2, <1>t DEF Record
        <3> QED BY <3>1, <3>2, <3>3, <1>d DEF Elsewhere, Own
    <2>3. CASE UNCHANGED made /\ \E e \in cl[i].parked : Fails(i, e, Previous(i), Target, "keep")
        BY <2>3, <1>o DEF Labels
    <2> QED BY <1>11, <2>1, <2>2, <2>3 DEF Restore
<1>12. CASE KeepParked(i)
    <2>1. ClTyped /\ \A j \in Installers \ {i} : cl'[j] = cl[j]
        BY <1>12, <1>g DEF KeepParked, Labels
    <2>2. CASE Keeps
        BY <2>1, <2>2, <1>k, <1>d DEF Elsewhere, Own
    <2>3. CASE /\ Previous(i) \in made
               /\ made' = (made \ {Previous(i)}) \cup {Kept(i)}
               /\ at' = [at EXCEPT ![Previous(i)] = {}, ![Kept(i)] = at[Previous(i)]]
        <3>1. FilesTyped'
            BY <2>3, <1>t, <1>d DEF FilesTyped
        <3>2. \A d \in Dirs \ {Previous(i), Kept(i)} : at'[d] = at[d]
            BY <2>3, <1>t DEF FilesTyped
        <3> QED BY <2>1, <3>1, <3>2, <1>d DEF Elsewhere, Own
    <2> QED BY <1>12, <2>2, <2>3 DEF KeepParked
<1>13. CASE Finish(i)
    BY <1>13, <1>r, <1>g, <1>d DEF Finish, Elsewhere, Own, Labels
<1>14. CASE Failing(i)
    BY <1>14, <1>r, <1>g, <1>d DEF Failing, Elsewhere, Own, Labels
<1>15. CASE Kill(i)
    <2>1. ClTyped /\ \A j \in Installers \ {i} : cl'[j] = cl[j]
        BY <1>15, <1>t DEF Kill, Record, Labels
    <2> QED BY <1>15, <2>1, <1>k, <1>d DEF Kill, Elsewhere, Own
<1> QED BY <1>1, <1>2, <1>3, <1>4, <1>5, <1>6, <1>7, <1>8, <1>9, <1>10, <1>11, <1>12,
           <1>13, <1>14, <1>15 DEF Step
(* A removal by cmdtools remove, or nothing at all, keeps the types.         *)
LEMMA RemoveFrame ==
    ASSUME TypeOK, removeCmdTools
    PROVE  TypeOK' /\ \A d \in Dirs : at'[d] = {}
<1>1. Target \in Dirs
    BY DEF Dirs
<1> QED BY <1>1, RemovalEffect DEF removeCmdTools, TypeOK

LEMMA TypeInit ==
    ASSUME Init PROVE TypeOK
<1> USE InstallAssumption
<1>1. Idle \in Record
    BY DEF Idle, Record, Labels
<1>2. at \in [Dirs -> SUBSET Files] /\ made \subseteq Dirs
    BY DEF Init, Files, Dirs
<1>3. (\A d \in Dirs : d \notin made => at[d] = {}) /\ (Target \notin made => made = {})
    BY DEF Init
<1>4. faults \in 0..MaxFaults /\ cl \in [Installers -> Record]
    BY <1>1 DEF Init
<1> QED BY <1>2, <1>3, <1>4 DEF TypeOK, Record

(* The state has its types, whether installs overlap or not.                 *)
THEOREM TypeCorrect == Spec => []TypeOK
<1>1. Init => TypeOK
    BY TypeInit
<1>2. TypeOK /\ [Next]_vars => TypeOK'
    <2>1. CASE UNCHANGED vars
        BY <2>1 DEF vars, TypeOK
    <2> QED BY <2>1, StepFrame, RemoveFrame DEF Next
<1> QED BY <1>1, <1>2, PTL DEF Spec

------------------------------------------------------------------------------
(* Only one install takes steps at a time, if they may not overlap.          *)
LEMMA OneActs ==
    ASSUME Overlap = FALSE, TypeOK, OneAtATime, NEW i \in Installers, Step(i)
    PROVE  /\ \A j \in Installers \ {i} : ~Running(j)
           /\ Start(i) \/ Running(i)
           /\ OneAtATime'
<1>1. Start(i) \/ Running(i)
    BY DEF Step, Fetch, Prepare, Clean, Stage, Fill, Swap, Park, Place, Undo, Restore,
           KeepParked, Finish, Failing, Kill, Running
<1>2. \A j \in Installers \ {i} : ~Running(j)
    <2>1. CASE Start(i)
        BY <2>1 DEF Start
    <2>2. CASE Running(i)
        BY <2>2 DEF OneAtATime
    <2> QED BY <1>1, <2>1, <2>2
<1>3. \A j \in Installers \ {i} : cl'[j] = cl[j]
    BY StepFrame DEF Elsewhere
<1>4. \A j \in Installers \ {i} : ~Running(j)'
    BY <1>2, <1>3 DEF Running
<1> QED BY <1>1, <1>2, <1>4 DEF OneAtATime

(* The invariant of the installs that do not act.                            *)
LEMMA OthersKeep ==
    ASSUME Overlap = FALSE, InstallInv, NEW i \in Installers, Step(i), NEW j \in Installers \ {i}
    PROVE  EarlyInv(j)' /\ MovingInv(j)' /\ KeptInv(j)'
<1>1. ~Running(j) /\ ~Running(j)' /\ cl'[j] = cl[j]
    <2>1. cl'[j] = cl[j]
        BY StepFrame DEF Elsewhere, InstallInv
    <2> QED BY <2>1, OneActs DEF InstallInv, Running
<1>2. cl[j].pc \in {"idle", "done", "failed", "killed"}
    BY <1>1 DEF InstallInv, TypeOK, Labels, Running
<1>3. at'[Previous(j)] \in {{}, at[Previous(j)]} /\ at'[Kept(j)] \in {{}, at[Kept(j)]}
    <2>1. {Previous(j), Kept(j)} \cap Own(i) = {} /\ {Previous(j), Kept(j)} \subseteq Dirs
        <3>1. /\ Target \notin {Previous(j), Kept(j)} /\ {Previous(j), Kept(j)} \subseteq Dirs
              /\ Previous(j) # Kept(i) /\ Previous(i) # Kept(j)
              /\ Staging(i) \notin {Previous(j), Kept(j)}
              /\ Previous(i) # Previous(j) /\ Kept(i) # Kept(j)
            BY Apart
        <3> QED BY <3>1 DEF Own
    <2> QED BY <2>1, StepFrame DEF Elsewhere, InstallInv
<1>4. EarlyInv(j) /\ KeptInv(j)
    BY DEF InstallInv, SwapInv
<1> QED BY <1>1, <1>2, <1>3, <1>4 DEF EarlyInv, MovingInv, KeptInv, Early, Moving
(* A step that only goes elsewhere keeps the install's other fields.         *)
Same(i) ==
    /\ cl'[i].was = cl[i].was /\ cl'[i].createdTarget = cl[i].createdTarget
    /\ cl'[i].park = cl[i].park /\ cl'[i].parked = cl[i].parked
    /\ cl'[i].place = cl[i].place /\ cl'[i].placed = cl[i].placed

LEMMA GotoFields ==
    ASSUME TypeOK, NEW i \in Installers, NEW pc, Goto(i, pc)
    PROVE  cl'[i].pc = pc /\ Same(i)
    BY DEF TypeOK, Goto, Same

(* What holds after a step of i, of its own part of the invariant; and that  *)
(* no step disturbs the old tools which an install has kept aside.           *)
KeptStay == \A j \in Installers : at[Kept(j)] # {} => at'[Kept(j)] = at[Kept(j)]
OwnInv(i) == EarlyInv(i) /\ MovingInv(i) /\ KeptInv(i)

(* A step that leaves the directories of kept tools alone.                   *)
LEMMA KeptUntouched ==
    ASSUME NEW i \in Installers, KeptInv(i), Running(i),
           cl'[i].was = cl[i].was, cl'[i].createdTarget = cl[i].createdTarget,
           \A j \in Installers : at'[Kept(j)] = at[Kept(j)],
           cl[i].pc \in Early \cup Moving \/ cl'[i].pc \in {"failed", "killed"}
    PROVE  KeptInv(i)' /\ KeptStay
    BY DEF KeptInv, KeptStay, Early, Moving, Running

(* The steps before the swap: nothing that the user sees changes.            *)
LEMMA EarlySteps ==
    ASSUME InstallInv, NEW i \in Installers,
           Start(i) \/ Fetch(i) \/ Prepare(i) \/ Clean(i) \/ Stage(i) \/ Fill(i)
    PROVE  OwnInv(i)' /\ KeptStay
<1>1. /\ Target \in Dirs /\ Staging(i) \in Dirs /\ Previous(i) \in Dirs
      /\ \A j \in Installers : Kept(j) \in Dirs /\ Kept(j) \notin WorkDirs /\ Kept(j) # Staging(i)
      /\ Target \notin WorkDirs /\ WorkDirs \subseteq Dirs
      /\ Target # Staging(i) /\ Previous(i) # Staging(i)
    BY Apart DEF Dirs
<1>2. EarlyInv(i) /\ MovingInv(i) /\ KeptInv(i) /\ TypeOK
    BY DEF InstallInv, SwapInv
<1>3. cl \in [Installers -> Record] /\ at \in [Dirs -> SUBSET Files]
    BY <1>2 DEF TypeOK, Record
<1>4. CASE Start(i)
    <2>1. /\ cl'[i].was = at[Target] /\ cl'[i].createdTarget = (Target \notin made)
          /\ cl'[i].pc = "fetch" /\ cl[i].pc = "idle" /\ at' = at
          /\ cl'[i].parked = {} /\ cl'[i].placed = {}
        BY <1>4, <1>3 DEF Start, Keeps, Idle, Record
    <2>2. Target \notin made => \A d \in Dirs : at[d] = {}
        BY <1>2 DEF TypeOK
    <2>3. EarlyInv(i)' /\ MovingInv(i)'
        BY <2>1, <1>2 DEF EarlyInv, MovingInv, Early, Moving
    <2>4. KeptInv(i)' /\ KeptStay
        BY <2>1, <2>2, <1>1, <1>2 DEF KeptInv, KeptStay, Early, Moving
    <2> QED BY <2>3, <2>4 DEF OwnInv
<1>5. ASSUME ~Start(i) PROVE OwnInv(i)' /\ KeptStay
    <2>1. /\ cl[i].pc \in Early \ {"swap"} /\ Same(i)
          /\ cl'[i].pc \in (Early \ {"fetch"}) \cup {"failing"}
          /\ cl'[i].pc = "swap" => Fill(i) /\ cl[i].pc = "fill" /\ ~Goto(i, "failing")
        <3>1. CASE Fetch(i)
            BY <3>1, <1>2, GotoFields DEF Fetch, Early
        <3>2. CASE Prepare(i)
            BY <3>2, <1>2, GotoFields DEF Prepare, Early
        <3>3. CASE Clean(i)
            BY <3>3, <1>2, GotoFields DEF Clean, Early
        <3>4. CASE Stage(i)
            BY <3>4, <1>2, GotoFields DEF Stage, Early
        <3>5. CASE Fill(i)
            BY <3>5, <1>2, GotoFields DEF Fill, Early
        <3> QED BY <1>5, <3>1, <3>2, <3>3, <3>4, <3>5
    <2>2. /\ at'[Target] = at[Target]
          /\ at'[Previous(i)] \in {{}, at[Previous(i)]}
          /\ \A j \in Installers : at'[Kept(j)] = at[Kept(j)]
        <3>1. CASE Clean(i)
            <4>1. PICK gone \in SUBSET (WorkDirs \cap made) : Removal(gone)
                BY <3>1 DEF Clean
            <4> QED BY <4>1, <1>1, <1>2, RemovalEffect
        <3>2. CASE Fill(i)
            BY <3>2, <1>1, <1>3 DEF Fill
        <3>3. CASE ~Clean(i) /\ ~Fill(i)
            BY <3>3, <1>5 DEF Fetch, Prepare, Stage, Keeps
        <3> QED BY <3>1, <3>2, <3>3
    <2>3. cl'[i].pc = "swap" => at'[Staging(i)] = Release(i)
        BY <2>1, <1>1, <1>3 DEF Fill
    <2>4. EarlyInv(i)' /\ MovingInv(i)'
        BY <2>1, <2>2, <2>3, <1>2 DEF EarlyInv, MovingInv, Early, Moving, Same
    <2>5. KeptInv(i)' /\ KeptStay
        BY <2>1, <2>2, <1>2, KeptUntouched DEF Same, Early, Running
    <2> QED BY <2>4, <2>5 DEF OwnInv
<1> QED BY <1>4, <1>5
(* The steps of the swap and of its undoing.                                 *)
LEMMA MovingSteps ==
    ASSUME InstallInv, NEW i \in Installers,
           Swap(i) \/ Park(i) \/ Place(i) \/ Undo(i) \/ Restore(i)
    PROVE  OwnInv(i)' /\ KeptStay
<1>1. /\ Target \in Dirs /\ Staging(i) \in Dirs /\ Previous(i) \in Dirs
      /\ \A j \in Installers : Kept(j) \in Dirs /\ Kept(j) \notin {Target, Staging(i), Previous(i)}
      /\ Target # Staging(i) /\ Target # Previous(i) /\ Previous(i) # Staging(i)
    BY Apart
<1>2. EarlyInv(i) /\ MovingInv(i) /\ KeptInv(i) /\ TypeOK
    BY DEF InstallInv, SwapInv
<1>3. cl \in [Installers -> Record] /\ at \in [Dirs -> SUBSET Files]
    BY <1>2 DEF TypeOK, Record
<1>4. cl[i].pc \in {"swap", "park", "place", "undo", "restore"}
    BY DEF Swap, Park, Place, Undo, Restore
<1> DEFINE Remembered == cl'[i].was = cl[i].was /\ cl'[i].createdTarget = cl[i].createdTarget
           KeptAlone == \A j \in Installers : at'[Kept(j)] = at[Kept(j)]
<1>5. ASSUME Remembered, KeptAlone PROVE KeptInv(i)' /\ KeptStay
    BY <1>5, <1>2, <1>4, KeptUntouched DEF Early, Moving, Running
<1>6. \A e, from, to, pc : Fails(i, e, from, to, pc) =>
         at' = at /\ cl'[i].pc = pc /\ Same(i)
    BY <1>2, GotoFields DEF Fails
<1>7. CASE Swap(i)
    <2>1. at' = at /\ cl[i].pc = "swap"
        BY <1>7 DEF Swap
    <2>2. CASE Goto(i, "failing")
        <3>1. cl'[i].pc = "failing" /\ Same(i)
            BY <2>2, <1>2, GotoFields
        <3> QED BY <2>1, <3>1, <1>2, <1>5 DEF OwnInv, EarlyInv, MovingInv, Early, Moving, Same
    <2>3. CASE ~Goto(i, "failing")
        <3>1. /\ at[Staging(i)] = Release(i) /\ at[Target] = cl[i].was
              /\ cl[i].parked = {} /\ cl[i].placed = {} /\ at[Previous(i)] = {}
            BY <2>1, <1>2 DEF EarlyInv, Early
        <3>2. Names(at[Staging(i)]) = Archive[i] /\ Archive[i] \in SUBSET Entries
            <4>1. \A e \in Archive[i] : <<e, i>> \in Release(i) /\ <<e, i>>[1] = e
                BY DEF Release
            <4>2. \A f \in Release(i) : f[1] \in Archive[i]
                BY DEF Release
            <4>3. Archive[i] \subseteq Names(Release(i))
                BY <4>1 DEF Names
            <4>4. Names(Release(i)) \subseteq Archive[i]
                BY <4>2 DEF Names
            <4>5. Archive[i] \in SUBSET Entries
                BY InstallAssumption
            <4> QED BY <3>1, <4>3, <4>4, <4>5
        <3>3. /\ cl'[i].pc = "park" /\ Remembered
              /\ cl'[i].parked = {} /\ cl'[i].placed = {}
              /\ cl'[i].place = Archive[i]
              /\ cl'[i].park = (Names(cl[i].was) \cap (Archive[i] \cup ToolEntries)) \ Keep
            BY <1>7, <2>3, <3>1, <3>2, <1>2, SwapEffect
        <3>4. EarlyInv(i)'
            BY <3>3 DEF EarlyInv, Early
        <3>5. MovingInv(i)'
            BY <2>1, <3>1, <3>3 DEF MovingInv, Moving, Replaceable
        <3> QED BY <2>1, <3>3, <3>4, <3>5, <1>5 DEF OwnInv
    <2> QED BY <2>2, <2>3
<1>8. ASSUME cl'[i].pc \notin Early \cup {"idle"} PROVE EarlyInv(i)'
    BY <1>8 DEF EarlyInv, Early
<1>9. CASE Park(i)
    <2>1. /\ cl[i].pc = "park" /\ cl[i].placed = {}
          /\ at[Target] = {f \in cl[i].was : f[1] \notin cl[i].parked}
          /\ at[Previous(i)] = {f \in cl[i].was : f[1] \in cl[i].parked}
          /\ at[Staging(i)] = Release(i)
          /\ cl[i].park \cup cl[i].parked = Replaceable(i)
          /\ cl[i].place = Archive[i]
        BY <1>9, <1>2 DEF Park, MovingInv, Moving
    <2>2. CASE cl[i].park = {} /\ at' = at /\ Goto(i, "place")
        <3>1. cl'[i].pc = "place" /\ Same(i)
            BY <2>2, <1>2, GotoFields
        <3>2. MovingInv(i)'
            BY <2>1, <2>2, <3>1 DEF MovingInv, Moving, Same, Replaceable
        <3> QED BY <2>2, <3>1, <3>2, <1>5, <1>8 DEF OwnInv, Same, Early
    <2>3. ASSUME NEW e \in cl[i].park, Move(i, e, Target, Previous(i), "park", "parked")
          PROVE  OwnInv(i)' /\ KeptStay
        <3>1. /\ at'[Target] = {f \in at[Target] : f[1] # e}
              /\ at'[Previous(i)] = at[Previous(i)] \cup {f \in at[Target] : f[1] = e}
              /\ \A d \in Dirs \ {Target, Previous(i)} : at'[d] = at[d]
            BY <2>3, <1>1, <1>3 DEF Move, Rename
        <3>2. /\ cl'[i].pc = "park" /\ Remembered
              /\ cl'[i].park = cl[i].park \ {e} /\ cl'[i].parked = cl[i].parked \cup {e}
              /\ cl'[i].place = cl[i].place /\ cl'[i].placed = {}
            BY <2>1, <2>3, <1>3 DEF Move, Record
        <3>3. /\ at'[Target] = {f \in cl'[i].was : f[1] \notin cl'[i].parked}
              /\ at'[Previous(i)] = {f \in cl'[i].was : f[1] \in cl'[i].parked}
              /\ at'[Staging(i)] = Release(i)
              /\ cl'[i].park \cup cl'[i].parked = Replaceable(i)'
            BY <2>1, <3>1, <3>2, <1>1 DEF Replaceable
        <3>4. MovingInv(i)'
            BY <2>1, <3>2, <3>3 DEF MovingInv, Moving
        <3> QED BY <3>1, <3>2, <3>4, <1>1, <1>5, <1>8 DEF OwnInv, Early
    <2>4. CASE \E e \in cl[i].park : Fails(i, e, Target, Previous(i), "undo")
        <3>1. cl'[i].pc = "undo" /\ Same(i) /\ at' = at
            BY <2>4, <1>6
        <3>2. MovingInv(i)'
            BY <2>1, <3>1 DEF MovingInv, Moving, Same, Replaceable
        <3> QED BY <3>1, <3>2, <1>5, <1>8 DEF OwnInv, Same, Early
    <2> QED BY <1>9, <2>2, <2>3, <2>4 DEF Park
<1>10. CASE Place(i)
    <2>1. /\ cl[i].pc = "place" /\ cl[i].park = {} /\ cl[i].parked = Replaceable(i)
          /\ at[Target] = {f \in cl[i].was : f[1] \notin cl[i].parked}
                          \cup {f \in Release(i) : f[1] \in cl[i].placed}
          /\ at[Previous(i)] = {f \in cl[i].was : f[1] \in cl[i].parked}
          /\ at[Staging(i)] = {f \in Release(i) : f[1] \notin cl[i].placed}
          /\ \A f \in cl[i].was : f[1] \in cl[i].placed => f[1] \in cl[i].parked
          /\ cl[i].place \cup cl[i].placed = Archive[i]
        BY <1>10, <1>2 DEF Place, MovingInv, Moving
    <2>2. CASE cl[i].place = {} /\ at' = at /\ Goto(i, "finish")
        <3>1. cl'[i].pc = "finish" /\ Same(i)
            BY <2>2, <1>2, GotoFields
        <3>2. MovingInv(i)'
            BY <2>1, <2>2, <3>1 DEF MovingInv, Moving, Same, Replaceable
        <3> QED BY <2>2, <3>1, <3>2, <1>5, <1>8 DEF OwnInv, Same, Early
    <2>3. ASSUME NEW e \in cl[i].place, Move(i, e, Staging(i), Target, "place", "placed")
          PROVE  OwnInv(i)' /\ KeptStay
        <3>1. /\ at'[Staging(i)] = {f \in at[Staging(i)] : f[1] # e}
              /\ at'[Target] = at[Target] \cup {f \in at[Staging(i)] : f[1] = e}
              /\ \A d \in Dirs \ {Target, Staging(i)} : at'[d] = at[d]
              /\ \A f \in at[Target] : f[1] # e
            BY <2>3, <1>1, <1>3 DEF Move, Rename, CanRename, Names
        <3>2. /\ cl'[i].pc = "place" /\ Remembered
              /\ cl'[i].place = cl[i].place \ {e} /\ cl'[i].placed = cl[i].placed \cup {e}
              /\ cl'[i].park = {} /\ cl'[i].parked = cl[i].parked
            BY <2>1, <2>3, <1>3 DEF Move, Record
        <3>3. /\ at'[Target] = {f \in cl'[i].was : f[1] \notin cl'[i].parked}
                               \cup {f \in Release(i) : f[1] \in cl'[i].placed}
              /\ at'[Previous(i)] = {f \in cl'[i].was : f[1] \in cl'[i].parked}
              /\ at'[Staging(i)] = {f \in Release(i) : f[1] \notin cl'[i].placed}
            BY <2>1, <3>1, <3>2, <1>1
        <3>4. /\ \A f \in cl'[i].was : f[1] \in cl'[i].placed => f[1] \in cl'[i].parked
              /\ cl'[i].place \cup cl'[i].placed = Archive[i]
              /\ cl'[i].parked = Replaceable(i)'
            BY <2>1, <3>1, <3>2 DEF Replaceable
        <3>5. MovingInv(i)'
            BY <3>2, <3>3, <3>4 DEF MovingInv, Moving
        <3> QED BY <3>1, <3>2, <3>5, <1>1, <1>5, <1>8 DEF OwnInv, Early
    <2>4. CASE \E e \in cl[i].place : Fails(i, e, Staging(i), Target, "undo")
        <3>1. cl'[i].pc = "undo" /\ Same(i) /\ at' = at
            BY <2>4, <1>6
        <3>2. MovingInv(i)'
            BY <2>1, <3>1 DEF MovingInv, Moving, Same, Replaceable
        <3> QED BY <3>1, <3>2, <1>5, <1>8 DEF OwnInv, Same, Early
    <2> QED BY <1>10, <2>2, <2>3, <2>4 DEF Place
<1>11. CASE Undo(i)
    <2>1. /\ cl[i].pc = "undo" /\ cl[i].parked \subseteq Replaceable(i)
          /\ at[Target] = {f \in cl[i].was : f[1] \notin cl[i].parked}
                          \cup {f \in Release(i) : f[1] \in cl[i].placed}
          /\ at[Previous(i)] = {f \in cl[i].was : f[1] \in cl[i].parked}
          /\ \A f \in cl[i].was : f[1] \in cl[i].placed => f[1] \in cl[i].parked
        BY <1>11, <1>2 DEF Undo, MovingInv, Moving
    <2>2. ASSUME at' = at, NEW pc \in {"restore", "failing"}, Goto(i, pc), pc = "restore" => cl[i].placed = {}
          PROVE  OwnInv(i)' /\ KeptStay
        <3>1. cl'[i].pc = pc /\ Same(i)
            BY <2>2, <1>2, GotoFields
        <3>2. MovingInv(i)'
            BY <2>1, <2>2, <3>1 DEF MovingInv, Moving, Same, Replaceable
        <3> QED BY <2>2, <3>1, <3>2, <1>5, <1>8 DEF OwnInv, Same, Early
    <2>3. ASSUME NEW e \in cl[i].placed,
                 at' = [at EXCEPT ![Target] = {f \in @ : f[1] # e}],
                 cl' = [cl EXCEPT ![i].placed = @ \ {e}]
          PROVE  OwnInv(i)' /\ KeptStay
        <3>1. /\ at'[Target] = {f \in at[Target] : f[1] # e}
              /\ \A d \in Dirs \ {Target} : at'[d] = at[d]
            BY <2>3, <1>1, <1>3
        <3>2. /\ cl'[i].pc = "undo" /\ Remembered
              /\ cl'[i].placed = cl[i].placed \ {e} /\ cl'[i].parked = cl[i].parked
            BY <2>1, <2>3, <1>3 DEF Record
        <3>3. /\ at'[Target] = {f \in cl'[i].was : f[1] \notin cl'[i].parked}
                               \cup {f \in Release(i) : f[1] \in cl'[i].placed}
              /\ at'[Previous(i)] = {f \in cl'[i].was : f[1] \in cl'[i].parked}
              /\ \A f \in cl'[i].was : f[1] \in cl'[i].placed => f[1] \in cl'[i].parked
              /\ cl'[i].parked \subseteq Replaceable(i)'
            BY <2>1, <3>1, <3>2, <1>1, <2>3 DEF Replaceable
        <3>4. MovingInv(i)'
            BY <3>2, <3>3 DEF MovingInv, Moving
        <3> QED BY <3>1, <3>2, <3>4, <1>1, <1>5, <1>8 DEF OwnInv, Early
    <2> QED BY <1>11, <2>2, <2>3 DEF Undo
<1>12. CASE Restore(i)
    <2>1. /\ cl[i].pc = "restore" /\ cl[i].parked \subseteq Replaceable(i) /\ cl[i].placed = {}
          /\ at[Target] = {f \in cl[i].was : f[1] \notin cl[i].parked}
          /\ at[Previous(i)] = {f \in cl[i].was : f[1] \in cl[i].parked}
        BY <1>12, <1>2 DEF Restore, MovingInv, Moving
    <2>2. CASE Removal({Previous(i)}) /\ Goto(i, "failing")
        <3>1. cl'[i].pc = "failing" /\ Same(i)
            BY <2>2, <1>2, GotoFields
        <3>2. KeptAlone
            BY <2>2, <1>1, <1>2, RemovalEffect
        <3> QED BY <3>1, <3>2, <1>5, <1>8 DEF OwnInv, MovingInv, Moving, Same, Early
    <2>3. ASSUME NEW e \in cl[i].parked, Rename(e, Previous(i), Target),
                 cl' = [cl EXCEPT ![i].parked = @ \ {e}]
          PROVE  OwnInv(i)' /\ KeptStay
        <3>1. /\ at'[Previous(i)] = {f \in at[Previous(i)] : f[1] # e}
              /\ at'[Target] = at[Target] \cup {f \in at[Previous(i)] : f[1] = e}
              /\ \A d \in Dirs \ {Target, Previous(i)} : at'[d] = at[d]
            BY <2>3, <1>1, <1>3 DEF Rename
        <3>2. /\ cl'[i].pc = "restore" /\ Remembered
              /\ cl'[i].placed = {} /\ cl'[i].parked = cl[i].parked \ {e}
            BY <2>1, <2>3, <1>3 DEF Record
        <3>3. /\ at'[Target] = {f \in cl'[i].was : f[1] \notin cl'[i].parked}
              /\ at'[Previous(i)] = {f \in cl'[i].was : f[1] \in cl'[i].parked}
              /\ cl'[i].parked \subseteq Replaceable(i)'
            BY <2>1, <3>1, <3>2, <1>1, <2>3 DEF Replaceable
        <3>4. MovingInv(i)'
            BY <3>2, <3>3 DEF MovingInv, Moving
        <3> QED BY <3>1, <3>2, <3>4, <1>1, <1>5, <1>8 DEF OwnInv, Early
    <2>4. ASSUME NEW e \in cl[i].parked, Fails(i, e, Previous(i), Target, "keep")
          PROVE  OwnInv(i)' /\ KeptStay
        <3>1. cl'[i].pc = "keep" /\ Same(i) /\ at' = at
            BY <2>4, <1>6
        <3>2. MovingInv(i)'
            BY <2>1, <2>4, <3>1 DEF MovingInv, Moving, Same, Replaceable
        <3> QED BY <3>1, <3>2, <1>5, <1>8 DEF OwnInv, Same, Early
    <2> QED BY <1>12, <2>2, <2>3, <2>4 DEF Restore
<1> QED BY <1>7, <1>9, <1>10, <1>11, <1>12
(* The steps that end an install.                                            *)
LEMMA EndingSteps ==
    ASSUME InstallInv, NEW i \in Installers,
           KeepParked(i) \/ Finish(i) \/ Failing(i) \/ Kill(i)
    PROVE  OwnInv(i)' /\ KeptStay
<1>1. /\ {Target, Staging(i), Previous(i)} \subseteq Dirs
      /\ \A j \in Installers : Kept(j) \in Dirs /\ Kept(j) \notin {Target, Staging(i), Previous(i)}
      /\ \A j \in Installers \ {i} : Kept(j) # Kept(i)
      /\ Target # Staging(i) /\ Target # Previous(i)
    BY Apart
<1>2. EarlyInv(i) /\ MovingInv(i) /\ KeptInv(i) /\ TypeOK
    BY DEF InstallInv, SwapInv
<1>3. cl \in [Installers -> Record] /\ at \in [Dirs -> SUBSET Files]
    BY <1>2 DEF TypeOK, Record
<1>4. Running(i)
    BY DEF KeepParked, Finish, Failing, Kill, Running
<1>5. Same(i) /\ cl'[i].pc \in {"failing", "done", "failed", "killed"}
    <2>1. CASE Kill(i)
        BY <2>1, <1>3 DEF Kill, Same, Record
    <2> QED BY <2>1, <1>2, GotoFields DEF KeepParked, Finish, Failing
<1>6. EarlyInv(i)' /\ MovingInv(i)'
    BY <1>5 DEF EarlyInv, MovingInv, Early, Moving
<1>7. CASE KeepParked(i)
    <2>1. /\ cl'[i].pc = "failing" /\ cl[i].pc = "keep" /\ at[Kept(i)] = {}
          /\ cl[i].createdTarget => cl[i].was = {} /\ \A j \in Installers : at[Kept(j)] = {}
          /\ at[Previous(i)] = {f \in cl[i].was : f[1] \in cl[i].parked}
        BY <1>7, <1>2, <1>4, GotoFields DEF KeepParked, KeptInv, MovingInv, Moving
    <2>2. /\ \A j \in Installers \ {i} : at'[Kept(j)] = at[Kept(j)]
          /\ at'[Kept(i)] = at[Kept(i)] \/ at'[Kept(i)] = at[Previous(i)]
        BY <1>7, <1>1, <1>3 DEF KeepParked, Keeps
    <2>3. KeptInv(i)'
        BY <2>1, <2>2, <1>5 DEF KeptInv, Same, Early, Moving
    <2> QED BY <2>1, <2>2, <2>3, <1>6 DEF KeptStay, OwnInv
<1>8. CASE Finish(i)
    <2>1. \A j \in Installers : at'[Kept(j)] = at[Kept(j)]
        BY <1>8, <1>1, <1>2, RemovalEffect DEF Finish
    <2>2. cl[i].pc \in Moving
        BY <1>8 DEF Finish, Moving
    <2> QED BY <2>1, <2>2, <1>2, <1>4, <1>5, <1>6, KeptUntouched DEF OwnInv, Same
<1>9. CASE Failing(i)
    <2>1. cl'[i].pc = "failed"
        BY <1>9, <1>2, GotoFields DEF Failing
    <2>2. \A j \in Installers : at'[Kept(j)] = at[Kept(j)]
        <3>1. CASE cl[i].createdTarget
            <4>1. \A j \in Installers : at[Kept(j)] = {}
                BY <3>1, <1>2, <1>4 DEF KeptInv
            <4>2. Removal({Target})
                BY <3>1, <1>9 DEF Failing
            <4> QED BY <4>1, <4>2, <1>1, <1>2, RemovalEffect
        <3>2. CASE ~cl[i].createdTarget
            <4>1. Removal({Staging(i)})
                BY <3>2, <1>9 DEF Failing
            <4> QED BY <4>1, <1>1, <1>2, RemovalEffect
        <3> QED BY <3>1, <3>2
    <2> QED BY <2>1, <2>2, <1>2, <1>4, <1>5, <1>6, KeptUntouched DEF OwnInv, Same
<1>10. CASE Kill(i)
    <2>1. cl'[i].pc = "killed" /\ at' = at
        BY <1>10, <1>3 DEF Kill, Keeps, Record
    <2> QED BY <2>1, <1>2, <1>4, <1>5, <1>6, KeptUntouched DEF OwnInv, Same
<1> QED BY <1>7, <1>8, <1>9, <1>10

(* The invariant holds in the beginning, and every step keeps it and the     *)
(* old tools that were kept aside.                                           *)
LEMMA InstallStep ==
    ASSUME Overlap = FALSE, InstallInv, [Next]_vars
    PROVE  InstallInv' /\ (KeptStay \/ removeCmdTools)
<1>1. ASSUME NEW i \in Installers, Step(i) PROVE InstallInv' /\ KeptStay
    <2>1. TypeOK' /\ OneAtATime'
        BY <1>1, StepFrame, OneActs DEF InstallInv
    <2>2. OwnInv(i)' /\ KeptStay
        BY <1>1, EarlySteps, MovingSteps, EndingSteps DEF Step
    <2>3. \A j \in Installers \ {i} : OwnInv(j)'
        BY <1>1, OthersKeep DEF OwnInv
    <2> QED BY <2>1, <2>2, <2>3 DEF InstallInv, SwapInv, OwnInv
<1>2. CASE removeCmdTools
    <2>1. TypeOK' /\ (\A d \in Dirs : at'[d] = {}) /\ UNCHANGED cl
        BY <1>2, RemoveFrame DEF InstallInv, removeCmdTools
    <2>2. \A j \in Installers : ~Running(j) /\ cl[j].pc \in Labels
        BY <1>2 DEF removeCmdTools, InstallInv, TypeOK
    <2>3. ASSUME NEW j \in Installers PROVE OwnInv(j)'
        <3>1. cl[j].pc \in {"idle", "done", "failed", "killed"} /\ cl'[j].pc = cl[j].pc
            BY <2>1, <2>2 DEF Running, Labels
        <3>2. at'[Previous(j)] = {} /\ at'[Kept(j)] = {}
            BY <2>1, Apart
        <3> QED BY <3>1, <3>2 DEF OwnInv, EarlyInv, MovingInv, KeptInv, Early, Moving, Running
    <2>4. OneAtATime'
        BY <2>1, <2>2 DEF OneAtATime, Running
    <2> QED BY <1>2, <2>1, <2>3, <2>4 DEF InstallInv, SwapInv, OwnInv
<1>3. CASE UNCHANGED vars
    BY <1>3 DEF vars, InstallInv, TypeOK, OneAtATime, SwapInv, EarlyInv, MovingInv, KeptInv,
                KeptStay, Running, Replaceable
<1> QED BY <1>1, <1>2, <1>3 DEF Next

LEMMA InstallInit ==
    ASSUME Init PROVE InstallInv
<1>1. \A i \in Installers : cl[i] = Idle /\ Idle.pc = "idle"
    BY DEF Init, Idle
<1>2. \A i \in Installers : at[Previous(i)] = {} /\ at[Kept(i)] = {}
    <2>1. \A i \in Installers : {Previous(i), Kept(i)} \subseteq Dirs /\ Target \notin {Previous(i), Kept(i)}
        BY Apart
    <2> QED BY <2>1 DEF Init
<1>3. OneAtATime /\ SwapInv
    BY <1>1, <1>2 DEF OneAtATime, SwapInv, EarlyInv, MovingInv, KeptInv, Early, Moving, Running
<1>4. TypeOK
    BY TypeInit
<1> QED BY <1>3, <1>4 DEF InstallInv
(* What a completed install leaves, in terms of its own record.              *)
LEMMA FinishIsExact ==
    ASSUME InstallInv, NEW i \in Installers, Finish(i)
    PROVE  at'[Target] = {f \in cl[i].was : f[1] \notin (ToolEntries \cup Archive[i]) \ Keep}
                         \cup Release(i)
<1>1. {Target, Staging(i), Previous(i)} \subseteq Dirs /\ Target \notin {Staging(i), Previous(i)}
    BY Apart
<1>2. at'[Target] = at[Target]
    BY <1>1, RemovalEffect DEF Finish, InstallInv
<1>3. /\ at[Target] = {f \in cl[i].was : f[1] \notin cl[i].parked}
                      \cup {f \in Release(i) : f[1] \in cl[i].placed}
      /\ cl[i].parked = Replaceable(i) /\ cl[i].placed = Archive[i]
    <2>1. MovingInv(i) /\ cl[i].pc = "finish"
        BY DEF InstallInv, SwapInv, Finish
    <2> QED BY <2>1 DEF MovingInv, Moving
<1>4. \A f \in Release(i) : f[1] \in Archive[i]
    BY DEF Release
<1>5. \A f \in cl[i].was : f[1] \in Replaceable(i) <=> f[1] \in (ToolEntries \cup Archive[i]) \ Keep
    BY DEF Replaceable, Names
<1> QED BY <1>2, <1>3, <1>4, <1>5

(* When installs do not overlap, whatever fails and whoever is killed: a     *)
(* completed install has left its release and what is not the tools', and    *)
(* old tools that could not be put back outlive every later install.         *)
THEOREM CompletedInstallsAreExact ==
    ASSUME Overlap = FALSE PROVE Spec => ToolsAreExact
<1>1. Init => InstallInv
    BY InstallInit
<1>2. InstallInv /\ [Next]_vars => InstallInv'
    BY InstallStep
<1>3. InstallInv /\ [Next]_vars =>
        [\A i \in Installers : Finish(i) =>
           at'[Target] = {f \in cl[i].was : f[1] \notin (ToolEntries \cup Archive[i]) \ Keep}
                         \cup Release(i)]_vars
    BY FinishIsExact
<1>4. InstallInv /\ [Next]_vars =>
        [\A i \in Installers : at[Kept(i)] # {} /\ ~removeCmdTools => at'[Kept(i)] = at[Kept(i)]]_vars
    BY InstallStep DEF KeptStay
<1> QED BY <1>1, <1>2, <1>3, <1>4, PTL DEF Spec, ToolsAreExact, SuccessIsExact, KeptToolsStay
------------------------------------------------------------------------------
(* When removals do not fail either, what an install leaves when it fails:   *)
(* where its directories are, and what is in the install directory.          *)
FailInv(i) ==
    /\ cl[i].pc \in Early \cup {"idle"} => Previous(i) \notin made
    /\ cl[i].pc \in {"fill", "swap"} => Staging(i) \in made
    /\ Running(i) /\ ~cl[i].createdTarget => Target \in made
    /\ cl[i].pc = "failing" =>
         /\ at[Target] \subseteq cl[i].was
         /\ cl[i].parked = {} => at[Target] = cl[i].was /\ Previous(i) \notin made
AtomicInv == InstallInv /\ \A i \in Installers : FailInv(i)

(* A step makes no directory but the install directory and its own.          *)
LEMMA MadeFrame ==
    ASSUME TypeOK, NEW i \in Installers, Step(i)
    PROVE  made' \subseteq made \cup Own(i)
<1>1. Own(i) \subseteq Dirs /\ WorkDirs \subseteq Dirs
    BY Apart DEF Own, Dirs
<1>2. ASSUME NEW dirs \in SUBSET Dirs, Removal(dirs) PROVE made' \subseteq made
    BY <1>2, RemovalEffect
<1>3. CASE Clean(i)
    BY <1>1, <1>2, <1>3 DEF Clean
<1>4. CASE Restore(i) \/ Finish(i) \/ Failing(i)
    BY <1>1, <1>2, <1>4 DEF Restore, Finish, Failing, Own
<1>5. CASE ~(Clean(i) \/ Restore(i) \/ Finish(i) \/ Failing(i))
    BY <1>5 DEF Step, Start, Fetch, Prepare, Stage, Fill, Swap, Park, Place, Undo, KeepParked, Kill,
                Keeps, Own
<1> QED BY <1>3, <1>4, <1>5

LEMMA FailStep ==
    ASSUME Overlap = FALSE, RmFails = FALSE, AtomicInv, NEW i \in Installers, Step(i)
    PROVE  \A j \in Installers : FailInv(j)'
<1>1. /\ Target \in Dirs /\ Staging(i) \in Dirs /\ Previous(i) \in Dirs
      /\ Target \notin WorkDirs /\ WorkDirs \subseteq Dirs
      /\ Target # Staging(i) /\ Target # Previous(i) /\ Previous(i) # Staging(i) /\ Previous(i) # Kept(i)
    BY Apart DEF Dirs
<1>2. InstallInv /\ EarlyInv(i) /\ MovingInv(i) /\ KeptInv(i) /\ FailInv(i) /\ TypeOK
    BY DEF AtomicInv, InstallInv, SwapInv
<1>3. cl \in [Installers -> Record] /\ at \in [Dirs -> SUBSET Files]
    BY <1>2 DEF TypeOK, Record
<1>4. ASSUME NEW j \in Installers \ {i} PROVE FailInv(j)'
    <2>1. ~Running(j) /\ cl'[j] = cl[j] /\ cl[j].pc \in Labels
        BY <1>2, OneActs, StepFrame DEF InstallInv, Elsewhere, TypeOK
    <2>2. cl[j].pc \in {"idle", "done", "failed", "killed"}
        BY <2>1 DEF Running, Labels
    <2>3. Previous(j) \notin Own(i)
        BY Apart DEF Own
    <2>4. Previous(j) \notin made => Previous(j) \notin made'
        BY <2>3, <1>2, MadeFrame
    <2> QED BY <2>1, <2>2, <2>4 DEF AtomicInv, FailInv, Early, Running
<1>5. CASE Start(i)
    <2>1. /\ cl'[i].createdTarget = (Target \notin made)
          /\ cl'[i].pc = "fetch" /\ cl[i].pc = "idle" /\ made' = made
        BY <1>5, <1>3 DEF Start, Keeps, Idle, Record
    <2> QED BY <2>1, <1>2, <1>4 DEF FailInv, Early
<1>6. CASE Fetch(i) \/ Prepare(i) \/ Clean(i) \/ Stage(i) \/ Fill(i)
    <2>1. /\ cl[i].pc \in Early /\ Same(i) /\ cl'[i].pc \in Early \cup {"failing"}
          /\ cl'[i].pc = "fill" => Stage(i) /\ ~Goto(i, "failing")
          /\ cl'[i].pc = "swap" => Fill(i) /\ cl[i].pc = "fill"
        <3>1. CASE Fetch(i)
            BY <3>1, <1>2, GotoFields DEF Fetch, Early
        <3>2. CASE Prepare(i)
            BY <3>2, <1>2, GotoFields DEF Prepare, Early
        <3>3. CASE Clean(i)
            BY <3>3, <1>2, GotoFields DEF Clean, Early
        <3>4. CASE Stage(i)
            BY <3>4, <1>2, GotoFields DEF Stage, Early
        <3>5. CASE Fill(i)
            BY <3>5, <1>2, GotoFields DEF Fill, Early
        <3> QED BY <1>6, <3>1, <3>2, <3>3, <3>4, <3>5
    <2>2. at'[Target] = at[Target] /\ made' \subseteq made \cup {Target, Staging(i)}
          /\ (Target \in made => Target \in made')
        <3>1. CASE Clean(i)
            <4>1. PICK gone \in SUBSET (WorkDirs \cap made) : Removal(gone)
                BY <3>1 DEF Clean
            <4> QED BY <4>1, <1>1, <1>2, RemovalEffect
        <3>2. CASE Fill(i)
            BY <3>2, <1>1, <1>3 DEF Fill
        <3>3. CASE ~Clean(i) /\ ~Fill(i)
            BY <3>3, <1>6 DEF Fetch, Prepare, Stage, Keeps
        <3> QED BY <3>1, <3>2, <3>3
    <2>3. cl'[i].pc \in {"fill", "swap"} => Staging(i) \in made'
        BY <2>1, <1>2 DEF Stage, Fill, FailInv
    <2>4. at[Target] = cl[i].was /\ cl[i].parked = {} /\ Previous(i) \notin made
        BY <2>1, <1>2 DEF EarlyInv, FailInv
    <2> QED BY <2>1, <2>2, <2>3, <2>4, <1>1, <1>2, <1>4 DEF FailInv, Same, Running, Early
<1>7. CASE Swap(i)
    <2>1. Target \in made /\ Staging(i) \in made
        BY <1>7, <1>2 DEF Swap, FailInv, TypeOK
    <2>2. /\ cl'[i].pc = "park" /\ made \subseteq made'
          /\ cl'[i].was = cl[i].was /\ cl'[i].createdTarget = cl[i].createdTarget
        BY <2>1, <1>7, <1>2, SwapEffect DEF Swap
    <2> QED BY <2>1, <2>2, <1>4 DEF FailInv, Running, Early
<1>8. CASE Park(i) \/ Place(i) \/ Undo(i)
    <2>1. /\ made' = made /\ Running(i)
          /\ cl'[i].pc \in Moving
          /\ cl'[i].was = cl[i].was /\ cl'[i].createdTarget = cl[i].createdTarget
        <3>1. \A e, from, to, pc : Fails(i, e, from, to, pc) => cl'[i].pc = pc /\ Same(i)
            BY <1>2, GotoFields DEF Fails
        <3>2. CASE Park(i)
            <4>1. CASE Goto(i, "place") \/ \E e : Fails(i, e, Target, Previous(i), "undo")
                BY <4>1, <3>1, <3>2, <1>2, GotoFields DEF Park, Moving, Same, Running
            <4>2. CASE \E e : Move(i, e, Target, Previous(i), "park", "parked")
                BY <4>2, <3>2, <1>3 DEF Park, Move, Moving, Record, Running
            <4> QED BY <3>2, <4>1, <4>2 DEF Park
        <3>3. CASE Place(i)
            <4>1. CASE Goto(i, "finish") \/ \E e : Fails(i, e, Staging(i), Target, "undo")
                BY <4>1, <3>1, <3>3, <1>2, GotoFields DEF Place, Moving, Same, Running
            <4>2. CASE \E e : Move(i, e, Staging(i), Target, "place", "placed")
                BY <4>2, <3>3, <1>3 DEF Place, Move, Moving, Record, Running
            <4> QED BY <3>3, <4>1, <4>2 DEF Place
        <3>4. CASE Undo(i)
            <4>1. CASE Goto(i, "restore")
                BY <4>1, <3>4, <1>2, GotoFields DEF Undo, Moving, Same, Running
            <4>2. CASE \E e \in cl[i].placed : cl' = [cl EXCEPT ![i].placed = @ \ {e}]
                BY <4>2, <3>4, <1>3 DEF Undo, Moving, Record, Running
            <4> QED BY <3>4, <4>1, <4>2 DEF Undo, RmFault
        <3> QED BY <1>8, <3>2, <3>3, <3>4
    <2> QED BY <2>1, <1>2, <1>4 DEF FailInv, Running, Early, Moving
<1>9. CASE Restore(i)
    <2>1. /\ cl[i].pc = "restore" /\ cl[i].placed = {} /\ Running(i)
          /\ at[Target] = {f \in cl[i].was : f[1] \notin cl[i].parked}
        BY <1>9, <1>2 DEF Restore, MovingInv, Moving, Running
    <2>2. CASE cl[i].parked = {} /\ Removal({Previous(i)}) /\ Goto(i, "failing")
        <3>1. cl'[i].pc = "failing" /\ Same(i)
            BY <2>2, <1>2, GotoFields
        <3>2. made' = made \ {Previous(i)} /\ at'[Target] = at[Target]
            BY <2>2, <1>1, <1>2, RemovalEffect
        <3> QED BY <2>1, <2>2, <3>1, <3>2, <1>1, <1>2, <1>4 DEF FailInv, Same, Running, Early
    <2>3. CASE made' = made /\ \E e \in cl[i].parked : cl' = [cl EXCEPT ![i].parked = @ \ {e}]
        <3>1. /\ cl'[i].pc = "restore"
              /\ cl'[i].was = cl[i].was /\ cl'[i].createdTarget = cl[i].createdTarget
            BY <2>1, <2>3, <1>3 DEF Record
        <3> QED BY <2>1, <2>3, <3>1, <1>2, <1>4 DEF FailInv, Running, Early
    <2>4. CASE made' = made /\ \E e : Fails(i, e, Previous(i), Target, "keep")
        <3>1. cl'[i].pc = "keep" /\ Same(i)
            BY <2>4, <1>2, GotoFields DEF Fails
        <3> QED BY <2>1, <2>4, <3>1, <1>2, <1>4 DEF FailInv, Same, Running, Early
    <2> QED BY <1>9, <2>2, <2>3, <2>4 DEF Restore
<1>10. CASE KeepParked(i)
    <2>1. cl'[i].pc = "failing" /\ Same(i) /\ Running(i) /\ cl[i].pc = "keep"
        BY <1>10, <1>2, GotoFields DEF KeepParked, Running
    <2>2. at[Target] \subseteq cl[i].was /\ cl[i].parked # {}
        BY <2>1, <1>2 DEF MovingInv, Moving
    <2>3. at'[Target] = at[Target] /\ (Target \in made => Target \in made')
        <3>1. Target # Kept(i)
            BY Apart
        <3> QED BY <3>1, <1>10, <1>1, <1>3 DEF KeepParked, Keeps
    <2> QED BY <2>1, <2>2, <2>3, <1>2, <1>4 DEF FailInv, Same, Running, Early
<1>11. CASE Finish(i) \/ Failing(i) \/ Kill(i)
    <2>1. cl'[i].pc \in {"done", "failed", "killed"}
        <3>1. CASE Kill(i)
            BY <3>1, <1>3 DEF Kill, Record
        <3> QED BY <3>1, <1>11, <1>2, GotoFields DEF Finish, Failing
    <2> QED BY <2>1, <1>4 DEF FailInv, Running, Early
<1> QED BY <1>5, <1>6, <1>7, <1>8, <1>9, <1>10, <1>11 DEF Step
LEMMA AtomicInvariant ==
    ASSUME Overlap = FALSE, RmFails = FALSE
    PROVE  /\ Init => AtomicInv
           /\ AtomicInv /\ [Next]_vars => AtomicInv'
<1>1. ASSUME Init PROVE AtomicInv
    <2>1. made \subseteq {Target} /\ \A i \in Installers : cl[i].pc = "idle"
        BY <1>1 DEF Init, Idle
    <2>2. \A i \in Installers : Previous(i) # Target
        BY Apart
    <2> QED BY <2>1, <2>2, <1>1, InstallInit DEF AtomicInv, FailInv, Running
<1>2. ASSUME AtomicInv, [Next]_vars PROVE AtomicInv'
    <2>1. InstallInv'
        BY <1>2, InstallStep DEF AtomicInv
    <2>2. CASE \E i \in Installers : Step(i)
        BY <2>1, <2>2, <1>2, FailStep DEF AtomicInv
    <2>3. CASE removeCmdTools
        <3>1. made' = {} /\ UNCHANGED cl
            BY <2>3, <1>2, RemovalEffect DEF removeCmdTools, Dirs, AtomicInv, InstallInv
        <3>2. \A i \in Installers : ~Running(i) /\ cl[i].pc \in Labels
            BY <2>3, <1>2 DEF removeCmdTools, AtomicInv, InstallInv, TypeOK
        <3>3. \A i \in Installers : cl[i].pc \in {"idle", "done", "failed", "killed"}
            BY <3>2 DEF Running, Labels
        <3> QED BY <2>1, <3>1, <3>2, <3>3 DEF AtomicInv, FailInv, Running
    <2>4. CASE UNCHANGED vars
        BY <2>1, <2>4, <1>2 DEF vars, AtomicInv, FailInv, Running
    <2> QED BY <1>2, <2>2, <2>3, <2>4 DEF Next
<1> QED BY <1>1, <1>2

(* What an install leaves when it fails, and nothing remained to be put back.*)
LEMMA FailureIsUndone ==
    ASSUME AtomicInv, NEW i \in Installers, Failing(i)
    PROVE  /\ cl[i].parked = {} =>
                /\ at'[Target] = cl[i].was
                /\ {Staging(i), Previous(i)} \cap made' = {}
                /\ Target \notin made' <=> cl[i].createdTarget
           /\ at'[Target] = at[Target]
<1>1. /\ {Target, Staging(i), Previous(i)} \subseteq Dirs /\ Target # Staging(i)
    BY Apart
<1>2. TypeOK /\ KeptInv(i) /\ FailInv(i) /\ Running(i) /\ cl[i].pc = "failing"
    BY DEF AtomicInv, InstallInv, SwapInv, Failing, Running
<1>3. CASE cl[i].createdTarget
    <2>1. made' = {} /\ at'[Target] = {}
        BY <1>1, <1>2, <1>3, RemovalEffect DEF Failing
    <2>2. cl[i].was = {} /\ at[Target] \subseteq cl[i].was
        BY <1>2, <1>3 DEF KeptInv, FailInv
    <2> QED BY <2>1, <2>2, <1>3
<1>4. CASE ~cl[i].createdTarget
    <2>1. Removal({Staging(i)})
        BY <1>4 DEF Failing
    <2>2. made' = made \ {Staging(i)} /\ at'[Target] = at[Target]
        BY <2>1, <1>1, <1>2, RemovalEffect
    <2>3. cl[i].createdTarget \in BOOLEAN
        BY <1>2 DEF TypeOK
    <2> QED BY <2>2, <2>3, <1>1, <1>2, <1>4 DEF FailInv
<1> QED BY <1>3, <1>4

(* When installs do not overlap and removals do not fail: an install that    *)
(* fails and had nothing left to put back leaves the directory as it found   *)
(* it, or not there if it was not there.                                     *)
THEOREM FailedInstallsAreUndone ==
    ASSUME Overlap = FALSE, RmFails = FALSE PROVE Spec => FailureRestores
<1>1. AtomicInv /\ [Next]_vars =>
        [\A i \in Installers : Failing(i) /\ cl[i].parked = {} =>
           /\ at'[Target] = cl[i].was
           /\ {Staging(i), Previous(i)} \cap made' = {}
           /\ Target \notin made' <=> cl[i].createdTarget]_vars
    BY FailureIsUndone
<1> QED BY <1>1, AtomicInvariant, PTL DEF Spec, FailureRestores

------------------------------------------------------------------------------
(* The refinement.  While an install swaps, the directory counts as what it  *)
(* was; else as what it is.                                                  *)
Shown == IF Swapping = {} THEN at[Target] ELSE Restored(CHOOSE i \in Swapping : TRUE)

ShownRight ==
    /\ \A i \in Swapping : Shown = cl[i].was /\ Running(i)
    /\ Swapping = {} => Shown = at[Target]

LEMMA ShownAs == InstallInv => ShownRight
<1> SUFFICES ASSUME InstallInv PROVE ShownRight
    OBVIOUS
<1>1. ASSUME NEW i \in Swapping PROVE Shown = cl[i].was /\ Running(i)
    <2>1. i \in Installers /\ \A j \in Swapping : j \in Installers /\ Running(j)
        BY DEF Swapping, Running
    <2>2. Swapping = {i}
        BY <2>1 DEF InstallInv, OneAtATime
    <2>3. Shown = Restored(i)
        BY <2>2 DEF Shown
    <2>4. MovingInv(i) /\ cl[i].pc \in Moving
        BY <2>1 DEF InstallInv, SwapInv, Swapping, Moving
    <2>5. Restored(i) = cl[i].was
        BY <2>4 DEF MovingInv, Restored
    <2> QED BY <2>1, <2>3, <2>5
<1>2. Swapping = {} => Shown = at[Target]
    BY DEF Shown
<1> QED BY <1>1, <1>2 DEF ShownRight

(* Where a step of i leaves the swap as it was: nothing is shown of it.      *)
LEMMA SwapHidden ==
    ASSUME AtomicInv, AtomicInv', NEW i \in Installers, \A j \in Installers \ {i} : ~Running(j) /\ ~Running(j)',
           \/ i \in Swapping /\ i \in Swapping' /\ cl'[i].was = cl[i].was
           \/ i \notin Swapping /\ i \notin Swapping' /\ at'[Target] = at[Target]
           \/ i \notin Swapping /\ i \in Swapping' /\ cl'[i].was = at[Target]
           \/ i \in Swapping /\ i \notin Swapping' /\ at'[Target] = cl[i].was
    PROVE  Shown' = Shown
<1>1. /\ i \notin Swapping => Swapping = {}
      /\ (i \notin Swapping => Swapping = {})'
    BY DEF Swapping, Running
<1>2. /\ i \in Swapping => Shown = cl[i].was
      /\ i \notin Swapping => Shown = at[Target]
    BY <1>1, ShownAs DEF AtomicInv, ShownRight
<1>3. (/\ i \in Swapping => Shown = cl[i].was
       /\ i \notin Swapping => Shown = at[Target])'
    <2>1. InstallInv'
        BY DEF AtomicInv
    <2>2. ShownRight'
        BY <2>1, ShownAs, PTL
    <2> QED BY <1>1, <2>2 DEF ShownRight
<1> QED BY <1>2, <1>3
(* Each step of the detailed install is one of the abstract directory's, or  *)
(* shows nothing.                                                            *)
LEMMA AtomicStep ==
    ASSUME Overlap = FALSE, RmFails = FALSE, Kills = FALSE, Keep = {},
           AtomicInv, AtomicInv', NEW i \in Installers, Step(i)
    PROVE  \/ Shown' = Shown
           \/ Shown' = {f \in Shown : f[1] \notin ToolEntries \cup Archive[i]} \cup Release(i)
           \/ Shown' \subseteq Shown /\ \A f \in Shown \ Shown' : f[1] \in ToolEntries \cup Archive[i]
<1>1. /\ Target \in Dirs /\ Staging(i) \in Dirs /\ Previous(i) \in Dirs
      /\ Target \notin WorkDirs /\ WorkDirs \subseteq Dirs
      /\ Target # Staging(i) /\ Target # Previous(i) /\ Target # Kept(i)
    BY Apart DEF Dirs
<1>2. InstallInv /\ EarlyInv(i) /\ MovingInv(i) /\ KeptInv(i) /\ FailInv(i) /\ TypeOK
    BY DEF AtomicInv, InstallInv, SwapInv
<1>3. cl \in [Installers -> Record] /\ at \in [Dirs -> SUBSET Files]
    BY <1>2 DEF TypeOK, Record
<1>4. \A j \in Installers \ {i} : ~Running(j) /\ ~Running(j)'
    <2>1. \A j \in Installers \ {i} : ~Running(j) /\ cl'[j] = cl[j]
        BY <1>2, OneActs, StepFrame DEF Elsewhere, InstallInv
    <2> QED BY <2>1 DEF Running
<1>5. /\ i \in Swapping <=> cl[i].pc \in {"park", "place", "undo", "restore"}
      /\ i \in Swapping' <=> cl'[i].pc \in {"park", "place", "undo", "restore"}
    BY DEF Swapping
<1>6. CASE Start(i) \/ Fetch(i) \/ Prepare(i) \/ Clean(i) \/ Stage(i) \/ Fill(i)
    <2>1. cl[i].pc \in Early \cup {"idle"} /\ cl'[i].pc \in Early \cup {"failing"}
        <3>1. CASE Start(i)
            BY <3>1, <1>3 DEF Start, Early, Idle, Record
        <3>2. CASE Fetch(i)
            BY <3>2, <1>2, GotoFields DEF Fetch, Early
        <3>3. CASE Prepare(i) \/ Stage(i)
            BY <3>3, <1>2, GotoFields DEF Prepare, Stage, Early
        <3>4. CASE Clean(i)
            BY <3>4, <1>2, GotoFields DEF Clean, Early
        <3>5. CASE Fill(i)
            BY <3>5, <1>2, GotoFields DEF Fill, Early
        <3> QED BY <1>6, <3>1, <3>2, <3>3, <3>4, <3>5
    <2>2. at'[Target] = at[Target]
        <3>1. CASE Clean(i)
            <4>1. PICK gone \in SUBSET (WorkDirs \cap made) : Removal(gone)
                BY <3>1 DEF Clean
            <4> QED BY <4>1, <1>1, <1>2, RemovalEffect
        <3>2. CASE Fill(i)
            BY <3>2, <1>1, <1>3 DEF Fill
        <3>3. CASE ~Clean(i) /\ ~Fill(i)
            BY <3>3, <1>6 DEF Start, Fetch, Prepare, Stage, Keeps
        <3> QED BY <3>1, <3>2, <3>3
    <2>3. i \notin Swapping /\ i \notin Swapping'
        BY <2>1, <1>5 DEF Early
    <2> QED BY <2>2, <2>3, <1>4, SwapHidden
<1>7. CASE Swap(i)
    <2>1. Target \in made /\ Staging(i) \in made /\ cl[i].pc = "swap"
        BY <1>7, <1>2 DEF Swap, FailInv, TypeOK
    <2>2. cl'[i].pc = "park" /\ cl'[i].was = cl[i].was /\ at[Target] = cl[i].was
        BY <2>1, <1>7, <1>2, SwapEffect DEF EarlyInv, Early
    <2> QED BY <2>1, <2>2, <1>4, <1>5, SwapHidden
<1>8. CASE Park(i)
    <2>1. cl[i].pc = "park"
        BY <1>8 DEF Park
    <2>2. cl'[i].pc \in {"park", "place", "undo"} /\ cl'[i].was = cl[i].was
        <3>1. CASE Goto(i, "place")
            BY <3>1, <1>2, GotoFields DEF Same
        <3>2. CASE \E e : Fails(i, e, Target, Previous(i), "undo")
            BY <3>2, <1>2, GotoFields DEF Same, Fails
        <3>3. CASE \E e : Move(i, e, Target, Previous(i), "park", "parked")
            BY <2>1, <3>3, <1>3 DEF Move, Record
        <3> QED BY <1>8, <3>1, <3>2, <3>3 DEF Park
    <2> QED BY <2>1, <2>2, <1>4, <1>5, SwapHidden
<1>9. CASE Place(i)
    <2>1. cl[i].pc = "place"
        BY <1>9 DEF Place
    <2>2. CASE at' = at /\ cl[i].place = {} /\ Goto(i, "finish")
        <3>1. /\ cl[i].placed = Archive[i] /\ cl[i].parked = Replaceable(i)
              /\ at[Target] = {f \in cl[i].was : f[1] \notin cl[i].parked}
                              \cup {f \in Release(i) : f[1] \in cl[i].placed}
            BY <2>1, <2>2, <1>2 DEF MovingInv, Moving
        <3>2. \A f \in cl[i].was : f[1] \in Replaceable(i) <=> f[1] \in ToolEntries \cup Archive[i]
            BY DEF Replaceable, Names
        <3>3. at'[Target] = {f \in cl[i].was : f[1] \notin ToolEntries \cup Archive[i]} \cup Release(i)
            BY <2>2, <3>1, <3>2 DEF Release
        <3>4. Swapping' = {}
            <4>1. cl'[i].pc = "finish"
                BY <2>2, <1>2, GotoFields
            <4> QED BY <4>1, <1>4 DEF Swapping, Running
        <3>5. Shown' = at'[Target]
            BY <3>4 DEF Shown
        <3>6. Shown = cl[i].was
            BY <2>1, <1>2, <1>5, ShownAs DEF ShownRight
        <3> QED BY <3>3, <3>5, <3>6
    <2>3. CASE ~(at' = at /\ cl[i].place = {} /\ Goto(i, "finish"))
        <3>1. cl'[i].pc \in {"place", "undo"} /\ cl'[i].was = cl[i].was
            <4>1. CASE \E e : Fails(i, e, Staging(i), Target, "undo")
                BY <4>1, <1>2, GotoFields DEF Same, Fails
            <4>2. CASE \E e : Move(i, e, Staging(i), Target, "place", "placed")
                BY <2>1, <4>2, <1>3 DEF Move, Record
            <4> QED BY <1>9, <2>3, <4>1, <4>2 DEF Place
        <3> QED BY <2>1, <3>1, <1>4, <1>5, SwapHidden
    <2> QED BY <2>2, <2>3
<1>10. CASE Undo(i)
    <2>1. cl[i].pc = "undo"
        BY <1>10 DEF Undo
    <2>2. cl'[i].pc \in {"undo", "restore"} /\ cl'[i].was = cl[i].was
        <3>1. CASE Goto(i, "restore")
            BY <3>1, <1>2, GotoFields DEF Same
        <3>2. CASE \E e \in cl[i].placed : cl' = [cl EXCEPT ![i].placed = @ \ {e}]
            BY <2>1, <3>2, <1>3 DEF Record
        <3> QED BY <1>10, <3>1, <3>2 DEF Undo, RmFault
    <2> QED BY <2>1, <2>2, <1>4, <1>5, SwapHidden
<1>11. CASE Restore(i)
    <2>1. /\ cl[i].pc = "restore" /\ cl[i].parked \subseteq Replaceable(i)
          /\ at[Target] = {f \in cl[i].was : f[1] \notin cl[i].parked}
        BY <1>11, <1>2 DEF Restore, MovingInv, Moving
    <2>2. CASE cl[i].parked = {} /\ Removal({Previous(i)}) /\ Goto(i, "failing")
        <3>1. cl'[i].pc = "failing"
            BY <2>2, <1>2, GotoFields
        <3>2. at'[Target] = at[Target]
            BY <2>2, <1>1, <1>2, RemovalEffect
        <3>3. at[Target] = cl[i].was
            BY <2>1, <2>2
        <3> QED BY <2>1, <3>1, <3>2, <3>3, <1>4, <1>5, SwapHidden
    <2>3. CASE \E e \in cl[i].parked : cl' = [cl EXCEPT ![i].parked = @ \ {e}]
        <3>1. cl'[i].pc = "restore" /\ cl'[i].was = cl[i].was
            BY <2>1, <2>3, <1>3 DEF Record
        <3> QED BY <2>1, <3>1, <1>4, <1>5, SwapHidden
    <2>4. CASE \E e : Fails(i, e, Previous(i), Target, "keep")
        <3>1. cl'[i].pc = "keep" /\ at' = at
            BY <2>4, <1>2, GotoFields DEF Fails
        <3>2. Shown' = at'[Target]
            <4>1. Swapping' = {}
                BY <3>1, <1>4 DEF Swapping, Running
            <4> QED BY <4>1 DEF Shown
        <3>3. Shown = cl[i].was
            BY <2>1, <1>2, <1>5, ShownAs DEF ShownRight
        <3> QED BY <2>1, <3>1, <3>2, <3>3 DEF Replaceable
    <2> QED BY <1>11, <2>2, <2>3, <2>4 DEF Restore
<1>12. CASE KeepParked(i) \/ Finish(i) \/ Failing(i)
    <2>1. /\ cl[i].pc \in {"keep", "finish", "failing"}
          /\ cl'[i].pc \in {"failing", "done", "failed"}
        BY <1>12, <1>2, GotoFields DEF KeepParked, Finish, Failing
    <2>2. at'[Target] = at[Target]
        <3>1. CASE KeepParked(i)
            BY <3>1, <1>1, <1>3 DEF KeepParked, Keeps
        <3>2. CASE Finish(i)
            BY <3>2, <1>1, <1>2, RemovalEffect DEF Finish
        <3>3. CASE Failing(i)
            BY <3>3, FailureIsUndone
        <3> QED BY <1>12, <3>1, <3>2, <3>3
    <2> QED BY <2>1, <2>2, <1>4, <1>5, SwapHidden
<1> QED BY <1>6, <1>7, <1>8, <1>9, <1>10, <1>11, <1>12 DEF Step, Kill
(* Installs that do not overlap, are not killed and whose removals do not    *)
(* fail implement ToolsDirectory: the directory goes from one release to the *)
(* next at once or stays as it is, or at worst some old tools are missing.   *)
THEOREM InstallIsAtomic ==
    ASSUME Overlap = FALSE, RmFails = FALSE, Kills = FALSE, Keep = {}
    PROVE  Spec => AtomicInstall
<1>1. ASSUME Init PROVE Directory!Init
    <2>1. Swapping = {}
        BY <1>1 DEF Init, Idle, Swapping
    <2>2. Target \in Dirs
        BY DEF Dirs
    <2>3. at[Target] \in SUBSET (Entries \X {1})
        BY <1>1, <2>2 DEF Init
    <2> QED BY <2>1, <2>3 DEF Directory!Init
<1>2. ASSUME AtomicInv, AtomicInv', [Next]_vars
      PROVE  Directory!Next \/ Shown' = Shown
    <2>1. ASSUME NEW i \in Installers, Step(i) PROVE Directory!Next \/ Shown' = Shown
        <3>1. \/ Shown' = Shown
              \/ Shown' = {f \in Shown : f[1] \notin ToolEntries \cup Archive[i]} \cup Release(i)
              \/ Shown' \subseteq Shown /\ \A f \in Shown \ Shown' : f[1] \in ToolEntries \cup Archive[i]
            BY <1>2, <2>1, AtomicStep
        <3>2. CASE Shown' = {f \in Shown : f[1] \notin ToolEntries \cup Archive[i]} \cup Release(i)
            <4>1. Directory!Install(i)
                BY <3>2 DEF Directory!Install, Directory!Replaced, Directory!Release, Release, Shown
            <4> QED BY <4>1 DEF Directory!Next
        <3>3. CASE Shown' \subseteq Shown /\ \A f \in Shown \ Shown' : f[1] \in ToolEntries \cup Archive[i]
            <4>1. Directory!SetAside(i)
                BY <3>3 DEF Directory!SetAside, Shown
            <4> QED BY <4>1 DEF Directory!Next
        <3> QED BY <3>1, <3>2, <3>3
    <2>2. CASE removeCmdTools
        <3>1. Swapping' = {}
            BY <2>2 DEF removeCmdTools, Swapping, Running
        <3>2. Shown' = at'[Target]
            BY <3>1 DEF Shown
        <3>3. at'[Target] = {}
            BY <1>2, <2>2, RemoveFrame DEF AtomicInv, InstallInv, Dirs
        <3>4. Directory!Remove
            BY <3>2, <3>3 DEF Directory!Remove, Shown
        <3> QED BY <3>4 DEF Directory!Next
    <2>3. CASE UNCHANGED vars
        BY <2>3 DEF vars, Shown, Swapping, Restored
    <2> QED BY <1>2, <2>1, <2>2, <2>3 DEF Next
<1>3. AtomicInv /\ AtomicInv' /\ [Next]_vars => [Directory!Next]_Shown
    BY <1>2
<1> QED BY <1>1, <1>3, AtomicInvariant, PTL DEF Spec, AtomicInstall, Directory!Spec, Shown

------------------------------------------------------------------------------
(* The app store (StorePublish).                                             *)

(* The state has its types.                                                  *)
CredentialFiles == [Shops -> ShopTokens \cup {Unset}]
StoreLabels == {"start", "me", "readCredentials", "writeCredentials", "identity", "limits", "own", "addVersion",
                "createApp", "ownNow", "release", "page", "hash", "register", "end"}
\* What claims nothing that could be wrong, as long as nothing was published.
Harmless == {"refused", "unsure", "unreachable", "signed in", "signed out", "nothing to do"}
Sayings == Harmless \cup {Unset, "created", "version", "registered", "already registered", "no such asset",
                          "taken by yourself", "taken by another"}
StoreJobs ==
    [op: {"login", "logout", "publish", "register"}, url: Shops, token: ShopTokens \cup {Unset}, env: BOOLEAN,
     pkg: Packages, named: BOOLEAN, asset: Nat, local: Bytes \cup {Unset}, at: StoreLabels,
     read: Seq(CredentialFiles \cup {"unheard"}), page: Nat, found: Seq(Assets), sha: Bytes \cup {Unset}, said: Sayings]
StoreTypeOK ==
    /\ cli \in [Jobs -> StoreJobs]
    /\ creds \in CredentialFiles \cup {Unreadable} /\ lastSaid \in CredentialFiles
    /\ shop.owner \in {Unset, "other", "me"} /\ shop = [owner |-> shop.owner, versions |-> shop.versions]
    /\ release \in [draft: BOOLEAN, embedded: Nat, assets: Seq(Assets)]
    /\ overlapped \in BOOLEAN /\ edited \in BOOLEAN

(* Every token of a file was issued by the store it is for.                  *)
AtHome(file) == \A u \in Shops : file[u] = Unset \/ Issuer(file[u]) = u

Unlisted(j, upTo) == ~ \E k \in 1..upTo : k \in DOMAIN release.assets /\ Asked(j, release.assets[k])

(* What a command has found out and still holds.                             *)
Finding(j) ==
    LET c == cli[j]
    IN  /\ c.at = "me" => c.op = "login"
        /\ c.at \in {"readCredentials", "writeCredentials"} => c.op \in {"login", "logout"}
        /\ c.at \in {"readCredentials", "writeCredentials"} /\ c.op = "login" => Known(j)
        /\ c.at = "writeCredentials" => Len(c.read) = 1 /\ c.read[1] \in CredentialFiles /\ AtHome(c.read[1])
        /\ c.at \in {"identity", "limits", "own", "addVersion", "createApp", "ownNow"} => c.op = "publish"
        /\ c.at \in {"release", "page", "hash", "register"} => c.op = "register"
        /\ c.at \notin {"start", "end"} /\ c.op \in {"publish", "register"} => c.env \/ Known(j)
        /\ c.at \in {"limits", "own", "addVersion", "createApp", "ownNow"} => Identity(c.pkg) = "b"
        /\ c.at = "ownNow" => Known(j) /\ shop.owner # Unset
        /\ c.at \in {"page", "hash", "register"} => ~release.draft
        /\ c.at \in {"hash", "register"} => Len(c.found) = 1 /\ Asked(j, c.found[1]) /\ c.found[1].uploaded
        /\ c.at = "page" => c.page \in 1..Pages /\ (~edited => Unlisted(j, (c.page - 1) * PageSize))
        /\ c.at # "end" => c.said = Unset /\ Mine(j) = {}

(* What it then says.                                                        *)
Telling(j) ==
    CASE cli[j].said \in {"created", "version", "registered"} -> shop.owner = "me" /\ Mine(j) # {}
      [] cli[j].said = "already registered" -> Has_(cli[j].found[1])
      [] cli[j].said \in {"refused", "no such asset"} -> Mine(j) = {}
      [] cli[j].said = "taken by yourself" -> shop.owner = "me" /\ Mine(j) = {}
      [] cli[j].said = "taken by another" -> (shop.owner = "other" \/ cli[j].read # <<>>) /\ Mine(j) = {}
      [] OTHER -> TRUE
Registering(j) ==
    cli[j].op = "register" =>
        /\ \A v \in Mine(j) : Asked(j, v.asset[1]) /\ v.asset[1].uploaded /\ ~release.draft
        /\ (cli[j].said = "no such asset" /\ ~edited) =>
              ~ \E k \in 1..(PageSize * Pages) : k \in DOMAIN release.assets /\ Asked(j, release.assets[k])

JobInv(j) == Finding(j) /\ Telling(j) /\ Registering(j)
CredentialInv ==
    /\ TokensGoHome /\ SignInsAreKept
    /\ creds # Unreadable => AtHome(creds)
StoreInv == StoreTypeOK /\ CredentialInv /\ \A j \in Jobs : JobInv(j)

------------------------------------------------------------------------------
(* Steps of one command: it ends with a word, or goes on.                    *)
Stays(j) ==
    /\ cli' \in [Jobs -> StoreJobs]
    /\ \A q \in Jobs \ {j} : cli'[q] = cli[q]
    /\ cli'[j].op = cli[j].op /\ cli'[j].url = cli[j].url /\ cli'[j].env = cli[j].env /\ cli'[j].pkg = cli[j].pkg
    /\ cli'[j].named = cli[j].named /\ cli'[j].asset = cli[j].asset /\ cli'[j].local = cli[j].local

(* The record of one command is replaced.                                    *)
LEMMA JobUpdated ==
  ASSUME StoreTypeOK, NEW j \in Jobs, NEW c \in StoreJobs, cli' = [cli EXCEPT ![j] = c]
  PROVE  cli' \in [Jobs -> StoreJobs] /\ cli'[j] = c /\ \A q \in Jobs \ {j} : cli'[q] = cli[q]
  BY DEF StoreTypeOK

(* A command ends with what it says.                                         *)
LEMMA SayFields ==
  ASSUME StoreTypeOK, NEW j \in Jobs, NEW what \in Sayings, Say(j, what)
  PROVE  /\ Stays(j) /\ cli'[j].at = "end" /\ cli'[j].said = what /\ cli'[j].token = cli[j].token
         /\ cli'[j].read = cli[j].read /\ cli'[j].found = cli[j].found
<1> DEFINE c == [cli[j] EXCEPT !.at = "end", !.said = what]
<1>1. cli[j] \in StoreJobs
  BY DEF StoreTypeOK
<1>2. c \in StoreJobs /\ c.at = "end" /\ c.said = what
      /\ c.op = cli[j].op /\ c.url = cli[j].url /\ c.env = cli[j].env /\ c.pkg = cli[j].pkg /\ c.named = cli[j].named
      /\ c.asset = cli[j].asset /\ c.local = cli[j].local /\ c.token = cli[j].token /\ c.read = cli[j].read
      /\ c.found = cli[j].found
  BY <1>1 DEF StoreJobs, StoreLabels
<1>3. cli' = [cli EXCEPT ![j] = c]
  BY DEF Say
<1> HIDE DEF c
<1> QED
  BY <1>2, <1>3, JobUpdated DEF Stays

(* A command goes on to its next step.                                       *)
LEMMA GoFields ==
  ASSUME StoreTypeOK, NEW j \in Jobs, NEW label \in StoreLabels, Go_(j, label)
  PROVE  /\ Stays(j) /\ cli'[j].at = label /\ cli'[j].said = cli[j].said /\ cli'[j].token = cli[j].token
         /\ cli'[j].read = cli[j].read /\ cli'[j].found = cli[j].found /\ cli'[j].page = cli[j].page
<1> DEFINE c == [cli[j] EXCEPT !.at = label]
<1>1. cli[j] \in StoreJobs
  BY DEF StoreTypeOK
<1>2. c \in StoreJobs /\ c.at = label /\ c.said = cli[j].said
      /\ c.op = cli[j].op /\ c.url = cli[j].url /\ c.env = cli[j].env /\ c.pkg = cli[j].pkg /\ c.named = cli[j].named
      /\ c.asset = cli[j].asset /\ c.local = cli[j].local /\ c.token = cli[j].token /\ c.read = cli[j].read
      /\ c.found = cli[j].found /\ c.page = cli[j].page
  BY <1>1 DEF StoreJobs
<1>3. cli' = [cli EXCEPT ![j] = c]
  BY DEF Go_
<1> HIDE DEF c
<1> QED
  BY <1>2, <1>3, JobUpdated DEF Stays

(* A command that has published nothing may end with any harmless word.      *)
LEMMA EndsHarmlessly ==
  ASSUME StoreTypeOK, NEW j \in Jobs, JobInv(j), cli[j].at # "end",
         NEW what \in Harmless, Say(j, what), UNCHANGED <<shop, release>>
  PROVE  Stays(j) /\ JobInv(j)'
<1>1. Stays(j) /\ cli'[j].at = "end" /\ cli'[j].said = what
  BY SayFields DEF Sayings
<1>2. Mine(j)' = {}
  BY <1>1 DEF JobInv, Finding, Mine
<1> QED
  BY <1>1, <1>2 DEF JobInv, Finding, Telling, Registering, Harmless

(* One that goes on has still said and published nothing.                    *)
LEMMA GoesOn ==
  ASSUME StoreTypeOK, NEW j \in Jobs, JobInv(j), cli[j].at # "end", UNCHANGED <<shop, release>>,
         Stays(j), cli'[j].at # "end", cli'[j].said = cli[j].said
  PROVE  cli'[j].said = Unset /\ Mine(j)' = {} /\ Telling(j)' /\ Registering(j)'
<1>1. cli'[j].said = Unset /\ Mine(j)' = {}
  BY DEF JobInv, Finding, Mine
<1> QED
  BY <1>1 DEF Telling, Registering, Unset

(* A command goes on with something it has found out.                        *)
LEMMA RecordFields ==
  ASSUME StoreTypeOK, NEW j \in Jobs, NEW c \in StoreJobs, cli' = [cli EXCEPT ![j] = c],
         c.op = cli[j].op, c.url = cli[j].url, c.env = cli[j].env, c.pkg = cli[j].pkg, c.named = cli[j].named,
         c.asset = cli[j].asset, c.local = cli[j].local
  PROVE  Stays(j) /\ cli'[j] = c
  BY JobUpdated DEF Stays

------------------------------------------------------------------------------
(* The steps, by the command that takes them.                                *)
LEMMA ClientKeeps ==
  ASSUME StoreTypeOK, CredentialInv, NEW j \in Jobs, JobInv(j), client(j)
  PROVE  Stays(j) /\ JobInv(j)'
<1> DEFINE stored == IF creds = Unreadable THEN Unset ELSE resolveStoreToken(creds, cli[j].url)
           c == [cli[j] EXCEPT !.at = IF cli[j].op = "publish" THEN "identity" ELSE "release",
                               !.token = IF cli[j].env THEN @ ELSE stored]
<1>1. CASE Say(j, "refused")
  BY <1>1, EndsHarmlessly DEF client, Quiet, Now_, Harmless
<1>2. CASE ~Say(j, "refused")
  <2>1. cli[j] \in StoreJobs /\ creds \in [Shops -> ShopTokens \cup {Unset, "unreadable"}] /\ cli[j].url \in Shops
    BY DEF StoreTypeOK, StoreJobs, CredentialFiles, Unreadable
  <2>2. ~cli[j].env => stored \in ShopTokens /\ Issuer(stored) = cli[j].url
    <3>1. ~cli[j].env => creds # Unreadable /\ stored # Unset
      BY <1>2 DEF client
    <3>2. ~cli[j].env => creds \in CredentialFiles /\ AtHome(creds)
      BY <3>1 DEF StoreTypeOK, CredentialInv
    <3> QED
      BY <2>1, <3>1, <3>2 DEF AtHome, resolveStoreToken, CredentialFiles
  <2>3. c \in StoreJobs
    BY <2>1, <2>2 DEF StoreJobs, StoreLabels
  <2>4. /\ c.op = cli[j].op /\ c.url = cli[j].url /\ c.env = cli[j].env /\ c.pkg = cli[j].pkg /\ c.named = cli[j].named
        /\ c.asset = cli[j].asset /\ c.local = cli[j].local /\ c.said = cli[j].said
        /\ c.at = IF cli[j].op = "publish" THEN "identity" ELSE "release"
        /\ c.token = IF cli[j].env THEN cli[j].token ELSE stored
    BY <2>1 DEF StoreJobs
  <2>5. cli' = [cli EXCEPT ![j] = c]
    BY <1>2 DEF client
  <2> HIDE DEF c
  <2>6. Stays(j) /\ cli'[j] = c
    BY <2>3, <2>4, <2>5, RecordFields
  <2>7. cli[j].at = "start" /\ cli[j].op \in {"publish", "register"} /\ UNCHANGED <<shop, release, edited>>
    BY DEF client, Now_, Quiet
  <2>8. cli'[j].said = Unset /\ Mine(j)' = {} /\ Telling(j)' /\ Registering(j)'
    BY <2>4, <2>6, <2>7, GoesOn
  <2> HIDE DEF stored
  <2>9. cli'[j].env \/ Known(j)'
    BY <2>2, <2>4, <2>6 DEF Known
  <2> QED
    BY <2>4, <2>6, <2>7, <2>8, <2>9 DEF JobInv, Finding
<1> QED
  BY <1>1, <1>2

(* A sign-in asks the store whose token it is.                               *)
LEMMA SignInOutKeeps ==
  ASSUME StoreTypeOK, NEW j \in Jobs, JobInv(j), LoginStart(j) \/ LogoutStart(j) \/ Me(j)
  PROVE  Stays(j) /\ JobInv(j)'
<1>0. cli[j].at # "end" /\ UNCHANGED <<shop, release, edited>>
  BY DEF LoginStart, LogoutStart, Me, Now_, Quiet
<1>1. ASSUME NEW what \in {"refused", "unreachable", "unsure"}, Say(j, what)
      PROVE  Stays(j) /\ JobInv(j)'
  BY <1>0, <1>1, EndsHarmlessly DEF Harmless
<1>2. CASE Go_(j, "me") /\ LoginStart(j)
  <2>1. Stays(j) /\ cli'[j].at = "me" /\ cli'[j].said = cli[j].said
    BY <1>2, GoFields DEF StoreLabels
  <2> QED
    BY <1>0, <1>2, <2>1, GoesOn DEF JobInv, Finding, LoginStart, Stays
<1>3. CASE Go_(j, "readCredentials") /\ LogoutStart(j)
  <2>1. Stays(j) /\ cli'[j].at = "readCredentials" /\ cli'[j].said = cli[j].said
    BY <1>3, GoFields DEF StoreLabels
  <2> QED
    BY <1>0, <1>3, <2>1, GoesOn DEF JobInv, Finding, LogoutStart, Stays
<1>4. CASE Go_(j, "readCredentials") /\ Me(j) /\ Known(j)
  <2>1. Stays(j) /\ cli'[j].at = "readCredentials" /\ cli'[j].said = cli[j].said /\ cli'[j].token = cli[j].token
    BY <1>4, GoFields DEF StoreLabels
  <2>2. Known(j)' /\ cli[j].op = "login"
    BY <1>4, <2>1 DEF Known, Stays, Me, Now_, JobInv, Finding
  <2> QED
    BY <1>0, <2>1, <2>2, GoesOn DEF JobInv, Finding, Stays
<1> QED
  BY <1>1, <1>2, <1>3, <1>4 DEF LoginStart, LogoutStart, Me, Unheard_, networkError, Known

(* The file is read, and replaced as a whole.                                *)
LEMMA CredentialsKeep ==
  ASSUME StoreTypeOK, CredentialInv, NEW j \in Jobs, JobInv(j), readCredentials(j) \/ writeCredentials(j)
  PROVE  Stays(j) /\ JobInv(j)'
<1>0. cli[j].at # "end" /\ UNCHANGED <<shop, release, edited>>
  BY DEF readCredentials, writeCredentials, Now_, Quiet
<1>1. ASSUME NEW what \in {"refused", "nothing to do", "signed in", "signed out"}, Say(j, what)
      PROVE  Stays(j) /\ JobInv(j)'
  BY <1>0, <1>1, EndsHarmlessly DEF Harmless
<1>2. CASE readCredentials(j) /\ creds # Unreadable /\ cli' = [cli EXCEPT ![j].at = "writeCredentials", ![j].read = <<creds>>]
  <2> DEFINE c == [cli[j] EXCEPT !.at = "writeCredentials", !.read = <<creds>>]
  <2>1. cli[j] \in StoreJobs /\ creds \in CredentialFiles /\ AtHome(creds)
    BY <1>2 DEF StoreTypeOK, CredentialInv
  <2>2. <<creds>> \in Seq(CredentialFiles \cup {"unheard"})
    BY <2>1
  <2>3. c \in StoreJobs
    BY <2>1, <2>2 DEF StoreJobs, StoreLabels
  <2>4. /\ c.op = cli[j].op /\ c.url = cli[j].url /\ c.env = cli[j].env /\ c.pkg = cli[j].pkg /\ c.named = cli[j].named
        /\ c.asset = cli[j].asset /\ c.local = cli[j].local /\ c.said = cli[j].said /\ c.token = cli[j].token
        /\ c.at = "writeCredentials" /\ c.read = <<creds>>
    BY <2>1 DEF StoreJobs
  <2>5. cli' = [cli EXCEPT ![j] = c]
    BY <1>2
  <2> HIDE DEF c
  <2>6. Stays(j) /\ cli'[j] = c
    BY <2>3, <2>4, <2>5, RecordFields
  <2>7. cli'[j].said = Unset /\ Mine(j)' = {} /\ Telling(j)' /\ Registering(j)'
    BY <1>0, <2>4, <2>6, GoesOn
  <2>8. cli[j].op \in {"login", "logout"} /\ (cli[j].op = "login" => Known(j)')
    BY <1>2, <2>4, <2>6 DEF readCredentials, Now_, JobInv, Finding, Known
  <2>9. Len(<<creds>>) = 1 /\ <<creds>>[1] = creds
    OBVIOUS
  <2> QED
    BY <2>1, <2>4, <2>6, <2>7, <2>8, <2>9 DEF JobInv, Finding
<1> QED
  BY <1>1, <1>2 DEF readCredentials, writeCredentials

(* A publish finds its listing, or whose the name is.                        *)
LEMMA PublishKeeps ==
  ASSUME StoreTypeOK, NEW j \in Jobs, JobInv(j), readPackageIdentity(j) \/ Limits(j) \/ OwnApps(j) \/ OwnNow(j)
  PROVE  Stays(j) /\ JobInv(j)'
<1>0. cli[j].at # "end" /\ UNCHANGED <<shop, release, edited>>
  BY DEF readPackageIdentity, Limits, OwnApps, OwnNow, Now_, Quiet
<1>1. ASSUME NEW what \in {"refused", "unreachable", "unsure"}, Say(j, what)
      PROVE  Stays(j) /\ JobInv(j)'
  BY <1>0, <1>1, EndsHarmlessly DEF Harmless
<1>2. ASSUME NEW label \in {"limits", "own", "addVersion", "createApp"}, Go_(j, label), cli[j].op = "publish",
             cli[j].env \/ Known(j), Identity(cli[j].pkg) = "b"
      PROVE  Stays(j) /\ JobInv(j)'
  <2>1. Stays(j) /\ cli'[j].at = label /\ cli'[j].said = cli[j].said /\ cli'[j].token = cli[j].token
    BY <1>2, GoFields DEF StoreLabels
  <2>2. (cli[j].env \/ Known(j)) => (cli'[j].env \/ Known(j)')
    BY <2>1 DEF Known, Stays
  <2> QED
    BY <1>0, <1>2, <2>1, <2>2, GoesOn DEF JobInv, Finding, Stays
<1>3. CASE readPackageIdentity(j)
  <2>1. Identity(cli[j].pkg) # Unset => Identity(cli[j].pkg) = "b"
    <3>1. cli[j].pkg \in Packages
      BY DEF StoreTypeOK, StoreJobs
    <3> QED
      BY <3>1 DEF Packages, Package, Identity, Lower, Unset
  <2> QED
    BY <1>1, <1>2, <1>3, <2>1 DEF readPackageIdentity, JobInv, Finding, Now_
<1>4. CASE Limits(j) \/ OwnApps(j)
  BY <1>1, <1>2, <1>4 DEF Limits, OwnApps, Unheard_, networkError, JobInv, Finding, Now_
<1>5. CASE OwnNow(j) /\ Say(j, IF Known(j) /\ Listed(j) THEN "taken by yourself" ELSE "taken by another")
  <2> DEFINE what == IF Known(j) /\ Listed(j) THEN "taken by yourself" ELSE "taken by another"
  <2>1. what \in Sayings /\ Say(j, what)
    BY <1>5 DEF Sayings
  <2>2. Stays(j) /\ cli'[j].at = "end" /\ cli'[j].said = what
    <3> HIDE DEF what
    <3> QED
      BY <2>1, SayFields
  <2>3. /\ Known(j) /\ shop.owner # Unset /\ Identity(cli[j].pkg) = "b" /\ cli[j].op = "publish" /\ Mine(j)' = {}
    BY <1>5, <2>2 DEF OwnNow, Now_, JobInv, Finding, Mine
  <2>4. shop.owner \in {"other", "me"}
    BY <2>3 DEF StoreTypeOK
  <2>5. Telling(j)'
    BY <1>0, <2>2, <2>3, <2>4 DEF Telling, Listed
  <2> QED
    BY <2>2, <2>3, <2>5 DEF JobInv, Finding, Registering, Stays
<1>6. CASE OwnNow(j) /\ cli' = [cli EXCEPT ![j].at = "end", ![j].said = "taken by another", ![j].read = <<"unheard">>]
  <2> DEFINE c == [cli[j] EXCEPT !.at = "end", !.said = "taken by another", !.read = <<"unheard">>]
  <2>1. cli[j] \in StoreJobs /\ <<"unheard">> \in Seq(CredentialFiles \cup {"unheard"})
    BY DEF StoreTypeOK
  <2>2. c \in StoreJobs
    BY <2>1 DEF StoreJobs, StoreLabels, Sayings
  <2>3. /\ c.op = cli[j].op /\ c.url = cli[j].url /\ c.env = cli[j].env /\ c.pkg = cli[j].pkg /\ c.named = cli[j].named
        /\ c.asset = cli[j].asset /\ c.local = cli[j].local /\ c.said = "taken by another"
        /\ c.at = "end" /\ c.read = <<"unheard">>
    BY <2>1 DEF StoreJobs
  <2>4. cli' = [cli EXCEPT ![j] = c]
    BY <1>6
  <2> HIDE DEF c
  <2>5. Stays(j) /\ cli'[j] = c
    BY <2>2, <2>3, <2>4, RecordFields
  <2>6. Len(c.read) = 1 /\ cli[j].op = "publish" /\ Mine(j)' = {}
    BY <1>6, <2>3, <2>5 DEF OwnNow, Now_, JobInv, Finding, Mine
  <2>7. c.read # <<>>
    BY <2>6
  <2> QED
    BY <2>3, <2>5, <2>6, <2>7 DEF JobInv, Finding, Telling, Registering
<1> QED
  BY <1>3, <1>4, <1>5, <1>6 DEF OwnNow

(* A request that was carried out adds a version of its command.             *)
LEMMA AddEnds ==
  ASSUME StoreTypeOK, NEW j \in Jobs, JobInv(j), cli[j].at \in {"addVersion", "createApp", "register"},
         NEW what \in {"unsure", "unreachable", "version", "created", "registered"}, Say(j, what), Add(j), release' = release
  PROVE  Stays(j) /\ JobInv(j)'
<1>1. Stays(j) /\ cli'[j].at = "end" /\ cli'[j].said = what
  BY SayFields DEF Sayings, Harmless
<1>2. shop'.owner = "me" /\ Mine(j)' = {Version(j)}
  BY DEF Add, Version, Mine, JobInv, Finding
<1>3. Version(j).asset = cli[j].found
  BY DEF Version
<1>4. cli[j].op = "register" => Asked(j, cli[j].found[1]) /\ cli[j].found[1].uploaded /\ ~release.draft
  BY DEF JobInv, Finding
<1>5. Telling(j)'
  BY <1>1, <1>2 DEF Telling
<1>6. Registering(j)'
  BY <1>1, <1>2, <1>3, <1>4 DEF Registering, Stays, Asked
<1> QED
  BY <1>1, <1>5, <1>6 DEF JobInv, Finding

(* What may become of the store in a step of command j.                      *)
ShopMoves(j) ==
    \/ shop' = shop
    \/ shop.owner # "other" /\ shop' = [owner |-> "me", versions |-> shop.versions \cup {Version(j)}]

(* The requests that change the store, arrived, lost or half heard.          *)
LEMMA PostsKeep ==
  ASSUME StoreTypeOK, NEW j \in Jobs, JobInv(j), addVersion(j) \/ createApp(j) \/ registerRelease(j)
  PROVE  Stays(j) /\ JobInv(j)' /\ ShopMoves(j)
<1>0. cli[j].at \in {"addVersion", "createApp", "register"} /\ UNCHANGED <<release, edited>>
  BY DEF addVersion, createApp, registerRelease, Now_, Posted
<1>1. ASSUME NEW what \in {"refused", "unreachable", "unsure"}, Say(j, what), shop' = shop
      PROVE  Stays(j) /\ JobInv(j)' /\ ShopMoves(j)
  BY <1>0, <1>1, EndsHarmlessly DEF Harmless, ShopMoves
<1>2. ASSUME NEW what \in {"unsure", "unreachable", "version", "created", "registered"}, Say(j, what), Add(j), shop.owner # "other"
      PROVE  Stays(j) /\ JobInv(j)' /\ ShopMoves(j)
  BY <1>0, <1>2, AddEnds DEF Add, ShopMoves
<1>3. CASE addVersion(j)
  BY <1>1, <1>2, <1>3 DEF addVersion, Posted, MayAdd, Unheard_, networkError
<1>4. CASE createApp(j) /\ ~(shop' = shop /\ Known(j) /\ shop.owner # Unset /\ Go_(j, "ownNow"))
  BY <1>1, <1>2, <1>4 DEF createApp, Posted, Unheard_, networkError, Unset
<1>5. CASE createApp(j) /\ shop' = shop /\ Known(j) /\ shop.owner # Unset /\ Go_(j, "ownNow")
  <2>1. Stays(j) /\ cli'[j].at = "ownNow" /\ cli'[j].said = cli[j].said /\ cli'[j].token = cli[j].token
    BY <1>5, GoFields DEF StoreLabels
  <2>2. Known(j)' /\ cli[j].op = "publish" /\ Identity(cli[j].pkg) = "b"
    BY <1>5, <2>1 DEF Known, Stays, createApp, Now_, JobInv, Finding
  <2>3. cli'[j].said = Unset /\ Mine(j)' = {} /\ Telling(j)' /\ Registering(j)'
    BY <1>0, <1>5, <2>1, GoesOn
  <2> QED
    BY <1>5, <2>1, <2>2, <2>3 DEF JobInv, Finding, Stays, ShopMoves
<1>6. CASE registerRelease(j) /\ ~(Known(j) /\ Has_(cli[j].found[1]))
  BY <1>1, <1>2, <1>6 DEF registerRelease, Posted, Accepts, MayAdd, Unheard_, networkError, Unset
<1>7. CASE registerRelease(j) /\ Known(j) /\ Has_(cli[j].found[1]) /\ shop' = shop /\ Say(j, "already registered")
  <2>1. Stays(j) /\ cli'[j].at = "end" /\ cli'[j].said = "already registered" /\ cli'[j].found = cli[j].found
    BY <1>7, SayFields DEF Sayings
  <2>2. Mine(j)' = {}
    BY <1>0, <1>7 DEF JobInv, Finding, Mine
  <2> QED
    BY <1>7, <2>1, <2>2 DEF JobInv, Finding, Telling, Registering, Has_, ShopMoves
<1>8. CASE registerRelease(j) /\ Known(j) /\ Has_(cli[j].found[1])
           /\ ~(shop' = shop /\ Say(j, "already registered"))
  BY <1>1, <1>8 DEF registerRelease, Posted, Unheard_, networkError
<1> QED
  BY <1>3, <1>4, <1>5, <1>6, <1>7, <1>8

(* The assets from one place to another, as many as there are.               *)
Upto(to) == IF to <= Len(release.assets) THEN to ELSE Len(release.assets)
LEMMA PartElements ==
  ASSUME StoreTypeOK, NEW from \in Nat \ {0}, NEW to \in Nat
  PROVE  /\ Part(from, to) \in Seq(Assets)
         /\ Len(Part(from, to)) = IF from <= Upto(to) THEN Upto(to) - from + 1 ELSE 0
         /\ \A k \in DOMAIN Part(from, to) : Part(from, to)[k] = release.assets[from + k - 1]
<1> DEFINE len == Len(release.assets)
           last == Upto(to)
<1>1. /\ release.assets \in Seq(Assets) /\ len \in Nat /\ last \in Nat /\ last <= len
      /\ last = IF to <= len THEN to ELSE len
  BY DEF StoreTypeOK, Upto
<1>2. Min({to, len}) = last
  <2> HIDE DEF len
  <2>1. last \in {to, len} /\ \A y \in {to, len} : last <= y
    BY <1>1
  <2>2. \A x \in {to, len} : (\A y \in {to, len} : x <= y) => x = last
    BY <1>1
  <2> HIDE DEF last
  <2> QED
    BY <2>1, <2>2 DEF Min
<1>3. Part(from, to) = SubSeq(release.assets, from, last)
  BY <1>2 DEF Part
<1> HIDE DEF last, len
<1>4. CASE from <= last
  <2>1. \A k \in from..last : release.assets[k] \in Assets
    BY <1>1 DEF len
  <2>2. SubSeq(release.assets, from, last) = [k \in 1..(last - from + 1) |-> release.assets[from + k - 1]]
    BY <1>1, <1>4
  <2> QED
    BY <1>1, <1>3, <1>4, <2>1, <2>2, SubSeqProperties DEF last, len
<1>5. CASE ~(from <= last)
  BY <1>1, <1>3, <1>5, SubSeqProperties DEF last, len
<1> QED
  BY <1>4, <1>5

(* An asset that is taken is the one that was asked for, and uploaded.       *)
LEMMA TakeKeeps ==
  ASSUME StoreTypeOK, NEW j \in Jobs, JobInv(j), cli[j].at \in {"release", "page"}, ~release.draft,
         NEW asset \in Assets, Asked(j, asset), Take(j, asset), UNCHANGED <<shop, release, edited>>
  PROVE  Stays(j) /\ JobInv(j)'
<1>1. CASE ~asset.uploaded
  BY <1>1, EndsHarmlessly DEF Take, Harmless
<1>2. CASE asset.uploaded
  <2> DEFINE c == [cli[j] EXCEPT !.at = "hash", !.found = <<asset>>]
  <2>1. cli[j] \in StoreJobs /\ <<asset>> \in Seq(Assets)
    BY DEF StoreTypeOK
  <2>2. c \in StoreJobs
    BY <2>1 DEF StoreJobs, StoreLabels
  <2>3. /\ c.op = cli[j].op /\ c.url = cli[j].url /\ c.env = cli[j].env /\ c.pkg = cli[j].pkg /\ c.named = cli[j].named
        /\ c.asset = cli[j].asset /\ c.local = cli[j].local /\ c.said = cli[j].said /\ c.token = cli[j].token
        /\ c.at = "hash" /\ c.found = <<asset>>
    BY <2>1 DEF StoreJobs
  <2>4. cli' = [cli EXCEPT ![j] = c]
    BY <1>2 DEF Take
  <2> HIDE DEF c
  <2>5. Stays(j) /\ cli'[j] = c
    BY <2>2, <2>3, <2>4, RecordFields
  <2>6. Len(<<asset>>) = 1 /\ <<asset>>[1] = asset
    OBVIOUS
  <2>7. cli'[j].said = Unset /\ Mine(j)' = {} /\ Telling(j)' /\ Registering(j)'
    BY <2>3, <2>5, GoesOn
  <2>8. cli[j].op = "register" /\ (cli'[j].env \/ Known(j)') /\ Asked(j, asset)'
    BY <2>3, <2>5 DEF JobInv, Finding, Known, Asked
  <2> QED
    BY <1>2, <2>3, <2>5, <2>6, <2>7, <2>8 DEF JobInv, Finding
<1> QED
  BY <1>1, <1>2

(* The asset that find returns is one of the list.                           *)
LEMMA FirstIsAsked ==
  ASSUME NEW j \in Jobs, NEW list \in Seq(Assets), TakeFirst(j, list)
  PROVE  \E asset \in Assets : Asked(j, asset) /\ Take(j, asset)
<1>1. PICK k \in DOMAIN list : Asked(j, list[k]) /\ Take(j, list[k])
  BY DEF TakeFirst, Matches
<1>2. list[k] \in Assets
  OBVIOUS
<1> QED
  BY <1>1, <1>2

(* The list is read page by page.                                            *)
LEMMA PageKeeps ==
  ASSUME StoreTypeOK, NEW j \in Jobs, JobInv(j), cli[j].at \in {"release", "page"}, ~release.draft,
         NEW page \in 1..Pages, cli' = [cli EXCEPT ![j].at = "page", ![j].page = page],
         ~edited => Unlisted(j, (page - 1) * PageSize), UNCHANGED <<shop, release, edited>>
  PROVE  Stays(j) /\ JobInv(j)'
<1> DEFINE c == [cli[j] EXCEPT !.at = "page", !.page = page]
<1>1. cli[j] \in StoreJobs /\ page \in Nat
  BY StoreAssumption DEF StoreTypeOK
<1>2. c \in StoreJobs
  BY <1>1 DEF StoreJobs, StoreLabels
<1>3. /\ c.op = cli[j].op /\ c.url = cli[j].url /\ c.env = cli[j].env /\ c.pkg = cli[j].pkg /\ c.named = cli[j].named
      /\ c.asset = cli[j].asset /\ c.local = cli[j].local /\ c.said = cli[j].said /\ c.token = cli[j].token
      /\ c.at = "page" /\ c.page = page
  BY <1>1 DEF StoreJobs
<1>4. cli' = [cli EXCEPT ![j] = c]
  OBVIOUS
<1> HIDE DEF c
<1>5. Stays(j) /\ cli'[j] = c
  BY <1>2, <1>3, <1>4, RecordFields
<1>6. cli'[j].said = Unset /\ Mine(j)' = {} /\ Telling(j)' /\ Registering(j)'
  BY <1>3, <1>5, GoesOn
<1>7. cli[j].op = "register" /\ (cli'[j].env \/ Known(j)')
  BY <1>3, <1>5 DEF JobInv, Finding, Known
<1>8. ~edited => Unlisted(j, (page - 1) * PageSize)'
  BY <1>3, <1>5 DEF Unlisted, Asked
<1> QED
  BY <1>3, <1>5, <1>6, <1>7, <1>8 DEF JobInv, Finding

(* The release itself lists the first assets.                                *)
LEMMA ResolveKeeps ==
  ASSUME StoreTypeOK, NEW j \in Jobs, JobInv(j), resolveReleaseAsset(j)
  PROVE  Stays(j) /\ JobInv(j)'
<1>0. cli[j].at = "release" /\ UNCHANGED <<shop, release, edited>>
  BY DEF resolveReleaseAsset, Now_, Quiet
<1>1. ASSUME NEW what \in {"refused", "unreachable", "unsure"}, Say(j, what)
      PROVE  Stays(j) /\ JobInv(j)'
  BY <1>0, <1>1, EndsHarmlessly DEF Harmless
<1>2. CASE ~release.draft /\ TakeFirst(j, Part(1, release.embedded))
  <2>1. Part(1, release.embedded) \in Seq(Assets)
    <3>1. release.embedded \in Nat /\ 1 \in Nat \ {0}
      BY DEF StoreTypeOK
    <3> QED
      BY <3>1, PartElements
  <2> QED
    BY <1>0, <1>2, <2>1, FirstIsAsked, TakeKeeps
<1>3. CASE ~release.draft /\ cli' = [cli EXCEPT ![j].at = "page", ![j].page = 1]
  <2>1. 1 \in 1..Pages /\ (1 - 1) * PageSize = 0 /\ Unlisted(j, 0)
    BY StoreAssumption DEF Unlisted
  <2> QED
    BY <1>0, <1>3, <2>1, PageKeeps
<1> QED
  BY <1>1, <1>2, <1>3 DEF resolveReleaseAsset, Unheard_, networkError

(* A page in which nothing matches adds its places to those looked at; the   *)
(* last one reaches the end of the list or of what is looked at.             *)
LEMMA PageAddsPlaces ==
  ASSUME StoreTypeOK, NEW j \in Jobs, NEW page \in 1..Pages, Unlisted(j, (page - 1) * PageSize),
         Matches(j, Batch(page)) = {}
  PROVE  /\ Unlisted(j, page * PageSize)
         /\ Len(Batch(page)) < PageSize \/ page = Pages => Unlisted(j, PageSize * Pages)
<1> DEFINE from == (page - 1) * PageSize + 1
           to == page * PageSize
           len == Len(release.assets)
           last == Upto(to)
<1>1. page \in Nat /\ page - 1 \in Nat /\ PageSize \in Nat \ {0} /\ len \in Nat
  BY StoreAssumption DEF StoreTypeOK
<1>2. from \in Nat \ {0} /\ to \in Nat /\ to = from - 1 + PageSize
  BY <1>1
<1>3. DOMAIN release.assets = 1..len
  BY DEF StoreTypeOK
<1> USE DEF Upto
<1>4. /\ Batch(page) \in Seq(Assets)
      /\ Len(Batch(page)) = IF from <= last THEN last - from + 1 ELSE 0
      /\ \A k \in DOMAIN Batch(page) : Batch(page)[k] = release.assets[from + k - 1]
  <2> HIDE DEF from, to, Upto
  <2>1. Batch(page) = Part(from, to)
    BY DEF Batch, from, to
  <2>2. from \in Nat \ {0} /\ to \in Nat
    BY <1>2
  <2>3. /\ Part(from, to) \in Seq(Assets)
        /\ Len(Part(from, to)) = IF from <= Upto(to) THEN Upto(to) - from + 1 ELSE 0
        /\ \A k \in DOMAIN Part(from, to) : Part(from, to)[k] = release.assets[from + k - 1]
    BY <2>2, PartElements
  <2> QED
    BY <2>1, <2>3
<1>5. \A k \in 1..to : k \in DOMAIN release.assets => ~Asked(j, release.assets[k])
  <2> SUFFICES ASSUME NEW k \in 1..to, k <= len PROVE ~Asked(j, release.assets[k])
    BY <1>3
  <2>1. CASE k < from
    <3>1. k \in 1..((page - 1) * PageSize) /\ k \in DOMAIN release.assets
      BY <1>1, <1>2, <1>3, <2>1
    <3> QED
      BY <3>1 DEF Unlisted
  <2>2. CASE from <= k
    <3> HIDE DEF from, to
    <3>1. k <= last /\ last \in Nat
      BY <1>1, <1>2
    <3>2. k - from + 1 \in 1..Len(Batch(page)) /\ from + (k - from + 1) - 1 = k
      BY <1>2, <1>4, <2>2, <3>1
    <3>3. k - from + 1 \in DOMAIN Batch(page)
      BY <1>4, <3>2
    <3>4. Batch(page)[k - from + 1] = release.assets[k]
      BY <1>4, <3>2, <3>3
    <3> QED
      BY <3>3, <3>4 DEF Matches
  <2> QED
    BY <1>2, <2>1, <2>2
<1>6. Unlisted(j, to)
  BY <1>5 DEF Unlisted
<1>7. CASE Len(Batch(page)) < PageSize
  <2>1. len <= to
    <3> HIDE DEF from, to
    <3>1. CASE to <= len
      BY <1>1, <1>2, <1>4, <1>7, <3>1
    <3>2. CASE len <= to
      BY <3>2
    <3> QED
      BY <1>1, <1>2, <3>1, <3>2
  <2> QED
    BY <1>2, <1>3, <1>5, <1>6, <2>1 DEF Unlisted
<1>8. CASE page = Pages
  <2>1. PageSize * Pages = to
    BY <1>1, <1>8
  <2> QED
    BY <1>6, <2>1
<1> QED
  BY <1>6, <1>7, <1>8

(* A page of the list is found to hold the asset, to be the last, or         *)
(* neither.                                                                  *)
LEMMA NextPageKeeps ==
  ASSUME StoreTypeOK, NEW j \in Jobs, JobInv(j), nextPage(j)
  PROVE  Stays(j) /\ JobInv(j)'
<1> DEFINE page == cli[j].page
<1>0. cli[j].at = "page" /\ UNCHANGED <<shop, release, edited>> /\ ~release.draft
      /\ page \in 1..Pages /\ (~edited => Unlisted(j, (page - 1) * PageSize))
  BY DEF nextPage, Now_, Quiet, JobInv, Finding
<1>1. ASSUME NEW what \in {"unreachable", "unsure"}, Say(j, what)
      PROVE  Stays(j) /\ JobInv(j)'
  BY <1>0, <1>1, EndsHarmlessly DEF Harmless
<1>2. CASE TakeFirst(j, Batch(page))
  <2>1. Batch(page) \in Seq(Assets)
    <3>1. (page - 1) * PageSize + 1 \in Nat \ {0} /\ page * PageSize \in Nat
      <4>1. page - 1 \in Nat /\ page \in Nat /\ PageSize \in Nat
        BY <1>0, StoreAssumption
      <4>2. (page - 1) * PageSize \in Nat /\ page * PageSize \in Nat
        <5> HIDE DEF page
        <5> QED
          BY <4>1
      <4> QED
        BY <4>2
    <3> QED
      BY <3>1, PartElements DEF Batch
  <2> QED
    BY <1>0, <1>2, <2>1, FirstIsAsked, TakeKeeps
<1>3. CASE Matches(j, Batch(page)) = {} /\ LastPage(j) /\ Say(j, "no such asset")
  <2>1. Stays(j) /\ cli'[j].at = "end" /\ cli'[j].said = "no such asset"
    BY <1>3, SayFields DEF Sayings
  <2>2. ~edited => Unlisted(j, PageSize * Pages)
    BY <1>0, <1>3, PageAddsPlaces DEF LastPage
  <2>3. Mine(j)' = {}
    BY <1>0 DEF JobInv, Finding, Mine
  <2> QED
    BY <1>0, <2>1, <2>2, <2>3 DEF JobInv, Finding, Telling, Registering, Unlisted, Asked, Stays
<1>4. CASE Matches(j, Batch(page)) = {} /\ ~LastPage(j) /\ cli' = [cli EXCEPT ![j].page = @ + 1]
  <2>1. page + 1 \in 1..Pages /\ (page + 1) - 1 = page
    BY <1>0, <1>4, StoreAssumption DEF LastPage
  <2>2. ~edited => Unlisted(j, ((page + 1) - 1) * PageSize)
    BY <1>0, <1>4, <2>1, PageAddsPlaces
  <2>3. cli' = [cli EXCEPT ![j].at = "page", ![j].page = page + 1]
    <3>1. cli[j] \in StoreJobs /\ cli \in [Jobs -> StoreJobs]
      BY DEF StoreTypeOK
    <3>2. [cli[j] EXCEPT !.page = page + 1] = [cli[j] EXCEPT !.at = "page", !.page = page + 1]
      BY <1>0, <3>1 DEF StoreJobs
    <3>3. cli' = [cli EXCEPT ![j] = [cli[j] EXCEPT !.page = page + 1]]
      BY <1>4
    <3>4. [cli EXCEPT ![j].at = "page", ![j].page = page + 1] = [cli EXCEPT ![j] = [cli[j] EXCEPT !.at = "page", !.page = page + 1]]
      BY <3>1
    <3> QED
      BY <3>2, <3>3, <3>4
  <2> HIDE DEF page
  <2> QED
    BY <1>0, <2>1, <2>2, <2>3, PageKeeps
<1> QED
  BY <1>1, <1>2, <1>3, <1>4 DEF nextPage, Unheard_, networkError

(* The bytes of the asset are found out.                                     *)
LEMMA HashKeeps ==
  ASSUME StoreTypeOK, NEW j \in Jobs, JobInv(j), assetSha256(j)
  PROVE  Stays(j) /\ JobInv(j)'
<1>0. cli[j].at = "hash" /\ UNCHANGED <<shop, release, edited>>
  BY DEF assetSha256, Now_, Quiet
<1>1. ASSUME NEW what \in {"refused", "unreachable", "unsure"}, Say(j, what)
      PROVE  Stays(j) /\ JobInv(j)'
  BY <1>0, <1>1, EndsHarmlessly DEF Harmless
<1>2. ASSUME NEW bytes \in Bytes, cli' = [cli EXCEPT ![j].at = "register", ![j].sha = bytes]
      PROVE  Stays(j) /\ JobInv(j)'
  <2> DEFINE c == [cli[j] EXCEPT !.at = "register", !.sha = bytes]
  <2>1. cli[j] \in StoreJobs
    BY DEF StoreTypeOK
  <2>2. c \in StoreJobs
    BY <2>1 DEF StoreJobs, StoreLabels
  <2>3. /\ c.op = cli[j].op /\ c.url = cli[j].url /\ c.env = cli[j].env /\ c.pkg = cli[j].pkg /\ c.named = cli[j].named
        /\ c.asset = cli[j].asset /\ c.local = cli[j].local /\ c.said = cli[j].said /\ c.token = cli[j].token
        /\ c.at = "register" /\ c.found = cli[j].found
    BY <2>1 DEF StoreJobs
  <2>4. cli' = [cli EXCEPT ![j] = c]
    BY <1>2
  <2> HIDE DEF c
  <2>5. Stays(j) /\ cli'[j] = c
    BY <2>2, <2>3, <2>4, RecordFields
  <2>6. cli'[j].said = Unset /\ Mine(j)' = {} /\ Telling(j)' /\ Registering(j)'
    BY <1>0, <2>3, <2>5, GoesOn
  <2>7. (cli'[j].env \/ Known(j)') /\ Asked(j, cli[j].found[1])'
    BY <1>0, <2>3, <2>5 DEF JobInv, Finding, Known, Asked
  <2> QED
    BY <1>0, <2>3, <2>5, <2>6, <2>7 DEF JobInv, Finding
<1>3. cli[j].found[1].bytes \in Bytes /\ cli[j].local \in Bytes \cup {Unset}
  <2>1. cli[j].found \in Seq(Assets) /\ Len(cli[j].found) = 1
    BY <1>0 DEF StoreTypeOK, StoreJobs, JobInv, Finding
  <2>2. cli[j].found[1] \in Assets
    BY <2>1
  <2> QED
    BY <2>2 DEF Assets, StoreTypeOK, StoreJobs
<1> QED
  BY <1>1, <1>2, <1>3 DEF assetSha256, Unheard_, networkError

------------------------------------------------------------------------------
(* All commands together.                                                    *)
StoreMove(j) ==
    \/ client(j) \/ LoginStart(j) \/ Me(j) \/ LogoutStart(j) \/ readCredentials(j) \/ writeCredentials(j)
    \/ readPackageIdentity(j) \/ Limits(j) \/ OwnApps(j) \/ addVersion(j) \/ createApp(j) \/ OwnNow(j)
    \/ resolveReleaseAsset(j) \/ nextPage(j) \/ assetSha256(j) \/ registerRelease(j)

(* Which steps touch the credentials, the store and the histories.           *)
LEMMA WorldMoves ==
  ASSUME NEW j \in Jobs, StoreMove(j)
  PROVE  /\ UNCHANGED <<release, edited>>
         /\ ~writeCredentials(j) => UNCHANGED <<creds, lastSaid, overlapped>>
         /\ ~(addVersion(j) \/ createApp(j) \/ registerRelease(j)) => UNCHANGED shop
         /\ \/ sentFrom' = sentFrom
            \/ cli[j].at \in {"own", "addVersion", "createApp", "ownNow", "register"} /\ Authorized(j)
<1>1. CASE client(j) \/ LoginStart(j) \/ Me(j) \/ LogoutStart(j) \/ readCredentials(j)
  <2>1. Quiet
    BY <1>1 DEF client, LoginStart, Me, LogoutStart, readCredentials
  <2> QED
    BY <2>1 DEF Quiet
<1>2. CASE readPackageIdentity(j) \/ Limits(j)
  BY <1>2 DEF readPackageIdentity, Limits, Quiet
<1>6. CASE writeCredentials(j)
  <2>1. UNCHANGED <<shop, release, sentFrom, edited>>
    BY <1>6 DEF writeCredentials
  <2> QED
    BY <1>6, <2>1
<1>3. CASE OwnApps(j) \/ OwnNow(j)
  BY <1>3 DEF OwnApps, OwnNow, Now_
<1>4. CASE addVersion(j) \/ createApp(j) \/ registerRelease(j)
  BY <1>4 DEF addVersion, createApp, registerRelease, Now_, Posted
<1>5. CASE resolveReleaseAsset(j) \/ nextPage(j) \/ assetSha256(j)
  <2>1. Quiet
    BY <1>5 DEF resolveReleaseAsset, nextPage, assetSha256
  <2> QED
    BY <2>1 DEF Quiet
<1> QED
  BY <1>1, <1>2, <1>3, <1>4, <1>5, <1>6 DEF StoreMove

(* Each step keeps what its own command has found out and said.              *)
LEMMA MoveKeeps ==
  ASSUME StoreTypeOK, CredentialInv, NEW j \in Jobs, JobInv(j), StoreMove(j)
  PROVE  Stays(j) /\ JobInv(j)' /\ ShopMoves(j)
<1>1. CASE addVersion(j) \/ createApp(j) \/ registerRelease(j)
  BY <1>1, PostsKeep
<1>2. CASE ~(addVersion(j) \/ createApp(j) \/ registerRelease(j))
  <2>1. ShopMoves(j)
    BY <1>2, WorldMoves DEF ShopMoves
  <2> QED
    BY <1>2, <2>1, ClientKeeps, SignInOutKeeps, CredentialsKeep, PublishKeeps, ResolveKeeps, NextPageKeeps, HashKeeps
    DEF StoreMove
<1> QED
  BY <1>1, <1>2

(* A command does not spoil what another has found out or said.              *)
LEMMA OtherCommandsKeep ==
  ASSUME StoreTypeOK, NEW j \in Jobs, NEW q \in Jobs, q # j, JobInv(q), Stays(j), ShopMoves(j), UNCHANGED <<release, edited>>
  PROVE  JobInv(q)'
<1>1. cli'[q] = cli[q]
  BY DEF Stays
<1>2. Mine(q)' = Mine(q)
  BY <1>1 DEF ShopMoves, Mine, Version
<1>3. /\ shop.owner = "me" => shop'.owner = "me"
      /\ shop.owner = "other" => shop'.owner = "other"
      /\ shop.owner # Unset => shop'.owner # Unset
      /\ shop.versions \subseteq shop'.versions
  BY DEF ShopMoves, Unset
<1>4. Finding(q)'
  BY <1>1, <1>2, <1>3 DEF JobInv, Finding, Known, Unlisted, Asked
<1>5. Telling(q)'
  BY <1>1, <1>2, <1>3 DEF JobInv, Telling, Has_
<1>6. Registering(q)'
  BY <1>1, <1>2 DEF JobInv, Registering, Asked
<1> QED
  BY <1>4, <1>5, <1>6 DEF JobInv

(* The credentials file holds what was last said, and only goes home.        *)
LEMMA CredentialsHold ==
  ASSUME StoreTypeOK, CredentialInv, NEW j \in Jobs, JobInv(j), StoreMove(j)
  PROVE  /\ CredentialInv'
         /\ creds' \in CredentialFiles \cup {Unreadable} /\ lastSaid' \in CredentialFiles /\ overlapped' \in BOOLEAN
<1>1. TokensGoHome'
  <2>1. CASE sentFrom' = sentFrom
    BY <2>1 DEF CredentialInv, TokensGoHome
  <2>2. CASE cli[j].at \in {"own", "addVersion", "createApp", "ownNow", "register"} /\ Authorized(j)
    <3>1. cli[j].env \/ Known(j)
      BY <2>2 DEF JobInv, Finding
    <3> QED
      BY <2>2, <3>1 DEF CredentialInv, TokensGoHome, Authorized, Known
  <2> QED
    BY <2>1, <2>2, WorldMoves
<1>2. CASE ~writeCredentials(j)
  <2>1. UNCHANGED <<creds, lastSaid, overlapped>>
    BY <1>2, WorldMoves
  <2> QED
    BY <1>1, <2>1 DEF CredentialInv, SignInsAreKept, AtHome, StoreTypeOK
<1>3. CASE writeCredentials(j)
  <2> DEFINE file == cli[j].read[1]
             url == cli[j].url
             token == IF cli[j].op = "login" THEN cli[j].token ELSE Unset
  <2>1. /\ file \in CredentialFiles /\ AtHome(file) /\ url \in Shops /\ token \in ShopTokens \cup {Unset}
        /\ token # Unset => Issuer(token) = url
    BY <1>3 DEF writeCredentials, Now_, JobInv, Finding, StoreTypeOK, StoreJobs, Known
  <2>2. /\ creds' = [file EXCEPT ![url] = token] /\ lastSaid' = [lastSaid EXCEPT ![url] = token]
        /\ overlapped' = (overlapped \/ file # creds)
    BY <1>3 DEF writeCredentials, Changed
  <2> HIDE DEF file, url, token
  <2>3. creds' \in CredentialFiles /\ lastSaid' \in CredentialFiles /\ AtHome(creds')
    BY <2>1, <2>2 DEF CredentialFiles, AtHome, StoreTypeOK
  <2>4. SignInsAreKept'
    <3>1. Unreadable \notin CredentialFiles
      BY DEF Unreadable, CredentialFiles, ShopTokens, Shops, Unset
    <3>2. ~overlapped' => ~overlapped /\ file = creds /\ creds # Unreadable
      BY <2>1, <2>2, <3>1
    <3> QED
      BY <2>2, <3>2 DEF SignInsAreKept, CredentialInv
  <2> QED
    BY <1>1, <2>2, <2>3, <2>4 DEF CredentialInv, AtHome, StoreTypeOK
<1> QED
  BY <1>2, <1>3

(* An asset that is deleted leaves a list of assets.                         *)
LEMMA DeletionKeeps ==
  ASSUME StoreInv, DeleteAsset
  PROVE  StoreInv'
<1>1. PICK k \in DOMAIN release.assets : release' = [release EXCEPT !.assets = RemoveAt(@, k)]
  BY DEF DeleteAsset
<1>2. release \in [draft: BOOLEAN, embedded: Nat, assets: Seq(Assets)]
  BY DEF StoreInv, StoreTypeOK
<1>3. RemoveAt(release.assets, k) \in Seq(Assets)
  <2> DEFINE list == release.assets
  <2>1. list \in Seq(Assets) /\ Len(list) \in Nat /\ k \in 1..Len(list)
    BY <1>1, <1>2
  <2> HIDE DEF list
  <2>2. SubSeq(list, 1, k - 1) \in Seq(Assets) /\ SubSeq(list, k + 1, Len(list)) \in Seq(Assets)
    BY <2>1
  <2>3. SubSeq(list, 1, k - 1) \o SubSeq(list, k + 1, Len(list)) \in Seq(Assets)
    BY <2>2
  <2> QED
    BY <2>3 DEF RemoveAt, list
<1>4. release' \in [draft: BOOLEAN, embedded: Nat, assets: Seq(Assets)] /\ release'.draft = release.draft
  BY <1>1, <1>2, <1>3
<1>5. edited' = TRUE /\ UNCHANGED <<cli, creds, shop, sentFrom, lastSaid, overlapped>>
  BY DEF DeleteAsset
<1>6. StoreTypeOK' /\ CredentialInv'
  BY <1>4, <1>5 DEF StoreInv, StoreTypeOK, CredentialInv, TokensGoHome, SignInsAreKept, AtHome
<1>7. ASSUME NEW q \in Jobs PROVE JobInv(q)'
  <2>1. JobInv(q)
    BY DEF StoreInv
  <2>2. Finding(q)'
    BY <1>4, <1>5, <2>1 DEF JobInv, Finding, Known, Asked, Mine
  <2>3. Telling(q)' /\ Registering(q)'
    BY <1>4, <1>5, <2>1 DEF JobInv, Telling, Registering, Has_, Mine, Asked
  <2> QED
    BY <2>2, <2>3 DEF JobInv
<1> QED
  BY <1>6, <1>7 DEF StoreInv

(* So does every step of all of them.                                        *)
LEMMA StoreNextInv == StoreInv /\ [StoreNext]_storeVars => StoreInv'
<1> SUFFICES ASSUME StoreInv, [StoreNext]_storeVars PROVE StoreInv'
  OBVIOUS
<1>1. CASE \E j \in Jobs : StoreMove(j)
  <2>1. PICK j \in Jobs : StoreMove(j)
    BY <1>1
  <2>2. StoreTypeOK /\ CredentialInv /\ JobInv(j) /\ UNCHANGED <<release, edited>>
    BY <2>1, WorldMoves DEF StoreInv
  <2>3. Stays(j) /\ JobInv(j)' /\ ShopMoves(j)
    BY <2>1, <2>2, MoveKeeps
  <2>4. ASSUME NEW q \in Jobs PROVE JobInv(q)'
    BY <2>2, <2>3, OtherCommandsKeep DEF StoreInv
  <2>5. CredentialInv' /\ creds' \in CredentialFiles \cup {Unreadable} /\ lastSaid' \in CredentialFiles /\ overlapped' \in BOOLEAN
    BY <2>1, <2>2, CredentialsHold
  <2>6. shop'.owner \in {Unset, "other", "me"} /\ shop' = [owner |-> shop'.owner, versions |-> shop'.versions]
    BY <2>2, <2>3 DEF ShopMoves, StoreTypeOK
  <2>7. StoreTypeOK'
    BY <2>2, <2>3, <2>5, <2>6 DEF StoreTypeOK, Stays
  <2> QED
    BY <2>4, <2>5, <2>7 DEF StoreInv
<1>2. CASE DeleteAsset
  BY <1>2, DeletionKeeps
<1>3. CASE UNCHANGED storeVars
  <2>1. UNCHANGED <<cli, creds, shop, release, sentFrom, lastSaid, overlapped, edited>>
    BY <1>3 DEF storeVars
  <2>2. StoreTypeOK' /\ CredentialInv'
    BY <2>1 DEF StoreInv, StoreTypeOK, CredentialInv, TokensGoHome, SignInsAreKept, AtHome
  <2>3. ASSUME NEW q \in Jobs PROVE JobInv(q)'
    <3>1. Finding(q)'
      BY <2>1 DEF StoreInv, JobInv, Finding, Known, Unlisted, Asked, Mine
    <3>2. Telling(q)' /\ Registering(q)'
      BY <2>1 DEF StoreInv, JobInv, Telling, Registering, Asked, Mine, Has_
    <3> QED
      BY <3>1, <3>2 DEF JobInv
  <2> QED
    BY <2>2, <2>3 DEF StoreInv
<1> QED
  BY <1>1, <1>2, <1>3 DEF StoreNext, StoreMove

------------------------------------------------------------------------------
(* Every command starts at its start.                                        *)
Starts(c) == c \in StoreJobs /\ c.at = "start" /\ c.said = Unset

LEMMA CommandsStart == \A c \in Commands_ : Starts(c)
<1>1. AnyPackage \in Packages
  <2>1. Package("B", "b", 1, FALSE) \in Packages
    BY DEF Packages
  <2> QED
    BY <2>1 DEF AnyPackage
<1>2. /\ <<>> \in Seq(CredentialFiles \cup {"unheard"}) /\ <<>> \in Seq(Assets)
  OBVIOUS
<1>3. ASSUME NEW op \in {"login", "logout", "publish", "register"}, NEW url \in Shops, NEW token \in ShopTokens \cup {Unset},
             NEW env \in BOOLEAN, NEW pkg \in Packages, NEW named \in BOOLEAN, NEW asset \in Nat, NEW local \in Bytes \cup {Unset}
      PROVE  Starts(Job(op, url, token, env, pkg, named, asset, local))
  BY <1>2 DEF Job, Starts, StoreJobs, StoreLabels, Sayings, Unset
<1>4. /\ {"plain", "other", "store"} \subseteq Shops /\ {"tStore", "tOther", Unset} \subseteq ShopTokens \cup {Unset}
      /\ {"p", "r", Unset} \subseteq Bytes \cup {Unset} /\ {TRUE, FALSE} \subseteq BOOLEAN
  BY DEF Shops, ShopTokens, Bytes
<1>5. ASSUME NEW u \in {<<"plain", "tStore">>, <<"other", "tOther">>} \cup ({"store"} \X ShopTokens)
      PROVE  Starts(Job("login", u[1], u[2], FALSE, AnyPackage, FALSE, 0, Unset))
  <2>1. u[1] \in Shops /\ u[2] \in ShopTokens \cup {Unset}
    BY <1>4
  <2> QED
    BY <1>1, <1>3, <1>4, <2>1
<1>6. \A u \in Shops : Starts(Job("logout", u, Unset, FALSE, AnyPackage, FALSE, 0, Unset))
  BY <1>1, <1>3, <1>4
<1>7. \A p \in Packages, n \in BOOLEAN : Starts(Job("publish", "store", Unset, FALSE, p, n, 0, Unset))
  BY <1>1, <1>3, <1>4
<1>8. \A t \in {"tStore", "tOther"} : Starts(Job("publish", "store", t, TRUE, AnyPackage, TRUE, 0, Unset))
  BY <1>1, <1>3, <1>4
<1>9. \A a \in {1, 3}, l \in {"p", "r", Unset} : Starts(Job("register", "store", Unset, FALSE, AnyPackage, TRUE, a, l))
  BY <1>1, <1>3, <1>4
<1>10. Starts(Job("register", "store", Unset, FALSE, AnyPackage, FALSE, 1, Unset))
  BY <1>1, <1>3, <1>4
<1> SUFFICES ASSUME NEW c \in Commands_ PROVE Starts(c)
  OBVIOUS
<1>11. CASE c \in {Job("login", u[1], u[2], FALSE, AnyPackage, FALSE, 0, Unset) :
                     u \in {<<"plain", "tStore">>, <<"other", "tOther">>} \cup ({"store"} \X ShopTokens)}
  BY <1>5, <1>11
<1>12. CASE c \in {Job("logout", u, Unset, FALSE, AnyPackage, FALSE, 0, Unset) : u \in Shops}
  BY <1>6, <1>12
<1>13. CASE c \in {Job("publish", "store", Unset, FALSE, u[1], u[2], 0, Unset) : u \in Packages \X BOOLEAN}
  BY <1>7, <1>13
<1>14. CASE c \in {Job("publish", "store", t, TRUE, AnyPackage, TRUE, 0, Unset) : t \in {"tStore", "tOther"}}
  BY <1>8, <1>14
<1>15. CASE c \in {Job("register", "store", Unset, FALSE, AnyPackage, TRUE, u[1], u[2]) : u \in {1, 3} \X {"p", "r", Unset}}
  BY <1>9, <1>15
<1>16. CASE c \in {Job("register", "store", Unset, FALSE, AnyPackage, FALSE, 1, Unset)}
  BY <1>10, <1>16
<1> QED
  BY <1>11, <1>12, <1>13, <1>14, <1>15, <1>16 DEF Commands_

(* At first nothing is said, published or sent.                              *)
LEMMA StoreInitInv == StoreInit => StoreInv
<1> SUFFICES ASSUME StoreInit PROVE StoreInv
  OBVIOUS
<1>2. cli \in [Jobs -> StoreJobs] /\ \A j \in Jobs : cli[j].at = "start" /\ cli[j].said = Unset
  BY CommandsStart DEF StoreInit, Starts
<1>3. StoreTypeOK
  <2>1. release \in [draft: BOOLEAN, embedded: Nat, assets: Seq(Assets)]
    BY StoreAssumption DEF StoreInit
  <2>2. creds \in CredentialFiles \cup {Unreadable} /\ lastSaid \in CredentialFiles
    BY DEF StoreInit, CredentialFiles, ShopTokens, Unset
  <2>3. shop.owner \in {Unset, "other", "me"} /\ shop = [owner |-> shop.owner, versions |-> shop.versions]
    BY DEF StoreInit
  <2> QED
    BY <1>2, <2>1, <2>2, <2>3 DEF StoreInit, StoreTypeOK
<1>4. CredentialInv
  BY DEF StoreInit, CredentialInv, TokensGoHome, SignInsAreKept, AtHome, Shops, Issuer, Unset
<1>5. ASSUME NEW j \in Jobs PROVE JobInv(j)
  <2>1. Mine(j) = {}
    BY StoreAssumption DEF StoreInit, Mine
  <2> QED
    BY <1>2, <2>1 DEF JobInv, Finding, Telling, Registering, Unset
<1> QED
  BY <1>3, <1>4, <1>5 DEF StoreInv

(* For any number of commands and any assets, pages and page sizes: a stored *)
(* token is only sent to the store that issued it; what was said of signing  *)
(* in and out is what the file holds, as long as no two commands save at     *)
(* once; and what a publish or a registration told its user is true.         *)
THEOREM StoreTellsTheTruth == StoreSpec => []StoreIsTold
<1>1. StoreInv => StoreIsTold
  BY DEF StoreInv, CredentialInv, JobInv, Telling, Registering, StoreIsTold, PublishIsTold, RegisteredIsAsked
<1> QED
  BY <1>1, StoreInitInv, StoreNextInv, PTL DEF StoreSpec
================================================================================
