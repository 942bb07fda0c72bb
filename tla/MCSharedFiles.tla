---------------------------- MODULE MCSharedFiles ----------------------------
(***************************************************************************)
(* Two kinds of commands that change files which other commands of their   *)
(* kind change too, checked side by side: installs of the command-line     *)
(* tools, killed anywhere, and the commands of the app store.              *)
(***************************************************************************)
EXTENDS CmdToolsInstall, StorePublish

CONSTANTS bin, sdk, notes  \* entries of the install directory

VARIABLE command
fileVars == <<command, vars, storeVars>>

\* While one kind is checked, the other's variables keep one initial value.
FilesInit ==
    /\ command \in {"cmdtools", "store"}
    /\ Init      /\ (command = "cmdtools" \/ made = {})
    /\ StoreInit /\ \/ command = "store"
                    \/ /\ creds = Unreadable /\ shop.owner = "other"
                       /\ \A j \in Jobs : cli[j].op = "logout" /\ cli[j].url = "store"

FilesNext ==
    \/ command = "cmdtools" /\ Next /\ UNCHANGED <<command, storeVars>>
    \/ command = "store" /\ StoreNext /\ UNCHANGED <<command, vars>>

FilesSpec == FilesInit /\ [][FilesNext]_fileVars

------------------------------------------------------------------------------
\* The first archive brings `sdk`, the second does not.
Archives == [i \in Installers |-> IF i = 2 THEN {bin, sdk} ELSE {bin}]

Asset(id, uploaded, digest, bytes) == [id |-> id, uploaded |-> uploaded, digest |-> digest, bytes |-> bytes]
\* The asset that is asked for: listed first, on the second page, still being uploaded, in a draft.
MCReleases ==
    {[draft |-> FALSE, embedded |-> 1, assets |-> <<Asset(1, TRUE, TRUE, "p"), Asset(2, TRUE, TRUE, "r"), Asset(3, TRUE, FALSE, "q")>>],
     [draft |-> FALSE, embedded |-> 1, assets |-> <<Asset(2, TRUE, TRUE, "r"), Asset(3, FALSE, FALSE, "p")>>],
     [draft |-> TRUE, embedded |-> 1, assets |-> <<Asset(1, TRUE, TRUE, "p")>>]}
==============================================================================
