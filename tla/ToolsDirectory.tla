--------------------------- MODULE ToolsDirectory ---------------------------
(***************************************************************************)
(* What `cmdtools install` and `cmdtools remove` promise: an install       *)
(* replaces the directory's release outright or changes nothing; at worst, *)
(* when it can neither finish nor undo, entries of the old release go      *)
(* missing.  Two releases are never mixed.                                 *)
(***************************************************************************)
EXTENDS Naturals

CONSTANTS
    Entries,      \* top-level names
    ToolEntries,  \* those that belong to the tools
    Installers,   \* installs; each brings the release of its own number
    Archive       \* the entries that each install's archive brings

VARIABLE contents  \* the files: <<entry, release>>

Release(i) == Archive[i] \X {i}

(* What an install of i makes of `files`.                                    *)
Replaced(files, i) ==
    {f \in files : f[1] \notin ToolEntries \cup Archive[i]} \cup Release(i)

Init == contents \in SUBSET (Entries \X {1})

Install(i) == contents' = Replaced(contents, i)
Remove == contents' = {}

(* Nothing is added, and nothing goes that an install of i does not replace. *)
SetAside(i) ==
    contents' \in {files \in SUBSET contents :
                     \A f \in contents \ files : f[1] \in ToolEntries \cup Archive[i]}

Next == (\E i \in Installers : Install(i) \/ SetAside(i)) \/ Remove

Spec == Init /\ [][Next]_contents
==============================================================================
