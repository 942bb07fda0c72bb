------------------------------ MODULE SdkInstall ------------------------------
(***************************************************************************)
(* sdk/install.ts with download.ts, tmp.ts, move.ts and remove.ts:         *)
(* downloadAndInstallSdk and installSdkFromArchive of one API level, as    *)
(* processes that overlap, fail, are cancelled or are killed at any step.  *)
(* They share the SDK's directory and the scratch root `.oniro-tmp`.       *)
(***************************************************************************)
EXTENDS Naturals, FiniteSets

CONSTANTS Installs,      \* the processes
          FromArchive,   \* those that install a local archive; the others download
          Forced,        \* those of them run with --force
          Components     \* the ZIPs of an SDK

ASSUME SdkAssumption == FromArchive \subseteq Installs /\ Forced \subseteq FromArchive /\ Components # {}

VARIABLES at,            \* the label each process is at
          work,          \* where its scratch directory was made: "none", "root" or "system"
          scratch,       \* the processes whose scratch directory exists
          tar,           \* whether the downloaded archive is there, whole
          unpacked,      \* the components it has unpacked, in its scratch directory
          abort,         \* whether its abortSignal has fired
          root,          \* whether .oniro-tmp exists
          sdk,           \* the SDK's directory: {} is absent, else <<component, process>>
          disturbed      \* an install ended while it replaced the SDK, or two replaced it at once
sdkVars == <<at, work, scratch, tar, unpacked, abort, root, sdk, disturbed>>

Whole(i) == Components \X {i}
Ended == {"done", "failed", "cancelled", "killed"}
Replaces == {"remove", "move", "copy"}
Replacing(i) == at[i] \in Replaces
Active(i) == at[i] \notin Ended \cup {"start"}

SdkInit ==
    /\ at = [i \in Installs |-> "start"] /\ work = [i \in Installs |-> "none"] /\ scratch = {}
    /\ tar = [i \in Installs |-> FALSE] /\ unpacked = [i \in Installs |-> {}]
    /\ abort = [i \in Installs |-> FALSE] /\ root = FALSE /\ disturbed = FALSE
    /\ sdk \in {{}, Whole("before")}

\* An install that ends while it replaces the SDK, or meets another that does, may tear it.
To(i, label) ==
    /\ at' = [at EXCEPT ![i] = label]
    /\ disturbed' = \/ disturbed
                    \/ Replacing(i) /\ label \notin Replaces \cup {"clean"}
                    \/ label \in Replaces /\ \E j \in Installs \ {i} : Replacing(j)
Stays == UNCHANGED <<at, disturbed>>

\* createTempWorkDir is mkdir and then mkdtemp; a root that is gone by then, or cannot be written,
\* sends the install to the system's directory for temporary files.
MakeRoot(i) == /\ at[i] = "start" /\ To(i, "mkdtemp") /\ root' = TRUE
               /\ UNCHANGED <<work, scratch, tar, unpacked, abort, sdk>>
MakeWorkDir(i) ==
    /\ at[i] = "mkdtemp" /\ To(i, IF i \in FromArchive THEN "extract" ELSE "download")
    /\ scratch' = scratch \cup {i}
    /\ work' = [work EXCEPT ![i] = IF root THEN "root" ELSE "system"]
    /\ UNCHANGED <<tar, unpacked, abort, root, sdk>>

\* An abort during a download fails it.  Its listeners stay, and an abort at any later time removes
\* the archive that the download has left.
Abort_(i) == /\ Active(i) /\ ~abort[i] /\ abort' = [abort EXCEPT ![i] = TRUE]
             /\ tar' = [tar EXCEPT ![i] = FALSE]
             /\ IF at[i] = "download" THEN To(i, "cancelling") ELSE Stays
             /\ UNCHANGED <<work, scratch, unpacked, root, sdk>>
downloadFile(i) == /\ at[i] = "download" /\ To(i, "verify") /\ tar' = [tar EXCEPT ![i] = TRUE]
                   /\ UNCHANGED <<work, scratch, unpacked, abort, root, sdk>>

Goes(i, from, to) == at[i] = from /\ To(i, to) /\ UNCHANGED <<work, scratch, tar, unpacked, abort, root, sdk>>
\* verifySha256 and extractTarball open the archive; what they have opened outlives its removal.
verifySha256(i)   == tar[i] /\ Goes(i, "verify", "extract")
extractTarball(i) == (i \in FromArchive \/ tar[i]) /\ Goes(i, "extract", "extracted")
CheckCancelled(i) == Goes(i, "extracted", IF abort[i] THEN "cancelling"
                                          ELSE IF i \in FromArchive \ Forced THEN "exists" ELSE "unzip")
CheckInstalled(i) == Goes(i, "exists", IF sdk # {} THEN "failing" ELSE "unzip")

\* Mutant: the components are put in place one by one.
Unzip_InPlace(i) ==
    /\ at[i] = "unzip" /\ ~abort[i] /\ unpacked[i] # Components
    /\ \E c \in Components \ unpacked[i] :
          /\ unpacked' = [unpacked EXCEPT ![i] = @ \cup {c}]
          /\ sdk' = {f \in sdk : f[1] # c} \cup {<<c, i>>}
    /\ Stays /\ UNCHANGED <<work, scratch, tar, abort, root>>

\* installComponents unpacks one component after the other, and looks at the signal before each.
Unzip(i) == /\ at[i] = "unzip" /\ ~abort[i] /\ unpacked[i] # Components
            /\ \E c \in Components \ unpacked[i] : unpacked' = [unpacked EXCEPT ![i] = @ \cup {c}]
            /\ Stays /\ UNCHANGED <<work, scratch, tar, abort, root, sdk>>
UnzipCancelled(i) == abort[i] /\ unpacked[i] # Components /\ Goes(i, "unzip", "cancelling")

\* Mutant: the old SDK is removed before the new one is unpacked.
RemoveOld_First(i) == /\ at[i] = "unzip" /\ sdk # {} /\ To(i, "remove") /\ sdk' = {}
                      /\ UNCHANGED <<work, scratch, tar, unpacked, abort, root>>

\* The old SDK is removed, file by file, then the new one is moved into its place.
RemoveOld(i) == /\ \/ /\ at[i] = "unzip" /\ unpacked[i] = Components
                      /\ To(i, "remove") /\ UNCHANGED sdk
                   \/ /\ at[i] = "remove" /\ \E f \in sdk : sdk' = sdk \ {f}
                      /\ Stays
                   \/ at[i] = "remove" /\ sdk = {} /\ To(i, "move") /\ UNCHANGED sdk
                /\ UNCHANGED <<work, scratch, tar, unpacked, abort, root>>
\* movePath: a rename, which a directory in the way refuses, ...
Rename(i) == /\ at[i] = "move" /\ work[i] = "root"
             /\ IF sdk = {} THEN sdk' = Whole(i) /\ To(i, "clean") ELSE To(i, "failing") /\ UNCHANGED sdk
             /\ UNCHANGED <<work, scratch, tar, unpacked, abort, root>>
\* ... or, from another filesystem, a copy, file by file, over what is there.
Copy(i) == /\ at[i] \in {"move", "copy"} /\ work[i] = "system"
           /\ \/ /\ \E c \in Components : /\ <<c, i>> \notin sdk
                                          /\ sdk' = {f \in sdk : f[1] # c} \cup {<<c, i>>}
                 /\ To(i, "copy")
              \/ Whole(i) \subseteq sdk /\ UNCHANGED sdk /\ To(i, "clean")
           /\ UNCHANGED <<work, scratch, tar, unpacked, abort, root>>

\* Mutant: the scratch root goes whether or not another install uses it.
RemoveWorkDir_All(i, outcome) ==
    /\ To(i, outcome)
    /\ root' = FALSE /\ scratch' = {j \in scratch \ {i} : work[j] = "system"}
    /\ UNCHANGED <<work, tar, unpacked, abort, sdk>>

\* removeTempWorkDir: the scratch directory, and its root unless another install has one there.
RemoveWorkDir(i, outcome) ==
    /\ To(i, outcome) /\ scratch' = scratch \ {i}
    /\ root' = (root /\ (work[i] = "system" \/ \E j \in scratch \ {i} : work[j] = "root"))
    /\ UNCHANGED <<work, tar, unpacked, abort, sdk>>

Clean(i)    == \/ at[i] = "clean" /\ RemoveWorkDir(i, "done")
               \/ at[i] = "failing" /\ RemoveWorkDir(i, "failed")
               \/ at[i] = "cancelling" /\ RemoveWorkDir(i, "cancelled")
\* Any step may fail: a full disk, a lost connection, another checksum, no SDK in the archive.
Fail(i)     == \E label \in {"download", "verify", "extract", "extracted", "unzip", "remove", "move", "copy"} :
                   Goes(i, label, "failing")
Kill(i)     == Active(i) /\ Goes(i, at[i], "killed")
removeSdk   == /\ sdk # {} /\ sdk' = {}
               /\ disturbed' = (disturbed \/ \E i \in Installs : Replacing(i))
               /\ UNCHANGED <<at, work, scratch, tar, unpacked, abort, root>>

SdkNext == \/ \E i \in Installs :
                 \/ MakeRoot(i) \/ MakeWorkDir(i) \/ downloadFile(i) \/ verifySha256(i) \/ extractTarball(i)
                 \/ CheckCancelled(i) \/ CheckInstalled(i) \/ Unzip(i) \/ UnzipCancelled(i) \/ RemoveOld(i)
                 \/ Rename(i) \/ Copy(i) \/ Clean(i) \/ Fail(i) \/ Kill(i) \/ Abort_(i)
           \/ removeSdk
SdkSpec == SdkInit /\ [][SdkNext]_sdkVars

------------------------------------------------------------------------------
\* An SDK that is there is all of one archive, wherever installs fail, are cancelled or are killed and
\* however they overlap, except while one of them replaces it, or after one ended or two met in that.
SdkIsWhole == \/ sdk = {} \/ \E i \in Installs \cup {"before"} : sdk = Whole(i)
              \/ disturbed \/ \E i \in Installs : at[i] \in {"remove", "copy"}

\* An SDK gives way only to one that is unpacked to its last component (or to `sdk remove`): an install
\* that fails, is cancelled or is killed before has not touched it.
OldSdkOutlivesFailures ==
    [][sdk \subseteq sdk' \/ removeSdk \/ \E i \in Installs : Replacing(i) /\ unpacked[i] = Components]_sdkVars

\* No install takes the scratch directory of another, and none that ends by itself leaves its own: with
\* nobody killed, the root goes with the last.
ScratchIsPrivate ==
    /\ \A i \in Installs : Active(i) /\ at[i] # "mkdtemp" => i \in scratch
    /\ \A i \in scratch : work[i] = "root" => root
    /\ (\A i \in Installs : at[i] \in Ended \ {"killed"}) => scratch = {} /\ ~root

\* So installs that fail, are cancelled or overlap harm neither the SDK nor each other.
SdkIsSafe == SdkIsWhole /\ ScratchIsPrivate
==============================================================================
