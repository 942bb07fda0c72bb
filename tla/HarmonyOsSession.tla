-------------------------- MODULE HarmonyOsSession --------------------------
(***************************************************************************)
(* The stored HarmonyOS session (tokenStore.ts) and the commands that use  *)
(* it (session.ts): login saves it, getUserInfo (auth status, auth team,   *)
(* signing) and logout load it.  Every command is a process of its own,    *)
(* and any of them may be killed; the token and the key that decrypts it   *)
(* are two files without a lock, written in place.                         *)
(***************************************************************************)
EXTENDS Naturals, FiniteSets

CONSTANTS
    Clients,      \* concurrent CLI processes
    Tokens,       \* JWTs the account service can issue
    MaxKeys,      \* bound: keys generated
    FirstKeys,    \* keys that may be on disk at the start (0 or none)
    Denials,      \* permission problems that may come and go
    Absent,       \* no file, nothing loaded
    Torn          \* a file opened for writing and not yet written

Keys == 0..MaxKeys
Blobs == [jwt: Tokens, key: Keys]

ASSUME SessionAssumption ==
    /\ MaxKeys \in Nat
    /\ FirstKeys \subseteq {0}
    /\ Denials \subseteq {"token", "keys", "keysParent"}
    /\ Absent # Torn /\ Absent \notin Tokens
    /\ Absent \notin Keys /\ Torn \notin Keys
    /\ Absent \notin Blobs /\ Torn \notin Blobs

VARIABLES
    tokenFile,  \* token.enc
    keyFile,    \* kek.bin
    keysMade,   \* keys generated so far
    writing,    \* clients whose open descriptor is the file that token.enc names
    denied,     \* what the user cannot access at present
    live,       \* JWTs the account service accepts
    issued,     \* JWTs it has issued
    pc, op, jwt, blob, outcome  \* per client

disk == <<tokenFile, writing>>
keyDisk == <<keyFile, keysMade>>
world == <<denied, live, issued>>
vars == <<tokenFile, keyFile, keysMade, writing, denied, live, issued,
          pc, op, jwt, blob, outcome>>

Init ==
    /\ tokenFile = Absent /\ writing = {}
    /\ keyFile \in {Absent} \cup FirstKeys /\ keysMade = 0
    /\ denied = "nothing" /\ live = {} /\ issued = {}
    /\ pc = [c \in Clients |-> "idle"]
    /\ op = [c \in Clients |-> "none"]
    /\ jwt = [c \in Clients |-> Absent]
    /\ blob = [c \in Clients |-> Absent]
    /\ outcome = [c \in Clients |-> "none"]

(* Client c goes on at `step`; or its command returns or throws.             *)
Goto(c, step) == pc' = [pc EXCEPT ![c] = step] /\ UNCHANGED <<op, outcome>>
End(c, how) ==
    /\ pc' = [pc EXCEPT ![c] = "idle"]
    /\ outcome' = [outcome EXCEPT ![c] = how]
    /\ UNCHANGED op
Begin(c, o, step) ==
    /\ pc[c] = "idle"
    /\ pc' = [pc EXCEPT ![c] = step]
    /\ op' = [op EXCEPT ![c] = o]
    /\ outcome' = [outcome EXCEPT ![c] = "none"]

(* token.enc is unlinked: what is still written to it is lost.               *)
Unlinked == tokenFile' = Absent /\ writing' = {}

------------------------------------------------------------------------------
(* The commands.                                                             *)

(* A browser sign-in has yielded a JWT the service accepts: store.save.      *)
Login(c) ==
    /\ Begin(c, "login", "key")
    /\ \E t \in Tokens \ issued :
         /\ issued' = issued \cup {t} /\ live' = live \cup {t}
         /\ jwt' = [jwt EXCEPT ![c] = t]
    /\ UNCHANGED <<disk, keyDisk, denied, blob>>

Command(c) ==
    /\ \E o \in {"getUserInfo", "logout"} : Begin(c, o, "exists")
    /\ jwt' = [jwt EXCEPT ![c] = Absent]
    /\ UNCHANGED <<disk, keyDisk, world, blob>>

LoadExists(c) ==
    /\ pc[c] = "exists"
    /\ IF tokenFile = Absent THEN End(c, "signedOut") ELSE Goto(c, "read")
    /\ UNCHANGED <<disk, keyDisk, world, jwt, blob>>

(* The file exists, and the user may not open it.                            *)
TokenDenied == denied = "token" /\ tokenFile # Absent

(* Mutant: what was read is taken for a blob unchecked.                      *)
LoadRead_Unchecked(c) ==
    /\ pc[c] = "read"
    /\ \/ TokenDenied /\ End(c, "kept") /\ UNCHANGED blob
       \/ /\ ~TokenDenied
          /\ blob' = [blob EXCEPT ![c] = tokenFile]
          /\ Goto(c, "key")
    /\ UNCHANGED <<disk, keyDisk, world, jwt>>

(* A file the user may not read is left alone; one that is gone by now or    *)
(* half written is unusable.                                                 *)
LoadRead(c) ==
    /\ pc[c] = "read"
    /\ \/ TokenDenied /\ End(c, "kept") /\ UNCHANGED blob
       \/ ~TokenDenied /\ tokenFile \notin Blobs /\ Goto(c, "discard") /\ UNCHANGED blob
       \/ /\ ~TokenDenied /\ tokenFile \in Blobs
          /\ blob' = [blob EXCEPT ![c] = tokenFile]
          /\ Goto(c, "key")
    /\ UNCHANGED <<disk, keyDisk, world, jwt>>

(* What follows loadOrCreateKey: save encrypts, load decrypts with the key.  *)
WithKey(c, k) ==
    IF op[c] = "login"
    THEN /\ blob' = [blob EXCEPT ![c] = [jwt |-> jwt[c], key |-> k]]
         /\ Goto(c, "open")
         /\ UNCHANGED jwt
    ELSE /\ IF blob[c].key = k
            THEN /\ jwt' = [jwt EXCEPT ![c] = blob[c].jwt]
                 /\ Goto(c, "server")
            ELSE Goto(c, "discard") /\ UNCHANGED jwt
         /\ UNCHANGED blob

(* Mutant: every login makes a key of its own.                               *)
KeyRead_AlwaysNew(c) ==
    /\ pc[c] = "key"
    /\ IF op[c] # "login" /\ keyFile \in Keys
       THEN WithKey(c, keyFile)
       ELSE Goto(c, "truncateKey") /\ UNCHANGED <<jwt, blob>>
    /\ UNCHANGED <<disk, keyDisk, world>>

(* loadOrCreateKey: read the key, or go on to make one.  In a directory that *)
(* cannot be searched the file seems absent: writing it then fails with      *)
(* EACCES; if it is the directory above, ensureDir throws its own error.     *)
KeyRead(c) ==
    /\ pc[c] = "key"
    /\ \/ /\ denied \notin {"keys", "keysParent"}
          /\ \/ keyFile \in Keys /\ WithKey(c, keyFile)
             \/ keyFile \notin Keys /\ Goto(c, "truncateKey") /\ UNCHANGED <<jwt, blob>>
       \/ /\ denied \in {"keys", "keysParent"}
          /\ IF op[c] = "login" THEN End(c, "failed")
             ELSE IF denied = "keys" THEN End(c, "kept") ELSE Goto(c, "discard")
          /\ UNCHANGED <<jwt, blob>>
    /\ UNCHANGED <<disk, keyDisk, world>>

KeyTruncate(c) ==
    /\ pc[c] = "truncateKey"
    /\ keyFile' = Torn
    /\ Goto(c, "fillKey")
    /\ UNCHANGED <<disk, keysMade, world, jwt, blob>>

KeyFill(c) ==
    /\ pc[c] = "fillKey" /\ keysMade < MaxKeys
    /\ keysMade' = keysMade + 1 /\ keyFile' = keysMade + 1
    /\ WithKey(c, keysMade + 1)
    /\ UNCHANGED <<disk, world>>

(* writeFileSync opens the token file, which empties it, and then writes.    *)
SaveOpen(c) ==
    /\ pc[c] = "open"
    /\ IF TokenDenied
       THEN End(c, "failed") /\ UNCHANGED disk
       ELSE /\ tokenFile' = Torn /\ writing' = writing \cup {c}
            /\ Goto(c, "write")
    /\ UNCHANGED <<keyDisk, world, jwt, blob>>

(* Over another writer's longer text the result is neither's.                *)
SaveWrite(c) ==
    /\ pc[c] = "write"
    /\ tokenFile' \in
         IF c \notin writing THEN {tokenFile}
         ELSE {blob[c]} \cup (IF tokenFile = Torn THEN {} ELSE {Torn})
    /\ writing' = writing \ {c}
    /\ End(c, "signedIn")
    /\ UNCHANGED <<keyDisk, world, jwt, blob>>

(* Mutant: the unusable token stays.                                         *)
Discard_Keeps(c) ==
    /\ pc[c] = "discard"
    /\ End(c, "signedOut")
    /\ UNCHANGED <<disk, keyDisk, world, jwt, blob>>

Discard(c) ==
    /\ pc[c] = "discard"
    /\ Unlinked
    /\ End(c, "signedOut")
    /\ UNCHANGED <<keyDisk, world, jwt, blob>>

(* Mutant: a service that cannot be reached counts as a refusal.             *)
CheckUser_ClearsOnError(c) ==
    /\ pc[c] = "server" /\ op[c] = "getUserInfo"
    /\ \/ Goto(c, "clear")
       \/ jwt[c] \in live /\ End(c, "user")
    /\ UNCHANGED <<disk, keyDisk, world, jwt, blob>>

(* userFromJwt: no answer throws; otherwise the service accepts the JWT, or  *)
(* getUserInfo goes on to clear the store.                                   *)
CheckUser(c) ==
    /\ pc[c] = "server" /\ op[c] = "getUserInfo"
    /\ \/ End(c, "failed")
       \/ jwt[c] \in live /\ End(c, "user")
       \/ jwt[c] \notin live /\ Goto(c, "clear")
    /\ UNCHANGED <<disk, keyDisk, world, jwt, blob>>

(* logout tells the service, best effort.                                    *)
PostLogout(c) ==
    /\ pc[c] = "server" /\ op[c] = "logout"
    /\ live' \in {live, live \ {jwt[c]}}
    /\ Goto(c, "clear")
    /\ UNCHANGED <<disk, keyDisk, denied, issued, jwt, blob>>

Clear(c) ==
    /\ pc[c] = "clear"
    /\ Unlinked
    /\ End(c, "signedOut")
    /\ UNCHANGED <<keyDisk, world, jwt, blob>>

Crash(c) ==
    /\ pc[c] # "idle"
    /\ writing' = writing \ {c}
    /\ End(c, "killed")
    /\ UNCHANGED <<tokenFile, keyDisk, world, jwt, blob>>

------------------------------------------------------------------------------
(* The environment: JWTs expire, permissions break and are repaired.         *)
Expire ==
    /\ \E t \in live : live' = live \ {t}
    /\ UNCHANGED <<disk, keyDisk, denied, issued, pc, op, jwt, blob, outcome>>

Permissions ==
    /\ denied' \in {"nothing"} \cup Denials /\ denied' # denied
    /\ UNCHANGED <<disk, keyDisk, live, issued, pc, op, jwt, blob, outcome>>

Step(c) ==
    \/ Login(c) \/ Command(c)
    \/ LoadExists(c) \/ LoadRead(c) \/ KeyRead(c) \/ KeyTruncate(c) \/ KeyFill(c)
    \/ SaveOpen(c) \/ SaveWrite(c) \/ Discard(c)
    \/ CheckUser(c) \/ PostLogout(c) \/ Clear(c)
    \/ Crash(c)

Next == (\E c \in Clients : Step(c)) \/ Expire \/ Permissions

Spec == Init /\ [][Next]_vars

(* The key was made by an earlier login.                                     *)
KeyedSpec == Spec /\ keyFile \in Keys

------------------------------------------------------------------------------
Steps == {"idle", "exists", "read", "key", "truncateKey", "fillKey", "open",
          "write", "discard", "server", "clear"}

(* The state has its types; a client that needs a JWT or a blob has one.     *)
TypeOK ==
    /\ tokenFile \in {Absent, Torn} \cup Blobs
    /\ keyFile \in {Absent, Torn} \cup Keys /\ keysMade \in 0..MaxKeys
    /\ writing \subseteq Clients
    /\ denied \in {"nothing", "token", "keys", "keysParent"}
    /\ live \subseteq issued /\ issued \subseteq Tokens
    /\ pc \in [Clients -> Steps]
    /\ op \in [Clients -> {"none", "login", "getUserInfo", "logout"}]
    /\ jwt \in [Clients -> Tokens \cup {Absent}]
    /\ blob \in [Clients -> Blobs \cup {Absent}]
    /\ \A c \in Clients :
         /\ pc[c] \in {"exists", "read"} => op[c] # "login"
         /\ pc[c] \in {"key", "truncateKey", "fillKey"} =>
              IF op[c] = "login" THEN jwt[c] \in Tokens ELSE blob[c] \in Blobs
         /\ pc[c] \in {"open", "write"} => op[c] = "login" /\ blob[c] \in Blobs
         /\ pc[c] \in {"server", "clear"} => jwt[c] \in Tokens
    /\ outcome \in [Clients -> {"none", "user", "signedIn", "signedOut", "kept", "failed", "killed"}]

(* A stored session can be decrypted with the key on disk: no crash, and no  *)
(* order of commands, leaves a whole token that the next load discards.      *)
TokenReadable == tokenFile \in Blobs => tokenFile.key = keyFile

(* A session that is removed was no longer accepted by the service, or its   *)
(* user is logging out of it: getUserInfo and load never sign anyone out     *)
(* whose session is good.                                                    *)
SessionLost == tokenFile \in Blobs /\ tokenFile' = Absent
Unwanted(t) ==
    t \notin live \/ \E c \in Clients : op[c] = "logout" /\ jwt[c] \in {t, Absent}
LiveSessionsAreKept == [][SessionLost => Unwanted(tokenFile.jwt)]_vars

(* What a command told its user is what the next one will find: after a      *)
(* login or a confirmed user the session is stored, after "signed out" it    *)
(* is gone, torn files included.                                             *)
OutcomeMatchesStore ==
    \A c \in Clients :
        /\ outcome[c] \in {"user", "signedIn"} =>
             tokenFile \in Blobs /\ tokenFile.jwt = jwt[c]
        /\ outcome[c] = "signedOut" => tokenFile = Absent
==============================================================================
