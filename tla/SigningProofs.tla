---------------------------- MODULE SigningProofs ----------------------------
(***************************************************************************)
(* Proofs about the commands that sign in and sign, alone and side by side *)
(* with the others (MCCommands).  HarmonyOsSession, for any number of      *)
(* clients and tokens: type correctness, that a stored session stays       *)
(* readable, once there is a key or when commands do not overlap, and what *)
(* a command alone tells its user.  LoginCallback: what a sign-in saves    *)
(* and leaves behind.  AutoSign and OhosSigning: the material of a signing *)
(* that succeeded, a project that is made, a HAP that is verified.         *)
(***************************************************************************)
EXTENDS MCCommands, TLAPS

USE DEF disk, keyDisk, world, vars

(* A fresh process table and an empty session directory are typed.           *)
LEMMA InitTypeOK == Init => TypeOK
<1> SUFFICES ASSUME Init PROVE TypeOK
  OBVIOUS
<1>1. keyFile \in {Absent, Torn} \cup Keys /\ keysMade \in 0..MaxKeys
  <2>1. MaxKeys \in Nat /\ FirstKeys \subseteq {0}
    BY SessionAssumption
  <2>2. 0 \in 0..MaxKeys
    BY <2>1
  <2> QED
    BY <2>1, <2>2 DEF Init, Keys
<1>2. /\ pc \in [Clients -> Steps]
      /\ jwt \in [Clients -> Tokens \cup {Absent}]
      /\ blob \in [Clients -> Blobs \cup {Absent}]
  BY DEF Init, Steps
<1>3. /\ op \in [Clients -> {"none", "login", "getUserInfo", "logout"}]
      /\ outcome \in [Clients -> {"none", "user", "signedIn", "signedOut", "kept", "failed", "killed"}]
  BY DEF Init
<1>4. \A c \in Clients : pc[c] = "idle"
  BY DEF Init
<1> QED
  BY <1>1, <1>2, <1>3, <1>4 DEF Init, TypeOK

(* One step of a client keeps the types.                                     *)
LEMMA StepTypeOK ==
  ASSUME TypeOK, NEW c \in Clients, Step(c)
  PROVE  TypeOK'
<1> USE SessionAssumption DEF TypeOK, Steps, Goto, End, Begin, Unlinked
<1>1. CASE Login(c)
  BY <1>1 DEF Login
<1>2. CASE Command(c)
  <2>1. PICK o \in {"getUserInfo", "logout"} : Begin(c, o, "exists")
    BY <1>2 DEF Command
  <2>2. pc'[c] = "exists" /\ \A d \in Clients \ {c} : pc'[d] = pc[d] /\ op'[d] = op[d]
    BY <2>1
  <2>3. jwt' = [jwt EXCEPT ![c] = Absent]
    BY <1>2 DEF Command
  <2>4. /\ pc' \in [Clients -> Steps]
        /\ op' \in [Clients -> {"none", "login", "getUserInfo", "logout"}]
        /\ jwt' \in [Clients -> Tokens \cup {Absent}]
        /\ outcome' \in [Clients -> {"none", "user", "signedIn", "signedOut", "kept", "failed", "killed"}]
    BY <2>1, <2>3
  <2> QED
    BY <1>2, <2>2, <2>3, <2>4 DEF Command
<1>3. CASE LoadExists(c)
  BY <1>3 DEF LoadExists
<1>4. CASE LoadRead(c)
  BY <1>4 DEF LoadRead
<1>5. CASE KeyRead(c)
  BY <1>5 DEF KeyRead, WithKey, Blobs
<1>6. CASE KeyTruncate(c)
  BY <1>6 DEF KeyTruncate
<1>7. CASE KeyFill(c)
  BY <1>7 DEF KeyFill, WithKey, Blobs, Keys
<1>8. CASE SaveOpen(c)
  BY <1>8 DEF SaveOpen
<1>9. CASE SaveWrite(c)
  BY <1>9 DEF SaveWrite
<1>10. CASE Discard(c)
  BY <1>10 DEF Discard
<1>11. CASE CheckUser(c)
  BY <1>11 DEF CheckUser
<1>12. CASE PostLogout(c)
  BY <1>12 DEF PostLogout
<1>13. CASE Clear(c)
  BY <1>13 DEF Clear
<1>14. CASE Crash(c)
  BY <1>14 DEF Crash
<1> QED
  BY <1>1, <1>2, <1>3, <1>4, <1>5, <1>6, <1>7, <1>8, <1>9, <1>10, <1>11,
     <1>12, <1>13, <1>14 DEF Step

(* Every step, of a client or of its surroundings, keeps the types.          *)
LEMMA NextTypeOK == TypeOK /\ [Next]_vars => TypeOK'
<1> SUFFICES ASSUME TypeOK, [Next]_vars PROVE TypeOK'
  OBVIOUS
<1>1. CASE \E c \in Clients : Step(c)
  BY <1>1, StepTypeOK
<1>2. CASE Expire
  BY <1>2 DEF Expire, TypeOK
<1>3. CASE Permissions
  BY <1>3, SessionAssumption DEF Permissions, TypeOK
<1>4. CASE UNCHANGED vars
  BY <1>4 DEF TypeOK
<1> QED
  BY <1>1, <1>2, <1>3, <1>4 DEF Next

(* The state is typed, and a client about to encrypt, decrypt or ask the     *)
(* service has what it needs, whatever the others do to the files.           *)
THEOREM TypeCorrect == Spec => []TypeOK
  BY InitTypeOK, NextTypeOK, PTL DEF Spec

------------------------------------------------------------------------------
(* Once there is a key.                                                      *)

(* No client makes a key, and what is stored or about to be stored is        *)
(* encrypted with the one on disk.                                           *)
KeyedInv ==
    /\ keyFile \in Keys
    /\ tokenFile \in Blobs => tokenFile.key = keyFile
    /\ \A c \in Clients :
         /\ pc[c] \notin {"truncateKey", "fillKey"}
         /\ pc[c] \in {"open", "write"} => blob[c].key = keyFile

(* A client that finds a key keeps it, and encrypts with it.                 *)
LEMMA KeyedStep ==
  ASSUME TypeOK, KeyedInv, NEW c \in Clients, Step(c)
  PROVE  KeyedInv'
<1> USE SessionAssumption DEF TypeOK, KeyedInv, Goto, End, Begin, Unlinked
<1>1. CASE Login(c)
  BY <1>1 DEF Login
<1>2. CASE Command(c)
  BY <1>2 DEF Command
<1>3. CASE LoadExists(c)
  BY <1>3 DEF LoadExists
<1>4. CASE LoadRead(c)
  BY <1>4 DEF LoadRead
<1>5. CASE KeyRead(c)
  BY <1>5 DEF KeyRead, WithKey, Blobs
<1>6. CASE KeyTruncate(c)
  BY <1>6 DEF KeyTruncate
<1>7. CASE KeyFill(c)
  BY <1>7 DEF KeyFill
<1>8. CASE SaveOpen(c)
  BY <1>8 DEF SaveOpen
<1>9. CASE SaveWrite(c)
  BY <1>9 DEF SaveWrite
<1>10. CASE Discard(c) \/ Clear(c)
  BY <1>10 DEF Discard, Clear
<1>11. CASE CheckUser(c) \/ PostLogout(c)
  BY <1>11 DEF CheckUser, PostLogout
<1>12. CASE Crash(c)
  BY <1>12 DEF Crash
<1> QED
  BY <1>1, <1>2, <1>3, <1>4, <1>5, <1>6, <1>7, <1>8, <1>9, <1>10, <1>11,
     <1>12 DEF Step

(* So does every step: expiry and permissions touch neither file.            *)
LEMMA KeyedNext == TypeOK /\ KeyedInv /\ [Next]_vars => KeyedInv'
<1> SUFFICES ASSUME TypeOK, KeyedInv, [Next]_vars PROVE KeyedInv'
  OBVIOUS
<1>1. CASE \E c \in Clients : Step(c)
  BY <1>1, KeyedStep
<1>2. CASE Expire \/ Permissions \/ UNCHANGED vars
  BY <1>2 DEF Expire, Permissions, KeyedInv
<1> QED
  BY <1>1, <1>2 DEF Next

(* Once an earlier login has made a key, no overlap of commands, no crash    *)
(* and no permission problem leaves a whole token that cannot be decrypted.  *)
THEOREM KeyedTokenReadable == KeyedSpec => []TokenReadable
<1>1. Init /\ keyFile \in Keys => KeyedInv
  BY SessionAssumption DEF Init, KeyedInv
<1>2. KeyedInv => TokenReadable
  BY DEF KeyedInv, TokenReadable
<1> QED
  BY <1>1, <1>2, KeyedNext, TypeCorrect, PTL DEF KeyedSpec, Spec

------------------------------------------------------------------------------
(* One command at a time.                                                    *)

(* A client that makes a key found none, so no whole token is stored; what   *)
(* is stored or about to be is encrypted with the key on disk.               *)
SingleInv ==
    /\ tokenFile \in Blobs => tokenFile.key = keyFile
    /\ \A c \in Clients :
         /\ pc[c] \in {"truncateKey", "fillKey"} => keyFile \notin Keys
         /\ pc[c] \in {"open", "write"} => blob[c].key = keyFile

(* A client alone makes a key only where there is none to be lost.           *)
LEMMA SingleStep ==
  ASSUME TypeOK, SingleInv, NEW c \in Clients, Clients = {c}, Step(c)
  PROVE  SingleInv'
<1> USE SessionAssumption DEF TypeOK, SingleInv, Goto, End, Begin, Unlinked
<1>0. tokenFile \in Blobs => keyFile \in Keys
  BY DEF Blobs
<1>1. CASE Login(c)
  BY <1>1 DEF Login
<1>2. CASE Command(c)
  BY <1>2 DEF Command
<1>3. CASE LoadExists(c)
  BY <1>3 DEF LoadExists
<1>4. CASE LoadRead(c)
  BY <1>4 DEF LoadRead
<1>5. CASE KeyRead(c)
  BY <1>5 DEF KeyRead, WithKey, Blobs
<1>6. CASE KeyTruncate(c)
  BY <1>0, <1>6 DEF KeyTruncate
<1>7. CASE KeyFill(c)
  BY <1>0, <1>7 DEF KeyFill, WithKey
<1>8. CASE SaveOpen(c)
  BY <1>8 DEF SaveOpen
<1>9. CASE SaveWrite(c)
  BY <1>9 DEF SaveWrite
<1>10. CASE Discard(c) \/ Clear(c)
  BY <1>10 DEF Discard, Clear
<1>11. CASE CheckUser(c) \/ PostLogout(c)
  BY <1>11 DEF CheckUser, PostLogout
<1>12. CASE Crash(c)
  BY <1>12 DEF Crash
<1> QED
  BY <1>1, <1>2, <1>3, <1>4, <1>5, <1>6, <1>7, <1>8, <1>9, <1>10, <1>11,
     <1>12 DEF Step

(* Commands that do not overlap, each of which may be killed at any step,    *)
(* never leave a whole token that cannot be decrypted, first login included. *)
THEOREM SingleTokenReadable ==
  ASSUME NEW c, Clients = {c}
  PROVE  Spec => []TokenReadable
<1>1. Init => SingleInv
  BY SessionAssumption DEF Init, SingleInv
<1>2. TypeOK /\ SingleInv /\ [Next]_vars => SingleInv'
  <2> SUFFICES ASSUME TypeOK, SingleInv, [Next]_vars PROVE SingleInv'
    OBVIOUS
  <2>1. CASE \E d \in Clients : Step(d)
    BY <2>1, SingleStep
  <2>2. CASE Expire \/ Permissions \/ UNCHANGED vars
    BY <2>2 DEF Expire, Permissions, SingleInv
  <2> QED
    BY <2>1, <2>2 DEF Next
<1>3. SingleInv => TokenReadable
  BY DEF SingleInv, TokenReadable
<1> QED
  BY <1>1, <1>2, <1>3, TypeCorrect, PTL DEF Spec

------------------------------------------------------------------------------
(* What one command at a time tells its user.                                *)

(* Between load and the end of its command a client knows what is stored; a  *)
(* save writes what it was given into the file it has emptied; a session is  *)
(* cleared that the service refused, or to log out.                          *)
ToldInv(c) ==
    /\ pc[c] # "idle" => outcome[c] = "none"
    /\ pc[c] \in {"key", "truncateKey", "fillKey"} /\ op[c] # "login" => tokenFile = blob[c]
    /\ pc[c] \in {"server", "clear"} => tokenFile \in Blobs /\ tokenFile.jwt = jwt[c]
    /\ pc[c] \in {"open", "write"} => blob[c].jwt = jwt[c]
    /\ pc[c] = "write" => tokenFile = Torn /\ c \in writing
    /\ pc[c] = "clear" => op[c] = "logout" \/ jwt[c] \notin live
    /\ OutcomeMatchesStore

(* Nobody but the command itself changes its files, and the service accepts  *)
(* no JWT again that it has refused.                                         *)
LEMMA ToldStep ==
  ASSUME TypeOK, SingleInv, NEW c \in Clients, Clients = {c}, ToldInv(c), Step(c)
  PROVE  ToldInv(c)'
<1> USE SessionAssumption DEF TypeOK, SingleInv, ToldInv, OutcomeMatchesStore, Goto, End, Begin, Unlinked
<1>0. tokenFile \in Blobs => keyFile \in Keys
  BY DEF Blobs
<1>1. CASE Login(c)
  BY <1>1 DEF Login
<1>2. CASE Command(c)
  BY <1>2 DEF Command
<1>3. CASE LoadExists(c)
  BY <1>3 DEF LoadExists
<1>4. CASE LoadRead(c)
  BY <1>4 DEF LoadRead
<1>5. CASE KeyRead(c)
  BY <1>0, <1>5 DEF KeyRead, WithKey, Blobs
<1>6. CASE KeyTruncate(c)
  BY <1>0, <1>6 DEF KeyTruncate
<1>7. CASE KeyFill(c)
  BY <1>0, <1>7 DEF KeyFill, WithKey, Blobs
<1>8. CASE SaveOpen(c)
  BY <1>8 DEF SaveOpen
<1>9. CASE SaveWrite(c)
  BY <1>9 DEF SaveWrite
<1>10. CASE Discard(c) \/ Clear(c)
  BY <1>10 DEF Discard, Clear
<1>11. CASE CheckUser(c)
  BY <1>11 DEF CheckUser
<1>12. CASE PostLogout(c)
  BY <1>12 DEF PostLogout
<1>13. CASE Crash(c)
  BY <1>13 DEF Crash
<1> QED
  BY <1>1, <1>2, <1>3, <1>4, <1>5, <1>6, <1>7, <1>8, <1>9, <1>10, <1>11,
     <1>12, <1>13 DEF Step

(* One command at a time, killed or kept from its files as it may be, tells  *)
(* its user what the next one will find: a session after a login or a        *)
(* confirmed user, none after "signed out".                                  *)
THEOREM SingleOutcomeIsTrue ==
  ASSUME NEW c, Clients = {c}
  PROVE  Spec => []OutcomeMatchesStore
<1>1. Init => SingleInv /\ ToldInv(c)
  BY SessionAssumption DEF Init, SingleInv, ToldInv, OutcomeMatchesStore
<1>2. TypeOK /\ SingleInv /\ ToldInv(c) /\ [Next]_vars => SingleInv' /\ ToldInv(c)'
  <2> SUFFICES ASSUME TypeOK, SingleInv, ToldInv(c), [Next]_vars PROVE SingleInv' /\ ToldInv(c)'
    OBVIOUS
  <2>1. CASE \E d \in Clients : Step(d)
    BY <2>1, SingleStep, ToldStep
  <2>2. CASE Expire
    BY <2>2 DEF Expire, SingleInv, ToldInv, OutcomeMatchesStore
  <2>3. CASE Permissions \/ UNCHANGED vars
    BY <2>3 DEF Permissions, SingleInv, ToldInv, OutcomeMatchesStore
  <2> QED
    BY <2>1, <2>2, <2>3 DEF Next
<1>3. ToldInv(c) => OutcomeMatchesStore
  BY DEF ToldInv
<1> QED
  BY <1>1, <1>2, <1>3, TypeCorrect, PTL DEF Spec

(* Where the key's directory can be reached, an unusable token is no session.*)
DiscardInv(c) == denied # "keysParent" /\ (pc[c] = "discard" => tokenFile \notin Blobs)

LEMMA DiscardStep ==
  ASSUME TypeOK, SingleInv, NEW c \in Clients, Clients = {c}, ToldInv(c), DiscardInv(c), Step(c)
  PROVE  DiscardInv(c)'
<1> USE SessionAssumption DEF TypeOK, SingleInv, ToldInv, DiscardInv, Goto, End, Begin, Unlinked
<1>0. tokenFile \in Blobs => keyFile \in Keys
  BY DEF Blobs
<1>1. CASE Login(c) \/ Command(c)
  BY <1>1 DEF Login, Command
<1>2. CASE LoadExists(c) \/ LoadRead(c)
  BY <1>2 DEF LoadExists, LoadRead
<1>3. CASE KeyRead(c)
  BY <1>0, <1>3 DEF KeyRead, WithKey
<1>4. CASE KeyTruncate(c) \/ KeyFill(c)
  BY <1>0, <1>4 DEF KeyTruncate, KeyFill, WithKey
<1>5. CASE SaveOpen(c) \/ SaveWrite(c)
  BY <1>5 DEF SaveOpen, SaveWrite
<1>6. CASE Discard(c) \/ Clear(c)
  BY <1>6 DEF Discard, Clear
<1>7. CASE CheckUser(c) \/ PostLogout(c) \/ Crash(c)
  BY <1>7 DEF CheckUser, PostLogout, Crash
<1> QED
  BY <1>1, <1>2, <1>3, <1>4, <1>5, <1>6, <1>7 DEF Step

(* Only a command's end removes a session, and then it is no longer good or  *)
(* the command is a logout.                                                  *)
LEMMA OnlyUnwantedLost ==
  ASSUME TypeOK, SingleInv, NEW c \in Clients, Clients = {c}, ToldInv(c), DiscardInv(c), [Next]_vars, SessionLost
  PROVE  Unwanted(tokenFile.jwt)
<1> USE SessionAssumption DEF TypeOK, SessionLost
<1>1. CASE Discard(c)
  BY <1>1 DEF Discard, DiscardInv
<1>2. CASE Clear(c)
  BY <1>2 DEF Clear, ToldInv, Unwanted
<1>3. CASE Step(c) /\ ~Discard(c) /\ ~Clear(c)
  BY <1>3 DEF Step, Login, Command, LoadExists, LoadRead, KeyRead, KeyTruncate, KeyFill, SaveOpen, SaveWrite,
              CheckUser, PostLogout, Crash
<1>4. CASE Expire \/ Permissions \/ UNCHANGED vars
  BY <1>4 DEF Expire, Permissions
<1> QED
  BY <1>1, <1>2, <1>3, <1>4 DEF Next

(* One command at a time signs nobody out whose session is good, as long as  *)
(* the directory above the keys can be searched.                             *)
THEOREM SingleSessionIsKept ==
  ASSUME NEW c, Clients = {c}, "keysParent" \notin Denials
  PROVE  Spec => LiveSessionsAreKept
<1> DEFINE I == TypeOK /\ SingleInv /\ ToldInv(c) /\ DiscardInv(c)
<1>1. Init => SingleInv /\ ToldInv(c) /\ DiscardInv(c)
  BY SessionAssumption DEF Init, SingleInv, ToldInv, OutcomeMatchesStore, DiscardInv
<1>2. I /\ [Next]_vars => I'
  <2> SUFFICES ASSUME I, [Next]_vars PROVE I'
    OBVIOUS
  <2>1. TypeOK'
    BY NextTypeOK
  <2>2. CASE \E d \in Clients : Step(d)
    BY <2>1, <2>2, SingleStep, ToldStep, DiscardStep
  <2>3. CASE Expire
    BY <2>1, <2>3 DEF Expire, SingleInv, ToldInv, OutcomeMatchesStore, DiscardInv
  <2>4. CASE Permissions \/ UNCHANGED vars
    BY <2>1, <2>4 DEF Permissions, SingleInv, ToldInv, OutcomeMatchesStore, DiscardInv
  <2> QED
    BY <2>2, <2>3, <2>4 DEF Next
<1>3. I /\ [Next]_vars => (SessionLost => Unwanted(tokenFile.jwt))
  BY OnlyUnwantedLost
<1>4. Init => TypeOK
  BY InitTypeOK
<1> QED
  BY <1>1, <1>2, <1>3, <1>4, PTL DEF Spec, LiveSessionsAreKept

------------------------------------------------------------------------------
(* The sign-in in the browser (LoginCallback).                               *)


(* What a callback can change.                                               *)
LoginInv ==
    /\ login \in {"idle", "waiting"} => ~SignIn!Accepted(promise)
    /\ login \in {"exchange", "validate", "save"} => SignIn!evaluate(promise) = "signedIn"
    /\ login \in {"idle", "waiting", "exchange", "validate", "save"} => result_ = "none"
    /\ result_ # "user" => saved = SignIn!NoParams
    /\ result_ = "user" => saved = promise /\ SignIn!evaluate(saved) = "signedIn"

(* Where login is, what it holds, and who may still speak to it.             *)
SignInInv ==
    /\ login \in {"idle", "waiting", "exchange", "validate", "save", "stopping", "done"}
    /\ request \in [Requests -> [answer: SignIn!Answers, params: SignIn!Params]]
    /\ \A r \in Requests : request[r].answer = "reading" => server = "listening"
    /\ reader = "reading" => login # "idle"
    /\ login \in {"idle", "done"} => server = "closed"
    /\ LoginInv

(* A callback settles a login that waits, and no other.                      *)
LEMMA SettleKeeps ==
  ASSUME SignInInv, login # "idle", NEW p, SignIn!Accepted(p), SignIn!settle(p)
  PROVE  /\ login' \in {"idle", "waiting", "exchange", "validate", "save", "stopping", "done"}
         /\ login' # "idle" /\ (login' = "done" <=> login = "done")
         /\ LoginInv'
<1> USE DEF SignInInv, LoginInv, SignIn!settle
<1>1. CASE login = "waiting"
  BY <1>1
<1>2. CASE login \notin {"idle", "waiting"}
  BY <1>2 DEF SignIn!Accepted
<1> QED
  BY <1>1, <1>2

(* An answer to a request, with what its callback settles.                   *)
LEMMA FinishKeeps ==
  ASSUME SignInInv, login # "idle", NEW r \in Requests, NEW p \in SignIn!Params, SignIn!finish(r, p),
         server' = server, reader' = reader
  PROVE  SignInInv'
<1>1. SignIn!evaluate(p) \in {"refused", "quit", "signedIn"}
  BY DEF SignIn!evaluate
<1>2. PICK a \in SignIn!Answers \ {"reading"} : request' = [request EXCEPT ![r] = [params |-> SignIn!NoParams, answer |-> a]]
  BY <1>1 DEF SignIn!finish, SignIn!Answers
<1>3. SignIn!NoParams \in SignIn!Params
  BY DEF SignIn!NoParams, SignIn!Params
<1>4. /\ request' \in [Requests -> [answer: SignIn!Answers, params: SignIn!Params]]
      /\ \A q \in Requests : request'[q].answer = "reading" => request[q].answer = "reading"
  BY <1>2, <1>3 DEF SignInInv
<1>5. CASE SignIn!Accepted(p)
  BY <1>4, <1>5, SettleKeeps DEF SignIn!finish, SignInInv
<1>6. CASE ~SignIn!Accepted(p)
  BY <1>4, <1>6 DEF SignIn!finish, SignInInv, LoginInv, SignIn!loop
<1> QED
  BY <1>5, <1>6

(* Whatever the browser, the user and the timer do.                          *)
LEMMA SignInNext == SignInInv /\ [SignIn!Next]_SignIn!vars => SignInInv'
<1> SUFFICES ASSUME SignInInv, [SignIn!Next]_SignIn!vars PROVE SignInInv'
  OBVIOUS
<1> USE DEF SignInInv, SignIn!loop, SignIn!input
<1>1. CASE SignIn!Start
  BY <1>1 DEF SignIn!Start, LoginInv
<1>2. ASSUME NEW r \in Requests, NEW p \in SignIn!Params, SignIn!Get(r, p) PROVE SignInInv'
  BY <1>2, FinishKeeps DEF SignIn!Get, SignIn!Unanswered
<1>3. ASSUME NEW r \in Requests, NEW p \in SignIn!Params, SignIn!Post(r, p) PROVE SignInInv'
  BY <1>3 DEF SignIn!Post, SignIn!Unanswered, SignIn!Answers, LoginInv
<1>4. ASSUME NEW r \in Requests, SignIn!BodyEnd(r) PROVE SignInInv'
  BY <1>4, FinishKeeps DEF SignIn!BodyEnd
<1>5. ASSUME NEW r \in Requests, SignIn!BodyTooLarge(r) \/ SignIn!Stray(r) PROVE SignInInv'
  <2>1. /\ request' \in [Requests -> [answer: SignIn!Answers, params: SignIn!Params]]
        /\ \A q \in Requests : request'[q].answer = "reading" => request[q].answer = "reading"
    <3>1. CASE SignIn!BodyTooLarge(r)
      BY <3>1 DEF SignIn!BodyTooLarge, SignIn!NoParams, SignIn!Params, SignIn!Answers
    <3>2. CASE SignIn!Stray(r)
      <4> DEFINE answered == [request[r] EXCEPT !.answer = "400"]
      <4>1. answered \in [answer: SignIn!Answers, params: SignIn!Params] /\ answered.answer # "reading"
        <5>1. request[r] \in [answer: SignIn!Answers, params: SignIn!Params]
          OBVIOUS
        <5> QED
          BY <5>1 DEF SignIn!Answers
      <4>2. request' = [request EXCEPT ![r] = answered]
        BY <3>2 DEF SignIn!Stray
      <4> HIDE DEF answered
      <4> QED
        BY <4>1, <4>2
    <3> QED
      BY <1>5, <3>1, <3>2
  <2> QED
    BY <1>5, <2>1 DEF SignIn!BodyTooLarge, SignIn!Stray, LoginInv
<1>6. ASSUME NEW p \in SignIn!Params, SignIn!Paste(p) PROVE SignInInv'
  <2>1. reader = "reading" /\ server' = server /\ request' = request
    BY <1>6 DEF SignIn!Paste
  <2>2. CASE SignIn!settle(p) /\ SignIn!Accepted(p)
    BY <1>6, <2>1, <2>2, SettleKeeps
  <2>3. CASE UNCHANGED <<promise, login, result_, settled, saved>>
    BY <1>6, <2>1, <2>3 DEF SignIn!Paste, LoginInv
  <2> QED
    BY <1>6, <2>2, <2>3 DEF SignIn!Paste
<1>7. CASE SignIn!BlankLine \/ SignIn!StdinEnds
  BY <1>7 DEF SignIn!BlankLine, SignIn!StdinEnds, LoginInv
<1>8. CASE SignIn!Timeout
  BY <1>8 DEF SignIn!Timeout, LoginInv
<1>9. CASE SignIn!Exchange \/ SignIn!Validate
  BY <1>9 DEF SignIn!Exchange, SignIn!Validate, SignIn!Proceed, LoginInv
<1>10. CASE SignIn!Save
  BY <1>10 DEF SignIn!Save, LoginInv
<1>11. CASE SignIn!Stop
  BY <1>11 DEF SignIn!Stop, LoginInv, SignIn!NoParams, SignIn!Params, SignIn!Answers
<1>12. CASE UNCHANGED SignIn!vars
  BY <1>12 DEF SignIn!vars, LoginInv
<1> QED
  BY <1>1, <1>2, <1>3, <1>4, <1>5, <1>6, <1>7, <1>8, <1>9, <1>10, <1>11, <1>12
  DEF SignIn!Next, SignIn!Input, SignIn!Progress

(* From the start of a sign-in to its end.                                   *)
LEMMA SignInInvariant == SignIn!Spec => []SignInInv
<1>1. SignIn!Init => SignInInv
  BY DEF SignIn!Init, SignInInv, LoginInv, SignIn!Answers, SignIn!Params, SignIn!NoParams, SignIn!Accepted, SignIn!evaluate
<1> QED
  BY <1>1, SignInNext, PTL DEF SignIn!Spec

(* A sign-in that was cancelled, timed out or failed saves no session,       *)
(* however late its callback arrives; one that succeeded has saved that of   *)
(* the callback that settled it.                                             *)
THEOREM SignInOutcomeIsTrue == SignIn!Spec => []SignIn!OutcomeMatchesStore
<1>1. SignInInv => SignIn!OutcomeMatchesStore
  BY DEF SignInInv, LoginInv, SignIn!OutcomeMatchesStore
<1> QED
  BY <1>1, SignInInvariant, PTL

(* Once login has returned its port is free and no connection is open.       *)
THEOREM SignInLeavesNothing == SignIn!Spec => []SignIn!NothingLeftBehind
<1>1. SignInInv => SignIn!NothingLeftBehind
  BY DEF SignInInv, SignIn!NothingLeftBehind
<1> QED
  BY <1>1, SignInInvariant, PTL

------------------------------------------------------------------------------
(* Automatic signing (AutoSign).                                             *)

(* The state has its types.                                                  *)
Labels == {"idle", "check", "register", "remove", "list", "delete", "keystore", "add", "find", "cer", "issue",
           "verify", "write", "signed", "reused", "failed", "killed"}
SignCommands == [at: Labels, local: SUBSET Phones, ids: SUBSET Phones, key: Nat, cert: Nat]
SignTypeOK ==
    /\ cmd \in [Projects -> SignCommands]
    /\ onDisk \in [Projects -> [Files -> Nat]]
    /\ profile \in [Projects -> [devices: SUBSET Phones, expired: BOOLEAN]]
    /\ config \in [Projects -> Nat]
    /\ agc \in [cert: Nat, devices: SUBSET Phones]
    /\ connected \in SUBSET Phones /\ keys \in Nat /\ runs \in Nat

(* A profile is on disk only with the certificate and the keystore it was    *)
(* issued for, and the config opens that keystore, but while it is verified  *)
(* and written.                                                              *)
MaterialInv(p) ==
    /\ onDisk[p]["p7b"] # 0 /\ cmd[p].at \notin {"verify", "write"} =>
         Agrees(p) /\ config[p] = onDisk[p]["p12"]
    /\ cmd[p].at \in {"list", "delete", "keystore", "add", "find", "cer", "issue"} => onDisk[p]["p7b"] = 0
    /\ cmd[p].at \in {"add", "find", "cer", "issue", "verify", "write"} => onDisk[p]["p12"] = cmd[p].key
    /\ cmd[p].at = "write" => Agrees(p)

(* The devices that were connected when the command began, from their        *)
(* registration to the profile.                                              *)
DevicesInv(p) ==
    /\ cmd[p].at = "remove" => cmd[p].local \subseteq agc.devices
    /\ cmd[p].at \in {"list", "delete", "keystore", "add", "find", "cer", "issue"} => cmd[p].local \subseteq cmd[p].ids
    /\ cmd[p].at \in {"verify", "write"} => cmd[p].local \subseteq profile[p].devices

SignedInv(p) ==
    cmd[p].at \in {"signed", "reused"} =>
        Agrees(p) /\ config[p] = onDisk[p]["p12"] /\ cmd[p].local \subseteq profile[p].devices

SignInv == SignTypeOK /\ \A p \in Projects : MaterialInv(p) /\ DevicesInv(p) /\ SignedInv(p)

(* Nothing is signed at first.                                               *)
LEMMA SignInitInv == SignInit => SignInv
  BY DEF SignInit, SignInv, SignTypeOK, MaterialInv, DevicesInv, SignedInv, Labels, Files, NoMaterial, NoProfile, Resting, Agrees, SignCommands

SignMove(p) ==
    \/ ExpireProfile(p) \/ BeginSigning(p) \/ Check(p) \/ Register(p) \/ RemoveFiles(p) \/ ListStale(p)
    \/ DeleteStale(p) \/ generateKeystoreAndCsr(p) \/ addCertificate(p) \/ FindCertificate(p)
    \/ DownloadCert(p) \/ IssueProfile(p) \/ Verify(p) \/ writeSigningConfig(p) \/ Stop(p)

(* Only its own command changes the material of a project; devices stay      *)
(* registered.                                                               *)
LEMMA OthersUntouched ==
  ASSUME SignTypeOK, NEW p \in Projects, SignMove(p), NEW q \in Projects, q # p
  PROVE  /\ cmd'[q] = cmd[q] /\ onDisk'[q] = onDisk[q] /\ profile'[q] = profile[q] /\ config'[q] = config[q]
         /\ agc.devices \subseteq agc'.devices
<1> USE DEF SignTypeOK, SignCommands, Moves
<1>1. CASE ExpireProfile(p) \/ BeginSigning(p) \/ Check(p)
  BY <1>1 DEF ExpireProfile, BeginSigning, Check
<1>2. CASE Register(p) \/ RemoveFiles(p) \/ ListStale(p) \/ DeleteStale(p)
  BY <1>2 DEF Register, RemoveFiles, ListStale, DeleteStale
<1>3. CASE generateKeystoreAndCsr(p)
  BY <1>3 DEF generateKeystoreAndCsr
<1>4. CASE addCertificate(p) \/ FindCertificate(p) \/ DownloadCert(p) \/ IssueProfile(p)
  BY <1>4 DEF addCertificate, FindCertificate, DownloadCert, IssueProfile
<1>5. CASE Verify(p) \/ writeSigningConfig(p) \/ Stop(p)
  BY <1>5 DEF Verify, writeSigningConfig, Stop
<1> QED
  BY <1>1, <1>2, <1>3, <1>4, <1>5 DEF SignMove

(* The command of one project changes.                                       *)
LEMMA CommandTyped ==
  ASSUME SignTypeOK, NEW p \in Projects, NEW c \in SignCommands
  PROVE  [cmd EXCEPT ![p] = c] \in [Projects -> SignCommands]
  BY DEF SignTypeOK

(* One field of a command changes.                                           *)
LEMMA CommandSteps ==
  ASSUME NEW c \in SignCommands, NEW to \in Labels, NEW n \in Nat, NEW d \in SUBSET Phones
  PROVE  /\ [c EXCEPT !.at = to] \in SignCommands
         /\ [c EXCEPT !.at = to, !.ids = d] \in SignCommands
         /\ [c EXCEPT !.at = to, !.key = n] \in SignCommands
         /\ [c EXCEPT !.at = to, !.cert = n] \in SignCommands
         /\ [Resting EXCEPT !.at = to] \in SignCommands
         /\ [Resting EXCEPT !.at = to, !.local = d] \in SignCommands
  BY DEF SignCommands, Resting

(* Every step of a command is typed.                                         *)
LEMMA SignMoveTyped ==
  ASSUME SignTypeOK, NEW p \in Projects, SignMove(p)
  PROVE  SignTypeOK'
<1>0. /\ cmd[p] \in SignCommands /\ agc.devices \in SUBSET Phones /\ agc.cert \in Nat
      /\ cmd[p].local \in SUBSET Phones /\ cmd[p].ids \in SUBSET Phones /\ cmd[p].cert \in Nat /\ cmd[p].key \in Nat
  BY DEF SignTypeOK, SignCommands
<1>a. ASSUME NEW to \in Labels, cmd' = [cmd EXCEPT ![p].at = to]
      PROVE  cmd' \in [Projects -> SignCommands]
  <2>1. [cmd[p] EXCEPT !.at = to] \in SignCommands
    BY <1>0, CommandSteps
  <2>2. cmd' = [cmd EXCEPT ![p] = [cmd[p] EXCEPT !.at = to]]
    BY <1>a
  <2> QED
    BY <2>1, <2>2, CommandTyped
<1>1. CASE ExpireProfile(p)
  BY <1>1 DEF SignTypeOK, ExpireProfile
<1>2. CASE BeginSigning(p)
  <2> DEFINE c == [Resting EXCEPT !.at = "check", !.local = connected]
  <2>1. cmd' = [cmd EXCEPT ![p] = c]
    BY <1>2 DEF BeginSigning
  <2>2. c \in SignCommands
    BY <1>0, <1>2, CommandSteps DEF Labels, SignTypeOK, BeginSigning
  <2>3. cmd' \in [Projects -> SignCommands]
    BY <2>1, <2>2, CommandTyped
  <2> QED
    BY <1>2, <2>3 DEF SignTypeOK, BeginSigning
<1>3. CASE Check(p)
  <2>1. cmd' \in [Projects -> SignCommands]
    BY <1>a, <1>3 DEF Check, Moves, Labels
  <2> QED
    BY <1>0, <1>3, <2>1 DEF SignTypeOK, Check
<1>4. CASE Register(p)
  <2>1. cmd' \in [Projects -> SignCommands]
    BY <1>a, <1>4 DEF Register, Moves, Labels
  <2> QED
    BY <1>0, <1>4, <2>1 DEF SignTypeOK, Register
<1>5. CASE RemoveFiles(p)
  <2> DEFINE c == [cmd[p] EXCEPT !.at = "list", !.ids = agc.devices]
  <2>1. cmd' = [cmd EXCEPT ![p] = c]
    BY <1>5 DEF RemoveFiles
  <2>2. c \in SignCommands
    BY <1>0, <1>5, CommandSteps DEF Labels, SignTypeOK, RemoveFiles
  <2>3. cmd' \in [Projects -> SignCommands]
    BY <2>1, <2>2, CommandTyped
  <2> QED
    BY <1>5, <2>3 DEF SignTypeOK, RemoveFiles, NoMaterial, NoProfile, Files
<1>6. CASE ListStale(p)
  <2> DEFINE c == [cmd[p] EXCEPT !.at = "delete", !.cert = agc.cert]
  <2>1. cmd' = [cmd EXCEPT ![p] = c]
    BY <1>6 DEF ListStale
  <2>2. c \in SignCommands
    BY <1>0, <1>6, CommandSteps DEF Labels, SignTypeOK, ListStale
  <2>3. cmd' \in [Projects -> SignCommands]
    BY <2>1, <2>2, CommandTyped
  <2> QED
    BY <1>6, <2>3 DEF SignTypeOK, ListStale
<1>7. CASE DeleteStale(p)
  <2>1. cmd' \in [Projects -> SignCommands]
    BY <1>a, <1>7 DEF DeleteStale, Moves, Labels
  <2> QED
    BY <1>0, <1>7, <2>1 DEF SignTypeOK, DeleteStale
<1>8. CASE generateKeystoreAndCsr(p)
  <2> DEFINE c == [cmd[p] EXCEPT !.at = "add", !.key = keys']
  <2>1. cmd' = [cmd EXCEPT ![p] = c]
    BY <1>8 DEF generateKeystoreAndCsr
  <2>0. keys' \in Nat
    BY <1>8 DEF generateKeystoreAndCsr, SignTypeOK
  <2>2. c \in SignCommands
    BY <1>0, <2>0, CommandSteps DEF Labels
  <2>3. cmd' \in [Projects -> SignCommands]
    BY <2>1, <2>2, CommandTyped
  <2> QED
    BY <1>8, <2>0, <2>3 DEF SignTypeOK, generateKeystoreAndCsr, Files
<1>9. CASE addCertificate(p)
  <2>1. cmd' \in [Projects -> SignCommands]
    BY <1>a, <1>9 DEF addCertificate, Moves, Labels
  <2> QED
    BY <1>0, <1>9, <2>1 DEF SignTypeOK, addCertificate
<1>10. CASE FindCertificate(p)
  <2> DEFINE c == [cmd[p] EXCEPT !.at = "cer", !.cert = agc.cert]
  <2>1. cmd' = [cmd EXCEPT ![p] = c]
    BY <1>10 DEF FindCertificate
  <2>2. c \in SignCommands
    BY <1>0, <1>10, CommandSteps DEF Labels, SignTypeOK, FindCertificate
  <2>3. cmd' \in [Projects -> SignCommands]
    BY <2>1, <2>2, CommandTyped
  <2> QED
    BY <1>10, <2>3 DEF SignTypeOK, FindCertificate
<1>11. CASE DownloadCert(p)
  <2>1. cmd' \in [Projects -> SignCommands]
    BY <1>a, <1>11 DEF DownloadCert, Moves, Labels
  <2> QED
    BY <1>0, <1>11, <2>1 DEF SignTypeOK, DownloadCert, Files
<1>12. CASE IssueProfile(p)
  <2>1. cmd' \in [Projects -> SignCommands]
    BY <1>a, <1>12 DEF IssueProfile, Moves, Labels
  <2> QED
    BY <1>0, <1>12, <2>1 DEF SignTypeOK, IssueProfile, Files
<1>13. CASE Verify(p)
  <2>1. cmd' \in [Projects -> SignCommands]
    BY <1>a, <1>13 DEF Verify, Moves, Labels
  <2> QED
    <3>1. onDisk' \in [Projects -> [Files -> Nat]]
      BY <1>13 DEF Verify, SignTypeOK, Files
    <3> QED
      BY <1>13, <2>1, <3>1 DEF SignTypeOK, Verify
<1>14. CASE writeSigningConfig(p)
  <2>1. cmd' \in [Projects -> SignCommands]
    BY <1>a, <1>14 DEF writeSigningConfig, Moves, Labels
  <2> QED
    BY <1>0, <1>14, <2>1 DEF SignTypeOK, writeSigningConfig
<1>15. CASE Stop(p)
  <2>1. PICK how \in {"failed", "killed"} : cmd' = [cmd EXCEPT ![p] = [Resting EXCEPT !.at = how]]
    BY <1>15 DEF Stop
  <2>2. cmd' \in [Projects -> SignCommands]
    BY <1>0, <2>1, CommandSteps, CommandTyped DEF Labels
  <2> QED
    BY <1>15, <2>2 DEF SignTypeOK, Stop
<1> QED
  BY <1>1, <1>2, <1>3, <1>4, <1>5, <1>6, <1>7, <1>8, <1>9, <1>10, <1>11, <1>12, <1>13, <1>14, <1>15 DEF SignMove

(* A command keeps its own project's material in order.                      *)
LEMMA SignMoveInv ==
  ASSUME SignTypeOK, LosesConfig = FALSE, NEW p \in Projects, SignMove(p), MaterialInv(p), DevicesInv(p), SignedInv(p)
  PROVE  MaterialInv(p)' /\ DevicesInv(p)' /\ SignedInv(p)'
<1> USE DEF SignTypeOK, SignCommands, Moves, Agrees, MaterialInv, DevicesInv, SignedInv, Labels
<1>1. CASE ExpireProfile(p)
  BY <1>1 DEF ExpireProfile, Over
<1>2. CASE BeginSigning(p)
  BY <1>2 DEF BeginSigning, Resting, Over
<1>3. CASE Check(p)
  BY <1>3 DEF Check, shouldRegenerate, profileProblem, Files
<1>4. CASE Register(p)
  BY <1>4 DEF Register
<1>5. CASE RemoveFiles(p)
  BY <1>5 DEF RemoveFiles, NoMaterial, NoProfile, Files
<1>6. CASE ListStale(p)
  BY <1>6 DEF ListStale
<1>7. CASE DeleteStale(p)
  BY <1>7 DEF DeleteStale
<1>8. CASE generateKeystoreAndCsr(p)
  BY <1>8 DEF generateKeystoreAndCsr, Files
<1>9. CASE addCertificate(p)
  BY <1>9 DEF addCertificate
<1>10. CASE FindCertificate(p)
  BY <1>10 DEF FindCertificate
<1>11. CASE DownloadCert(p)
  BY <1>11 DEF DownloadCert, Files
<1>12. CASE IssueProfile(p)
  BY <1>12 DEF IssueProfile, Files
<1>13. CASE Verify(p)
  <2>1. CASE Agrees(p)
    <3>1. cmd[p].at = "verify" /\ cmd' = [cmd EXCEPT ![p].at = "write"] /\ onDisk' = onDisk /\ profile' = profile /\ config' = config
      BY <1>13, <2>1 DEF Verify
    <3> QED
      BY <1>13, <2>1, <3>1
  <2>2. CASE ~Agrees(p)
    <3>1. /\ cmd[p].at = "verify" /\ cmd' = [cmd EXCEPT ![p].at = "failed"] /\ onDisk' = [onDisk EXCEPT ![p]["p7b"] = 0]
          /\ profile' = profile /\ config' = config
      BY <1>13, <2>2 DEF Verify
    <3> QED
      BY <1>13, <2>2, <3>1 DEF Files
  <2> QED
    BY <2>1, <2>2
<1>14. CASE writeSigningConfig(p)
  BY <1>14 DEF writeSigningConfig
<1>15. CASE Stop(p)
  BY <1>15 DEF Stop, Resting, Over
<1> QED
  BY <1>1, <1>2, <1>3, <1>4, <1>5, <1>6, <1>7, <1>8, <1>9, <1>10, <1>11, <1>12, <1>13, <1>14, <1>15 DEF SignMove

(* So do the commands of all projects together.                              *)
LEMMA SignNextInv == LosesConfig = FALSE /\ SignInv /\ [SignNext]_signVars => SignInv'
<1> SUFFICES ASSUME LosesConfig = FALSE, SignInv, [SignNext]_signVars PROVE SignInv'
  OBVIOUS
<1>1. CASE \E p \in Projects : SignMove(p)
  <2>1. PICK p \in Projects : SignMove(p)
    BY <1>1
  <2>2. SignTypeOK'
    BY <2>1, SignMoveTyped DEF SignInv
  <2>3. ASSUME NEW q \in Projects PROVE MaterialInv(q)' /\ DevicesInv(q)' /\ SignedInv(q)'
    <3>1. CASE q = p
      BY <2>1, <3>1, SignMoveInv DEF SignInv
    <3>2. CASE q # p
      BY <2>1, <3>2, OthersUntouched DEF SignInv, MaterialInv, DevicesInv, SignedInv, Agrees
    <3> QED
      BY <3>1, <3>2
  <2> QED
    BY <2>2, <2>3 DEF SignInv
<1>2. CASE Plug
  BY <1>2 DEF Plug, SignInv, SignTypeOK, MaterialInv, DevicesInv, SignedInv, Agrees
<1>3. CASE UNCHANGED signVars
  BY <1>3 DEF signVars, SignInv, SignTypeOK, MaterialInv, DevicesInv, SignedInv, Agrees
<1> QED
  BY <1>1, <1>2, <1>3 DEF SignNext, SignMove

(* For any number of projects, phones, commands and key pairs, any of which  *)
(* may fail or be killed before its material is verified: when a signing     *)
(* succeeds, the config's password opens the keystore, whose key is that of  *)
(* the certificate and of the profile, and the profile names every device,   *)
(* although another project may replace the team's certificate meanwhile.    *)
THEOREM SignedMaterialIsSound ==
  ASSUME LosesConfig = FALSE
  PROVE  SignSpec => []SignedMaterialAgrees
<1>1. SignInv => SignedMaterialAgrees
  BY DEF SignInv, SignedInv, SignedMaterialAgrees
<1> QED
  BY <1>1, SignInitInv, SignNextInv, PTL DEF SignSpec

------------------------------------------------------------------------------
(* A project, its signing and its HAPs (OhosSigning).                        *)

(* The state has its types.                                                  *)
ProjectLabels ==
    {"idle", "create", "remove", "copy", "rename", "app", "profile", "module", "package", "created",
     "sdk", "present", "copied", "template", "p7b", "unmaterial", "material", "config", "generated",
     "info", "temp", "tool", "move", "untmp", "cleanup", "signed", "verify", "verifying", "verified", "failed", "killed"}
AllChains == Chains \cup {<<>>, <<"root", "sub", "profile-release">>}
Kinds     == {Nothing, "profile-release", "application-release"}
Bundles   == BundleNames \cup {Nothing, "template"}
Leaves    == {Nothing, "profile-release"} \cup {extractLeafCertificate(chain) : chain \in AllChains}
Profiles  == [bundle: Bundles, cert: Leaves]
ProjectFiles ==
    [exists: BOOLEAN, files: SUBSET Parts, folder: Modules, named: [Parts -> Modules], bundle: Bundles,
     sig: [exists: BOOLEAN, template: {Nothing, "filled"}, p7b: Profiles, chain: AllChains, material: Nat],
     config: [kind: Kinds, material: Nat]]
Tasks ==
    [at: ProjectLabels, bundle: BundleNames \cup {Nothing}, module: Modules, valid: BOOLEAN, overwrite: BOOLEAN, kind: Kinds,
     chain: AllChains, out: {"built", "signed"}, template: Profiles, fails: BOOLEAN,
     before: ProjectFiles, status: {Nothing, "valid", "invalid", "unverified"}]
ProjectTypeOK ==
    /\ proj \in ProjectFiles /\ task \in Tasks /\ commands_ \in Nat
    /\ temps \subseteq {"dir", "tmp"}
    /\ DOMAIN haps = {"built", "signed"} /\ "bundle" \in DOMAIN haps["built"] /\ haps["built"].bundle \in Bundles

(* A task that creates has the project it found until it removes it, and     *)
(* then what it has written.                                                 *)
Creating == {"create", "remove", "copy", "rename", "app", "profile", "module", "package", "created"}
CreateInv ==
    /\ task.at = "create" => proj = task.before
    /\ task.at = "remove" => task.valid /\ task.overwrite
    /\ task.at \in {"copy", "rename", "app", "profile", "module", "package"} => task.valid /\ (task.before.exists => task.overwrite)
    /\ task.at \in {"rename", "app", "profile", "module", "package"} => proj.files = Parts
    /\ task.at \in {"app", "profile", "module", "package"} => proj.folder = task.module
    /\ task.at \in {"profile", "module", "package"} => proj.bundle = task.bundle
    /\ task.at \in {"module", "package"} => proj.named["profile"] = task.module
    /\ task.at = "package" => proj.named["module"] = task.module
    /\ task.at \in Creating => task.bundle # Nothing
    /\ task.at \notin Creating \cup {"failed", "killed"} => task.bundle = Nothing
    /\ ScaffoldIsWhole

(* What a signing has found out and written so far.                          *)
Due == [bundle |-> proj.bundle, cert |-> extractLeafCertificate(task.chain)]
GenerateInv ==
    /\ "app" \in proj.files => proj.bundle # Nothing
    /\ task.at = "template" => proj.sig.chain = task.chain
    /\ task.at = "p7b" => task.template = Due /\ proj.bundle # Nothing
    /\ task.at \in {"unmaterial", "material", "config", "generated"} => proj.sig.p7b = Due /\ proj.bundle # Nothing
    /\ GeneratedAgrees

(* Who holds something in the temporary directory.                           *)
TempsInv ==
    /\ temps # {} => task.at \in {"temp", "tool", "move", "untmp", "cleanup", "verifying"}
    /\ "tmp" \in temps => task.at \in {"move", "untmp"}

ProjectInv == ProjectTypeOK /\ CreateInv /\ GenerateInv /\ VerdictIsTrue /\ TempsInv

USE DEF Nothing, Parts, Modules

LEMMA ProjectsTyped ==
  /\ Template \in ProjectFiles /\ NoProject \in ProjectFiles
  /\ NoProject.files = {} /\ Template.files = Parts /\ Template.bundle = "template"
<1>1. <<>> \in AllChains
  BY DEF AllChains
<1>2. NoProject \in ProjectFiles /\ NoProject.files = {}
  BY <1>1 DEF NoProject, NoSignatures, NoConfig, ProjectFiles, Profiles, Bundles, Leaves, Kinds
<1> QED
  BY <1>2 DEF Template, ProjectFiles, Bundles

LEMMA NoTaskTyped == NoTask \in Tasks /\ NoTask.at = "idle" /\ NoTask.bundle = Nothing /\ NoTask.status = Nothing
<1>1. <<>> \in AllChains /\ NoProject \in ProjectFiles
  BY DEF AllChains, NoProject, NoSignatures, NoConfig, ProjectFiles, Profiles, Bundles, Leaves, Kinds
<1> QED
  BY <1>1 DEF NoTask, Tasks, ProjectLabels, Kinds, Bundles, Leaves, Profiles

LEMMA ProjectInitInv == ProjectInit => ProjectInv
<1> SUFFICES ASSUME ProjectInit PROVE ProjectInv
  OBVIOUS
<1>1. <<"root", "sub", "profile-release">> \in AllChains /\ <<>> \in AllChains
  BY DEF AllChains
<1>2. NoProject \in ProjectFiles /\ NoProject.files = {}
  BY <1>1 DEF NoProject, NoSignatures, NoConfig, ProjectFiles, Profiles, Bundles, Leaves, Kinds
<1>3. ASSUME NEW b \in BundleNames PROVE Signed(b) \in ProjectFiles /\ Signed(b).bundle = b
  <2> DEFINE sig == [exists |-> TRUE, template |-> "filled", p7b |-> [bundle |-> b, cert |-> "profile-release"],
                     chain |-> <<"root", "sub", "profile-release">>, material |-> MaxCommands + 1]
             entry == [kind |-> "profile-release", material |-> MaxCommands + 1]
  <2>0. MaxCommands + 1 \in Nat
    BY ProjectAssumption
  <2>1. Template \in ProjectFiles
    BY <1>2 DEF Template, ProjectFiles, Bundles
  <2>2. sig \in [exists: BOOLEAN, template: {Nothing, "filled"}, p7b: Profiles, chain: AllChains, material: Nat]
    BY <1>1, ProjectAssumption, <2>0 DEF Profiles, Bundles, Leaves
  <2>3. entry \in [kind: Kinds, material: Nat] /\ b \in Bundles
    BY ProjectAssumption, <2>0 DEF Kinds, Bundles
  <2> HIDE DEF sig, entry
  <2>4. Signed(b) = [Template EXCEPT !.bundle = b, !.config = entry, !.sig = sig]
    BY DEF Signed, sig, entry
  <2> QED
    BY <2>1, <2>2, <2>3, <2>4 DEF ProjectFiles
<1>4. NoTask \in Tasks /\ NoTask.at = "idle" /\ NoTask.bundle = Nothing /\ NoTask.status = Nothing
  BY NoTaskTyped
<1>5. ProjectTypeOK
  <2>1. "bundle" \in DOMAIN NoFile /\ NoFile.bundle \in Bundles
    BY DEF NoFile, Bundles
  <2>2. \A h \in GivenHaps : "bundle" \in DOMAIN h /\ h.bundle \in Bundles
    BY ProjectAssumption DEF Bundles
  <2> QED
    BY <1>2, <1>3, <1>4, <2>1, <2>2 DEF ProjectInit, ProjectTypeOK
<1>6. CreateInv /\ VerdictIsTrue /\ TempsInv
  BY <1>4 DEF ProjectInit, CreateInv, VerdictIsTrue, TempsInv, ScaffoldIsWhole, Creating
<1>7. GenerateInv
  BY <1>2, <1>3, <1>4, ProjectAssumption DEF ProjectInit, GenerateInv, GeneratedAgrees
<1> QED
  BY <1>5, <1>6, <1>7 DEF ProjectInv

(* A task goes on to another place and keeps what it knows.                  *)
LEMMA TaskGoesOn ==
  ASSUME task \in Tasks, NEW to \in ProjectLabels, task' = [task EXCEPT !.at = to]
  PROVE  /\ task' \in Tasks /\ task'.at = to
         /\ task'.bundle = task.bundle /\ task'.module = task.module /\ task'.valid = task.valid
         /\ task'.overwrite = task.overwrite /\ task'.before = task.before
         /\ task'.kind = task.kind /\ task'.chain = task.chain /\ task'.template = task.template
         /\ task'.out = task.out /\ task'.status = task.status /\ task'.fails = task.fails
  BY DEF Tasks

(* A field of the project is written.                                        *)
LEMMA ProjectFields ==
  ASSUME proj \in ProjectFiles
  PROVE  /\ \A f \in SUBSET Parts : [proj EXCEPT !.files = f] \in ProjectFiles
         /\ \A m \in Modules : [proj EXCEPT !.folder = m] \in ProjectFiles
         /\ \A m \in Modules, part \in Parts : [proj EXCEPT !.named[part] = m] \in ProjectFiles
         /\ \A b \in Bundles : [proj EXCEPT !.bundle = b] \in ProjectFiles
         /\ \A f \in {Nothing, "filled"} : [proj EXCEPT !.sig.template = f] \in ProjectFiles
         /\ \A f \in Profiles : [proj EXCEPT !.sig.p7b = f] \in ProjectFiles
         /\ \A n \in Nat : [proj EXCEPT !.sig.material = n] \in ProjectFiles
         /\ \A k \in Kinds, n \in Nat : [proj EXCEPT !.config = [kind |-> k, material |-> n]] \in ProjectFiles
<1> DEFINE Sigs == [exists: BOOLEAN, template: {Nothing, "filled"}, p7b: Profiles, chain: AllChains, material: Nat]
<1>1. proj.sig \in Sigs
  BY DEF ProjectFiles
<1>2. \A x \in Sigs : [proj EXCEPT !.sig = x] \in ProjectFiles
  BY DEF ProjectFiles
<1>3. /\ \A f \in SUBSET Parts : [proj EXCEPT !.files = f] \in ProjectFiles
      /\ \A m \in Modules : [proj EXCEPT !.folder = m] \in ProjectFiles
      /\ \A b \in Bundles : [proj EXCEPT !.bundle = b] \in ProjectFiles
  BY DEF ProjectFiles
<1>4. \A m \in Modules, part \in Parts : [proj EXCEPT !.named[part] = m] \in ProjectFiles
  BY DEF ProjectFiles
<1>5. /\ \A f \in {Nothing, "filled"} : [proj.sig EXCEPT !.template = f] \in Sigs
      /\ \A f \in Profiles : [proj.sig EXCEPT !.p7b = f] \in Sigs
      /\ \A n \in Nat : [proj.sig EXCEPT !.material = n] \in Sigs
  BY <1>1
<1>6. \A k \in Kinds, n \in Nat : [proj EXCEPT !.config = [kind |-> k, material |-> n]] \in ProjectFiles
  BY DEF ProjectFiles
<1>7. /\ \A f : [proj EXCEPT !.sig.template = f] = [proj EXCEPT !.sig = [proj.sig EXCEPT !.template = f]]
      /\ \A f : [proj EXCEPT !.sig.p7b = f] = [proj EXCEPT !.sig = [proj.sig EXCEPT !.p7b = f]]
      /\ \A f : [proj EXCEPT !.sig.material = f] = [proj EXCEPT !.sig = [proj.sig EXCEPT !.material = f]]
  BY DEF ProjectFiles
<1> QED
  BY <1>2, <1>3, <1>4, <1>5, <1>6, <1>7

(* Between the commands, and where a command begins.                         *)
Begins == EditBundle \/ HvigorBuilds \/ StartCreate \/ StartGenerate \/ StartPrepare \/ StartSignHap \/ StartVerify

(* A new task has forgotten the last one; it has not begun to write.         *)
Fresh(t) ==
    /\ t \in Tasks /\ t.at \in {"idle", "create", "sdk", "present", "info", "verify"}
    /\ IF t.at = "create" THEN t.before = proj /\ t.bundle # Nothing ELSE t.bundle = Nothing
LEMMA FreshTasks ==
  ASSUME ProjectInv, Begins
  PROVE  /\ Fresh(task') /\ Idle
         /\ proj' = proj \/ (task' = NoTask /\ \E b \in BundleNames : proj' = [proj EXCEPT !.bundle = b])
         /\ temps' = temps /\ commands_' \in Nat
<1>0. /\ NoTask \in Tasks /\ NoTask.at = "idle" /\ NoTask.bundle = Nothing
      /\ proj \in ProjectFiles /\ task \in Tasks /\ commands_ \in Nat
  BY NoTaskTyped DEF ProjectInv, ProjectTypeOK
<1>1. \A apl \in Apls, chain \in Chains :
        pickSigningKind(apl) \in Kinds /\ ChainOf(pickSigningKind(apl), chain) \in AllChains
  BY DEF Apls, pickSigningKind, ChainOf, Kinds, AllChains
<1>3. CASE EditBundle \/ HvigorBuilds
  BY <1>0, <1>3 DEF EditBundle, HvigorBuilds, Fresh
<1>4. CASE StartCreate
  <2>1. PICK b \in BundleNames, m \in Modules, valid \in BOOLEAN, over \in BOOLEAN :
          Starts([NoTask EXCEPT !.at = "create", !.bundle = b, !.module = m, !.valid = valid, !.overwrite = over, !.before = proj])
    BY <1>4 DEF StartCreate
  <2> DEFINE t == [NoTask EXCEPT !.at = "create", !.bundle = b, !.module = m, !.valid = valid, !.overwrite = over, !.before = proj]
  <2>2. t \in Tasks /\ t.at = "create" /\ t.before = proj /\ t.bundle # Nothing
    <3>1. b \in BundleNames \cup {Nothing} /\ b # Nothing
      BY ProjectAssumption
    <3> QED
      BY <1>0, <3>1 DEF Tasks, ProjectLabels
  <2> HIDE DEF t
  <2> QED
    BY <1>0, <2>1, <2>2 DEF Starts, Fresh, t
<1>5. CASE StartGenerate \/ StartPrepare
  <2>1. PICK to \in {"sdk", "present"}, k \in Kinds, chain \in AllChains : Starts([NoTask EXCEPT !.at = to, !.kind = k, !.chain = chain])
    BY <1>1, <1>5 DEF StartGenerate, StartPrepare
  <2>2. LET t == [NoTask EXCEPT !.at = to, !.kind = k, !.chain = chain]
        IN  t \in Tasks /\ t.at = to /\ t.bundle = Nothing
    BY <1>0, <2>1 DEF Tasks, ProjectLabels
  <2> QED
    BY <1>0, <2>1, <2>2 DEF Starts, Fresh
<1>6. CASE StartSignHap
  <2>1. PICK k \in Kinds, chain \in AllChains, out \in {"built", "signed"} :
          Starts([NoTask EXCEPT !.at = "info", !.kind = k, !.chain = chain, !.out = out])
    BY <1>1, <1>6 DEF StartSignHap
  <2> DEFINE t == [NoTask EXCEPT !.at = "info", !.kind = k, !.chain = chain, !.out = out]
  <2>2. t \in Tasks /\ t.at = "info" /\ t.bundle = Nothing
    BY <1>0 DEF Tasks, ProjectLabels
  <2> HIDE DEF t
  <2> QED
    BY <1>0, <2>1, <2>2 DEF Starts, Fresh, t
<1>7. CASE StartVerify
  <2>1. PICK out \in {"built", "signed"} : Starts([NoTask EXCEPT !.at = "verify", !.out = out])
    BY <1>7 DEF ProjectInv, ProjectTypeOK, StartVerify
  <2> DEFINE t == [NoTask EXCEPT !.at = "verify", !.out = out]
  <2>2. t \in Tasks /\ t.at = "verify" /\ t.bundle = Nothing
    BY <1>0 DEF Tasks, ProjectLabels
  <2> HIDE DEF t
  <2> QED
    BY <1>0, <2>1, <2>2 DEF Starts, Fresh, t
<1> QED
  BY <1>3, <1>4, <1>5, <1>6, <1>7 DEF Begins

LEMMA BeginsKeep == ProjectInv /\ Begins => ProjectInv'
<1> SUFFICES ASSUME ProjectInv, Begins PROVE ProjectInv'
  OBVIOUS
<1>1. /\ Fresh(task') /\ Idle
      /\ proj' = proj \/ (task' = NoTask /\ \E b \in BundleNames : proj' = [proj EXCEPT !.bundle = b])
      /\ temps' = temps /\ commands_' \in Nat
  BY FreshTasks
<1>2. proj' \in ProjectFiles /\ (proj' = proj \/ (task'.at = "idle" /\ proj'.bundle \in BundleNames))
  <2>1. proj \in ProjectFiles
    BY DEF ProjectInv, ProjectTypeOK
  <2>2. ASSUME NEW b \in BundleNames, proj' = [proj EXCEPT !.bundle = b] PROVE proj' \in ProjectFiles /\ proj'.bundle = b
    BY <2>1, <2>2 DEF ProjectFiles, Bundles
  <2> QED
    BY <1>1, <2>1, <2>2, NoTaskTyped
<1>3. DOMAIN haps' = {"built", "signed"} /\ "bundle" \in DOMAIN haps'["built"] /\ haps'["built"].bundle \in Bundles
  <2>1. proj.bundle \in Bundles
    BY DEF ProjectInv, ProjectTypeOK, ProjectFiles
  <2>2. ASSUME HvigorBuilds
        PROVE  DOMAIN haps' = DOMAIN haps /\ "bundle" \in DOMAIN haps'["built"] /\ haps'["built"].bundle = proj.bundle
    BY <2>2 DEF HvigorBuilds, NoFile, ProjectInv, ProjectTypeOK
  <2> QED BY <2>1, <2>2 DEF ProjectInv, ProjectTypeOK, Begins, EditBundle, StartCreate, StartGenerate, StartPrepare,
         StartSignHap, StartVerify, Starts
<1>4. ProjectTypeOK'
  BY <1>1, <1>2, <1>3 DEF ProjectInv, ProjectTypeOK, Fresh
<1>5. CreateInv'
  BY <1>1, <1>2 DEF CreateInv, ScaffoldIsWhole, Creating, Fresh
<1>6. GenerateInv'
  BY <1>1, <1>2, ProjectAssumption DEF ProjectInv, GenerateInv, GeneratedAgrees, Fresh
<1>7. VerdictIsTrue' /\ TempsInv'
  BY <1>1 DEF ProjectInv, VerdictIsTrue, TempsInv, Fresh, Idle
<1> QED
  BY <1>4, <1>5, <1>6, <1>7 DEF ProjectInv

(* A project that is made.                                                   *)
Creates == CheckCreate \/ RemoveProject \/ copyDirRecursive \/ renameIfExists \/ writeBundleName \/ writeModuleName
LEMMA CreatesKeep == ProjectInv /\ Creates => ProjectInv'
<1> SUFFICES ASSUME ProjectInv, Creates PROVE ProjectInv'
  OBVIOUS
<1> DEFINE At == {"create", "remove", "copy", "rename", "app", "profile", "module", "package"}
<1>1. PICK to \in {"failed", "copy", "remove", "rename", "app", "profile", "module", "package", "created"} :
        task' = [task EXCEPT !.at = to]
  BY DEF Creates, CheckCreate, RemoveProject, copyDirRecursive, renameIfExists, writeBundleName, writeModuleName, Turn
<1>2. /\ task.at \in At /\ haps' = haps /\ temps' = temps /\ commands_' = commands_
  BY DEF Creates, CheckCreate, RemoveProject, copyDirRecursive, renameIfExists, writeBundleName, writeModuleName, Turn
<1>3. task \in Tasks /\ proj \in ProjectFiles /\ to \in ProjectLabels
  BY <1>1 DEF ProjectInv, ProjectTypeOK, ProjectLabels
<1>4. /\ task' \in Tasks /\ task'.at = to
      /\ task'.bundle = task.bundle /\ task'.module = task.module /\ task'.valid = task.valid
      /\ task'.overwrite = task.overwrite /\ task'.before = task.before
  BY <1>1, <1>3, TaskGoesOn
<1>5. /\ Template \in ProjectFiles /\ NoProject \in ProjectFiles /\ NoProject.files = {}
      /\ Template.files = Parts /\ Template.bundle = "template"
  BY ProjectsTyped
<1>6. task.bundle \in Bundles /\ task.module \in Modules
  BY <1>3 DEF Tasks, Bundles
<1>7. proj' \in ProjectFiles
  BY <1>3, <1>5, <1>6, ProjectFields
  DEF Creates, CheckCreate, RemoveProject, copyDirRecursive, renameIfExists, writeBundleName, writeModuleName
<1>8. ProjectTypeOK'
  BY <1>2, <1>4, <1>7 DEF ProjectInv, ProjectTypeOK
<1>9. CreateInv' /\ ("app" \in proj'.files => proj'.bundle # Nothing)
  <2>9. \A x : task' = [task EXCEPT !.at = x] => task'.at = x
    BY <1>3 DEF Tasks
  <2> USE <1>2, <1>3, <1>4, <2>9 DEF CreateInv, ScaffoldIsWhole, Creating, GenerateInv, Turn
  <2>0. CreateInv /\ ("app" \in proj.files => proj.bundle # Nothing)
    BY DEF ProjectInv
  <2>1. CASE CheckCreate
    BY <2>0, <2>1 DEF CheckCreate
  <2>2. CASE RemoveProject
    BY <1>5, <2>0, <2>2 DEF RemoveProject
  <2>3. CASE copyDirRecursive
    BY <1>5, <2>0, <2>3 DEF copyDirRecursive
  <2>4. CASE renameIfExists
    BY <2>0, <2>4 DEF renameIfExists, ProjectFiles
  <2>5. CASE writeBundleName
    BY <2>0, <2>5 DEF writeBundleName, ProjectFiles
  <2>6. CASE writeModuleName
    BY <2>0, <2>6 DEF writeModuleName, ProjectFiles
  <2> QED
    BY <2>1, <2>2, <2>3, <2>4, <2>5, <2>6 DEF Creates
<1>10. GenerateInv' /\ VerdictIsTrue' /\ TempsInv'
  BY <1>1, <1>2, <1>4, <1>9 DEF ProjectInv, GenerateInv, GeneratedAgrees, VerdictIsTrue, TempsInv
<1> QED
  BY <1>8, <1>9, <1>10 DEF ProjectInv

(* Material that is generated for it.                                        *)
Generates ==
    \/ detectProjectSdkVersion \/ copySigningFiles \/ applyProfileTemplate \/ generateP7bFile
    \/ removeMaterial \/ createMaterial \/ updateBuildProfile

LEMMA GeneratesTyped ==
  ASSUME ProjectInv, Generates
  PROVE  /\ proj' \in ProjectFiles /\ task' \in Tasks
         /\ proj'.files = proj.files /\ proj'.bundle = proj.bundle /\ task'.chain = task.chain /\ task'.bundle = task.bundle
<1>1. proj \in ProjectFiles /\ task \in Tasks /\ commands_ \in Nat
  BY DEF ProjectInv, ProjectTypeOK
<1>2. /\ task.chain \in AllChains /\ task.kind \in Kinds /\ task.template \in Profiles
      /\ proj.bundle \in Bundles /\ proj.sig.chain \in AllChains /\ proj.sig.material \in Nat
  BY <1>1 DEF Tasks, ProjectFiles, Profiles
<1>3. ASSUME NEW to \in ProjectLabels, task' = [task EXCEPT !.at = to]
      PROVE  task' \in Tasks /\ task'.chain = task.chain /\ task'.bundle = task.bundle
  BY <1>1, <1>3, TaskGoesOn
<1>4. CASE detectProjectSdkVersion
  BY <1>1, <1>3, <1>4 DEF detectProjectSdkVersion, Turn, ProjectLabels
<1>5. CASE copySigningFiles
  <2> DEFINE sig == [proj.sig EXCEPT !.exists = TRUE, !.template = Nothing, !.chain = task.chain]
  <2>1. proj' = [proj EXCEPT !.sig = sig]
    BY <1>1, <1>5 DEF copySigningFiles, ProjectFiles
  <2>2. sig \in [exists: BOOLEAN, template: {Nothing, "filled"}, p7b: Profiles, chain: AllChains, material: Nat]
    BY <1>1, <1>2 DEF ProjectFiles
  <2> HIDE DEF sig
  <2>3. proj' \in ProjectFiles /\ proj'.files = proj.files /\ proj'.bundle = proj.bundle
    BY <1>1, <2>1, <2>2 DEF ProjectFiles
  <2>4. "template" \in ProjectLabels /\ task' = [task EXCEPT !.at = "template"]
    BY <1>5 DEF copySigningFiles, Turn, ProjectLabels
  <2> QED
    BY <1>3, <2>3, <2>4
<1>6. CASE applyProfileTemplate
  <2>0. proj' = proj \/ proj' = [proj EXCEPT !.sig.template = "filled"]
    BY <1>6 DEF applyProfileTemplate
  <2>1. proj' \in ProjectFiles /\ proj'.files = proj.files /\ proj'.bundle = proj.bundle
    <3>1. proj' \in ProjectFiles
      BY <1>1, <2>0, ProjectFields
    <3> QED
      BY <1>1, <2>0, <3>1 DEF ProjectFiles
  <2>2. extractLeafCertificate(proj.sig.chain) \in Leaves
    BY <1>2 DEF Leaves
  <2>3. task' \in Tasks /\ task'.chain = task.chain /\ task'.bundle = task.bundle
    <3>1. CASE task' = [task EXCEPT !.at = "failed"]
      BY <1>3, <3>1 DEF ProjectLabels
    <3>2. CASE task' = [task EXCEPT !.at = "p7b", !.template = [bundle |-> proj.bundle, cert |-> extractLeafCertificate(proj.sig.chain)]]
      <4> DEFINE named == [bundle |-> proj.bundle, cert |-> extractLeafCertificate(proj.sig.chain)]
      <4>1. named \in [bundle: Bundles, cert: Leaves]
        BY <1>2, <2>2
      <4> HIDE DEF named
      <4>2. task' = [task EXCEPT !.at = "p7b", !.template = named]
        BY <3>2 DEF named
      <4> QED
        BY <1>1, <4>1, <4>2 DEF Tasks, ProjectLabels, Profiles
    <3> QED
      BY <1>6, <3>1, <3>2 DEF applyProfileTemplate
  <2> QED
    BY <2>1, <2>3
<1>7. CASE generateP7bFile \/ removeMaterial \/ createMaterial
  <2>1. proj' \in ProjectFiles
    BY <1>1, <1>2, <1>7, ProjectFields DEF generateP7bFile, removeMaterial, createMaterial
  <2>2. proj'.files = proj.files /\ proj'.bundle = proj.bundle
    BY <1>1, <1>7 DEF generateP7bFile, removeMaterial, createMaterial, ProjectFiles
  <2>3. task' \in Tasks /\ task'.chain = task.chain /\ task'.bundle = task.bundle
    BY <1>3, <1>7 DEF generateP7bFile, removeMaterial, createMaterial, Turn, ProjectLabels
  <2> QED
    BY <2>1, <2>2, <2>3
<1>8. CASE updateBuildProfile
  <2>1. proj' \in ProjectFiles
    BY <1>1, <1>2, <1>8, ProjectFields DEF updateBuildProfile
  <2>2. proj'.files = proj.files /\ proj'.bundle = proj.bundle
    BY <1>1, <1>8 DEF updateBuildProfile, ProjectFiles
  <2>3. task' \in Tasks /\ task'.chain = task.chain /\ task'.bundle = task.bundle
    BY <1>3, <1>8 DEF updateBuildProfile, Turn, ProjectLabels
  <2> QED
    BY <2>1, <2>2, <2>3
<1> QED
  BY <1>4, <1>5, <1>6, <1>7, <1>8 DEF Generates

LEMMA GeneratesKeep == ProjectInv /\ Generates => ProjectInv'
<1> SUFFICES ASSUME ProjectInv, Generates PROVE ProjectInv'
  OBVIOUS
<1>1. /\ proj' \in ProjectFiles /\ task' \in Tasks
      /\ proj'.files = proj.files /\ proj'.bundle = proj.bundle /\ task'.chain = task.chain /\ task'.bundle = task.bundle
  BY GeneratesTyped
<1>2. proj \in ProjectFiles /\ task \in Tasks
  BY DEF ProjectInv, ProjectTypeOK
<1> USE DEF detectProjectSdkVersion, copySigningFiles, applyProfileTemplate, generateP7bFile, removeMaterial, createMaterial,
            updateBuildProfile, Turn
<1>3. haps' = haps /\ temps' = temps /\ commands_' = commands_
  BY DEF Generates
<1>4. /\ task.at \in {"sdk", "copied", "template", "p7b", "unmaterial", "material", "config"}
      /\ task'.at \in {"copied", "template", "p7b", "unmaterial", "material", "config", "generated", "failed"}
  BY <1>2 DEF Generates, Tasks
<1>5. ProjectTypeOK'
  BY <1>1, <1>3 DEF ProjectInv, ProjectTypeOK
<1>6. CreateInv' /\ VerdictIsTrue' /\ TempsInv'
  BY <1>1, <1>3, <1>4 DEF ProjectInv, CreateInv, ScaffoldIsWhole, Creating, VerdictIsTrue, TempsInv
<1>7. GenerateInv'
  <2> USE <1>1, <1>2 DEF GenerateInv, GeneratedAgrees, Due, Signable
  <2>1. GenerateInv
    BY DEF ProjectInv
  <2>0. \A x : task' = [task EXCEPT !.at = x] => task'.at = x
    BY DEF Tasks
  <2>2. CASE detectProjectSdkVersion
    BY <2>0, <2>1, <2>2
  <2>7. CASE copySigningFiles
    <3>1. proj'.sig.chain = task.chain
      BY <2>7 DEF ProjectFiles
    <3> QED
      BY <2>0, <2>1, <2>7, <3>1
  <2>3. CASE applyProfileTemplate
    <3>1. CASE task' = [task EXCEPT !.at = "failed"]
      BY <2>0, <2>1, <2>3, <3>1
    <3>2. CASE "app" \in proj.files /\ task' = [task EXCEPT !.at = "p7b", !.template =
                                               [bundle |-> proj.bundle, cert |-> extractLeafCertificate(proj.sig.chain)]]
      <4>1. task'.at = "p7b" /\ task'.template = [bundle |-> proj.bundle, cert |-> extractLeafCertificate(proj.sig.chain)]
        BY <3>2 DEF Tasks
      <4> QED
        BY <2>1, <2>3, <3>2, <4>1
    <3> QED
      BY <2>3, <3>1, <3>2
  <2>4. CASE generateP7bFile
    BY <2>1, <2>4 DEF Tasks, ProjectFiles
  <2>5. CASE removeMaterial \/ createMaterial
    BY <2>1, <2>5 DEF Tasks, ProjectFiles
  <2>6. CASE updateBuildProfile
    BY <2>1, <2>6 DEF Tasks, ProjectFiles
  <2> QED
    BY <2>2, <2>3, <2>4, <2>5, <2>6, <2>7 DEF Generates
<1> QED
  BY <1>5, <1>6, <1>7 DEF ProjectInv

(* A HAP that is signed.                                                     *)
SignsHap == readHapSigningInfo \/ makeMaterial \/ signTool \/ moveSigned \/ finallyTmp \/ finallyScratch
LEMMA SignsHapKeep == ProjectInv /\ SignsHap => ProjectInv'
<1> SUFFICES ASSUME ProjectInv, SignsHap PROVE ProjectInv'
  OBVIOUS
<1>1. proj \in ProjectFiles /\ task \in Tasks
  BY DEF ProjectInv, ProjectTypeOK
<1> USE DEF readHapSigningInfo, makeMaterial, signTool, moveSigned, finallyTmp, finallyScratch, Turn
<1>2. proj' = proj /\ commands_' = commands_
  BY DEF SignsHap
<1>3. task' \in Tasks /\ task'.bundle = task.bundle
  <2>1. ASSUME NEW to \in ProjectLabels, task' = [task EXCEPT !.at = to] \/ task' = [task EXCEPT !.at = to, !.fails = TRUE]
        PROVE  task' \in Tasks /\ task'.bundle = task.bundle
    BY <1>1, <2>1 DEF Tasks
  <2>2. ASSUME task.at = "temp", enough(task.chain),
               task' = [task EXCEPT !.at = "tool", !.template = [bundle |-> haps["built"].bundle, cert |-> extractLeafCertificate(task.chain)]]
        PROVE  task' \in Tasks /\ task'.bundle = task.bundle
    <3> DEFINE named == [bundle |-> haps["built"].bundle, cert |-> extractLeafCertificate(task.chain)]
    <3>1. task.chain \in AllChains
      BY <1>1 DEF Tasks
    <3>2. named \in Profiles
      BY <3>1 DEF ProjectInv, ProjectTypeOK, Profiles, Leaves
    <3> HIDE DEF named
    <3>3. task' = [task EXCEPT !.at = "tool", !.template = named]
      BY <2>2 DEF named
    <3> QED
      BY <1>1, <3>2, <3>3 DEF Tasks, ProjectLabels
  <2>3. CASE makeMaterial
    BY <2>1, <2>2, <2>3 DEF ProjectLabels
  <2>4. CASE ~makeMaterial
    BY <2>1, <2>4 DEF SignsHap, ProjectLabels
  <2> QED
    BY <2>3, <2>4
<1>4. /\ task.at \in {"info", "temp", "tool", "move", "untmp", "cleanup"}
      /\ task'.at \in {"temp", "tool", "move", "untmp", "cleanup", "signed", "failed"}
  BY <1>1 DEF SignsHap, Tasks
<1>5. DOMAIN haps' = {"built", "signed"} /\ "bundle" \in DOMAIN haps'["built"] /\ haps'["built"].bundle \in Bundles
  <2>1. CASE moveSigned
    <3>1. "bundle" \in DOMAIN Copy_ /\ Copy_.bundle = haps["built"].bundle
      BY DEF Copy_, ProjectInv, ProjectTypeOK
    <3>2. task.out \in {"built", "signed"} /\ haps' = [haps EXCEPT ![task.out] = Copy_]
      BY <1>1, <2>1 DEF Tasks
    <3> QED
      BY <3>1, <3>2 DEF ProjectInv, ProjectTypeOK
  <2>2. CASE ~moveSigned
    BY <2>2 DEF SignsHap, ProjectInv, ProjectTypeOK
  <2> QED
    BY <2>1, <2>2
<1>6. temps' \subseteq {"dir", "tmp"} /\ TempsInv'
  <2>1. TempsInv /\ temps \subseteq {"dir", "tmp"}
    BY DEF ProjectInv, ProjectTypeOK
  <2>2. \A x : task' = [task EXCEPT !.at = x] => task'.at = x
    BY <1>1 DEF Tasks
  <2>3. CASE readHapSigningInfo
    BY <2>1, <2>2, <2>3 DEF TempsInv
  <2>4. CASE makeMaterial
    <3>1. task.at = "temp" /\ temps' = temps
      BY <2>4
    <3>2. task'.at \in {"tool", "cleanup"}
      BY <1>1, <2>4 DEF Tasks
    <3> QED
      BY <2>1, <3>1, <3>2 DEF TempsInv
  <2>5. CASE signTool \/ moveSigned
    BY <2>1, <2>2, <2>5 DEF TempsInv
  <2>6. CASE finallyTmp
    BY <2>1, <2>2, <2>6 DEF TempsInv
  <2>7. CASE finallyScratch
    BY <2>1, <2>2, <2>7 DEF TempsInv
  <2> QED
    BY <2>3, <2>4, <2>5, <2>6, <2>7 DEF SignsHap
<1>7. ProjectTypeOK'
  BY <1>1, <1>2, <1>3, <1>5, <1>6 DEF ProjectInv, ProjectTypeOK
<1>8. CreateInv' /\ GenerateInv' /\ VerdictIsTrue'
  BY <1>2, <1>3, <1>4 DEF ProjectInv, CreateInv, ScaffoldIsWhole, Creating, GenerateInv, GeneratedAgrees, VerdictIsTrue
<1> QED
  BY <1>6, <1>7, <1>8 DEF ProjectInv

(* A HAP that is verified.                                                   *)
LEMMA VerifiesKeep == ProjectInv /\ (verifyHap \/ verifyTool) => ProjectInv'
<1> SUFFICES ASSUME ProjectInv, verifyHap \/ verifyTool PROVE ProjectInv'
  OBVIOUS
<1>1. task \in Tasks
  BY DEF ProjectInv, ProjectTypeOK
<1>2. /\ proj' = proj /\ commands_' = commands_ /\ haps' = haps
      /\ task.at \in {"verify", "verifying"}
  BY DEF verifyHap, verifyTool
<1>3. /\ task' \in Tasks /\ task'.bundle = task.bundle /\ task'.out = task.out
      /\ task'.at \in {"verifying", "verified"}
      /\ task'.at = "verified" /\ task'.status = "valid" => verdict(haps[task.out]) = "valid"
      /\ temps' \subseteq {"dir"} /\ (temps' # {} => task'.at = "verifying")
  <2>1. CASE verifyHap
    <3>1. CASE task' = [task EXCEPT !.at = "verified", !.status = "unverified"] /\ temps' = temps
      BY <1>1, <1>2, <2>1, <3>1 DEF Tasks, ProjectLabels, ProjectInv, TempsInv, verifyHap
    <3>2. CASE task' = [task EXCEPT !.at = "verifying"] /\ temps' = {"dir"}
      BY <1>1, <3>2 DEF Tasks, ProjectLabels
    <3> QED
      BY <2>1, <3>1, <3>2 DEF verifyHap
  <2>2. CASE verifyTool
    <3>1. verdict(haps[task.out]) \in {"valid", "invalid"}
      BY DEF verdict
    <3> QED
      BY <1>1, <2>2, <3>1 DEF Tasks, ProjectLabels, verifyTool
  <2> QED
    BY <2>1, <2>2
<1>4. ProjectTypeOK' /\ TempsInv'
  BY <1>2, <1>3 DEF ProjectInv, ProjectTypeOK, TempsInv
<1>5. CreateInv' /\ GenerateInv'
  BY <1>2, <1>3 DEF ProjectInv, CreateInv, ScaffoldIsWhole, Creating, GenerateInv, GeneratedAgrees
<1>6. \A h : verdict(h) = "valid" => h.profile.bundle \in {Nothing, h.bundle} /\ h.profile.cert \in {Nothing, h.cert}
  BY DEF verdict, Problems_, NotFor
<1>7. VerdictIsTrue'
  BY <1>2, <1>3, <1>6 DEF VerdictIsTrue
<1> QED
  BY <1>4, <1>5, <1>7 DEF ProjectInv

(* A step that fails or is killed.                                           *)
LEMMA PartsTyped ==
  ASSUME ProjectInv, PartWrites
  PROVE  proj' \in ProjectFiles /\ ("app" \in proj'.files => proj'.bundle # Nothing)
<1>1. proj \in ProjectFiles /\ ("app" \in proj.files => proj.bundle # Nothing)
  BY DEF ProjectInv, ProjectTypeOK, GenerateInv
<1>2. /\ NoSignatures \in [exists: BOOLEAN, template: {Nothing, "filled"}, p7b: Profiles, chain: AllChains, material: Nat]
      /\ NoConfig \in [kind: Kinds, material: Nat]
  BY DEF NoSignatures, NoConfig, Profiles, Bundles, Leaves, AllChains, Kinds
<1>3. ASSUME NEW left \in SUBSET Parts, left \subseteq proj.files,
             proj' = [proj EXCEPT !.files = left, !.sig = NoSignatures]
      PROVE  proj' \in ProjectFiles /\ ("app" \in proj'.files => proj'.bundle # Nothing)
  BY <1>1, <1>2, <1>3 DEF ProjectFiles
<1>4. ASSUME NEW left \in SUBSET Parts, proj' = [Template EXCEPT !.files = left]
      PROVE  proj' \in ProjectFiles /\ proj'.bundle # Nothing
  <2>1. Template \in ProjectFiles /\ Template.bundle = "template"
    BY ProjectsTyped
  <2> QED
    BY <1>4, <2>1 DEF ProjectFiles
<1>5. ASSUME NEW part, proj' = [proj EXCEPT !.files = @ \ {part}]
      PROVE  proj' \in ProjectFiles /\ ("app" \in proj'.files => proj'.bundle # Nothing)
  BY <1>1, <1>5 DEF ProjectFiles
<1>6. ASSUME proj' = [proj EXCEPT !.files = @ \ {"profile"}, !.config = NoConfig]
      PROVE  proj' \in ProjectFiles /\ ("app" \in proj'.files => proj'.bundle # Nothing)
  BY <1>1, <1>2, <1>6 DEF ProjectFiles
<1>7. ASSUME proj' = [proj EXCEPT !.sig = [@ EXCEPT !.exists = TRUE, !.template = Nothing]]
      PROVE  proj' \in ProjectFiles /\ ("app" \in proj'.files => proj'.bundle # Nothing)
  <2> DEFINE sig == [proj.sig EXCEPT !.exists = TRUE, !.template = Nothing]
  <2>1. sig \in [exists: BOOLEAN, template: {Nothing, "filled"}, p7b: Profiles, chain: AllChains, material: Nat]
    BY <1>1 DEF ProjectFiles
  <2>2. proj' = [proj EXCEPT !.sig = sig]
    BY <1>1, <1>7 DEF ProjectFiles
  <2> HIDE DEF sig
  <2> QED
    BY <1>1, <2>1, <2>2 DEF ProjectFiles
<1>8. proj.files \subseteq Parts
  BY <1>1 DEF ProjectFiles
<1> QED
  BY <1>1, <1>3, <1>4, <1>5, <1>6, <1>7, <1>8 DEF PartWrites

LEMMA EndsKeep == ProjectInv /\ (Throws__ \/ KilledAt) => ProjectInv'
<1> SUFFICES ASSUME ProjectInv, Throws__ \/ KilledAt PROVE ProjectInv'
  OBVIOUS
<1>1. task \in Tasks
  BY DEF ProjectInv, ProjectTypeOK
<1>2. /\ proj' \in ProjectFiles /\ ("app" \in proj'.files => proj'.bundle # Nothing)
      /\ commands_' = commands_ /\ haps' = haps /\ ~Idle
  BY PartsTyped DEF Throws__, KilledAt
<1>3. PICK to \in {"untmp", "cleanup", "verified", "failed", "killed"} :
        \/ task' = [task EXCEPT !.at = to]
        \/ task' = [task EXCEPT !.at = to, !.fails = TRUE]
        \/ task' = [task EXCEPT !.at = to, !.status = "unverified"] /\ to = "verified"
  BY DEF Throws__, KilledAt
<1>4. /\ task' \in Tasks /\ task'.at = to
      /\ task'.bundle = task.bundle /\ task'.overwrite = task.overwrite /\ task'.valid = task.valid /\ task'.before = task.before
  BY <1>1, <1>3 DEF Tasks, ProjectLabels
<1>5. /\ task'.at \in {"untmp", "cleanup"} => task.at \in {"temp", "tool", "move"} /\ Throws__
      /\ task'.at = "verified" => task.at = "verifying" /\ task'.status = "unverified"
  BY <1>1 DEF Throws__, KilledAt, Tasks
<1>6. temps' \subseteq {"dir", "tmp"} /\ TempsInv'
  <2>1. CASE KilledAt
    BY <2>1 DEF KilledAt, TempsInv
  <2>2. CASE Throws__ /\ task.at \in {"tool", "move"}
    BY <1>1, <2>2 DEF Throws__, Tasks, ProjectInv, ProjectTypeOK, TempsInv
  <2>3. CASE Throws__ /\ task.at = "temp"
    BY <1>1, <2>3 DEF Throws__, Tasks, ProjectInv, ProjectTypeOK, TempsInv
  <2>4. CASE Throws__ /\ task.at = "verifying"
    BY <1>1, <2>4 DEF Throws__, Tasks, ProjectInv, ProjectTypeOK, TempsInv
  <2>5. CASE Throws__ /\ task.at \notin {"tool", "move", "temp", "verifying"}
    BY <1>1, <2>5 DEF Throws__, Tasks, ProjectInv, ProjectTypeOK, TempsInv
  <2> QED
    BY <2>1, <2>2, <2>3, <2>4, <2>5
<1>7. ProjectTypeOK'
  BY <1>2, <1>4, <1>6 DEF ProjectInv, ProjectTypeOK
<1>8. CreateInv'
  <2>1. CASE task.at = "create"
    <3>1. proj' = proj
      BY <2>1 DEF Throws__, KilledAt, PartWrites
    <3> QED
      BY <1>3, <1>4, <1>5, <2>1, <3>1 DEF ProjectInv, CreateInv, ScaffoldIsWhole, Creating
  <2>2. CASE task.at \in Creating \ {"create"}
    BY <1>2, <1>3, <1>4, <1>5, <2>2 DEF ProjectInv, CreateInv, ScaffoldIsWhole, Creating, Idle
  <2>3. CASE task.at \notin Creating
    BY <1>2, <1>3, <1>4, <1>5, <2>3 DEF ProjectInv, CreateInv, ScaffoldIsWhole, Creating, Idle
  <2> QED
    BY <2>1, <2>2, <2>3
<1>9. GenerateInv' /\ VerdictIsTrue'
  BY <1>2, <1>3, <1>4, <1>5 DEF GenerateInv, GeneratedAgrees, VerdictIsTrue
<1> QED
  BY <1>6, <1>7, <1>8, <1>9 DEF ProjectInv

LEMMA ProjectNextInv == ProjectInv /\ [ProjectNext]_projectVars => ProjectInv'
<1>1. UNCHANGED projectVars /\ ProjectInv => ProjectInv'
  BY DEF projectVars, ProjectInv, ProjectTypeOK, CreateInv, ScaffoldIsWhole, GenerateInv, GeneratedAgrees, Due, Signable,
         VerdictIsTrue, TempsInv
<1>2. ProjectNext => Begins \/ Creates \/ Generates \/ SignsHap \/ verifyHap \/ verifyTool \/ Throws__ \/ KilledAt
  BY DEF ProjectNext, Begins, Creates, Generates, SignsHap
<1> QED
  BY <1>1, <1>2, BeginsKeep, CreatesKeep, GeneratesKeep, SignsHapKeep, VerifiesKeep, EndsKeep

(* Whatever fails or is killed, and whatever the user builds and edits in    *)
(* between: a signing that succeeded has left a profile, keystore and        *)
(* passwords that agree, a HAP that is called valid is its profile's, a      *)
(* created project is whole, and nothing stays in the temporary directory.   *)
THEOREM ProjectIsSound == ProjectSpec => [](GeneratedAgrees /\ VerdictIsTrue /\ ScaffoldIsWhole /\ ScratchIsGone)
<1>1. ProjectInv => GeneratedAgrees /\ VerdictIsTrue /\ ScaffoldIsWhole /\ ScratchIsGone
  BY DEF ProjectInv, CreateInv, GenerateInv, TempsInv, ScratchIsGone, Idle
<1> QED
  BY <1>1, ProjectInitInv, ProjectNextInv, PTL DEF ProjectSpec

------------------------------------------------------------------------------
(* Side by side (MCCommands).                                                *)

(* Each command runs as it does alone.                                       *)
LEMMA Alone == CommandsSpec => Spec /\ SignIn!Spec /\ SignSpec /\ ProjectSpec
<1>1. CommandsInit => Init /\ SignIn!Init /\ SignInit /\ ProjectInit
  BY DEF CommandsInit
<1>2. [CommandsNext]_commandVars =>
        [Next]_vars /\ [SignIn!Next]_(SignIn!vars) /\ [SignNext]_signVars /\ [ProjectNext]_projectVars
  BY DEF CommandsNext, commandVars, loginVars, SignIn!vars
<1> QED
  BY <1>1, <1>2, PTL DEF CommandsSpec, Spec, SignIn!Spec, SignSpec, ProjectSpec

(* Among the others too, a command of one user tells what is stored, and a   *)
(* sign-in saves what it says and leaves nothing behind.                     *)
THEOREM SignInsAreTold ==
  ASSUME NEW c, Clients = {c}
  PROVE  CommandsSpec => []SessionsAreTold
<1>1. Spec => []OutcomeMatchesStore
  BY SingleOutcomeIsTrue
<1> QED
  BY <1>1, Alone, SignInOutcomeIsTrue, SignInLeavesNothing, PTL DEF SessionsAreTold

(* Signing, for either system, and what stands around it are sound: what a   *)
(* signing leaves agrees, unless it is cut off between profile and config.   *)
THEOREM SigningsAreSound ==
  ASSUME LosesConfig = FALSE
  PROVE  CommandsSpec => []SigningIsSound
<1>1. SignSpec => []SignedMaterialAgrees
  BY SignedMaterialIsSound
<1> QED
  BY <1>1, Alone, ProjectIsSound, PTL DEF SigningIsSound
==============================================================================
