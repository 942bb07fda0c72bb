---------------------------- MODULE LoginCallback ----------------------------
(***************************************************************************)
(* One sign-in of `oniro-app auth login`: the loopback server that the     *)
(* login page redirects to (callbackServer.ts), the reader of pasted       *)
(* callback addresses, the timeout, and the rest of login (session.ts) up  *)
(* to the saved session.  All of it runs on one event loop: an action is   *)
(* what happens between two turns of the loop.                             *)
(***************************************************************************)
EXTENDS Naturals, FiniteSets

CONSTANTS
    Requests,  \* HTTP requests that reach the loopback port
    MaxLines   \* bound: lines pasted on stdin

VARIABLES
    login,    \* where login is
    result,   \* what it returned or threw
    promise,  \* the callback the promise was settled with
    settled,  \* login has ended: pasted lines no longer count
    reader,   \* the reader of pasted lines
    lines,    \* lines it has read
    server,   \* the loopback listener
    request,  \* per request: its answer, and its parameters until then
    saved     \* the callback whose session is in the token store

loop == <<login, result, settled, saved>>
input == <<reader, lines>>
vars == <<login, result, promise, settled, reader, lines, server, request, saved>>

(* The parameters of a callback: whose `code` it carries, whether it says    *)
(* that the user quit, and whether it has a tempToken and a siteId.          *)
Params == [code: {"ours", "other", "none"}, quit: BOOLEAN, complete: BOOLEAN]
NoParams == [code |-> "none", quit |-> FALSE, complete |-> FALSE]

evaluate(p) ==
    IF p.code # "ours" THEN "refused"
    ELSE IF p.quit THEN "quit"
    ELSE IF p.complete THEN "signedIn" ELSE "refused"

Accepted(p) == evaluate(p) # "refused"

Answers == {"none", "reading", "400", "failedPath", "successPath", "destroyed"}

Init ==
    /\ login = "idle" /\ result = "none" /\ settled = FALSE
    /\ promise = NoParams
    /\ reader = "off" /\ lines = 0
    /\ server = "closed"
    /\ request = [r \in Requests |-> [answer |-> "none", params |-> NoParams]]
    /\ saved = NoParams

(* startCallbackServer, then the URL is shown and stdin is read if the user  *)
(* asked to paste; or the port is taken.                                     *)
Start ==
    /\ login = "idle"
    /\ \/ /\ login' = "waiting" /\ server' = "listening"
          /\ reader' \in {"off", "reading"}
          /\ UNCHANGED result
       \/ /\ login' = "done" /\ result' = "failed"
          /\ UNCHANGED <<server, reader>>
    /\ UNCHANGED <<promise, settled, lines, request, saved>>

(* Mutant: a later callback replaces the one that settled the login.         *)
settle_LastWins(p) ==
    /\ promise' = p
    /\ IF login = "waiting"
       THEN /\ login' = IF evaluate(p) = "signedIn" THEN "exchange" ELSE "stopping"
            /\ result' = IF evaluate(p) = "signedIn" THEN result ELSE "cancelled"
       ELSE UNCHANGED <<login, result>>
    /\ settled' = (settled \/ (login = "waiting" /\ evaluate(p) = "quit"))
    /\ UNCHANGED saved

(* Mutant: the verdict takes the place of the callback's code.               *)
settle_Verdict(p) ==
    /\ promise' = [p EXCEPT !.code = evaluate(p)]
    /\ login' = "stopping" /\ settled' = TRUE
    /\ UNCHANGED <<result, saved>>

(* An accepted callback settles the promise unless something did before; a   *)
(* login that still waits goes on with it, or ends as cancelled.             *)
settle(p) ==
    /\ promise' = IF Accepted(promise) THEN promise ELSE p
    /\ IF login = "waiting"
       THEN /\ login' = IF evaluate(p) = "signedIn" THEN "exchange" ELSE "stopping"
            /\ result' = IF evaluate(p) = "signedIn" THEN result ELSE "cancelled"
       ELSE UNCHANGED <<login, result>>
    /\ settled' = (settled \/ (login = "waiting" /\ evaluate(p) = "quit"))
    /\ UNCHANGED saved

(* Answer request r, which carries the parameters p.                         *)
finish(r, p) ==
    /\ request' = [request EXCEPT ![r] = [params |-> NoParams, answer |->
                     CASE evaluate(p) = "refused"  -> "400"
                       [] evaluate(p) = "quit"     -> "failedPath"
                       [] evaluate(p) = "signedIn" -> "successPath"]]
    /\ IF Accepted(p) THEN settle(p) ELSE UNCHANGED <<promise, loop>>

Unanswered(r) == server = "listening" /\ request[r].answer = "none"

Get(r, p) ==
    /\ Unanswered(r)
    /\ finish(r, p)
    /\ UNCHANGED <<server, input>>

(* A POST is answered once its body is read.                                 *)
Post(r, p) ==
    /\ Unanswered(r)
    /\ request' = [request EXCEPT ![r] = [answer |-> "reading", params |-> p]]
    /\ UNCHANGED <<promise, loop, server, input>>

BodyEnd(r) ==
    /\ request[r].answer = "reading"
    /\ finish(r, request[r].params)
    /\ UNCHANGED <<server, input>>

BodyTooLarge(r) ==
    /\ request[r].answer = "reading"
    /\ request' = [request EXCEPT ![r] = [answer |-> "destroyed", params |-> NoParams]]
    /\ UNCHANGED <<promise, loop, server, input>>

(* Another Host header or path.                                              *)
Stray(r) ==
    /\ Unanswered(r)
    /\ request' = [request EXCEPT ![r].answer = "400"]
    /\ UNCHANGED <<promise, loop, server, input>>

(* One pasted line: a callback of this sign-in stops the reader, any other   *)
(* line is reported and the next one read.                                   *)
Paste(p) ==
    /\ reader = "reading" /\ lines < MaxLines
    /\ lines' = lines + 1
    /\ \/ settled /\ reader' = "off" /\ UNCHANGED <<promise, loop>>
       \/ ~settled /\ Accepted(p) /\ reader' = "off" /\ settle(p)
       \/ ~settled /\ ~Accepted(p) /\ UNCHANGED <<reader, promise, loop>>
    /\ UNCHANGED <<server, request>>

BlankLine ==
    /\ reader = "reading" /\ lines < MaxLines
    /\ lines' = lines + 1
    /\ reader' = IF settled THEN "off" ELSE reader
    /\ UNCHANGED <<promise, loop, server, request>>

StdinEnds ==
    /\ reader = "reading"
    /\ reader' = "off"
    /\ UNCHANGED <<lines, promise, loop, server, request>>

(* Mutant: the timeout is reported but the wait goes on.                     *)
Timeout_KeepsWaiting ==
    /\ login = "waiting" /\ result = "none"
    /\ result' = "timeout"
    /\ UNCHANGED <<login, settled, saved, promise, server, request, input>>

Timeout ==
    /\ login = "waiting"
    /\ login' = "stopping" /\ result' = "timeout" /\ settled' = TRUE
    /\ UNCHANGED <<saved, promise, server, request, input>>

(* Log in with the callback: exchangeTempToken and userFromJwt each succeed  *)
(* or throw; so does an unknown siteId.                                      *)
Proceed(from, to) ==
    /\ login = from
    /\ \/ login' = to /\ UNCHANGED <<result, settled>>
       \/ login' = "stopping" /\ result' = "failed" /\ settled' = TRUE
    /\ UNCHANGED <<saved, promise, server, request, input>>

Exchange == Proceed("exchange", "validate")

(* Mutant: the session is saved before it is known to be usable.             *)
Validate_Saves ==
    /\ login = "validate"
    /\ saved' = promise
    /\ \/ login' = "save" /\ UNCHANGED <<result, settled>>
       \/ login' = "stopping" /\ result' = "failed" /\ settled' = TRUE
    /\ UNCHANGED <<promise, server, request, input>>

Validate == Proceed("validate", "save")

Save ==
    /\ login = "save"
    /\ saved' = promise
    /\ login' = "stopping" /\ result' = "user" /\ settled' = TRUE
    /\ UNCHANGED <<promise, server, request, input>>

(* Mutant: stop does not close the connections that are open.                *)
Stop_KeepsConnections ==
    /\ login = "stopping"
    /\ server' = "closed" /\ login' = "done"
    /\ UNCHANGED <<result, settled, saved, promise, input, request>>

(* server.stop: open connections are closed, and the port is free.           *)
Stop ==
    /\ login = "stopping"
    /\ server' = "closed" /\ login' = "done"
    /\ request' = [r \in Requests |-> IF request[r].answer = "reading"
                                      THEN [answer |-> "destroyed", params |-> NoParams]
                                      ELSE request[r]]
    /\ UNCHANGED <<result, settled, saved, promise, input>>

Input ==
    \/ \E r \in Requests, p \in Params : Get(r, p) \/ Post(r, p)
    \/ \E r \in Requests : BodyEnd(r) \/ BodyTooLarge(r) \/ Stray(r)
    \/ \E p \in Params : Paste(p)
    \/ BlankLine \/ StdinEnds

Progress == Timeout \/ Exchange \/ Validate \/ Save \/ Stop

Next == Start \/ Input \/ Progress

Spec == Init /\ [][Next]_vars

(* Timers fire, HTTP requests have a timeout of their own, and the event     *)
(* loop runs; the browser and the user owe nothing.                          *)
FairSpec == Spec /\ WF_vars(Progress)

------------------------------------------------------------------------------
(* The state has its types.                                                  *)
TypeOK ==
    /\ login \in {"idle", "waiting", "exchange", "validate", "save", "stopping", "done"}
    /\ result \in {"none", "user", "cancelled", "timeout", "failed"}
    /\ promise \in Params /\ saved \in Params
    /\ settled \in BOOLEAN
    /\ reader \in {"off", "reading"} /\ lines \in 0..MaxLines
    /\ server \in {"closed", "listening"}
    /\ request \in [Requests -> [answer: Answers, params: Params]]

(* A sign-in that was cancelled, timed out or failed saves no session,       *)
(* however late its callback arrives; one that succeeded has saved the       *)
(* session of the callback that settled it, and no other.                    *)
OutcomeMatchesStore ==
    /\ result \in {"cancelled", "timeout", "failed"} => saved = NoParams
    /\ result = "user" => saved = promise /\ evaluate(saved) = "signedIn"

(* Whichever callback arrives first wins: nothing that comes later, by the   *)
(* other way or while the token is exchanged, changes the outcome.           *)
FirstCallbackWins == [][Accepted(promise) => UNCHANGED promise]_vars

(* Once login has returned or thrown, its port is free, no connection keeps  *)
(* the process alive, and pasted lines are read no further.                  *)
NothingLeftBehind ==
    login = "done" =>
        /\ server = "closed"
        /\ \A r \in Requests : request[r].answer # "reading"

(* login returns or throws, whatever the browser does.                       *)
LoginEnds == login = "waiting" ~> login = "done"

==============================================================================
