------------------------------ MODULE McpServer ------------------------------
(***************************************************************************)
(* `oniro-app serve mcp`: JSON-RPC lines on stdin, answers on stdout       *)
(* (mcp/protocol.ts, commands/serve.ts).  A line holds one message or a    *)
(* batch.  Lines are handled as they arrive: everything up to a tool's     *)
(* first wait happens at once, tools run side by side, a line is answered  *)
(* when its last message is done.  The server ends when stdin has closed,  *)
(* no answer is owed, and what it wrote has left; or when stdout breaks.   *)
(***************************************************************************)
EXTENDS Integers, Sequences, FiniteSetsExt

CONSTANTS
    Tools,          \* the tools that --tools names
    ChangesDevice,  \* those that install, launch or drive the UI
    Lines,          \* bound: the lines that the client may send
    MaxLines        \* bound: how many it sends

ASSUME McpAssumption == ChangesDevice \subseteq Tools /\ MaxLines \in Nat

(* A message, by what decides its fate: `arg` is the version asked for or    *)
(* the tool named, `valid` says whether its id, params or arguments are.     *)
Methods == {"initialize", "ping", "tools/list", "tools/call", "unknown", "notification", "response", "malformed"}
Line == [json: BOOLEAN, batch: Seq([method: Methods, arg: STRING, valid: BOOLEAN])]

ASSUME LinesAssumption == \A l \in Lines : l \in Line /\ (~l.json => l.batch = <<>>)

VARIABLES
    readOnly,   \* --read-only
    sent,       \* the lines that the client has sent
    stdin,      \* "open" or "closed"
    client,     \* "up" or "gone": whether somebody reads stdout
    version,    \* protocolVersion
    replies,    \* per line read, the reply to each of its messages so far
    written,    \* the lines answered, in the order of the answers
    flushed,    \* how many of these answers have left the process
    pc          \* serveStdio: "reading", "draining", "flushing", "exited"

vars == <<readOnly, sent, stdin, client, version, replies, written, flushed, pc>>

Read == 1..Len(replies)
Running(i) == {k \in DOMAIN replies[i] : replies[i][k] = "running"}

selectTools == IF readOnly THEN Tools \ ChangesDevice ELSE Tools

Init ==
    /\ readOnly \in BOOLEAN
    /\ sent = <<>> /\ stdin = "open" /\ client = "up"
    /\ version = "none" /\ replies = <<>> /\ written = <<>> /\ flushed = 0 /\ pc = "reading"

------------------------------------------------------------------------------
(* Handling a line                                                           *)

(* Mutant: the version asked for is agreed to, whatever it is.               *)
negotiated_Echo(asked) == asked

(* "old" and "new" stand for the versions before and from 2025-06-18 on; one *)
(* that the server does not speak gets the newest.                           *)
negotiated(asked) == IF asked \in {"old", "new"} THEN asked ELSE "new"

(* Mutant: an initialize counts from the next line on.                       *)
VersionAt_NextLine(batch, k) == version

(* The version agreed when the k-th message of the batch is dispatched.      *)
VersionAt(batch, k) ==
    LET inits == {j \in 1..k : batch[j].method = "initialize" /\ batch[j].valid}
    IN  IF inits = {} THEN version
        ELSE negotiated(batch[Max(inits)].arg)

(* handleOne and dispatch.  An argument of the wrong type is a tool's error, *)
(* and the tool does not run.                                                *)
replyTo(m, v) ==
    IF m.method \in {"notification", "response"} THEN "silent"
    ELSE IF m.method = "malformed" THEN "error"
    ELSE IF m.method \in {"initialize", "ping"} /\ m.valid THEN "ok"
    ELSE IF m.method # "tools/call" /\ ~m.valid THEN "error"
    ELSE IF v = "none" THEN "tooEarly"
    ELSE IF m.method = "unknown" THEN "error"
    ELSE IF m.method = "tools/list" THEN "ok"
    ELSE IF m.arg \notin selectTools THEN "error"
    ELSE IF ~m.valid THEN "plain" ELSE "running"

(* An empty batch, like a line that is no JSON, is answered with an error.   *)
Replies(line) ==
    IF line.batch = <<>> THEN <<"error">>
    ELSE [k \in DOMAIN line.batch |-> replyTo(line.batch[k], VersionAt(line.batch, k))]

ReadLine ==
    /\ pc = "reading" /\ Len(replies) < Len(sent)
    /\ LET line == sent[Len(replies) + 1]
       IN  /\ replies' = Append(replies, Replies(line))
           /\ version' = VersionAt(line.batch, Len(line.batch))
           /\ written' = IF line.json THEN written ELSE Append(written, Len(replies) + 1)
    /\ UNCHANGED <<readOnly, sent, stdin, client, flushed, pc>>

(* Mutant: every result keeps its structured content.                        *)
shape_Keep(result) == result

(* Clients before 2025-06-18 know no structured content.                     *)
shape(result) == IF result = "structured" /\ version = "old" THEN "plain" ELSE result

(* A tool ends: with a result, or with an error that becomes one.            *)
ToolEnds ==
    /\ pc # "exited"
    /\ \E i \in Read : \E k \in Running(i), result \in {"structured", "plain"} :
         replies' = [replies EXCEPT ![i][k] = shape(result)]
    /\ UNCHANGED <<readOnly, sent, stdin, client, version, written, flushed, pc>>

Answered(i) == \E n \in 1..Len(written) : written[n] = i
Owed(i) == \E k \in DOMAIN replies[i] : replies[i][k] # "silent"

(* Mutant: a line is answered as soon as one of its messages is.             *)
Complete_First(i) == Owed(i) /\ \E k \in DOMAIN replies[i] : replies[i][k] \notin {"running", "silent"}

(* Promise.all over the batch, without the notifications.                    *)
Complete(i) == Owed(i) /\ Running(i) = {}

(* Mutant: answers keep the order of the lines.                              *)
AnswerLine_InOrder(i) ==
    /\ pc # "exited" /\ Complete(i) /\ ~Answered(i)
    /\ \A j \in 1..i - 1 : Owed(j) => Answered(j)
    /\ written' = Append(written, i)
    /\ UNCHANGED <<readOnly, sent, stdin, client, version, replies, flushed, pc>>

AnswerLine(i) ==
    /\ pc # "exited" /\ Complete(i) /\ ~Answered(i)
    /\ written' = Append(written, i)
    /\ UNCHANGED <<readOnly, sent, stdin, client, version, replies, flushed, pc>>

Answer == \E i \in Read : AnswerLine(i)

------------------------------------------------------------------------------
(* The end of serveStdio and of the process                                  *)
CloseRead ==
    /\ pc = "reading" /\ stdin = "closed" /\ Len(replies) = Len(sent)
    /\ pc' = "draining"
    /\ UNCHANGED <<readOnly, sent, stdin, client, version, replies, written, flushed>>

(* Mutant: notifications are waited for as if they were answered.            *)
Drained_AnswersAll == \A i \in Read : Running(i) = {} /\ Answered(i)

(* await Promise.all(pending).                                               *)
Drained == \A i \in Read : Running(i) = {} /\ (Owed(i) => Answered(i))

Drain ==
    /\ pc = "draining" /\ Drained /\ pc' = "flushing"
    /\ UNCHANGED <<readOnly, sent, stdin, client, version, replies, written, flushed>>

(* Mutant: the process exits without waiting for its last write.             *)
Exit_AtOnce ==
    /\ pc = "flushing" /\ pc' = "exited"
    /\ UNCHANGED <<readOnly, sent, stdin, client, version, replies, written, flushed>>

(* The callback of an empty write runs after all that was written before.    *)
Exit ==
    /\ pc = "flushing" /\ flushed = Len(written) /\ pc' = "exited"
    /\ UNCHANGED <<readOnly, sent, stdin, client, version, replies, written, flushed>>

(* stdout emits an error: the client went away.                              *)
BrokenPipe ==
    /\ pc # "exited" /\ client = "gone" /\ flushed < Len(written) /\ pc' = "exited"
    /\ UNCHANGED <<readOnly, sent, stdin, client, version, replies, written, flushed>>

------------------------------------------------------------------------------
(* The client and the pipe                                                   *)
Send ==
    /\ stdin = "open" /\ pc # "exited" /\ Len(sent) < MaxLines
    /\ \E l \in Lines : sent' = Append(sent, l)
    /\ UNCHANGED <<readOnly, stdin, client, version, replies, written, flushed, pc>>

CloseStdin ==
    /\ stdin = "open" /\ stdin' = "closed"
    /\ client' \in {client, "gone"}
    /\ UNCHANGED <<readOnly, sent, version, replies, written, flushed, pc>>

Flush ==
    /\ client = "up" /\ pc # "exited" /\ flushed < Len(written)
    /\ flushed' = flushed + 1
    /\ UNCHANGED <<readOnly, sent, stdin, client, version, replies, written, pc>>

Server == ReadLine \/ Answer \/ CloseRead \/ Drain \/ Exit \/ BrokenPipe

Next == Server \/ ToolEnds \/ Send \/ CloseStdin \/ Flush

Spec == Init /\ [][Next]_vars

(* The event loop runs what is ready, and a client that is there reads its   *)
(* pipe.  A tool may take for ever.                                          *)
FairSpec ==
    /\ Spec
    /\ WF_vars(ReadLine) /\ WF_vars(CloseRead) /\ WF_vars(Drain) /\ WF_vars(Exit) /\ WF_vars(BrokenPipe)
    /\ \A i \in 1..MaxLines : WF_vars(i \in Read /\ AnswerLine(i))
    /\ WF_vars(Flush)

------------------------------------------------------------------------------
(* Properties                                                                *)

(* The state has its types: what is read was sent, and what has left the     *)
(* process was written.                                                      *)
TypeOK ==
    /\ readOnly \in BOOLEAN
    /\ Len(sent) <= MaxLines /\ \A i \in 1..Len(sent) : sent[i] \in Lines
    /\ stdin \in {"open", "closed"} /\ client \in {"up", "gone"}
    /\ version \in {"none", "old", "new"}
    /\ Len(replies) <= Len(sent)
    /\ \A i \in Read : \A k \in DOMAIN replies[i] :
         replies[i][k] \in {"silent", "ok", "error", "tooEarly", "running", "plain", "structured"}
    /\ flushed \in 0..Len(written)
    /\ pc \in {"reading", "draining", "flushing", "exited"}

(* An answer says all that its line is owed, and a line has one at most;     *)
(* what has been answered does not change any more.                          *)
AnswersAreComplete ==
    /\ \A m, n \in 1..Len(written) : m # n => written[m] # written[n]
    /\ \A n \in 1..Len(written) : written[n] \in Read /\ Owed(written[n]) /\ Running(written[n]) = {}

(* A request is turned down as too early exactly when no initialize stands   *)
(* before it, in an earlier line or in its own batch; so no tool runs before *)
(* the versions are agreed.                                                  *)
InitializeComesFirst ==
    \A i \in Read : \A k \in DOMAIN sent[i].batch :
      LET m == sent[i].batch[k]
          initialized == \E j \in 1..i : \E l \in DOMAIN sent[j].batch :
                           /\ j < i \/ l < k
                           /\ sent[j].batch[l].method = "initialize" /\ sent[j].batch[l].valid
      IN  m.method = "tools/call" => (replies[i][k] = "tooEarly" <=> ~initialized)

(* A client that has agreed on one version, older than 2025-06-18, is never  *)
(* sent structured content.                                                  *)
OldClientsGetNoStructure ==
    (\A i \in 1..Len(sent) : \A k \in DOMAIN sent[i].batch :
        sent[i].batch[k].method = "initialize" => negotiated(sent[i].batch[k].arg) = "old")
    => \A i \in Read : \A k \in DOMAIN replies[i] : replies[i][k] # "structured"

(* What is answered fits what the client has said before.                    *)
AnswersFitTheClient == InitializeComesFirst /\ OldClientsGetNoStructure

(* A server that exits while its client still reads has read every line that *)
(* was sent and delivered every answer.                                      *)
ExitsWithNothingOwed ==
    pc = "exited" /\ client = "up" =>
        /\ Len(replies) = Len(sent)
        /\ flushed = Len(written)
        /\ \A i \in Read : Owed(i) => Answered(i)

Delivered(i) == \E n \in 1..flushed : written[n] = i
Silent(line) == line.batch # <<>> /\ \A k \in DOMAIN line.batch : line.batch[k].method \in {"notification", "response"}

(* Requests are answered while others run: a line waits for its own tools    *)
(* only, however long another line's take.                                   *)
NobodyWaitsForOthers ==
    \A i \in 1..MaxLines :
      (i <= Len(sent) /\ ~Silent(sent[i]))
        ~> \/ i \in Read /\ Delivered(i)
           \/ i \in Read /\ Running(i) # {}
           \/ client = "gone"

(* Once stdin is closed the server ends, unless a tool never does.           *)
ShutdownEnds ==
    stdin = "closed" ~> (pc = "exited" \/ (\E i \in Read : Running(i) # {}))

(* So only a tool of a client's own can keep it waiting, while it is         *)
(* connected and after it has left.                                          *)
OnlyOwnToolsDelay == NobodyWaitsForOthers /\ ShutdownEnds
==============================================================================
