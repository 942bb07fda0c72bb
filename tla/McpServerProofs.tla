---------------------------- MODULE McpServerProofs ----------------------------
(***************************************************************************)
(* Proofs about McpServer, for any tools, any lines and any number of      *)
(* them: answers are complete and fit what the client has said, and the    *)
(* server exits owing nothing to a client that is still there.             *)
(***************************************************************************)
EXTENDS McpServer, WellFoundedInduction, SequenceTheorems, TLAPS

Replied == {"silent", "ok", "error", "tooEarly", "running", "plain", "structured"}

ServerTyped ==
    /\ readOnly \in BOOLEAN
    /\ sent \in Seq(Lines) /\ Len(sent) <= MaxLines
    /\ stdin \in {"open", "closed"} /\ client \in {"up", "gone"}
    /\ version \in {"none", "old", "new"}
    /\ replies \in Seq(Seq(Replied)) /\ Len(replies) <= Len(sent)
    /\ written \in Seq(Nat) /\ flushed \in 0..Len(written)
    /\ pc \in {"reading", "draining", "flushing", "exited"}

(* A line is answered once, with all that it is owed; it has a reply for     *)
(* each of its messages.                                                     *)
RepliesFit == \A i \in Read : sent[i].batch # <<>> => DOMAIN replies[i] = DOMAIN sent[i].batch

(* The valid initialize that count when the k-th message of line i is read.  *)
Initializes(m) == m.method = "initialize" /\ m.valid
InitializedBefore(i, k) ==
    \E j \in 1..i : \E l \in DOMAIN sent[j].batch : (j < i \/ l < k) /\ Initializes(sent[j].batch[l])

(* A version is agreed exactly when a valid initialize has been read, and no *)
(* tool runs before that.                                                    *)
VersionInv ==
    /\ version = "none" <=> ~ \E j \in Read : \E l \in DOMAIN sent[j].batch : Initializes(sent[j].batch[l])
    /\ version = "none" => \A i \in Read : Running(i) = {}

(* A client that only ever agrees on an old version gets nothing structured. *)
OnlyOld == \A i \in 1..Len(sent) : \A k \in DOMAIN sent[i].batch :
               sent[i].batch[k].method = "initialize" => negotiated(sent[i].batch[k].arg) = "old"
Unstructured == \A i \in Read : \A k \in DOMAIN replies[i] : replies[i][k] # "structured"
OldInv == OnlyOld => version \in {"none", "old"} /\ Unstructured

(* What holds on the way to the end.                                         *)
EndingInv ==
    /\ pc \in {"draining", "flushing"} => stdin = "closed" /\ Len(replies) = Len(sent)
    /\ pc = "flushing" => \A i \in Read : Owed(i) => Answered(i)

McpInv ==
    /\ ServerTyped /\ RepliesFit /\ AnswersAreComplete /\ VersionInv /\ InitializeComesFirst
    /\ OldInv /\ EndingInv /\ ExitsWithNothingOwed

------------------------------------------------------------------------------
(* The order of the natural numbers, as a set of pairs, is well-founded; so  *)
(* a set of positions that is not empty has a last one.                      *)
Less == {p \in Nat \X Nat : p[1] < p[2]}

LEMMA LessIsWellFounded == IsWellFoundedOn(Less, Nat)
    BY NatLessThanWellFounded DEF OpToRel, Less

LEMMA MaxIsMember ==
    ASSUME NEW n \in Nat, NEW S \in SUBSET (1..n), S # {}
    PROVE  Max(S) \in S
<1> DEFINE T == {n - x : x \in S}
<1>1. T \subseteq Nat /\ T # {}
    <2>1. \A x \in S : x \in Int /\ x <= n /\ n - x \in Nat
        OBVIOUS
    <2> QED BY <2>1
<1>2. PICK m \in T : \A y \in T : ~(<<y, m>> \in Less)
    <2> HIDE DEF T
    <2> QED BY <1>1, LessIsWellFounded, WFMin
<1>3. PICK x \in S : m = n - x
    OBVIOUS
<1>4. \A y \in S : x >= y
    <2> SUFFICES ASSUME NEW y \in S PROVE x >= y
        OBVIOUS
    <2>1. n - y \in T /\ n - y \in Nat /\ m \in Nat
        BY <1>1
    <2>2. ~(n - y < m)
        BY <2>1, <1>2 DEF Less
    <2> QED BY <2>2, <1>3
<1> QED BY <1>4 DEF Max

(* A line that is read: its messages, and what each of them gets.            *)
LEMMA LineTyped ==
    ASSUME NEW line \in Lines
    PROVE  /\ line.json \in BOOLEAN
           /\ line.batch \in Seq([method: Methods, arg: STRING, valid: BOOLEAN])
           /\ ~line.json => line.batch = <<>>
    BY LinesAssumption DEF Line

LEMMA NegotiatedVersion ==
    ASSUME NEW asked PROVE negotiated(asked) \in {"old", "new"}
    BY DEF negotiated

LEMMA VersionAtIs ==
    ASSUME ServerTyped, NEW line \in Lines, NEW k \in 0..Len(line.batch)
    PROVE  /\ VersionAt(line.batch, k) \in {"none", "old", "new"}
           /\ VersionAt(line.batch, k) = "none" <=>
                 version = "none" /\ ~ \E l \in 1..k : Initializes(line.batch[l])
           /\ \/ VersionAt(line.batch, k) = version
              \/ \E l \in 1..k : /\ line.batch[l].method = "initialize"
                                 /\ VersionAt(line.batch, k) = negotiated(line.batch[l].arg)
<1> DEFINE inits == {j \in 1..k : line.batch[j].method = "initialize" /\ line.batch[j].valid}
<1>1. k \in Nat
    BY LineTyped
<1>2. CASE inits = {}
    BY <1>2 DEF VersionAt, Initializes, ServerTyped
<1>3. CASE inits # {}
    <2>1. Max(inits) \in inits
        BY <1>1, <1>3, MaxIsMember
    <2>2. VersionAt(line.batch, k) = negotiated(line.batch[Max(inits)].arg)
        BY <1>3 DEF VersionAt
    <2> HIDE DEF inits
    <2>3. PICK l \in inits : VersionAt(line.batch, k) = negotiated(line.batch[l].arg)
        BY <2>1, <2>2
    <2> USE DEF inits
    <2> QED BY <2>3, NegotiatedVersion DEF Initializes
<1> QED BY <1>2, <1>3

LEMMA ReplyIs ==
    ASSUME NEW line \in Lines, NEW k \in DOMAIN line.batch, NEW v \in {"none", "old", "new"}
    PROVE  /\ replyTo(line.batch[k], v) \in Replied \ {"structured"}
           /\ line.batch[k].method = "tools/call" =>
                 (replyTo(line.batch[k], v) = "tooEarly" <=> v = "none")
           /\ v = "none" => replyTo(line.batch[k], v) # "running"
<1>1. line.batch[k] \in [method: Methods, arg: STRING, valid: BOOLEAN]
    <2>1. line.batch \in Seq([method: Methods, arg: STRING, valid: BOOLEAN])
        BY LineTyped
    <2> QED BY <2>1, LenProperties
<1>2. PICK m : m = line.batch[k]
    OBVIOUS
<1>3. m.method \in Methods /\ m.valid \in BOOLEAN
    BY <1>1, <1>2
<1>4. /\ replyTo(m, v) \in Replied \ {"structured"}
      /\ m.method = "tools/call" => (replyTo(m, v) = "tooEarly" <=> v = "none")
      /\ v = "none" => replyTo(m, v) # "running"
    BY <1>3 DEF replyTo, Replied, Methods
<1> QED BY <1>2, <1>4
LEMMA RepliesAre ==
    ASSUME ServerTyped, NEW line \in Lines
    PROVE  /\ Replies(line) \in Seq(Replied)
           /\ \A k \in DOMAIN Replies(line) : Replies(line)[k] # "structured"
           /\ line.batch = <<>> => Replies(line) = <<"error">>
           /\ line.batch # <<>> =>
                 /\ DOMAIN Replies(line) = DOMAIN line.batch
                 /\ \A k \in DOMAIN line.batch :
                       Replies(line)[k] = replyTo(line.batch[k], VersionAt(line.batch, k))
<1>1. CASE line.batch = <<>>
    BY <1>1 DEF Replies, Replied
<1>2. CASE line.batch # <<>>
    <2>1. Replies(line) = [k \in DOMAIN line.batch |-> replyTo(line.batch[k], VersionAt(line.batch, k))]
        BY <1>2 DEF Replies
    <2>2. Len(line.batch) \in Nat /\ DOMAIN line.batch = 1..Len(line.batch)
        BY LineTyped, LenProperties
    <2>3. ASSUME NEW k \in DOMAIN line.batch
          PROVE  replyTo(line.batch[k], VersionAt(line.batch, k)) \in Replied \ {"structured"}
        <3>1. k \in 0..Len(line.batch)
            BY <2>2
        <3>2. VersionAt(line.batch, k) \in {"none", "old", "new"}
            BY <3>1, VersionAtIs
        <3> QED BY <3>2, ReplyIs
    <2>4. Replies(line) \in [1..Len(line.batch) -> Replied]
        BY <2>1, <2>2, <2>3
    <2>5. Replies(line) \in Seq(Replied)
        BY <2>2, <2>4, SeqDef
    <2> QED BY <1>2, <2>1, <2>3, <2>5
<1> QED BY <1>1, <1>2

------------------------------------------------------------------------------
(* The server starts with nothing read.                                      *)
LEMMA McpInit == Init => McpInv
<1> SUFFICES ASSUME Init PROVE McpInv
    OBVIOUS
<1>1. ServerTyped
    BY McpAssumption, EmptySeq DEF Init, ServerTyped
<1>2. Read = {} /\ Len(written) = 0
    BY DEF Init, Read
<1> QED
    BY <1>1, <1>2 DEF Init, McpInv, RepliesFit, AnswersAreComplete, VersionInv, InitializeComesFirst,
       OldInv, Unstructured, EndingInv, ExitsWithNothingOwed

(* Reading a line, and a tool's end: what becomes of the replies.            *)
LEMMA LineIsRead ==
    ASSUME McpInv, ReadLine
    PROVE  LET n == Len(replies) + 1
           IN  /\ n \in 1..Len(sent) /\ sent[n] \in Lines
               /\ Len(replies') = n /\ Read' = Read \cup {n} /\ n \notin Read
               /\ replies' \in Seq(Seq(Replied))
               /\ \A i \in Read : replies'[i] = replies[i]
               /\ replies'[n] = Replies(sent[n])
<1> DEFINE n == Len(replies) + 1
<1>1. sent \in Seq(Lines) /\ replies \in Seq(Seq(Replied)) /\ Len(replies) < Len(sent)
    BY DEF McpInv, ServerTyped, ReadLine
<1>2. n \in 1..Len(sent) /\ Len(replies) \in Nat /\ Len(sent) \in Nat
    BY <1>1, LenProperties
<1>3. sent[n] \in Lines
    <2> HIDE DEF n
    <2> QED BY <1>1, <1>2, ElementOfSeq
<1>4. Replies(sent[n]) \in Seq(Replied)
    BY <1>3, RepliesAre DEF McpInv
<1>5. replies' = Append(replies, Replies(sent[n]))
    BY DEF ReadLine
<1>6. /\ replies' \in Seq(Seq(Replied)) /\ Len(replies') = n
      /\ \A i \in 1..Len(replies) : replies'[i] = replies[i]
      /\ replies'[n] = Replies(sent[n])
    BY <1>1, <1>4, <1>5, AppendProperties
<1>7. 1..n = (1..Len(replies)) \cup {n} /\ n \notin 1..Len(replies)
    BY <1>2
<1> QED BY <1>2, <1>3, <1>6, <1>7 DEF Read

LEMMA ToolIsDone ==
    ASSUME McpInv, ToolEnds
    PROVE  /\ replies' \in Seq(Seq(Replied)) /\ Len(replies') = Len(replies) /\ Read' = Read
           /\ \A j \in Read :
                /\ DOMAIN replies'[j] = DOMAIN replies[j]
                /\ \A k \in DOMAIN replies[j] :
                     \/ replies'[j][k] = replies[j][k]
                     \/ /\ replies[j][k] = "running" /\ version # "none"
                        /\ replies'[j][k] \in {"structured", "plain"}
                        /\ version = "old" => replies'[j][k] = "plain"
<1>0. PICK i \in Read : \E k \in Running(i), result \in {"structured", "plain"} :
         replies' = [replies EXCEPT ![i][k] = shape(result)]
    BY DEF ToolEnds
<1>1. PICK k \in Running(i), result \in {"structured", "plain"} :
         replies' = [replies EXCEPT ![i][k] = shape(result)]
    BY <1>0
<1>2. replies \in Seq(Seq(Replied))
    BY DEF McpInv, ServerTyped
<1>3. replies[i] \in Seq(Replied) /\ k \in DOMAIN replies[i] /\ replies[i][k] = "running"
    BY <1>1, <1>2, ElementOfSeq DEF Read, Running
<1>4. PICK r \in Seq(Replied) : r = replies[i]
    BY <1>3
<1>5. PICK s : s = shape(result)
    OBVIOUS
<1>6. s \in {"structured", "plain"} /\ (version = "old" => s = "plain")
    BY <1>1, <1>5 DEF shape
<1>7. version # "none"
    BY <1>1 DEF McpInv, VersionInv
<1>8. replies' = [replies EXCEPT ![i] = [r EXCEPT ![k] = s]]
    BY <1>1, <1>4, <1>5
<1>9. /\ [r EXCEPT ![k] = s] \in Seq(Replied) /\ DOMAIN [r EXCEPT ![k] = s] = DOMAIN r
      /\ \A l \in DOMAIN r : [r EXCEPT ![k] = s][l] = IF l = k THEN s ELSE r[l]
    <2>1. k \in 1..Len(r) /\ DOMAIN r = 1..Len(r) /\ s \in Replied
        BY <1>3, <1>4, <1>6, LenProperties DEF Replied
    <2>2. [r EXCEPT ![k] = s] \in Seq(Replied)
        BY <2>1, ExceptSeq
    <2> QED BY <2>2
<1>10. PICK q \in Seq(Replied) : q = [r EXCEPT ![k] = s]
    BY <1>9
<1>11. /\ replies' \in Seq(Seq(Replied)) /\ Len(replies') = Len(replies)
       /\ \A j \in Read : replies'[j] = IF j = i THEN q ELSE replies[j]
    <2>1. i \in 1..Len(replies) /\ replies' = [replies EXCEPT ![i] = q]
        BY <1>0, <1>8, <1>10 DEF Read
    <2> QED BY <1>2, <2>1, ExceptSeq DEF Read
<1> QED BY <1>1, <1>3, <1>4, <1>6, <1>7, <1>9, <1>10, <1>11 DEF Read
(* Every step keeps the types.                                               *)
LEMMA McpTyped ==
    ASSUME McpInv, [Next]_vars
    PROVE  ServerTyped'
<1> USE DEF McpInv, ServerTyped
<1>1. CASE ReadLine
    <2>1. PICK line : line = sent[Len(replies) + 1] /\ line \in Lines
        BY <1>1, LineIsRead
    <2>2. version' = VersionAt(line.batch, Len(line.batch))
        BY <1>1, <2>1 DEF ReadLine
    <2>3. version' \in {"none", "old", "new"}
        <3>1. Len(line.batch) \in 0..Len(line.batch)
            BY <2>1, LineTyped, LenProperties
        <3> QED BY <2>1, <2>2, <3>1, VersionAtIs
    <2>4. written' \in Seq(Nat) /\ Len(written') >= Len(written)
        <3>1. written' \in {written, Append(written, Len(replies) + 1)}
            BY <1>1 DEF ReadLine
        <3>2. Len(replies) + 1 \in Nat /\ Len(written) \in Nat
            BY LenProperties
        <3>3. /\ Append(written, Len(replies) + 1) \in Seq(Nat)
              /\ Len(Append(written, Len(replies) + 1)) = Len(written) + 1
            BY <3>2, AppendProperties
        <3>4. CASE written' = written
            BY <3>2, <3>4
        <3>5. CASE written' = Append(written, Len(replies) + 1)
            BY <3>2, <3>3, <3>5
        <3> QED BY <3>1, <3>4, <3>5
    <2>5. replies' \in Seq(Seq(Replied)) /\ Len(replies') <= Len(sent)
        BY <1>1, LineIsRead
    <2>6. flushed \in 0..Len(written')
        BY <2>4, LenProperties
    <2> QED BY <1>1, <2>3, <2>4, <2>5, <2>6 DEF ReadLine
<1>2. CASE ToolEnds
    BY <1>2, ToolIsDone DEF ToolEnds
<1>3. ASSUME NEW i \in Read, AnswerLine(i) PROVE ServerTyped'
    <2>1. i \in Nat
        BY LenProperties DEF Read
    <2>2. written' \in Seq(Nat) /\ flushed \in 0..Len(written')
        BY <1>3, <2>1, AppendProperties, LenProperties DEF AnswerLine
    <2> QED BY <1>3, <2>2 DEF AnswerLine
<1>4. CASE CloseRead \/ Drain \/ Exit \/ BrokenPipe
    BY <1>4 DEF CloseRead, Drain, Exit, BrokenPipe
<1>5. CASE Send
    <2>1. PICK l \in Lines : sent' = Append(sent, l)
        BY <1>5 DEF Send
    <2>2. sent' \in Seq(Lines) /\ Len(sent') = Len(sent) + 1
        BY <2>1, AppendProperties
    <2>3. Len(sent) \in Nat /\ Len(replies) \in Nat /\ MaxLines \in Nat
        BY LenProperties, McpAssumption
    <2>4. Len(sent') <= MaxLines /\ Len(replies) <= Len(sent')
        BY <1>5, <2>2, <2>3 DEF Send
    <2> QED BY <1>5, <2>2, <2>4 DEF Send
<1>6. CASE CloseStdin
    BY <1>6 DEF CloseStdin
<1>7. CASE Flush
    BY <1>7, LenProperties DEF Flush
<1>8. CASE UNCHANGED vars
    BY <1>8 DEF vars
<1> QED
    BY <1>1, <1>2, <1>3, <1>4, <1>5, <1>6, <1>7, <1>8 DEF Next, Server, Answer

(* A line that is read gets its replies, from the versions agreed before     *)
(* each of its messages.                                                     *)
LEMMA ReadKeeps ==
    ASSUME McpInv, ReadLine
    PROVE  McpInv'
<1>1. PICK n : n = Len(replies) + 1
    OBVIOUS
<1>2. PICK line \in Lines : line = sent[n]
    BY <1>1, LineIsRead
<1>3. /\ n \in 1..Len(sent) /\ Read' = Read \cup {n} /\ n \notin Read /\ Read = 1..n - 1 /\ n \in Nat
      /\ \A i \in Read : replies'[i] = replies[i]
      /\ replies'[n] = Replies(line) /\ Len(replies') = n
    <2>1. Len(replies) \in Nat
        BY LenProperties DEF McpInv, ServerTyped
    <2> QED BY <1>1, <1>2, <2>1, LineIsRead DEF Read
<1>4. /\ UNCHANGED <<readOnly, sent, stdin, client, flushed, pc>> /\ pc = "reading"
      /\ version' = VersionAt(line.batch, Len(line.batch))
      /\ written' = IF line.json THEN written ELSE Append(written, n)
    BY <1>1, <1>2 DEF ReadLine
<1>5. /\ \A k \in DOMAIN Replies(line) : Replies(line)[k] # "structured"
      /\ line.batch = <<>> => Replies(line) = <<"error">>
      /\ line.batch # <<>> =>
            /\ DOMAIN Replies(line) = DOMAIN line.batch
            /\ \A k \in DOMAIN line.batch : Replies(line)[k] = replyTo(line.batch[k], VersionAt(line.batch, k))
    BY <1>2, RepliesAre DEF McpInv
<1>6. ServerTyped'
    BY McpTyped DEF Next, Server
<1>7. Len(line.batch) \in Nat /\ DOMAIN line.batch = 1..Len(line.batch)
    BY <1>2, LineTyped, LenProperties
<1>8. \A k \in 0..Len(line.batch) :
         /\ VersionAt(line.batch, k) \in {"none", "old", "new"}
         /\ VersionAt(line.batch, k) = "none" <=>
               version = "none" /\ ~ \E l \in 1..k : Initializes(line.batch[l])
         /\ \/ VersionAt(line.batch, k) = version
            \/ \E l \in 1..k : /\ line.batch[l].method = "initialize"
                               /\ VersionAt(line.batch, k) = negotiated(line.batch[l].arg)
    BY <1>2, VersionAtIs DEF McpInv
<1>9. RepliesFit'
    BY <1>2, <1>3, <1>4, <1>5 DEF McpInv, RepliesFit
<1>10. AnswersAreComplete'
    <2>1. AnswersAreComplete /\ written \in Seq(Nat) /\ Len(written) \in Nat
        BY LenProperties DEF McpInv, ServerTyped
    <2>2. \A i \in Read : (Owed(i) <=> Owed(i)') /\ Running(i)' = Running(i)
        BY <1>3 DEF Owed, Running
    <2>3. CASE line.json
        BY <1>3, <1>4, <2>1, <2>2, <2>3 DEF AnswersAreComplete
    <2>4. CASE ~line.json
        <3>1. written' = Append(written, n) /\ line.batch = <<>>
            BY <1>2, <1>4, <2>4, LineTyped
        <3>2. Owed(n)' /\ Running(n)' = {}
            BY <1>3, <1>5, <3>1 DEF Owed, Running
        <3>3. /\ Len(written') = Len(written) + 1 /\ written'[Len(written) + 1] = n
              /\ \A m \in 1..Len(written) : written'[m] = written[m]
            BY <1>3, <2>1, <3>1, AppendProperties
        <3>4. \A m \in 1..Len(written) : \E i \in Read : i = written[m] /\ Owed(i)' /\ Running(i)' = {}
            BY <2>1, <2>2 DEF AnswersAreComplete
        <3>5. \A m \in 1..Len(written') : \E i \in Read' : i = written'[m] /\ Owed(i)' /\ Running(i)' = {}
            <4> SUFFICES ASSUME NEW m \in 1..Len(written')
                         PROVE  \E i \in Read' : i = written'[m] /\ Owed(i)' /\ Running(i)' = {}
                OBVIOUS
            <4>1. CASE m \in 1..Len(written)
                BY <1>3, <3>3, <3>4, <4>1
            <4>2. CASE m = Len(written) + 1
                BY <1>3, <3>2, <3>3, <4>2
            <4> QED BY <2>1, <3>3, <4>1, <4>2
        <3>6. \A m, p \in 1..Len(written') : m # p => written'[m] # written'[p]
            <4>1. \A m \in 1..Len(written) : written[m] # n
                BY <1>3, <2>1 DEF AnswersAreComplete
            <4>2. \A m, p \in 1..Len(written) : m # p => written[m] # written[p]
                BY <2>1 DEF AnswersAreComplete
            <4> QED BY <2>1, <3>3, <4>1, <4>2
        <3> QED BY <3>5, <3>6 DEF AnswersAreComplete, Owed, Running
    <2> QED BY <2>3, <2>4
<1>11. VersionInv'
    <2>1. Len(line.batch) \in 0..Len(line.batch)
        BY <1>7
    <2>2. version' = "none" <=> version = "none" /\ ~ \E l \in DOMAIN line.batch : Initializes(line.batch[l])
        BY <1>4, <1>7, <1>8, <2>1
    <2>3. (version = "none" <=> ~ \E j \in Read : \E l \in DOMAIN sent[j].batch : Initializes(sent[j].batch[l]))'
        BY <1>2, <1>3, <1>4, <2>2 DEF McpInv, VersionInv, Initializes
    <2>4. ASSUME version' = "none" PROVE \A i \in Read' : Running(i)' = {}
        <3>1. \A i \in Read : Running(i)' = {}
            BY <1>3, <2>2, <2>4 DEF McpInv, VersionInv, Running
        <3>2. \A k \in DOMAIN line.batch : VersionAt(line.batch, k) = "none"
            BY <1>7, <1>8, <2>2, <2>4
        <3>3. \A k \in DOMAIN Replies(line) : Replies(line)[k] # "running"
            BY <1>2, <1>5, <3>2, ReplyIs
        <3>4. Running(n)' = {}
            BY <1>3, <3>3 DEF Running
        <3> QED BY <1>3, <3>1, <3>4
    <2> QED BY <2>3, <2>4 DEF VersionInv
<1>12. InitializeComesFirst'
    <2> SUFFICES ASSUME NEW i \in Read', NEW k \in DOMAIN sent[i].batch, sent[i].batch[k].method = "tools/call"
                 PROVE  replies'[i][k] = "tooEarly" <=>
                          ~ \E j \in 1..i : \E l \in DOMAIN sent[j].batch :
                               /\ j < i \/ l < k
                               /\ sent[j].batch[l].method = "initialize" /\ sent[j].batch[l].valid
        BY <1>4 DEF InitializeComesFirst
    <2>1. CASE i \in Read
        BY <1>3, <2>1 DEF McpInv, InitializeComesFirst
    <2>2. CASE i = n
        <3>1. k \in 1..Len(line.batch) /\ line.batch # <<>>
            BY <1>2, <1>7, <2>2
        <3>2. replies'[i][k] = "tooEarly" <=> VersionAt(line.batch, k) = "none"
            <4>1. VersionAt(line.batch, k) \in {"none", "old", "new"}
                BY <1>7, <1>8, <3>1
            <4> QED BY <1>2, <1>3, <1>5, <1>7, <2>2, <3>1, <4>1, ReplyIs
        <3>3. VersionAt(line.batch, k) = "none" <=>
                 version = "none" /\ ~ \E l \in 1..k : Initializes(line.batch[l])
            BY <1>7, <1>8, <3>1
        <3>4. ~Initializes(line.batch[k])
            BY <1>2, <2>2 DEF Initializes
        <3>5. (\E l \in 1..k : Initializes(line.batch[l])) <=>
                 \E l \in DOMAIN line.batch : l < k /\ Initializes(line.batch[l])
            BY <1>7, <3>1, <3>4
        <3>6. version = "none" <=> ~ \E j \in 1..n - 1 : \E l \in DOMAIN sent[j].batch : Initializes(sent[j].batch[l])
            BY <1>3 DEF McpInv, VersionInv
        <3>7. (\E j \in 1..n : \E l \in DOMAIN sent[j].batch : (j < n \/ l < k) /\ Initializes(sent[j].batch[l]))
              <=> \/ \E j \in 1..n - 1 : \E l \in DOMAIN sent[j].batch : Initializes(sent[j].batch[l])
                  \/ \E l \in DOMAIN line.batch : l < k /\ Initializes(line.batch[l])
            <4>1. 1..n = (1..n - 1) \cup {n} /\ \A j \in 1..n - 1 : j < n
                BY <1>3
            <4>2. ~(n < n)
                BY <1>3
            <4> QED BY <1>2, <4>1, <4>2 DEF Initializes
        <3> QED BY <2>2, <3>2, <3>3, <3>5, <3>6, <3>7 DEF Initializes
    <2> QED BY <1>3, <2>1, <2>2
<1>13. OldInv'
    <2> SUFFICES ASSUME OnlyOld' PROVE version' \in {"none", "old"} /\ Unstructured'
        BY DEF OldInv
    <2>1. OnlyOld
        BY <1>4 DEF OnlyOld
    <2>2. version \in {"none", "old"} /\ Unstructured
        BY <2>1 DEF McpInv, OldInv
    <2>3. \A k \in DOMAIN line.batch : line.batch[k].method = "initialize" => negotiated(line.batch[k].arg) = "old"
        BY <1>2, <1>3, <2>1 DEF OnlyOld
    <2>4. version' \in {"none", "old"}
        BY <1>4, <1>7, <1>8, <2>2, <2>3
    <2>5. Unstructured'
        BY <1>3, <1>5, <2>2 DEF Unstructured
    <2> QED BY <2>4, <2>5
<1>14. EndingInv' /\ ExitsWithNothingOwed'
    BY <1>4 DEF EndingInv, ExitsWithNothingOwed
<1> QED BY <1>6, <1>9, <1>10, <1>11, <1>12, <1>13, <1>14 DEF McpInv
(* A tool that ends changes a reply that nobody has been sent yet.           *)
LEMMA ToolKeeps ==
    ASSUME McpInv, ToolEnds
    PROVE  McpInv'
<1>1. UNCHANGED <<readOnly, sent, stdin, client, version, written, flushed, pc>>
    BY DEF ToolEnds
<1>2. /\ Read' = Read /\ Len(replies') = Len(replies)
      /\ \A j \in Read :
           /\ DOMAIN replies'[j] = DOMAIN replies[j]
           /\ \A k \in DOMAIN replies[j] :
                \/ replies'[j][k] = replies[j][k]
                \/ /\ replies[j][k] = "running" /\ version # "none"
                   /\ replies'[j][k] \in {"structured", "plain"}
                   /\ version = "old" => replies'[j][k] = "plain"
    BY ToolIsDone
<1>3. \A j \in Read : (Owed(j)' <=> Owed(j)) /\ Running(j)' \subseteq Running(j)
    <2>1. ASSUME NEW j \in Read PROVE Owed(j)' <=> Owed(j)
        BY <1>2 DEF Owed
    <2>2. ASSUME NEW j \in Read PROVE Running(j)' \subseteq Running(j)
        BY <1>2 DEF Running
    <2> QED BY <2>1, <2>2
<1>4. ServerTyped'
    BY McpTyped DEF Next
<1>5. RepliesFit'
    BY <1>1, <1>2 DEF McpInv, RepliesFit
<1>6. AnswersAreComplete'
    <2>1. \A n \in 1..Len(written) : \E i \in Read : i = written[n] /\ Owed(i)' /\ Running(i)' = {}
        BY <1>3 DEF McpInv, AnswersAreComplete
    <2>2. \A n \in 1..Len(written) : written[n] \in Read' /\ (Owed(written[n]) /\ Running(written[n]) = {})'
        <3> SUFFICES ASSUME NEW n \in 1..Len(written)
                     PROVE  written[n] \in Read' /\ (Owed(written[n]) /\ Running(written[n]) = {})'
            OBVIOUS
        <3>1. PICK i \in Read : i = written[n] /\ Owed(i)' /\ Running(i)' = {}
            BY <2>1
        <3>2. i = written'[n] /\ i \in Read'
            BY <1>1, <1>2, <3>1
        <3>3. Owed(i)' = Owed(written[n])' /\ Running(i)' = Running(written[n])'
            BY <3>2 DEF Owed, Running
        <3> QED BY <3>1, <3>2, <3>3
    <2>3. \A m, n \in 1..Len(written) : m # n => written[m] # written[n]
        BY DEF McpInv, AnswersAreComplete
    <2> QED BY <1>1, <2>2, <2>3 DEF AnswersAreComplete
<1>7. VersionInv'
    <2>1. version = "none" => \A i \in Read : Running(i)' = {}
        BY <1>3 DEF McpInv, VersionInv
    <2> QED BY <1>1, <1>2, <2>1 DEF McpInv, VersionInv
<1>8. InitializeComesFirst'
    <2> SUFFICES ASSUME NEW i \in Read, NEW k \in DOMAIN sent[i].batch, sent[i].batch[k].method = "tools/call"
                 PROVE  replies'[i][k] = "tooEarly" <=> replies[i][k] = "tooEarly"
        BY <1>1, <1>2 DEF McpInv, InitializeComesFirst
    <2>1. k \in DOMAIN replies[i]
        <3>1. i \in 1..Len(sent)
            BY LenProperties DEF McpInv, ServerTyped, Read
        <3>2. sent[i] \in Lines
            BY <3>1, ElementOfSeq DEF McpInv, ServerTyped
        <3>3. PICK line \in Lines : line = sent[i]
            BY <3>2
        <3>4. line.batch # <<>>
            BY <3>3, LineTyped, LenProperties
        <3> QED BY <3>3, <3>4 DEF McpInv, RepliesFit
    <2> QED BY <1>2, <2>1
<1>9. OldInv'
    <2> SUFFICES ASSUME OnlyOld' PROVE version' \in {"none", "old"} /\ Unstructured'
        BY DEF OldInv
    <2>1. version \in {"none", "old"} /\ Unstructured
        BY <1>1 DEF McpInv, OldInv, OnlyOld
    <2> QED BY <1>1, <1>2, <2>1 DEF Unstructured
<1>10. EndingInv' /\ ExitsWithNothingOwed'
    <2>1. \A i \in Read : Answered(i)' <=> Answered(i)
        BY <1>1 DEF Answered
    <2>2. pc # "exited"
        BY DEF ToolEnds
    <2> QED BY <1>1, <1>2, <1>3, <2>1, <2>2 DEF McpInv, EndingInv, ExitsWithNothingOwed
<1> QED BY <1>4, <1>5, <1>6, <1>7, <1>8, <1>9, <1>10 DEF McpInv

(* An answer goes out once, when its line has nothing running.               *)
LEMMA AnswerKeeps ==
    ASSUME McpInv, NEW i \in Read, AnswerLine(i)
    PROVE  McpInv'
<1>1. /\ UNCHANGED <<readOnly, sent, stdin, client, version, replies, flushed, pc>> /\ pc # "exited"
      /\ Owed(i) /\ Running(i) = {} /\ ~Answered(i) /\ written' = Append(written, i)
    BY DEF AnswerLine, Complete
<1>2. ServerTyped'
    BY McpTyped DEF Next, Server, Answer
<1>3. /\ Len(written) \in Nat /\ Len(written') = Len(written) + 1 /\ written'[Len(written) + 1] = i
      /\ \A m \in 1..Len(written) : written'[m] = written[m]
    <2>1. i \in Nat /\ written \in Seq(Nat)
        BY LenProperties DEF McpInv, ServerTyped, Read
    <2> QED BY <1>1, <2>1, AppendProperties, LenProperties
<1>4. AnswersAreComplete'
    <2>1. \A m \in 1..Len(written) : written[m] # i
        BY <1>1 DEF Answered
    <2>2. \A m, p \in 1..Len(written') : m # p => written'[m] # written'[p]
        BY <1>3, <2>1 DEF McpInv, AnswersAreComplete
    <2>3. \A m \in 1..Len(written) : written[m] \in Read /\ Owed(written[m]) /\ Running(written[m]) = {}
        BY DEF McpInv, AnswersAreComplete
    <2>4. ASSUME NEW m \in 1..Len(written')
          PROVE  \E j \in Read : j = written'[m] /\ Owed(j) /\ Running(j) = {}
        <3>1. CASE m \in 1..Len(written)
            BY <1>3, <2>3, <3>1
        <3>2. CASE m = Len(written) + 1
            BY <1>1, <1>3, <3>2
        <3> QED BY <1>3, <3>1, <3>2
    <2>5. \A m \in 1..Len(written') : (written[m] \in Read /\ Owed(written[m]) /\ Running(written[m]) = {})'
        <3> SUFFICES ASSUME NEW m \in 1..Len(written')
                     PROVE  (written[m] \in Read /\ Owed(written[m]) /\ Running(written[m]) = {})'
            OBVIOUS
        <3>1. PICK j \in Read : j = written'[m] /\ Owed(j) /\ Running(j) = {}
            BY <2>4
        <3>2. j \in Read' /\ Owed(j)' /\ Running(j)' = {}
            BY <1>1, <3>1 DEF Read, Owed, Running
        <3>3. Owed(j)' = Owed(written[m])' /\ Running(j)' = Running(written[m])'
            BY <3>1 DEF Owed, Running
        <3> QED BY <3>1, <3>2, <3>3
    <2> QED BY <2>2, <2>5 DEF AnswersAreComplete
<1>5. \A j : Answered(j) => Answered(j)'
    BY <1>3 DEF Answered
<1>6. EndingInv' /\ ExitsWithNothingOwed'
    BY <1>1, <1>5 DEF McpInv, EndingInv, ExitsWithNothingOwed, Owed, Read
<1>7. RepliesFit' /\ VersionInv' /\ InitializeComesFirst' /\ OldInv'
    BY <1>1 DEF McpInv, RepliesFit, VersionInv, InitializeComesFirst, OldInv, OnlyOld, Unstructured, Read, Running
<1> QED BY <1>2, <1>4, <1>6, <1>7 DEF McpInv

(* The end: once stdin is closed and nothing is owed.                        *)
LEMMA EndKeeps ==
    ASSUME McpInv, CloseRead \/ Drain \/ Exit \/ BrokenPipe \/ CloseStdin \/ Flush \/ UNCHANGED vars
    PROVE  McpInv'
<1>1. UNCHANGED <<readOnly, sent, version, replies, written>>
    BY DEF CloseRead, Drain, Exit, BrokenPipe, CloseStdin, Flush, vars
<1>2. ServerTyped'
    BY McpTyped DEF Next, Server
<1>3. RepliesFit' /\ AnswersAreComplete' /\ VersionInv' /\ InitializeComesFirst' /\ OldInv'
    BY <1>1 DEF McpInv, RepliesFit, AnswersAreComplete, VersionInv, InitializeComesFirst, OldInv, OnlyOld,
       Unstructured, Read, Running, Owed
<1>4. EndingInv' /\ ExitsWithNothingOwed'
    <2> DEFINE AllAnswered == \A i \in Read : Owed(i) => Answered(i)
    <2>1. AllAnswered' <=> AllAnswered
        BY <1>1 DEF Owed, Answered, Read
    <2>2a. /\ EndingInv <=> /\ pc \in {"draining", "flushing"} => stdin = "closed" /\ Len(replies) = Len(sent)
                            /\ pc = "flushing" => AllAnswered
           /\ ExitsWithNothingOwed <=>
                (pc = "exited" /\ client = "up" => Len(replies) = Len(sent) /\ flushed = Len(written) /\ AllAnswered)
        BY DEF EndingInv, ExitsWithNothingOwed
    <2>2b. (/\ EndingInv <=> /\ pc \in {"draining", "flushing"} => stdin = "closed" /\ Len(replies) = Len(sent)
                             /\ pc = "flushing" => AllAnswered
            /\ ExitsWithNothingOwed <=>
                 (pc = "exited" /\ client = "up" => Len(replies) = Len(sent) /\ flushed = Len(written) /\ AllAnswered))'
        BY DEF EndingInv, ExitsWithNothingOwed
    <2> HIDE DEF AllAnswered
    <2> USE <1>1, <2>1, <2>2a, <2>2b DEF McpInv
    <2>2. CASE CloseRead
        BY <2>2 DEF CloseRead
    <2>3. CASE Drain
        <3>1. AllAnswered
            BY <2>3 DEF Drain, Drained, AllAnswered
        <3> QED BY <2>3, <3>1 DEF Drain
    <2>4. CASE Exit
        BY <2>4 DEF Exit
    <2>5. CASE BrokenPipe
        BY <2>5 DEF BrokenPipe
    <2>6. CASE CloseStdin
        BY <2>6 DEF CloseStdin, ServerTyped
    <2>7. CASE Flush
        BY <2>7 DEF Flush
    <2>8. CASE UNCHANGED vars
        BY <2>8 DEF vars
    <2> QED BY <2>2, <2>3, <2>4, <2>5, <2>6, <2>7, <2>8
<1> QED BY <1>2, <1>3, <1>4 DEF McpInv
LEMMA McpStep == McpInv /\ [Next]_vars => McpInv'
<1> SUFFICES ASSUME McpInv, [Next]_vars PROVE McpInv'
    OBVIOUS
<1>1. CASE Answer
    BY <1>1, AnswerKeeps DEF Answer
<1>2. CASE Send
    <2>1. UNCHANGED <<readOnly, stdin, client, version, replies, written, flushed, pc>> /\ pc # "exited" /\ stdin = "open"
        BY <1>2 DEF Send
    <2>2. PICK l \in Lines : sent' = Append(sent, l)
        BY <1>2 DEF Send
    <2>3. /\ Len(sent') = Len(sent) + 1 /\ Len(sent) \in Nat /\ Len(replies) \in Nat /\ Len(replies) <= Len(sent)
          /\ \A i \in 1..Len(sent) : sent'[i] = sent[i]
        BY <2>2, AppendProperties, LenProperties DEF McpInv, ServerTyped
    <2>4. ServerTyped'
        BY McpTyped
    <2>5. /\ Read' = Read /\ \A i \in Read : i \in 1..Len(sent) /\ i \in 1..Len(sent') /\ sent'[i] = sent[i]
          /\ \A i \in Read : \A j \in 1..i : j \in Read
        BY <2>1, <2>3 DEF Read
    <2>6. RepliesFit' /\ VersionInv'
        BY <2>1, <2>5 DEF McpInv, RepliesFit, VersionInv, Running
    <2>7. AnswersAreComplete' /\ EndingInv' /\ ExitsWithNothingOwed'
        BY <2>1 DEF McpInv, AnswersAreComplete, EndingInv, ExitsWithNothingOwed, ServerTyped, Read, Owed, Running
    <2>8. InitializeComesFirst'
        BY <2>1, <2>5 DEF McpInv, InitializeComesFirst
    <2>9. OnlyOld' => OnlyOld
        BY <2>3 DEF OnlyOld
    <2>10. OldInv'
        BY <2>1, <2>9 DEF McpInv, OldInv, Unstructured, Read
    <2> QED BY <2>4, <2>6, <2>7, <2>8, <2>10 DEF McpInv
<1> QED BY <1>1, <1>2, ReadKeeps, ToolKeeps, EndKeeps DEF Next, Server

LEMMA McpAlways == Spec => []McpInv
    BY McpInit, McpStep, PTL DEF Spec

------------------------------------------------------------------------------
(* The results                                                               *)

(* An answer to a line says all that the line is owed, is written once and   *)
(* never before its last tool has ended (handleLine, handleBatch,            *)
(* serveStdio).                                                              *)
THEOREM AnswersComplete == Spec => []AnswersAreComplete
<1>1. McpInv => AnswersAreComplete
    BY DEF McpInv
<1> QED BY <1>1, McpAlways, PTL

(* A request before the versions are agreed, and only such a one, is turned  *)
(* down as too early; a client that agreed on an old version gets nothing    *)
(* structured, whatever ran when it did (dispatch, shapeResult).             *)
THEOREM AnswersFit == Spec => []AnswersFitTheClient
<1>1. McpInv => AnswersFitTheClient
    <2> SUFFICES ASSUME McpInv, OnlyOld PROVE Unstructured
        BY DEF McpInv, AnswersFitTheClient, OldClientsGetNoStructure, OnlyOld, Unstructured
    <2> QED BY DEF McpInv, OldInv
<1> QED BY <1>1, McpAlways, PTL

(* The server leaves a client that is still there only when it has read all  *)
(* lines and delivered all answers (serveStdio's end, the last empty write). *)
THEOREM NothingIsOwedAtTheEnd == Spec => []ExitsWithNothingOwed
<1>1. McpInv => ExitsWithNothingOwed
    BY DEF McpInv
<1> QED BY <1>1, McpAlways, PTL
===============================================================================
