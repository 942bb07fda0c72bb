------------------------------ MODULE ReportProofs ------------------------------
(***************************************************************************)
(* What holds of what is reported, told and collected.  TestRun: a report  *)
(* is what the runner said, and a pass is a whole run of what was picked.  *)
(* TraceReader: the slices of a trace are whole.  BinderChain: so is the   *)
(* chain of a freeze.  FaultLog: the newest fault is found and told as     *)
(* what it is.  LogBundle: a bundle is what it says.  In the end MCDevice, *)
(* where these run side by side.                                           *)
(*                                                                         *)
(* The recursive functions of TraceReader and BinderChain are reasoned     *)
(* about by induction over a set of naturals (Induct), which the           *)
(* well-foundedness of the naturals gives; Recursion shows that such a     *)
(* function exists.                                                        *)
(***************************************************************************)
EXTENDS DeviceProofs, FiniteSetTheorems, SequenceTheorems, WellFoundedInduction

------------------------------------------------------------------------------
(* The runner's output and its parser (TestRun).                             *)

Cases == [name : STRING, code : Int \ {1}, stack : Nat, message : Nat]
Keys  == {"class", "test", "stack", "stream", "consuming"}
ToldOf(c, ms) == [name |-> <<c.name>>, status |-> statusFromCode(c.code), stack |-> c.stack, message |-> c.message, ms |-> ms]
Words == STRING \cup {"text", "S", NoValue, "pass", "fail", "error", "ignore", "unknown"} \cup Keys
ToldCases == [name : Seq(Words), status : Words, stack : Nat, message : Nat, ms : Words]
Ends_ == [run : Int, fail : Int, error : Int]
Parses == [tests : Seq(ToldCases), fields : [Keys -> Seq(Words)], lastKey : Words, summary : Seq(Ends_),
           reportCode : Seq(Int), resultCode : Seq(Int)]

(* What is known of a case after n of its lines.                             *)
InCase(p, c, n) ==
    LET size == c.stack + c.message IN
    /\ p.fields.test = IF n = 2 \/ n = size + 6 THEN <<c.name>> ELSE <<>>
    /\ Len(p.fields.stack) = IF n < 6 \/ n > size + 6 THEN 0 ELSE IF n <= c.stack + 5 THEN n - 5 ELSE c.stack
    /\ Len(p.fields.stream) = IF n <= c.stack + 5 \/ n > size + 6 THEN 0 ELSE IF n <= size + 5 THEN n - c.stack - 5 ELSE c.message
    /\ 5 < n /\ n <= c.stack + 5 => p.lastKey = "stack"
    /\ c.stack + 5 < n /\ n <= size + 5 => p.lastKey = "stream"

(* Of two texts or more there is one with a line break.                      *)
LEMMA SeveralLines ==
    ASSUME NEW key, NEW n \in Nat
    PROVE  /\ Len(Several(key, n)) = n
           /\ \A i \in 1..n : Several(key, n)[i] = IF i = 1 THEN Status(key, "text") ELSE [is |-> "text"]
           /\ \E S : Several(key, n) \in Seq(S)
<1>1. CASE n = 0
    BY <1>1 DEF Several
<1>2. CASE n # 0
    <2>1. Several(key, n) = <<Status(key, "text")>> \o Texts(n - 1)
        BY <1>2 DEF Several
    <2> DEFINE S == {Status(key, "text"), [is |-> "text"]}
    <2>2. <<Status(key, "text")>> \in Seq(S) /\ Texts(n - 1) \in Seq(S) /\ Len(Texts(n - 1)) = n - 1
        BY <1>2 DEF Texts
    <2>3. \A i \in 1..(n - 1) : Texts(n - 1)[i] = [is |-> "text"]
        BY DEF Texts
    <2> HIDE DEF S
    <2>4. Several(key, n) \in Seq(S) /\ Len(Several(key, n)) = n
        BY <2>1, <2>2, <1>2, ConcatProperties
    <2>5. ASSUME NEW i \in 1..n PROVE Several(key, n)[i] = IF i = 1 THEN Status(key, "text") ELSE [is |-> "text"]
        BY <2>1, <2>2, <2>3, ConcatProperties
    <2> QED BY <2>4, <2>5
<1> QED BY <1>1, <1>2

(* The texts of a case are joined into one that is whole.                    *)
LEMMA Joined ==
    ASSUME NEW S, NEW a \in Seq(S), NEW b \in Seq(S)
    PROVE  /\ a \o b \in Seq(S) /\ Len(a \o b) = Len(a) + Len(b)
           /\ \A i \in 1..Len(a) : (a \o b)[i] = a[i]
           /\ \A i \in 1..Len(b) : (a \o b)[i + Len(a)] = b[i]
<1>1. /\ a \o b \in Seq(S) /\ Len(a \o b) = Len(a) + Len(b)
      /\ \A i \in 1..(Len(a) + Len(b)) : (a \o b)[i] = IF i <= Len(a) THEN a[i] ELSE b[i - Len(a)]
    BY ConcatProperties
<1>l. Len(a) \in Nat /\ Len(b) \in Nat
    BY LenProperties
<1>2. ASSUME NEW i \in 1..Len(b) PROVE (a \o b)[i + Len(a)] = b[i]
    <2>1. i + Len(a) \in 1..(Len(a) + Len(b)) /\ ~(i + Len(a) <= Len(a)) /\ (i + Len(a)) - Len(a) = i
        BY <1>l
    <2> QED BY <1>1, <2>1
<1>3. ASSUME NEW i \in 1..Len(a) PROVE (a \o b)[i] = a[i]
    <2>1. i \in 1..(Len(a) + Len(b)) /\ i <= Len(a)
        BY <1>l
    <2> QED BY <1>1, <2>1
<1> QED BY <1>1, <1>2, <1>3

(* What the runner prints of a case, line by line.                           *)
LEMMA LinesOfCase ==
    ASSUME NEW c \in Cases
    PROVE  LET lines == CaseLines(c)  size == c.stack + c.message IN
           /\ Len(lines) = size + 9
           /\ lines[1] = Status("class", "S") /\ lines[2] = Status("test", c.name) /\ lines[3] = Code(1)
           /\ lines[4] = Blank /\ lines[5] = Status("class", "S")
           /\ \A i \in 6..(c.stack + 5) : lines[i] = IF i = 6 THEN Status("stack", "text") ELSE [is |-> "text"]
           /\ \A i \in (c.stack + 6)..(size + 5) : lines[i] = IF i = c.stack + 6 THEN Status("stream", "text") ELSE [is |-> "text"]
           /\ lines[size + 6] = Status("test", c.name) /\ lines[size + 7] = Code(c.code)
           /\ lines[size + 8] = Status("consuming", c.name) /\ lines[size + 9] = Blank
<1> DEFINE s == c.stack
           m == c.message
           Head_ == <<Status("class", "S"), Status("test", c.name), Code(1), Blank, Status("class", "S")>>
           Stack_ == Several("stack", s)
           Stream_ == Several("stream", m)
           Tail_ == <<Status("test", c.name), Code(c.code), Status("consuming", c.name), Blank>>
<1>1. s \in Nat /\ m \in Nat
    BY DEF Cases
<1>2. PICK S1 : Stack_ \in Seq(S1)
    BY <1>1, SeveralLines
<1>3. PICK S2 : Stream_ \in Seq(S2)
    BY <1>1, SeveralLines
<1> DEFINE S == S1 \cup S2 \cup {Head_[i] : i \in 1..5} \cup {Tail_[i] : i \in 1..4}
<1>4. Head_ \in Seq(S) /\ Len(Head_) = 5 /\ Tail_ \in Seq(S) /\ Len(Tail_) = 4
    OBVIOUS
<1>5. Stack_ \in Seq(S) /\ Stream_ \in Seq(S)
    BY <1>2, <1>3, SeqMonotonic
<1>6. Len(Stack_) = s /\ Len(Stream_) = m
    BY <1>1, SeveralLines
<1>7. CaseLines(c) = ((Head_ \o Stack_) \o Stream_) \o Tail_
    BY DEF CaseLines
<1>a. Head_[1] = Status("class", "S") /\ Head_[2] = Status("test", c.name) /\ Head_[3] = Code(1) /\ Head_[4] = Blank /\ Head_[5] = Status("class", "S")
    OBVIOUS
<1>d. Tail_[1] = Status("test", c.name) /\ Tail_[2] = Code(c.code) /\ Tail_[3] = Status("consuming", c.name) /\ Tail_[4] = Blank
    OBVIOUS
<1>b. \A i \in 1..s : Stack_[i] = IF i = 1 THEN Status("stack", "text") ELSE [is |-> "text"]
    BY <1>1, SeveralLines
<1>c. \A i \in 1..m : Stream_[i] = IF i = 1 THEN Status("stream", "text") ELSE [is |-> "text"]
    BY <1>1, SeveralLines
<1> HIDE DEF S, Head_, Stack_, Stream_, Tail_
<1>8. /\ Head_ \o Stack_ \in Seq(S) /\ Len(Head_ \o Stack_) = 5 + s
      /\ \A i \in 1..5 : (Head_ \o Stack_)[i] = Head_[i]
      /\ \A i \in 1..s : (Head_ \o Stack_)[i + 5] = Stack_[i]
    <2> DEFINE W == Head_ \o Stack_
    <2>0. Head_ \in Seq(S) /\ Stack_ \in Seq(S)
        BY <1>4, <1>5, <1>6
    <2>1. Len(Head_) = 5 /\ Len(Stack_) = s
        BY <1>4, <1>5, <1>6
    <2>2. /\ W \in Seq(S) /\ Len(W) = Len(Head_) + Len(Stack_)
          /\ \A i \in 1..Len(Head_) : W[i] = Head_[i]
          /\ \A i \in 1..Len(Stack_) : W[i + Len(Head_)] = Stack_[i]
        BY <2>0, Joined
    <2> HIDE DEF W
    <2>3. W \in Seq(S) /\ Len(W) = 5 + s
        BY <2>1, <2>2
    <2>4. \A i \in 1..5 : W[i] = Head_[i]
        BY <2>1, <2>2
    <2>5. \A i \in 1..s : W[i + 5] = Stack_[i]
        BY <2>1, <2>2
    <2> QED BY <2>3, <2>4, <2>5 DEF W
<1>9. /\ (Head_ \o Stack_) \o Stream_ \in Seq(S) /\ Len((Head_ \o Stack_) \o Stream_) = 5 + s + m
      /\ \A i \in 1..(5 + s) : ((Head_ \o Stack_) \o Stream_)[i] = (Head_ \o Stack_)[i]
      /\ \A i \in 1..m : ((Head_ \o Stack_) \o Stream_)[i + (5 + s)] = Stream_[i]
    <2> DEFINE W == (Head_ \o Stack_) \o Stream_
    <2>0. (Head_ \o Stack_) \in Seq(S) /\ Stream_ \in Seq(S)
        BY <1>8, <1>5, <1>6
    <2>1. Len((Head_ \o Stack_)) = 5 + s /\ Len(Stream_) = m
        BY <1>8, <1>5, <1>6
    <2>2. /\ W \in Seq(S) /\ Len(W) = Len((Head_ \o Stack_)) + Len(Stream_)
          /\ \A i \in 1..Len((Head_ \o Stack_)) : W[i] = (Head_ \o Stack_)[i]
          /\ \A i \in 1..Len(Stream_) : W[i + Len((Head_ \o Stack_))] = Stream_[i]
        BY <2>0, Joined
    <2> HIDE DEF W
    <2>3. W \in Seq(S) /\ Len(W) = 5 + s + m
        BY <2>1, <2>2
    <2>4. \A i \in 1..(5 + s) : W[i] = (Head_ \o Stack_)[i]
        BY <2>1, <2>2
    <2>5. \A i \in 1..m : W[i + (5 + s)] = Stream_[i]
        BY <2>1, <2>2
    <2> QED BY <2>3, <2>4, <2>5 DEF W
<1>10. /\ Len(CaseLines(c)) = 5 + s + m + 4
       /\ \A i \in 1..(5 + s + m) : CaseLines(c)[i] = ((Head_ \o Stack_) \o Stream_)[i]
       /\ \A i \in 1..4 : CaseLines(c)[i + (5 + s + m)] = Tail_[i]
    <2> DEFINE W == ((Head_ \o Stack_) \o Stream_) \o Tail_
    <2>0. ((Head_ \o Stack_) \o Stream_) \in Seq(S) /\ Tail_ \in Seq(S)
        BY <1>9, <1>4
    <2>1. Len(((Head_ \o Stack_) \o Stream_)) = 5 + s + m /\ Len(Tail_) = 4
        BY <1>9, <1>4
    <2>2. /\ W \in Seq(S) /\ Len(W) = Len(((Head_ \o Stack_) \o Stream_)) + Len(Tail_)
          /\ \A i \in 1..Len(((Head_ \o Stack_) \o Stream_)) : W[i] = ((Head_ \o Stack_) \o Stream_)[i]
          /\ \A i \in 1..Len(Tail_) : W[i + Len(((Head_ \o Stack_) \o Stream_))] = Tail_[i]
        BY <2>0, Joined
    <2> HIDE DEF W
    <2>3. W \in Seq(S) /\ Len(W) = 5 + s + m + 4
        BY <2>1, <2>2
    <2>4. \A i \in 1..(5 + s + m) : W[i] = ((Head_ \o Stack_) \o Stream_)[i]
        BY <2>1, <2>2
    <2>5. \A i \in 1..4 : W[i + (5 + s + m)] = Tail_[i]
        BY <2>1, <2>2
    <2> QED BY <2>3, <2>4, <2>5, <1>7 DEF W
<1>11. /\ \A i \in 1..5 : CaseLines(c)[i] = Head_[i]
       /\ \A i \in 1..s : CaseLines(c)[i + 5] = Stack_[i]
       /\ \A i \in 1..m : CaseLines(c)[i + (5 + s)] = Stream_[i]
       /\ \A i \in 1..4 : CaseLines(c)[i + (5 + s + m)] = Tail_[i]
    <2>1. \A i \in 1..5 : i \in 1..(5 + s + m) /\ i \in 1..(5 + s)
        BY <1>1
    <2>2. \A i \in 1..s : i + 5 \in 1..(5 + s + m) /\ i + 5 \in 1..(5 + s)
        BY <1>1
    <2>3. \A i \in 1..m : i + (5 + s) \in 1..(5 + s + m)
        BY <1>1
    <2>4. \A i \in 1..5 : CaseLines(c)[i] = Head_[i]
        BY <2>1, <1>8, <1>9, <1>10
    <2>5. \A i \in 1..s : CaseLines(c)[i + 5] = Stack_[i]
        BY <2>2, <1>8, <1>9, <1>10
    <2>6. \A i \in 1..m : CaseLines(c)[i + (5 + s)] = Stream_[i]
        BY <2>3, <1>9, <1>10
    <2> QED BY <2>4, <2>5, <2>6, <1>10
<1>12. ASSUME NEW i \in 6..(s + 5) PROVE CaseLines(c)[i] = IF i = 6 THEN Status("stack", "text") ELSE [is |-> "text"]
    <2>1. i - 5 \in 1..s /\ (i - 5) + 5 = i
        BY <1>1
    <2> QED BY <2>1, <1>11, <1>b
<1>13. ASSUME NEW i \in (s + 6)..(s + m + 5) PROVE CaseLines(c)[i] = IF i = s + 6 THEN Status("stream", "text") ELSE [is |-> "text"]
    <2>1. i - s - 5 \in 1..m /\ (i - s - 5) + (5 + s) = i /\ (i - s - 5 = 1 <=> i = s + 6)
        BY <1>1
    <2> QED BY <2>1, <1>11, <1>c
<1>14. /\ CaseLines(c)[s + m + 6] = Tail_[1] /\ CaseLines(c)[s + m + 7] = Tail_[2]
       /\ CaseLines(c)[s + m + 8] = Tail_[3] /\ CaseLines(c)[s + m + 9] = Tail_[4]
    <2>1. s + m + 6 = 1 + (5 + s + m) /\ s + m + 7 = 2 + (5 + s + m) /\ s + m + 8 = 3 + (5 + s + m) /\ s + m + 9 = 4 + (5 + s + m)
        BY <1>1
    <2> QED BY <2>1, <1>11
<1>15. Len(CaseLines(c)) = s + m + 9
    BY <1>1, <1>10
<1> QED BY <1>15, <1>11, <1>12, <1>13, <1>14, <1>a, <1>d

(* What the parser keeps is well typed.                                      *)
LEMMA NoValueText == NoValue \in Words /\ "text" \in Words /\ "S" \in Words
BY DEF Words, NoValue

OneText == <<"text">>
(* The texts of a field are texts.                                           *)
LEMMA TextsTyped ==
    /\ OneText \in Seq(Words) /\ Len(OneText) = 1
    /\ \A t \in Seq(Words) : Append(t, "text") \in Seq(Words) /\ Len(Append(t, "text")) = Len(t) + 1
<1>1. OneText \in Seq(Words) /\ Len(OneText) = 1
    <2>1. "text" \in Words
        BY NoValueText
    <2> HIDE DEF Words
    <2> QED BY <2>1 DEF OneText
<1>2. ASSUME NEW t \in Seq(Words) PROVE Append(t, "text") \in Seq(Words) /\ Len(Append(t, "text")) = Len(t) + 1
    BY NoValueText, AppendProperties
<1> QED BY <1>1, <1>2

(* What a case is told as is a case of the report.                           *)
LEMMA ToldTyped == ASSUME NEW c \in Cases, NEW ms \in Words PROVE ToldOf(c, ms) \in ToldCases
<1>1. statusFromCode(c.code) \in Words
    BY DEF statusFromCode, Words
<1>2. c.name \in Words /\ c.stack \in Nat /\ c.message \in Nat
    BY DEF Cases, Words
<1>3. <<c.name>> \in Seq(Words)
    BY <1>2
<1> QED BY <1>1, <1>2, <1>3 DEF ToldOf, ToldCases

(* A case that is told its time is still one of the report.                  *)
LEMMA TimedTyped ==
    ASSUME NEW t \in Seq(ToldCases), t # <<>>, NEW ms \in Words
    PROVE  [t EXCEPT ![Len(t)].ms = ms] \in Seq(ToldCases)
<1>1. Len(t) \in 1..Len(t)
    BY EmptySeq, LenProperties
<1>2. t[Len(t)] \in ToldCases
    BY <1>1, ElementOfSeq
<1>3. [t[Len(t)] EXCEPT !.ms = ms] \in ToldCases
    BY <1>2 DEF ToldCases
<1>4. [t EXCEPT ![Len(t)] = [t[Len(t)] EXCEPT !.ms = ms]] \in Seq(ToldCases)
    BY <1>1, <1>3, ExceptSeq
<1> QED BY <1>4

(* One line of a case: what the parser knows of the case grows by the line,  *)
(* and the case is told when its code comes, and its time when that comes.   *)
LEMMA CaseParsed ==
    ASSUME NEW p \in Parses, NEW c \in Cases, NEW n \in 0..(c.stack + c.message + 8), InCase(p, c, n),
           n = c.stack + c.message + 7 => p.tests # <<>>,
           NEW q, q = ParseLine(p, CaseLines(c)[n + 1])
    PROVE  LET size == c.stack + c.message IN
           /\ q \in Parses
           /\ n < size + 8 => InCase(q, c, n + 1)
           /\ n = size + 8 => q.fields.test = <<>> /\ q.fields.stack = <<>> /\ q.fields.stream = <<>>
           /\ q.tests = IF n = size + 6 THEN Append(p.tests, ToldOf(c, NoValue))
                        ELSE IF n = size + 7 THEN [p.tests EXCEPT ![Len(p.tests)].ms = c.name]
                        ELSE p.tests
           /\ q.summary = p.summary /\ q.reportCode = p.reportCode /\ q.resultCode = p.resultCode
<1> DEFINE s == c.stack
           m == c.message
           line == CaseLines(c)[n + 1]
<1>1. s \in Nat /\ m \in Nat /\ c.name \in Words /\ c.code \in Int /\ c.code # 1 /\ n \in Nat
    BY DEF Cases, Words
<1>2. /\ p.tests \in Seq(ToldCases) /\ p.fields \in [Keys -> Seq(Words)] /\ p.lastKey \in Words
      /\ p.summary \in Seq(Ends_) /\ p.reportCode \in Seq(Int) /\ p.resultCode \in Seq(Int)
    BY DEF Parses
<1>3. Fields \in [Keys -> Seq(Words)] /\ \A k \in Keys : Fields[k] = <<>>
    BY DEF Fields, Keys
<1>k. Keys = {"class", "test", "stack", "stream", "consuming"}
    BY DEF Keys
<1>f. p.fields.test \in Seq(Words) /\ p.fields.stack \in Seq(Words) /\ p.fields.stream \in Seq(Words)
    BY <1>2, <1>k
<1>a. /\ CaseLines(c)[1] = Status("class", "S") /\ CaseLines(c)[2] = Status("test", c.name) /\ CaseLines(c)[3] = Code(1)
      /\ CaseLines(c)[4] = Blank /\ CaseLines(c)[5] = Status("class", "S")
    BY LinesOfCase
<1>b. \A i \in 6..(s + 5) : CaseLines(c)[i] = IF i = 6 THEN Status("stack", "text") ELSE [is |-> "text"]
    BY LinesOfCase
<1>c. \A i \in (s + 6)..(s + m + 5) : CaseLines(c)[i] = IF i = s + 6 THEN Status("stream", "text") ELSE [is |-> "text"]
    BY LinesOfCase
<1>d. /\ CaseLines(c)[s + m + 6] = Status("test", c.name) /\ CaseLines(c)[s + m + 7] = Code(c.code)
      /\ CaseLines(c)[s + m + 8] = Status("consuming", c.name) /\ CaseLines(c)[s + m + 9] = Blank
    BY LinesOfCase
<1>e. /\ p.fields.test = IF n = 2 \/ n = s + m + 6 THEN <<c.name>> ELSE <<>>
      /\ Len(p.fields.stack) = IF n < 6 \/ n > s + m + 6 THEN 0 ELSE IF n <= s + 5 THEN n - 5 ELSE s
      /\ Len(p.fields.stream) = IF n <= s + 5 \/ n > s + m + 6 THEN 0 ELSE IF n <= s + m + 5 THEN n - s - 5 ELSE m
      /\ 5 < n /\ n <= s + 5 => p.lastKey = "stack"
      /\ s + 5 < n /\ n <= s + m + 5 => p.lastKey = "stream"
    BY DEF InCase
<1>g. ASSUME NEW k, k = n + 1,
             q.fields.test = IF k = 2 \/ k = s + m + 6 THEN <<c.name>> ELSE <<>>,
             Len(q.fields.stack) = IF k < 6 \/ k > s + m + 6 THEN 0 ELSE IF k <= s + 5 THEN k - 5 ELSE s,
             Len(q.fields.stream) = IF k <= s + 5 \/ k > s + m + 6 THEN 0 ELSE IF k <= s + m + 5 THEN k - s - 5 ELSE m,
             5 < k /\ k <= s + 5 => q.lastKey = "stack",
             s + 5 < k /\ k <= s + m + 5 => q.lastKey = "stream"
      PROVE  InCase(q, c, n + 1)
    BY <1>g DEF InCase
<1> HIDE DEF s, m
<1>4. CASE n \in {0, 1, 4} \/ n = s + m + 5
    <2> DEFINE key == IF n \in {1, s + m + 5} THEN "test" ELSE "class"
               v == IF n \in {1, s + m + 5} THEN c.name ELSE "S"
    <2>0. n = s + m + 5 => n + 1 = s + m + 6
        BY <1>1
    <2>1. line = Status(key, v)
        BY <1>4, <1>1, <1>a, <1>d, <2>0
    <2>2. key \in {"class", "test"} /\ v \in Words
        BY <1>1, NoValueText
    <2>a. key = "test" => n \in {1, s + m + 5} /\ v = c.name
        OBVIOUS
    <2>b. key # "test" => n \in {0, 4} /\ n # s + m + 5
        BY <1>4
    <2> HIDE DEF key, v, line
    <2>3. q = [p EXCEPT !.fields[key] = <<v>>, !.lastKey = key]
        BY <2>1, <2>2 DEF ParseLine, ParseStatus, Status, line
    <2>c. <<v>> \in Seq(Words)
        BY <2>2
    <2>4. q \in Parses /\ q.fields = [p.fields EXCEPT ![key] = <<v>>] /\ q.tests = p.tests /\ q.summary = p.summary
          /\ q.reportCode = p.reportCode /\ q.resultCode = p.resultCode /\ q.lastKey = key
        <3> DEFINE W == [p.fields EXCEPT ![key] = <<v>>]
        <3>1. q = [p EXCEPT !.fields = W, !.lastKey = key]
            BY <2>3
        <3>2. W \in [Keys -> Seq(Words)]
            BY <2>2, <2>c, <1>2, <1>k
        <3>3. key \in Words
            BY <2>2, <1>k DEF Words
        <3> HIDE DEF W
        <3>4. q \in Parses /\ q.fields = W /\ q.tests = p.tests /\ q.summary = p.summary
              /\ q.reportCode = p.reportCode /\ q.resultCode = p.resultCode /\ q.lastKey = key
            BY <3>1, <3>2, <3>3, <1>2 DEF Parses
        <3> QED BY <3>4 DEF W
    <2>5. /\ q.fields.test = IF key = "test" THEN <<v>> ELSE p.fields.test
          /\ q.fields.stack = p.fields.stack /\ q.fields.stream = p.fields.stream
        BY <2>2, <2>4, <1>2, <1>k
    <2>6. q.fields.test = IF n + 1 = 2 \/ n + 1 = s + m + 6 THEN <<c.name>> ELSE <<>>
        <3>1. CASE key = "test"
            BY <3>1, <2>5, <2>a, <1>1
        <3>2. CASE key # "test"
            BY <3>2, <2>5, <2>b, <1>e, <1>1
        <3> QED BY <3>1, <3>2
    <2>7. InCase(q, c, n + 1)
        BY <2>5, <2>6, <1>1, <1>4, <1>e, <1>g
    <2> QED BY <2>4, <2>7, <1>1, <1>4 DEF s, m
<1>5. CASE n = 2
    <2>1. q = [p EXCEPT !.fields = Fields, !.lastKey = NoValue]
        <3>1. q = ParseCode(p, Code(1))
            BY <1>5, <1>a DEF ParseLine, Code
        <3>2. ParseCode(p, Code(1)) = [p EXCEPT !.fields = Fields, !.lastKey = NoValue, !.tests = p.tests]
            BY DEF ParseCode, Code
        <3> QED BY <3>1, <3>2, <1>2 DEF Parses
    <2>2. q \in Parses /\ q.fields = Fields /\ q.tests = p.tests /\ q.summary = p.summary
          /\ q.reportCode = p.reportCode /\ q.resultCode = p.resultCode
        BY <2>1, <1>2, <1>3, NoValueText DEF Parses
    <2>3. InCase(q, c, n + 1)
        BY <2>2, <1>1, <1>3, <1>5, <1>g, <1>k
    <2> QED BY <2>2, <2>3, <1>1, <1>5 DEF s, m
<1>6. CASE n = 3 \/ n = s + m + 8
    <2>0. n = s + m + 8 => n + 1 = s + m + 9
        BY <1>1
    <2>1. q = [p EXCEPT !.lastKey = NoValue]
        BY <1>6, <2>0, <1>a, <1>d DEF ParseLine, Blank
    <2>2. q \in Parses /\ q.fields = p.fields /\ q.tests = p.tests /\ q.summary = p.summary
          /\ q.reportCode = p.reportCode /\ q.resultCode = p.resultCode
        BY <2>1, <1>2, NoValueText DEF Parses
    <2>4. n = s + m + 8 => q.fields.test = <<>> /\ Len(q.fields.stack) = 0 /\ Len(q.fields.stream) = 0
        BY <2>2, <1>1, <1>e
    <2>5. n = s + m + 8 => q.fields.stack = <<>> /\ q.fields.stream = <<>>
        BY <1>f, <2>2, <2>4, EmptySeq
    <2>6. n = 3 => InCase(q, c, n + 1)
        BY <2>2, <1>1, <1>e, <1>g
    <2> QED BY <2>2, <2>4, <2>5, <2>6, <1>1, <1>6 DEF s, m
<1>7. CASE n \in 5..(s + m + 4)
    <2> DEFINE key == IF n < s + 5 THEN "stack" ELSE "stream"
    <2>1. line = IF n = 5 \/ n = s + 5 THEN Status(key, "text") ELSE [is |-> "text"]
        <3>1. CASE n < s + 5
            <4>1. n + 1 \in 6..(s + 5) /\ (n + 1 = 6 <=> n = 5) /\ n # s + 5
                BY <1>7, <3>1, <1>1
            <4> QED BY <4>1, <3>1, <1>b
        <3>2. CASE ~(n < s + 5)
            <4>1. n + 1 \in (s + 6)..(s + m + 5) /\ (n + 1 = s + 6 <=> n = s + 5)
                BY <1>7, <3>2, <1>1
            <4>2. n = 5 => n = s + 5
                BY <3>2, <1>1
            <4> QED BY <4>1, <4>2, <3>2, <1>c
        <3> QED BY <3>1, <3>2
    <2>2. key \in Keys /\ key \in {"stack", "stream"} /\ (key = "stack" <=> n < s + 5)
        BY DEF Keys
    <2>a. p.fields[key] \in Seq(Words)
        BY <2>2, <1>2
    <2>3. Len(p.fields[key]) = IF key = "stack" THEN n - 5 ELSE n - s - 5
        <3>1. CASE n < s + 5
            <4>1. Len(p.fields.stack) = n - 5
                BY <3>1, <1>7, <1>1, <1>e
            <4> QED BY <4>1, <3>1
        <3>2. CASE ~(n < s + 5)
            <4>1. Len(p.fields.stream) = n - s - 5
                BY <3>2, <1>7, <1>1, <1>e
            <4> QED BY <4>1, <3>2
        <3> QED BY <3>1, <3>2
    <2>4. n # 5 /\ n # s + 5 => p.lastKey = key /\ p.fields[key] # <<>>
        <3>1. n # 5 /\ n # s + 5 => Len(p.fields[key]) > 0
            BY <2>3, <1>7, <1>1
        <3>2. n # 5 /\ n # s + 5 => p.lastKey = key
            BY <1>7, <1>1, <1>e
        <3> QED BY <3>1, <3>2, <2>a, EmptySeq
    <2> HIDE DEF key, line
    <2>5. PICK text \in Seq(Words) : /\ q = [p EXCEPT !.fields[key] = text, !.lastKey = key]
                                      /\ Len(text) = Len(p.fields[key]) + 1
        <3>1. CASE n = 5 \/ n = s + 5
            <4>0. line = Status(key, "text")
                BY <3>1, <2>1
            <4>1. q = [p EXCEPT !.fields[key] = <<"text">>, !.lastKey = key]
                BY <4>0, <2>2 DEF ParseLine, ParseStatus, Status, line
            <4>2. Len(p.fields[key]) = 0
                BY <3>1, <2>3, <2>2, <1>1, <1>7
            <4>3. OneText \in Seq(Words) /\ Len(OneText) = 1
                BY TextsTyped
            <4>4. q = [p EXCEPT !.fields[key] = OneText, !.lastKey = key]
                BY <4>1 DEF OneText
            <4>5. Len(OneText) = Len(p.fields[key]) + 1
                BY <4>2, <4>3
            <4> QED BY <4>3, <4>4, <4>5
        <3>2. CASE n # 5 /\ n # s + 5
            <4>1. q = ParseText(p)
                BY <3>2, <2>1 DEF ParseLine, line
            <4>2. p.lastKey = key /\ p.fields[key] # <<>> /\ key # NoValue
                BY <3>2, <2>4, <2>2 DEF NoValue
            <4>3. q = [p EXCEPT !.fields[p.lastKey] = Append(@, "text")]
                BY <4>1, <4>2 DEF ParseText
            <4>4. q = [p EXCEPT !.fields[key] = Append(p.fields[key], "text")]
                BY <4>2, <4>3
            <4>5. q = [p EXCEPT !.fields[key] = Append(p.fields[key], "text"), !.lastKey = key]
                BY <4>4, <4>2, <2>2, <1>2 DEF Parses
            <4>6. Append(p.fields[key], "text") \in Seq(Words) /\ Len(Append(p.fields[key], "text")) = Len(p.fields[key]) + 1
                BY <2>a, TextsTyped
            <4> QED BY <4>5, <4>6
        <3> QED BY <3>1, <3>2
    <2>6. q \in Parses /\ q.fields = [p.fields EXCEPT ![key] = text] /\ q.lastKey = key /\ q.tests = p.tests /\ q.summary = p.summary
          /\ q.reportCode = p.reportCode /\ q.resultCode = p.resultCode
        <3> DEFINE W == [p.fields EXCEPT ![key] = text]
        <3>1. q = [p EXCEPT !.fields = W, !.lastKey = key]
            BY <2>5
        <3>2. W \in [Keys -> Seq(Words)]
            BY <2>2, <1>2
        <3>3. key \in Words
            BY <2>2 DEF Words
        <3> HIDE DEF W
        <3>4. q \in Parses /\ q.fields = W /\ q.tests = p.tests /\ q.summary = p.summary
              /\ q.reportCode = p.reportCode /\ q.resultCode = p.resultCode /\ q.lastKey = key
            BY <3>1, <3>2, <3>3, <1>2 DEF Parses
        <3> QED BY <3>4 DEF W
    <2>7. /\ q.fields.test = p.fields.test
          /\ q.fields.stack = IF key = "stack" THEN text ELSE p.fields.stack
          /\ q.fields.stream = IF key = "stream" THEN text ELSE p.fields.stream
        BY <2>6, <2>2, <1>2, <1>k
    <2>8. InCase(q, c, n + 1)
        <3>1. q.fields.test = <<>>
            BY <2>7, <1>7, <1>1, <1>e
        <3>2. CASE key = "stack"
            <4>1. n < s + 5 /\ Len(text) = n - 5 + 1 /\ q.fields.stack = text /\ q.fields.stream = p.fields.stream /\ q.lastKey = "stack"
                BY <3>2, <2>2, <2>3, <2>5, <2>6, <2>7
            <4>2. Len(p.fields.stream) = 0
                BY <4>1, <1>1, <1>7, <1>e
            <4> QED BY <4>1, <4>2, <3>1, <1>1, <1>7, <1>g
        <3>3. CASE key = "stream"
            <4>1. ~(n < s + 5) /\ Len(text) = n - s - 5 + 1 /\ q.fields.stream = text /\ q.fields.stack = p.fields.stack /\ q.lastKey = "stream"
                BY <3>3, <2>2, <2>3, <2>5, <2>6, <2>7
            <4>2. Len(p.fields.stack) = s
                BY <4>1, <1>1, <1>7, <1>e
            <4> QED BY <4>1, <4>2, <3>1, <1>1, <1>7, <1>g
        <3> QED BY <3>2, <3>3, <2>2
    <2> QED BY <2>6, <2>8, <1>7, <1>1 DEF s, m
<1>8. CASE n = s + m + 6
    <2>0. n + 1 = s + m + 7
        BY <1>8, <1>1
    <2>1. line = Code(c.code)
        BY <2>0, <1>d
    <2>2. p.fields.test = <<c.name>> /\ Len(p.fields.stack) = s /\ Len(p.fields.stream) = m /\ p.fields.test # <<>>
        BY <1>8, <1>1, <1>e
    <2> DEFINE told == [name |-> p.fields.test, status |-> statusFromCode(c.code), stack |-> Len(p.fields.stack),
                        message |-> Len(p.fields.stream), ms |-> NoValue]
    <2>3. told = ToldOf(c, NoValue)
        BY <2>2 DEF ToldOf, s, m
    <2>a. q = ParseCode(p, Code(c.code))
        BY <2>1 DEF ParseLine, Code
    <2>b. q = [p EXCEPT !.fields = Fields, !.lastKey = NoValue, !.tests = Append(p.tests, told)]
        BY <2>a, <2>2, <1>1 DEF ParseCode, Code
    <2>c. q = [p EXCEPT !.fields = Fields, !.lastKey = NoValue, !.tests = Append(p.tests, ToldOf(c, NoValue))]
        BY <2>b, <2>3
    <2>4. ToldOf(c, NoValue) \in ToldCases
        BY ToldTyped, NoValueText
    <2>5. Append(p.tests, ToldOf(c, NoValue)) \in Seq(ToldCases)
        BY <2>4, <1>2, AppendProperties
    <2>6. q \in Parses /\ q.fields = Fields /\ q.tests = Append(p.tests, ToldOf(c, NoValue)) /\ q.summary = p.summary
          /\ q.reportCode = p.reportCode /\ q.resultCode = p.resultCode
        BY <2>c, <2>5, <1>2, <1>3, NoValueText DEF Parses
    <2>7. InCase(q, c, n + 1)
        BY <2>0, <2>6, <1>1, <1>3, <1>k, <1>g
    <2> QED BY <2>6, <2>7, <1>1, <1>8 DEF s, m
<1>9. CASE n = s + m + 7
    <2>0. n + 1 = s + m + 8
        BY <1>9, <1>1
    <2>1. line = Status("consuming", c.name)
        BY <2>0, <1>d
    <2>2. p.fields.test = <<>> /\ p.tests # <<>>
        BY <1>9, <1>1, <1>e DEF s, m
    <2>3. q = [p EXCEPT !.tests[Len(p.tests)].ms = c.name, !.lastKey = "consuming"]
        BY <2>1, <2>2 DEF ParseLine, ParseStatus, Status
    <2>5. [p.tests EXCEPT ![Len(p.tests)].ms = c.name] \in Seq(ToldCases)
        BY <2>2, <1>1, <1>2, TimedTyped
    <2>6. q \in Parses /\ q.fields = p.fields /\ q.tests = [p.tests EXCEPT ![Len(p.tests)].ms = c.name] /\ q.summary = p.summary
          /\ q.reportCode = p.reportCode /\ q.resultCode = p.resultCode
        <3> DEFINE W == [p.tests EXCEPT ![Len(p.tests)].ms = c.name]
        <3>1. q = [p EXCEPT !.tests = W, !.lastKey = "consuming"] /\ W \in Seq(ToldCases)
            BY <2>3, <2>5
        <3>2. "consuming" \in Words
            BY DEF Words, Keys
        <3> HIDE DEF W
        <3>3. q \in Parses /\ q.fields = p.fields /\ q.tests = W /\ q.summary = p.summary
              /\ q.reportCode = p.reportCode /\ q.resultCode = p.resultCode
            BY <3>1, <3>2, <1>2 DEF Parses
        <3> QED BY <3>3 DEF W
    <2>7. InCase(q, c, n + 1)
        BY <2>0, <2>6, <1>1, <1>9, <1>e, <1>g
    <2> QED BY <2>6, <2>7, <1>1, <1>9 DEF s, m
<1>10. n \in {0, 1, 2, 3, 4} \/ n \in 5..(s + m + 4) \/ n \in {s + m + 5, s + m + 6, s + m + 7, s + m + 8}
    BY <1>1 DEF s, m
<1> QED BY <1>4, <1>5, <1>6, <1>7, <1>8, <1>9, <1>10 DEF s, m

------------------------------------------------------------------------------
(* A test run: what is parsed is as far as the runner has printed.           *)
TrueEnd == [run |-> Len(Suite), fail |-> CasesWith(-2), error |-> CasesWith(-1)]
SizeOf(c) == c.stack + c.message
TranscriptTypes ==
    /\ parsed \in Parses /\ Suite \in Seq(Cases)
    /\ {"suite", "at", "ok", "picked", "build", "signs", "aborted"} \subseteq DOMAIN test
    /\ printed \in [part : Nat \ {0}, lines : Nat] /\ printed.part <= Parts + 1
ToldSoFar == \A k \in 1..Len(parsed.tests) : parsed.tests[k] \in {ToldOf(Suite[k], NoValue), ToldOf(Suite[k], Suite[k].name)}
InItsCase ==
    printed.part \in DOMAIN Suite =>
         /\ printed.lines <= SizeOf(Suite[printed.part]) + 8
         /\ InCase(parsed, Suite[printed.part], printed.lines)
         /\ Len(parsed.tests) = IF printed.lines <= SizeOf(Suite[printed.part]) + 6 THEN printed.part - 1 ELSE printed.part
AtItsEnd ==
    /\ printed.part > Len(Suite) => Len(parsed.tests) = Len(Suite)
    /\ printed.part = Parts => printed.lines <= 2
    /\ parsed.summary = IF printed.part > Parts \/ (printed.part = Parts /\ printed.lines > 0) THEN <<TrueEnd>> ELSE <<>>
    /\ parsed.resultCode = IF printed.part > Parts THEN <<0>> ELSE <<>>
InTranscript == TranscriptTypes /\ ToldSoFar /\ InItsCase /\ AtItsEnd
RunnerIsWhere ==
    /\ runner = "finished" <=> printed.part > Parts
    /\ test.at \in {"buildMain", "buildTest", "pick", "installMain", "installTest", "wake", "start"} => runner = "off"
TranscriptInv == InTranscript /\ RunnerIsWhere

(* Counting the cases with a code.                                           *)
LEMMA Counted == ASSUME Suite \in Seq(Cases), NEW n PROVE CasesWith(n) \in Nat /\ (CasesWith(n) = 0 => \A k \in DOMAIN Suite : Suite[k].code # n)
<1> DEFINE S == {k \in DOMAIN Suite : Suite[k].code = n}
<1>1. Len(Suite) \in Nat /\ DOMAIN Suite = 1..Len(Suite)
    BY LenProperties
<1>2. IsFiniteSet(1..Len(Suite))
    BY <1>1, FS_Interval
<1>3. S \subseteq 1..Len(Suite)
    BY <1>1
<1>4. IsFiniteSet(S)
    BY <1>2, <1>3, FS_Subset
<1>5. Cardinality(S) \in Nat /\ (Cardinality(S) = 0 <=> S = {})
    BY <1>4, FS_CardinalityType, FS_EmptySet
<1> QED BY <1>5 DEF CasesWith

(* The lines at the end of a run.                                            *)
LEMMA EndParsed ==
    ASSUME Suite \in Seq(Cases), NEW p \in Parses, NEW n \in 0..2, NEW q, q = ParseLine(p, EndLines[n + 1])
    PROVE  /\ q \in Parses /\ q.tests = p.tests /\ q.fields = p.fields
           /\ q.summary = IF n = 0 THEN <<TrueEnd>> ELSE p.summary
           /\ q.resultCode = IF n = 2 THEN <<0>> ELSE p.resultCode
           /\ Len(EndLines) = 3
<1>1. Len(EndLines) = 3 /\ EndLines[1] = [is |-> "result", value |-> TrueEnd] /\ EndLines[3] = [is |-> "finished", value |-> 0]
    BY DEF EndLines, TrueEnd
<1>2. PICK v \in Int : EndLines[2] = [is |-> "report", value |-> v]
    <2>1. EndLines[2] = [is |-> "report", value |-> IF CasesWith(0) = Len(Suite) THEN 0 ELSE -1]
        BY DEF EndLines
    <2> QED BY <2>1
<1>3. TrueEnd \in Ends_
    BY Counted, LenProperties DEF TrueEnd, Ends_
<1>4. <<TrueEnd>> \in Seq(Ends_) /\ <<v>> \in Seq(Int) /\ <<0>> \in Seq(Int)
    BY <1>3
<1>p. /\ p.tests \in Seq(ToldCases) /\ p.fields \in [Keys -> Seq(Words)] /\ p.lastKey \in Words
      /\ p.summary \in Seq(Ends_) /\ p.reportCode \in Seq(Int) /\ p.resultCode \in Seq(Int)
    BY DEF Parses
<1> DEFINE line == EndLines[n + 1]
           seq == <<TrueEnd>>
<1>q. q = ParseLine(p, line)
    OBVIOUS
<1> HIDE DEF line
<1>5. CASE n = 0
    <2>0. line = [is |-> "result", value |-> TrueEnd]
        BY <1>5, <1>1 DEF line
    <2>1. q = [p EXCEPT !.summary = seq]
        BY <1>q, <2>0 DEF ParseLine
    <2>2. seq \in Seq(Ends_)
        BY <1>4
    <2> HIDE DEF seq
    <2>3. q \in Parses /\ q.tests = p.tests /\ q.fields = p.fields /\ q.summary = seq /\ q.resultCode = p.resultCode
        BY <2>1, <2>2, <1>p DEF Parses
    <2> QED BY <2>3, <1>1, <1>5 DEF seq
<1>6. CASE n = 1
    <2>0. line = [is |-> "report", value |-> v]
        BY <1>6, <1>2 DEF line
    <2> DEFINE code == <<v>>
    <2>1. q = [p EXCEPT !.reportCode = code]
        BY <1>q, <2>0 DEF ParseLine
    <2>2. code \in Seq(Int)
        BY <1>4
    <2> HIDE DEF code
    <2>3. q \in Parses /\ q.tests = p.tests /\ q.fields = p.fields /\ q.summary = p.summary /\ q.resultCode = p.resultCode
        BY <2>1, <2>2, <1>p DEF Parses
    <2> QED BY <2>3, <1>1, <1>6
<1>7. CASE n = 2
    <2>0. line = [is |-> "finished", value |-> 0]
        BY <1>7, <1>1 DEF line
    <2> DEFINE code == <<0>>
    <2>1. q = [p EXCEPT !.resultCode = code]
        BY <1>q, <2>0 DEF ParseLine
    <2>2. code \in Seq(Int)
        BY <1>4
    <2> HIDE DEF code
    <2>3. q \in Parses /\ q.tests = p.tests /\ q.fields = p.fields /\ q.summary = p.summary /\ q.resultCode = code
        BY <2>1, <2>2, <1>p DEF Parses
    <2> QED BY <2>3, <1>1, <1>7 DEF code
<1> QED BY <1>5, <1>6, <1>7

(* At the start nothing has been printed or parsed.                          *)
LEMMA TranscriptInit == TestInit => TranscriptInv
<1> SUFFICES ASSUME TestInit PROVE TranscriptInv
    OBVIOUS
<1>1. Suite \in Seq(Cases) /\ {"suite", "at", "ok", "picked", "build", "signs", "aborted"} \subseteq DOMAIN test
    BY SuitesAssumption DEF TestInit, Suite, Cases
<1>2. Len(Suite) \in Nat /\ DOMAIN Suite = 1..Len(Suite)
    BY <1>1, LenProperties
<1>3. Unparsed \in Parses /\ Unparsed.tests = <<>> /\ Unparsed.summary = <<>> /\ Unparsed.resultCode = <<>>
      /\ \A k \in Keys : Unparsed.fields[k] = <<>>
    <2>1. Fields \in [Keys -> Seq(Words)] /\ \A k \in Keys : Fields[k] = <<>>
        BY DEF Fields, Keys
    <2> QED BY <2>1, NoValueText DEF Unparsed, Parses
<1>4. ASSUME NEW c \in Cases PROVE InCase(Unparsed, c, 0)
    <2>1. c.stack \in Nat /\ c.message \in Nat
        BY DEF Cases
    <2>2. Unparsed.fields.test = <<>> /\ Unparsed.fields.stack = <<>> /\ Unparsed.fields.stream = <<>>
        BY <1>3 DEF Keys
    <2> QED BY <2>1, <2>2 DEF InCase
<1>5. printed = [part |-> 1, lines |-> 0] /\ runner = "off" /\ parsed = Unparsed
    BY DEF TestInit
<1>6. 1 \in DOMAIN Suite => InCase(Unparsed, Suite[1], 0) /\ 0 <= SizeOf(Suite[1]) + 6 /\ 0 <= SizeOf(Suite[1]) + 8
    <2>1. 1 \in DOMAIN Suite => Suite[1] \in Cases
        BY <1>1, <1>2, ElementOfSeq
    <2> QED BY <2>1, <1>4 DEF SizeOf, Cases
<1>7. InTranscript
    BY <1>1, <1>2, <1>3, <1>5, <1>6 DEF InTranscript, TranscriptTypes, ToldSoFar, InItsCase, AtItsEnd, Parts
<1> QED BY <1>2, <1>5, <1>7 DEF TranscriptInv, RunnerIsWhere, Parts

(* The runner prints a line, and the parser reads it.                        *)
LEMMA PrintsOneLine == ASSUME TranscriptInv, RunnerPrints PROVE TranscriptInv'
<1> DEFINE k == printed.part
           n == printed.lines
           c == Suite[k]
<1>1. /\ parsed \in Parses /\ Suite \in Seq(Cases) /\ printed \in [part : Nat \ {0}, lines : Nat] /\ k \in Nat \ {0} /\ n \in Nat
      /\ runner = "running" /\ test.at = "run" /\ test' = test /\ Suite' = Suite /\ Parts' = Parts /\ TrueEnd' = TrueEnd
    BY DEF TranscriptInv, InTranscript, TranscriptTypes, ToldSoFar, InItsCase, AtItsEnd, RunnerPrints, At, Suite, Parts, TrueEnd, CasesWith
<1>2. Len(Suite) \in Nat /\ DOMAIN Suite = 1..Len(Suite) /\ Parts = Len(Suite) + 1
    BY <1>1, LenProperties DEF Parts
<1>3. k <= Parts
    BY <1>1, <1>2 DEF TranscriptInv, RunnerIsWhere
<1>4. parsed' = ParseLine(parsed, Transcript(k)[n + 1])
      /\ printed' = (IF n + 1 < Len(Transcript(k)) THEN [printed EXCEPT !.lines = n + 1] ELSE [part |-> k + 1, lines |-> 0])
      /\ runner' = IF printed'.part > Parts THEN "finished" ELSE "running"
    BY DEF RunnerPrints
<1>t. /\ \A i \in 1..Len(parsed.tests) : parsed.tests[i] \in {ToldOf(Suite[i], NoValue), ToldOf(Suite[i], Suite[i].name)}
      /\ k \in DOMAIN Suite => /\ n <= SizeOf(c) + 8 /\ InCase(parsed, c, n)
                               /\ Len(parsed.tests) = IF n <= SizeOf(c) + 6 THEN k - 1 ELSE k
      /\ k > Len(Suite) => Len(parsed.tests) = Len(Suite)
      /\ k = Parts => n <= 2
      /\ parsed.summary = IF k > Parts \/ (k = Parts /\ n > 0) THEN <<TrueEnd>> ELSE <<>>
      /\ parsed.resultCode = IF k > Parts THEN <<0>> ELSE <<>>
    BY DEF TranscriptInv, InTranscript, TranscriptTypes, ToldSoFar, InItsCase, AtItsEnd
<1>u. parsed.tests \in Seq(ToldCases) /\ Len(parsed.tests) \in Nat
    BY <1>1, LenProperties DEF Parses
<1>5. CASE k \in DOMAIN Suite
    <2> DEFINE size == SizeOf(c)
    <2>1. c \in Cases /\ size \in Nat /\ c.name \in STRING
        <3>1. c \in Cases
            BY <1>1, <1>2, <1>5, ElementOfSeq
        <3> QED BY <3>1 DEF Cases, SizeOf
    <2>2. Transcript(k) = CaseLines(c)
        BY <1>5 DEF Transcript
    <2>3. Len(CaseLines(c)) = size + 9
        BY <2>1, LinesOfCase DEF SizeOf
    <2>4. n \in 0..(size + 8) /\ InCase(parsed, c, n) /\ Len(parsed.tests) = IF n <= size + 6 THEN k - 1 ELSE k
        BY <1>5, <1>1, <1>t, <2>1
    <2>5. n = size + 7 => parsed.tests # <<>>
        BY <2>4, <2>1, <1>1, <1>2, <1>5, EmptySeq
    <2>6. /\ parsed' \in Parses
          /\ n < size + 8 => InCase(parsed', c, n + 1)
          /\ n = size + 8 => parsed'.fields.test = <<>> /\ parsed'.fields.stack = <<>> /\ parsed'.fields.stream = <<>>
          /\ parsed'.tests = IF n = size + 6 THEN Append(parsed.tests, ToldOf(c, NoValue))
                             ELSE IF n = size + 7 THEN [parsed.tests EXCEPT ![Len(parsed.tests)].ms = c.name]
                             ELSE parsed.tests
          /\ parsed'.summary = parsed.summary /\ parsed'.resultCode = parsed.resultCode
        <3>1. parsed' = ParseLine(parsed, CaseLines(c)[n + 1])
            BY <1>4, <2>2
        <3>2. n \in 0..(c.stack + c.message + 8) /\ (n = c.stack + c.message + 7 => parsed.tests # <<>>)
            BY <2>4, <2>5 DEF SizeOf
        <3>3. parsed \in Parses /\ c \in Cases /\ InCase(parsed, c, n)
            BY <1>1, <2>1, <2>4
        <3> HIDE DEF c, n, size
        <3>4. LET s == c.stack + c.message IN
              /\ parsed' \in Parses
              /\ n < s + 8 => InCase(parsed', c, n + 1)
              /\ n = s + 8 => parsed'.fields.test = <<>> /\ parsed'.fields.stack = <<>> /\ parsed'.fields.stream = <<>>
              /\ parsed'.tests = IF n = s + 6 THEN Append(parsed.tests, ToldOf(c, NoValue))
                                 ELSE IF n = s + 7 THEN [parsed.tests EXCEPT ![Len(parsed.tests)].ms = c.name]
                                 ELSE parsed.tests
              /\ parsed'.summary = parsed.summary /\ parsed'.resultCode = parsed.resultCode
            BY <3>1, <3>2, <3>3, CaseParsed
        <3> QED BY <3>4 DEF size, SizeOf
    <2> HIDE DEF size
    <2>7. /\ Len(parsed'.tests) = IF n + 1 <= size + 6 THEN k - 1 ELSE k
          /\ \A i \in 1..Len(parsed'.tests) : parsed'.tests[i] \in {ToldOf(Suite[i], NoValue), ToldOf(Suite[i], Suite[i].name)}
        <3>1. CASE n = size + 6
            <4>1. ToldOf(c, NoValue) \in ToldCases
                BY <2>1, ToldTyped, NoValueText
            <4>2. parsed'.tests = Append(parsed.tests, ToldOf(c, NoValue)) /\ Len(parsed.tests) = k - 1
                BY <3>1, <2>1, <2>4, <2>6
            <4>3. /\ Len(parsed'.tests) = k
                  /\ \A i \in 1..(k - 1) : parsed'.tests[i] = parsed.tests[i]
                  /\ parsed'.tests[k] = ToldOf(c, NoValue)
                BY <4>1, <4>2, <1>u, <1>1, AppendProperties
            <4> QED BY <4>2, <4>3, <3>1, <2>1, <1>1, <1>t
        <3>2. CASE n = size + 7
            <4>1. parsed'.tests = [parsed.tests EXCEPT ![k].ms = c.name] /\ Len(parsed.tests) = k
                BY <3>2, <2>1, <2>4, <2>6
            <4>2. parsed.tests[k] \in {ToldOf(c, NoValue), ToldOf(c, c.name)}
                BY <4>1, <1>1, <1>t
            <4>3. [parsed.tests[k] EXCEPT !.ms = c.name] = ToldOf(c, c.name)
                BY <4>2 DEF ToldOf
            <4>4. [parsed.tests EXCEPT ![k] = ToldOf(c, c.name)] = parsed'.tests
                BY <4>1, <4>3
            <4>5. ToldOf(c, c.name) \in ToldCases
                BY <2>1, ToldTyped DEF Words
            <4>6. /\ Len(parsed'.tests) = k
                  /\ \A i \in 1..k : parsed'.tests[i] = IF i = k THEN ToldOf(c, c.name) ELSE parsed.tests[i]
                BY <4>1, <4>4, <4>5, <1>u, <1>1, ExceptSeq
            <4>7. ~(n + 1 <= size + 6)
                BY <3>2, <2>1, <1>1
            <4>8. ASSUME NEW i \in 1..k PROVE parsed'.tests[i] \in {ToldOf(Suite[i], NoValue), ToldOf(Suite[i], Suite[i].name)}
                BY <4>1, <4>6, <1>t
            <4> QED BY <4>6, <4>7, <4>8
        <3>3. CASE n # size + 6 /\ n # size + 7
            <4>1. parsed'.tests = parsed.tests
                BY <3>3, <2>6
            <4>2. n + 1 <= size + 6 <=> n <= size + 6
                BY <3>3, <2>1, <1>1
            <4> QED BY <4>1, <4>2, <2>4, <1>t
        <3> QED BY <3>1, <3>2, <3>3
    <2>8. parsed'.summary = <<>> /\ parsed'.resultCode = <<>>
        BY <2>6, <1>t, <1>2, <1>5
    <2>9. CASE n < size + 8
        <3>1. printed' = [printed EXCEPT !.lines = n + 1]
            BY <1>4, <2>2, <2>3, <2>9, <2>1, <1>1
        <3>2. printed' \in [part : Nat \ {0}, lines : Nat] /\ printed'.part = k /\ printed'.lines = n + 1
            BY <3>1, <1>1
        <3>3. InCase(parsed', c, n + 1) /\ n + 1 <= size + 8
            BY <2>6, <2>9, <2>1, <1>1
        <3>4. InTranscript'
            <4>1. TranscriptTypes'
                BY <3>2, <3>3, <2>6, <2>7, <2>8, <1>1, <1>2, <1>5, <1>t DEF TranscriptInv, InTranscript, TranscriptTypes
            <4>2. ToldSoFar'
                BY <3>2, <3>3, <2>6, <2>7, <2>8, <1>1, <1>2, <1>5, <1>t DEF ToldSoFar, TranscriptInv, InTranscript, TranscriptTypes
            <4>3. InItsCase'
                BY <3>2, <3>3, <2>6, <2>7, <2>8, <1>1, <1>2, <1>5, <1>t DEF InItsCase, TranscriptInv, InTranscript, TranscriptTypes, size, SizeOf
            <4>4. AtItsEnd'
                BY <3>2, <2>8, <1>1, <1>2, <1>5 DEF AtItsEnd
            <4> QED BY <4>1, <4>2, <4>3, <4>4 DEF InTranscript
        <3> QED BY <3>2, <3>4, <1>1, <1>2, <1>3, <1>4, <1>5 DEF TranscriptInv, RunnerIsWhere
    <2>10. CASE n = size + 8
        <3>1. printed' = [part |-> k + 1, lines |-> 0] /\ Len(parsed'.tests) = k
            BY <1>4, <2>2, <2>3, <2>10, <2>1, <2>7, <1>1
        <3>2. printed' \in [part : Nat \ {0}, lines : Nat] /\ printed'.part = k + 1 /\ printed'.lines = 0
            BY <3>1, <1>1
        <3>3. ASSUME k + 1 \in DOMAIN Suite
              PROVE  InCase(parsed', Suite[k + 1], 0) /\ 0 <= SizeOf(Suite[k + 1]) + 6 /\ 0 <= SizeOf(Suite[k + 1]) + 8
            <4>1. Suite[k + 1] \in Cases
                BY <1>1, <1>2, <3>3, ElementOfSeq
            <4>2. parsed'.fields.test = <<>> /\ parsed'.fields.stack = <<>> /\ parsed'.fields.stream = <<>>
                BY <2>6, <2>10
            <4> QED BY <4>1, <4>2 DEF InCase, SizeOf, Cases
        <3>4. InTranscript'
            <4>1. TranscriptTypes'
                BY <3>1, <3>2, <3>3, <2>6, <2>7, <2>8, <1>1, <1>2, <1>5, <1>t DEF TranscriptInv, InTranscript, TranscriptTypes
            <4>2. ToldSoFar'
                BY <3>1, <3>2, <3>3, <2>6, <2>7, <2>8, <1>1, <1>2, <1>5, <1>t DEF ToldSoFar, TranscriptInv, InTranscript, TranscriptTypes
            <4>3. InItsCase'
                BY <3>1, <3>2, <3>3, <2>6, <2>7, <2>8, <1>1, <1>2, <1>5, <1>t DEF InItsCase, TranscriptInv, InTranscript, TranscriptTypes, size, SizeOf
            <4>4. AtItsEnd'
                BY <3>1, <3>2, <3>3, <2>6, <2>7, <2>8, <1>1, <1>2, <1>5, <1>t DEF AtItsEnd, TranscriptInv, InTranscript, TranscriptTypes
            <4> QED BY <4>1, <4>2, <4>3, <4>4 DEF InTranscript
        <3> QED BY <3>2, <3>4, <1>1, <1>2, <1>3, <1>4, <1>5 DEF TranscriptInv, RunnerIsWhere
    <2> QED BY <2>4, <2>9, <2>10, <2>1
<1>6. CASE k = Parts
    <2>1. k \notin DOMAIN Suite /\ Transcript(k) = EndLines /\ n \in 0..2
        BY <1>1, <1>2, <1>6, <1>t DEF Transcript
    <2>2. /\ parsed' \in Parses /\ parsed'.tests = parsed.tests
          /\ parsed'.summary = IF n = 0 THEN <<TrueEnd>> ELSE parsed.summary
          /\ parsed'.resultCode = IF n = 2 THEN <<0>> ELSE parsed.resultCode
          /\ Len(EndLines) = 3
        <3>1. parsed' = ParseLine(parsed, EndLines[n + 1])
            BY <2>1, <1>4
        <3> HIDE DEF n
        <3> QED BY <3>1, <2>1, <1>1, EndParsed
    <2>3. parsed'.summary = <<TrueEnd>> /\ parsed'.resultCode = (IF n = 2 THEN <<0>> ELSE <<>>) /\ Len(parsed'.tests) = Len(Suite)
        BY <2>1, <2>2, <1>t, <1>2, <1>6
    <2>4. CASE n < 2
        <3>1. printed' = [printed EXCEPT !.lines = n + 1]
            BY <1>4, <2>1, <2>2, <2>4
        <3>2. printed' \in [part : Nat \ {0}, lines : Nat] /\ printed'.part = k /\ printed'.lines = n + 1
            BY <3>1, <1>1
        <3>3. InTranscript'
            <4>1. TranscriptTypes'
                BY <3>2, <2>1, <2>2, <2>3, <2>4, <1>t, <1>1, <1>2, <1>6 DEF TranscriptInv, InTranscript, TranscriptTypes
            <4>2. ToldSoFar'
                BY <3>2, <2>1, <2>2, <2>3, <2>4, <1>t, <1>1, <1>2, <1>6 DEF ToldSoFar, TranscriptInv, InTranscript, TranscriptTypes
            <4>3. InItsCase'
                BY <3>2, <2>1, <2>2, <2>3, <2>4, <1>t, <1>1, <1>2, <1>6 DEF InItsCase, TranscriptInv, InTranscript, TranscriptTypes, SizeOf
            <4>4. AtItsEnd'
                BY <3>2, <2>1, <2>3, <2>4, <1>1, <1>2, <1>6 DEF AtItsEnd
            <4> QED BY <4>1, <4>2, <4>3, <4>4 DEF InTranscript
        <3> QED BY <3>2, <3>3, <1>1, <1>2, <1>4, <1>6 DEF TranscriptInv, RunnerIsWhere
    <2>5. CASE n = 2
        <3>1. printed' = [part |-> k + 1, lines |-> 0]
            BY <1>4, <2>1, <2>2, <2>5
        <3>2. printed' \in [part : Nat \ {0}, lines : Nat] /\ printed'.part = k + 1 /\ printed'.lines = 0
            BY <3>1, <1>1
        <3>3. InTranscript'
            <4>1. TranscriptTypes'
                BY <3>2, <2>2, <1>1, <1>2, <1>6 DEF TranscriptInv, InTranscript, TranscriptTypes
            <4>2. ToldSoFar'
                BY <3>2, <2>1, <2>2, <2>3, <2>5, <1>t, <1>1, <1>2, <1>6 DEF ToldSoFar, TranscriptInv, InTranscript, TranscriptTypes
            <4>3. InItsCase'
                BY <3>2, <1>1, <1>2, <1>6 DEF InItsCase
            <4>4. AtItsEnd'
                BY <3>2, <2>3, <2>5, <1>1, <1>2, <1>6 DEF AtItsEnd
            <4> QED BY <4>1, <4>2, <4>3, <4>4 DEF InTranscript
        <3> QED BY <3>2, <3>3, <1>1, <1>2, <1>4, <1>6 DEF TranscriptInv, RunnerIsWhere
    <2> QED BY <2>1, <2>4, <2>5
<1> QED BY <1>1, <1>2, <1>3, <1>5, <1>6

(* Nothing but the runner's printing changes what is parsed.                 *)
LEMMA TranscriptNext == TranscriptInv /\ [TestNext]_testVars => TranscriptInv'
<1> SUFFICES ASSUME TranscriptInv, [TestNext]_testVars PROVE TranscriptInv'
    OBVIOUS
<1>1. {"suite", "at", "ok", "picked", "build", "signs", "aborted"} \subseteq DOMAIN test
    BY DEF TranscriptInv, InTranscript, TranscriptTypes
<1>2. ASSUME UNCHANGED <<printed, parsed>>, test'.suite = test.suite, DOMAIN test' = DOMAIN test, RunnerIsWhere'
      PROVE  TranscriptInv'
    <2>1. Suite' = Suite /\ Parts' = Parts /\ TrueEnd' = TrueEnd
        BY <1>2 DEF Suite, Parts, TrueEnd, CasesWith
    <2>2. TranscriptTypes'
        BY <1>2, <2>1 DEF TranscriptInv, InTranscript, TranscriptTypes
    <2>3. ToldSoFar'
        BY <1>2, <2>1 DEF TranscriptInv, InTranscript, ToldSoFar
    <2>4. InItsCase'
        BY <1>2, <2>1 DEF TranscriptInv, InTranscript, InItsCase
    <2>5. AtItsEnd'
        BY <1>2, <2>1 DEF TranscriptInv, InTranscript, AtItsEnd
    <2> QED BY <2>2, <2>3, <2>4, <2>5, <1>2 DEF TranscriptInv, InTranscript
<1>3. RunnerIsWhere
    BY DEF TranscriptInv
<1>4. ASSUME UNCHANGED <<printed, parsed>>, test'.suite = test.suite, DOMAIN test' = DOMAIN test,
             runner' = runner \/ (runner \in {"off", "running"} /\ runner' \in {"off", "running", "crashed"}),
             test'.at \in {"buildMain", "buildTest", "pick", "installMain", "installTest", "wake", "start"} =>
                test.at \in {"buildMain", "buildTest", "pick", "installMain", "installTest", "wake", "start"} /\ runner' = runner
      PROVE  TranscriptInv'
    <2>1. Parts' = Parts
        BY <1>4 DEF Parts, Suite
    <2>2. RunnerIsWhere'
        BY <1>3, <1>4, <2>1 DEF RunnerIsWhere
    <2> QED BY <1>2, <1>4, <2>2
<1> HIDE DEF TranscriptInv
<1> USE DEF Step, Report, Throw, Reported, Thrown, StillBefore, At
<1>11. CASE BuildMain
    BY <1>11, <1>1, <1>4 DEF BuildMain, Builds
<1>12. CASE BuildTest
    BY <1>12, <1>1, <1>4 DEF BuildTest, Builds
<1>13. CASE Pick
    BY <1>13, <1>1, <1>4 DEF Pick
<1>14. CASE InstallMain
    BY <1>14, <1>1, <1>4 DEF InstallMain
<1>15. CASE InstallTest
    BY <1>15, <1>1, <1>4 DEF InstallTest
<1>16. CASE Hold
    BY <1>16, <1>1, <1>4 DEF Hold
<1>17. CASE StartRunner
    BY <1>17, <1>1, <1>3, <1>4 DEF StartRunner, RunnerIsWhere
<1>18. CASE RunnerPrints
    BY <1>18, PrintsOneLine
<1>19. CASE RunnerCrashes
    BY <1>19, <1>1, <1>3, <1>4 DEF RunnerCrashes, RunnerIsWhere
<1>20. CASE PollPid
    BY <1>20, <1>1, <1>4 DEF PollPid
<1>21. CASE AbortTest
    BY <1>21, <1>1, <1>4 DEF AbortTest
<1>22. CASE RunEnds
    BY <1>22, <1>1, <1>4 DEF RunEnds, Leave
<1>23. CASE RunFails
    <2>1. UNCHANGED <<printed, parsed, runner>>
        BY <1>23 DEF RunFails, Leave
    <2>2. test'.suite = test.suite /\ DOMAIN test' = DOMAIN test /\ test'.at = "reported"
        <3>1. test' = Reported("runner-error") \/ test' = [Reported("runner-error") EXCEPT !.lost = TRUE]
            BY <1>23 DEF RunFails, Leave
        <3> QED BY <3>1, <1>1
    <2> QED BY <2>1, <2>2, <1>4
<1>24. CASE RunCancelled
    BY <1>24, <1>1, <1>4 DEF RunCancelled, Leave
<1>25. CASE UNCHANGED testVars
    BY <1>25, <1>4 DEF testVars
<1> QED BY <1>11, <1>12, <1>13, <1>14, <1>15, <1>16, <1>17, <1>18, <1>19, <1>20, <1>21, <1>22, <1>23, <1>24, <1>25 DEF TestNext

(* What a test report lists is what the runner said before it went.          *)
THEOREM ReportIsTheRunner == TestSpec => []ReportIsTheRun
<1>1. ASSUME TranscriptInv PROVE ReportIsTheRun
    <2>1. /\ parsed \in Parses /\ Suite \in Seq(Cases) /\ printed.part \in Nat \ {0}
          /\ printed.lines \in Nat /\ printed.part <= Parts + 1
        BY <1>1 DEF TranscriptInv, InTranscript, TranscriptTypes
    <2>2. Len(Suite) \in Nat /\ DOMAIN Suite = 1..Len(Suite) /\ Parts = Len(Suite) + 1
        BY <2>1, LenProperties DEF Parts
    <2>3. DOMAIN parsed.tests = 1..Len(parsed.tests)
        BY <2>1, LenProperties DEF Parses
    <2>4. Len(parsed.tests) <= Len(Suite)
        BY <1>1, <2>1, <2>2 DEF TranscriptInv, InTranscript, InItsCase, AtItsEnd, SizeOf
    <2>5. ASSUME NEW k \in DOMAIN parsed.tests
          PROVE  \E ms \in {NoValue, Suite[k].name} :
                   parsed.tests[k] = [name |-> <<Suite[k].name>>, status |-> statusFromCode(Suite[k].code),
                                      stack |-> Suite[k].stack, message |-> Suite[k].message, ms |-> ms]
        BY <1>1, <2>3 DEF TranscriptInv, InTranscript, ToldSoFar, ToldOf
    <2> QED BY <2>4, <2>5 DEF ReportIsTheRun
<1> QED BY <1>1, TranscriptInit, TranscriptNext, PTL DEF TestSpec

(* The HAPs a pass ran: built here if the run builds, and both on the device.*)
Fresh(t) == built[t][IF test.signs THEN "signed" ELSE "unsigned"] = "new"
Ready == {"installMain", "installTest", "wake", "start", "run"}
HapsAre ==
    /\ built \in [TestTargets -> [signed : {NoValue, "old", "new"}, unsigned : {NoValue, "new"}]]
    /\ {"main", "test", "held"} \subseteq DOMAIN phone
    /\ ~test.signs => \A t \in TestTargets : built[t].signed = NoValue
    /\ test.build /\ test.at \in {"buildTest", "pick"} => Fresh("main")
    /\ test.build /\ test.at = "pick" => Fresh("test")
    /\ test.build /\ (test.at \in Ready \/ test.ok) => test.picked.main = "new" /\ test.picked.test = "new"
    /\ test.at = "installTest" => phone.main = test.picked.main
    /\ test.at \in {"wake", "start", "run"} \/ test.ok => phone.main = test.picked.main /\ phone.test = test.picked.test
OkIsWhole == test.ok => /\ test.at = "reported" /\ runner = "finished"
                        /\ CasesWith(-2) = 0 /\ CasesWith(-1) = 0
PassInv == HapsAre /\ OkIsWhole

(* A run starts with no HAP of its own.                                      *)
LEMMA PassInit == ASSUME ~SigningChanges PROVE TestInit => PassInv
<1> SUFFICES ASSUME TestInit PROVE PassInv
    OBVIOUS
<1>1. PICK build, signs, old \in BOOLEAN, suite \in Suites :
         /\ ~old \/ signs
         /\ test = [at |-> IF build THEN "buildMain" ELSE "pick", suite |-> suite, build |-> build, signs |-> signs, picked |-> NoHap,
                    restore |-> FALSE, lost |-> FALSE, aborted |-> FALSE, ok |-> FALSE, outcome |-> NoValue]
         /\ built = [t \in TestTargets |-> [signed |-> IF old THEN "old" ELSE NoValue, unsigned |-> NoValue]]
    BY DEF TestInit
<1>2. phone = [main |-> NoValue, test |-> NoValue, held |-> FALSE]
    BY DEF TestInit
<1>3. built \in [TestTargets -> [signed : {NoValue, "old", "new"}, unsigned : {NoValue, "new"}]]
    BY <1>1
<1> QED BY <1>1, <1>2, <1>3 DEF PassInv, HapsAre, OkIsWhole, Fresh, Ready

(* Each step of a test run keeps what a pass rests on.                       *)
LEMMA PassNext == TranscriptInv /\ PassInv /\ [TestNext]_testVars => PassInv'
<1> SUFFICES ASSUME TranscriptInv, PassInv, [TestNext]_testVars PROVE PassInv'
    OBVIOUS
<1>1. {"suite", "at", "ok", "picked", "build", "signs", "aborted"} \subseteq DOMAIN test
    BY DEF TranscriptInv, InTranscript, TranscriptTypes
<1>2. HapsAre /\ OkIsWhole
    BY DEF PassInv
<1>3. ASSUME ~test'.ok PROVE OkIsWhole'
    BY <1>3 DEF OkIsWhole
<1>4. ASSUME UNCHANGED <<runner, test>> PROVE OkIsWhole'
    BY <1>4, <1>2 DEF OkIsWhole, CasesWith, Suite
<1> HIDE DEF TranscriptInv, PassInv
<1> USE DEF Step, Report, Throw, Reported, Thrown, StillBefore, At
<1>5. ASSUME NEW where, NEW target \in TestTargets, NEW then, Builds(where, target, then),
             <<where, target, then>> \in {<<"buildMain", "main", "buildTest">>, <<"buildTest", "test", "pick">>}
      PROVE  PassInv'
    <2>1. test.at = where /\ ~test.ok
        BY <1>2, <1>5 DEF Builds, OkIsWhole
    <2>2. CASE test'.at = then /\ UNCHANGED phone /\ built' = [built EXCEPT ![target][IF test.signs THEN "signed" ELSE "unsigned"] = "new"]
               /\ test' = [test EXCEPT !.at = then]
        <3>1. built' \in [TestTargets -> [signed : {NoValue, "old", "new"}, unsigned : {NoValue, "new"}]]
            BY <2>2, <1>2 DEF HapsAre
        <3>2. ~test.ok /\ test'.ok = test.ok /\ test'.build = test.build /\ test'.signs = test.signs /\ test'.picked = test.picked
            BY <2>1, <2>2, <1>1
        <3>3. built'[target][IF test.signs THEN "signed" ELSE "unsigned"] = "new"
              /\ (~test.signs => built'[target].signed = built[target].signed)
              /\ \A t \in TestTargets \ {target} : built'[t] = built[t]
            BY <2>2, <1>2 DEF HapsAre
        <3>4. HapsAre'
            BY <3>1, <3>2, <3>3, <2>1, <2>2, <1>2, <1>5 DEF HapsAre, Fresh, Ready, TestTargets
        <3> QED BY <3>2, <3>4, <1>3 DEF PassInv
    <2>3. CASE UNCHANGED <<phone, built>> /\ (Report("runner-error") \/ Throw)
        BY <2>1, <2>3, <1>1, <1>2, <1>3 DEF PassInv, HapsAre, Fresh, Ready
    <2> QED BY <2>1, <2>2, <2>3, <1>5, <1>1 DEF Builds
<1>11. CASE BuildMain
    BY <1>11, <1>5 DEF BuildMain, TestTargets
<1>12. CASE BuildTest
    BY <1>12, <1>5 DEF BuildTest, TestTargets
<1>13. CASE Pick
    <2>1. test.at = "pick" /\ ~test.ok /\ UNCHANGED <<built, phone>>
        BY <1>13, <1>2 DEF Pick, OkIsWhole
    <2>2. CASE Report("runner-error")
        BY <2>1, <2>2, <1>1, <1>2, <1>3 DEF PassInv, HapsAre, Fresh, Ready
    <2>3. CASE test' = [test EXCEPT !.at = "installMain", !.picked = [t \in TestTargets |-> pick(t)]]
        <3>1. test'.at = "installMain" /\ ~test'.ok /\ test'.build = test.build /\ test'.signs = test.signs
              /\ test'.picked = [t \in TestTargets |-> pick(t)]
            BY <2>1, <2>3, <1>1
        <3>2. ASSUME test.build PROVE pick("main") = "new" /\ pick("test") = "new"
            BY <3>2, <2>1, <1>2 DEF HapsAre, Fresh, pick, TestTargets, NoValue
        <3> QED BY <3>1, <3>2, <2>1, <1>2, <1>3 DEF PassInv, HapsAre, Fresh, Ready, TestTargets
    <2> QED BY <2>2, <2>3, <1>13 DEF Pick
<1>14. CASE InstallMain
    <2>1. test.at = "installMain" /\ ~test.ok /\ built' = built
        BY <1>14, <1>2 DEF InstallMain, OkIsWhole
    <2>2. CASE Report("runner-error") /\ \E gone \in BOOLEAN :
                   phone' = IF gone THEN [phone EXCEPT !.main = NoValue, !.test = NoValue] ELSE phone
        BY <2>1, <2>2, <1>1, <1>2, <1>3 DEF PassInv, HapsAre, Fresh, Ready
    <2>3. CASE test' = [test EXCEPT !.at = "installTest"] /\ \E reinstalls \in BOOLEAN :
                   phone' = [phone EXCEPT !.main = test.picked.main, !.test = IF reinstalls THEN NoValue ELSE @]
        BY <2>1, <2>3, <1>1, <1>2, <1>3 DEF PassInv, HapsAre, Fresh, Ready
    <2> QED BY <2>2, <2>3, <1>14 DEF InstallMain
<1>15. CASE InstallTest
    <2>1. test.at = "installTest" /\ ~test.ok /\ built' = built
        BY <1>15, <1>2 DEF InstallTest, OkIsWhole
    <2>2. CASE (Report("runner-error") \/ Throw) /\ UNCHANGED phone
        BY <2>1, <2>2, <1>1, <1>2, <1>3 DEF PassInv, HapsAre, Fresh, Ready
    <2>3. CASE test' = [test EXCEPT !.at = "wake"] /\ phone' = [phone EXCEPT !.test = test.picked.test]
        BY <2>1, <2>3, <1>1, <1>2, <1>3 DEF PassInv, HapsAre, Fresh, Ready
    <2> QED BY <2>2, <2>3, <1>15 DEF InstallTest
<1>16. CASE Hold
    <2>1. test.at = "wake" /\ ~test.ok /\ built' = built
        BY <1>16, <1>2 DEF Hold, OkIsWhole
    <2> QED BY <2>1, <1>16, <1>1, <1>2, <1>3 DEF Hold, PassInv, HapsAre, Fresh, Ready
<1>17. CASE StartRunner
    <2>1. test.at = "start" /\ ~test.ok /\ UNCHANGED <<built, phone>>
        BY <1>17, <1>2 DEF StartRunner, OkIsWhole
    <2> QED BY <2>1, <1>17, <1>1, <1>2, <1>3 DEF StartRunner, PassInv, HapsAre, Fresh, Ready
<1>6. ASSUME UNCHANGED <<test, built, phone>> PROVE HapsAre'
    BY <1>2, <1>6 DEF HapsAre, Fresh
<1>18. CASE RunnerPrints
    BY <1>18, <1>2, <1>3, <1>6 DEF RunnerPrints, PassInv, OkIsWhole
<1>19. CASE RunnerCrashes
    BY <1>19, <1>2, <1>3, <1>6 DEF RunnerCrashes, PassInv, OkIsWhole
<1>20. CASE PollPid
    BY <1>20, <1>4, <1>6 DEF PollPid, PassInv
<1>21. CASE AbortTest
    BY <1>21, <1>1, <1>2, <1>3 DEF AbortTest, PassInv, HapsAre, OkIsWhole, Fresh, Ready
<1>22. CASE RunEnds
    <2>1. /\ test.at = "run" /\ UNCHANGED <<built, runner>> /\ \E held \in {phone.held, FALSE} : phone' \in {phone, [phone EXCEPT !.held = held]}
          /\ \E unheard \in {test.lost, TRUE} : test' = [test EXCEPT !.at = "reported", !.outcome = decideOutcome(parsed),
                                                         !.ok = decideOutcome(parsed) = "passed", !.lost = unheard]
        <3>1. CASE test' = Reported(decideOutcome(parsed)) /\ phone' = [phone EXCEPT !.held = @ /\ ~test.restore]
            BY <1>22, <3>1, <1>1, <1>2 DEF RunEnds, Leave, HapsAre
        <3>2. CASE test' = [Reported(decideOutcome(parsed)) EXCEPT !.lost = TRUE] /\ UNCHANGED phone
            BY <1>22, <3>2, <1>1 DEF RunEnds, Leave
        <3> QED BY <3>1, <3>2, <1>22 DEF RunEnds, Leave
    <2>2. test'.at = "reported" /\ test'.suite = test.suite /\ test'.build = test.build /\ test'.signs = test.signs
          /\ test'.picked = test.picked /\ test'.ok = (decideOutcome(parsed) = "passed")
          /\ phone'.main = phone.main /\ phone'.test = phone.test /\ DOMAIN phone' = DOMAIN phone
        BY <2>1, <1>1, <1>2 DEF HapsAre
    <2>3. HapsAre'
        BY <2>1, <2>2, <1>2 DEF HapsAre, Fresh, Ready
    <2>4. ASSUME decideOutcome(parsed) = "passed" PROVE runner = "finished" /\ CasesWith(-2) = 0 /\ CasesWith(-1) = 0
        <3>1. parsed.resultCode = <<0>> /\ ~(Summary(parsed).fail > 0 \/ Summary(parsed).error > 0)
            BY <2>4 DEF decideOutcome
        <3>2. <<0>> # <<>>
            OBVIOUS
        <3>3. printed.part > Parts
            BY <3>1, <3>2 DEF TranscriptInv, InTranscript, AtItsEnd
        <3>4. runner = "finished" /\ parsed.summary = <<TrueEnd>>
            BY <3>3 DEF TranscriptInv, InTranscript, AtItsEnd, RunnerIsWhere
        <3>5. Summary(parsed) = TrueEnd
            BY <3>4 DEF Summary
        <3>6. CasesWith(-2) \in Nat /\ CasesWith(-1) \in Nat
            BY Counted DEF TranscriptInv, InTranscript, TranscriptTypes
        <3> QED BY <3>1, <3>4, <3>5, <3>6 DEF TrueEnd
    <2>5. CasesWith(-2)' = CasesWith(-2) /\ CasesWith(-1)' = CasesWith(-1)
        BY <2>2 DEF CasesWith, Suite
    <2>6. OkIsWhole'
        BY <2>1, <2>2, <2>4, <2>5 DEF OkIsWhole
    <2> QED BY <2>3, <2>6 DEF PassInv
<1>23. CASE RunFails
    <2>1. test.at = "run" /\ ~test.ok /\ UNCHANGED built
        BY <1>23, <1>2 DEF RunFails, Leave, OkIsWhole
    <2> QED BY <2>1, <1>23, <1>1, <1>2, <1>3 DEF RunFails, Leave, PassInv, HapsAre, Fresh, Ready
<1>24. CASE RunCancelled
    <2>1. test.at = "run" /\ ~test.ok /\ UNCHANGED built
        BY <1>24, <1>2 DEF RunCancelled, Leave, OkIsWhole
    <2> QED BY <2>1, <1>24, <1>1, <1>2, <1>3 DEF RunCancelled, Leave, PassInv, HapsAre, Fresh, Ready
<1>25. CASE UNCHANGED testVars
    BY <1>25, <1>4, <1>6 DEF testVars, PassInv
<1> QED BY <1>11, <1>12, <1>13, <1>14, <1>15, <1>16, <1>17, <1>18, <1>19, <1>20, <1>21, <1>22, <1>23, <1>24, <1>25 DEF TestNext

(* A pass is a whole run, in which no case failed, of the HAPs that were     *)
(* picked, and of those built here if any was built.                         *)
THEOREM PassIsWhole == ASSUME ~SigningChanges PROVE TestSpec => []PassedIsWhole
<1>1. ASSUME TranscriptInv, PassInv PROVE PassedIsWhole
    <2> SUFFICES ASSUME test.ok PROVE PassedIsWhole
        BY DEF PassedIsWhole
    <2>1. parsed \in Parses /\ Suite \in Seq(Cases) /\ printed.part \in Nat /\ Len(Suite) \in Nat /\ DOMAIN Suite = 1..Len(Suite)
        BY <1>1, LenProperties DEF TranscriptInv, InTranscript, TranscriptTypes
    <2>2. runner = "finished" /\ printed.part > Parts /\ Len(parsed.tests) = Len(Suite)
        BY <1>1, <2>1 DEF TranscriptInv, InTranscript, AtItsEnd, RunnerIsWhere, PassInv, OkIsWhole, Parts
    <2>3. \A k \in DOMAIN Suite : Suite[k].code # -2 /\ Suite[k].code # -1
        BY <1>1, <2>1, Counted DEF PassInv, OkIsWhole
    <2>4. \A c \in ToSet(Suite) : c.code \notin {-2, -1}
        BY <2>3 DEF ToSet
    <2>5. phone.main = test.picked.main /\ phone.test = test.picked.test /\ (test.build => phone.main = "new" /\ phone.test = "new")
        BY <1>1 DEF PassInv, HapsAre
    <2> QED BY <2>2, <2>4, <2>5 DEF PassedIsWhole
<1> QED BY <1>1, TranscriptInit, TranscriptNext, PassInit, PassNext, PTL DEF TestSpec

------------------------------------------------------------------------------
(* Small sets.                                                               *)
LEMMA AtMostTwo == ASSUME NEW S, NEW a, NEW b, S \subseteq {a, b} PROVE IsFiniteSet(S) /\ Cardinality(S) \in Nat /\ Cardinality(S) <= 2
<1>1. IsFiniteSet({a}) /\ Cardinality({a}) = 1
    BY FS_Singleton
<1>2. IsFiniteSet({a} \cup {b}) /\ Cardinality({a} \cup {b}) <= 2
    BY <1>1, FS_AddElement
<1>3. S \in SUBSET ({a} \cup {b})
    OBVIOUS
<1>4. IsFiniteSet(S) /\ Cardinality(S) <= Cardinality({a} \cup {b})
    BY <1>2, <1>3, FS_Subset
<1>5. Cardinality(S) \in Nat /\ Cardinality({a} \cup {b}) \in Nat
    BY <1>2, <1>4, FS_CardinalityType
<1> QED BY <1>2, <1>4, <1>5

(* Two that differ make two.                                                 *)
LEMMA AtLeastTwo == ASSUME NEW S, IsFiniteSet(S), NEW a \in S, NEW b \in S, a # b PROVE Cardinality(S) >= 2
<1>1. IsFiniteSet({a}) /\ Cardinality({a}) = 1
    BY FS_Singleton
<1>2. IsFiniteSet({a} \cup {b}) /\ Cardinality({a} \cup {b}) = 2
    <2>1. b \notin {a}
        OBVIOUS
    <2>2. Cardinality({a} \cup {b}) = Cardinality({a}) + 1 /\ IsFiniteSet({a} \cup {b})
        BY <1>1, <2>1, FS_AddElement
    <2> QED BY <1>1, <2>2
<1>3. {a} \cup {b} \in SUBSET S
    OBVIOUS
<1>4. 2 <= Cardinality(S)
    BY <1>2, <1>3, FS_Subset
<1>5. Cardinality(S) \in Nat
    BY FS_CardinalityType
<1> QED BY <1>4, <1>5

(* Three that differ make three.                                             *)
LEMMA AtLeastThree == ASSUME NEW S, IsFiniteSet(S), NEW a \in S, NEW b \in S, NEW c \in S, a # b, a # c, b # c PROVE Cardinality(S) >= 3
<1>1. IsFiniteSet({a}) /\ Cardinality({a}) = 1
    BY FS_Singleton
<1>2. IsFiniteSet({a} \cup {b}) /\ Cardinality({a} \cup {b}) = 2
    <2>1. b \notin {a}
        OBVIOUS
    <2>2. Cardinality({a} \cup {b}) = Cardinality({a}) + 1 /\ IsFiniteSet({a} \cup {b})
        BY <1>1, <2>1, FS_AddElement
    <2> QED BY <1>1, <2>2
<1>3. IsFiniteSet({a} \cup {b} \cup {c}) /\ Cardinality({a} \cup {b} \cup {c}) = 3
    BY <1>2, FS_AddElement
<1>4. {a} \cup {b} \cup {c} \in SUBSET S
    OBVIOUS
<1>5. 3 <= Cardinality(S)
    BY <1>3, <1>4, FS_Subset
<1>6. Cardinality(S) \in Nat
    BY FS_CardinalityType
<1> QED BY <1>5, <1>6

(* An enumerated set is finite.                                              *)
LEMMA SetsOfFive == \A a, b, c, d, e : IsFiniteSet({a, b, c, d, e})
<1> TAKE a, b, c, d, e
<1>1. IsFiniteSet({a} \cup {b} \cup {c} \cup {d} \cup {e})
    <2>1. IsFiniteSet({a} \cup {b})
        BY FS_Singleton, FS_AddElement
    <2>2. IsFiniteSet({a} \cup {b} \cup {c})
        BY <2>1, FS_AddElement
    <2>3. IsFiniteSet({a} \cup {b} \cup {c} \cup {d})
        BY <2>2, FS_AddElement
    <2> QED BY <2>3, FS_AddElement
<1>2. {a} \cup {b} \cup {c} \cup {d} \cup {e} = {a, b, c, d, e}
    OBVIOUS
<1> QED BY <1>1, <1>2

------------------------------------------------------------------------------
(* Fault logs (FaultLog): what a text is classified as.                      *)
Deadly == {"cpp_crash", "js_crash", "app_freeze"}

(* The evidence for a kind is a finite set, so that it can be counted.       *)
LEMMA EvidenceFinite == ASSUME NEW kind \in Deadly, NEW t PROVE IsFiniteSet(Evidence(kind, t))
<1> DEFINE S == CASE kind = "cpp_crash"  -> {"reasonSignal", "registers", "faultThread", "lifeTime", "native"}
                  [] kind = "js_crash"   -> {"reasonJs", "errorMessage", "stacktrace", "jsFrame"}
                  [] kind = "app_freeze" -> {"event", "msg", "threads"}
<1>1. IsFiniteSet(S)
    <2>1. CASE kind = "cpp_crash"
        BY <2>1, SetsOfFive
    <2>2. CASE kind = "js_crash"
        <3>1. IsFiniteSet({"reasonJs", "errorMessage", "stacktrace", "jsFrame", "jsFrame"})
            BY SetsOfFive
        <3>2. {"reasonJs", "errorMessage", "stacktrace", "jsFrame", "jsFrame"} = {"reasonJs", "errorMessage", "stacktrace", "jsFrame"}
            OBVIOUS
        <3> QED BY <2>2, <3>1, <3>2
    <2>3. CASE kind = "app_freeze"
        <3>1. IsFiniteSet({"event", "msg", "threads", "threads", "threads"})
            BY SetsOfFive
        <3>2. {"event", "msg", "threads", "threads", "threads"} = {"event", "msg", "threads"}
            OBVIOUS
        <3> QED BY <2>3, <3>1, <3>2
    <2> QED BY <2>1, <2>2, <2>3 DEF Deadly
<1>2. Evidence(kind, t) = t \cap S
    BY DEF Evidence
<1> HIDE DEF S
<1> QED BY <1>1, <1>2, FS_Subset

(* A whole log that is classified from its evidence is of the kind it names: *)
(* only one kind of log has the lines that decide.                           *)
LEMMA HitsTheKind ==
    ASSUME NEW kind \in FaultKinds, NEW t \in SUBSET (WholeLog[kind] \cup {"event"}), full(t), NEW k \in Deadly, detect(k, t)
    PROVE  k = kind
<1>1. Decisive[k] \in t /\ Cardinality(Evidence(k, t)) >= 3
    BY DEF detect
<1>2. CASE k = "cpp_crash"
    BY <1>1, <1>2 DEF Decisive, WholeLog, FaultKinds, Header, RecordLines
<1>3. CASE k = "js_crash"
    BY <1>1, <1>3 DEF Decisive, WholeLog, FaultKinds, Header, RecordLines
<1>4. CASE k = "app_freeze"
    <2>1. "msg" \in t
        <3> SUFFICES ASSUME "msg" \notin t PROVE FALSE
            OBVIOUS
        <3>1. Evidence(k, t) \subseteq {"event", "threads"}
            BY <1>4 DEF Evidence
        <3>2. Cardinality(Evidence(k, t)) \in Nat /\ Cardinality(Evidence(k, t)) <= 2
            BY <3>1, AtMostTwo
        <3> QED BY <3>2, <1>1
    <2> QED BY <2>1, <1>4 DEF WholeLog, FaultKinds, Header, RecordLines
<1> QED BY <1>2, <1>3, <1>4 DEF Deadly

(* A text without markers has none of them twice.                            *)
LEMMA NoMarkers == ASSUME NEW t, t \cap {"marker1", "marker2", "marker3"} = {} PROVE ~(Markers(t) >= 2)
BY FS_EmptySet DEF Markers

(* The hits are the kinds that are detected.                                 *)
LEMMA HitsAre == ASSUME NEW t PROVE Hits(t) = {k \in Deadly : detect(k, t)}
<1>1. DOMAIN Decisive = Deadly
    BY DEF Decisive, Deadly
<1> QED BY <1>1 DEF Hits

(* A single hit decides.                                                     *)
LEMMA OneHit == ASSUME NEW t, NEW k \in Deadly, Hits(t) = {k} PROVE verdictFromHits(t) = Classified(k, confidenceFor(k, t))
<1>1. Cardinality(Hits(t)) = 1
    BY FS_Singleton
<1>2. (CHOOSE j \in Hits(t) : TRUE) = k
    OBVIOUS
<1> QED BY <1>1, <1>2 DEF verdictFromHits

(* What is told with confidence of a text that lost some of its lines.       *)
LEMMA Confident ==
    ASSUME NEW kind \in FaultKinds, NEW t \in SUBSET (WholeLog[kind] \cup {"event"}), classifyFaultLog(t).confidence = "high"
    PROVE  classifyFaultLog(t).kind = kind
<1>1. Hits(t) = {k \in Deadly : detect(k, t)}
    BY HitsAre
<1>2. ASSUME Hits(t) # {}, full(t) PROVE classifyFaultLog(t).kind = kind
    <2>1. Hits(t) = {kind} /\ kind \in Deadly
        BY <1>1, <1>2, HitsTheKind
    <2>2. classifyFaultLog(t) = Classified(kind, confidenceFor(kind, t))
        BY <1>2, <2>1, OneHit DEF classifyFaultLog
    <2> QED BY <2>2 DEF Classified
<1>3. ASSUME ~(Hits(t) # {} /\ full(t)) PROVE classifyFaultLog(t).kind = kind
    <2>1. CASE Markers(t) >= 2
        <3>1. classifyFaultLog(t).kind = "sample_stack"
            BY <1>3, <2>1 DEF classifyFaultLog, Classified
        <3>2. t \cap {"marker1", "marker2", "marker3"} # {}
            BY <2>1, NoMarkers
        <3>3. kind = "sample_stack"
            BY <3>2 DEF WholeLog, FaultKinds, Header, RecordLines
        <3> QED BY <3>1, <3>3
    <2>2. CASE ~(Markers(t) >= 2)
        <3>1. classifyFaultLog(t) = verdictFromHits(t)
            BY <1>3, <2>2 DEF classifyFaultLog
        <3>2. ASSUME Hits(t) = {} PROVE verdictFromHits(t) = Classified("unknown", "low")
            <4>1. Cardinality(Hits(t)) = 0
                BY <3>2, FS_EmptySet
            <4> QED BY <3>2, <4>1 DEF verdictFromHits
        <3>3. ASSUME ~full(t) PROVE verdictFromHits(t).confidence # "high"
            BY <3>3 DEF verdictFromHits, Classified, confidenceFor
        <3> QED BY <1>3, <3>1, <3>2, <3>3 DEF Classified
    <2> QED BY <2>1, <2>2
<1> QED BY <1>2, <1>3

(* A whole log, and a record, are told as what they are.                     *)
LEMMA WholeIsFull == ASSUME NEW t, "timestamp" \in t, "pid" \in t PROVE full(t)
<1> DEFINE S == Header \cup {"reasonSignal", "reasonJs", "registers", "faultThread", "lifeTime", "errorMessage", "stacktrace", "msg", "event"}
<1>1. IsFiniteSet(S)
    <2>1. IsFiniteSet({"reasonSignal", "reasonJs", "registers", "faultThread", "lifeTime"}) /\ IsFiniteSet({"errorMessage", "stacktrace", "msg", "event", "event"})
          /\ IsFiniteSet({"timestamp", "pid", "pid", "pid", "pid"})
        BY SetsOfFive
    <2>2. IsFiniteSet(({"reasonSignal", "reasonJs", "registers", "faultThread", "lifeTime"} \cup {"errorMessage", "stacktrace", "msg", "event", "event"})
                      \cup {"timestamp", "pid", "pid", "pid", "pid"})
        BY <2>1, FS_Union
    <2>3. S = ({"reasonSignal", "reasonJs", "registers", "faultThread", "lifeTime"} \cup {"errorMessage", "stacktrace", "msg", "event", "event"})
                      \cup {"timestamp", "pid", "pid", "pid", "pid"}
        BY DEF Header
    <2> QED BY <2>2, <2>3
<1>2. "timestamp" \in t \cap S /\ "pid" \in t \cap S
    BY DEF Header
<1> HIDE DEF S
<1>3. IsFiniteSet(t \cap S)
    BY <1>1, FS_Subset
<1>4. Cardinality(t \cap S) >= 2
    BY <1>2, <1>3, AtLeastTwo
<1> QED BY <1>4 DEF full, S

(* What a whole log of a fault is classified as.                             *)
LEMMA WholeIsKnown ==
    ASSUME NEW kind \in Deadly, NEW t, t \in SUBSET (WholeLog[kind] \cup {"event"}),
           \/ WholeLog[kind] \subseteq t
           \/ kind = "cpp_crash" /\ RecordLines \subseteq t
    PROVE  classifyFaultLog(t).kind = kind
<1>0. kind \in FaultKinds
    BY DEF Deadly, FaultKinds
<1>1. full(t)
    <2>1. "timestamp" \in t /\ "pid" \in t
        BY DEF WholeLog, Deadly, Header, RecordLines
    <2> QED BY <2>1, WholeIsFull
<1>2. Cardinality(Evidence(kind, t)) >= 3 /\ Decisive[kind] \in t
    <2>0. IsFiniteSet(Evidence(kind, t))
        BY EvidenceFinite
    <2>1. CASE kind = "cpp_crash"
        <3>1. "reasonSignal" \in Evidence(kind, t) /\ "registers" \in Evidence(kind, t) /\ "faultThread" \in Evidence(kind, t)
            BY <2>1 DEF WholeLog, RecordLines, Evidence
        <3> QED BY <2>0, <2>1, <3>1, AtLeastThree DEF Decisive, Evidence
    <2>2. CASE kind = "js_crash"
        <3>1. "reasonJs" \in Evidence(kind, t) /\ "errorMessage" \in Evidence(kind, t) /\ "stacktrace" \in Evidence(kind, t)
            BY <2>2 DEF WholeLog, Evidence
        <3> QED BY <2>0, <2>2, <3>1, AtLeastThree DEF Decisive, Evidence
    <2>3. CASE kind = "app_freeze"
        <3>1. "event" \in Evidence(kind, t) /\ "msg" \in Evidence(kind, t) /\ "threads" \in Evidence(kind, t)
            BY <2>3 DEF WholeLog, Evidence
        <3> QED BY <2>0, <2>3, <3>1, AtLeastThree DEF Decisive, Evidence
    <2> QED BY <2>1, <2>2, <2>3 DEF Deadly
<1>3. detect(kind, t)
    BY <1>1, <1>2 DEF detect
<1>4. Hits(t) = {kind}
    BY <1>0, <1>1, <1>3, HitsAre, HitsTheKind
<1>5. classifyFaultLog(t) = Classified(kind, confidenceFor(kind, t))
    BY <1>1, <1>4, OneHit DEF classifyFaultLog
<1> QED BY <1>5 DEF Classified

------------------------------------------------------------------------------
(* The search for the newest fault (FaultLog).                               *)
Deaths == [kind : FaultKinds, module : Bundles]
SearchTyped ==
    /\ {"at", "bundle", "window", "clock", "logs", "steady", "polls", "entry", "answer"} \subseteq DOMAIN search
    /\ faults \in Seq(Deaths) /\ records \subseteq 1..Len(faults) /\ logs \subseteq 1..Len(faults)
    /\ search.logs \subseteq 1..Len(faults) /\ search.steady \subseteq 1..Len(faults) /\ search.window \in Nat
(* Records are of native crashes, and nothing dies of a sample.              *)
KindsKnown ==
    /\ \A f \in records : faults[f].kind = "cpp_crash"
    /\ search.at # "pasted" => \A f \in 1..Len(faults) : faults[f].kind \in Deadly
(* What was on the device all through a look is in one of its listings.      *)
SteadyListed ==
    /\ search.at = "logs" => search.steady \subseteq logs \cup records
    /\ search.at = "records" => search.steady \subseteq search.logs \cup records
    /\ search.at \in {"read", "told"} => search.entry[1] \in 1..Len(faults)
    /\ search.at \in {"wait", "none"} => ~\E f \in search.steady : Mine(f)
    /\ search.at \in {"read", "told"} =>
         Mine(search.entry[1]) /\ (search.clock => \A f \in search.steady : Mine(f) => f <= search.entry[1])
SearchInv == SearchTyped /\ KindsKnown /\ SteadyListed /\ KindIsTrue

(* A search starts with nothing dead.                                        *)
LEMMA SearchInit == FaultInit => SearchInv
<1> SUFFICES ASSUME FaultInit PROVE SearchInv
    OBVIOUS
<1>1. faults = <<>> /\ records = {} /\ logs = {} /\ search.at = "start" /\ search.logs = {} /\ search.steady = {} /\ search.window = 0
      /\ {"at", "bundle", "window", "clock", "logs", "steady", "polls", "entry", "answer"} \subseteq DOMAIN search
    BY DEF FaultInit
<1>2. faults \in Seq(Deaths) /\ Len(faults) = 0
    BY <1>1
<1> QED BY <1>1, <1>2 DEF SearchInv, SearchTyped, KindsKnown, SteadyListed, KindIsTrue

(* Each step of the device, of hiview and of the search keeps the invariant. *)
LEMMA SearchNext == SearchInv /\ [FaultNext]_faultVars => SearchInv'
<1> SUFFICES ASSUME SearchInv, [FaultNext]_faultVars PROVE SearchInv'
    OBVIOUS
<1>1. SearchTyped /\ KindsKnown /\ SteadyListed /\ KindIsTrue
    BY DEF SearchInv
<1>2. Len(faults) \in Nat /\ DOMAIN faults = 1..Len(faults)
    BY <1>1, LenProperties DEF SearchTyped
<1> HIDE DEF SearchInv
<1> USE DEF Find, UNCHANGED_device
<1>3. ASSUME UNCHANGED faults, search'.bundle = search.bundle, search'.window = search.window
      PROVE  \A f : Mine(f)' <=> Mine(f)
    BY <1>3 DEF Mine
(* A step of the search.                                                     *)
<1>4. CASE FixWindow
    <2>1. /\ search.at = "start" /\ UNCHANGED <<faults, records, logs>> /\ search'.at \in {"clock", "thrown"}
          /\ search'.logs = search.logs /\ search'.steady = search.steady /\ search'.window \in Nat
          /\ DOMAIN search' = DOMAIN search
        <3>1. search.at = "start" /\ UNCHANGED <<faults, records, logs>>
              /\ \/ \E at \in {"clock", "thrown"} : search' = [search EXCEPT !.at = at]
                 \/ search' = [search EXCEPT !.at = "clock", !.window = Now_ + 1]
            BY <1>4 DEF FixWindow
        <3>2. Now_ + 1 \in Nat /\ search.window \in Nat
            BY <1>1, <1>2 DEF SearchTyped, Now_
        <3> QED BY <3>1, <3>2, <1>1 DEF SearchTyped
    <2> QED BY <2>1, <1>1 DEF SearchInv, SearchTyped, KindsKnown, SteadyListed, KindIsTrue
<1>5. CASE ReadOffset
    <2>1. /\ search.at = "clock" /\ UNCHANGED <<faults, records, logs>> /\ search'.at \in {"thrown", "logs"}
          /\ search'.logs = search.logs /\ search'.steady = logs \cup records /\ search'.window = search.window
          /\ DOMAIN search' = DOMAIN search
        BY <1>5, <1>1 DEF ReadOffset, SearchTyped
    <2> QED BY <2>1, <1>1 DEF SearchInv, SearchTyped, KindsKnown, SteadyListed, KindIsTrue
<1>6. CASE ListLogs
    <2>1. /\ search.at = "logs" /\ UNCHANGED <<faults, records, logs>> /\ search'.at = "records"
          /\ search'.logs = logs /\ search'.steady = search.steady /\ search'.window = search.window
          /\ DOMAIN search' = DOMAIN search
        BY <1>6, <1>1 DEF ListLogs, SearchTyped
    <2> QED BY <2>1, <1>1 DEF SearchInv, SearchTyped, KindsKnown, SteadyListed, KindIsTrue
<1>7. CASE ListRecords
    <2>1. search.at = "records" /\ UNCHANGED <<faults, records, logs>> /\ search.steady \subseteq search.logs \cup records
        BY <1>7, <1>1 DEF ListRecords, SteadyListed
    <2>2. CASE Entries_ = {}
        <3>1. search' = [search EXCEPT !.at = "wait"]
            BY <1>7, <2>2 DEF ListRecords
        <3>2. search'.at = "wait" /\ search'.bundle = search.bundle /\ search'.window = search.window /\ search'.steady = search.steady
              /\ search'.logs = search.logs /\ DOMAIN search' = DOMAIN search
            BY <3>1, <1>1 DEF SearchTyped
        <3>3. ~\E f \in search.steady : Mine(f)
            BY <2>1, <2>2 DEF Entries_
        <3>4. SteadyListed'
            BY <2>1, <3>2, <3>3, <1>3 DEF SteadyListed
        <3> QED BY <2>1, <3>2, <3>4, <1>1 DEF SearchInv, SearchTyped, KindsKnown, KindIsTrue
    <2>3. CASE Entries_ # {}
        <3>1. PICK f \in Newest(Entries_) : search' = [search EXCEPT !.at = "read", !.entry = <<f>>]
            BY <1>7, <2>3 DEF ListRecords
        <3>2. /\ search'.at = "read" /\ search'.bundle = search.bundle /\ search'.window = search.window /\ search'.steady = search.steady
              /\ search'.logs = search.logs /\ DOMAIN search' = DOMAIN search /\ search'.clock = search.clock /\ search'.entry[1] = f
            BY <3>1, <1>1 DEF SearchTyped
        <3>3. f \in Entries_ /\ f \in 1..Len(faults) /\ Mine(f)
            BY <1>1 DEF Newest, Entries_, SearchTyped
        <3>4. ASSUME search.clock, NEW g \in search.steady, Mine(g) PROVE g <= f
            <4>1. g \in Entries_ /\ g \in 1..Len(faults)
                BY <2>1, <3>4, <1>1 DEF Entries_, SearchTyped
            <4>2. g # f => f > g
                BY <4>1, <3>4 DEF Newest, NewerFault
            <4> QED BY <4>1, <4>2, <3>3, <1>2
        <3>5. SteadyListed'
            BY <2>1, <3>2, <3>3, <3>4, <1>3 DEF SteadyListed
        <3> QED BY <2>1, <3>2, <3>5, <1>1 DEF SearchInv, SearchTyped, KindsKnown, KindIsTrue
    <2> QED BY <2>2, <2>3
<1>8. CASE Again
    <2>1. /\ search.at = "wait" /\ UNCHANGED <<faults, records, logs>> /\ search'.at \in {"clock", "none"}
          /\ search'.logs = search.logs /\ search'.steady = search.steady /\ search'.window = search.window /\ search'.bundle = search.bundle
          /\ DOMAIN search' = DOMAIN search
        BY <1>8, <1>1 DEF Again, SearchTyped
    <2> QED BY <2>1, <1>1, <1>3 DEF SearchInv, SearchTyped, KindsKnown, SteadyListed, KindIsTrue
<1>9. CASE readFaultLog
    <2> DEFINE f == search.entry[1]
    <2>1. search.at = "read" /\ UNCHANGED <<faults, records, logs>> /\ f \in 1..Len(faults)
        BY <1>9, <1>1 DEF readFaultLog, SteadyListed
    <2>2. faults[f].kind \in Deadly
        BY <2>1, <1>1 DEF KindsKnown
    <2>3. \/ search' = [search EXCEPT !.at = "thrown"]
          \/ \E t : search' = [search EXCEPT !.at = "told", !.answer = <<classifyFaultLog(t)>>]
                    /\ classifyFaultLog(t).kind = faults[f].kind
        <3>1. CASE f \in search.logs /\ f \in logs
            <4>1. PICK noise \in SUBSET {"event"} :
                     search' = [search EXCEPT !.at = "told", !.answer = <<classifyFaultLog(WholeLog[faults[f].kind] \cup noise)>>]
                BY <3>1, <1>9 DEF readFaultLog
            <4>2. WholeLog[faults[f].kind] \cup noise \in SUBSET (WholeLog[faults[f].kind] \cup {"event"})
                OBVIOUS
            <4>3. classifyFaultLog(WholeLog[faults[f].kind] \cup noise).kind = faults[f].kind
                <5> DEFINE kind == faults[f].kind
                           t == WholeLog[kind] \cup noise
                <5>1. kind \in Deadly /\ t \in SUBSET (WholeLog[kind] \cup {"event"}) /\ WholeLog[kind] \subseteq t
                    BY <2>2, <4>2
                <5> HIDE DEF kind, t
                <5>2. classifyFaultLog(t).kind = kind
                    BY <5>1, WholeIsKnown
                <5> QED BY <5>2 DEF kind, t
            <4> QED BY <4>1, <4>3
        <3>2. CASE f \notin search.logs /\ f \in records
            <4>1. search' = [search EXCEPT !.at = "told", !.answer = <<classifyFaultLog(RecordLines)>>]
                BY <3>2, <1>9 DEF readFaultLog
            <4>2. "cpp_crash" \in Deadly /\ RecordLines \in SUBSET (WholeLog["cpp_crash"] \cup {"event"})
                BY DEF Deadly, WholeLog
            <4>3. classifyFaultLog(RecordLines).kind = "cpp_crash"
                BY <4>2, WholeIsKnown
            <4>4. faults[f].kind = "cpp_crash"
                BY <3>2, <1>1 DEF KindsKnown
            <4> QED BY <4>1, <4>3, <4>4
        <3>3. CASE (f \in search.logs /\ f \notin logs) \/ (f \notin search.logs /\ f \notin records)
            BY <3>3, <1>9 DEF readFaultLog
        <3> QED BY <3>1, <3>2, <3>3
    <2>4. CASE search' = [search EXCEPT !.at = "thrown"]
        <3>1. /\ search'.at = "thrown" /\ search'.logs = search.logs /\ search'.steady = search.steady /\ search'.window = search.window
              /\ DOMAIN search' = DOMAIN search
            BY <2>4, <1>1 DEF SearchTyped
        <3> QED BY <2>1, <3>1, <1>1 DEF SearchInv, SearchTyped, KindsKnown, SteadyListed, KindIsTrue
    <2>5. CASE \E t : search' = [search EXCEPT !.at = "told", !.answer = <<classifyFaultLog(t)>>]
                      /\ classifyFaultLog(t).kind = faults[f].kind
        <3>1. PICK v : search' = [search EXCEPT !.at = "told", !.answer = <<v>>] /\ v.kind = faults[f].kind
            BY <2>5
        <3>2. /\ search'.at = "told" /\ search'.logs = search.logs /\ search'.steady = search.steady /\ search'.window = search.window
              /\ DOMAIN search' = DOMAIN search /\ search'.bundle = search.bundle /\ search'.clock = search.clock
              /\ search'.entry = search.entry /\ search'.answer[1] = v
            BY <3>1, <1>1 DEF SearchTyped
        <3>3. SteadyListed'
            BY <2>1, <3>2, <1>1, <1>3 DEF SteadyListed
        <3>4. KindIsTrue'
            BY <2>1, <3>1, <3>2 DEF KindIsTrue
        <3> QED BY <2>1, <3>2, <3>3, <3>4, <1>1 DEF SearchInv, SearchTyped, KindsKnown
    <2> QED BY <2>3, <2>4, <2>5
<1>10. CASE Paste
    <2>1. PICK kind \in FaultKinds : /\ search.at = "start" /\ faults = <<>> /\ UNCHANGED <<records, logs>>
                                     /\ faults' = <<[kind |-> kind, module |-> "app"]>>
                                     /\ \E t \in SUBSET (WholeLog[kind] \cup {"event"}) : Pasted(t)
        BY <1>10 DEF Paste
    <2>2. PICK t \in SUBSET (WholeLog[kind] \cup {"event"}) : search' = [search EXCEPT !.at = "pasted", !.answer = <<classifyFaultLog(t)>>]
        BY <2>1 DEF Pasted
    <2>3. /\ search'.at = "pasted" /\ search'.logs = search.logs /\ search'.steady = search.steady /\ search'.window = search.window
          /\ DOMAIN search' = DOMAIN search /\ search'.answer[1] = classifyFaultLog(t)
        BY <2>2, <1>1 DEF SearchTyped
    <2>4. [kind |-> kind, module |-> "app"] \in Deaths
        BY DEF Deaths, Bundles
    <2>5. faults' \in Seq(Deaths) /\ Len(faults') = 1 /\ faults'[1].kind = kind
        BY <2>1, <2>4
    <2>6. Len(faults) = 0
        BY <2>1
    <2>7. records = {} /\ logs = {} /\ search.logs = {} /\ search.steady = {}
        BY <2>6, <1>1 DEF SearchTyped
    <2>8. KindIsTrue'
        BY <2>3, <2>5, Confident DEF KindIsTrue
    <2>9. SearchTyped'
        BY <2>1, <2>3, <2>5, <2>7, <1>1 DEF SearchTyped
    <2>10. SteadyListed'
        BY <2>3 DEF SteadyListed
    <2>11. KindsKnown'
        BY <2>1, <2>3, <2>7 DEF KindsKnown
    <2> QED BY <2>8, <2>9, <2>10, <2>11 DEF SearchInv
(* A step of the device.                                                     *)
<1>11. CASE Dies
    <2>1. PICK kind \in FaultKinds \ {"sample_stack"}, module \in Bundles :
             /\ faults' = Append(faults, [kind |-> kind, module |-> module])
             /\ records' = IF kind = "cpp_crash" THEN records \cup {Len(faults) + 1} ELSE records
        BY <1>11 DEF Dies, Now_
    <2>2. UNCHANGED <<logs, search>> /\ search.at \notin {"told", "none", "thrown", "pasted"}
        BY <1>11 DEF Dies, Searching
    <2>3. [kind |-> kind, module |-> module] \in Deaths
        BY DEF Deaths
    <2>4. /\ faults' \in Seq(Deaths) /\ Len(faults') = Len(faults) + 1
          /\ \A f \in 1..Len(faults) : faults'[f] = faults[f]
          /\ faults'[Len(faults) + 1] = [kind |-> kind, module |-> module]
        BY <2>1, <2>3, <1>1, AppendProperties DEF SearchTyped
    <2>5. \A f \in 1..Len(faults) : Mine(f)' <=> Mine(f)
        BY <2>2, <2>4 DEF Mine
    <2>6. SearchTyped'
        <3>1. 1..Len(faults) \subseteq 1..Len(faults') /\ Len(faults) + 1 \in 1..Len(faults')
            BY <2>4, <1>2
        <3>2. records' \subseteq 1..Len(faults')
            BY <2>1, <3>1, <1>1 DEF SearchTyped
        <3> QED BY <2>2, <2>4, <3>1, <3>2, <1>1 DEF SearchTyped
    <2>7. KindsKnown'
        <3>1. kind \in Deadly
            BY DEF FaultKinds, Deadly
        <3>2. \A f \in 1..Len(faults') : f \in 1..Len(faults) \/ f = Len(faults) + 1
            BY <2>4, <1>2
        <3>3. \A f \in records' : faults'[f].kind = "cpp_crash"
            BY <2>1, <2>4, <1>1 DEF KindsKnown, SearchTyped
        <3>4. \A f \in 1..Len(faults') : faults'[f].kind \in Deadly
            BY <2>2, <2>4, <3>1, <3>2, <1>1 DEF KindsKnown
        <3> QED BY <3>3, <3>4 DEF KindsKnown
    <2>8. SteadyListed'
        <3>1. search.steady \subseteq 1..Len(faults) /\ search.at # "told"
            BY <2>2, <1>1 DEF SearchTyped
        <3>2. records \subseteq records'
            BY <2>1
        <3>3. search.at = "logs" => search'.steady \subseteq logs' \cup records'
            BY <2>2, <3>2, <1>1 DEF SteadyListed
        <3>4. search.at = "records" => search'.steady \subseteq search'.logs \cup records'
            BY <2>2, <3>2, <1>1 DEF SteadyListed
        <3>5. search.at = "read" => search.entry[1] \in 1..Len(faults) /\ search.entry[1] \in 1..Len(faults') /\ Mine(search.entry[1])'
            BY <2>2, <2>4, <2>5, <1>1, <1>2 DEF SteadyListed
        <3>6. search.at = "read" => (search.clock => \A f \in search.steady : Mine(f)' => f <= search.entry[1])
            BY <2>5, <3>1, <1>1 DEF SteadyListed
        <3>7. search.at = "wait" => ~\E f \in search.steady : Mine(f)'
            BY <2>5, <3>1, <1>1 DEF SteadyListed
        <3> QED BY <2>2, <3>3, <3>4, <3>5, <3>6, <3>7 DEF SteadyListed
    <2> QED BY <2>2, <2>6, <2>7, <2>8 DEF SearchInv, KindIsTrue
<1>12. ASSUME UNCHANGED faults, search.at \notin {"told", "none", "thrown", "pasted"}, records' \subseteq records,
              NEW S \in SUBSET search.steady, search' = [search EXCEPT !.steady = S], logs' \subseteq 1..Len(faults),
              search.at = "logs" => S \subseteq logs' \cup records', search.at = "records" => S \subseteq search.logs \cup records'
       PROVE  SearchInv'
    <2>1. /\ search'.at = search.at /\ search'.logs = search.logs /\ search'.steady = S /\ search'.window = search.window
          /\ DOMAIN search' = DOMAIN search /\ search'.bundle = search.bundle /\ search'.clock = search.clock /\ search'.entry = search.entry
        BY <1>12, <1>1 DEF SearchTyped
    <2>2. SteadyListed'
        BY <2>1, <1>12, <1>1, <1>3 DEF SteadyListed
    <2> QED BY <2>1, <2>2, <1>12, <1>1 DEF SearchInv, SearchTyped, KindsKnown, KindIsTrue
<1>13. CASE HiviewMakesLog
    <2>1. PICK f \in (1..Len(faults)) \ logs : logs' = logs \cup {f} /\ records' \in {records, records \ {f}}
        BY <1>13 DEF HiviewMakesLog, Now_
    <2>2. UNCHANGED faults /\ search' = [search EXCEPT !.steady = search.steady \cap (logs \cup records')] /\ search.at \notin {"told", "none", "thrown", "pasted"}
        BY <1>13 DEF HiviewMakesLog, Searching
    <2> DEFINE S == search.steady \cap (logs \cup records')
    <2>3. search.at = "records" => S \subseteq search.logs \cup records'
        BY <2>1, <1>1 DEF SteadyListed
    <2>4. search.at = "logs" => S \subseteq logs' \cup records'
        BY <2>1
    <2> QED BY <2>1, <2>2, <2>3, <2>4, <1>1, <1>12 DEF SearchTyped
<1>14. CASE Rotate
    <2>1. PICK f \in logs : logs' = logs \ {f} /\ search' = [search EXCEPT !.steady = search.steady \ {f}]
        BY <1>14 DEF Rotate
    <2>2. UNCHANGED <<faults, records>> /\ search.at \notin {"told", "none", "thrown", "pasted"}
        BY <1>14 DEF Rotate, Searching
    <2> DEFINE S == search.steady \ {f}
    <2>3. search.at = "records" => S \subseteq search.logs \cup records'
        BY <2>2, <1>1 DEF SteadyListed
    <2>4. search.at = "logs" => S \subseteq logs' \cup records'
        BY <2>1, <2>2, <1>1 DEF SteadyListed
    <2> QED BY <2>1, <2>2, <2>3, <2>4, <1>1, <1>12 DEF SearchTyped
<1>15. CASE UNCHANGED faultVars
    BY <1>15, <1>1 DEF faultVars, SearchInv, SearchTyped, KindsKnown, SteadyListed, KindIsTrue, Mine
<1> QED BY <1>4, <1>5, <1>6, <1>7, <1>8, <1>9, <1>10, <1>11, <1>13, <1>14, <1>15 DEF FaultNext

(* The newest fault is the one that is told, and "none" only if none was     *)
(* there all through the last look.                                          *)
THEOREM NewestIsFound == FaultSpec => []CrashIsFound
<1>1. SearchInv => CrashIsFound
    BY DEF SearchInv, SteadyListed, CrashIsFound
<1> QED BY <1>1, SearchInit, SearchNext, PTL DEF FaultSpec

(* A fault is told as the kind it is, also of a text that lost its lines.    *)
THEOREM KindIsTold == FaultSpec => []KindIsTrue
<1>1. SearchInv => KindIsTrue
    BY DEF SearchInv
<1> QED BY <1>1, SearchInit, SearchNext, PTL DEF FaultSpec

------------------------------------------------------------------------------
(* Log bundles (LogBundle): what is in the directories at each place.        *)
Redacted == "hilog" \notin disk_.zip /\ (disk_.zip \cap {"hilog-filtered", "window"} # {} => bundle.window # <<>>)
Outcome == {"manifest", "redact", "zip", "undo", "report", "done"}
Have(after) == bundle.at \in after /\ bundle.failed = {}
BundleTyped ==
    /\ {"at", "redact", "failed", "window", "odd", "error", "complete", "after"} \subseteq DOMAIN bundle
    /\ DOMAIN disk_ = {"raw", "redacted", "zip", "manifest"}
    /\ "window" \notin disk_.raw /\ "hilog" \notin disk_.redacted
    /\ "hilog-filtered" \in disk_.raw => bundle.window # <<>>
    /\ disk_.redacted \cap {"hilog-filtered", "window"} # {} => bundle.window # <<>>
    /\ bundle.at \in {"targets", "which", "before", "hilog", "after", "window"} => "hilog-filtered" \notin disk_.raw
    /\ bundle.at \notin {"zip", "undo", "report", "done"} => disk_.redacted = {}
(* A bundle without a failed command went through every collection.          *)
Collected ==
    /\ bundle.at # "targets" => "targets" \in disk_.raw
    /\ Have({"hilog", "after", "window", "faultlog", "filter", "rest"} \cup Outcome) => "before" \in disk_.raw
    /\ Have({"after", "window", "faultlog", "filter", "rest"} \cup Outcome) => "hilog" \in disk_.raw
    /\ Have({"window", "faultlog", "filter", "rest"} \cup Outcome) => "after" \in disk_.raw
    /\ Have({"filter", "rest"} \cup Outcome) => "faultlog" \in disk_.raw
    /\ Have(Outcome) => "rest" \in disk_.raw
    /\ bundle.at \in Outcome \ {"manifest"} => "manifest" \in disk_.raw
Archived ==
    /\ ~bundle.error /\ bundle.at \notin {"undo", "report", "done"} => disk_.zip = Gone
    /\ bundle.at = "undo" => disk_.zip \in {Gone, {"part"}}
    /\ bundle.at \in {"redact", "zip"} => disk_.manifest = "success"
    /\ bundle.at = "zip" /\ bundle.redact => "manifest" \in disk_.redacted
    /\ bundle.error => bundle.at \in {"report", "done"}
    /\ bundle.at \in {"report", "done"} =>
         IF bundle.error THEN disk_.zip = Gone /\ disk_.redacted = {} /\ disk_.manifest = "failed"
         ELSE "manifest" \in disk_.zip /\ disk_.manifest = "success"
    /\ bundle.complete => bundle.at = "done" /\ bundle.failed = {} /\ ~bundle.error /\ bundle.window # <<>>
BundleInv == BundleTyped /\ Collected /\ Archived /\ (bundle.redact => Redacted)

(* A collection starts with an empty directory.                              *)
LEMMA BundleInitInv == BundleInit => BundleInv
<1> SUFFICES ASSUME BundleInit PROVE BundleInv
    OBVIOUS
<1>1. disk_ = [raw |-> {}, redacted |-> {}, zip |-> Gone, manifest |-> "none"]
    BY DEF BundleInit
<1>2. /\ {"at", "redact", "failed", "window", "odd", "error", "complete", "after"} \subseteq DOMAIN bundle
      /\ bundle.at = "targets" /\ ~bundle.error /\ ~bundle.complete
    BY DEF BundleInit
<1>3. DOMAIN disk_ = {"raw", "redacted", "zip", "manifest"} /\ disk_.raw = {} /\ disk_.redacted = {} /\ disk_.zip = Gone
    BY <1>1
<1> QED BY <1>2, <1>3 DEF BundleInv, BundleTyped, Collected, Archived, Redacted, Gone, Outcome, Have

(* Each step of a collection keeps what its manifest will say.               *)
LEMMA BundleNextInv == BundleInv /\ [BundleNext]_bundleVars => BundleInv'
<1> SUFFICES ASSUME BundleInv, [BundleNext]_bundleVars PROVE BundleInv'
    OBVIOUS
<1>1. BundleTyped /\ Collected /\ Archived /\ (bundle.redact => Redacted)
    BY DEF BundleInv
<1>2. {"at", "redact", "failed", "window", "odd", "error", "complete", "after"} \subseteq DOMAIN bundle
      /\ DOMAIN disk_ = {"raw", "redacted", "zip", "manifest"}
    BY <1>1 DEF BundleTyped
<1> HIDE DEF BundleInv
(* A step that adds files to the directory and fails or not.                 *)
<1>3. ASSUME NEW files, bundle.at \notin {"redact", "zip", "undo", "report", "done"},
             disk_' = [disk_ EXCEPT !.raw = @ \cup files] \/ (files = {} /\ disk_' = disk_), "window" \notin files,
             bundle'.redact = bundle.redact, bundle'.window = bundle.window, bundle'.error = bundle.error, bundle'.complete = bundle.complete,
             bundle.failed \subseteq bundle'.failed, DOMAIN bundle' = DOMAIN bundle,
             "hilog-filtered" \in files => bundle.at = "filter" /\ bundle.window # <<>>,
             <<bundle.at, bundle'.at>> \in {<<"targets", "which">>, <<"which", "before">>, <<"which", "manifest">>, <<"before", "hilog">>,
                                            <<"hilog", "after">>, <<"after", "window">>, <<"faultlog", "filter">>,
                                            <<"filter", "rest">>, <<"rest", "manifest">>},
             bundle.at \notin {"which", "filter"} => bundle.at \in files,
             <<bundle.at, bundle'.at>> = <<"which", "manifest">> => bundle'.failed # {}
      PROVE  BundleInv'
    <2>1. disk_'.raw = disk_.raw \cup files /\ disk_'.redacted = disk_.redacted /\ disk_'.zip = disk_.zip /\ disk_'.manifest = disk_.manifest
          /\ DOMAIN disk_' = DOMAIN disk_
        BY <1>2, <1>3
    <2>2. BundleTyped'
        BY <2>1, <1>1, <1>3 DEF BundleTyped
    <2>3. Collected'
        <3>1. bundle'.failed = {} => bundle.failed = {}
            BY <1>3
        <3> QED BY <2>1, <3>1, <1>1, <1>3 DEF Collected, Have, Outcome
    <2>4. Archived' /\ (bundle'.redact => Redacted')
        BY <2>1, <1>1, <1>3 DEF Archived, Redacted
    <2> QED BY <2>2, <2>3, <2>4 DEF BundleInv
<1> USE DEF In
<1>4. ASSUME NEW name, NEW then, Collect(name, then),
             <<name, then>> \in {<<"targets", "which">>, <<"before", "hilog">>, <<"hilog", "after">>, <<"faultlog", "filter">>, <<"rest", "manifest">>}
      PROVE  BundleInv'
    <2>1. PICK fails \in BOOLEAN, odd \in {FALSE, name = "hilog"} :
            bundle' = [bundle EXCEPT !.at = then, !.odd = @ \/ odd, !.failed = IF fails THEN @ \cup {name} ELSE @]
        BY <1>4 DEF Collect
    <2>2. bundle.at = name /\ disk_' = [disk_ EXCEPT !.raw = @ \cup {name}]
        BY <1>4 DEF Collect, Saved
    <2>3. /\ bundle'.at = then /\ bundle'.redact = bundle.redact /\ bundle'.window = bundle.window /\ bundle'.error = bundle.error
          /\ bundle'.complete = bundle.complete /\ bundle.failed \subseteq bundle'.failed /\ DOMAIN bundle' = DOMAIN bundle
        BY <2>1, <1>2
    <2> DEFINE files == {name}
    <2>9. /\ bundle.at \notin {"redact", "zip", "undo", "report", "done"} /\ "window" \notin files
          /\ ("hilog-filtered" \in files => bundle.at = "filter" /\ bundle.window # <<>>)
          /\ (bundle.at \notin {"which", "filter"} => bundle.at \in files)
        BY <2>2, <2>3, <1>4
    <2>10. disk_' = [disk_ EXCEPT !.raw = @ \cup files] \/ (files = {} /\ disk_' = disk_)
        BY <2>2, <2>3, <1>4
    <2>11. <<bundle.at, bundle'.at>> \in {<<"targets", "which">>, <<"which", "before">>, <<"which", "manifest">>, <<"before", "hilog">>,
                                            <<"hilog", "after">>, <<"after", "window">>, <<"faultlog", "filter">>,
                                            <<"filter", "rest">>, <<"rest", "manifest">>}
           /\ (<<bundle.at, bundle'.at>> = <<"which", "manifest">> => bundle'.failed # {})
        BY <2>2, <2>3, <1>4
    <2> HIDE DEF files
    <2> QED BY <2>3, <2>9, <2>10, <2>11, <1>3
<1>11. CASE ListTargets
    BY <1>11, <1>4 DEF ListTargets
<1>12. CASE selectTarget
    <2>1. bundle.at = "which" /\ disk_' = disk_
          /\ (bundle' = [bundle EXCEPT !.at = "before"] \/ bundle' = [bundle EXCEPT !.at = "manifest", !.failed = @ \cup {"targets"}])
        BY <1>12 DEF selectTarget
    <2>2. /\ bundle'.at \in {"before", "manifest"} /\ bundle'.redact = bundle.redact /\ bundle'.window = bundle.window /\ bundle'.error = bundle.error
          /\ bundle'.complete = bundle.complete /\ bundle.failed \subseteq bundle'.failed /\ DOMAIN bundle' = DOMAIN bundle
          /\ (bundle'.at = "manifest" => bundle'.failed # {})
        BY <2>1, <1>2
    <2> DEFINE files == {}
    <2>9. /\ bundle.at \notin {"redact", "zip", "undo", "report", "done"} /\ "window" \notin files
          /\ ("hilog-filtered" \in files => bundle.at = "filter" /\ bundle.window # <<>>)
          /\ (bundle.at \notin {"which", "filter"} => bundle.at \in files)
        BY <2>1, <2>2
    <2>10. disk_' = [disk_ EXCEPT !.raw = @ \cup files] \/ (files = {} /\ disk_' = disk_)
        BY <2>1, <2>2
    <2>11. <<bundle.at, bundle'.at>> \in {<<"targets", "which">>, <<"which", "before">>, <<"which", "manifest">>, <<"before", "hilog">>,
                                            <<"hilog", "after">>, <<"after", "window">>, <<"faultlog", "filter">>,
                                            <<"filter", "rest">>, <<"rest", "manifest">>}
           /\ (<<bundle.at, bundle'.at>> = <<"which", "manifest">> => bundle'.failed # {})
        BY <2>1, <2>2
    <2> HIDE DEF files
    <2> QED BY <2>2, <2>9, <2>10, <2>11, <1>3
<1>13. CASE timeBefore
    BY <1>13, <1>4 DEF timeBefore
<1>14. CASE hilogSnapshot
    BY <1>14, <1>4 DEF hilogSnapshot
<1>15. CASE timeAfter
    <2>1. PICK fails, after : bundle' = [bundle EXCEPT !.at = "window", !.after = after, !.failed = IF fails THEN @ \cup {"after"} ELSE @]
        BY <1>15 DEF timeAfter
    <2>2. bundle.at = "after" /\ disk_' = [disk_ EXCEPT !.raw = @ \cup {"after"}]
        BY <1>15 DEF timeAfter, Saved
    <2>3. /\ bundle'.at = "window" /\ bundle'.redact = bundle.redact /\ bundle'.window = bundle.window /\ bundle'.error = bundle.error
          /\ bundle'.complete = bundle.complete /\ bundle.failed \subseteq bundle'.failed /\ DOMAIN bundle' = DOMAIN bundle
        BY <2>1, <1>2
    <2> DEFINE files == {"after"}
    <2>9. /\ bundle.at \notin {"redact", "zip", "undo", "report", "done"} /\ "window" \notin files
          /\ ("hilog-filtered" \in files => bundle.at = "filter" /\ bundle.window # <<>>)
          /\ (bundle.at \notin {"which", "filter"} => bundle.at \in files)
        BY <2>2, <2>3
    <2>10. disk_' = [disk_ EXCEPT !.raw = @ \cup files] \/ (files = {} /\ disk_' = disk_)
        BY <2>2, <2>3
    <2>11. <<bundle.at, bundle'.at>> \in {<<"targets", "which">>, <<"which", "before">>, <<"which", "manifest">>, <<"before", "hilog">>,
                                            <<"hilog", "after">>, <<"after", "window">>, <<"faultlog", "filter">>,
                                            <<"filter", "rest">>, <<"rest", "manifest">>}
           /\ (<<bundle.at, bundle'.at>> = <<"which", "manifest">> => bundle'.failed # {})
        BY <2>2, <2>3
    <2> HIDE DEF files
    <2> QED BY <2>3, <2>9, <2>10, <2>11, <1>3
<1>16. CASE applyWindow
    <2>1. PICK w : bundle.at = "window" /\ disk_' = disk_ /\ bundle' = [bundle EXCEPT !.at = "faultlog", !.window = w]
        BY <1>16 DEF applyWindow
    <2>2. /\ bundle'.at = "faultlog" /\ bundle'.redact = bundle.redact /\ bundle'.error = bundle.error
          /\ bundle'.complete = bundle.complete /\ bundle.failed = bundle'.failed /\ DOMAIN bundle' = DOMAIN bundle
        BY <2>1, <1>2
    <2>3. BundleTyped'
        BY <2>1, <2>2, <1>1 DEF BundleTyped
    <2>4. Collected'
        BY <2>1, <2>2, <1>1 DEF Collected, Have, Outcome
    <2>5. ~bundle.error /\ ~bundle.complete /\ disk_.zip = Gone
        BY <2>1, <1>1 DEF Archived
    <2>6. Archived' /\ (bundle'.redact => Redacted')
        BY <2>1, <2>2, <2>5, <1>1 DEF Archived, Redacted, Gone
    <2> QED BY <2>3, <2>4, <2>6 DEF BundleInv
<1>17. CASE collectFaultlog
    BY <1>17, <1>4 DEF collectFaultlog
<1>18. CASE writeFiltered
    <2>1. bundle.at = "filter" /\ bundle' = [bundle EXCEPT !.at = "rest"]
          /\ (disk_' = disk_ \/ (bundle.window # <<>> /\ disk_' = [disk_ EXCEPT !.raw = @ \cup {"hilog-filtered"}]))
        BY <1>18 DEF writeFiltered, Saved
    <2>2. /\ bundle'.at = "rest" /\ bundle'.redact = bundle.redact /\ bundle'.window = bundle.window /\ bundle'.error = bundle.error
          /\ bundle'.complete = bundle.complete /\ bundle.failed \subseteq bundle'.failed /\ DOMAIN bundle' = DOMAIN bundle
        BY <2>1, <1>2
    <2>3. "hilog-filtered" \notin {} /\ "window" \notin {} /\ "window" \notin {"hilog-filtered"}
        OBVIOUS
    <2>4. CASE disk_' = disk_
        BY <2>1, <2>2, <2>3, <2>4, <1>3
    <2>5. CASE bundle.window # <<>> /\ disk_' = [disk_ EXCEPT !.raw = @ \cup {"hilog-filtered"}]
        BY <2>1, <2>2, <2>3, <2>5, <1>3
    <2> QED BY <2>1, <2>4, <2>5
<1>19. CASE collectRest
    BY <1>19, <1>4 DEF collectRest
<1>20. CASE writeManifest
    <2>1. /\ bundle.at = "manifest" /\ bundle'.at \in {"redact", "zip"} /\ (bundle.redact => bundle'.at = "redact")
          /\ bundle'.redact = bundle.redact /\ bundle'.window = bundle.window /\ bundle'.error = bundle.error
          /\ bundle'.complete = bundle.complete /\ bundle.failed = bundle'.failed /\ DOMAIN bundle' = DOMAIN bundle
        BY <1>20, <1>2 DEF writeManifest
    <2>2. /\ disk_'.raw = disk_.raw \cup {"manifest"} /\ disk_'.redacted = disk_.redacted /\ disk_'.zip = disk_.zip
          /\ disk_'.manifest = "success" /\ DOMAIN disk_' = DOMAIN disk_
        BY <1>20, <1>2 DEF writeManifest
    <2>3. BundleTyped'
        BY <2>1, <2>2, <1>1 DEF BundleTyped
    <2>4. Collected'
        BY <2>1, <2>2, <1>1 DEF Collected, Have, Outcome
    <2>5. Archived' /\ (bundle'.redact => Redacted')
        BY <2>1, <2>2, <1>1 DEF Archived, Redacted
    <2> QED BY <2>3, <2>4, <2>5 DEF BundleInv
<1>21. CASE redactTree
    <2>1. /\ bundle.at = "redact" /\ bundle'.at \in {"zip", "undo"}
          /\ bundle'.redact = bundle.redact /\ bundle'.window = bundle.window /\ bundle'.error = bundle.error
          /\ bundle'.complete = bundle.complete /\ bundle.failed = bundle'.failed /\ DOMAIN bundle' = DOMAIN bundle
          /\ \/ bundle'.at = "zip" /\ disk_' = [disk_ EXCEPT !.redacted = {Shared(f) : f \in disk_.raw}]
             \/ bundle'.at = "undo" /\ disk_' = disk_
        BY <1>21, <1>2 DEF redactTree
    <2> DEFINE R == {Shared(f) : f \in disk_.raw}
    <2>2. "manifest" \in R
        <3>1. "manifest" \in disk_.raw /\ Shared("manifest") = "manifest"
            BY <2>1, <1>1 DEF Collected, Outcome, Shared
        <3> QED BY <3>1
    <2>3. "hilog" \notin R
        BY DEF Shared
    <2>4. R \cap {"hilog-filtered", "window"} # {} => bundle.window # <<>>
        BY <1>1 DEF Shared, BundleTyped
    <2> HIDE DEF R
    <2>5. CASE bundle'.at = "zip" /\ disk_' = [disk_ EXCEPT !.redacted = R]
        <3>1. disk_'.raw = disk_.raw /\ disk_'.redacted = R /\ disk_'.zip = disk_.zip /\ disk_'.manifest = disk_.manifest /\ DOMAIN disk_' = DOMAIN disk_
            BY <2>5, <1>2
        <3>2. BundleTyped'
            BY <2>1, <2>3, <2>4, <2>5, <3>1, <1>1 DEF BundleTyped
        <3>3. Collected'
            BY <2>1, <2>5, <3>1, <1>1 DEF Collected, Have, Outcome
        <3>4. Archived' /\ (bundle'.redact => Redacted')
            BY <2>1, <2>2, <2>5, <3>1, <1>1 DEF Archived, Redacted
        <3> QED BY <3>2, <3>3, <3>4 DEF BundleInv
    <2>6. CASE bundle'.at = "undo" /\ disk_' = disk_
        <3>1. BundleTyped'
            BY <2>1, <2>6, <1>1 DEF BundleTyped
        <3>2. Collected'
            BY <2>1, <2>6, <1>1 DEF Collected, Have, Outcome
        <3>3. Archived' /\ (bundle'.redact => Redacted')
            BY <2>1, <2>6, <1>1 DEF Archived, Redacted
        <3> QED BY <3>1, <3>2, <3>3 DEF BundleInv
    <2> QED BY <2>1, <2>5, <2>6 DEF R
<1>22. CASE writeZip
    <2>1. /\ bundle.at = "zip" /\ bundle'.redact = bundle.redact /\ bundle'.window = bundle.window /\ bundle'.error = bundle.error
          /\ bundle'.complete = bundle.complete /\ bundle.failed = bundle'.failed /\ DOMAIN bundle' = DOMAIN bundle
          /\ \/ bundle'.at = "report" /\ disk_' = [disk_ EXCEPT !.zip = IF bundle.redact THEN disk_.redacted ELSE disk_.raw]
             \/ bundle'.at = "undo" /\ disk_' \in {disk_, [disk_ EXCEPT !.zip = {"part"}]}
        BY <1>22, <1>2 DEF writeZip
    <2>2. disk_'.raw = disk_.raw /\ disk_'.redacted = disk_.redacted /\ disk_'.manifest = disk_.manifest /\ DOMAIN disk_' = DOMAIN disk_
        BY <2>1, <1>2
    <2>3. \/ bundle'.at = "report" /\ disk_'.zip = IF bundle.redact THEN disk_.redacted ELSE disk_.raw
          \/ bundle'.at = "undo" /\ disk_'.zip \in {disk_.zip, {"part"}}
        BY <2>1, <1>2
    <2>4. BundleTyped'
        BY <2>1, <2>2, <1>1 DEF BundleTyped
    <2>5. Collected'
        BY <2>1, <2>2, <1>1 DEF Collected, Have, Outcome
    <2>6. ~bundle.error /\ ~bundle.complete /\ disk_.zip = Gone /\ disk_.manifest = "success" /\ "manifest" \in disk_.raw
          /\ (bundle.redact => "manifest" \in disk_.redacted)
        BY <2>1, <1>1 DEF Archived, Collected, Outcome
    <2>7. Archived'
        BY <2>1, <2>2, <2>3, <2>6 DEF Archived
    <2>8. bundle'.redact => Redacted'
        BY <2>1, <2>3, <2>6, <1>1 DEF Redacted, BundleTyped, Gone
    <2> QED BY <2>4, <2>5, <2>7, <2>8 DEF BundleInv
<1>23. CASE undo
    <2>1. /\ bundle.at = "undo" /\ bundle'.at = "report" /\ bundle'.error
          /\ bundle'.redact = bundle.redact /\ bundle'.window = bundle.window
          /\ bundle'.complete = bundle.complete /\ bundle.failed = bundle'.failed /\ DOMAIN bundle' = DOMAIN bundle
        BY <1>23, <1>2 DEF undo
    <2>2. disk_'.raw = disk_.raw /\ disk_'.redacted = {} /\ disk_'.zip = Gone /\ disk_'.manifest = "failed" /\ DOMAIN disk_' = DOMAIN disk_
        BY <1>23, <1>2 DEF undo
    <2>3. BundleTyped'
        BY <2>1, <2>2, <1>1 DEF BundleTyped
    <2>4. Collected'
        BY <2>1, <2>2, <1>1 DEF Collected, Have, Outcome
    <2>5. ~bundle.complete
        BY <2>1, <1>1 DEF Archived
    <2>6. Archived' /\ (bundle'.redact => Redacted')
        BY <2>1, <2>2, <2>5, <1>1 DEF Archived, Redacted, Gone
    <2> QED BY <2>3, <2>4, <2>6 DEF BundleInv
<1>24. CASE report_
    <2>1. bundle.at = "report" /\ disk_' = disk_
          /\ bundle' = [bundle EXCEPT !.at = "done", !.complete = bundle.failed = {} /\ ~bundle.error /\ ~bundle.odd /\ bundle.window # <<>>]
        BY <1>24 DEF report_
    <2>2. /\ bundle'.at = "done" /\ bundle'.error = bundle.error
          /\ bundle'.redact = bundle.redact /\ bundle'.window = bundle.window
          /\ bundle.failed = bundle'.failed /\ DOMAIN bundle' = DOMAIN bundle
          /\ (bundle'.complete => bundle.failed = {} /\ ~bundle.error /\ bundle.window # <<>>)
        BY <2>1, <1>2
    <2>3. BundleTyped'
        BY <2>1, <2>2, <1>1 DEF BundleTyped
    <2>4. Collected'
        BY <2>1, <2>2, <1>1 DEF Collected, Have, Outcome
    <2>5. Archived' /\ (bundle'.redact => Redacted')
        BY <2>1, <2>2, <1>1 DEF Archived, Redacted
    <2> QED BY <2>3, <2>4, <2>5 DEF BundleInv
<1>25. CASE UNCHANGED bundleVars
    BY <1>25, <1>1 DEF bundleVars, BundleInv, BundleTyped, Collected, Archived, Redacted, Have
<1> QED BY <1>11, <1>12, <1>13, <1>14, <1>15, <1>16, <1>17, <1>18, <1>19, <1>20, <1>21, <1>22, <1>23, <1>24, <1>25 DEF BundleNext

(* What a bundle says of itself is so, and what a redacted one shares of the *)
(* log is at most the time that was asked for.                               *)
THEOREM BundleIsHonest == BundleSpec => [](BundleIsTrue /\ RedactionHolds)
<1>1. ASSUME BundleInv PROVE BundleIsTrue
    <2> SUFFICES ASSUME bundle.at = "done" PROVE BundleIsTrue
        BY DEF BundleIsTrue
    <2>1. BundleTyped /\ Collected /\ Archived
        BY <1>1 DEF BundleInv
    <2>2. IF bundle.error THEN disk_.zip = Gone /\ disk_.redacted = {} /\ disk_.manifest = "failed"
          ELSE "manifest" \in disk_.zip /\ disk_.manifest = "success"
        BY <2>1 DEF Archived
    <2>3. "manifest" \in disk_.zip => disk_.zip # Gone /\ disk_.zip # {"part"}
        BY DEF Gone
    <2>4. bundle.complete => bundle.failed = {} /\ ~bundle.error /\ bundle.window # <<>>
        BY <2>1 DEF Archived
    <2>5. bundle.failed = {} => {"targets", "before", "hilog", "after", "faultlog", "rest", "manifest"} \subseteq disk_.raw
        BY <2>1 DEF Collected, Have, Outcome
    <2>6. Gone # {"part"}
        BY DEF Gone
    <2> QED BY <2>2, <2>3, <2>4, <2>5, <2>6 DEF BundleIsTrue
<1>2. BundleInv => RedactionHolds
    BY DEF BundleInv, Redacted, RedactionHolds
<1> QED BY <1>1, <1>2, BundleInitInv, BundleNextInv, PTL DEF BundleSpec

------------------------------------------------------------------------------
(* Induction and recursive functions.                                        *)

(* A set of naturals has a least one.                                        *)
LEMMA Least == ASSUME NEW T \in SUBSET Nat, T # {} PROVE \E x \in T : \A y \in T : x <= y
<1>1. IsWellFoundedOn({ss \in Nat \X Nat : ss[1] < ss[2]}, Nat)
    BY NatLessThanWellFounded DEF OpToRel
<1>2. \E x \in T : \A y \in T : ~ (<<y, x>> \in {ss \in Nat \X Nat : ss[1] < ss[2]})
    BY <1>1, WFMin
<1>3. PICK x \in T : \A y \in T : ~ (<<y, x>> \in {ss \in Nat \X Nat : ss[1] < ss[2]})
    BY <1>2
<1>4. ASSUME NEW y \in T PROVE x <= y
    <2>1. x \in Nat /\ y \in Nat /\ <<y, x>> \in Nat \X Nat
        OBVIOUS
    <2>2. ~ (y < x)
        BY <1>3, <2>1
    <2> QED BY <2>1, <2>2
<1> QED BY <1>4

(* Induction, over a set: the naturals are well-founded.                     *)
LEMMA Induct == ASSUME NEW S, 0 \in S, \A n \in Nat : n \in S => n + 1 \in S PROVE Nat \subseteq S
<1> SUFFICES ASSUME Nat \ S # {} PROVE FALSE
    OBVIOUS
<1>1. PICK x \in Nat \ S : \A y \in Nat \ S : x <= y
    BY Least
<1>2. x # 0 /\ x - 1 \in Nat /\ x - 1 \in S
    BY <1>1
<1> QED BY <1>1, <1>2

(* A recursive function over a range exists, and is the one that its         *)
(* equation chooses.                                                         *)
Recurs(f, n, x, F) == f = [k \in 0..n |-> IF k = 0 THEN x ELSE F[<<k, f[k - 1]>>]]
LEMMA Recursion == ASSUME NEW n \in Nat, NEW U, NEW x \in U, NEW F \in [Nat \X U -> U] PROVE \E f \in [0..n -> U] : Recurs(f, n, x, F)
<1> DEFINE S == {m \in Nat : \E f \in [0..m -> U] : Recurs(f, m, x, F)}
<1>1. 0 \in S
    <2>1. Recurs([k \in 0..0 |-> x], 0, x, F) /\ [k \in 0..0 |-> x] \in [0..0 -> U]
        BY DEF Recurs
    <2> QED BY <2>1
<1>2. ASSUME NEW m \in Nat, m \in S PROVE m + 1 \in S
    <2>1. PICK f \in [0..m -> U] : Recurs(f, m, x, F)
        BY <1>2
    <2> DEFINE g == [k \in 0..(m + 1) |-> IF k <= m THEN f[k] ELSE F[<<k, f[m]>>]]
    <2>2. f[m] \in U /\ \A k \in 0..(m + 1) : k <= m => f[k] \in U
        OBVIOUS
    <2>3. F[<<m + 1, f[m]>>] \in U
        <3>1. <<m + 1, f[m]>> \in Nat \X U
            BY <2>2
        <3> QED BY <3>1
    <2>4. g \in [0..(m + 1) -> U]
        <3>1. ASSUME NEW k \in 0..(m + 1), ~ (k <= m) PROVE k = m + 1
            BY <3>1
        <3> QED BY <2>2, <2>3, <3>1
    <2>5. ASSUME NEW k \in 0..(m + 1) PROVE g[k] = IF k = 0 THEN x ELSE F[<<k, g[k - 1]>>]
        <3>1. CASE k <= m
            <4>1. k \in 0..m /\ (k # 0 => k - 1 \in 0..(m + 1) /\ k - 1 <= m)
                BY <3>1
            <4>2. g[k] = f[k] /\ (k # 0 => g[k - 1] = f[k - 1])
                BY <3>1, <4>1
            <4>3. f[k] = IF k = 0 THEN x ELSE F[<<k, f[k - 1]>>]
                BY <2>1, <4>1 DEF Recurs
            <4> HIDE DEF g
            <4> QED BY <4>2, <4>3
        <3>2. CASE ~ (k <= m)
            <4>1. k = m + 1 /\ k # 0 /\ k - 1 = m /\ m \in 0..(m + 1) /\ m <= m
                BY <3>2
            <4>2. g[k] = F[<<k, f[m]>>] /\ g[k - 1] = f[m]
                BY <3>2, <4>1
            <4> HIDE DEF g
            <4> QED BY <4>1, <4>2
        <3> QED BY <3>1, <3>2
    <2>6. Recurs(g, m + 1, x, F)
        <3>1. g = [k \in 0..(m + 1) |-> g[k]]
            OBVIOUS
        <3> HIDE DEF g
        <3> QED BY <2>5, <3>1 DEF Recurs
    <2> HIDE DEF g
    <2> QED BY <2>4, <2>6
<1>3. n \in S
    <2> HIDE DEF S
    <2> QED BY <1>1, <1>2, Induct
<1> QED BY <1>3

------------------------------------------------------------------------------
(* Traces (TraceReader): which marker ends a slice.                          *)

TraceMarkers == [tid : DOMAIN Scripts, is : {"B", "E"}, name : STRING, wait : Nat]

MarkersOf(i, j, is) == {k \in i..j : trace[k].tid = trace[i].tid /\ trace[k].is = is}

(* The markers that a balance counts are finitely many.                      *)
LEMMA BalanceTyped == ASSUME NEW i \in Nat, NEW j \in Nat, NEW is PROVE IsFiniteSet(MarkersOf(i, j, is)) /\ Cardinality(MarkersOf(i, j, is)) \in Nat
<1>1. IsFiniteSet(i..j)
    BY FS_Interval
<1>2. MarkersOf(i, j, is) \in SUBSET (i..j)
    BY DEF MarkersOf
<1> QED BY <1>1, <1>2, FS_Subset, FS_CardinalityType

(* A balance is a difference of two counts.                                  *)
LEMMA BalanceIs == ASSUME NEW i \in Nat, NEW j \in Nat
    PROVE Balance(i, j) = Cardinality(MarkersOf(i, j, "B")) - Cardinality(MarkersOf(i, j, "E")) /\ Balance(i, j) \in Int
<1>1. Balance(i, j) = Cardinality(MarkersOf(i, j, "B")) - Cardinality(MarkersOf(i, j, "E"))
    BY DEF Balance, MarkersOf
<1> QED BY <1>1, BalanceTyped

(* A begin is open by one after itself.                                      *)
LEMMA BalanceStarts == ASSUME NEW i \in Nat, trace[i].is = "B" PROVE Balance(i, i) = 1
<1>1. MarkersOf(i, i, "B") = {i} /\ MarkersOf(i, i, "E") = {}
    BY DEF MarkersOf
<1>2. Cardinality({i}) = 1 /\ Cardinality({}) = 0
    BY FS_Singleton, FS_EmptySet
<1>3. Balance(i, i) = Cardinality(MarkersOf(i, i, "B")) - Cardinality(MarkersOf(i, i, "E"))
    BY BalanceIs
<1> QED BY <1>1, <1>2, <1>3

(* The balance after a marker: one more, one less, or as before if another   *)
(* thread wrote it.                                                          *)
LEMMA BalanceStep == ASSUME NEW i \in Nat, NEW k \in Nat, i < k
    PROVE Balance(i, k) = IF trace[k].tid # trace[i].tid THEN Balance(i, k - 1)
                          ELSE IF trace[k].is = "B" THEN Balance(i, k - 1) + 1
                          ELSE IF trace[k].is = "E" THEN Balance(i, k - 1) - 1 ELSE Balance(i, k - 1)
<1>1. ASSUME NEW is PROVE Cardinality(MarkersOf(i, k, is)) = Cardinality(MarkersOf(i, k - 1, is)) + (IF trace[k].tid = trace[i].tid /\ trace[k].is = is THEN 1 ELSE 0)
    <2>1. CASE trace[k].tid = trace[i].tid /\ trace[k].is = is
        <3>1. MarkersOf(i, k, is) = MarkersOf(i, k - 1, is) \cup {k} /\ k \notin MarkersOf(i, k - 1, is)
            BY <2>1 DEF MarkersOf
        <3>2. IsFiniteSet(MarkersOf(i, k - 1, is))
            BY BalanceTyped
        <3>3. Cardinality(MarkersOf(i, k - 1, is) \cup {k}) = Cardinality(MarkersOf(i, k - 1, is)) + 1
            BY <3>1, <3>2, FS_AddElement
        <3> QED BY <2>1, <3>1, <3>3
    <2>2. CASE ~ (trace[k].tid = trace[i].tid /\ trace[k].is = is)
        <3>1. MarkersOf(i, k, is) = MarkersOf(i, k - 1, is)
            BY <2>2 DEF MarkersOf
        <3>2. Cardinality(MarkersOf(i, k - 1, is)) \in Nat
            BY BalanceTyped
        <3> QED BY <2>2, <3>1, <3>2
    <2> QED BY <2>1, <2>2
<1>2. Balance(i, k) = Cardinality(MarkersOf(i, k, "B")) - Cardinality(MarkersOf(i, k, "E")) /\ Balance(i, k - 1) = Cardinality(MarkersOf(i, k - 1, "B")) - Cardinality(MarkersOf(i, k - 1, "E"))
    BY BalanceIs
<1>3. \A is \in {"B", "E"} : Cardinality(MarkersOf(i, k - 1, is)) \in Nat
    BY BalanceTyped
<1>4. Cardinality(MarkersOf(i, k, "B")) = Cardinality(MarkersOf(i, k - 1, "B")) + (IF trace[k].tid = trace[i].tid /\ trace[k].is = "B" THEN 1 ELSE 0)
    BY <1>1
<1>5. Cardinality(MarkersOf(i, k, "E")) = Cardinality(MarkersOf(i, k - 1, "E")) + (IF trace[k].tid = trace[i].tid /\ trace[k].is = "E" THEN 1 ELSE 0)
    BY <1>1
<1> QED BY <1>2, <1>3, <1>4, <1>5

(* The end of a slice is the first marker at which its begin is balanced.    *)
LEMMA EndIs == ASSUME trace \in Seq(TraceMarkers), NEW b \in 1..Len(trace), NEW e \in b..Len(trace), trace[e].tid = trace[b].tid,
                      Balance(b, e) = 0, \A j \in b..(e - 1) : Balance(b, j) >= 1
    PROVE EndOf(b) = e
<1> DEFINE ends == {j \in b..Len(trace) : trace[j].tid = trace[b].tid /\ Balance(b, j) = 0}
<1>1. e \in ends
    OBVIOUS
<1>2. \A j \in ends : e <= j
    <2> SUFFICES ASSUME NEW j \in ends, j < e PROVE FALSE
        OBVIOUS
    <2>1. j \in b..(e - 1)
        OBVIOUS
    <2> QED BY <2>1
<1>3. ends \subseteq Nat
    OBVIOUS
<1>4. EndOf(b) = IF ends = {} THEN 0 ELSE CHOOSE x \in ends : \A y \in ends : x <= y
    BY DEF EndOf, Min
<1>5. EndOf(b) \in ends /\ \A y \in ends : EndOf(b) <= y
    <2> HIDE DEF ends
    <2> QED BY <1>1, <1>2, <1>4
<1> QED BY <1>1, <1>2, <1>3, <1>5

(* A begin that was never balanced up to a marker ends after it, or not at   *)
(* all.                                                                      *)
LEMMA NoEnd == ASSUME trace \in Seq(TraceMarkers), NEW b \in 1..Len(trace), NEW k \in b..Len(trace), \A j \in b..k : Balance(b, j) >= 1
    PROVE EndOf(b) = 0 \/ EndOf(b) > k
<1> DEFINE ends == {j \in b..Len(trace) : trace[j].tid = trace[b].tid /\ Balance(b, j) = 0}
<1>1. ASSUME NEW j \in ends PROVE j > k
    <2> SUFFICES ASSUME j \in b..k PROVE FALSE
        OBVIOUS
    <2> QED OBVIOUS
<1>2. ends \subseteq Nat
    OBVIOUS
<1>3. EndOf(b) = IF ends = {} THEN 0 ELSE CHOOSE x \in ends : \A y \in ends : x <= y
    BY DEF EndOf, Min
<1> HIDE DEF ends
<1>4. CASE ends # {}
    <2>1. \E x \in ends : \A y \in ends : x <= y
        BY <1>2, <1>4, Least
    <2>2. EndOf(b) \in ends
        BY <1>3, <1>4, <2>1
    <2> QED BY <2>2, <1>1
<1> QED BY <1>3, <1>4

------------------------------------------------------------------------------
(* The parser, as a recursive function.                                      *)

NoSlices == [stacks |-> [t \in DOMAIN Scripts |-> <<>>], slices |-> {}]
ParserSteps(p, d, n) == p = [k \in d..n |-> IF k = d THEN NoSlices ELSE marker(p[k - 1], trace[k], k)]
(* The parser is the recursive function that its definition says.            *)
LEMMA ParserIs == ASSUME NEW n \in Nat, Len(trace) = n, NEW d \in 0..n PROVE ParserSteps(parser(d), d, n)
<1> DEFINE S == {m \in Nat : \E p : ParserSteps(p, d, d + m)}
<1>1. 0 \in S
    <2>1. ParserSteps([k \in d..(d + 0) |-> NoSlices], d, d + 0)
        BY DEF ParserSteps
    <2> QED BY <2>1
<1>2. ASSUME NEW m \in Nat, m \in S PROVE m + 1 \in S
    <2>1. PICK p : ParserSteps(p, d, d + m)
        BY <1>2
    <2> DEFINE q == [k \in d..(d + (m + 1)) |-> IF k <= d + m THEN p[k] ELSE marker(p[d + m], trace[k], k)]
    <2>2. ASSUME NEW k \in d..(d + (m + 1)) PROVE q[k] = IF k = d THEN NoSlices ELSE marker(q[k - 1], trace[k], k)
        <3>1. CASE k = d
            BY <2>1, <3>1 DEF ParserSteps
        <3>2. CASE k # d /\ k <= d + m
            <4>1. k - 1 \in d..(d + (m + 1)) /\ k - 1 <= d + m /\ k \in d..(d + m)
                BY <3>2
            <4>2. q[k - 1] = p[k - 1] /\ q[k] = p[k]
                BY <3>2, <4>1
            <4>3. p[k] = marker(p[k - 1], trace[k], k)
                BY <2>1, <3>2, <4>1 DEF ParserSteps
            <4> HIDE DEF q
            <4> QED BY <3>2, <4>2, <4>3
        <3>3. CASE k = d + m + 1
            <4>1. k - 1 \in d..(d + (m + 1)) /\ k - 1 = d + m /\ ~ (k <= d + m)
                BY <3>3
            <4>2. q[k - 1] = p[d + m] /\ q[k] = marker(p[d + m], trace[k], k)
                BY <3>3, <4>1
            <4> HIDE DEF q
            <4> QED BY <3>3, <4>2
        <3> QED BY <3>1, <3>2, <3>3
    <2>3. q = [k \in d..(d + (m + 1)) |-> IF k = d THEN NoSlices ELSE marker(q[k - 1], trace[k], k)]
        <3>1. q = [k \in d..(d + (m + 1)) |-> q[k]]
            OBVIOUS
        <3> HIDE DEF q
        <3> QED BY <2>2, <3>1
    <2> HIDE DEF q
    <2>4. ParserSteps(q, d, d + (m + 1))
        BY <2>3 DEF ParserSteps
    <2> QED BY <2>4
<1>3. n - d \in S
    <2> HIDE DEF S
    <2>1. Nat \subseteq S
        BY <1>1, <1>2, Induct
    <2> QED BY <2>1
<1>4. \E p : ParserSteps(p, d, n)
    <2>1. d + (n - d) = n
        OBVIOUS
    <2> QED BY <1>3, <2>1
<1>5. parser(d) = CHOOSE p : p = [k \in d..n |-> IF k = d THEN NoSlices ELSE marker(p[k - 1], trace[k], k)]
    BY DEF parser, NoSlices
<1> QED BY <1>4, <1>5 DEF ParserSteps

------------------------------------------------------------------------------
(* What the parser holds after k markers: each slice told is true, and what  *)
(* stands on a thread's stack is open.                                       *)

Nested(d, b) == Cardinality({k \in Enclosing(b) : k > d})
TrueSlice(d, b) == Slice(trace[b].tid, Opened(trace[b], b), EndOf(b), Nested(d, b))
Begun(d, k) == {b \in Begins : b > d /\ b <= k}
(* An open slice of a thread: the begin it stands for, and what is balanced. *)
IsOpen(d, k, t, s, q, b) ==
    /\ b \in Begun(d, k) /\ trace[b].tid = t /\ s[q] = Opened(trace[b], b)
    /\ Balance(b, k) = Len(s) - q + 1 /\ \A j \in b..k : Balance(b, j) >= 1
    /\ Nested(d, b) = q - 1
Stacked(d, k, p) == \A t \in DOMAIN Scripts : \A q \in 1..Len(p.stacks[t]) : IsOpen(d, k, t, p.stacks[t], q, p.stacks[t][q].ts)
SlicesTrue(d, k, p) == \A s \in p.slices : \E b \in Begun(d, k) : s = TrueSlice(d, b)
Placed(d, k, p) ==
    \A b \in Begun(d, k) : \/ \E q \in 1..Len(p.stacks[trace[b].tid]) : p.stacks[trace[b].tid][q].ts = b
                           \/ TrueSlice(d, b) \in p.slices /\ EndOf(b) \in b..k
OpenSlices == [name : STRING, ts : Nat, wait : Nat]
StacksTyped(p) == p.stacks \in [DOMAIN Scripts -> Seq(OpenSlices)] /\ p = [stacks |-> p.stacks, slices |-> p.slices]
ParserInv(d, k, p) == StacksTyped(p) /\ Stacked(d, k, p) /\ SlicesTrue(d, k, p) /\ Placed(d, k, p)

(* Before the first line nothing is open and nothing is told.                *)
LEMMA ParserStarts == ASSUME trace \in Seq(TraceMarkers), NEW d \in 0..Len(trace) PROVE ParserInv(d, d, NoSlices)
<1>1. Begun(d, d) = {}
    BY DEF Begun, Begins
<1>2. <<>> \in Seq(OpenSlices) /\ Len(<<>>) = 0
    OBVIOUS
<1> QED BY <1>1, <1>2 DEF ParserInv, StacksTyped, Stacked, SlicesTrue, Placed, NoSlices

(* A sequence without its last.                                              *)
LEMMA FrontIs == ASSUME NEW T, NEW s \in Seq(T), s # <<>>
    PROVE Front(s) \in Seq(T) /\ Len(Front(s)) = Len(s) - 1 /\ \A q \in 1..(Len(s) - 1) : Front(s)[q] = s[q]
<1>1. Len(s) \in Nat /\ Len(s) >= 1
    OBVIOUS
<1> QED BY <1>1 DEF Front

(* What stands on a thread's stack is what encloses its next slice.          *)
LEMMA NestedIs == ASSUME trace \in Seq(TraceMarkers), NEW d \in Nat, NEW k \in (d + 1)..Len(trace), NEW p, ParserInv(d, k - 1, p),
                         trace[k].is = "B"
    PROVE Nested(d, k) = Len(p.stacks[trace[k].tid])
<1> DEFINE t == trace[k].tid
           s == p.stacks[t]
           m == Len(s)
           T == {x \in Enclosing(k) : x > d}
           f == [q \in 1..m |-> s[q].ts]
<1>1. t \in DOMAIN Scripts /\ s \in Seq(OpenSlices) /\ m \in Nat /\ k \in Nat /\ k \in DOMAIN trace
    <2>1. k \in 1..Len(trace) /\ trace[k] \in TraceMarkers
        OBVIOUS
    <2>2. t \in DOMAIN Scripts
        BY <2>1 DEF TraceMarkers
    <2>3. s \in Seq(OpenSlices)
        BY <2>2 DEF ParserInv, StacksTyped
    <2> HIDE DEF s, t
    <2> QED BY <2>1, <2>2, <2>3
<1> HIDE DEF m, T, f, s, t
<1>2. ASSUME NEW q \in 1..m PROVE IsOpen(d, k - 1, t, s, q, s[q].ts)
    BY <1>1 DEF ParserInv, Stacked, s, m
<1>3. ASSUME NEW q \in 1..m PROVE f[q] \in T
    <2> DEFINE b == s[q].ts
    <2>1. b \in Begun(d, k - 1) /\ trace[b].tid = t /\ Balance(b, k - 1) = m - q + 1 /\ \A j \in b..(k - 1) : Balance(b, j) >= 1
        BY <1>2 DEF IsOpen, m
    <2> HIDE DEF b
    <2>2. b \in Nat /\ b < k /\ b > d /\ b \in Begins /\ b \in 1..Len(trace)
        BY <2>1, <1>1 DEF Begun, Begins
    <2>3. Balance(b, k) = Balance(b, k - 1) + 1
        BY <2>1, <2>2, <1>1, BalanceStep DEF t
    <2>4. \A j \in b..k : Balance(b, j) >= 1
        BY <2>1, <2>3, <2>2, <1>1
    <2>5. EndOf(b) = 0 \/ EndOf(b) > k
        BY <2>4, <2>2, <1>1, NoEnd
    <2>6. b \in T
        BY <2>1, <2>2, <2>5 DEF T, Enclosing, t
    <2> QED BY <2>6 DEF f, b
<1>4. ASSUME NEW x \in T PROVE \E q \in 1..m : f[q] = x
    <2>1. x \in Begins /\ x < k /\ trace[x].tid = t /\ (EndOf(x) = 0 \/ EndOf(x) > k) /\ x > d /\ x \in Nat
        BY DEF T, Enclosing, t, Begins
    <2>2. x \in Begun(d, k - 1)
        BY <2>1, <1>1 DEF Begun
    <2>3. ~ (EndOf(x) \in x..(k - 1))
        BY <2>1, <1>1 DEF Begins
    <2>4. PICK q \in 1..m : s[q].ts = x
        BY <2>1, <2>2, <2>3 DEF ParserInv, Placed, s, m
    <2> QED BY <2>4 DEF f
<1>5. ASSUME NEW q \in 1..m, NEW r \in 1..m, f[q] = f[r] PROVE q = r
    <2>1. Balance(f[q], k - 1) = m - q + 1 /\ Balance(f[r], k - 1) = m - r + 1
        BY <1>2 DEF IsOpen, f, m
    <2> QED BY <2>1, <1>5, <1>1
<1>6. f \in Bijection(1..m, T)
    <2>1. f \in [1..m -> T]
        BY <1>3 DEF f
    <2> QED BY <2>1, <1>4, <1>5 DEF Bijection, Injection, Surjection, IsInjective
<1>7. IsFiniteSet(1..m) /\ Cardinality(1..m) = m
    <2>1. 1 \in Int /\ m \in Int
        BY <1>1
    <2>2. IsFiniteSet(1..m) /\ Cardinality(1..m) = IF 1 > m THEN 0 ELSE m - 1 + 1
        BY <2>1, FS_Interval
    <2> QED BY <1>1, <2>2
<1>8. Cardinality(T) = m
    BY <1>6, <1>7, FS_Bijection DEF ExistsBijection
<1> QED BY <1>8 DEF Nested, T, m, s, t

(* A marker keeps the invariant of the parser.                               *)
LEMMA ParserKeeps == ASSUME trace \in Seq(TraceMarkers), NEW d \in Nat, NEW k \in (d + 1)..Len(trace), NEW p, ParserInv(d, k - 1, p)
    PROVE ParserInv(d, k, marker(p, trace[k], k))
<1> DEFINE t == trace[k].tid
           s == p.stacks[t]
           m == Len(s)
           n == marker(p, trace[k], k)
<1>1. t \in DOMAIN Scripts /\ s \in Seq(OpenSlices) /\ m \in Nat /\ k \in Nat /\ k \in DOMAIN trace /\ trace[k].is \in {"B", "E"}
    <2>1. k \in 1..Len(trace) /\ trace[k] \in TraceMarkers
        OBVIOUS
    <2>2. t \in DOMAIN Scripts
        BY <2>1 DEF TraceMarkers
    <2>3. s \in Seq(OpenSlices)
        BY <2>2 DEF ParserInv, StacksTyped
    <2>4. trace[k].is \in {"B", "E"}
        BY <2>1 DEF TraceMarkers
    <2> HIDE DEF s, t
    <2> QED BY <2>1, <2>2, <2>3, <2>4
<1>t. Opened(trace[k], k) \in OpenSlices /\ Opened(trace[k], k).ts = k
    <2>1. k \in 1..Len(trace) /\ trace[k] \in TraceMarkers
        OBVIOUS
    <2> QED BY <2>1 DEF TraceMarkers, Opened, OpenSlices
<1>c. p.stacks \in [DOMAIN Scripts -> Seq(OpenSlices)] /\ p = [stacks |-> p.stacks, slices |-> p.slices]
    BY DEF ParserInv, StacksTyped
\* A thread that did not write the marker: nothing changes for it.
<1>2. ASSUME NEW u \in DOMAIN Scripts, u # t, NEW q \in 1..Len(p.stacks[u]) PROVE IsOpen(d, k, u, p.stacks[u], q, p.stacks[u][q].ts)
    <2> DEFINE b == p.stacks[u][q].ts
    <2>1. IsOpen(d, k - 1, u, p.stacks[u], q, b)
        BY DEF ParserInv, Stacked
    <2> HIDE DEF b
    <2>2. b \in Nat /\ b < k /\ b > d /\ b \in Begun(d, k) /\ trace[b].tid # trace[k].tid
        BY <2>1, <1>1, <1>2 DEF IsOpen, Begun, Begins
    <2>3. Balance(b, k) = Balance(b, k - 1)
        BY <2>2, <1>1, BalanceStep
    <2>4. \A j \in b..k : Balance(b, j) >= 1
        BY <2>1, <2>2, <2>3, <1>1 DEF IsOpen
    <2> QED BY <2>1, <2>2, <2>3, <2>4 DEF IsOpen, b
<1>3. ASSUME NEW b \in Begun(d, k), b # k PROVE b \in Begun(d, k - 1)
    BY <1>1, <1>3 DEF Begun, Begins
<1>4. ASSUME NEW b \in Begun(d, k - 1) PROVE b \in Begun(d, k) /\ b # k /\ b \in Nat /\ b < k /\ b \in 1..Len(trace) /\ trace[b].is = "B" /\ trace[b].tid \in DOMAIN Scripts
    <2>1. b \in 1..Len(trace) /\ trace[b] \in TraceMarkers
        BY DEF Begun, Begins
    <2> QED BY <1>1, <2>1 DEF Begun, Begins, TraceMarkers
<1>5. ASSUME NEW b \in Begun(d, k - 1), EndOf(b) \in b..(k - 1) PROVE EndOf(b) \in b..k
    BY <1>4, <1>5, <1>1
\* A begin is pushed.
<1>6. CASE trace[k].is = "B"
    <2>1. n = [p EXCEPT !.stacks[t] = Append(@, Opened(trace[k], k))]
        BY <1>6 DEF marker
    <2>2. n = [stacks |-> n.stacks, slices |-> p.slices] /\ n.slices = p.slices /\ n.stacks = [p.stacks EXCEPT ![t] = Append(s, Opened(trace[k], k))]
        BY <2>1, <1>c, <1>1
    <2> DEFINE s1 == Append(s, Opened(trace[k], k))
    <2>3. s1 \in Seq(OpenSlices) /\ Len(s1) = m + 1 /\ s1[m + 1] = Opened(trace[k], k) /\ \A q \in 1..m : s1[q] = s[q]
        BY <1>1, <1>t
    <2> HIDE DEF s1, n, s, m, t
    <2>4. n.stacks \in [DOMAIN Scripts -> Seq(OpenSlices)] /\ n.stacks[t] = s1 /\ \A u \in DOMAIN Scripts : u # t => n.stacks[u] = p.stacks[u]
        BY <2>2, <2>3, <1>1, <1>c DEF s1
    <2>5. StacksTyped(n)
        BY <2>2, <2>4 DEF StacksTyped
    <2>6. k \in Begun(d, k) /\ k \in Begins
        BY <1>1, <1>6 DEF Begun, Begins
    <2>7. ASSUME NEW q \in 1..Len(s1) PROVE IsOpen(d, k, t, s1, q, s1[q].ts)
        <3>1. CASE q = m + 1
            <4>1. s1[q] = Opened(trace[k], k) /\ s1[q].ts = k
                BY <3>1, <2>3, <1>t
            <4>2. Balance(k, k) = 1
                BY <1>6, <1>1, BalanceStarts
            <4>3. Nested(d, k) = m
                BY <1>6, NestedIs DEF m, s, t
            <4>4. \A j \in k..k : Balance(k, j) >= 1
                BY <4>2, <1>1
            <4>5. Len(s1) - q + 1 = 1 /\ q - 1 = m
                BY <3>1, <2>3, <1>1
            <4> QED BY <2>6, <4>1, <4>2, <4>3, <4>4, <4>5 DEF IsOpen, t
        <3>2. CASE q \in 1..m
            <4> DEFINE b == s[q].ts
            <4>1. IsOpen(d, k - 1, t, s, q, b)
                BY <3>2, <1>1 DEF ParserInv, Stacked, s, m
            <4> HIDE DEF b
            <4>2. b \in Begun(d, k - 1) /\ trace[b].tid = t /\ s[q] = Opened(trace[b], b) /\ Balance(b, k - 1) = m - q + 1 /\ (\A j \in b..(k - 1) : Balance(b, j) >= 1) /\ Nested(d, b) = q - 1
                BY <4>1 DEF IsOpen, m
            <4>3. b \in Nat /\ b < k /\ b \in Begun(d, k)
                BY <4>2, <1>4
            <4>4. Balance(b, k) = Balance(b, k - 1) + 1
                BY <4>2, <4>3, <1>1, <1>6, BalanceStep DEF t
            <4>5. Balance(b, k) = Len(s1) - q + 1
                BY <4>2, <4>4, <2>3, <1>1
            <4>6. \A j \in b..k : Balance(b, j) >= 1
                BY <4>2, <4>3, <4>4, <1>1
            <4>7. s1[q] = s[q] /\ s1[q].ts = b
                BY <3>2, <2>3 DEF b
            <4> QED BY <4>2, <4>3, <4>5, <4>6, <4>7 DEF IsOpen
        <3>3. q = m + 1 \/ q \in 1..m
            BY <2>3, <1>1
        <3> QED BY <3>1, <3>2, <3>3
    <2>8. Stacked(d, k, n)
        BY <2>4, <2>7, <1>2 DEF Stacked
    <2>9. SlicesTrue(d, k, n)
        BY <2>2, <1>4 DEF ParserInv, SlicesTrue
    <2>10. ASSUME NEW b \in Begun(d, k)
           PROVE \/ \E q \in 1..Len(n.stacks[trace[b].tid]) : n.stacks[trace[b].tid][q].ts = b
                 \/ TrueSlice(d, b) \in n.slices /\ EndOf(b) \in b..k
        <3>1. CASE b = k
            <4>1. m + 1 \in 1..Len(s1) /\ s1[m + 1].ts = k
                BY <2>3, <1>t, <1>1
            <4> QED BY <3>1, <4>1, <2>4 DEF t
        <3>2. CASE b # k
            <4>1. b \in Begun(d, k - 1)
                BY <1>3, <3>2
            <4>2. CASE TrueSlice(d, b) \in p.slices /\ EndOf(b) \in b..(k - 1)
                BY <4>1, <4>2, <2>2, <1>5
            <4>3. CASE \E q \in 1..Len(p.stacks[trace[b].tid]) : p.stacks[trace[b].tid][q].ts = b
                <5>1. PICK q \in 1..Len(p.stacks[trace[b].tid]) : p.stacks[trace[b].tid][q].ts = b
                    BY <4>3
                <5>2. CASE trace[b].tid = t
                    <6>1. q \in 1..m /\ s[q].ts = b
                        BY <5>1, <5>2 DEF s, m
                    <6>2. q \in 1..Len(s1) /\ s1[q].ts = b
                        BY <6>1, <2>3, <1>1
                    <6> QED BY <6>2, <5>2, <2>4
                <5>3. CASE trace[b].tid # t
                    BY <5>1, <5>3, <2>4, <4>1, <1>4
                <5> QED BY <5>2, <5>3
            <4> QED BY <4>1, <4>2, <4>3 DEF ParserInv, Placed
        <3> QED BY <3>1, <3>2
    <2> QED BY <2>5, <2>8, <2>9, <2>10 DEF ParserInv, Placed, n
\* An end without its begin closes nothing.
<1>7. CASE trace[k].is = "E" /\ s = <<>>
    <2>1. n = p
        BY <1>7 DEF marker
    <2>2. ASSUME NEW u \in DOMAIN Scripts, NEW q \in 1..Len(p.stacks[u]) PROVE u # t
        BY <1>7
    <2>3. Stacked(d, k, p)
        BY <2>2, <1>2 DEF Stacked
    <2>4. SlicesTrue(d, k, p)
        BY <1>4 DEF ParserInv, SlicesTrue
    <2>5. ASSUME NEW b \in Begun(d, k) PROVE b \in Begun(d, k - 1)
        BY <1>3, <1>7 DEF Begun, Begins
    <2>6. Placed(d, k, p)
        BY <2>5, <1>5 DEF ParserInv, Placed
    <2> HIDE DEF n
    <2> QED BY <2>1, <2>3, <2>4, <2>6 DEF ParserInv, n
\* An end closes the innermost slice of its thread.
<1>8. CASE trace[k].is = "E" /\ s # <<>>
    <2> DEFINE b0 == s[m].ts
               s1 == Front(s)
    <2>1. m \in 1..m /\ m >= 1
        BY <1>1, <1>8
    <2>2. n = [stacks |-> [p.stacks EXCEPT ![t] = Front(@)], slices |-> p.slices \cup {Slice(t, Last(s), k, m - 1)}]
        BY <1>8 DEF marker
    <2>3. n = [stacks |-> n.stacks, slices |-> n.slices] /\ n.slices = p.slices \cup {Slice(t, s[m], k, m - 1)} /\ n.stacks = [p.stacks EXCEPT ![t] = s1]
        BY <2>2, <1>c, <1>1 DEF Last
    <2>4. s1 \in Seq(OpenSlices) /\ Len(s1) = m - 1 /\ \A q \in 1..(m - 1) : s1[q] = s[q]
        BY <1>1, <1>8, FrontIs
    <2> HIDE DEF s1, n, s, m, t, b0
    <2>5. n.stacks \in [DOMAIN Scripts -> Seq(OpenSlices)] /\ n.stacks[t] = s1 /\ \A u \in DOMAIN Scripts : u # t => n.stacks[u] = p.stacks[u]
        BY <2>3, <2>4, <1>1, <1>c
    <2>6. StacksTyped(n)
        BY <2>3, <2>5 DEF StacksTyped
    <2>7. ASSUME NEW q \in 1..m
          PROVE \E b \in {s[q].ts} : b \in Begun(d, k - 1) /\ trace[b].tid = t /\ s[q] = Opened(trace[b], b) /\ Balance(b, k) = m - q
                                     /\ (\A j \in b..(k - 1) : Balance(b, j) >= 1) /\ Nested(d, b) = q - 1
        <3> DEFINE b == s[q].ts
        <3>1. IsOpen(d, k - 1, t, s, q, b)
            BY <1>1 DEF ParserInv, Stacked, s, m
        <3> HIDE DEF b
        <3>2. b \in Begun(d, k - 1) /\ trace[b].tid = t /\ s[q] = Opened(trace[b], b) /\ Balance(b, k - 1) = m - q + 1 /\ (\A j \in b..(k - 1) : Balance(b, j) >= 1) /\ Nested(d, b) = q - 1
            BY <3>1 DEF IsOpen, m
        <3>3. b \in Nat /\ b < k
            BY <3>2, <1>4
        <3>4. Balance(b, k) = Balance(b, k - 1) - 1
            BY <3>2, <3>3, <1>1, <1>8, BalanceStep DEF t
        <3>5. Balance(b, k) = m - q
            BY <3>2, <3>4, <1>1
        <3> QED BY <3>2, <3>5 DEF b
    <2>8. b0 \in Begun(d, k - 1) /\ trace[b0].tid = t /\ s[m] = Opened(trace[b0], b0) /\ Balance(b0, k) = m - m /\ (\A j \in b0..(k - 1) : Balance(b0, j) >= 1) /\ Nested(d, b0) = m - 1
        BY <2>1, <2>7 DEF b0
    <2>9. EndOf(b0) = k
        <3>1. b0 \in 1..Len(trace) /\ k \in b0..Len(trace)
            BY <2>8, <1>4, <1>1
        <3>2. Balance(b0, k) = 0 /\ trace[k].tid = trace[b0].tid
            BY <2>8, <1>1 DEF t
        <3> QED BY <3>1, <3>2, <2>8, EndIs
    <2>10. Slice(t, s[m], k, m - 1) = TrueSlice(d, b0)
        BY <2>8, <2>9 DEF TrueSlice
    <2>11. ASSUME NEW q \in 1..Len(s1) PROVE IsOpen(d, k, t, s1, q, s1[q].ts)
        <3>1. q \in 1..m /\ q \in 1..(m - 1) /\ s1[q] = s[q]
            BY <2>4, <1>1, <2>1
        <3> DEFINE b == s[q].ts
        <3>2. b \in Begun(d, k - 1) /\ trace[b].tid = t /\ s[q] = Opened(trace[b], b) /\ Balance(b, k) = m - q
                                     /\ (\A j \in b..(k - 1) : Balance(b, j) >= 1) /\ Nested(d, b) = q - 1
            BY <2>7, <3>1
        <3> HIDE DEF b
        <3>3. b \in Begun(d, k) /\ b \in Nat /\ b < k
            BY <3>2, <1>4
        <3>4. Balance(b, k) = Len(s1) - q + 1 /\ Balance(b, k) >= 1
            BY <3>1, <3>2, <2>4, <1>1
        <3>5. \A j \in b..k : Balance(b, j) >= 1
            BY <3>2, <3>3, <3>4, <1>1
        <3> QED BY <3>1, <3>2, <3>3, <3>4, <3>5 DEF IsOpen, b
    <2>12. Stacked(d, k, n)
        BY <2>5, <2>11, <1>2 DEF Stacked
    <2>13. SlicesTrue(d, k, n)
        BY <2>3, <2>8, <2>10, <1>4 DEF ParserInv, SlicesTrue
    <2>14. ASSUME NEW b \in Begun(d, k)
           PROVE \/ \E q \in 1..Len(n.stacks[trace[b].tid]) : n.stacks[trace[b].tid][q].ts = b
                 \/ TrueSlice(d, b) \in n.slices /\ EndOf(b) \in b..k
        <3>1. b \in Begun(d, k - 1) /\ trace[b].tid \in DOMAIN Scripts
            BY <1>3, <1>4, <1>8 DEF Begun, Begins
        <3>2. CASE TrueSlice(d, b) \in p.slices /\ EndOf(b) \in b..(k - 1)
            BY <3>1, <3>2, <2>3, <1>5
        <3>3. CASE \E q \in 1..Len(p.stacks[trace[b].tid]) : p.stacks[trace[b].tid][q].ts = b
            <4>1. PICK q \in 1..Len(p.stacks[trace[b].tid]) : p.stacks[trace[b].tid][q].ts = b
                BY <3>3
            <4>2. CASE trace[b].tid # t
                BY <4>1, <4>2, <3>1, <2>5
            <4>3. CASE trace[b].tid = t
                <5>1. q \in 1..m /\ s[q].ts = b
                    BY <4>1, <4>3 DEF s, m
                <5>2. CASE q = m
                    <6>1. b = b0
                        BY <5>1, <5>2 DEF b0
                    <6>2. EndOf(b) \in b..k
                        BY <6>1, <2>9, <3>1, <1>4, <1>1
                    <6> QED BY <6>1, <6>2, <2>3, <2>10
                <5>3. CASE q # m
                    <6>1. q \in 1..Len(s1) /\ s1[q].ts = b
                        BY <5>1, <5>3, <2>4, <1>1
                    <6> QED BY <6>1, <4>3, <2>5
                <5> QED BY <5>2, <5>3
            <4> QED BY <4>2, <4>3
        <3> QED BY <3>1, <3>2, <3>3 DEF ParserInv, Placed
    <2> QED BY <2>6, <2>12, <2>13, <2>14 DEF ParserInv, Placed, n
<1> QED BY <1>1, <1>6, <1>7, <1>8

(* After every line that is left the invariant holds, by induction over      *)
(* them.                                                                     *)
LEMMA ParsedIs == ASSUME trace \in Seq(TraceMarkers), NEW d \in 0..Len(trace) PROVE ParserInv(d, Len(trace), parser(d)[Len(trace)])
<1> DEFINE n == Len(trace)
           S == {m \in Nat : d + m <= n => ParserInv(d, d + m, parser(d)[d + m])}
<1>1. n \in Nat /\ d \in Nat /\ ParserSteps(parser(d), d, n)
    BY ParserIs
<1>2. parser(d)[d] = NoSlices
    BY <1>1 DEF ParserSteps
<1>3. 0 \in S
    <2>1. d + 0 = d
        BY <1>1
    <2> QED BY <2>1, <1>2, ParserStarts
<1>4. ASSUME NEW m \in Nat, m \in S PROVE m + 1 \in S
    <2> SUFFICES ASSUME d + (m + 1) <= n PROVE ParserInv(d, d + (m + 1), parser(d)[d + (m + 1)])
        OBVIOUS
    <2> DEFINE k == d + (m + 1)
    <2>1. k \in (d + 1)..Len(trace) /\ k - 1 = d + m /\ d + m <= n /\ k \in d..n /\ k # d
        BY <1>1
    <2>2. ParserInv(d, k - 1, parser(d)[k - 1])
        BY <2>1, <1>4
    <2>3. parser(d)[k] = marker(parser(d)[k - 1], trace[k], k)
        BY <2>1, <1>1 DEF ParserSteps
    <2> HIDE DEF k
    <2>4. ParserInv(d, k, marker(parser(d)[k - 1], trace[k], k))
        BY <1>1, <2>1, <2>2, ParserKeeps
    <2>5. ParserInv(d, k, parser(d)[k])
        BY <2>3, <2>4
    <2> QED BY <2>5 DEF k
<1>5. n - d \in S /\ d + (n - d) = n
    <2> HIDE DEF S
    <2>1. Nat \subseteq S
        BY <1>3, <1>4, Induct
    <2> QED BY <2>1, <1>1
<1> QED BY <1>5, <1>1

(* What is open at the end is told without an end, and so every begin is     *)
(* told.                                                                     *)
LEMMA ParsedWhole == ASSUME trace \in Seq(TraceMarkers), NEW d \in 0..Len(trace)
    PROVE parseTrace(d) = {TrueSlice(d, b) : b \in {x \in Begins : x > d}}
<1> DEFINE n == Len(trace)
           p == parser(d)[n]
           open == UNION {{Slice(t, p.stacks[t][k], 0, k - 1) : k \in DOMAIN p.stacks[t]} : t \in DOMAIN p.stacks}
<1>1. StacksTyped(p) /\ Stacked(d, n, p) /\ SlicesTrue(d, n, p) /\ Placed(d, n, p) /\ n \in Nat
    BY ParsedIs DEF ParserInv
<1>2. parseTrace(d) = p.slices \cup open
    BY DEF parseTrace, finish
<1> HIDE DEF p
<1>3. Begun(d, n) = {x \in Begins : x > d}
    BY <1>1 DEF Begun, Begins
<1>4. DOMAIN p.stacks = DOMAIN Scripts /\ \A t \in DOMAIN Scripts : p.stacks[t] \in Seq(OpenSlices) /\ DOMAIN p.stacks[t] = 1..Len(p.stacks[t])
    BY <1>1 DEF StacksTyped
<1>5. ASSUME NEW t \in DOMAIN Scripts, NEW q \in 1..Len(p.stacks[t])
      PROVE p.stacks[t][q].ts \in Begun(d, n) /\ Slice(t, p.stacks[t][q], 0, q - 1) = TrueSlice(d, p.stacks[t][q].ts)
    <2> DEFINE b == p.stacks[t][q].ts
    <2>1. IsOpen(d, n, t, p.stacks[t], q, b)
        BY <1>1 DEF Stacked
    <2> HIDE DEF b
    <2>2. b \in Begun(d, n) /\ trace[b].tid = t /\ p.stacks[t][q] = Opened(trace[b], b) /\ (\A j \in b..n : Balance(b, j) >= 1) /\ Nested(d, b) = q - 1
        BY <2>1 DEF IsOpen
    <2>3. b \in 1..Len(trace) /\ n \in b..Len(trace)
        BY <2>2, <1>1 DEF Begun, Begins
    <2>4. EndOf(b) = 0 \/ EndOf(b) > n
        BY <2>2, <2>3, NoEnd
    <2>5. EndOf(b) \in 0..n
        <3> DEFINE ends == {j \in b..Len(trace) : trace[j].tid = trace[b].tid /\ Balance(b, j) = 0}
        <3>1. ends \subseteq 1..n
            BY <2>3
        <3>2. EndOf(b) = IF ends = {} THEN 0 ELSE CHOOSE x \in ends : \A y \in ends : x <= y
            BY DEF EndOf, Min
        <3> HIDE DEF ends
        <3>3. CASE ends # {}
            <4>a. ends \in SUBSET Nat
                BY <3>1, <1>1
            <4>1. \E x \in ends : \A y \in ends : x <= y
                BY <4>a, <3>3, Least
            <4>2. EndOf(b) \in ends
                BY <3>2, <3>3, <4>1
            <4>3. EndOf(b) \in 1..n
                BY <3>1, <4>2
            <4> HIDE DEF n
            <4> QED BY <4>3, <1>1
        <3> QED BY <3>2, <3>3, <1>1
    <2>6. EndOf(b) = 0
        BY <2>4, <2>5, <1>1
    <2> QED BY <2>2, <2>6 DEF TrueSlice, b
<1>6. ASSUME NEW x \in open PROVE \E b \in Begun(d, n) : x = TrueSlice(d, b)
    BY <1>4, <1>5
<1>7. ASSUME NEW b \in Begun(d, n) PROVE TrueSlice(d, b) \in p.slices \cup open
    <2>1. trace[b].tid \in DOMAIN Scripts
        <3>1. b \in 1..Len(trace) /\ trace[b] \in TraceMarkers
            BY DEF Begun, Begins
        <3> QED BY <3>1 DEF TraceMarkers
    <2>2. CASE \E q \in 1..Len(p.stacks[trace[b].tid]) : p.stacks[trace[b].tid][q].ts = b
        <3>1. PICK q \in 1..Len(p.stacks[trace[b].tid]) : p.stacks[trace[b].tid][q].ts = b
            BY <2>2
        <3>2. Slice(trace[b].tid, p.stacks[trace[b].tid][q], 0, q - 1) = TrueSlice(d, b)
            BY <3>1, <2>1, <1>5
        <3>3. ASSUME NEW t \in DOMAIN Scripts, NEW k \in 1..Len(p.stacks[t]) PROVE Slice(t, p.stacks[t][k], 0, k - 1) \in open
            <4>1. t \in DOMAIN p.stacks /\ k \in DOMAIN p.stacks[t]
                BY <1>4
            <4>2. Slice(t, p.stacks[t][k], 0, k - 1) \in {Slice(t, p.stacks[t][j], 0, j - 1) : j \in DOMAIN p.stacks[t]}
                BY <4>1
            <4> QED BY <4>1, <4>2
        <3> HIDE DEF open
        <3> QED BY <3>1, <3>2, <3>3, <2>1
    <2> QED BY <2>2, <1>1 DEF Placed
<1> HIDE DEF open, n
<1> QED BY <1>1, <1>2, <1>3, <1>6, <1>7 DEF SlicesTrue

(* A capture parses a trace of the scripts' markers once.                    *)
TraceInv ==
    /\ trace \in Seq(TraceMarkers)
    /\ captured # <<>> => dropped \in 0..Len(trace) /\ captured[1] = parseTrace(dropped)

(* Nothing is written at the start.                                          *)
LEMMA TraceInitInv == TraceInit => TraceInv
BY DEF TraceInit, TraceInv

(* A thread writes one of its markers, or the capture ends.                  *)
LEMMA TraceNextInv == TraceInv /\ [TraceNext]_traceVars => TraceInv'
<1> SUFFICES ASSUME TraceInv, [TraceNext]_traceVars PROVE TraceInv'
    OBVIOUS
<1>1. ASSUME NEW t \in DOMAIN Scripts, Write(t) PROVE TraceInv'
    <2>1. Written(t) \in Nat
        <3>1. DOMAIN trace = 1..Len(trace) /\ Len(trace) \in Nat
            BY DEF TraceInv
        <3>2. IsFiniteSet(DOMAIN trace)
            BY <3>1, FS_Interval
        <3>3. {i \in DOMAIN trace : trace[i].tid = t} \in SUBSET DOMAIN trace
            OBVIOUS
        <3> QED BY <3>2, <3>3, FS_Subset, FS_CardinalityType DEF Written
    <2>2. Scripts[t][Written(t) + 1] \in [is : {"B", "E"}, name : STRING, wait : Nat, after : SUBSET ((DOMAIN Scripts) \X Nat)]
        <3>1. Written(t) < Len(Scripts[t])
            BY <1>1 DEF Write
        <3>2. Scripts[t] \in Seq([is : {"B", "E"}, name : STRING, wait : Nat, after : SUBSET ((DOMAIN Scripts) \X Nat)])
            BY ScriptsAssumption
        <3>3. Written(t) + 1 \in 1..Len(Scripts[t])
            BY <3>1, <3>2, <2>1
        <3> DEFINE R == [is : {"B", "E"}, name : STRING, wait : Nat, after : SUBSET ((DOMAIN Scripts) \X Nat)]
        <3>4. Scripts[t] \in Seq(R)
            BY <3>2
        <3> HIDE DEF R
        <3>5. Scripts[t][Written(t) + 1] \in R
            BY <3>3, <3>4
        <3> QED BY <3>5 DEF R
    <2>3. captured = <<>> /\ captured' = captured
        BY <1>1 DEF Write
    <2>4. PICK e \in {Scripts[t][Written(t) + 1]} : trace' = Append(trace, [tid |-> t, is |-> e.is, name |-> e.name, wait |-> e.wait])
        BY <1>1 DEF Write
    <2>5. [tid |-> t, is |-> e.is, name |-> e.name, wait |-> e.wait] \in TraceMarkers
        BY <2>2, <2>4 DEF TraceMarkers
    <2>6. trace' \in Seq(TraceMarkers)
        BY <2>4, <2>5 DEF TraceInv
    <2> QED BY <2>3, <2>6 DEF TraceInv, TraceMarkers
<1>2. CASE CaptureEnds
    <2>1. PICK d \in 0..(Len(trace) - 1) : dropped' = d /\ captured' = <<parseTrace(d)>>
        BY <1>2 DEF CaptureEnds
    <2>2. trace' = trace
        BY <1>2 DEF CaptureEnds
    <2>3. parseTrace(dropped)' = parseTrace(d)
        <3>1. parser(dropped)' = parser(d)
            BY <2>1, <2>2 DEF parser
        <3>2. Len(trace)' = Len(trace)
            BY <2>2
        <3>3. (finish(parser(dropped)[Len(trace)]))' = finish(parser(d)[Len(trace)])
            BY <3>1, <3>2 DEF finish
        <3> QED BY <3>3 DEF parseTrace
    <2>4. dropped' \in 0..Len(trace') /\ captured'[1] = parseTrace(dropped)'
        BY <2>1, <2>2, <2>3 DEF TraceInv
    <2> QED BY <2>2, <2>4 DEF TraceInv, TraceMarkers
<1>3. CASE UNCHANGED traceVars
    <2>1. parseTrace(dropped)' = parseTrace(dropped)
        BY <1>3 DEF traceVars, parseTrace, parser, finish, marker
    <2> QED BY <1>3, <2>1 DEF traceVars, TraceInv, TraceMarkers
<1> QED BY <1>1, <1>2, <1>3 DEF TraceNext

(* A capture that lost its head and its tail yields the slices that began in *)
(* it, each with its own end and its place among those of its thread.        *)
THEOREM TraceReadWhole == TraceSpec => []TraceIsWhole
<1>1. TraceInv => TraceIsWhole
    <2> SUFFICES ASSUME TraceInv, captured # <<>> PROVE TraceIsWhole
        BY DEF TraceIsWhole
    <2>1. captured[1] = {TrueSlice(dropped, b) : b \in {x \in Begins : x > dropped}}
        BY ParsedWhole DEF TraceInv
    <2> QED BY <2>1 DEF TraceIsWhole, TrueSlice, Nested
<1> QED BY <1>1, TraceInitInv, TraceNextInv, PTL DEF TraceSpec

------------------------------------------------------------------------------
(* The chain of a freeze (BinderChain): the calls and their order.           *)

Calls == [src : Threads, dst : Threads, async : BOOLEAN]

(* Appending to a sequence adds to its set.                                  *)
LEMMA AppendSet == ASSUME NEW T, NEW s \in Seq(T), NEW e \in T PROVE Append(s, e) \in Seq(T) /\ ToSet(Append(s, e)) = ToSet(s) \cup {e}
<1>1. Len(s) \in Nat /\ Append(s, e) \in Seq(T) /\ Len(Append(s, e)) = Len(s) + 1 /\ DOMAIN s = 1..Len(s) /\ DOMAIN Append(s, e) = 1..(Len(s) + 1)
    OBVIOUS
<1>2. Append(s, e)[Len(s) + 1] = e /\ \A i \in 1..Len(s) : Append(s, e)[i] = s[i]
    OBVIOUS
<1> DEFINE a == Append(s, e)
           n == Len(s)
<1>3. a \in Seq(T) /\ n \in Nat /\ DOMAIN s = 1..n /\ DOMAIN a = 1..(n + 1) /\ a[n + 1] = e /\ \A i \in 1..n : a[i] = s[i]
    BY <1>1, <1>2
<1> HIDE DEF a, n
<1>4. {a[i] : i \in 1..(n + 1)} = {s[i] : i \in 1..n} \cup {e}
    <2>1. \A i \in 1..(n + 1) : i = n + 1 \/ i \in 1..n
        BY <1>3
    <2>2. n + 1 \in 1..(n + 1) /\ \A i \in 1..n : i \in 1..(n + 1)
        BY <1>3
    <2> QED BY <1>3, <2>1, <2>2
<1> QED BY <1>3, <1>4 DEF ToSet, a, n

(* CallsIn keeps the calls that it is told to keep.                          *)
LEMMA CallsInIs == ASSUME NEW calls \in Seq(Calls), NEW S PROVE CallsIn(calls, S) \in Seq(Calls) /\ ToSet(CallsIn(calls, S)) = ToSet(calls) \cap S
<1> DEFINE n == Len(calls)
           F == [a \in Nat \X Seq(Calls) |-> IF a[1] \in 1..n /\ calls[a[1]] \in S THEN Append(a[2], calls[a[1]]) ELSE a[2]]
<1>0. n \in Nat /\ \A k \in 1..n : calls[k] \in Calls
    OBVIOUS
<1>1. F \in [Nat \X Seq(Calls) -> Seq(Calls)]
    <2>1. ASSUME NEW a \in Nat \X Seq(Calls) PROVE (IF a[1] \in 1..n /\ calls[a[1]] \in S THEN Append(a[2], calls[a[1]]) ELSE a[2]) \in Seq(Calls)
        <3>1. a[2] \in Seq(Calls)
            OBVIOUS
        <3> QED BY <3>1, <1>0
    <2> QED BY <2>1
<1>2. <<>> \in Seq(Calls)
    OBVIOUS
<1> DEFINE R(f) == f = [k \in 0..n |-> IF k = 0 THEN <<>> ELSE IF calls[k] \in S THEN Append(f[k - 1], calls[k]) ELSE f[k - 1]]
<1>3. PICK f \in [0..n -> Seq(Calls)] : Recurs(f, n, <<>>, F)
    <2> HIDE DEF F, n
    <2> QED BY <1>0, <1>1, <1>2, Recursion
<1>4. ASSUME NEW k \in 0..n, k # 0 PROVE F[<<k, f[k - 1]>>] = IF calls[k] \in S THEN Append(f[k - 1], calls[k]) ELSE f[k - 1]
    <2>1. k - 1 \in 0..n /\ k \in 1..n /\ k \in Nat /\ f[k - 1] \in Seq(Calls)
        BY <1>4, <1>0
    <2>2. <<k, f[k - 1]>> \in Nat \X Seq(Calls)
        BY <2>1
    <2> HIDE DEF n
    <2> QED BY <2>1, <2>2
<1>5. R(f)
    <2> HIDE DEF F, n
    <2>1. f = [k \in 0..n |-> IF k = 0 THEN <<>> ELSE F[<<k, f[k - 1]>>]]
        BY <1>3 DEF Recurs
    <2>2. [k \in 0..n |-> IF k = 0 THEN <<>> ELSE F[<<k, f[k - 1]>>]] = [k \in 0..n |-> IF k = 0 THEN <<>> ELSE IF calls[k] \in S THEN Append(f[k - 1], calls[k]) ELSE f[k - 1]]
        BY <1>4
    <2> QED BY <2>1, <2>2
<1> DEFINE g == CHOOSE h : R(h)
<1>6. CallsIn(calls, S) = g[n]
    BY DEF CallsIn
<1>7. R(g)
    <2> HIDE DEF R
    <2> QED BY <1>5
<1> HIDE DEF g
<1> DEFINE M == {m \in Nat : m <= n => g[m] \in Seq(Calls) /\ ToSet(g[m]) = {calls[j] : j \in 1..m} \cap S}
<1>8. 0 \in M
    <2>1. g[0] = <<>>
        BY <1>7, <1>0
    <2>2. ToSet(<<>>) = {} /\ {calls[j] : j \in 1..0} = {}
        BY DEF ToSet
    <2> QED BY <2>1, <2>2, <1>2
<1>9. ASSUME NEW m \in Nat, m \in M PROVE m + 1 \in M
    <2> SUFFICES ASSUME m + 1 <= n PROVE g[m + 1] \in Seq(Calls) /\ ToSet(g[m + 1]) = {calls[j] : j \in 1..(m + 1)} \cap S
        OBVIOUS
    <2>1. g[m] \in Seq(Calls) /\ ToSet(g[m]) = {calls[j] : j \in 1..m} \cap S
        BY <1>9, <1>0
    <2>2. m + 1 \in 0..n /\ m + 1 # 0 /\ (m + 1) - 1 = m /\ m + 1 \in 1..n
        BY <1>0
    <2>3. g[m + 1] = IF calls[m + 1] \in S THEN Append(g[m], calls[m + 1]) ELSE g[m]
        BY <1>7, <2>2
    <2>4. calls[m + 1] \in Calls
        BY <1>0, <2>2
    <2> HIDE DEF R, n
    <2>5. {calls[j] : j \in 1..(m + 1)} = {calls[j] : j \in 1..m} \cup {calls[m + 1]}
        OBVIOUS
    <2>6. ASSUME NEW s \in Seq(Calls), NEW e \in Calls PROVE Append(s, e) \in Seq(Calls) /\ ToSet(Append(s, e)) = ToSet(s) \cup {e}
        BY AppendSet
    <2>7. CASE calls[m + 1] \in S
        <3>1. g[m + 1] = Append(g[m], calls[m + 1])
            BY <2>3, <2>7
        <3>2. g[m + 1] \in Seq(Calls) /\ ToSet(g[m + 1]) = ToSet(g[m]) \cup {calls[m + 1]}
            BY <3>1, <2>1, <2>4, <2>6
        <3> QED BY <2>1, <2>5, <2>7, <3>2
    <2>8. CASE calls[m + 1] \notin S
        BY <2>1, <2>3, <2>5, <2>8
    <2> QED BY <2>7, <2>8
<1>10. n \in M
    <2> HIDE DEF M, n
    <2> QED BY <1>0, <1>8, <1>9, Induct
<1>11. ToSet(calls) = {calls[j] : j \in 1..n}
    BY DEF ToSet
<1> QED BY <1>0, <1>6, <1>10, <1>11

------------------------------------------------------------------------------
(* The reference: what is reached in as many steps as there are threads.     *)

(* There are no more threads to visit than turns.                            *)
LEMMA NodesFinite == IsFiniteSet(Nodes) /\ Cardinality(Nodes) \in Nat /\ Turns \in Nat /\ Cardinality(Nodes) <= Turns /\ Nodes \subseteq Nat \X Nat
<1>1. IsFiniteSet(Threads)
    BY ThreadsAssumption
<1>2. Cardinality(Threads) \in Nat
    BY <1>1, FS_CardinalityType
<1>3. IsFiniteSet(Nodes) /\ Cardinality(Nodes) = IF <<FaultPid, FaultTid>> \in Threads THEN Cardinality(Threads) ELSE Cardinality(Threads) + 1
    BY <1>1, FS_AddElement DEF Nodes
<1>4. Nodes \subseteq Nat \X Nat
    BY ThreadsAssumption DEF Nodes
<1> QED BY <1>2, <1>3, <1>4 DEF Turns

Closed(steps, T) == \A n \in T : steps[n] \subseteq T
(* Growing a set of threads as often as there are threads closes it.         *)
LEMMA WithinIs == ASSUME NEW steps \in [Nodes -> SUBSET Nodes], NEW S \in SUBSET Nodes, S # {}
    PROVE /\ Within(steps, S) \in SUBSET Nodes /\ S \subseteq Within(steps, S) /\ Closed(steps, Within(steps, S))
          /\ \A T \in SUBSET Nodes : S \subseteq T /\ Closed(steps, T) => Within(steps, S) \subseteq T
<1> DEFINE n == Turns
           F == [a \in Nat \X SUBSET Nodes |-> Grown(steps, a[2])]
           R(f) == f = [k \in 0..n |-> IF k = 0 THEN S ELSE Grown(steps, f[k - 1])]
<1>0. n \in Nat
    BY NodesFinite
<1>1. F \in [Nat \X SUBSET Nodes -> SUBSET Nodes]
    BY DEF Grown
<1>3. PICK f \in [0..n -> SUBSET Nodes] : Recurs(f, n, S, F)
    <2> HIDE DEF F, n
    <2> QED BY <1>0, <1>1, Recursion
<1>5. R(f)
    <2>1. ASSUME NEW k \in 0..n, k # 0 PROVE F[<<k, f[k - 1]>>] = Grown(steps, f[k - 1])
        <3>1. k - 1 \in 0..n /\ k \in Nat
            BY <2>1, <1>0
        <3>2. f[k - 1] \in SUBSET Nodes
            BY <3>1
        <3> HIDE DEF n
        <3>3. <<k, f[k - 1]>> \in Nat \X SUBSET Nodes
            BY <3>1, <3>2
        <3> QED BY <3>3
    <2> HIDE DEF F, n
    <2>2. f = [k \in 0..n |-> IF k = 0 THEN S ELSE F[<<k, f[k - 1]>>]]
        BY <1>3 DEF Recurs
    <2>3. [k \in 0..n |-> IF k = 0 THEN S ELSE F[<<k, f[k - 1]>>]] = [k \in 0..n |-> IF k = 0 THEN S ELSE Grown(steps, f[k - 1])]
        BY <2>1
    <2> QED BY <2>2, <2>3
<1> DEFINE g == CHOOSE h : R(h)
<1>6. Within(steps, S) = g[n]
    BY DEF Within
<1>7. R(g)
    <2> HIDE DEF R
    <2> QED BY <1>5
<1> HIDE DEF g
<1> DEFINE M == {m \in Nat : m <= n => /\ g[m] \in SUBSET Nodes /\ S \subseteq g[m]
                                       /\ \A T \in SUBSET Nodes : S \subseteq T /\ Closed(steps, T) => g[m] \subseteq T
                                       /\ Closed(steps, g[m]) \/ Cardinality(g[m]) > m}
<1>8. 0 \in M
    <2>1. g[0] = S
        BY <1>7, <1>0
    <2>2. IsFiniteSet(S)
        BY NodesFinite, FS_Subset
    <2>3. Cardinality(S) > 0
        <3>1. Cardinality(S) \in Nat /\ Cardinality(S) # 0
            BY <2>2, FS_CardinalityType, FS_EmptySet
        <3> QED BY <3>1
    <2> QED BY <2>1, <2>3
<1>9. ASSUME NEW m \in Nat, m \in M PROVE m + 1 \in M
    <2> SUFFICES ASSUME m + 1 <= n PROVE
          /\ g[m + 1] \in SUBSET Nodes /\ S \subseteq g[m + 1]
          /\ \A T \in SUBSET Nodes : S \subseteq T /\ Closed(steps, T) => g[m + 1] \subseteq T
          /\ Closed(steps, g[m + 1]) \/ Cardinality(g[m + 1]) > m + 1
        OBVIOUS
    <2>1. g[m] \in SUBSET Nodes /\ S \subseteq g[m] /\ (\A T \in SUBSET Nodes : S \subseteq T /\ Closed(steps, T) => g[m] \subseteq T)
          /\ (Closed(steps, g[m]) \/ Cardinality(g[m]) > m)
        BY <1>9, <1>0
    <2>2. m + 1 \in 0..n /\ m + 1 # 0 /\ (m + 1) - 1 = m
        BY <1>0
    <2>3. g[m + 1] = Grown(steps, g[m])
        BY <1>7, <2>2
    <2> HIDE DEF R, n, M
    <2>4. g[m + 1] \in SUBSET Nodes /\ g[m] \subseteq g[m + 1]
        BY <2>1, <2>3 DEF Grown
    <2>5. ASSUME NEW T \in SUBSET Nodes, S \subseteq T, Closed(steps, T) PROVE g[m + 1] \subseteq T
        <3>1. g[m] \subseteq T
            BY <2>1, <2>5
        <3>2. \A a \in T : steps[a] \subseteq T
            BY <2>5 DEF Closed
        <3> QED BY <3>1, <3>2, <2>3 DEF Grown
    <2>6. CASE g[m + 1] = g[m]
        <3>1. ASSUME NEW a \in g[m] PROVE steps[a] \subseteq g[m]
            BY <2>6, <2>3 DEF Grown
        <3> QED BY <2>1, <2>4, <2>5, <2>6, <3>1 DEF Closed
    <2>7. CASE g[m + 1] # g[m]
        <3>1. ~ Closed(steps, g[m])
            BY <2>7, <2>3 DEF Closed, Grown
        <3>2. IsFiniteSet(g[m + 1])
            BY <2>4, NodesFinite, FS_Subset
        <3>3. Cardinality(g[m + 1]) \in Nat /\ Cardinality(g[m]) \in Nat /\ Cardinality(g[m]) < Cardinality(g[m + 1])
            <4>1. IsFiniteSet(g[m]) /\ Cardinality(g[m]) <= Cardinality(g[m + 1]) /\ (Cardinality(g[m + 1]) = Cardinality(g[m]) => g[m + 1] = g[m])
                BY <2>4, <3>2, FS_Subset
            <4>2. Cardinality(g[m + 1]) \in Nat /\ Cardinality(g[m]) \in Nat
                BY <4>1, <3>2, FS_CardinalityType
            <4> QED BY <4>1, <4>2, <2>7
        <3>4. Cardinality(g[m + 1]) > m + 1
            BY <2>1, <3>1, <3>3
        <3> QED BY <2>1, <2>4, <2>5, <3>4
    <2> QED BY <2>6, <2>7
<1>10. n \in M
    <2> HIDE DEF M, n
    <2> QED BY <1>0, <1>8, <1>9, Induct
<1>11. g[n] \in SUBSET Nodes /\ ~ (Cardinality(g[n]) > n)
    <2>1. g[n] \in SUBSET Nodes
        BY <1>10, <1>0
    <2> HIDE DEF n
    <2>2. Cardinality(g[n]) <= Cardinality(Nodes) /\ Cardinality(g[n]) \in Nat
        BY <2>1, NodesFinite, FS_Subset, FS_CardinalityType
    <2> QED BY <2>1, <2>2, NodesFinite DEF n
<1> QED BY <1>0, <1>6, <1>10, <1>11

------------------------------------------------------------------------------
(* One turn of the walk.                                                     *)

Walks == [edges : SUBSET Calls, visited : SUBSET Nodes, stack : Seq(Nodes)]
Distinct(s) == \A i, j \in 1..Len(s) : s[i] = s[j] => i = j

(* A step along the wait comes to one thread or to none.                     *)
LEMMA NextTyped == ASSUME NEW c \in Calls, NEW node \in Nodes, NEW forward PROVE next(c, node, forward) = <<>> \/ \E m \in Nodes : next(c, node, forward) = <<m>>
BY DEF next, downstream, upstream, Calls, Nodes

(* A sequence without repetition, without its last.                          *)
LEMMA FrontSet == ASSUME NEW T, NEW s \in Seq(T), s # <<>>, Distinct(s)
    PROVE Front(s) \in Seq(T) /\ ToSet(Front(s)) = ToSet(s) \ {Last(s)} /\ Distinct(Front(s)) /\ Last(s) \in ToSet(s) /\ Last(s) \in T
<1> DEFINE n == Len(s)
           f == Front(s)
<1>1. n \in Nat /\ n >= 1 /\ DOMAIN s = 1..n /\ \A i \in 1..n : s[i] \in T
    OBVIOUS
<1>2. f \in Seq(T) /\ Len(f) = n - 1 /\ DOMAIN f = 1..(n - 1) /\ (\A i \in 1..(n - 1) : f[i] = s[i]) /\ Last(s) = s[n]
    BY <1>1 DEF Front, Last
<1>3. \A i, j \in 1..n : s[i] = s[j] => i = j
    BY DEF Distinct
<1> HIDE DEF n, f
<1>4. {f[i] : i \in 1..(n - 1)} = {s[i] : i \in 1..n} \ {s[n]}
    <2>1. \A i \in 1..n : i = n \/ i \in 1..(n - 1)
        BY <1>1
    <2>2. n \in 1..n /\ \A i \in 1..(n - 1) : i \in 1..n /\ i # n
        BY <1>1
    <2>3. \A i \in 1..(n - 1) : s[i] # s[n]
        BY <1>3, <2>2
    <2> QED BY <1>2, <2>1, <2>2, <2>3
<1>5. \A i, j \in 1..(n - 1) : f[i] = f[j] => i = j
    <2>1. \A i \in 1..(n - 1) : i \in 1..n
        BY <1>1
    <2> QED BY <1>2, <1>3, <2>1
<1>6. n \in 1..n
    BY <1>1
<1> QED BY <1>1, <1>2, <1>4, <1>5, <1>6 DEF ToSet, Distinct, f

(* Appending what is new repeats nothing.                                    *)
LEMMA AppendDistinct == ASSUME NEW T, NEW s \in Seq(T), NEW e \in T, Distinct(s), e \notin ToSet(s) PROVE Distinct(Append(s, e))
<1> DEFINE a == Append(s, e)
           n == Len(s)
<1>1. n \in Nat /\ Len(a) = n + 1 /\ a[n + 1] = e /\ DOMAIN s = 1..n /\ \A i \in 1..n : a[i] = s[i]
    OBVIOUS
<1>2. \A i, j \in 1..n : s[i] = s[j] => i = j
    BY DEF Distinct
<1>3. \A i \in 1..n : s[i] # e
    BY <1>1 DEF ToSet
<1> HIDE DEF a, n
<1>4. \A i \in 1..(n + 1) : i = n + 1 \/ i \in 1..n
    BY <1>1
<1>5. \A i, j \in 1..(n + 1) : a[i] = a[j] => i = j
    BY <1>1, <1>2, <1>3, <1>4
<1> QED BY <1>1, <1>5 DEF Distinct, a

Along(calls, node, forward) == {c \in ToSet(calls) : next(c, node, forward) # <<>>}
AlongTo(calls, node, forward, k) == {c \in {calls[j] : j \in 1..k} : next(c, node, forward) # <<>>}
Reached(S, node, forward) == {next(c, node, forward)[1] : c \in S}
(* A turn of walk's loop after some calls: v, when u is what it began with.  *)
Turned(u, node, forward, A, v) ==
    /\ v \in Walks /\ Distinct(v.stack)
    /\ v.edges = u.edges \cup A
    /\ v.visited = u.visited \cup Reached(A, node, forward)
    /\ ToSet(v.stack) = (ToSet(u.stack) \ {node}) \cup (v.visited \ u.visited)

(* One call is tried from a thread.                                          *)
LEMMA VisitIs == ASSUME NEW u \in Walks, NEW node \in Nodes, NEW forward, NEW A, NEW v, Turned(u, node, forward, A, v), NEW c \in Calls,
                        ToSet(u.stack) \subseteq u.visited
    PROVE Turned(u, node, forward, IF next(c, node, forward) = <<>> THEN A ELSE A \cup {c}, Visit(v, c, next(c, node, forward)))
<1>1. CASE next(c, node, forward) = <<>>
    BY <1>1 DEF Visit
<1>2. CASE next(c, node, forward) # <<>>
    <2>1. PICK m \in Nodes : next(c, node, forward) = <<m>>
        BY <1>2, NextTyped
    <2> DEFINE w == [edges |-> v.edges \cup {c}, visited |-> v.visited \cup {m}, stack |-> IF m \in v.visited THEN v.stack ELSE Append(v.stack, m)]
    <2>2. Visit(v, c, next(c, node, forward)) = w
        BY <2>1 DEF Visit
    <2>3. v.edges \in SUBSET Calls /\ v.visited \in SUBSET Nodes /\ v.stack \in Seq(Nodes) /\ Distinct(v.stack)
        BY DEF Turned, Walks
    <2>4. ToSet(v.stack) \subseteq v.visited
        BY DEF Turned
    <2>5. Append(v.stack, m) \in Seq(Nodes) /\ ToSet(Append(v.stack, m)) = ToSet(v.stack) \cup {m}
        BY <2>3, AppendSet
    <2>6. m \notin v.visited => Distinct(Append(v.stack, m))
        BY <2>3, <2>4, AppendDistinct
    <2>7. w \in Walks /\ Distinct(w.stack)
        <3>1. (IF m \in v.visited THEN v.stack ELSE Append(v.stack, m)) \in Seq(Nodes)
            BY <2>3, <2>5
        <3>2. v.edges \cup {c} \in SUBSET Calls /\ v.visited \cup {m} \in SUBSET Nodes
            BY <2>3
        <3> QED BY <3>1, <3>2, <2>3, <2>6 DEF Walks
    <2>8. Reached(A \cup {c}, node, forward) = Reached(A, node, forward) \cup {m}
        <3>1. next(c, node, forward)[1] = m
            BY <2>1
        <3> QED BY <3>1 DEF Reached
    <2>9. w.edges = u.edges \cup (A \cup {c}) /\ w.visited = u.visited \cup Reached(A \cup {c}, node, forward)
        BY <2>8 DEF Turned
    <2>10. ToSet(w.stack) = (ToSet(u.stack) \ {node}) \cup (w.visited \ u.visited)
        <3>1. CASE m \in v.visited
            <4>1. w.stack = v.stack /\ w.visited = v.visited
                BY <3>1
            <4> QED BY <4>1 DEF Turned
        <3>2. CASE m \notin v.visited
            <4>1. w.stack = Append(v.stack, m) /\ w.visited = v.visited \cup {m}
                BY <3>2
            <4>2. m \notin u.visited
                BY <3>2 DEF Turned
            <4>3. ToSet(v.stack) = (ToSet(u.stack) \ {node}) \cup (v.visited \ u.visited)
                BY DEF Turned
            <4> HIDE DEF w
            <4> QED BY <4>1, <4>2, <4>3, <2>5
        <3> QED BY <3>1, <3>2
    <2> HIDE DEF w
    <2> QED BY <1>2, <2>2, <2>7, <2>9, <2>10 DEF Turned
<1> QED BY <1>1, <1>2

(* A turn of the loop has tried every call, by induction over them.          *)
LEMMA TurnIs == ASSUME NEW calls \in Seq(Calls), NEW u \in Walks, u.stack # <<>>, Distinct(u.stack), ToSet(u.stack) \subseteq u.visited, NEW forward
    PROVE Turned(u, Last(u.stack), forward, Along(calls, Last(u.stack), forward), turn(calls, forward, u))
<1> DEFINE n == Len(calls)
           node == Last(u.stack)
           x == [u EXCEPT !.stack = Front(@)]
           F == [a \in Nat \X Walks |-> IF a[1] \in 1..n THEN Visit(a[2], calls[a[1]], next(calls[a[1]], node, forward)) ELSE a[2]]
           R(f) == f = [k \in 0..n |-> IF k = 0 THEN x ELSE Visit(f[k - 1], calls[k], next(calls[k], node, forward))]
<1>0. n \in Nat /\ (\A k \in 1..n : calls[k] \in Calls) /\ u.stack \in Seq(Nodes)
    BY DEF Walks
<1>a. Front(u.stack) \in Seq(Nodes) /\ ToSet(Front(u.stack)) = ToSet(u.stack) \ {node} /\ Distinct(Front(u.stack)) /\ node \in Nodes
    BY <1>0, FrontSet
<1>b. x \in Walks /\ x.stack = Front(u.stack) /\ x.edges = u.edges /\ x.visited = u.visited
    <2>1. u = [edges |-> u.edges, visited |-> u.visited, stack |-> u.stack] /\ u.edges \in SUBSET Calls /\ u.visited \in SUBSET Nodes
        BY DEF Walks
    <2>2. x = [edges |-> u.edges, visited |-> u.visited, stack |-> Front(u.stack)]
        BY <2>1
    <2> HIDE DEF x
    <2> QED BY <2>1, <2>2, <1>a DEF Walks
<1>c. Turned(u, node, forward, {}, x)
    BY <1>a, <1>b DEF Turned, Reached
<1> HIDE DEF node, x
<1>t. ASSUME NEW v \in Walks, NEW c \in Calls PROVE Visit(v, c, next(c, node, forward)) \in Walks
    <2>1. next(c, node, forward) = <<>> \/ \E m \in Nodes : next(c, node, forward) = <<m>>
        BY <1>a, NextTyped
    <2>2. v.edges \in SUBSET Calls /\ v.visited \in SUBSET Nodes /\ v.stack \in Seq(Nodes)
        BY DEF Walks
    <2>3. CASE next(c, node, forward) = <<>>
        BY <2>3 DEF Visit
    <2>4. CASE next(c, node, forward) # <<>>
        <3>1. PICK m \in Nodes : next(c, node, forward) = <<m>>
            BY <2>1, <2>4
        <3>2. (IF m \in v.visited THEN v.stack ELSE Append(v.stack, m)) \in Seq(Nodes)
            BY <2>2
        <3>3. v.edges \cup {c} \in SUBSET Calls /\ v.visited \cup {m} \in SUBSET Nodes
            BY <2>2
        <3>4. Visit(v, c, next(c, node, forward)) = [edges |-> v.edges \cup {c}, visited |-> v.visited \cup {m}, stack |-> IF m \in v.visited THEN v.stack ELSE Append(v.stack, m)]
            BY <3>1 DEF Visit
        <3> QED BY <3>2, <3>3, <3>4 DEF Walks
    <2> QED BY <2>3, <2>4
<1>1. F \in [Nat \X Walks -> Walks]
    <2>1. ASSUME NEW a \in Nat \X Walks PROVE (IF a[1] \in 1..n THEN Visit(a[2], calls[a[1]], next(calls[a[1]], node, forward)) ELSE a[2]) \in Walks
        <3>1. a[2] \in Walks
            OBVIOUS
        <3>2. a[1] \in 1..n => calls[a[1]] \in Calls
            BY <1>0
        <3> HIDE DEF n
        <3> QED BY <3>1, <3>2, <1>t
    <2> QED BY <2>1
<1>3. PICK f \in [0..n -> Walks] : Recurs(f, n, x, F)
    <2> HIDE DEF F, n
    <2> QED BY <1>0, <1>1, <1>b, Recursion
<1>5. R(f)
    <2>1. ASSUME NEW k \in 0..n, k # 0 PROVE F[<<k, f[k - 1]>>] = Visit(f[k - 1], calls[k], next(calls[k], node, forward))
        <3>1. k - 1 \in 0..n /\ k \in Nat /\ k \in 1..n
            BY <2>1, <1>0
        <3>2. f[k - 1] \in Walks
            BY <3>1
        <3> HIDE DEF n
        <3>3. <<k, f[k - 1]>> \in Nat \X Walks
            BY <3>1, <3>2
        <3> QED BY <3>1, <3>3
    <2> HIDE DEF F, n
    <2>2. f = [k \in 0..n |-> IF k = 0 THEN x ELSE F[<<k, f[k - 1]>>]]
        BY <1>3 DEF Recurs
    <2>3. [k \in 0..n |-> IF k = 0 THEN x ELSE F[<<k, f[k - 1]>>]] = [k \in 0..n |-> IF k = 0 THEN x ELSE Visit(f[k - 1], calls[k], next(calls[k], node, forward))]
        BY <2>1
    <2> QED BY <2>2, <2>3
<1> DEFINE g == CHOOSE h : R(h)
<1>6. turn(calls, forward, u) = g[n]
    BY DEF turn, node, x
<1>7. R(g)
    <2> HIDE DEF R
    <2> QED BY <1>5
<1> HIDE DEF g
<1> DEFINE A(k) == AlongTo(calls, node, forward, k)
           M == {m \in Nat : m <= n => Turned(u, node, forward, A(m), g[m])}
<1>8. 0 \in M
    <2>1. g[0] = x
        BY <1>7, <1>0
    <2>2. A(0) = {}
        BY DEF AlongTo
    <2> HIDE DEF A
    <2> QED BY <2>1, <2>2, <1>c
<1>9. ASSUME NEW m \in Nat, m \in M PROVE m + 1 \in M
    <2> SUFFICES ASSUME m + 1 <= n PROVE Turned(u, node, forward, A(m + 1), g[m + 1])
        OBVIOUS
    <2>1. Turned(u, node, forward, A(m), g[m])
        BY <1>9, <1>0
    <2>2. m + 1 \in 0..n /\ m + 1 # 0 /\ (m + 1) - 1 = m /\ m + 1 \in 1..n
        BY <1>0
    <2>c. calls[m + 1] \in Calls
        BY <2>2, <1>0
    <2>3. g[m + 1] = Visit(g[m], calls[m + 1], next(calls[m + 1], node, forward))
        BY <1>7, <2>2
    <2>4. A(m + 1) = IF next(calls[m + 1], node, forward) = <<>> THEN A(m) ELSE A(m) \cup {calls[m + 1]}
        <3>1. {calls[j] : j \in 1..(m + 1)} = {calls[j] : j \in 1..m} \cup {calls[m + 1]}
            OBVIOUS
        <3> QED BY <3>1 DEF AlongTo
    <2> HIDE DEF R, n, M, A
    <2>5. Turned(u, node, forward, IF next(calls[m + 1], node, forward) = <<>> THEN A(m) ELSE A(m) \cup {calls[m + 1]}, Visit(g[m], calls[m + 1], next(calls[m + 1], node, forward)))
        BY <2>1, <2>c, <1>a, VisitIs
    <2> QED BY <2>3, <2>4, <2>5
<1>10. n \in M
    <2> HIDE DEF M, n
    <2> QED BY <1>0, <1>8, <1>9, Induct
<1>11. A(n) = Along(calls, node, forward)
    BY DEF Along, AlongTo, ToSet
<1> QED BY <1>0, <1>6, <1>10, <1>11 DEF node

------------------------------------------------------------------------------
(* The walk, and the chain.                                                  *)

ClosedBy(calls, forward, T) == \A n \in T : \A c \in ToSet(calls) : next(c, n, forward) # <<>> => next(c, n, forward)[1] \in T
Left(u) == u.visited \ ToSet(u.stack)
(* The loop of walk after k turns: every thread that has left the worklist   *)
(* has been gone on from, and k have unless the list is empty.               *)
WalkInv(calls, S, forward, R, k, u) ==
    /\ u \in Walks /\ Distinct(u.stack) /\ ToSet(u.stack) \subseteq u.visited
    /\ S \subseteq u.visited /\ u.visited \subseteq R
    /\ \A n \in Left(u) : \A c \in ToSet(calls) : next(c, n, forward) # <<>> => c \in u.edges /\ next(c, n, forward)[1] \in u.visited
    /\ \A c \in u.edges : c \in ToSet(calls) /\ \E n \in R : next(c, n, forward) # <<>>
    /\ u.stack = <<>> \/ Cardinality(Left(u)) = k

(* A turn of the loop keeps the invariant of the walk.                       *)
LEMMA TurnKeeps == ASSUME NEW calls \in Seq(Calls), NEW S, NEW forward, NEW R \in SUBSET Nodes, ClosedBy(calls, forward, R), NEW k \in Nat,
                          NEW u, u.stack # <<>>, WalkInv(calls, S, forward, R, k, u)
    PROVE WalkInv(calls, S, forward, R, k + 1, turn(calls, forward, u))
<1> DEFINE node == Last(u.stack)
           w == turn(calls, forward, u)
           A == Along(calls, node, forward)
<1>1. u \in Walks /\ Distinct(u.stack) /\ ToSet(u.stack) \subseteq u.visited /\ u.stack \in Seq(Nodes) /\ S \subseteq u.visited /\ u.visited \subseteq R
    BY DEF WalkInv, Walks
<1>2. Turned(u, node, forward, A, w)
    BY <1>1, TurnIs
<1>3. node \in ToSet(u.stack) /\ node \in Nodes
    BY <1>1, FrontSet
<1> HIDE DEF node, w, A
<1>4. w \in Walks /\ Distinct(w.stack) /\ w.edges = u.edges \cup A /\ w.visited = u.visited \cup Reached(A, node, forward)
      /\ ToSet(w.stack) = (ToSet(u.stack) \ {node}) \cup (w.visited \ u.visited)
    BY <1>2 DEF Turned
<1>5. node \in u.visited /\ node \in R
    BY <1>1, <1>3
<1>6. A = {c \in ToSet(calls) : next(c, node, forward) # <<>>}
    BY DEF A, Along
<1>7. Reached(A, node, forward) \subseteq R
    BY <1>5, <1>6 DEF Reached, ClosedBy
<1>8. Left(w) = Left(u) \cup {node} /\ node \notin Left(u)
    BY <1>1, <1>3, <1>4, <1>5 DEF Left
<1>9. ASSUME NEW n \in Left(w), NEW c \in ToSet(calls), next(c, n, forward) # <<>> PROVE c \in w.edges /\ next(c, n, forward)[1] \in w.visited
    <2>1. CASE n = node
        BY <2>1, <1>4, <1>6, <1>9 DEF Reached
    <2>2. CASE n \in Left(u)
        BY <2>2, <1>4, <1>9 DEF WalkInv
    <2> QED BY <2>1, <2>2, <1>8
<1>10. ASSUME NEW c \in w.edges PROVE c \in ToSet(calls) /\ \E n \in R : next(c, n, forward) # <<>>
    BY <1>4, <1>5, <1>6 DEF WalkInv
<1>11. Cardinality(Left(w)) = k + 1
    <2>1. Cardinality(Left(u)) = k
        BY DEF WalkInv
    <2>2. Left(u) \in SUBSET Nodes
        BY <1>1 DEF Left
    <2>3. IsFiniteSet(Left(u))
        BY <2>2, NodesFinite, FS_Subset
    <2> QED BY <2>1, <2>3, <1>8, FS_AddElement
<1>12. ToSet(w.stack) \subseteq w.visited /\ S \subseteq w.visited /\ w.visited \subseteq R
    BY <1>1, <1>4, <1>7
<1>13. WalkInv(calls, S, forward, R, k + 1, w)
    BY <1>4, <1>9, <1>10, <1>11, <1>12 DEF WalkInv
<1> QED BY <1>13 DEF w

(* walk goes along the calls that go on from a thread it can come to.        *)
LEMMA WalkIs == ASSUME NEW calls \in Seq(Calls), NEW S \in SUBSET Nodes, NEW forward \in BOOLEAN, NEW R \in SUBSET Nodes,
                       S \subseteq R, ClosedBy(calls, forward, R),
                       \A T \in SUBSET Nodes : S \subseteq T /\ ClosedBy(calls, forward, T) => R \subseteq T
    PROVE walk(calls, forward, [edges |-> {}, visited |-> S, stack |-> SetToSeq(S)]) = {c \in ToSet(calls) : \E n \in R : next(c, n, forward) # <<>>}
<1> DEFINE n == Turns
           x == [edges |-> {}, visited |-> S, stack |-> SetToSeq(S)]
           W == {u \in Walks : Distinct(u.stack) /\ ToSet(u.stack) \subseteq u.visited}
           F == [a \in Nat \X W |-> turn(calls, forward, a[2])]
           Eq(f) == f = [k \in 0..n |-> IF k = 0 THEN x ELSE turn(calls, forward, f[k - 1])]
<1>0. n \in Nat
    BY NodesFinite
<1>a. x.edges = {} /\ x.visited = S /\ x.stack = SetToSeq(S) /\ x.stack \in Seq(Nodes) /\ Distinct(x.stack) /\ ToSet(x.stack) = S
    <2>1. IsFiniteSet(S)
        BY NodesFinite, FS_Subset
    <2>2. Cardinality(S) \in Nat /\ ExistsBijection(1..Cardinality(S), S)
        BY <2>1, FS_CardinalityType
    <2> DEFINE m == Cardinality(S)
               s == SetToSeq(S)
    <2>3. \E f \in [1..m -> S] : IsInjective(f)
        BY <2>2 DEF ExistsBijection, Bijection, Injection, IsInjective
    <2>4. s \in [1..m -> S] /\ IsInjective(s)
        BY <2>3 DEF SetToSeq
    <2> HIDE DEF s, m
    <2>5. m \in Nat /\ IsFiniteSet(1..m) /\ Cardinality(1..m) = m
        <3>1. m \in Nat /\ m \in Int /\ 1 \in Int
            BY <2>2 DEF m
        <3>2. IsFiniteSet(1..m) /\ Cardinality(1..m) = IF 1 > m THEN 0 ELSE m - 1 + 1
            BY <3>1, FS_Interval
        <3> QED BY <3>1, <3>2
    <2>6. s \in Injection(1..m, S)
        BY <2>4 DEF Injection, IsInjective
    <2>7. s \in Surjection(1..m, S)
        BY <2>1, <2>5, <2>6, FS_Injection DEF m
    <2>8. s \in Seq(Nodes) /\ DOMAIN s = 1..m /\ Len(s) = m
        BY <2>4, <2>5
    <2>9. ToSet(s) = S
        BY <2>4, <2>7, <2>8 DEF ToSet, Surjection
    <2>10. Distinct(s)
        BY <2>4, <2>8 DEF Distinct, IsInjective
    <2> QED BY <2>8, <2>9, <2>10 DEF s
<1>b. x \in Walks /\ x \in W
    BY <1>a DEF Walks
<1>c. WalkInv(calls, S, forward, R, 0, x)
    <2>1. Left(x) = {}
        BY <1>a DEF Left
    <2>2. Cardinality(Left(x)) = 0
        BY <2>1, FS_EmptySet
    <2> HIDE DEF x
    <2> QED BY <1>a, <1>b, <2>1, <2>2 DEF WalkInv
<1> HIDE DEF x
<1>t. ASSUME NEW u \in W PROVE turn(calls, forward, u) \in W
    <2>1. CASE u.stack = <<>>
        BY <2>1 DEF turn
    <2>2. CASE u.stack # <<>>
        <3>1. Turned(u, Last(u.stack), forward, Along(calls, Last(u.stack), forward), turn(calls, forward, u))
            BY <2>2, TurnIs
        <3> DEFINE w == turn(calls, forward, u)
        <3> HIDE DEF w
        <3>2. w \in Walks /\ Distinct(w.stack) /\ w.visited = u.visited \cup Reached(Along(calls, Last(u.stack), forward), Last(u.stack), forward)
              /\ ToSet(w.stack) = (ToSet(u.stack) \ {Last(u.stack)}) \cup (w.visited \ u.visited)
            BY <3>1 DEF Turned, w
        <3>3. ToSet(w.stack) \subseteq w.visited
            BY <3>2
        <3>4. w \in W
            BY <3>2, <3>3
        <3> QED BY <3>4 DEF w
    <2> QED BY <2>1, <2>2
<1> HIDE DEF W
<1>1. F \in [Nat \X W -> W]
    BY <1>t
<1>3. PICK f \in [0..n -> W] : Recurs(f, n, x, F)
    <2> HIDE DEF F, n
    <2> QED BY <1>0, <1>1, <1>b, Recursion
<1>5. Eq(f)
    <2>1. ASSUME NEW k \in 0..n, k # 0 PROVE F[<<k, f[k - 1]>>] = turn(calls, forward, f[k - 1])
        <3>1. k - 1 \in 0..n /\ k \in Nat
            BY <2>1, <1>0
        <3>2. f[k - 1] \in W
            BY <3>1
        <3> HIDE DEF n
        <3>3. <<k, f[k - 1]>> \in Nat \X W
            BY <3>1, <3>2
        <3> QED BY <3>3
    <2> HIDE DEF F, n
    <2>2. f = [k \in 0..n |-> IF k = 0 THEN x ELSE F[<<k, f[k - 1]>>]]
        BY <1>3 DEF Recurs
    <2>3. [k \in 0..n |-> IF k = 0 THEN x ELSE F[<<k, f[k - 1]>>]] = [k \in 0..n |-> IF k = 0 THEN x ELSE turn(calls, forward, f[k - 1])]
        BY <2>1
    <2> QED BY <2>2, <2>3
<1> DEFINE g == CHOOSE h : Eq(h)
<1>6. walk(calls, forward, x) = g[n].edges
    BY DEF walk
<1>7. Eq(g)
    <2> HIDE DEF Eq
    <2> QED BY <1>5
<1> HIDE DEF g
<1> DEFINE M == {m \in Nat : m <= n => WalkInv(calls, S, forward, R, m, g[m])}
<1>8. 0 \in M
    <2>1. g[0] = x
        BY <1>7, <1>0
    <2> QED BY <2>1, <1>c
<1>9. ASSUME NEW m \in Nat, m \in M PROVE m + 1 \in M
    <2> SUFFICES ASSUME m + 1 <= n PROVE WalkInv(calls, S, forward, R, m + 1, g[m + 1])
        OBVIOUS
    <2>1. WalkInv(calls, S, forward, R, m, g[m])
        BY <1>9, <1>0
    <2>2. m + 1 \in 0..n /\ m + 1 # 0 /\ (m + 1) - 1 = m
        BY <1>0
    <2>3. g[m + 1] = turn(calls, forward, g[m])
        BY <1>7, <2>2
    <2> HIDE DEF Eq, n, M
    <2>4. CASE g[m].stack = <<>>
        <3>1. turn(calls, forward, g[m]) = g[m]
            BY <2>4 DEF turn
        <3> QED BY <2>1, <2>3, <2>4, <3>1 DEF WalkInv
    <2>5. CASE g[m].stack # <<>>
        BY <2>1, <2>3, <2>5, TurnKeeps
    <2> QED BY <2>4, <2>5
<1>10. WalkInv(calls, S, forward, R, n, g[n])
    <2>1. n \in M
        <3> HIDE DEF M, n
        <3> QED BY <1>0, <1>8, <1>9, Induct
    <2> QED BY <2>1, <1>0
<1> DEFINE u == g[n]
<1> HIDE DEF u
<1>11. WalkInv(calls, S, forward, R, n, u)
    BY <1>10 DEF u
<1> HIDE DEF n
<1>12. u.stack = <<>>
    <2> SUFFICES ASSUME u.stack # <<>> PROVE FALSE
        OBVIOUS
    <2>1. u \in Walks /\ Distinct(u.stack) /\ ToSet(u.stack) \subseteq u.visited /\ Cardinality(Left(u)) = n /\ u.stack \in Seq(Nodes) /\ u.visited \in SUBSET Nodes
        BY <1>11 DEF WalkInv, Walks
    <2>2. Last(u.stack) \in ToSet(u.stack)
        BY <2>1, FrontSet
    <2>3. Left(u) \cup {Last(u.stack)} \in SUBSET Nodes /\ Last(u.stack) \notin Left(u) /\ Left(u) \in SUBSET Nodes
        BY <2>1, <2>2 DEF Left
    <2>4. IsFiniteSet(Left(u))
        BY <2>3, NodesFinite, FS_Subset
    <2>5. Cardinality(Left(u) \cup {Last(u.stack)}) = n + 1
        BY <2>1, <2>3, <2>4, FS_AddElement
    <2>6. Cardinality(Left(u) \cup {Last(u.stack)}) <= Cardinality(Nodes)
        BY <2>3, NodesFinite, FS_Subset
    <2> QED BY <2>5, <2>6, <1>0, NodesFinite DEF n
<1>13. Left(u) = u.visited /\ u.visited \in SUBSET Nodes
    <2>1. ToSet(<<>>) = {}
        BY DEF ToSet
    <2> QED BY <2>1, <1>11, <1>12 DEF Left, WalkInv, Walks
<1>14. ClosedBy(calls, forward, u.visited) /\ S \subseteq u.visited
    BY <1>11, <1>13 DEF ClosedBy, WalkInv
<1>15. R \subseteq u.visited
    BY <1>13, <1>14
<1>16. u.edges = {c \in ToSet(calls) : \E m \in R : next(c, m, forward) # <<>>}
    BY <1>11, <1>13, <1>15 DEF WalkInv
<1> QED BY <1>6, <1>16 DEF u, x

------------------------------------------------------------------------------
(* The walk against the reference.                                           *)

(* The steps of the code are those of the reference.                         *)
LEMMA StepsAre == ASSUME NEW c \in Calls, NEW n \in Nodes
    PROVE /\ (next(c, n, TRUE) # <<>> <=> GoesOn(c, n)) /\ (GoesOn(c, n) => next(c, n, TRUE)[1] = c.dst)
          /\ (next(c, n, FALSE) # <<>> <=> IsFor(c, n)) /\ (IsFor(c, n) => next(c, n, FALSE)[1] = c.src)
<1>1. c.src \in Nat \X Nat /\ c.dst \in Nat \X Nat /\ n \in Nat \X Nat
    BY NodesFinite, ThreadsAssumption DEF Calls
<1>2. c.src = n <=> c.src[1] = n[1] /\ c.src[2] = n[2]
    BY <1>1
<1>3. c.dst = n <=> c.dst[1] = n[1] /\ c.dst[2] = n[2]
    BY <1>1
<1> QED BY <1>2, <1>3 DEF next, downstream, upstream, GoesOn, IsFor

(* The chain of any calls is what the reference says.                        *)
LEMMA ChainIs == ASSUME NEW calls \in Seq(Calls)
    PROVE ToSet(propagation(calls)) = {c \in ToSet(calls) : (\E n \in Below(ToSet(calls), anchors(calls)) : GoesOn(c, n)) \/ (\E n \in Above(ToSet(calls), anchors(calls)) : IsFor(c, n))}
<1> DEFINE C == ToSet(calls)
           S == anchors(calls)
           onward == [n \in Nodes |-> {c.dst : c \in {x \in C : GoesOn(x, n)}}]
           waits == [n \in Nodes |-> {c.src : c \in {x \in C : IsFor(x, n)}}]
<1>1. C \in SUBSET Calls
    BY DEF ToSet
<1>2. \A c \in Calls : c.src \in Nodes /\ c.dst \in Nodes
    BY DEF Calls, Nodes
<1>3. S \in SUBSET Nodes /\ S # {}
    <2>1. \A n \in UNION {{c.src, c.dst} : c \in C} : n \in Nodes
        BY <1>1, <1>2
    <2>2. <<FaultPid, FaultTid>> \in Nodes
        BY DEF Nodes
    <2>3. S = {<<FaultPid, FaultTid>>} \cup {n \in UNION {{c.src, c.dst} : c \in C} : n[1] = FaultPid}
        BY DEF anchors
    <2> HIDE DEF S, C
    <2> QED BY <2>1, <2>2, <2>3
<1>4. onward \in [Nodes -> SUBSET Nodes] /\ waits \in [Nodes -> SUBSET Nodes]
    BY <1>1, <1>2
<1>5. Below(C, S) = Within(onward, S) /\ Above(C, S) = Within(waits, S)
    BY DEF Below, Above
<1>6. ASSUME NEW T \in SUBSET Nodes PROVE Closed(onward, T) <=> ClosedBy(calls, TRUE, T)
    <2> HIDE DEF C
    <2>1. ASSUME NEW n \in T, NEW c \in C PROVE (next(c, n, TRUE) # <<>> <=> GoesOn(c, n)) /\ (GoesOn(c, n) => next(c, n, TRUE)[1] = c.dst)
        <3>1. n \in Nodes /\ c \in Calls
            BY <1>1
        <3> QED BY <3>1, StepsAre
    <2> QED BY <2>1 DEF Closed, ClosedBy, C
<1>7. ASSUME NEW T \in SUBSET Nodes PROVE Closed(waits, T) <=> ClosedBy(calls, FALSE, T)
    <2> HIDE DEF C
    <2>1. ASSUME NEW n \in T, NEW c \in C PROVE (next(c, n, FALSE) # <<>> <=> IsFor(c, n)) /\ (IsFor(c, n) => next(c, n, FALSE)[1] = c.src)
        <3>1. n \in Nodes /\ c \in Calls
            BY <1>1
        <3> QED BY <3>1, StepsAre
    <2> QED BY <2>1 DEF Closed, ClosedBy, C
<1> HIDE DEF onward, waits, S
<1>8. Within(onward, S) \in SUBSET Nodes /\ S \subseteq Within(onward, S) /\ ClosedBy(calls, TRUE, Within(onward, S))
      /\ \A T \in SUBSET Nodes : S \subseteq T /\ ClosedBy(calls, TRUE, T) => Within(onward, S) \subseteq T
    BY <1>3, <1>4, <1>6, WithinIs
<1>9. Within(waits, S) \in SUBSET Nodes /\ S \subseteq Within(waits, S) /\ ClosedBy(calls, FALSE, Within(waits, S))
      /\ \A T \in SUBSET Nodes : S \subseteq T /\ ClosedBy(calls, FALSE, T) => Within(waits, S) \subseteq T
    BY <1>3, <1>4, <1>7, WithinIs
<1>w. ASSUME NEW f \in BOOLEAN, NEW R \in SUBSET Nodes, S \subseteq R, ClosedBy(calls, f, R),
             \A T \in SUBSET Nodes : S \subseteq T /\ ClosedBy(calls, f, T) => R \subseteq T
      PROVE walkFrom(calls, f) = {c \in C : \E n \in R : next(c, n, f) # <<>>}
    <2>1. walk(calls, f, [edges |-> {}, visited |-> S, stack |-> SetToSeq(S)]) = {c \in ToSet(calls) : \E n \in R : next(c, n, f) # <<>>}
        BY <1>3, <1>w, WalkIs
    <2> QED BY <2>1 DEF walkFrom, S
<1> HIDE DEF C
<1>10. walkFrom(calls, TRUE) = {c \in C : \E n \in Within(onward, S) : next(c, n, TRUE) # <<>>}
    <2>1. PICK f \in BOOLEAN : f = TRUE
        OBVIOUS
    <2>2. ClosedBy(calls, f, Within(onward, S)) /\ \A T \in SUBSET Nodes : S \subseteq T /\ ClosedBy(calls, f, T) => Within(onward, S) \subseteq T
        BY <1>8, <2>1
    <2>3. walkFrom(calls, f) = {c \in C : \E n \in Within(onward, S) : next(c, n, f) # <<>>}
        BY <1>w, <1>8, <2>2
    <2> QED BY <2>1, <2>3
<1>11. walkFrom(calls, FALSE) = {c \in C : \E n \in Within(waits, S) : next(c, n, FALSE) # <<>>}
    <2>1. PICK f \in BOOLEAN : f = FALSE
        OBVIOUS
    <2>2. ClosedBy(calls, f, Within(waits, S)) /\ \A T \in SUBSET Nodes : S \subseteq T /\ ClosedBy(calls, f, T) => Within(waits, S) \subseteq T
        BY <1>9, <2>1
    <2>3. walkFrom(calls, f) = {c \in C : \E n \in Within(waits, S) : next(c, n, f) # <<>>}
        BY <1>w, <1>9, <2>2
    <2> QED BY <2>1, <2>3
<1>12. ToSet(propagation(calls)) = C \cap (walkFrom(calls, TRUE) \cup walkFrom(calls, FALSE))
    BY CallsInIs DEF propagation, C
<1>13. \A c \in C : (\E n \in Within(onward, S) : next(c, n, TRUE) # <<>>) <=> \E n \in Within(onward, S) : GoesOn(c, n)
    BY <1>1, <1>8, StepsAre
<1>14. \A c \in C : (\E n \in Within(waits, S) : next(c, n, FALSE) # <<>>) <=> \E n \in Within(waits, S) : IsFor(c, n)
    BY <1>1, <1>9, StepsAre
<1>15. ToSet(propagation(calls)) = {c \in C : (\E n \in Within(onward, S) : GoesOn(c, n)) \/ (\E n \in Within(waits, S) : IsFor(c, n))}
    BY <1>10, <1>11, <1>12, <1>13, <1>14
<1> QED BY <1>5, <1>15 DEF C, S

CaughtTyped == caught \in Seq(Calls)

(* The chain of a freeze holds the calls that the frozen process waits on,   *)
(* however far onward, those that wait for it, and no other.                 *)
THEOREM ChainIsTold == BinderSpec => []ChainIsWhole
<1>1. BinderInit => CaughtTyped
    BY DEF BinderInit, CaughtTyped
<1>2. CaughtTyped /\ [Catch]_caught => CaughtTyped'
    <2> SUFFICES ASSUME CaughtTyped, Catch PROVE CaughtTyped'
        BY DEF CaughtTyped
    <2>1. PICK src \in Threads, dst \in Threads, async \in BOOLEAN : caught' = Append(caught, [src |-> src, dst |-> dst, async |-> async])
        BY DEF Catch
    <2>2. [src |-> src, dst |-> dst, async |-> async] \in Calls
        BY DEF Calls
    <2> QED BY <2>1, <2>2 DEF CaughtTyped
<1>3. ASSUME CaughtTyped PROVE ChainIsWhole
    <2>1. Sync(caught) \in Seq(Calls)
        BY <1>3, CallsInIs DEF CaughtTyped, Sync
    <2> QED BY <2>1, ChainIs DEF ChainIsWhole
<1> QED BY <1>1, <1>2, <1>3, PTL DEF BinderSpec

------------------------------------------------------------------------------
(* The window of a log (LogBundle).  A line tells its time without the year: *)
(* of the years about the clock, the closest is its own, or the log is       *)
(* refused.                                                                  *)

(* An earlier year ends before a later one starts.                           *)
LEMMA YearsApart == ASSUME NEW m \in Int, NEW n \in Int, m < n PROVE m * Year + Year <= n * Year
<1>1. Year \in Nat
    BY LogsAssumption
<1>2. n - m - 1 \in Nat /\ n = m + 1 + (n - m - 1)
    OBVIOUS
<1>3. n * Year = m * Year + Year + (n - m - 1) * Year
    BY <1>1
<1>4. (n - m - 1) * Year >= 0
    BY <1>1, <1>2
<1>5. n * Year \in Int /\ m * Year \in Int /\ (n - m - 1) * Year \in Int
    BY <1>1
<1> QED BY <1>1, <1>3, <1>4, <1>5

(* A time is a year and a time in it.                                        *)
LEMMA YearOf == ASSUME NEW t \in Nat PROVE t \div Year \in Nat /\ t % Year \in 0..(Year - 1) /\ t = (t \div Year) * Year + (t % Year)
BY LogsAssumption

(* The years about the clock's, a year apart.                                *)
LEMMA CandidatesAre == ASSUME NEW t \in Nat, NEW ref \in Nat
                       PROVE  \E b \in Nat : b = (ref \div Year) * Year + (t % Year) /\ Candidates(t, ref) = {b - Year, b, b + Year}
<1> DEFINE q == ref \div Year
           s == t % Year
           b == q * Year + s
<1>1. q \in Nat /\ s \in 0..(Year - 1) /\ Year \in Nat \ {0}
    BY YearOf, LogsAssumption
<1>2. Candidates(t, ref) = {(q + k) * Year + s : k \in {-1, 0, 1}}
    BY DEF Candidates
<1> HIDE DEF q, s
<1>3. q + (-1) = q - 1 /\ q + 0 = q
    BY <1>1
<1>4. Candidates(t, ref) = {(q - 1) * Year + s, q * Year + s, (q + 1) * Year + s}
    BY <1>2, <1>3
<1>5. (q - 1) * Year = q * Year - Year /\ (q + 1) * Year = q * Year + Year /\ q * Year \in Nat
    BY <1>1
<1>6. Candidates(t, ref) = {b - Year, b, b + Year} /\ b \in Nat
    BY <1>1, <1>4, <1>5
<1> QED BY <1>6 DEF q, s

(* One of them is the closest; of two as close, the earlier.                 *)
Nearer(c, o, ref) == Away(c, ref) < Away(o, ref) \/ (Away(c, ref) = Away(o, ref) /\ c <= o)
LEMMA OneIsClosest == ASSUME NEW t \in Nat, NEW ref \in Nat
                      PROVE  Closest(t, ref) \in Candidates(t, ref) \cap Int /\ \A o \in Candidates(t, ref) : Nearer(Closest(t, ref), o, ref)
<1>1. PICK b \in Nat : Candidates(t, ref) = {b - Year, b, b + Year}
    BY CandidatesAre
<1>2. Year \in Nat
    BY LogsAssumption
<1> DEFINE C == Candidates(t, ref)
<1>3. C \subseteq Int /\ \A c \in C : Away(c, ref) \in Nat
    BY <1>1, <1>2 DEF Away
<1> HIDE DEF C
<1>4. \A c, o \in C : Nearer(c, o, ref) \/ Nearer(o, c, ref)
    BY <1>3 DEF Nearer
<1>5. \A c, o, p \in C : Nearer(c, o, ref) /\ Nearer(o, p, ref) => Nearer(c, p, ref)
    BY <1>3 DEF Nearer
<1>6. \E c \in C : \A o \in C : Nearer(c, o, ref)
    <2>1. C = {b - Year, b, b + Year}
        BY <1>1 DEF C
    <2> QED BY <2>1, <1>4, <1>5
<1>7. Closest(t, ref) = CHOOSE c \in C : \A o \in C : Nearer(c, o, ref)
    BY DEF Closest, C, Nearer
<1> QED BY <1>3, <1>6, <1>7 DEF C

(* A line of the last year, if its time is not taken for a later one, is     *)
(* taken for what it is.                                                     *)
LEMMA ClosestIs ==
    ASSUME NEW t \in Nat, NEW ref \in Nat, t <= ref, ref - Year < t, Closest(t, ref) <= ref
    PROVE  Closest(t, ref) = t
<1> DEFINE q == ref \div Year
           s == t % Year
           p == t \div Year
<1>1. /\ q \in Nat /\ ref % Year \in 0..(Year - 1) /\ ref = q * Year + (ref % Year)
      /\ p \in Nat /\ s \in 0..(Year - 1) /\ t = p * Year + s
    BY YearOf
<1>2. Year \in Nat \ {0}
    BY LogsAssumption
<1>3. PICK b \in Nat : b = q * Year + s /\ Candidates(t, ref) = {b - Year, b, b + Year}
    BY CandidatesAre
<1> HIDE DEF q, s, p
<1>4. p * Year \in Nat /\ q * Year \in Nat /\ (q - 1) * Year = q * Year - Year
    BY <1>1, <1>2
<1>5. p <= q
    <2>1. CASE q < p
        <3>1. q * Year + Year <= p * Year
            BY <2>1, <1>1, YearsApart
        <3> QED BY <3>1, <1>1, <1>2, <1>4
    <2> QED BY <2>1, <1>1
<1>6. p >= q - 1
    <2>1. CASE p < q - 1
        <3>1. p * Year + Year <= (q - 1) * Year
            BY <2>1, <1>1, YearsApart
        <3> QED BY <3>1, <1>1, <1>2, <1>4
    <2> QED BY <2>1, <1>1
<1>7. p = q \/ p = q - 1
    BY <1>1, <1>5, <1>6
<1>8. t = b \/ t = b - Year
    BY <1>1, <1>2, <1>3, <1>4, <1>7
<1> DEFINE c == Closest(t, ref)
<1>9. c \in {b - Year, b, b + Year} /\ Nearer(c, t, ref)
    BY <1>3, <1>8, OneIsClosest
<1> HIDE DEF c
<1>10. c <= ref
    BY DEF c
<1>11. c >= t
    BY <1>2, <1>9, <1>10 DEF Nearer, Away
<1>12. c = t
    BY <1>2, <1>8, <1>9, <1>10, <1>11
<1> QED BY <1>12 DEF c

------------------------------------------------------------------------------
(* The log is read line by line: what is kept so far is what is meant so     *)
(* far, in its order.                                                        *)

Lines_ == [is : {"record", "more", "banner", "odd"}, time : Nat]
(* The record that a line goes with.                                         *)
LEMMA RecordSteps ==
    ASSUME NEW log \in Seq(Lines_), NEW k \in 1..Len(log)
    PROVE  RecordOf(log, k) = IF log[k].is = "record" THEN k ELSE RecordOf(log, k - 1)
<1> DEFINE before(n) == {j \in 1..n : log[j].is = "record"}
<1>1. CASE log[k].is = "record"
    <2>1. k \in before(k) /\ \A i \in before(k) : i <= k
        BY <1>1
    <2>2. \A j \in before(k) : (\A i \in before(k) : i <= j) => j = k
        BY <2>1
    <2> QED BY <1>1, <2>1, <2>2 DEF RecordOf
<1>2. CASE log[k].is # "record"
    <2>1. before(k) = before(k - 1)
        <3>1. \A j \in 1..k : j = k \/ j \in 1..(k - 1)
            OBVIOUS
        <3>2. \A j \in 1..(k - 1) : j \in 1..k
            OBVIOUS
        <3>3. ASSUME NEW j PROVE j \in before(k) <=> j \in before(k - 1)
            BY <1>2, <3>1, <3>2
        <3> HIDE DEF before
        <3> QED BY <3>3
    <2> DEFINE last(R) == IF R = {} THEN 0 ELSE CHOOSE j \in R : \A i \in R : i <= j
    <2>2. RecordOf(log, k) = last(before(k)) /\ RecordOf(log, k - 1) = last(before(k - 1))
        BY DEF RecordOf
    <2> HIDE DEF before, last
    <2> QED BY <1>2, <2>1, <2>2
<1> QED BY <1>1, <1>2

(* What has been read of a log after k of its lines, if it is not refused.   *)
MeantTo(log, end, k) == {j \in Meant(log, end) : j <= k}
Windows == [saw : BOOLEAN, keep : BOOLEAN, lines : Seq(Lines_), bad : BOOLEAN]
Holds(log, end, k, lines) ==
    /\ lines \in Seq(Lines_) /\ Len(lines) = Cardinality(MeantTo(log, end, k))
    /\ \A m \in MeantTo(log, end, k) : lines[Cardinality({j \in MeantTo(log, end, k) : j <= m})] = log[m]
ReadInv(log, end, k, w) ==
    /\ w \in Windows
    /\ ~w.bad => /\ w.saw = (RecordOf(log, k) # 0)
                 /\ w.keep = (RecordOf(log, k) # 0 /\ log[RecordOf(log, k)].time > end - Duration)
                 /\ Holds(log, end, k, w.lines)

(* A line is added to those that are meant, after them, or is not meant.     *)
LEMMA MeantSteps ==
    ASSUME NEW log \in Seq(Lines_), NEW end \in Nat, NEW k \in 1..Len(log)
    PROVE  /\ MeantTo(log, end, k) = IF k \in Meant(log, end) THEN MeantTo(log, end, k - 1) \cup {k} ELSE MeantTo(log, end, k - 1)
           /\ IsFiniteSet(MeantTo(log, end, k - 1)) /\ k \notin MeantTo(log, end, k - 1)
           /\ k \in Meant(log, end) => Cardinality(MeantTo(log, end, k)) = Cardinality(MeantTo(log, end, k - 1)) + 1
<1>1. Meant(log, end) \subseteq 1..Len(log)
    BY DEF Meant
<1>2. \A j \in Meant(log, end) : j <= k <=> j = k \/ j <= k - 1
    BY <1>1
<1>3. MeantTo(log, end, k) = IF k \in Meant(log, end) THEN MeantTo(log, end, k - 1) \cup {k} ELSE MeantTo(log, end, k - 1)
    BY <1>2 DEF MeantTo
<1>4. IsFiniteSet(MeantTo(log, end, k - 1))
    <2>1. MeantTo(log, end, k - 1) \subseteq 1..Len(log)
        BY <1>1 DEF MeantTo
    <2>2. IsFiniteSet(1..Len(log))
        BY FS_Interval
    <2> QED BY <2>1, <2>2, FS_Subset
<1>5. k \notin MeantTo(log, end, k - 1)
    BY DEF MeantTo
<1> QED BY <1>3, <1>4, <1>5, FS_AddElement

(* It is a record, at the line or before it.                                 *)
LEMMA RecordTyped == ASSUME NEW log \in Seq(Lines_), NEW k \in 0..Len(log)
                     PROVE  RecordOf(log, k) # 0 => RecordOf(log, k) \in 1..k /\ log[RecordOf(log, k)].is = "record"
<1> DEFINE S == {n \in Nat : n <= Len(log) => (RecordOf(log, n) # 0 => RecordOf(log, n) \in 1..n /\ log[RecordOf(log, n)].is = "record")}
<1>1. 0 \in S
    <2>1. {j \in 1..0 : log[j].is = "record"} = {}
        OBVIOUS
    <2>2. RecordOf(log, 0) = 0
        BY <2>1 DEF RecordOf
    <2> QED BY <2>2
<1>2. ASSUME NEW n \in Nat, n \in S PROVE n + 1 \in S
    <2>1. CASE n + 1 <= Len(log)
        <3>1. n + 1 \in 1..Len(log) /\ (n + 1) - 1 = n /\ n <= Len(log)
            BY <2>1
        <3>2. RecordOf(log, n + 1) = IF log[n + 1].is = "record" THEN n + 1 ELSE RecordOf(log, n)
            BY <3>1, RecordSteps
        <3> QED BY <1>2, <3>1, <3>2
    <2> QED BY <2>1
<1>3. k \in S
    <2> HIDE DEF S
    <2> QED BY <1>1, <1>2, Induct
<1> QED BY <1>3

(* Where a line that is meant stands among those that are.                   *)
LEMMA Standing == ASSUME NEW S \in SUBSET Nat, IsFiniteSet(S), NEW m \in S
                  PROVE  Cardinality({j \in S : j <= m}) \in 1..Cardinality(S)
<1> DEFINE T == {j \in S : j <= m}
<1>1. IsFiniteSet(T) /\ Cardinality(T) <= Cardinality(S)
    BY FS_Subset
<1>2. m \in T
    OBVIOUS
<1>3. Cardinality(T) # 0
    BY <1>1, <1>2, FS_EmptySet
<1> QED BY <1>1, <1>3, FS_CardinalityType

(* A line that is kept is appended, one that is not is left.                 *)
LEMMA LineKept ==
    ASSUME NEW log \in Seq(Lines_), NEW end \in Nat, NEW k \in 1..Len(log), NEW lines, Holds(log, end, k - 1, lines)
    PROVE  Holds(log, end, k, IF k \in Meant(log, end) THEN Append(lines, log[k]) ELSE lines)
<1> DEFINE now == IF k \in Meant(log, end) THEN Append(lines, log[k]) ELSE lines
<1> SUFFICES Holds(log, end, k, now)
    OBVIOUS
<1>0. /\ lines \in Seq(Lines_) /\ Len(lines) = Cardinality(MeantTo(log, end, k - 1))
      /\ \A m \in MeantTo(log, end, k - 1) : lines[Cardinality({j \in MeantTo(log, end, k - 1) : j <= m})] = log[m]
    BY DEF Holds
<1> DEFINE M == MeantTo(log, end, k - 1)
           N == MeantTo(log, end, k)
<1>1. /\ N = IF k \in Meant(log, end) THEN M \cup {k} ELSE M
      /\ IsFiniteSet(M) /\ k \notin M
      /\ k \in Meant(log, end) => Cardinality(N) = Cardinality(M) + 1
    BY MeantSteps
<1>2. M \in SUBSET Nat /\ \A m \in M : m < k
    BY DEF MeantTo, Meant
<1>3. log[k] \in Lines_
    OBVIOUS
<1>4. Cardinality(M) \in Nat
    BY <1>1, FS_CardinalityType
<1> HIDE DEF M, N
<1>5. CASE k \notin Meant(log, end)
    BY <1>0, <1>1, <1>5 DEF M, N, Holds
<1>6. CASE k \in Meant(log, end)
    <2>1. now = Append(lines, log[k]) /\ now \in Seq(Lines_) /\ Len(now) = Len(lines) + 1
        BY <1>0, <1>3, <1>6
    <2>2. ASSUME NEW m \in M PROVE now[Cardinality({j \in N : j <= m})] = log[m]
        <3>1. {j \in N : j <= m} = {j \in M : j <= m}
            BY <1>1, <1>2, <1>6
        <3>2. Cardinality({j \in M : j <= m}) \in 1..Cardinality(M)
            BY <1>1, <1>2, Standing
        <3>3. lines[Cardinality({j \in M : j <= m})] = log[m]
            BY <1>0 DEF M
        <3>4. Len(lines) = Cardinality(M)
            BY <1>0 DEF M
        <3> DEFINE c == Cardinality({j \in M : j <= m})
        <3>5. c \in 1..Len(lines) /\ lines[c] = log[m] /\ Cardinality({j \in N : j <= m}) = c
            BY <3>1, <3>2, <3>3, <3>4
        <3> HIDE DEF c
        <3>6. Append(lines, log[k])[c] = lines[c]
            BY <1>0, <1>3, <3>5
        <3> QED BY <2>1, <3>5, <3>6
    <2>3. now[Cardinality({j \in N : j <= k})] = log[k]
        <3>1. {j \in N : j <= k} = N
            <4>1. \A j \in N : j \in Nat /\ j <= k
                BY <1>1, <1>2, <1>6
            <4> QED BY <4>1
        <3>2. Cardinality(N) = Len(lines) + 1
            BY <1>0, <1>1, <1>6 DEF M
        <3>3. Append(lines, log[k])[Len(lines) + 1] = log[k]
            BY <1>0, <1>3
        <3> QED BY <2>1, <3>1, <3>2, <3>3
    <2>4. Len(now) = Cardinality(N)
        BY <1>0, <1>1, <1>6, <2>1 DEF M
    <2>5. \A m \in N : m \in M \/ m = k
        BY <1>1, <1>6
    <2> HIDE DEF now
    <2> QED BY <2>1, <2>2, <2>3, <2>4, <2>5 DEF N, Holds
<1> QED BY <1>5, <1>6

(* One more line is read.                                                    *)
LEMMA ReadKeeps ==
    ASSUME NEW log \in Logs, NEW end \in Nat, Now <= end, end <= Now + 1, NEW k \in 1..Len(log), NEW w, ReadInv(log, end, k - 1, w)
    PROVE  ReadInv(log, end, k, Filter(w, log[k], end))
<1>1. log \in Seq(Lines_) /\ log[k] \in Lines_
    <2>1. log \in Seq(Lines_)
        BY LogsAssumption DEF Lines_
    <2> QED BY <2>1
<1> DEFINE v == Filter(w, log[k], end)
           at == parseHilogTimestamp(log[k].time, end)
           R(n) == RecordOf(log, n)
<1>2. w \in Windows
    BY DEF ReadInv
<1>3. R(k) = IF log[k].is = "record" THEN k ELSE R(k - 1)
    BY <1>1, RecordSteps
<1>4. R(k - 1) # 0 => R(k - 1) \in 1..(k - 1) /\ log[R(k - 1)].is = "record"
    BY <1>1, RecordTyped
<1> DEFINE Late(n) == log[R(n)].time > end - Duration
<1>5. k \in Meant(log, end) <=> log[k].is # "banner" /\ R(k) # 0 /\ Late(k)
    BY <1>1 DEF Meant
<1>6. log[k].is = "record" => at = <<>> \/ (at # <<>> /\ at[1] > end) \/ at = <<log[k].time>>
    <2>1. CASE log[k].is = "record"
        <3>1. Now + 1 - Year < log[k].time /\ log[k].time <= Now /\ log[k].time \in Nat /\ Year \in Nat /\ Now \in Nat
            BY <1>1, <2>1, LogsAssumption DEF Lines_
        <3>2. log[k].time <= end /\ end - Year < log[k].time
            BY <3>1
        <3>3. Closest(log[k].time, end) <= end => Closest(log[k].time, end) = log[k].time
            BY <3>1, <3>2, ClosestIs
        <3>4. Closest(log[k].time, end) \in Int
            BY <3>1, OneIsClosest
        <3>5. CASE at = <<>>
            BY <3>5
        <3>6. CASE at # <<>>
            <4>1. at = <<Closest(log[k].time, end)>> /\ at[1] = Closest(log[k].time, end)
                BY <3>6 DEF parseHilogTimestamp
            <4> HIDE DEF at
            <4> QED BY <3>3, <3>4, <3>6, <4>1
        <3> QED BY <3>5, <3>6
    <2> QED BY <2>1
<1> HIDE DEF at, R, Late
<1>7. CASE v.bad /\ v \in Windows
    BY <1>7 DEF ReadInv
<1>8. v \in Windows
    <2>1. ASSUME NEW u \in Windows PROVE KeepLine(u, log[k]) \in Windows
        <3>1. Append(u.lines, log[k]) \in Seq(Lines_)
            BY <1>1, <2>1 DEF Windows
        <3> QED BY <2>1, <3>1 DEF KeepLine, Windows
    <2>2. [w EXCEPT !.bad = TRUE] \in Windows
        BY <1>2 DEF Windows
    <2> DEFINE late == log[k].time > end - Duration
    <2>3. [w EXCEPT !.saw = TRUE, !.keep = late] \in Windows
        <3>1. late \in BOOLEAN
            OBVIOUS
        <3> HIDE DEF late
        <3> QED BY <1>2, <3>1 DEF Windows
    <2>4. \/ v \in {w, [w EXCEPT !.bad = TRUE], KeepLine(w, log[k])}
          \/ log[k].is = "record" /\ ~ (at = <<>> \/ (at # <<>> /\ at[1] > end))
             /\ v = KeepLine([w EXCEPT !.saw = TRUE, !.keep = at[1] > end - Duration], log[k])
        BY DEF Filter, at
    <2>5. \/ v \in {w, [w EXCEPT !.bad = TRUE], KeepLine(w, log[k])}
          \/ v = KeepLine([w EXCEPT !.saw = TRUE, !.keep = late], log[k])
        <3> HIDE DEF v
        <3>1. at = <<log[k].time>> => at[1] = log[k].time
            OBVIOUS
        <3> QED BY <1>6, <2>4, <3>1
    <2> HIDE DEF v, late
    <2> QED BY <1>2, <2>1, <2>2, <2>3, <2>5
<1>9. CASE ~v.bad
    <2>1. ~w.bad
        BY <1>2, <1>9 DEF Filter, Windows
    <2>2. /\ w.saw = (R(k - 1) # 0) /\ w.keep = (R(k - 1) # 0 /\ Late(k - 1))
          /\ Holds(log, end, k - 1, w.lines)
        BY <2>1 DEF ReadInv, R, Late
    <2>3. /\ v.saw = (R(k) # 0) /\ v.keep = (R(k) # 0 /\ Late(k))
          /\ v.lines = IF k \in Meant(log, end) THEN Append(w.lines, log[k]) ELSE w.lines
        <3>1. CASE log[k].is = "record"
            <4>1. at = <<log[k].time>> /\ at[1] = log[k].time
                BY <1>2, <1>6, <1>9, <2>1, <3>1 DEF Filter, Windows, at
            <4>2. v = KeepLine([w EXCEPT !.saw = TRUE, !.keep = at[1] > end - Duration], log[k])
                BY <1>2, <1>9, <2>1, <3>1 DEF Filter, Windows, at
            <4>3. R(k) = k /\ R(k) # 0 /\ Late(k) = (log[k].time > end - Duration)
                BY <1>3, <3>1 DEF Late
            <4> DEFINE late == log[k].time > end - Duration
                       u == [w EXCEPT !.saw = TRUE, !.keep = late]
            <4>4. late \in BOOLEAN /\ v = KeepLine(u, log[k])
                BY <4>1, <4>2
            <4>8. Late(k) = late
                BY <4>3
            <4> HIDE DEF late, v
            <4>5. u.saw = TRUE /\ u.keep = late /\ u.lines = w.lines /\ u \in Windows
                BY <1>2, <4>4 DEF Windows
            <4> HIDE DEF u
            <4>6. v.saw = TRUE /\ v.keep = late /\ v.lines = IF late THEN Append(w.lines, log[k]) ELSE w.lines
                BY <4>4, <4>5 DEF KeepLine, Windows
            <4>7. k \in Meant(log, end) <=> late
                BY <1>5, <3>1, <4>3, <4>8
            <4>9. (R(k) # 0) = TRUE /\ (R(k) # 0 /\ Late(k)) = late
                BY <4>3, <4>4, <4>8
            <4> QED BY <4>6, <4>7, <4>9
        <3>2. CASE log[k].is = "banner"
            <4>1. v = w
                BY <2>1, <3>2 DEF Filter
            <4>2. R(k) = R(k - 1) /\ Late(k) = Late(k - 1)
                BY <1>3, <3>2 DEF Late
            <4> QED BY <1>5, <2>2, <3>2, <4>1, <4>2
        <3>3. CASE log[k].is = "odd"
            BY <1>2, <1>9, <2>1, <3>3 DEF Filter, Windows
        <3>4. CASE log[k].is = "more"
            <4>1. w.saw /\ v = KeepLine(w, log[k])
                BY <1>2, <1>9, <2>1, <3>4 DEF Filter, Windows
            <4>2. R(k) = R(k - 1) /\ Late(k) = Late(k - 1)
                BY <1>3, <3>4 DEF Late
            <4> QED BY <1>2, <1>5, <2>2, <3>4, <4>1, <4>2 DEF KeepLine, Windows
        <3> QED BY <1>1, <3>1, <3>2, <3>3, <3>4 DEF Lines_
    <2>9. v.saw = (RecordOf(log, k) # 0) /\ v.keep = (RecordOf(log, k) # 0 /\ log[RecordOf(log, k)].time > end - Duration)
        BY <2>3 DEF R, Late
    <2> HIDE DEF v
    <2>5. Holds(log, end, k, v.lines)
        BY <1>1, <2>2, <2>3, LineKept
    <2>6. ReadInv(log, end, k, v)
        BY <1>8, <2>5, <2>9 DEF ReadInv
    <2> QED BY <2>6 DEF v
<1>10. v.bad \in BOOLEAN
    BY <1>8 DEF Windows
<1> QED BY <1>7, <1>8, <1>9, <1>10

(* The whole log is read.                                                    *)
LEMMA FilteredIs == ASSUME NEW log \in Logs, NEW end \in Nat, Now <= end, end <= Now + 1 PROVE ReadInv(log, end, Len(log), Filtered(log, end))
<1>1. log \in Seq(Lines_)
    BY LogsAssumption DEF Lines_
<1> DEFINE none == [saw |-> FALSE, keep |-> FALSE, lines |-> <<>>, bad |-> FALSE]
           ReadUpTo(w, n) == w = [k \in 0..n |-> IF k = 0 THEN none ELSE Filter(w[k - 1], log[k], end)]
           S == {n \in Nat : \E w : ReadUpTo(w, n)}
<1>2. 0 \in S
    <2>1. ReadUpTo([k \in 0..0 |-> none], 0)
        OBVIOUS
    <2> QED BY <2>1
<1>3. ASSUME NEW n \in Nat, n \in S PROVE n + 1 \in S
    <2>1. PICK w : ReadUpTo(w, n)
        BY <1>3
    <2> DEFINE u == [k \in 0..(n + 1) |-> IF k <= n THEN w[k] ELSE Filter(w[n], log[k], end)]
    <2>2. ASSUME NEW k \in 0..(n + 1) PROVE u[k] = IF k = 0 THEN none ELSE Filter(u[k - 1], log[k], end)
        <3>1. CASE k = 0
            BY <2>1, <3>1
        <3>2. CASE k # 0 /\ k <= n
            <4>1. k - 1 \in 0..(n + 1) /\ k - 1 <= n /\ k \in 0..n
                BY <3>2
            <4>2. u[k - 1] = w[k - 1] /\ u[k] = w[k]
                BY <3>2, <4>1
            <4>3. w[k] = Filter(w[k - 1], log[k], end)
                BY <2>1, <3>2, <4>1
            <4> HIDE DEF u
            <4> QED BY <3>2, <4>2, <4>3
        <3>3. CASE k = n + 1
            <4>1. k - 1 \in 0..(n + 1) /\ k - 1 = n /\ ~ (k <= n)
                BY <3>3
            <4>2. u[k - 1] = w[n] /\ u[k] = Filter(w[n], log[k], end)
                BY <3>3, <4>1
            <4> HIDE DEF u
            <4> QED BY <3>3, <4>2
        <3> QED BY <3>1, <3>2, <3>3
    <2>3. ReadUpTo(u, n + 1)
        <3>1. u = [k \in 0..(n + 1) |-> u[k]]
            OBVIOUS
        <3> HIDE DEF u, none
        <3> QED BY <2>2, <3>1
    <2> HIDE DEF u, ReadUpTo
    <2> QED BY <2>3
<1>4. Len(log) \in S
    <2> HIDE DEF S
    <2> QED BY <1>1, <1>2, <1>3, Induct
<1> DEFINE r == CHOOSE w : ReadUpTo(w, Len(log))
<1>5. ReadUpTo(r, Len(log))
    <2> HIDE DEF ReadUpTo
    <2> QED BY <1>4
<1>6. Filtered(log, end) = r[Len(log)]
    BY DEF Filtered
<1> HIDE DEF r
<1> DEFINE T == {n \in Nat : n <= Len(log) => ReadInv(log, end, n, r[n])}
<1>7. 0 \in T
    <2>1. r[0] = none
        BY <1>1, <1>5
    <2>2. {j \in 1..0 : log[j].is = "record"} = {}
        OBVIOUS
    <2>3. RecordOf(log, 0) = 0
        BY <2>2 DEF RecordOf
    <2>4. MeantTo(log, end, 0) = {}
        <3>1. Meant(log, end) \subseteq 1..Len(log)
            BY <1>1 DEF Meant
        <3> QED BY <1>1, <3>1 DEF MeantTo
    <2>5. Cardinality({}) = 0
        BY FS_EmptySet
    <2>6. none \in Windows /\ Holds(log, end, 0, none.lines)
        <3>1. <<>> \in Seq(Lines_) /\ Len(<<>>) = 0
            OBVIOUS
        <3>2. Holds(log, end, 0, <<>>)
            BY <2>4, <2>5, <3>1 DEF Holds
        <3> QED BY <3>1, <3>2 DEF Windows
    <2>7. ReadInv(log, end, 0, none)
        BY <2>3, <2>4, <2>5, <2>6 DEF ReadInv
    <2> HIDE DEF none
    <2> QED BY <2>1, <2>7
<1>8. ASSUME NEW n \in Nat, n \in T PROVE n + 1 \in T
    <2>1. CASE n + 1 <= Len(log)
        <3>1. n + 1 \in 1..Len(log) /\ (n + 1) - 1 = n /\ n + 1 \in 0..Len(log) /\ n + 1 # 0
            BY <1>1, <2>1
        <3>2. r[n + 1] = Filter(r[n], log[n + 1], end)
            BY <1>5, <3>1
        <3>3. ReadInv(log, end, n, r[n])
            BY <1>1, <1>8, <2>1
        <3>4. ReadInv(log, end, n + 1, Filter(r[n], log[n + 1], end))
            BY <3>1, <3>3, ReadKeeps
        <3> QED BY <3>2, <3>4
    <2> QED BY <2>1
<1>9. Len(log) \in T
    <2> HIDE DEF T
    <2> QED BY <1>1, <1>7, <1>8, Induct
<1> QED BY <1>1, <1>6, <1>9

(* A window is what was meant when the clock was read again.                 *)
WindowInv ==
    /\ {"at", "failed", "window", "log", "before", "after"} \subseteq DOMAIN bundle
    /\ bundle.log \in Logs /\ bundle.before = Now /\ bundle.after \in {Now, Now + 1, Now - 2, Now + 9}
    /\ bundle.at \in {"targets", "which", "before", "hilog", "after", "window"} => bundle.window = <<>>
    /\ WindowIsTrue

(* A collection starts without a window.                                     *)
LEMMA WindowInit == BundleInit => WindowInv
BY DEF BundleInit, WindowInv, WindowIsTrue

(* Only applyWindow makes a window, and the clock is not read after it.      *)
LEMMA WindowNext == WindowInv /\ [BundleNext]_bundleVars => WindowInv'
<1> SUFFICES ASSUME WindowInv, [BundleNext]_bundleVars PROVE WindowInv'
    OBVIOUS
<1>1. /\ {"at", "failed", "window", "log", "before", "after"} \subseteq DOMAIN bundle
      /\ bundle.log \in Logs /\ bundle.before = Now /\ bundle.after \in {Now, Now + 1, Now - 2, Now + 9}
      /\ bundle.at \in {"targets", "which", "before", "hilog", "after", "window"} => bundle.window = <<>>
      /\ WindowIsTrue
    BY DEF WindowInv
<1> DEFINE Same == /\ bundle'.log = bundle.log /\ bundle'.before = bundle.before /\ bundle'.window = bundle.window
                   /\ DOMAIN bundle' = DOMAIN bundle
<1>2. ASSUME Same, bundle'.after = bundle.after,
             bundle'.at \in {"targets", "which", "before", "hilog", "after", "window"} => bundle.window = <<>>
      PROVE  WindowInv'
    BY <1>1, <1>2 DEF WindowInv, WindowIsTrue
<1>3. CASE applyWindow
    <2> DEFINE w == IF bundle.failed \cap {"before", "hilog", "after"} # {} THEN <<>>
                    ELSE filterHilogWindow(bundle.log, bundle.before, bundle.after)
    <2>1. bundle' = [bundle EXCEPT !.at = "faultlog", !.window = w]
        BY <1>3 DEF applyWindow
    <2>2. w # <<>> => /\ w = <<Filtered(bundle.log, bundle.after).lines>>
                      /\ bundle.after >= bundle.before /\ bundle.after <= bundle.before + 3
                      /\ ~Filtered(bundle.log, bundle.after).bad
        <3>1. /\ bundle.before \in Int /\ bundle.after \in Int
            BY <1>1, LogsAssumption
        <3>2. CASE \/ bundle.after < bundle.before \/ bundle.after > bundle.before + 3
                   \/ Filtered(bundle.log, bundle.after).bad \/ ~Filtered(bundle.log, bundle.after).saw
            BY <3>2 DEF filterHilogWindow
        <3>3. CASE ~(\/ bundle.after < bundle.before \/ bundle.after > bundle.before + 3
                     \/ Filtered(bundle.log, bundle.after).bad \/ ~Filtered(bundle.log, bundle.after).saw)
            <4>1. filterHilogWindow(bundle.log, bundle.before, bundle.after) = <<Filtered(bundle.log, bundle.after).lines>>
                BY <3>3 DEF filterHilogWindow
            <4> QED BY <3>1, <3>3, <4>1
        <3> QED BY <3>2, <3>3
    <2> HIDE DEF w
    <2>3. /\ bundle'.log = bundle.log /\ bundle'.before = bundle.before /\ bundle'.after = bundle.after
          /\ bundle'.window = w /\ bundle'.at = "faultlog" /\ DOMAIN bundle' = DOMAIN bundle
        BY <1>1, <2>1
    <2>4. CASE w # <<>>
        <3>1. bundle.after \in Nat /\ Now <= bundle.after /\ bundle.after <= Now + 1
            BY <1>1, <2>2, <2>4, LogsAssumption
        <3>2. ReadInv(bundle.log, bundle.after, Len(bundle.log), Filtered(bundle.log, bundle.after))
            BY <1>1, <3>1, FilteredIs
        <3>3. Holds(bundle.log, bundle.after, Len(bundle.log), Filtered(bundle.log, bundle.after).lines)
            BY <2>2, <2>4, <3>2 DEF ReadInv
        <3>4. MeantTo(bundle.log, bundle.after, Len(bundle.log)) = Meant(bundle.log, bundle.after)
            <4>1. bundle.log \in Seq(Lines_)
                BY <1>1, LogsAssumption DEF Lines_
            <4>2. Meant(bundle.log, bundle.after) \subseteq 1..Len(bundle.log)
                BY <4>1 DEF Meant
            <4> QED BY <4>1, <4>2 DEF MeantTo
        <3>5. w[1] = Filtered(bundle.log, bundle.after).lines
            BY <2>2, <2>4
        <3>6. /\ Len(w[1]) = Cardinality(Meant(bundle.log, bundle.after))
              /\ \A m \in Meant(bundle.log, bundle.after) : w[1][Cardinality({j \in Meant(bundle.log, bundle.after) : j <= m})] = bundle.log[m]
            BY <3>3, <3>4, <3>5 DEF Holds
        <3>7. WindowIsTrue'
            BY <2>3, <3>6 DEF WindowIsTrue
        <3> QED BY <1>1, <2>3, <3>7 DEF WindowInv
    <2>5. CASE w = <<>>
        <3>1. WindowIsTrue'
            BY <2>3, <2>5 DEF WindowIsTrue
        <3> QED BY <1>1, <2>3, <3>1 DEF WindowInv
    <2> QED BY <2>4, <2>5
<1>4. CASE timeAfter
    <2>1. PICK fails \in BOOLEAN, after \in {Now, Now + 1, Now - 2, Now + 9} :
            bundle' = [bundle EXCEPT !.at = "window", !.after = after, !.failed = IF fails THEN @ \cup {"after"} ELSE @]
        BY <1>4 DEF timeAfter
    <2>2. Same /\ bundle'.after = after /\ bundle'.at = "window" /\ bundle.window = <<>>
        BY <1>1, <1>4, <2>1 DEF timeAfter, In
    <2> QED BY <1>1, <2>2 DEF WindowInv, WindowIsTrue
<1>5. ASSUME NEW name, NEW then, Collect(name, then), then \notin {"after", "hilog", "window"} \/ name \in {"before", "hilog"},
             then # "targets" /\ then # "before" /\ (then = "which" => name = "targets")
      PROVE  WindowInv'
    <2>1. PICK fails \in BOOLEAN, odd \in {FALSE, name = "hilog"} :
            bundle' = [bundle EXCEPT !.at = then, !.odd = @ \/ odd, !.failed = IF fails THEN @ \cup {name} ELSE @]
        BY <1>5 DEF Collect
    <2>2. bundle.at = name
        BY <1>5 DEF Collect, In
    <2>3. Same /\ bundle'.after = bundle.after /\ bundle'.at = then
        BY <1>1, <2>1
    <2> QED BY <1>1, <1>2, <1>5, <2>2, <2>3
<1>6. CASE ListTargets \/ timeBefore \/ hilogSnapshot \/ collectFaultlog \/ collectRest
    BY <1>5, <1>6 DEF ListTargets, timeBefore, hilogSnapshot, collectFaultlog, collectRest
<1>7. CASE selectTarget
    <2>1. Same /\ bundle'.after = bundle.after /\ bundle.window = <<>>
        BY <1>1, <1>7 DEF selectTarget, In
    <2> QED BY <1>2, <2>1
<1>8. CASE writeFiltered \/ writeManifest \/ redactTree \/ writeZip \/ undo \/ report_
    <2>1. Same /\ bundle'.after = bundle.after /\ bundle'.at \in {"rest", "redact", "zip", "undo", "report", "done"}
        BY <1>1, <1>8 DEF writeFiltered, writeManifest, redactTree, writeZip, undo, report_
    <2> QED BY <1>2, <2>1
<1>9. CASE UNCHANGED bundleVars
    BY <1>1, <1>9 DEF bundleVars, WindowInv, WindowIsTrue
<1> HIDE DEF Same
<1> QED BY <1>3, <1>4, <1>6, <1>7, <1>8, <1>9 DEF BundleNext

(* What is taken for the time that was asked for is the lines of that time,  *)
(* for any log, also over the turn of a year, or nothing.                    *)
THEOREM WindowIsMeant == BundleSpec => []WindowIsTrue
<1>1. WindowInv => WindowIsTrue
    BY DEF WindowInv
<1> QED BY <1>1, WindowInit, WindowNext, PTL DEF BundleSpec

------------------------------------------------------------------------------
(* One command at a time (MCDevice).                                         *)

(* Whichever command a behaviour is, each component in it behaves as its own *)
(* specification says, for the others do not touch its variables.            *)
LEMMA SideBySide ==
    DeviceSpec => BuildSpec /\ TestSpec /\ PerfSpec /\ TraceSpec /\ BinderSpec /\ FaultSpec /\ BundleSpec
<1>1. DeviceInit => BuildInit /\ TestInit /\ PerfInit /\ TraceInit /\ BinderInit /\ FaultInit /\ BundleInit
    BY DEF DeviceInit
<1>2. [DeviceNext]_deviceVars => [BuildNext]_buildVars /\ [TestNext]_testVars /\ [PerfNext]_perfVars /\ [TraceNext]_traceVars
    BY DEF DeviceNext, deviceVars
<1>3. [DeviceNext]_deviceVars => [Catch]_caught /\ [FaultNext]_faultVars /\ [BundleNext]_bundleVars
    BY DEF DeviceNext, deviceVars
<1> QED BY <1>1, <1>2, <1>3, PTL DEF DeviceSpec, BuildSpec, TestSpec, PerfSpec, TraceSpec, BinderSpec, FaultSpec, BundleSpec

(* However a test run or a capture ends, the device is given back as it was  *)
(* found, but for what a call obeyed unheard, failed or refused has left.    *)
THEOREM DeviceComesBack == DeviceSpec => []DeviceIsGivenBack
<1>1. TestLeavesDevice /\ CaptureLeavesDevice => DeviceIsGivenBack
    BY DEF DeviceIsGivenBack
<1> QED BY <1>1, SideBySide, TestGivesBack, CaptureGivesBack, PTL

(* What the reports of tests, captures and traces say is what happened, as   *)
(* long as signing is not switched on or off between two builds of a test.   *)
THEOREM ReportsTellTheTruth == ASSUME ~SigningChanges PROVE DeviceSpec => []ReportsAreTrue
<1>1. ReportIsTheRun /\ PassedIsWhole /\ OkIsMeasured /\ TraceIsWhole => ReportsAreTrue
    BY DEF ReportsAreTrue
<1>2. TestSpec => []PassedIsWhole
    BY PassIsWhole
<1> QED BY <1>1, <1>2, SideBySide, ReportIsTheRunner, CaptureIsMeasured, TraceReadWhole, PTL

(* What is told of a fault is what the device had to say of it.              *)
THEOREM EvidenceTellsTheTruth == DeviceSpec => []EvidenceIsTrue
<1>1. ChainIsWhole /\ CrashIsFound /\ KindIsTrue /\ BundleIsTrue /\ RedactionHolds /\ WindowIsTrue => EvidenceIsTrue
    BY DEF EvidenceIsTrue
<1> QED BY <1>1, SideBySide, ChainIsTold, NewestIsFound, KindIsTold, BundleIsHonest, WindowIsMeant, PTL
==============================================================================
