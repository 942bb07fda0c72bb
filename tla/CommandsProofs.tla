---------------------------- MODULE CommandsProofs ----------------------------
(***************************************************************************)
(* Proofs about three modules that MCCommands checks side by side.         *)
(* RunProcess, for every set of platforms and every bound on the output:   *)
(* what a settled call has told of its command is true.  HilogStream, for  *)
(* every number of lines, reboots and drops and every deadline: what a     *)
(* wait, a watch and a capture make of the device's log.  SdkInstall, for  *)
(* any number of installs and components: the SDK is whole, scratch        *)
(* directories are private, and the old SDK outlives every install that    *)
(* fails before it has unpacked the new one.                               *)
(***************************************************************************)
EXTENDS RunProcess, HilogStream, SdkInstall, TLAPS, WellFoundedInduction, NaturalsInduction

Tokens == {<<"text">>, <<"fail">>, <<"rc", 0>>, <<"rc", 1>>}

ExecTypeOK ==
    /\ call \in {"new", "running", "cancelled", "failed", "resolved", "timeout"}
    /\ timedOut \in BOOLEAN /\ signal \in BOOLEAN /\ grandchild \in BOOLEAN
    /\ child \in {NotYet, Alive, Killed, 0, 1}
    /\ remote \in {NotYet, Alive, 0, 1}
    /\ output \in Seq(Tokens)

(* Before the call there is no child, and none comes back to life.           *)
NewHasNoChild == call = "new" => child = NotYet /\ ~timedOut

(* The marker of a command that has ended is the last thing hdc printed, and *)
(* a refusal is the only one.                                                *)
EndIsLast == remote \in {0, 1} => Len(output) > 0 /\ output[Len(output)] = <<"rc", remote>>
RefusalIsAlone == IF remote = NotYet THEN output \in {<<>>, <<<<"fail">>>>}
                  ELSE \A i \in 1..Len(output) : output[i] # <<"fail">>

(* What was reported is what the output, which can grow no more, still says. *)
ResultIsOfOutput == call = "resolved" => child \notin {NotYet, Alive} /\ result = shellChecked(child, output)

ExecInv ==
    /\ ExecTypeOK /\ NewHasNoChild /\ EndIsLast /\ RefusalIsAlone /\ ResultIsOfOutput
    /\ NothingOutlivesTheCall
    /\ child = Killed /\ host = "windows" => ~grandchild

(* When the last token is a marker, it is the last marker.                   *)
LEMMA LastMarker ==
  ASSUME NEW out \in Seq(Tokens), Len(out) > 0, IsMarker(out[Len(out)])
  PROVE  Max({i \in 1..Len(out) : IsMarker(out[i])}) = Len(out)
<1> DEFINE I == {i \in 1..Len(out) : IsMarker(out[i])}
<1>1. Len(out) \in I /\ I \subseteq Int /\ \A i \in I : Len(out) >= i
  OBVIOUS
<1>2. Max(I) = Len(out)
  <2> HIDE DEF I
  <2>1. \A x \in I : (\A y \in I : x >= y) => x = Len(out)
    BY <1>1
  <2> QED
    BY <1>1, <2>1 DEF Max
<1> QED
  BY <1>2

(* With it the command's own code is what shellChecked returns.              *)
LEMMA EndIsReported ==
  ASSUME NEW out \in Seq(Tokens), NEW code, NEW rc \in {0, 1},
         Len(out) > 0, out[Len(out)] = <<"rc", rc>>
  PROVE  shellChecked(code, out) = rc
<1>1. IsMarker(out[Len(out)])
  BY DEF IsMarker
<1>2. Len(out) \in 1..Len(out)
  OBVIOUS
<1>3. shellChecked(code, out) = out[Max({i \in 1..Len(out) : IsMarker(out[i])})][2]
  BY <1>1, <1>2 DEF shellChecked, SelectLastInSeq
<1> QED
  BY <1>1, <1>3, LastMarker

(* A refusal is never a success, whatever hdc exits with.                    *)
LEMMA RefusalIsReported ==
  ASSUME NEW code \in {Killed, 0, 1}
  PROVE  shellChecked(code, <<<<"fail">>>>) # 0
<1>1. ~ \E i \in DOMAIN <<<<"fail">>>> : IsMarker(<<<<"fail">>>>[i])
  BY DEF IsMarker
<1>2. shellChecked(code, <<<<"fail">>>>) = hdcExec(code, <<<<"fail">>>>)
  BY <1>1, Zenon DEF shellChecked
<1> QED
  BY <1>2 DEF hdcExec, hdcClientFailure, Killed

LEMMA ExecInitInv == ExecInit => ExecInv
<1> SUFFICES ASSUME ExecInit PROVE ExecInv
  OBVIOUS
<1> USE DEF ExecInit, NotYet, Alive, Killed
<1>1. output \in Seq(Tokens)
  OBVIOUS
<1>2. ExecTypeOK
  BY <1>1 DEF ExecTypeOK
<1>3. EndIsLast /\ RefusalIsAlone
  BY DEF EndIsLast, RefusalIsAlone
<1>4. NewHasNoChild /\ ResultIsOfOutput /\ NothingOutlivesTheCall
  BY DEF NewHasNoChild, ResultIsOfOutput, NothingOutlivesTheCall, Settled
<1> QED
  BY <1>2, <1>3, <1>4 DEF ExecInv

(* What happens to the child and on the device.                              *)
LEMMA OutsideStep ==
  ASSUME ExecInv, Prints \/ RemoteEnds \/ HdcRefuses
  PROVE  ExecInv'
<1> USE DEF ExecInv, NotYet, Alive, Killed
<1>1. child = Alive /\ child' = child /\ call # "resolved" /\ call' = call /\ UNCHANGED <<host, timedOut, signal, grandchild>>
  BY DEF Prints, RemoteEnds, HdcRefuses, ResultIsOfOutput
<1>2. \E token \in Tokens : output' = Append(output, token)
  <2>1. CASE HdcRefuses
    BY <2>1 DEF HdcRefuses, Tokens
  <2> QED
    BY <2>1 DEF Prints, RemoteEnds, Tokens
<1>3. ExecTypeOK'
  BY <1>1, <1>2 DEF ExecTypeOK, Prints, RemoteEnds, HdcRefuses
<1>4. EndIsLast'
  <2>1. CASE Prints
    BY <2>1 DEF Prints, EndIsLast
  <2>2. CASE RemoteEnds
    BY <2>2 DEF RemoteEnds, EndIsLast, ExecTypeOK
  <2>3. CASE HdcRefuses
    BY <2>3 DEF HdcRefuses, EndIsLast
  <2> QED
    BY <2>1, <2>2, <2>3 DEF EndIsLast
<1>5. RefusalIsAlone'
  <2>1. CASE HdcRefuses
    BY <2>1 DEF HdcRefuses, RefusalIsAlone
  <2>2. CASE Prints \/ RemoteEnds
    <3>1. remote = Alive /\ remote' # NotYet
      BY <2>2 DEF Prints, RemoteEnds
    <3>2. PICK token \in Tokens : output' = Append(output, token) /\ token # <<"fail">>
      BY <2>2 DEF Prints, RemoteEnds, Tokens
    <3>3. \A i \in 1..Len(output') : output'[i] = IF i = Len(output') THEN token ELSE output[i]
      BY <3>2 DEF ExecTypeOK
    <3>4. Len(output') = Len(output) + 1 /\ Len(output) \in Nat
      BY <3>2 DEF ExecTypeOK
    <3>5. \A i \in 1..Len(output) : output[i] # <<"fail">>
      BY <3>1 DEF RefusalIsAlone
    <3>6. ASSUME NEW i \in 1..Len(output') PROVE output'[i] # <<"fail">>
      <4>1. CASE i = Len(output')
        BY <3>2, <3>3, <4>1
      <4>2. CASE i # Len(output')
        <5>1. i \in 1..Len(output)
          BY <3>4, <4>2
        <5> QED
          BY <3>3, <3>5, <4>2, <5>1
      <4> QED
        BY <4>1, <4>2
    <3> QED
      BY <3>1, <3>6 DEF RefusalIsAlone
  <2> QED
    BY <2>1, <2>2
<1> QED
  BY <1>1, <1>3, <1>4, <1>5 DEF NewHasNoChild, ResultIsOfOutput, NothingOutlivesTheCall, Settled

(* The child, its child, and the kill that lands.                            *)
LEMMA ChildStep ==
  ASSUME ExecInv, Forks \/ GrandchildEnds \/ ChildEnds \/ KillLands
  PROVE  ExecInv'
<1> USE DEF ExecInv, NotYet, Alive, Killed
<1>1. UNCHANGED <<host, call, result, timedOut, remote, output>>
  BY DEF Forks, GrandchildEnds, ChildEnds, KillLands
<1>2. signal' \in BOOLEAN /\ grandchild' \in BOOLEAN
  BY DEF Forks, GrandchildEnds, ChildEnds, KillLands, ExecTypeOK
<1>3. \/ child' = child
      \/ child = Alive /\ child' \in {0, 1, Killed}
  BY DEF Forks, GrandchildEnds, ChildEnds, KillLands
<1>4. ExecTypeOK' /\ NewHasNoChild'
  BY <1>1, <1>2, <1>3 DEF ExecTypeOK, NewHasNoChild
<1>5. EndIsLast' /\ RefusalIsAlone'
  BY <1>1 DEF EndIsLast, RefusalIsAlone
<1>6. ResultIsOfOutput'
  BY <1>1, <1>3 DEF ResultIsOfOutput
<1>7. child' = Killed /\ host' = "windows" => ~grandchild'
  <2>1. CASE Forks \/ GrandchildEnds \/ ChildEnds
    BY <2>1 DEF Forks, GrandchildEnds, ChildEnds
  <2>2. CASE KillLands
    BY <2>2 DEF KillLands
  <2> QED
    BY <2>1, <2>2
<1>8. (Settled \/ timedOut)' /\ ~signal' => child' # Alive
  <2>1. CASE Forks \/ GrandchildEnds \/ ChildEnds
    BY <1>1, <1>3, <2>1 DEF Forks, GrandchildEnds, ChildEnds, NothingOutlivesTheCall, Settled
  <2>2. CASE KillLands
    BY <2>2 DEF KillLands
  <2> QED
    BY <2>1, <2>2
<1> QED
  BY <1>4, <1>5, <1>6, <1>7, <1>8 DEF NothingOutlivesTheCall

(* What the process itself does.                                             *)
LEMMA CallStep ==
  ASSUME ExecInv, SpawnCall \/ AbortCall \/ TimesOut \/ Close
  PROVE  ExecInv'
<1> USE DEF ExecInv, NotYet, Alive, Killed
<1>1. UNCHANGED <<host, grandchild, remote, output>>
  BY DEF SpawnCall, AbortCall, TimesOut, Close
<1>2. ExecTypeOK' /\ NewHasNoChild'
  BY <1>1 DEF ExecTypeOK, NewHasNoChild, SpawnCall, AbortCall, TimesOut, Close, Settle_
<1>3. EndIsLast' /\ RefusalIsAlone'
  BY <1>1 DEF EndIsLast, RefusalIsAlone
<1>4. ResultIsOfOutput'
  BY <1>1 DEF ResultIsOfOutput, SpawnCall, AbortCall, TimesOut, Close, Settle_
<1>5. child' = Killed /\ host' = "windows" => ~grandchild'
  BY <1>1 DEF SpawnCall, AbortCall, TimesOut, Close, NewHasNoChild
<1>6. (Settled \/ timedOut)' /\ ~signal' => child' # Alive
  BY <1>1 DEF SpawnCall, AbortCall, TimesOut, Close, Settle_, Settled, NewHasNoChild, NothingOutlivesTheCall
<1> QED
  BY <1>2, <1>3, <1>4, <1>5, <1>6 DEF NothingOutlivesTheCall

LEMMA InvImplies == ExecInv => CallIsSettled
<1> SUFFICES ASSUME ExecInv, call = "resolved", remote = 1 \/ hdcClientFailure(output)
             PROVE  result # 0
  BY DEF CallIsSettled, FailureIsReported, ExecInv
<1> USE DEF ExecInv
<1>1. child \in {Killed, 0, 1} /\ result = shellChecked(child, output)
  BY DEF ResultIsOfOutput, ExecTypeOK
<1>2. CASE remote = 1
  BY <1>1, <1>2, EndIsReported DEF EndIsLast, ExecTypeOK
<1>3. CASE remote # 1
  <2>1. output # <<>> /\ output[1] = <<"fail">>
    BY <1>3 DEF hdcClientFailure
  <2>2. Len(output) > 0 /\ 1 \in 1..Len(output)
    BY <2>1 DEF ExecTypeOK
  <2>3. output = <<<<"fail">>>>
    BY <2>1, <2>2 DEF RefusalIsAlone
  <2> QED
    BY <1>1, <2>3, RefusalIsReported
<1> QED
  BY <1>2, <1>3

(* A call that is reported as a success did succeed, on the device too; one  *)
(* that timed out or was cancelled leaves no child once its kill has landed. *)
THEOREM CallTellsTheTruth == ExecSpec => []CallIsSettled
<1>1. ExecInv /\ [ExecNext]_execVars => ExecInv'
  <2> SUFFICES ASSUME ExecInv, [ExecNext]_execVars PROVE ExecInv'
    OBVIOUS
  <2>1. CASE UNCHANGED execVars
    BY <2>1 DEF execVars, ExecInv, ExecTypeOK, NewHasNoChild, EndIsLast, RefusalIsAlone, ResultIsOfOutput,
                NothingOutlivesTheCall, Settled, shellChecked, hdcExec, hdcClientFailure
  <2>2. CASE ExecNext
    BY <2>2, OutsideStep, ChildStep, CallStep DEF ExecNext
  <2> QED
    BY <2>1, <2>2
<1> QED
  BY <1>1, ExecInitInv, InvImplies, PTL DEF ExecSpec

------------------------------------------------------------------------------
(* The log streams: what the variables hold.                                 *)
Entry == [boot : Nat, at : Nat, pid : {0, 1, 2, 9}, match : BOOLEAN]
Streams == [on : BOOLEAN, pid : {0, 1, 2}, next : Nat \ {0}, half : BOOLEAN]
Phones  == [clock : Nat, boot : Nat, up : BOOLEAN, app : {0, 1, 2}, drops : Nat]
LogTyped ==
    /\ job \in {"wait", "watch", "capture"}
    /\ lpc \in {"clock", "reread", "lookup", "spawn", "read", "pause", "off"}
    /\ ended \in {"no", "found", "done", "timeout", "cancelled", "failed"}
    /\ got \in Seq(Seq(Nat)) /\ buf \in Seq(Nat)
    /\ since \in Int /\ readIn \in Nat \cup {Never} /\ elapsed \in 0..Deadline
    /\ stream \in Streams
    /\ log \in Seq(Entry) /\ held \in 1..Len(log) + 1
    /\ device \in Phones

(* A hilog child runs only while a call reads it; half of a line was read    *)
(* from this child.                                                          *)
StreamInv ==
    /\ stream.on => lpc = "read" /\ ended = "no" /\ stream.next >= held
    /\ stream.half => stream.on /\ Len(buf) > 0 /\ buf[Len(buf)] = stream.next /\ stream.next <= Len(log)
    /\ ended = "found" => lpc = "off"
    /\ job = "capture" => lpc \in {"spawn", "read", "pause", "off"} /\ stream.pid = 0
    /\ job # "capture" => lpc # "spawn"

(* The device's clock goes on or was reset; the cutoff is of the call's time, *)
(* of a clock that was reset before it was read, or lifted.                  *)
Unreset == device.clock = CallTime + elapsed
ClockInv ==
    /\ Unreset \/ (device.boot > 0 /\ device.clock <= elapsed)
    /\ since \in {Anything, CallTime - Lookback} \/ (device.boot > 0 /\ since <= 0)
    /\ device.boot = 0 /\ readIn # Never => since = CallTime - Lookback
    /\ readIn = device.boot /\ since = CallTime - Lookback => Unreset
    /\ device.boot = 0 => device.up
    /\ readIn <= device.boot /\ (lpc = "clock" => readIn = Never)

(* What the device holds is of its present boot.                             *)
HeldInv ==
    \A i \in DOMAIN log :
        /\ log[i].boot <= device.boot
        /\ i >= held => log[i].boot = device.boot
        /\ i >= held /\ device.boot > 0 /\ Unreset => log[i].at >= CallTime

(* A capture of one stream.                                                  *)
CaptureInv ==
    job = "capture" /\ device.boot = 0 /\ device.drops = 0 =>
        /\ got = [k \in DOMAIN got |-> <<held + k - 1>>]
        /\ stream.on => /\ stream.next = held + Len(got)
                        /\ buf = IF stream.half THEN <<stream.next>> ELSE <<>>
        /\ ~stream.on => /\ lpc \in {"spawn", "off"} /\ buf = <<>>
                         /\ lpc = "spawn" /\ ended = "no" => got = <<>>

LogInv == LogTyped /\ StreamInv /\ ClockInv /\ HeldInv /\ CaptureInv /\ FoundIsRecent
------------------------------------------------------------------------------
(* The next line for a stream.                                               *)
Less == {p \in Nat \X Nat : p[1] < p[2]}

LEMMA MinIsLeast ==
    ASSUME NEW S \in SUBSET Nat, S # {}
    PROVE  Min(S) \in S /\ \A x \in S : Min(S) <= x
<1>1. IsWellFoundedOn(Less, Nat)
    BY NatLessThanWellFounded DEF OpToRel, Less
<1>2. PICK m \in S : \A y \in S : ~(<<y, m>> \in Less)
    BY <1>1, WFMin
<1>3. ASSUME NEW y \in S PROVE m <= y
    <2>1. ~(<<y, m>> \in Less) /\ y \in Nat /\ m \in Nat
        BY <1>2
    <2> QED BY <2>1 DEF Less
<1> QED BY <1>2, <1>3 DEF Min

Passes(i) == stream.pid \in {0, log[i].pid}
NextLine == SelectInSeq(SubSeq(log, stream.next, Len(log)), LAMBDA l : stream.pid \in {0, l.pid}) + stream.next - 1

LEMMA NextLineIsFirst ==
    ASSUME LogTyped, NextLine >= stream.next
    PROVE  /\ NextLine \in stream.next..Len(log) /\ NextLine \in DOMAIN log
           /\ \A k \in stream.next..Len(log) : Passes(k) => NextLine <= k
           /\ stream.pid = 0 => NextLine = stream.next
<1> DEFINE sub == SubSeq(log, stream.next, Len(log))
           I == {k \in 1..Len(sub) : stream.pid \in {0, sub[k].pid}}
<1>1. /\ log \in Seq(Entry) /\ stream.next \in Nat \ {0} /\ Len(log) \in Nat
      /\ Len(sub) = (IF stream.next <= Len(log) THEN Len(log) - stream.next + 1 ELSE 0)
      /\ \A k \in 1..Len(sub) : sub[k] = log[k + stream.next - 1]
    BY DEF LogTyped, Streams
<1>2. NextLine = (IF I # {} THEN Min(I) ELSE 0) + stream.next - 1
    BY DEF NextLine, SelectInSeq
<1>3. I # {}
    BY <1>1, <1>2
<1>4. Min(I) \in I /\ \A k \in I : Min(I) <= k
    <2>1. I \in SUBSET Nat
        BY <1>1
    <2> HIDE DEF I
    <2> QED BY <1>3, <2>1, MinIsLeast
<1>5. NextLine = Min(I) + stream.next - 1 /\ Min(I) \in 1..Len(sub)
    BY <1>2, <1>3, <1>4
<1>a. \A k : k \in I <=> k \in 1..Len(sub) /\ stream.pid \in {0, sub[k].pid}
    OBVIOUS
<1> HIDE DEF sub, I
<1>6. NextLine \in stream.next..Len(log)
    BY <1>1, <1>5
<1>7. ASSUME NEW k \in stream.next..Len(log), Passes(k)
      PROVE  NextLine <= k
    <2>1. PICK j \in Int : j = k - stream.next + 1
        BY <1>1
    <2>2. j \in 1..Len(sub) /\ j + stream.next - 1 = k /\ k \in Int
        BY <1>1, <2>1
    <2>3. j \in I
        BY <1>1, <1>7, <1>a, <2>2 DEF Passes
    <2>4. Min(I) <= j /\ Min(I) \in Int
        BY <1>4, <1>5, <2>3
    <2> QED BY <1>1, <1>5, <2>2, <2>4
<1>8. stream.pid = 0 => NextLine <= stream.next
    BY <1>1, <1>6, <1>7 DEF Passes
<1> QED BY <1>1, <1>6, <1>7, <1>8
------------------------------------------------------------------------------
LEMMA NoStreamTyped == NoStream \in Streams /\ ~NoStream.on /\ ~NoStream.half /\ NoStream.next = 1 /\ NoStream.pid = 0
BY DEF NoStream, Streams

LEMMA NewStream ==
    ASSUME NEW p \in {0, 1, 2}, NEW n \in Nat \ {0}, NEW s, s = [NoStream EXCEPT !.on = TRUE, !.next = n, !.pid = p]
    PROVE  s \in Streams /\ s.on /\ ~s.half /\ s.pid = p /\ s.next = n
BY DEF NoStream, Streams

LEMMA NewCapture ==
    ASSUME NEW n \in Nat \ {0}, NEW s, s = [NoStream EXCEPT !.on = TRUE, !.next = n]
    PROVE  s \in Streams /\ s.on /\ ~s.half /\ s.pid = 0 /\ s.next = n
BY DEF NoStream, Streams

LEMMA ReadStream ==
    ASSUME NEW q \in Streams, NEW n \in Nat \ {0}, NEW s
    PROVE  /\ s = [q EXCEPT !.half = TRUE, !.next = n]
                => s \in Streams /\ s.on = q.on /\ s.half /\ s.pid = q.pid /\ s.next = n
           /\ s = [q EXCEPT !.half = FALSE, !.next = n]
                => s \in Streams /\ s.on = q.on /\ ~s.half /\ s.pid = q.pid /\ s.next = n
BY DEF Streams

LEMMA PhoneFields ==
    ASSUME LogTyped
    PROVE  /\ device.clock \in Nat /\ device.boot \in Nat /\ device.up \in BOOLEAN /\ device.app \in {0, 1, 2}
           /\ stream.on \in BOOLEAN /\ stream.half \in BOOLEAN /\ stream.pid \in {0, 1, 2} /\ stream.next \in Nat \ {0}
           /\ held \in Nat \ {0} /\ Len(log) \in Nat
BY DEF LogTyped, Phones, Streams

LEMMA NewPhone ==
    ASSUME NEW q \in Phones, NEW s
    PROVE  /\ s = [q EXCEPT !.clock = @ + 1]
                => s \in Phones /\ s.clock = q.clock + 1 /\ s.boot = q.boot /\ s.up = q.up /\ s.drops = q.drops
           /\ s = [q EXCEPT !.app = IF @ = 1 THEN 0 ELSE 2]
                => s \in Phones /\ s.clock = q.clock /\ s.boot = q.boot /\ s.up = q.up /\ s.drops = q.drops
           /\ s = [q EXCEPT !.up = TRUE]
                => s \in Phones /\ s.clock = q.clock /\ s.boot = q.boot /\ s.up /\ s.drops = q.drops
           /\ s = [q EXCEPT !.drops = @ + 1]
                => s \in Phones /\ s.clock = q.clock /\ s.boot = q.boot /\ s.up = q.up /\ s.drops = q.drops + 1
<1>1. /\ q.clock \in Nat /\ q.boot \in Nat /\ q.up \in BOOLEAN /\ q.app \in {0, 1, 2} /\ q.drops \in Nat
      /\ q = [clock |-> q.clock, boot |-> q.boot, up |-> q.up, app |-> q.app, drops |-> q.drops]
    BY DEF Phones
<1>2. s = [q EXCEPT !.clock = @ + 1]
        => s \in Phones /\ s.clock = q.clock + 1 /\ s.boot = q.boot /\ s.up = q.up /\ s.drops = q.drops
    BY <1>1 DEF Phones
<1>3. s = [q EXCEPT !.app = IF @ = 1 THEN 0 ELSE 2]
        => s \in Phones /\ s.clock = q.clock /\ s.boot = q.boot /\ s.up = q.up /\ s.drops = q.drops
    <2>1. PICK a \in {0, 2} : a = IF q.app = 1 THEN 0 ELSE 2
        OBVIOUS
    <2>2. [q EXCEPT !.app = IF @ = 1 THEN 0 ELSE 2] = [q EXCEPT !.app = a]
        BY <2>1
    <2> QED BY <1>1, <2>2 DEF Phones
<1>4. s = [q EXCEPT !.up = TRUE]
        => s \in Phones /\ s.clock = q.clock /\ s.boot = q.boot /\ s.up /\ s.drops = q.drops
    BY <1>1 DEF Phones
<1>5. s = [q EXCEPT !.drops = @ + 1]
        => s \in Phones /\ s.clock = q.clock /\ s.boot = q.boot /\ s.up = q.up /\ s.drops = q.drops + 1
    BY <1>1 DEF Phones
<1> QED BY <1>2, <1>3, <1>4, <1>5

LEMMA NewBoot ==
    ASSUME NEW q \in Phones, NEW c \in Nat, NEW s,
           s = [q EXCEPT !.boot = q.boot + 1, !.up = FALSE, !.app = 0, !.clock = c]
    PROVE  s \in Phones /\ s.clock = c /\ s.boot = q.boot + 1 /\ s.drops = q.drops
<1>1. PICK m \in Nat : m = q.boot + 1
    BY DEF Phones
<1>2. s = [q EXCEPT !.boot = m, !.up = FALSE, !.app = 0, !.clock = c]
    BY <1>1
<1>3. s \in Phones /\ s.clock = c /\ s.boot = m /\ s.drops = q.drops
    BY <1>2 DEF Phones
<1> QED BY <1>1, <1>3

(* What a step does to the device.                                           *)
LEMMA DeviceMoves ==
    ASSUME LogTyped
    PROVE  /\ device \in Phones /\ device.clock \in Nat /\ device.boot \in Nat /\ device.drops \in Nat
           /\ TickClocks => /\ device' \in Phones /\ device'.clock = device.clock + 1
                            /\ device'.boot = device.boot /\ device'.up = device.up /\ device'.drops = device.drops
           /\ AppRestarts \/ BootDone => /\ device' \in Phones /\ device'.clock = device.clock
                                         /\ device'.boot = device.boot /\ device'.drops = device.drops
                                         /\ device.up => device'.up
           /\ Drop => /\ device' \in Phones /\ device'.clock = device.clock /\ device'.boot = device.boot
                      /\ device'.up = device.up
                      /\ (device'.drops = device.drops /\ ~device.up) \/ device'.drops > 0
           /\ Reboot => /\ device' \in Phones /\ device'.clock \in {0, device.clock}
                        /\ device'.boot = device.boot + 1 /\ device'.drops = device.drops
<1>1. device \in Phones /\ device.clock \in Nat /\ device.boot \in Nat /\ device.drops \in Nat
    BY DEF LogTyped, Phones
<1>2. TickClocks => /\ device' \in Phones /\ device'.clock = device.clock + 1
                    /\ device'.boot = device.boot /\ device'.up = device.up /\ device'.drops = device.drops
    <2>1. TickClocks => device' = [device EXCEPT !.clock = @ + 1]
        BY DEF TickClocks
    <2> QED BY <1>1, <2>1, NewPhone
<1>3. AppRestarts \/ BootDone => /\ device' \in Phones /\ device'.clock = device.clock
                                 /\ device'.boot = device.boot /\ device'.drops = device.drops
                                 /\ device.up => device'.up
    <2>1. AppRestarts => device' = [device EXCEPT !.app = IF @ = 1 THEN 0 ELSE 2]
        BY DEF AppRestarts
    <2>2. BootDone => device' = [device EXCEPT !.up = TRUE]
        BY DEF BootDone
    <2> QED BY <1>1, <2>1, <2>2, NewPhone
<1>4. Drop => /\ device' \in Phones /\ device'.clock = device.clock /\ device'.boot = device.boot
              /\ device'.up = device.up
              /\ (device'.drops = device.drops /\ ~device.up) \/ device'.drops > 0
    <2>1. Drop => (device' = device /\ ~device.up) \/ device' = [device EXCEPT !.drops = @ + 1]
        BY DEF Drop
    <2> QED BY <1>1, <2>1, NewPhone
<1>5. ASSUME Reboot
      PROVE  /\ device' \in Phones /\ device'.clock \in {0, device.clock}
             /\ device'.boot = device.boot + 1 /\ device'.drops = device.drops
    <2>1. PICK c \in {0, device.clock} :
              device' = [device EXCEPT !.boot = device.boot + 1, !.up = FALSE, !.app = 0, !.clock = c]
        BY <1>5 DEF Reboot
    <2>2. c \in Nat
        BY <1>1
    <2> QED BY <1>1, <2>1, <2>2, NewBoot
<1> QED BY <1>1, <1>2, <1>3, <1>4, <1>5

LEMMA LogInvInit == LogInit => LogInv
<1> SUFFICES ASSUME LogInit PROVE LogInv
    OBVIOUS
<1> USE HilogAssumption DEF LogInit
<1>0. PICK e : e = [boot |-> 0, at |-> CallTime - Lookback - 1, pid |-> 1, match |-> TRUE]
    OBVIOUS
<1>1. log \in {<<>>, <<e>>} /\ e \in Entry /\ e.boot = 0
    BY <1>0 DEF Entry
<1>6. log \in Seq(Entry) /\ Len(log) \in {0, 1} /\ \A i \in DOMAIN log : log[i] = e
    <2>1. CASE log = <<>>
        BY <2>1
    <2>2. CASE log = <<e>>
        BY <1>1, <2>2
    <2> QED BY <1>1, <2>1, <2>2
<1>2. LogTyped
    BY <1>6, NoStreamTyped DEF LogTyped, Anything, Never, Phones
<1>3. StreamInv /\ ClockInv /\ FoundIsRecent
    BY DEF StreamInv, ClockInv, Unreset, FoundIsRecent, NoStream, Anything, Never
<1>4. HeldInv
    BY <1>1, <1>6 DEF HeldInv
<1>5. CaptureInv
    BY DEF CaptureInv, NoStream
<1> QED BY <1>2, <1>3, <1>4, <1>5 DEF LogInv

(* What a stream gives next is a line of the log.                            *)
LEMMA DataReads ==
    ASSUME LogTyped, Data
    PROVE  /\ NextLine \in Nat \ {0} /\ NextLine + 1 \in Nat \ {0}
           /\ stream.on /\ NextLine \in stream.next..Len(log) /\ NextLine \in DOMAIN log
           /\ UNCHANGED <<job, since, readIn, elapsed, log, held, device>>
           /\ \/ /\ ~stream.half /\ buf' = Append(buf, NextLine) /\ UNCHANGED <<got, lpc, ended>>
                 /\ stream' \in Streams /\ stream'.on /\ stream'.half
                 /\ stream'.pid = stream.pid /\ stream'.next = NextLine
              \/ /\ ReadLine(IF stream.half THEN buf ELSE Append(buf, NextLine))
                 /\ \/ /\ ended' = "no" /\ stream' \in Streams /\ stream'.on /\ ~stream'.half
                       /\ stream'.pid = stream.pid /\ stream'.next = NextLine + 1
                    \/ ended' # "no" /\ stream' = NoStream
<1>1. NextLine >= stream.next
    BY DEF Data, NextLine
<1>2. NextLine \in stream.next..Len(log) /\ NextLine \in DOMAIN log
    BY <1>1, NextLineIsFirst
<1>3. NextLine \in Nat \ {0} /\ NextLine + 1 \in Nat \ {0} /\ stream \in Streams
    BY <1>2, PhoneFields DEF LogTyped
<1>4. ASSUME NEW s, s = [stream EXCEPT !.half = TRUE, !.next = NextLine]
      PROVE  s \in Streams /\ s.on = stream.on /\ s.half /\ s.pid = stream.pid /\ s.next = NextLine
    BY <1>3, <1>4 DEF Streams
<1>5. ASSUME NEW s, s = [stream EXCEPT !.half = FALSE, !.next = NextLine + 1]
      PROVE  s \in Streams /\ s.on = stream.on /\ ~s.half /\ s.pid = stream.pid /\ s.next = NextLine + 1
    BY <1>3, <1>5, ReadStream
<1>6. /\ stream.on /\ UNCHANGED <<job, since, readIn, elapsed, log, held, device>>
      /\ \/ /\ ~stream.half /\ buf' = Append(buf, NextLine)
            /\ stream' = [stream EXCEPT !.half = TRUE, !.next = NextLine] /\ UNCHANGED <<got, lpc, ended>>
         \/ /\ ReadLine(IF stream.half THEN buf ELSE Append(buf, NextLine))
            /\ stream' = IF ended' = "no" THEN [stream EXCEPT !.half = FALSE, !.next = NextLine + 1] ELSE NoStream
    BY DEF Data, NextLine
<1>7. CASE /\ ~stream.half /\ buf' = Append(buf, NextLine)
           /\ stream' = [stream EXCEPT !.half = TRUE, !.next = NextLine] /\ UNCHANGED <<got, lpc, ended>>
    BY <1>2, <1>3, <1>4, <1>6, <1>7
<1>8. CASE /\ ReadLine(IF stream.half THEN buf ELSE Append(buf, NextLine))
           /\ stream' = IF ended' = "no" THEN [stream EXCEPT !.half = FALSE, !.next = NextLine + 1] ELSE NoStream
    BY <1>2, <1>3, <1>5, <1>6, <1>8
<1> QED BY <1>6, <1>7, <1>8

(* How a stream starts.                                                      *)
LEMMA StreamStarts ==
    ASSUME LogTyped, LookUp \/ SpawnCapture
    PROVE  /\ UNCHANGED <<job, since, readIn, elapsed, log, held, device>>
           /\ \/ UNCHANGED stream
              \/ stream' = NoStream
              \/ /\ stream' \in Streams /\ stream'.on /\ ~stream'.half /\ stream'.next = held
                 /\ SpawnCapture => stream'.pid = 0
                 /\ ended = "no" /\ lpc' = "read" /\ UNCHANGED <<ended, got, buf>>
<1>1. CASE LookUp
    <2>1. PICK p \in {0, 1, 2} : p = IF device.up THEN device.app ELSE 0
        BY PhoneFields
    <2>2. CASE ended # "no"
        BY <1>1, <2>2 DEF LookUp, SpawnCapture
    <2>3. CASE ended = "no" /\ stream' = [NoStream EXCEPT !.on = TRUE, !.next = held, !.pid = p] /\ lpc' = "read"
        <3>1. /\ UNCHANGED <<job, since, readIn, elapsed, log, held, device, ended, got, buf>>
              /\ lpc = "lookup" /\ held \in Nat \ {0}
            BY <1>1, <2>3, PhoneFields DEF LookUp
        <3>2. stream' \in Streams /\ stream'.on /\ ~stream'.half /\ stream'.next = held
            BY <2>3, <3>1, NewStream
        <3> QED BY <2>3, <3>1, <3>2 DEF SpawnCapture
    <2>4. CASE ended = "no" /\ UNCHANGED stream
        BY <1>1, <2>4 DEF LookUp, SpawnCapture
    <2> QED BY <1>1, <2>1, <2>2, <2>3, <2>4 DEF LookUp
<1>2. CASE SpawnCapture
    BY <1>2, PhoneFields, NewCapture DEF SpawnCapture, Settle
<1> QED BY <1>1, <1>2


LEMMA LogTypedStep ==
    ASSUME LogTyped, StreamInv, [LogNext]_logVars
    PROVE  LogTyped'
<1> USE HilogAssumption DEF LogTyped
<1>1. CASE LogLine
    <2>1. PICK e : e \in Entry /\ log' = Append(log, e)
        <3>1. \A pid \in {0, 1, 2, 9}, match \in BOOLEAN : Line(pid, match, device.clock) \in Entry
            BY PhoneFields DEF Line, Entry
        <3> QED BY <1>1, <3>1, PhoneFields DEF LogLine
    <2> QED BY <1>1, <2>1, PhoneFields DEF LogLine, Device
<1>2. CASE TickClocks
    <2>1. device' \in Phones
        BY <1>2, DeviceMoves
    <2>2. elapsed' \in 0..Deadline /\ elapsed \in Int
        BY <1>2 DEF TickClocks
    <2> QED BY <1>2, <2>1, <2>2 DEF TickClocks
<1>3. CASE AppRestarts
    BY <1>3, DeviceMoves DEF AppRestarts, Device
<1>4. CASE BootDone
    BY <1>4, DeviceMoves DEF BootDone, Device
<1>5. CASE Reboot
    <2>1. device' \in Phones /\ Len(log) \in Nat
        BY <1>5, DeviceMoves, PhoneFields
    <2>2. held' \in 1..Len(log) + 1 /\ log' = log
        BY <1>5, <2>1 DEF Reboot, StreamEnds
    <2> QED BY <1>5, <2>1, <2>2, NoStreamTyped DEF Reboot, StreamEnds
<1>6. CASE Drop
    BY <1>6, DeviceMoves, NoStreamTyped DEF Drop, StreamEnds
<1>7. CASE ReadClock
    BY <1>7, PhoneFields DEF ReadClock, Anything
<1>8. CASE RereadClock
    BY <1>8, PhoneFields DEF RereadClock, Anything
<1>9. CASE LookUp
    <2>1. stream' \in Streams
        BY <1>9, StreamStarts, NoStreamTyped
    <2> QED BY <1>9, <2>1 DEF LookUp
<1>10. CASE SpawnCapture
    <2>1. stream' \in Streams
        BY <1>10, StreamStarts, NoStreamTyped
    <2>2. buf # <<>> => Append(got, buf) \in Seq(Seq(Nat))
        OBVIOUS
    <2>3. got' \in Seq(Seq(Nat)) /\ buf' \in Seq(Nat) /\ lpc' \in {lpc, "read", "off"} /\ ended' \in {ended, "failed"}
        <3>1. CASE Settle("failed", got)
            BY <1>10, <2>2, <3>1 DEF SpawnCapture, Settle
        <3>2. CASE lpc' = "read" /\ UNCHANGED <<ended, got, buf>>
            BY <3>2
        <3> QED BY <1>10, <3>1, <3>2 DEF SpawnCapture
    <2>4. UNCHANGED <<job, since, readIn, elapsed, log, held, device>>
        BY <1>10 DEF SpawnCapture
    <2> QED BY <2>1, <2>3, <2>4
<1>11. CASE PauseEnds
    BY <1>11, PhoneFields DEF PauseEnds
<1>12. CASE Data
    <2>1. NextLine \in Nat \ {0} /\ NextLine + 1 \in Nat \ {0}
        BY <1>12, DataReads
    <2>2. stream' \in Streams
        BY <1>12, DataReads, NoStreamTyped
    <2>3. PICK b : b = Append(buf, NextLine)
        OBVIOUS
    <2>4. b \in Seq(Nat) /\ Append(got, b) \in Seq(Seq(Nat)) /\ Append(got, buf) \in Seq(Seq(Nat)) /\ <<>> \in Seq(Nat)
        BY <2>1, <2>3
    <2>5. got' \in Seq(Seq(Nat)) /\ buf' \in Seq(Nat) /\ lpc' \in {lpc, "off"} /\ ended' \in {ended, "found"}
        <3>1. PICK c \in Seq(Nat) : c = IF stream.half THEN buf ELSE Append(buf, NextLine)
            BY <2>3, <2>4
        <3>2. Append(got, c) \in Seq(Seq(Nat))
            OBVIOUS
        <3>3. \/ buf' = b /\ UNCHANGED <<got, lpc, ended>>
              \/ ReadLine(c)
            BY <1>12, <2>3, <3>1, DataReads
        <3> QED BY <2>4, <3>2, <3>3 DEF ReadLine
    <2>6. UNCHANGED <<job, since, readIn, elapsed, log, held, device>>
        BY <1>12, DataReads
    <2> QED BY <2>2, <2>5, <2>6
<1>13. CASE TimerFires
    BY <1>13, NoStreamTyped DEF TimerFires, Settle
<1>14. CASE Abort
    BY <1>14, NoStreamTyped DEF Abort, Settle
<1>15. CASE UNCHANGED logVars
    BY <1>15 DEF logVars
<1> QED BY <1>1, <1>2, <1>3, <1>4, <1>5, <1>6, <1>7, <1>8, <1>9, <1>10, <1>11, <1>12, <1>13, <1>14, <1>15 DEF LogNext
(* No step but these starts, reads or ends a stream.                         *)
LEMMA StreamStep ==
    ASSUME LogTyped, StreamInv, [LogNext]_logVars
    PROVE  StreamInv'
<1>1. CASE LogLine
    <2>1. Len(log) \in Nat /\ Len(log') = Len(log) + 1 /\ stream.next \in Nat /\ UNCHANGED <<job, lpc, ended, stream, buf, held>>
        BY <1>1, PhoneFields DEF LogLine, Device, LogTyped
    <2> QED BY <2>1 DEF StreamInv
<1>2. CASE TickClocks \/ AppRestarts \/ BootDone \/ UNCHANGED logVars
    <2>1. UNCHANGED <<job, lpc, ended, stream, buf, log, held>>
        BY <1>2 DEF TickClocks, AppRestarts, BootDone, Device, logVars
    <2> QED BY <2>1 DEF StreamInv
<1>3. CASE ReadClock \/ RereadClock \/ PauseEnds
    <2>1. /\ UNCHANGED <<job, ended, stream, buf, log, held>>
          /\ lpc \in {"clock", "reread", "pause"} /\ lpc' \in {"lookup", "spawn", "reread"}
          /\ job = "capture" => lpc \notin {"clock", "reread"}
          /\ lpc' = "spawn" <=> job = "capture" /\ lpc = "pause"
        BY <1>3 DEF ReadClock, RereadClock, PauseEnds, StreamInv
    <2> QED BY <1>3, <2>1 DEF StreamInv
<1>4. CASE Drop \/ Reboot
    <2>1. /\ stream' = NoStream /\ UNCHANGED <<job, ended>>
          /\ lpc' \in {lpc, "off", "pause"}
          /\ ended = "found" => lpc' = "off"
          /\ lpc' = "spawn" => lpc = "spawn"
        BY <1>4 DEF Drop, Reboot, StreamEnds, StreamInv
    <2> QED BY <2>1, NoStreamTyped DEF StreamInv
<1>5. CASE TimerFires \/ Abort
    <2>1. /\ stream' = NoStream /\ job' = job /\ lpc' \in {lpc, "off"} /\ ended' # "found"
        BY <1>5 DEF TimerFires, Abort, Settle
    <2> QED BY <2>1, NoStreamTyped DEF StreamInv
<1>6. CASE LookUp \/ SpawnCapture
    <2>1. /\ UNCHANGED <<job, log, held>> /\ lpc \in {"lookup", "spawn"} /\ ~stream.on /\ ~stream.half
          /\ job = "capture" <=> lpc = "spawn"
        BY <1>6, StreamStarts DEF LookUp, SpawnCapture, StreamInv
    <2>2. CASE UNCHANGED stream \/ stream' = NoStream
        <3>1. ~stream'.on /\ ~stream'.half /\ (job = "capture" => stream'.pid = 0)
            BY <2>1, <2>2, NoStreamTyped DEF StreamInv
        <3>2. lpc' \in {"off", "spawn", "read"} /\ (lpc' = "spawn" => job = "capture") /\ ended' # "found"
            BY <1>6, <2>1 DEF LookUp, SpawnCapture, Settle, StreamInv
        <3> QED BY <2>1, <3>1, <3>2 DEF StreamInv
    <2>3. CASE /\ stream' \in Streams /\ stream'.on /\ ~stream'.half /\ stream'.next = held
               /\ SpawnCapture => stream'.pid = 0
               /\ ended = "no" /\ lpc' = "read" /\ UNCHANGED <<ended, got, buf>>
        <3>1. job = "capture" => SpawnCapture
            BY <1>6, <2>1 DEF LookUp
        <3> QED BY <2>1, <2>3, <3>1, PhoneFields DEF StreamInv
    <2> QED BY <1>6, <2>2, <2>3, StreamStarts
<1>7. CASE Data
    <2>1. /\ NextLine \in Nat /\ held \in Nat /\ stream.next \in Nat /\ Len(log) \in Nat /\ buf \in Seq(Nat)
          /\ stream.on /\ stream.next <= NextLine /\ NextLine <= Len(log)
          /\ UNCHANGED <<job, log, held>> /\ lpc = "read" /\ ended = "no" /\ stream.next >= held
        BY <1>7, DataReads, PhoneFields DEF StreamInv, LogTyped
    <2>2. CASE /\ ~stream.half /\ buf' = Append(buf, NextLine) /\ UNCHANGED <<got, lpc, ended>>
               /\ stream' \in Streams /\ stream'.on /\ stream'.half
               /\ stream'.pid = stream.pid /\ stream'.next = NextLine
        <3>1. Len(buf') > 0 /\ buf'[Len(buf')] = NextLine
            BY <2>1, <2>2
        <3> QED BY <2>1, <2>2, <3>1 DEF StreamInv
    <2>3. CASE /\ ReadLine(IF stream.half THEN buf ELSE Append(buf, NextLine))
               /\ \/ /\ ended' = "no" /\ stream' \in Streams /\ stream'.on /\ ~stream'.half
                     /\ stream'.pid = stream.pid /\ stream'.next = NextLine + 1
                  \/ ended' # "no" /\ stream' = NoStream
        <3>1. ended' \in {"no", "found"} /\ lpc' = (IF ended' = "no" THEN "read" ELSE "off")
              /\ (job = "capture" => ended' = "no")
            BY <2>1, <2>3 DEF ReadLine
        <3> QED BY <2>1, <2>3, <3>1, NoStreamTyped DEF StreamInv
    <2> QED BY <1>7, <2>2, <2>3, DataReads
<1> QED BY <1>1, <1>2, <1>3, <1>4, <1>5, <1>6, <1>7 DEF LogNext

LEMMA ClockStep ==
    ASSUME LogTyped, ClockInv, [LogNext]_logVars
    PROVE  ClockInv'
<1> USE HilogAssumption
<1>0. /\ device.clock \in Nat /\ device.boot \in Nat /\ elapsed \in 0..Deadline /\ elapsed \in Nat /\ since \in Int
      /\ readIn \in Nat \cup {Never} /\ Never = -1 /\ Anything = -(Deadline + Lookback) - 1
    BY DeviceMoves DEF LogTyped, Never, Anything
<1>1. CASE TickClocks
    <2>1. /\ device'.clock = device.clock + 1 /\ device'.boot = device.boot /\ device'.up = device.up
          /\ elapsed' = elapsed + 1 /\ UNCHANGED <<lpc, since, readIn>>
        BY <1>1, DeviceMoves DEF TickClocks
    <2>2. Unreset' <=> Unreset
        BY <1>0, <2>1 DEF Unreset
    <2> QED BY <1>0, <2>1, <2>2 DEF ClockInv
<1>2. CASE Reboot
    <2>1. /\ device'.clock \in {0, device.clock} /\ device'.boot = device.boot + 1
          /\ UNCHANGED <<elapsed, since, readIn>> /\ (lpc' = "clock" => lpc = "clock")
        BY <1>2, DeviceMoves DEF Reboot, StreamEnds
    <2>2. readIn' # device'.boot
        BY <1>0, <2>1 DEF ClockInv
    <2> QED BY <1>0, <2>1, <2>2 DEF ClockInv, Unreset
<1>3. CASE ReadClock
    <2>1. UNCHANGED <<device, elapsed>> /\ lpc' # "clock" /\ readIn = Never
        BY <1>3 DEF ReadClock, ClockInv
    <2>2. CASE since' = device.clock - elapsed - Lookback /\ readIn' = device.boot
        <3>1. CASE Unreset
            <4>1. since' = CallTime - Lookback
                BY <1>0, <2>2, <3>1 DEF Unreset
            <4> QED BY <1>0, <2>1, <2>2, <3>1, <4>1 DEF ClockInv, Unreset
        <3>2. CASE device.boot > 0 /\ device.clock <= elapsed
            <4>1. since' <= 0 /\ since' # CallTime - Lookback
                BY <1>0, <2>2, <3>2
            <4> QED BY <1>0, <2>1, <2>2, <3>2, <4>1 DEF ClockInv, Unreset
        <3> QED BY <3>1, <3>2 DEF ClockInv
    <2>3. CASE since' = Anything /\ UNCHANGED readIn
        BY <1>0, <2>1, <2>3 DEF ClockInv, Unreset
    <2> QED BY <1>3, <2>2, <2>3 DEF ReadClock
<1>4. CASE RereadClock
    <2>1. /\ UNCHANGED <<device, elapsed>> /\ lpc' # "clock"
          /\ \/ UNCHANGED <<since, readIn>>
             \/ /\ since # Anything /\ readIn' = device.boot
                /\ since' = (IF device.clock < since THEN Anything ELSE since)
        BY <1>4 DEF RereadClock
    <2>2. CASE UNCHANGED <<since, readIn>>
        BY <2>1, <2>2 DEF ClockInv, Unreset
    <2>3. CASE /\ since # Anything /\ readIn' = device.boot
               /\ since' = (IF device.clock < since THEN Anything ELSE since)
        <3>1. since' = since => device.clock >= since \/ since = Anything
            BY <1>0, <2>3
        <3>2. CASE Unreset
            <4>1. device.boot = 0 => since' = CallTime - Lookback
                <5>1. device.boot = 0 => since = CallTime - Lookback
                    BY <1>0, <2>3 DEF ClockInv
                <5>2. device.clock >= CallTime - Lookback
                    BY <1>0, <3>2 DEF Unreset
                <5> QED BY <1>0, <2>3, <5>1, <5>2
            <4> QED BY <1>0, <2>1, <2>3, <3>2, <4>1 DEF ClockInv, Unreset
        <3>3. CASE ~Unreset /\ device.boot > 0 /\ device.clock <= elapsed
            <4>1. since' # CallTime - Lookback
                BY <1>0, <2>3, <3>3
            <4> QED BY <1>0, <2>1, <2>3, <3>3, <4>1 DEF ClockInv, Unreset
        <3> QED BY <3>2, <3>3 DEF ClockInv
    <2> QED BY <2>1, <2>2, <2>3
<1>5. CASE AppRestarts \/ BootDone \/ Drop
    <2>1. /\ device'.clock = device.clock /\ device'.boot = device.boot /\ (device.up => device'.up)
          /\ UNCHANGED <<elapsed, since, readIn>> /\ (lpc' = "clock" => lpc = "clock")
        BY <1>5, DeviceMoves DEF AppRestarts, BootDone, Drop, Device, StreamEnds
    <2> QED BY <2>1 DEF ClockInv, Unreset
<1>6. CASE LogLine \/ LookUp \/ SpawnCapture \/ PauseEnds \/ Data \/ TimerFires \/ Abort \/ UNCHANGED logVars
    <2>1. UNCHANGED <<device, elapsed, since, readIn>> /\ (lpc' = "clock" => lpc = "clock")
        BY <1>6 DEF ReadLine, Settle, LogLine, Device, LookUp, SpawnCapture, PauseEnds, Data, TimerFires, Abort, logVars
    <2> QED BY <2>1 DEF ClockInv, Unreset
<1> QED BY <1>1, <1>2, <1>3, <1>4, <1>5, <1>6 DEF LogNext

LEMMA HeldStep ==
    ASSUME LogTyped, ClockInv, HeldInv, [LogNext]_logVars
    PROVE  HeldInv'
<1> USE HilogAssumption
<1>0. /\ device.clock \in Nat /\ device.boot \in Nat /\ elapsed \in Nat
    BY DeviceMoves DEF LogTyped
<1>a. /\ held \in Nat /\ Len(log) \in Nat
      /\ log \in Seq(Entry) /\ \A i \in DOMAIN log : log[i].boot \in Nat /\ log[i].at \in Nat /\ i \in Nat
    <2>1. log \in Seq(Entry) /\ held \in Nat /\ Len(log) \in Nat
        BY PhoneFields DEF LogTyped
    <2>2. ASSUME NEW i \in DOMAIN log
          PROVE  log[i].boot \in Nat /\ log[i].at \in Nat /\ i \in Nat
        <3>1. log[i] \in Entry /\ i \in Nat
            BY <2>1
        <3> QED BY <3>1 DEF Entry
    <2> QED BY <2>1, <2>2
<1>1. CASE LogLine
    <2>1. PICK pid \in {9, device.app} \ {0}, match \in BOOLEAN : log' = Append(log, Line(pid, match, device.clock))
        BY <1>1 DEF LogLine
    <2>2. PICK e : e = Line(pid, match, device.clock)
        OBVIOUS
    <2>3. e.boot = device.boot /\ e.at = device.clock
        BY <2>2 DEF Line
    <2>4. UNCHANGED <<device, elapsed, held>>
        BY <1>1 DEF LogLine, Device
    <2>5. \A i \in DOMAIN log' : (i \in DOMAIN log /\ log'[i] = log[i]) \/ log'[i] = e
        BY <1>a, <2>1, <2>2
    <2>6. Unreset => device.clock >= CallTime
        BY <1>0 DEF Unreset
    <2>7. Unreset' <=> Unreset
        BY <2>4 DEF Unreset
    <2> QED BY <1>0, <1>a, <2>3, <2>4, <2>5, <2>6, <2>7 DEF HeldInv
<1>2. CASE Reboot
    <2>1. /\ device'.boot = device.boot + 1 /\ log' = log /\ held' = Len(log) + 1
        BY <1>2, DeviceMoves DEF Reboot, StreamEnds
    <2>2. \A i \in DOMAIN log : ~(i >= held')
        BY <1>a, <2>1
    <2> QED BY <1>0, <1>a, <2>1, <2>2 DEF HeldInv
<1>3. CASE TickClocks
    <2>1. /\ device'.clock = device.clock + 1 /\ device'.boot = device.boot
          /\ elapsed' = elapsed + 1 /\ UNCHANGED <<log, held>>
        BY <1>3, DeviceMoves DEF TickClocks
    <2>2. Unreset' <=> Unreset
        BY <1>0, <2>1 DEF Unreset
    <2> QED BY <2>1, <2>2 DEF HeldInv
<1>4. CASE \/ AppRestarts \/ BootDone \/ Drop \/ ReadClock \/ RereadClock \/ LookUp \/ SpawnCapture
           \/ PauseEnds \/ Data \/ TimerFires \/ Abort \/ UNCHANGED logVars
    <2>1. /\ device'.clock = device.clock /\ device'.boot = device.boot /\ UNCHANGED <<elapsed, log, held>>
        BY <1>4, DeviceMoves DEF AppRestarts, BootDone, Drop, Device, StreamEnds, ReadClock, RereadClock, LookUp,
                              SpawnCapture, PauseEnds, Data, TimerFires, Abort, logVars
    <2> QED BY <2>1 DEF HeldInv, Unreset
<1> QED BY <1>1, <1>2, <1>3, <1>4 DEF LogNext

LEMMA OneMore ==
    ASSUME NEW h \in Nat, NEW s \in Seq(Seq(Nat)), s = [k \in DOMAIN s |-> <<h + k - 1>>],
           NEW x \in Nat, x = h + Len(s), NEW t, t = Append(s, <<x>>)
    PROVE  t = [k \in DOMAIN t |-> <<h + k - 1>>] /\ Len(t) = Len(s) + 1
<1>1. /\ <<x>> \in Seq(Nat) /\ t \in Seq(Seq(Nat)) /\ Len(t) = Len(s) + 1 /\ Len(s) \in Nat
      /\ DOMAIN t = 1..Len(s) + 1 /\ DOMAIN s = 1..Len(s)
      /\ \A k \in 1..Len(s) : t[k] = s[k]
      /\ t[Len(s) + 1] = <<x>>
    OBVIOUS
<1>2. \A k \in DOMAIN t : t[k] = <<h + k - 1>>
    <2> TAKE k \in DOMAIN t
    <2>1. CASE k \in 1..Len(s)
        BY <1>1, <2>1
    <2>2. CASE k = Len(s) + 1
        <3>1. x = h + k - 1
            BY <1>1, <2>2
        <3> QED BY <1>1, <2>2, <3>1
    <2> QED BY <1>1, <2>1, <2>2
<1> QED BY <1>1, <1>2

(* A capture that was never interrupted goes on line by line.                *)
LEMMA CaptureStep ==
    ASSUME LogTyped, StreamInv, ClockInv, CaptureInv, [LogNext]_logVars
    PROVE  CaptureInv'
<1>0. SUFFICES ASSUME job' = "capture", device'.boot = 0, device'.drops = 0
      PROVE  /\ got' = [k \in DOMAIN got' |-> <<held' + k - 1>>]
             /\ stream'.on => /\ stream'.next = held' + Len(got')
                              /\ buf' = IF stream'.half THEN <<stream'.next>> ELSE <<>>
             /\ ~stream'.on => /\ lpc' \in {"spawn", "off"} /\ buf' = <<>>
                               /\ lpc' = "spawn" /\ ended' = "no" => got' = <<>>
    BY DEF CaptureInv
<1>a. job = "capture" /\ device.boot = 0 /\ device.drops = 0
    <2>1. job' = job
        BY DEF LogNext, logVars, LogLine, TickClocks, AppRestarts, BootDone, Reboot, Drop, Device, StreamEnds, ReadClock,
               RereadClock, LookUp, SpawnCapture, PauseEnds, Data, TimerFires, Abort
    <2>2. CASE Reboot
        BY <1>0, <2>2, DeviceMoves
    <2>3. CASE Drop
        BY <1>0, <2>3, DeviceMoves DEF ClockInv
    <2>4. CASE TickClocks \/ AppRestarts \/ BootDone
        BY <1>0, <2>1, <2>4, DeviceMoves
    <2>5. CASE LogLine \/ ReadClock \/ RereadClock \/ LookUp \/ SpawnCapture \/ PauseEnds \/ Data \/ TimerFires \/ Abort
               \/ UNCHANGED logVars
        <3>1. device' = device
            BY <2>5 DEF LogLine, ReadClock, RereadClock, LookUp, SpawnCapture, PauseEnds, Data, TimerFires, Abort, logVars
        <3> QED BY <1>0, <2>1, <3>1
    <2> QED BY <2>2, <2>3, <2>4, <2>5 DEF LogNext
<1>b. /\ got = [k \in DOMAIN got |-> <<held + k - 1>>]
      /\ stream.on => /\ stream.next = held + Len(got)
                      /\ buf = IF stream.half THEN <<stream.next>> ELSE <<>>
      /\ ~stream.on => /\ lpc \in {"spawn", "off"} /\ buf = <<>>
                       /\ lpc = "spawn" /\ ended = "no" => got = <<>>
    BY <1>a DEF CaptureInv
<1>c. /\ got \in Seq(Seq(Nat)) /\ buf \in Seq(Nat) /\ held \in Nat /\ stream.next \in Nat /\ stream.pid = 0
      /\ stream.on => lpc = "read" /\ ended = "no"
      /\ lpc \in {"spawn", "read", "off"} /\ (lpc = "read" => stream.on)
    BY <1>a, <1>b, PhoneFields DEF LogTyped, StreamInv
<1>1. CASE LogLine \/ TickClocks \/ AppRestarts \/ BootDone \/ UNCHANGED logVars
    <2>1. UNCHANGED <<lpc, ended, got, stream, buf, held>>
        BY <1>1 DEF LogLine, TickClocks, AppRestarts, BootDone, Device, logVars
    <2> QED BY <1>b, <2>1
<1>2. CASE Drop \/ Reboot
    BY <1>0, <1>a, <1>2, DeviceMoves DEF ClockInv
<1>3. CASE ReadClock \/ RereadClock \/ LookUp \/ PauseEnds
    BY <1>c, <1>3 DEF ReadClock, RereadClock, LookUp, PauseEnds
<1>4. CASE SpawnCapture
    <2>1. ~stream.on /\ got = <<>> /\ buf = <<>> /\ held' = held /\ lpc = "spawn"
        BY <1>b, <1>c, <1>4 DEF SpawnCapture
    <2>2. CASE stream' \in Streams /\ stream'.on /\ ~stream'.half /\ stream'.next = held /\ UNCHANGED <<got, buf>>
        BY <1>b, <1>c, <2>1, <2>2
    <2>3. CASE Settle("failed", got)
        <3>1. stream' = NoStream /\ buf' = <<>> /\ got' = got /\ lpc' = "spawn" /\ ended' = "failed"
            BY <2>1, <2>3 DEF Settle
        <3> QED BY <1>b, <2>1, <3>1, NoStreamTyped
    <2>4. SpawnCapture => \/ stream' \in Streams /\ stream'.on /\ ~stream'.half /\ stream'.next = held /\ UNCHANGED <<got, buf>>
                          \/ Settle("failed", got)
        BY PhoneFields, NewCapture DEF SpawnCapture
    <2> QED BY <1>4, <2>2, <2>3, <2>4
<1>5. CASE Data
    <2>1. /\ NextLine = stream.next /\ stream.on /\ held' = held /\ buf = IF stream.half THEN <<stream.next>> ELSE <<>>
          /\ stream.next = held + Len(got)
        <3>1. NextLine >= stream.next
            BY <1>5 DEF Data, NextLine
        <3> QED BY <1>b, <1>c, <1>5, <3>1, DataReads, NextLineIsFirst
    <2>2. Append(<<>>, stream.next) = <<stream.next>>
        OBVIOUS
    <2>3. CASE /\ ~stream.half /\ buf' = Append(buf, NextLine) /\ UNCHANGED <<got, lpc, ended>>
               /\ stream' \in Streams /\ stream'.on /\ stream'.half
               /\ stream'.pid = stream.pid /\ stream'.next = NextLine
        BY <1>b, <2>1, <2>2, <2>3
    <2>4. CASE /\ ReadLine(IF stream.half THEN buf ELSE Append(buf, NextLine))
               /\ \/ /\ ended' = "no" /\ stream' \in Streams /\ stream'.on /\ ~stream'.half
                     /\ stream'.pid = stream.pid /\ stream'.next = NextLine + 1
                  \/ ended' # "no" /\ stream' = NoStream
        <3>1. (IF stream.half THEN buf ELSE Append(buf, NextLine)) = <<stream.next>>
            BY <2>1, <2>2
        <3>2. got' = Append(got, <<stream.next>>) /\ buf' = <<>> /\ ended' = "no" /\ lpc' = lpc
            BY <1>a, <1>c, <2>1, <2>4, <3>1 DEF ReadLine
        <3>3. got' = [k \in DOMAIN got' |-> <<held + k - 1>>] /\ Len(got') = Len(got) + 1
            BY <1>b, <1>c, <2>1, <3>2, OneMore
        <3>4. /\ stream'.on /\ ~stream'.half /\ stream'.next = NextLine + 1
            BY <2>4, <3>2
        <3>5. stream'.next = held + Len(got')
            BY <1>c, <2>1, <3>3, <3>4
        <3> QED BY <2>1, <3>2, <3>3, <3>4, <3>5
    <2> QED BY <1>5, <2>3, <2>4, DataReads
<1>6. CASE TimerFires \/ Abort
    <2>1. /\ stream' = NoStream /\ buf' = <<>> /\ held' = held /\ ended' # "no"
          /\ got' = IF buf # <<>> THEN Append(got, buf) ELSE got
          /\ lpc' = IF lpc = "read" THEN "off" ELSE lpc
        BY <1>a, <1>c, <1>6 DEF TimerFires, Abort, Settle
    <2>2. got' = [k \in DOMAIN got' |-> <<held + k - 1>>]
        <3>1. CASE buf = <<>>
            BY <1>b, <2>1, <3>1
        <3>2. CASE buf # <<>>
            <4>1. buf = <<stream.next>> /\ stream.next = held + Len(got)
                BY <1>b, <3>2
            <4> QED BY <1>b, <1>c, <2>1, <3>2, <4>1, OneMore
        <3> QED BY <3>1, <3>2
    <2> QED BY <1>c, <2>1, <2>2, NoStreamTyped
<1> QED BY <1>1, <1>2, <1>3, <1>4, <1>5, <1>6 DEF LogNext

(* A wait that has found an entry changes no more.                           *)
LEMMA FoundStep ==
    ASSUME LogTyped, StreamInv, ClockInv, HeldInv, FoundIsRecent, [LogNext]_logVars
    PROVE  FoundIsRecent'
<1> USE HilogAssumption
<1>0. SUFFICES ASSUME job' = "wait", ended' = "found", readIn' # Never
      PROVE  \E i \in ToSet(got'[Len(got')]) : LoggedSinceCall(i)'
    BY DEF FoundIsRecent
<1>1. CASE ended = "found"
    <2>1. lpc = "off" /\ ~stream.on
        BY <1>1 DEF StreamInv
    <2>2. UNCHANGED <<job, ended, got, readIn, log>>
        BY <1>1, <2>1 DEF LogNext, logVars, LogLine, TickClocks, AppRestarts, BootDone, Reboot, Drop, Device, StreamEnds,
                          ReadClock, RereadClock, LookUp, SpawnCapture, PauseEnds, Data, TimerFires, Abort
    <2>3. \A i : LoggedSinceCall(i)' <=> LoggedSinceCall(i)
        BY <2>2 DEF LoggedSinceCall
    <2> QED BY <1>0, <1>1, <2>2, <2>3 DEF FoundIsRecent
<1>2. CASE ended # "found"
    <2>1. Data
        BY <1>0, <1>2 DEF LogNext, logVars, LogLine, TickClocks, AppRestarts, BootDone, Reboot, Drop, Device, StreamEnds,
                          ReadClock, RereadClock, LookUp, SpawnCapture, PauseEnds, TimerFires, Abort, Settle
    <2>2. PICK c : c = IF stream.half THEN buf ELSE Append(buf, NextLine)
        OBVIOUS
    <2>3. /\ ReadLine(c) /\ NextLine \in Nat \ {0} /\ UNCHANGED <<job, since, readIn, log, held, device>>
          /\ stream.on /\ NextLine \in stream.next..Len(log) /\ NextLine \in DOMAIN log
        BY <1>0, <1>2, <2>1, <2>2, DataReads
    <2>4. PICK l \in DOMAIN log : /\ c \in Seq(Nat) /\ Len(c) > 0 /\ c[Len(c)] = l /\ l >= stream.next
        <3>1. buf \in Seq(Nat) /\ Len(log) \in Nat /\ log \in Seq(Entry) /\ stream.next \in Nat \ {0}
            BY PhoneFields DEF LogTyped
        <3>2. CASE stream.half
            <4>1. c = buf /\ Len(buf) > 0 /\ buf[Len(buf)] = stream.next /\ stream.next \in DOMAIN log
                BY <2>2, <3>1, <3>2 DEF StreamInv
            <4> QED BY <3>1, <4>1
        <3>3. CASE ~stream.half
            <4>1. c = Append(buf, NextLine)
                BY <2>2, <3>3
            <4>2. c \in Seq(Nat) /\ Len(c) > 0 /\ c[Len(c)] = NextLine /\ NextLine >= stream.next
                BY <2>3, <3>1, <4>1
            <4> QED BY <2>3, <4>2
        <3> QED BY <3>2, <3>3
    <2>5. got' = Append(got, c) /\ Recent(c)
        BY <1>0, <1>2, <2>3 DEF ReadLine
    <2>6. got'[Len(got')] = c /\ ToSet(c) = {c[k] : k \in 1..Len(c)}
        BY <2>4, <2>5 DEF LogTyped, ToSet
    <2>7. \A i : LoggedSinceCall(i)' <=> LoggedSinceCall(i)
        BY <2>3 DEF LoggedSinceCall
    <2>8. CASE device.boot = 0
        <3>1. log[c[1]].at >= CallTime - Lookback
            BY <1>0, <2>3, <2>5, <2>8 DEF ClockInv, Recent
        <3>2. LoggedSinceCall(c[1])'
            BY <2>7, <3>1 DEF LoggedSinceCall
        <3>3. c[1] \in ToSet(got'[Len(got')])
            BY <2>4, <2>6
        <3> QED BY <3>2, <3>3
    <2>9. CASE device.boot > 0
        <3>1. l >= held
            BY <2>3, <2>4, PhoneFields DEF StreamInv
        <3>2. log[l].boot > 0
            BY <2>4, <2>9, <3>1 DEF HeldInv
        <3> QED BY <2>4, <2>6, <2>7, <3>2 DEF LoggedSinceCall
    <2> QED BY <2>8, <2>9, PhoneFields
<1> QED BY <1>1, <1>2

------------------------------------------------------------------------------
LEMMA LogInvIsInvariant == LogSpec => []LogInv
<1>1. LogInv /\ [LogNext]_logVars => LogInv'
    BY LogTypedStep, StreamStep, ClockStep, HeldStep, CaptureStep, FoundStep DEF LogInv
<1> QED BY <1>1, LogInvInit, PTL DEF LogSpec

(* What a log call hands out can be relied on: the entry a wait resolves     *)
(* with was logged since the call, a call that has settled leaves no hilog   *)
(* running, and a capture that was not interrupted has every line once.      *)
THEOREM LogCallsAreSound == LogSpec => []LogIsSound
<1>1. LogInv => LogIsSound
    BY DEF LogInv, LogIsSound, NothingLeftStreaming, CaptureIsGapless, StreamInv, CaptureInv
<1> QED BY <1>1, LogInvIsInvariant, PTL

(* No recent line that matches is passed over.                               *)
THEOREM NoRecentLineIsMissed == LogSpec => RecentIsFound
<1>1. ASSUME LogInv, [LogNext]_logVars, NEW i \in DOMAIN log,
             job # "capture", stream.on, since = Anything \/ readIn = device.boot, buf = <<>>, log[i].match,
             LoggedSinceCall(i), stream.pid \in {0, log[i].pid}, stream.next <= i, stream'.next = i + 1
      PROVE  got' = Append(got, <<i>>)
    <2> USE HilogAssumption
    <2>0. LogTyped /\ StreamInv /\ ClockInv /\ HeldInv
        BY <1>1 DEF LogInv
    <2>1. /\ log \in Seq(Entry) /\ i \in Nat \ {0} /\ i <= Len(log) /\ Len(log) \in Nat /\ stream.next \in Nat \ {0}
          /\ held \in Nat /\ stream.next >= held /\ ~stream.half /\ lpc = "read" /\ ended = "no"
        BY <1>1, <2>0, PhoneFields DEF LogTyped, StreamInv
    <2>2. Data
        <3>1. stream'.next # 1 /\ stream'.next # stream.next
            BY <1>1, <2>1
        <3> QED BY <1>1, <2>1, <3>1, NoStreamTyped DEF LogNext, logVars, LogLine, TickClocks, AppRestarts, BootDone, Reboot,
                      Drop, Device, StreamEnds, ReadClock, RereadClock, LookUp, SpawnCapture, PauseEnds, TimerFires, Abort, Settle
    <2>3. NextLine <= i /\ NextLine \in Nat
        <3>1. NextLine >= stream.next
            BY <2>2 DEF Data, NextLine
        <3>2. Passes(i) /\ i \in stream.next..Len(log)
            BY <1>1, <2>1 DEF Passes
        <3> QED BY <2>0, <2>2, <3>1, <3>2, NextLineIsFirst, DataReads
    <2>4. ReadLine(Append(buf, NextLine)) /\ NextLine = i
        BY <1>1, <2>0, <2>1, <2>2, <2>3, DataReads, NoStreamTyped
    <2>5. Append(buf, NextLine) = <<i>> /\ Len(<<i>>) = 1 /\ <<i>>[1] = i /\ i \in ToSet(<<i>>)
        BY <1>1, <2>4 DEF ToSet
    <2>6. MustMatch(<<i>>)
        BY <1>1, <2>5 DEF MustMatch, MayMatch
    <2>7. Recent(<<i>>)
        <3>1. log[i] \in Entry
            BY <2>1
        <3>2. log[i].at \in Nat /\ log[i].boot \in Nat /\ device.boot \in Nat /\ device.clock \in Nat /\ elapsed \in Nat
            BY <2>0, <3>1, PhoneFields DEF Entry, LogTyped
        <3>3. log[i].boot = device.boot /\ (device.boot > 0 /\ Unreset => log[i].at >= CallTime)
            BY <1>1, <2>0, <2>1 DEF HeldInv
        <3>4. CASE since = Anything \/ since <= 0
            <4>1. since \in Int /\ since <= 0
                BY <2>0, <3>4 DEF Anything, LogTyped
            <4> QED BY <2>5, <3>2, <4>1 DEF Recent
        <3>5. CASE since = CallTime - Lookback /\ readIn = device.boot
            <4>1. Unreset
                BY <2>0, <3>5 DEF ClockInv
            <4>2. device.boot = 0 => log[i].at >= CallTime - Lookback
                BY <1>1, <3>2, <3>3 DEF LoggedSinceCall
            <4>3. log[i].at >= CallTime - Lookback
                BY <3>2, <3>3, <4>1, <4>2
            <4> QED BY <2>5, <3>5, <4>3 DEF Recent
        <3> QED BY <1>1, <2>0, <3>4, <3>5 DEF ClockInv
    <2> QED BY <1>1, <2>4, <2>5, <2>6, <2>7 DEF ReadLine
<1>2. LogInv /\ [LogNext]_logVars =>
        [\A i \in DOMAIN log :
           (job # "capture" /\ stream.on /\ (since = Anything \/ readIn = device.boot) /\ buf = <<>> /\ log[i].match
              /\ LoggedSinceCall(i) /\ stream.pid \in {0, log[i].pid} /\ stream.next <= i /\ stream'.next = i + 1)
           => got' = Append(got, <<i>>)]_logVars
    BY <1>1
<1> QED BY <1>2, LogInvIsInvariant, PTL DEF LogSpec, RecentIsFound
-----------------------------------------------------------------------------
(* Installs of the SDK.                                                      *)

AtLabels == {"start", "mkdtemp", "download", "verify", "extract", "extracted", "exists", "unzip",
             "remove", "move", "copy", "clean", "failing", "cancelling"} \cup Ended

SdkTyped ==
    /\ at \in [Installs -> AtLabels]
    /\ work \in [Installs -> {"none", "root", "system"}]
    /\ scratch \subseteq Installs
    /\ tar \in [Installs -> BOOLEAN] /\ abort \in [Installs -> BOOLEAN]
    /\ unpacked \in [Installs -> SUBSET Components]
    /\ root \in BOOLEAN /\ disturbed \in BOOLEAN
    /\ sdk \subseteq Components \X (Installs \cup {"before"})

(* The SDK has each of its components at most once; who replaces it has      *)
(* unpacked all of its own, and outside of that it is whole.                 *)
ReplaceInv ==
    /\ \A f, g \in sdk : f[1] = g[1] => f = g
    /\ \A i \in Installs : Replacing(i) => unpacked[i] = Components
    /\ SdkIsWhole

(* A scratch directory is there while its install runs, and the root while   *)
(* an install has its directory there or is about to make one.               *)
ScratchInv ==
    /\ \A i \in Installs : Active(i) /\ at[i] # "mkdtemp" => i \in scratch
    /\ \A i \in scratch : /\ work[i] \in {"root", "system"}
                          /\ work[i] = "root" => root
                          /\ at[i] \notin {"start", "mkdtemp"} \cup (Ended \ {"killed"})
    /\ root => \E i \in Installs : \/ i \in scratch /\ work[i] = "root"
                                   \/ at[i] \in {"mkdtemp", "killed"}

SdkInv == SdkTyped /\ ReplaceInv /\ ScratchInv

------------------------------------------------------------------------------
(* What changing the label of an install does, and what it disturbs.         *)
LEMMA ToEffect ==
    ASSUME SdkTyped, NEW i \in Installs, NEW label \in AtLabels, To(i, label)
    PROVE  /\ at' \in [Installs -> AtLabels] /\ disturbed' \in BOOLEAN
           /\ at'[i] = label /\ \A j \in Installs \ {i} : at'[j] = at[j]
           /\ disturbed => disturbed'
           /\ Replacing(i) /\ label \notin Replaces \cup {"clean"} => disturbed'
    BY DEF To, SdkTyped

LEMMA SdkInitInv == SdkInit => SdkInv
<1> SUFFICES ASSUME SdkInit PROVE SdkInv
    OBVIOUS
<1>1. SdkTyped
    BY DEF SdkInit, SdkTyped, AtLabels, Whole
<1>2. ReplaceInv
    BY DEF SdkInit, ReplaceInv, SdkIsWhole, Replacing, Replaces, Whole
<1>3. ScratchInv
    BY DEF SdkInit, ScratchInv, Active, Ended
<1> QED BY <1>1, <1>2, <1>3 DEF SdkInv

(* The steps that touch neither the SDK nor what is unpacked.                *)
LEMMA LabelStep ==
    ASSUME SdkInv, NEW i \in Installs, NEW label \in AtLabels, To(i, label), SdkTyped',
           UNCHANGED <<unpacked, sdk>>, label \notin Replaces,
           label = "clean" => ~Replacing(i)
    PROVE  ReplaceInv'
<1>1. SdkTyped /\ ReplaceInv
    BY DEF SdkInv
<1>2. /\ at'[i] = label /\ \A j \in Installs \ {i} : at'[j] = at[j]
      /\ disturbed => disturbed'
      /\ Replacing(i) /\ label \notin Replaces \cup {"clean"} => disturbed'
    BY <1>1, ToEffect
<1>3. \A j \in Installs : Replacing(j)' => Replacing(j)
    BY <1>2 DEF Replacing
<1>4. SdkIsWhole'
    <2>1. CASE disturbed'
        BY <2>1 DEF SdkIsWhole
    <2>2. CASE ~disturbed'
        <3>1. ~Replacing(i) /\ ~disturbed
            BY <1>2, <2>2
        <3>2. \A j \in Installs : at[j] \in {"remove", "copy"} => at'[j] = at[j]
            BY <3>1, <1>2 DEF Replacing, Replaces
        <3> QED BY <3>1, <3>2, <1>1 DEF ReplaceInv, SdkIsWhole, Whole
    <2> QED BY <2>1, <2>2
<1> QED BY <1>1, <1>3, <1>4 DEF ReplaceInv

(* The steps between the making of a scratch directory and its removal.      *)
LEMMA RunningStep ==
    ASSUME SdkInv, NEW i \in Installs, UNCHANGED <<scratch, work, root>>,
           at' \in [Installs -> AtLabels], \A j \in Installs \ {i} : at'[j] = at[j],
           \/ at'[i] = at[i]
           \/ at'[i] = "killed" /\ Active(i)
           \/ /\ at[i] \notin {"start", "mkdtemp"} \cup Ended
              /\ at'[i] \notin {"start", "mkdtemp"} \cup Ended
    PROVE  ScratchInv'
<1>1. ScratchInv /\ SdkTyped
    BY DEF SdkInv
<1>2. \A j \in Installs : Active(j)' /\ at'[j] # "mkdtemp" => Active(j) /\ at[j] # "mkdtemp"
    BY DEF Active, Ended
<1>3. \A j \in scratch : at'[j] \notin {"start", "mkdtemp"} \cup (Ended \ {"killed"})
    BY <1>1 DEF ScratchInv, SdkTyped, Ended
<1>4. \A j \in Installs : at[j] \in {"mkdtemp", "killed"} => at'[j] \in {"mkdtemp", "killed"}
    BY DEF Active, Ended
<1> QED BY <1>1, <1>2, <1>3, <1>4 DEF ScratchInv, SdkTyped

(* The removal of a scratch directory.                                       *)
LEMMA CleanStep ==
    ASSUME SdkInv, NEW i \in Installs, NEW outcome \in Ended \ {"killed"}, RemoveWorkDir(i, outcome),
           Active(i), at[i] # "mkdtemp"
    PROVE  ScratchInv'
<1>1. ScratchInv /\ SdkTyped
    BY DEF SdkInv
<1>2. /\ at'[i] = outcome /\ \A j \in Installs \ {i} : at'[j] = at[j]
      /\ scratch' = scratch \ {i} /\ work' = work /\ root' \in BOOLEAN
      /\ root' <=> (root /\ (work[i] = "system" \/ \E j \in scratch \ {i} : work[j] = "root"))
    BY <1>1, ToEffect DEF RemoveWorkDir, AtLabels
<1>3. \A j \in Installs : Active(j)' /\ at'[j] # "mkdtemp" => j \in scratch'
    BY <1>1, <1>2 DEF ScratchInv, Active, Ended
<1>4. \A j \in scratch' : /\ work'[j] \in {"root", "system"}
                          /\ work'[j] = "root" => root'
                          /\ at'[j] \notin {"start", "mkdtemp"} \cup (Ended \ {"killed"})
    BY <1>1, <1>2 DEF ScratchInv, SdkTyped
<1>5. root' => \E j \in Installs : \/ j \in scratch' /\ work'[j] = "root"
                                   \/ at'[j] \in {"mkdtemp", "killed"}
    <2>1. CASE \E j \in scratch \ {i} : work[j] = "root"
        BY <2>1, <1>1, <1>2 DEF SdkTyped
    <2>2. CASE root /\ work[i] = "system"
        <3>1. PICK j \in Installs : (j \in scratch /\ work[j] = "root") \/ at[j] \in {"mkdtemp", "killed"}
            BY <2>2, <1>1 DEF ScratchInv
        <3>2. j # i
            BY <3>1, <2>2 DEF Active, Ended
        <3> QED BY <3>1, <3>2, <1>2
    <2> QED BY <2>1, <2>2, <1>2
<1> QED BY <1>3, <1>4, <1>5 DEF ScratchInv
(* The steps that change what is unpacked or the SDK itself.                 *)
LEMMA WholeIsWhole ==
    ASSUME SdkInv, NEW i \in Installs, Whole(i) \subseteq sdk
    PROVE  sdk = Whole(i)
<1>1. \A f \in sdk : f[1] \in Components /\ <<f[1], i>> \in sdk
    BY DEF SdkInv, SdkTyped, Whole
<1>2. \A f \in sdk : f = <<f[1], i>>
    BY <1>1 DEF SdkInv, ReplaceInv
<1> QED BY <1>1, <1>2 DEF Whole

LEMMA StepTyped ==
    ASSUME SdkTyped, [SdkNext]_sdkVars PROVE SdkTyped'
<1> USE DEF SdkTyped
<1>1. ASSUME NEW i \in Installs, NEW label \in AtLabels, To(i, label)
      PROVE  at' \in [Installs -> AtLabels] /\ disturbed' \in BOOLEAN
    BY <1>1, ToEffect
<1>2. CASE \E i \in Installs : MakeRoot(i)
    BY <1>1, <1>2 DEF MakeRoot, AtLabels
<1>3. CASE \E i \in Installs : MakeWorkDir(i)
    BY <1>1, <1>3 DEF MakeWorkDir, AtLabels
<1>4. CASE \E i \in Installs : downloadFile(i)
    BY <1>1, <1>4 DEF downloadFile, AtLabels
<1>5. ASSUME NEW i \in Installs, NEW from, NEW to \in AtLabels, Goes(i, from, to)
      PROVE  SdkTyped'
    BY <1>1, <1>5 DEF Goes
<1>6. CASE \E i \in Installs : verifySha256(i) \/ extractTarball(i) \/ CheckCancelled(i) \/ CheckInstalled(i)
                               \/ UnzipCancelled(i) \/ Fail(i) \/ Kill(i)
    BY <1>5, <1>6 DEF verifySha256, extractTarball, CheckCancelled, CheckInstalled, UnzipCancelled,
                      Fail, Kill, AtLabels, Ended
<1>7. ASSUME NEW i \in Installs, Unzip(i) PROVE SdkTyped'
    BY <1>7 DEF Unzip, Stays
<1>8. ASSUME NEW i \in Installs, RemoveOld(i) PROVE SdkTyped'
    <2>1. sdk' \subseteq sdk
        BY <1>8 DEF RemoveOld
    <2>2. at' \in [Installs -> AtLabels] /\ disturbed' \in BOOLEAN
        BY <1>8, <1>1 DEF RemoveOld, Stays, AtLabels
    <2> QED BY <2>1, <2>2, <1>8 DEF RemoveOld
<1>9. ASSUME NEW i \in Installs, Rename(i) PROVE SdkTyped'
    <2>1. at' \in [Installs -> AtLabels] /\ disturbed' \in BOOLEAN
        BY <1>9, <1>1 DEF Rename, AtLabels
    <2>2. sdk' = sdk \/ sdk' = Whole(i)
        BY <1>9 DEF Rename
    <2> QED BY <2>1, <2>2, <1>9 DEF Rename, Whole
<1>10. ASSUME NEW i \in Installs, Copy(i) PROVE SdkTyped'
    <2>1. at' \in [Installs -> AtLabels] /\ disturbed' \in BOOLEAN
        BY <1>10, <1>1 DEF Copy, AtLabels
    <2>2. sdk' \subseteq Components \X (Installs \cup {"before"})
        <3>1. CASE \E c \in Components : sdk' = {f \in sdk : f[1] # c} \cup {<<c, i>>}
            <4>1. PICK c \in Components : sdk' = {f \in sdk : f[1] # c} \cup {<<c, i>>}
                BY <3>1
            <4>2. <<c, i>> \in Components \X (Installs \cup {"before"})
                OBVIOUS
            <4> QED BY <4>1, <4>2
        <3> QED BY <3>1, <1>10 DEF Copy
    <2> QED BY <2>1, <2>2, <1>10 DEF Copy
<1>11. ASSUME NEW i \in Installs, NEW outcome \in Ended, RemoveWorkDir(i, outcome) PROVE SdkTyped'
    BY <1>11, <1>1 DEF RemoveWorkDir, AtLabels
<1>12. CASE \E i \in Installs : Clean(i)
    BY <1>11, <1>12 DEF Clean, Ended
<1>13. ASSUME NEW i \in Installs, Abort_(i) PROVE SdkTyped'
    <2>1. at' \in [Installs -> AtLabels] /\ disturbed' \in BOOLEAN
        BY <1>13, <1>1 DEF Abort_, Stays, AtLabels
    <2> QED BY <2>1, <1>13 DEF Abort_
<1>14. CASE removeSdk
    BY <1>14 DEF removeSdk
<1>15. CASE UNCHANGED sdkVars
    BY <1>15 DEF sdkVars
<1> QED BY <1>2, <1>3, <1>4, <1>6, <1>7, <1>8, <1>9, <1>10, <1>12, <1>13, <1>14, <1>15 DEF SdkNext

(* Every step keeps the SDK's part of the invariant.                         *)
LEMMA StepReplace ==
    ASSUME SdkInv, [SdkNext]_sdkVars PROVE ReplaceInv'
<1>t. SdkTyped /\ ReplaceInv /\ SdkTyped'
    BY StepTyped DEF SdkInv
<1>1. ASSUME NEW i \in Installs,
             \/ MakeRoot(i) \/ MakeWorkDir(i) \/ downloadFile(i) \/ verifySha256(i) \/ extractTarball(i)
             \/ CheckCancelled(i) \/ CheckInstalled(i) \/ UnzipCancelled(i) \/ Clean(i) \/ Fail(i) \/ Kill(i)
      PROVE  ReplaceInv'
    <2>1. PICK label \in AtLabels \ (Replaces \cup {"clean"}) : To(i, label)
        BY <1>1 DEF MakeRoot, MakeWorkDir, downloadFile, verifySha256, extractTarball, CheckCancelled,
                    CheckInstalled, UnzipCancelled, Clean, RemoveWorkDir, Fail, Kill, Goes, AtLabels, Replaces, Ended
    <2>2. UNCHANGED <<unpacked, sdk>>
        BY <1>1 DEF MakeRoot, MakeWorkDir, downloadFile, verifySha256, extractTarball, CheckCancelled,
                    CheckInstalled, UnzipCancelled, Clean, RemoveWorkDir, Fail, Kill, Goes
    <2> QED BY <2>1, <2>2, <1>t, LabelStep
<1>2. ASSUME NEW i \in Installs, Abort_(i) PROVE ReplaceInv'
    <2>1. CASE at[i] = "download"
        BY <2>1, <1>2, <1>t, LabelStep DEF Abort_, AtLabels, Replaces
    <2>2. CASE at[i] # "download"
        BY <2>2, <1>2, <1>t DEF Abort_, Stays, ReplaceInv, SdkIsWhole, Replacing, Whole
    <2> QED BY <2>1, <2>2
<1>3. ASSUME NEW i \in Installs, Unzip(i) PROVE ReplaceInv'
    <2>1. \A j \in Installs : Replacing(j) => unpacked'[j] = unpacked[j]
        BY <1>3, <1>t DEF Unzip, Replacing, Replaces, SdkTyped
    <2> QED BY <2>1, <1>3, <1>t DEF Unzip, Stays, ReplaceInv, SdkIsWhole, Replacing, Whole
<1>4. ASSUME NEW i \in Installs, RemoveOld(i) PROVE ReplaceInv'
    <2>1. /\ sdk' \subseteq sdk /\ unpacked' = unpacked /\ unpacked[i] = Components
          /\ at'[i] = "remove" \/ (at'[i] = "move" /\ sdk' = {})
          /\ at[i] = "remove" \/ sdk' = sdk
          /\ \A j \in Installs \ {i} : at'[j] = at[j]
        <3>1. CASE at[i] = "unzip"
            <4>1. unpacked[i] = Components /\ To(i, "remove") /\ UNCHANGED <<sdk, unpacked>>
                BY <3>1, <1>4 DEF RemoveOld
            <4>2. at'[i] = "remove" /\ \A j \in Installs \ {i} : at'[j] = at[j]
                BY <4>1, <1>t, ToEffect DEF AtLabels
            <4> QED BY <4>1, <4>2
        <3>2. CASE at[i] = "remove"
            <4>1. unpacked[i] = Components /\ UNCHANGED unpacked
                BY <3>2, <1>4, <1>t DEF RemoveOld, ReplaceInv, Replacing, Replaces
            <4>2. CASE sdk' \subseteq sdk /\ Stays
                BY <3>2, <4>1, <4>2 DEF Stays
            <4>3. CASE sdk = {} /\ sdk' = sdk /\ To(i, "move")
                <5>1. at'[i] = "move" /\ \A j \in Installs \ {i} : at'[j] = at[j]
                    BY <4>3, <1>t, ToEffect DEF AtLabels
                <5> QED BY <3>2, <4>1, <4>3, <5>1
            <4> QED BY <3>2, <1>4, <4>2, <4>3 DEF RemoveOld
        <3> QED BY <3>1, <3>2, <1>4 DEF RemoveOld
    <2>2. SdkIsWhole'
        BY <2>1 DEF SdkIsWhole
    <2> QED BY <2>1, <2>2, <1>t DEF ReplaceInv, Replacing
<1>5. ASSUME NEW i \in Installs, Rename(i) PROVE ReplaceInv'
    <2>1. CASE sdk # {}
        BY <2>1, <1>5, <1>t, LabelStep DEF Rename, AtLabels, Replaces
    <2>2. CASE sdk = {}
        <3>1. /\ at'[i] = "clean" /\ (\A j \in Installs \ {i} : at'[j] = at[j])
              /\ sdk' = Whole(i) /\ unpacked' = unpacked
            BY <2>2, <1>5, <1>t, ToEffect DEF Rename, AtLabels
        <3>2. \A f, g \in sdk' : f[1] = g[1] => f = g
            BY <3>1 DEF Whole
        <3>3. SdkIsWhole'
            BY <3>1 DEF SdkIsWhole, Whole
        <3> QED BY <3>1, <3>2, <3>3, <1>t DEF ReplaceInv, Replacing, Replaces
    <2> QED BY <2>1, <2>2
<1>6. ASSUME NEW i \in Installs, Copy(i) PROVE ReplaceInv'
    <2>1. unpacked[i] = Components /\ unpacked' = unpacked /\ Replacing(i)
        BY <1>6, <1>t DEF Copy, ReplaceInv, Replacing, Replaces
    <2>2. CASE \E c \in Components : sdk' = {f \in sdk : f[1] # c} \cup {<<c, i>>} /\ To(i, "copy")
        <3>1. at'[i] = "copy" /\ \A j \in Installs \ {i} : at'[j] = at[j]
            BY <2>2, <1>t, ToEffect DEF AtLabels
        <3>2. \A f, g \in sdk' : f[1] = g[1] => f = g
            BY <2>2, <1>t DEF ReplaceInv
        <3>3. SdkIsWhole'
            BY <3>1 DEF SdkIsWhole
        <3> QED BY <2>1, <3>1, <3>2, <3>3, <1>t DEF ReplaceInv, Replacing
    <2>3. CASE Whole(i) \subseteq sdk /\ UNCHANGED sdk /\ To(i, "clean")
        <3>1. at'[i] = "clean" /\ \A j \in Installs \ {i} : at'[j] = at[j]
            BY <2>3, <1>t, ToEffect DEF AtLabels
        <3>2. sdk' = Whole(i)
            BY <2>3, WholeIsWhole
        <3>3. SdkIsWhole'
            BY <3>2 DEF SdkIsWhole, Whole
        <3> QED BY <2>1, <2>3, <3>1, <3>3, <1>t DEF ReplaceInv, Replacing, Replaces
    <2> QED BY <1>6, <2>2, <2>3 DEF Copy
<1>7. CASE removeSdk
    BY <1>7, <1>t DEF removeSdk, ReplaceInv, SdkIsWhole, Replacing
<1>8. CASE UNCHANGED sdkVars
    BY <1>8, <1>t DEF sdkVars, ReplaceInv, SdkIsWhole, Replacing, Whole
<1> QED BY <1>1, <1>2, <1>3, <1>4, <1>5, <1>6, <1>7, <1>8 DEF SdkNext

(* Every step keeps the scratch directories' part.                           *)
LEMMA StepScratch ==
    ASSUME SdkInv, [SdkNext]_sdkVars PROVE ScratchInv'
<1>t. SdkTyped /\ ScratchInv /\ SdkTyped'
    BY StepTyped DEF SdkInv
<1>1. ASSUME NEW i \in Installs, MakeRoot(i) PROVE ScratchInv'
    <2>1. /\ at[i] = "start" /\ at'[i] = "mkdtemp" /\ root' = TRUE
          /\ (\A j \in Installs \ {i} : at'[j] = at[j]) /\ UNCHANGED <<scratch, work>>
        BY <1>1, <1>t, ToEffect DEF MakeRoot, AtLabels
    <2>2. i \notin scratch
        BY <2>1, <1>t DEF ScratchInv
    <2> QED BY <2>1, <2>2, <1>t DEF ScratchInv, SdkTyped, Active
<1>2. ASSUME NEW i \in Installs, MakeWorkDir(i) PROVE ScratchInv'
    <2>1. /\ at[i] = "mkdtemp" /\ at'[i] \in {"download", "extract"}
          /\ (\A j \in Installs \ {i} : at'[j] = at[j])
          /\ scratch' = scratch \cup {i} /\ root' = root
          /\ work'[i] = (IF root THEN "root" ELSE "system")
          /\ \A j \in Installs \ {i} : work'[j] = work[j]
        <3>1. CASE i \in FromArchive
            BY <3>1, <1>2, <1>t, ToEffect DEF MakeWorkDir, AtLabels, SdkTyped
        <3>2. CASE i \notin FromArchive
            BY <3>2, <1>2, <1>t, ToEffect DEF MakeWorkDir, AtLabels, SdkTyped
        <3> QED BY <3>1, <3>2
    <2>2. i \notin scratch
        BY <2>1, <1>t DEF ScratchInv
    <2>3. root' => i \in scratch' /\ work'[i] = "root"
        BY <2>1
    <2> QED BY <2>1, <2>2, <2>3, <1>t DEF ScratchInv, SdkTyped, Active, Ended
<1>3. ASSUME NEW i \in Installs, Clean(i) PROVE ScratchInv'
    <2>1. Active(i) /\ at[i] # "mkdtemp"
        BY <1>3 DEF Clean, Active, Ended
    <2> QED BY <2>1, <1>3, CleanStep DEF Clean, Ended
<1>4. ASSUME NEW i \in Installs, NEW label \in AtLabels, To(i, label), UNCHANGED <<scratch, work, root>>,
             \/ label = "killed" /\ Active(i)
             \/ /\ at[i] \notin {"start", "mkdtemp"} \cup Ended
                /\ label \notin {"start", "mkdtemp"} \cup Ended
      PROVE  ScratchInv'
    <2>1. /\ at' \in [Installs -> AtLabels] /\ at'[i] = label
          /\ \A j \in Installs \ {i} : at'[j] = at[j]
        BY <1>4, <1>t, ToEffect
    <2> QED BY <2>1, <1>4, RunningStep
<1>5. ASSUME NEW i \in Installs, Stays, UNCHANGED <<scratch, work, root>> PROVE ScratchInv'
    BY <1>5, <1>t DEF Stays, ScratchInv, Active
<1>6. ASSUME NEW i \in Installs,
             \/ downloadFile(i) \/ verifySha256(i) \/ extractTarball(i) \/ CheckCancelled(i)
             \/ CheckInstalled(i) \/ UnzipCancelled(i) \/ Rename(i) \/ Copy(i) \/ Fail(i) \/ Kill(i)
      PROVE  ScratchInv'
    <2>1. UNCHANGED <<scratch, work, root>>
        BY <1>6 DEF downloadFile, verifySha256, extractTarball, CheckCancelled, CheckInstalled,
                    UnzipCancelled, Rename, Copy, Fail, Kill, Goes
    <2>2. PICK label \in AtLabels : /\ To(i, label)
                                    /\ \/ label = "killed" /\ Active(i)
                                       \/ /\ at[i] \notin {"start", "mkdtemp"} \cup Ended
                                          /\ label \notin {"start", "mkdtemp"} \cup Ended
        <3>1. CASE downloadFile(i) \/ verifySha256(i) \/ extractTarball(i) \/ UnzipCancelled(i)
            BY <3>1 DEF downloadFile, verifySha256, extractTarball, UnzipCancelled, Goes, AtLabels, Ended
        <3>2. CASE CheckCancelled(i) \/ CheckInstalled(i)
            BY <3>2 DEF CheckCancelled, CheckInstalled, Goes, AtLabels, Ended
        <3>3. CASE Rename(i) \/ Copy(i)
            BY <3>3 DEF Rename, Copy, AtLabels, Ended
        <3>4. CASE Fail(i) \/ Kill(i)
            BY <3>4 DEF Fail, Kill, Goes, AtLabels, Ended
        <3> QED BY <1>6, <3>1, <3>2, <3>3, <3>4
    <2> QED BY <2>1, <2>2, <1>4
<1>7. ASSUME NEW i \in Installs, Unzip(i) PROVE ScratchInv'
    BY <1>5, <1>7 DEF Unzip
<1>8. ASSUME NEW i \in Installs, Abort_(i) PROVE ScratchInv'
    BY <1>4, <1>5, <1>8 DEF Abort_, AtLabels, Ended
<1>9. ASSUME NEW i \in Installs, RemoveOld(i) PROVE ScratchInv'
    BY <1>4, <1>5, <1>9 DEF RemoveOld, AtLabels, Ended
<1>10. CASE removeSdk
    BY <1>10, <1>t DEF removeSdk, ScratchInv, Active
<1>11. CASE UNCHANGED sdkVars
    BY <1>11, <1>t DEF sdkVars, ScratchInv, Active
<1> QED BY <1>1, <1>2, <1>3, <1>6, <1>7, <1>8, <1>9, <1>10, <1>11 DEF SdkNext

LEMMA SdkInvStep == SdkInv /\ [SdkNext]_sdkVars => SdkInv'
    BY StepTyped, StepReplace, StepScratch DEF SdkInv

------------------------------------------------------------------------------
(* However many installs fail, are cancelled, are killed or overlap: outside *)
(* of a replacement (or after one that was broken off, or met another) the   *)
(* SDK is whole or absent; no install takes another's scratch directory, and *)
(* those that end by themselves leave none.                                  *)
THEOREM SdkStaysSafe == SdkSpec => []SdkIsSafe
<1>1. SdkInv => SdkIsSafe
    <2> SUFFICES ASSUME SdkInv PROVE SdkIsSafe
        OBVIOUS
    <2>1. ASSUME \A i \in Installs : at[i] \in Ended \ {"killed"} PROVE scratch = {} /\ ~root
        <3>1. scratch = {}
            BY <2>1 DEF SdkInv, ScratchInv, SdkTyped
        <3> QED BY <3>1, <2>1 DEF SdkInv, ScratchInv, SdkTyped, Ended
    <2> QED BY <2>1 DEF SdkInv, ReplaceInv, ScratchInv, SdkIsSafe, ScratchIsPrivate
<1> QED BY <1>1, SdkInitInv, SdkInvStep, PTL DEF SdkSpec

(* A step that takes a file of the SDK away is `sdk remove`'s, or one of an  *)
(* install that has unpacked every component of the next.                    *)
THEOREM OldSdkOutlives == SdkSpec => OldSdkOutlivesFailures
<1>1. SdkInv /\ [SdkNext]_sdkVars =>
        [sdk \subseteq sdk' \/ removeSdk \/ \E i \in Installs : Replacing(i) /\ unpacked[i] = Components]_sdkVars
    <2> SUFFICES ASSUME SdkInv, SdkNext, sdk' # sdk, ~removeSdk
                 PROVE  \E i \in Installs : Replacing(i) /\ unpacked[i] = Components
        BY DEF sdkVars
    <2>1. PICK i \in Installs : RemoveOld(i) \/ Rename(i) \/ Copy(i)
        BY DEF SdkNext, MakeRoot, MakeWorkDir, downloadFile, verifySha256, extractTarball, CheckCancelled,
               CheckInstalled, Unzip, UnzipCancelled, Clean, RemoveWorkDir, Fail, Kill, Goes, Abort_
    <2>2. Replacing(i)
        BY <2>1 DEF RemoveOld, Rename, Copy, Replacing, Replaces
    <2> QED BY <2>2 DEF SdkInv, ReplaceInv
<1> QED BY <1>1, SdkInitInv, SdkInvStep, PTL DEF SdkSpec, OldSdkOutlivesFailures
=============================================================================
