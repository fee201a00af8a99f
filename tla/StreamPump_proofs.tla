-------------------------- MODULE StreamPump_proofs --------------------------
(***************************************************************************)
(* For bodies of any length, cut anywhere, and any limit of the collector: *)
(* the pump and the collector keep the promise of ClientStream, and every  *)
(* way out releases the upstream and closes the host stream once.          *)
(***************************************************************************)
EXTENDS StreamPump, TLAPS

\* What the scanner is past is no sentinel and no event too long for it.
Framed == \A j \in 1..scanned : lines[j] \in {"event", "noise"}

\* Its events are what the client was sent, or what was collected.
SentSoFar == Sent = {i \in 1..scanned : lines[i] = "event"}

\* The event in hand is the next line.
AtEvent == pc = "emit" => scanned < Len(lines) /\ lines[scanned + 1] = "event"

\* An end of file is the end of the body.
EndIsEnd == reader = "eof" => read = Fragments

\* An answer that is over without a failure is whole, unless the client left.
QuietIsWhole ==
    /\ pc \in {"release", "close"} /\ report = "none" =>
          emitBroken \/ (emitted > 0 /\ Wanted = Sent)
    /\ emitBroken => told # "open"

\* A failure is reported before the stream is closed; the collector reports
\* nothing before it returns.
FailureIsTold ==
    /\ pc \in {"open", "scan", "emit"} => report = "none"
    /\ pc = "report" => mode = "pump" /\ report # "none"
    /\ pc = "recover" => mode = "pump" /\ report = "panic"
    /\ mode = "pump" /\ pc = "release" /\ report # "none" =>
          report = "panic" \/ told # "open"
    /\ mode = "pump" /\ pc = "close" /\ report # "none" => told # "open"
    /\ mode = "collect" /\ pc # "done" => told = "open"

\* The goroutine closes at its end, and not before.
ClosesLast ==
    /\ pc # "done" => closes = 0
    /\ pc = "done" => closes = IF mode = "pump" THEN 1 ELSE 0
    /\ pc \in {"recover", "close", "done"} => upstream # "open"

\* The inductive invariant.
PInv == /\ TypeOK
        /\ Framed /\ SentSoFar /\ AtEvent /\ EndIsEnd
        /\ QuietIsWhole /\ FailureIsTold /\ ClosesLast

----------------------------------------------------------------------------
(* Bodies and what was sent of them *)

\* A body is a sequence of lines.
LEMMA BodyIs ==
    ASSUME lines \in Bodies
    PROVE  /\ lines \in Seq(Kinds)
           /\ Len(lines) \in Nat /\ Len(lines) <= MaxLines
           /\ DOMAIN lines = 1..Len(lines)
           /\ \A i \in 1..Len(lines) : lines[i] \in Kinds
<1>1. PICK n \in 0..MaxLines : lines \in [1..n -> Kinds]
  BY DEF Bodies
<1>2. n \in Nat /\ n <= MaxLines
  BY <1>1, LinesAssumption
<1>3. lines \in Seq(Kinds) /\ Len(lines) = n
  BY <1>1, <1>2
<1> QED
  BY <1>1, <1>2, <1>3

\* The scanner is at the end of the body, or at its sentinel.
AtEnd == scanned = Len(lines) \/ lines[scanned + 1] = "done"

\* What is wanted of a body read up to its end or its sentinel.
LEMMA WantedIs ==
    ASSUME lines \in Bodies, scanned \in 0..Len(lines), Framed, AtEnd
    PROVE  Wanted = {i \in 1..scanned : lines[i] = "event"}
<1>1. /\ Len(lines) \in Nat /\ DOMAIN lines = 1..Len(lines)
      /\ scanned \in Nat /\ scanned <= Len(lines)
  BY BodyIs
<1>2. ASSUME NEW i \in Wanted PROVE i \in 1..scanned /\ lines[i] = "event"
  <2>1. i \in 1..Len(lines) /\ lines[i] \in {"event", "huge"}
    BY <1>1, <1>2 DEF Wanted
  <2>2. \A j \in 1..i : lines[j] # "done"
    BY <1>2 DEF Wanted
  <2>3. i <= scanned
    <3>1. CASE scanned = Len(lines)
      BY <1>1, <2>1, <3>1
    <3>2. CASE lines[scanned + 1] = "done"
      <4>1. scanned + 1 \notin 1..i
        BY <2>2, <3>2
      <4> QED
        BY <1>1, <2>1, <4>1
    <3> QED
      BY <3>1, <3>2 DEF AtEnd
  <2>4. i \in 1..scanned
    BY <1>1, <2>1, <2>3
  <2> QED
    BY <2>1, <2>4 DEF Framed
<1>3. ASSUME NEW i \in 1..scanned, lines[i] = "event" PROVE i \in Wanted
  <2>1. i \in DOMAIN lines
    BY <1>1, <1>3
  <2>2. ASSUME NEW j \in 1..i PROVE lines[j] # "done"
    <3>1. j \in 1..scanned
      BY <1>1, <1>3
    <3> QED
      BY <3>1 DEF Framed
  <2> QED
    BY <1>3, <2>1, <2>2 DEF Wanted
<1> QED
  BY <1>2, <1>3

\* One more event for the client.
LEMMA SentGrows ==
    ASSUME NEW S, got \in Seq(S), NEW i, got' = Append(got, i)
    PROVE  Sent' = Sent \cup {i}
<1>1. /\ DOMAIN got = 1..Len(got) /\ Len(got) \in Nat
      /\ DOMAIN got' = 1..(Len(got) + 1)
      /\ got'[Len(got) + 1] = i
      /\ \A k \in 1..Len(got) : got'[k] = got[k]
  OBVIOUS
<1>2. ASSUME NEW x \in Sent' PROVE x \in Sent \cup {i}
  <2>1. PICK k \in DOMAIN got' : x = got'[k]
    BY <1>2 DEF Sent
  <2>2. k \in 1..Len(got) \/ k = Len(got) + 1
    BY <1>1, <2>1
  <2> QED
    BY <1>1, <2>1, <2>2 DEF Sent
<1>3. ASSUME NEW x \in Sent PROVE x \in Sent'
  <2>1. PICK k \in DOMAIN got : x = got[k]
    BY <1>3 DEF Sent
  <2>2. k \in DOMAIN got' /\ x = got'[k]
    BY <1>1, <2>1
  <2> QED
    BY <2>2 DEF Sent
<1>4. i \in Sent'
  BY <1>1 DEF Sent
<1> QED
  BY <1>2, <1>3, <1>4

\* The event in hand is the next the client wants.
LEMMA NextEvent ==
    ASSUME PInv, pc = "emit"
    PROVE  /\ scanned + 1 \in Wanted \ Sent
           /\ \A j \in Wanted : j < scanned + 1 => j \in Sent
           /\ scanned + 1 \in 1..Len(lines) /\ lines[scanned + 1] = "event"
<1>1. /\ Len(lines) \in Nat /\ DOMAIN lines = 1..Len(lines)
      /\ scanned \in 0..Len(lines) /\ scanned + 1 \in 1..Len(lines)
      /\ lines[scanned + 1] = "event"
  BY BodyIs DEF PInv, TypeOK, AtEvent
<1>2. scanned + 1 \notin Sent
  BY <1>1 DEF PInv, SentSoFar
<1>3. scanned + 1 \in Wanted
  <2>1. ASSUME NEW j \in 1..(scanned + 1) PROVE lines[j] # "done"
    <3>1. j \in 1..scanned \/ j = scanned + 1
      BY <1>1
    <3> QED
      BY <1>1, <3>1 DEF PInv, Framed
  <2> QED
    BY <1>1, <2>1 DEF Wanted
<1>4. ASSUME NEW j \in Wanted, j < scanned + 1 PROVE j \in Sent
  <2>1. j \in 1..scanned /\ lines[j] \in {"event", "huge"}
    BY <1>1, <1>4 DEF Wanted
  <2>2. lines[j] = "event"
    BY <2>1 DEF PInv, Framed
  <2> QED
    BY <2>1, <2>2 DEF PInv, SentSoFar
<1> QED
  BY <1>1, <1>2, <1>3, <1>4

----------------------------------------------------------------------------
(* The invariant *)

\* It holds before the first byte.
LEMMA InitPInv == PumpInit => PInv
<1> SUFFICES ASSUME PumpInit PROVE PInv
  OBVIOUS
<1> USE DEF PumpInit, Init
<1>1. Len(lines) \in Nat
  BY BodyIs
<1>2. TypeOK
  <2>1. got \in Seq(1..MaxLines) /\ Len(got) = 0
    OBVIOUS
  <2>2. read \in 0..Fragments /\ scanned \in 0..Len(lines)
    BY <1>1 DEF Fragments
  <2> QED
    BY <2>1, <2>2 DEF TypeOK, Stages, Reports, Outcomes
<1>3. Framed /\ SentSoFar
  BY DEF Framed, SentSoFar, Sent
<1>4. AtEvent /\ EndIsEnd /\ QuietIsWhole /\ FailureIsTold /\ ClosesLast
  BY DEF AtEvent, EndIsEnd, QuietIsWhole, FailureIsTold, ClosesLast
<1> QED
  BY <1>2, <1>3, <1>4 DEF PInv

\* The goroutine's steps that read, before anything is sent.
LEMMA ReadingKeepsPInv ==
    ASSUME PInv, Refused \/ Rejected \/ Accepted \/ ReadMore
    PROVE  PInv'
<1> USE DEF PInv
<1>1. Len(lines) \in Nat /\ scanned \in 0..Len(lines) /\ read \in 0..Fragments
  BY BodyIs DEF TypeOK
<1>2. CASE Refused \/ Rejected \/ Accepted
  <2>1. TypeOK'
    BY <1>2 DEF Refused, Rejected, Accepted, ReportAs, TypeOK, Stages, Reports, Fragments
  <2>2. (Framed /\ SentSoFar /\ EndIsEnd)'
    BY <1>2 DEF Refused, Rejected, Accepted, Framed, SentSoFar, Sent, EndIsEnd, Fragments
  <2>3. (AtEvent /\ QuietIsWhole /\ FailureIsTold /\ ClosesLast)'
    BY <1>2 DEF Refused, Rejected, Accepted, ReportAs, AtEvent, QuietIsWhole, FailureIsTold,
                ClosesLast, Wanted, Sent
  <2> QED
    BY <2>1, <2>2, <2>3
<1>3. CASE ReadMore
  <2>1. TypeOK' /\ EndIsEnd'
    BY <1>1, <1>3 DEF ReadMore, TypeOK, EndIsEnd, Fragments
  <2>2. (Framed /\ SentSoFar /\ AtEvent)'
    BY <1>3 DEF ReadMore, Framed, SentSoFar, Sent, AtEvent
  <2>3. (QuietIsWhole /\ FailureIsTold /\ ClosesLast)'
    BY <1>3 DEF ReadMore, QuietIsWhole, FailureIsTold, ClosesLast, Wanted, Sent
  <2> QED
    BY <2>1, <2>2, <2>3
<1> QED
  BY <1>2, <1>3

\* The next line: noise, an event, the sentinel, or one too long.
LEMMA ScanningKeepsPInv ==
    ASSUME PInv, ScanLine \/ ScanEnds
    PROVE  PInv'
<1> USE DEF PInv
<1>1. /\ Len(lines) \in Nat /\ scanned \in Nat /\ scanned <= Len(lines)
      /\ read \in Nat /\ read <= 2 * Len(lines)
      /\ lines \in Bodies /\ pc = "scan" /\ report = "none"
  BY BodyIs DEF TypeOK, Fragments, ScanLine, ScanEnds, FailureIsTold
<1>2. UNCHANGED <<lines, got, told, mode, upstream, read, reader, emitted,
                  emitBroken, closes>>
  BY DEF ScanLine, ScanEnds
<1>3. Sent' = Sent /\ Wanted' = Wanted /\ Fragments' = Fragments
  BY <1>2 DEF Sent, Wanted, Fragments
<1>4. AtEnd /\ emitted > 0 => Wanted = Sent
  BY <1>1, WantedIs DEF SentSoFar, TypeOK
<1>5. CASE ScanLine /\ lines[scanned + 1] = "noise"
  <2>1. scanned + 1 \in 1..Len(lines)
    BY <1>1, <1>5 DEF ScanLine, Buffered
  <2>2. scanned' = scanned + 1 /\ pc' = pc /\ report' = report
    BY <1>5 DEF ScanLine
  <2>3. TypeOK'
    BY <1>1, <1>2, <1>3, <2>1, <2>2 DEF TypeOK
  <2>4. \A j \in 1..(scanned + 1) : j \in 1..scanned \/ j = scanned + 1
    BY <1>1
  <2>5. \A j \in 1..scanned : j \in 1..(scanned + 1)
    BY <1>1
  <2>6. (Framed /\ SentSoFar)'
    BY <1>2, <1>3, <1>5, <2>2, <2>4, <2>5 DEF Framed, SentSoFar
  <2>7. (AtEvent /\ EndIsEnd /\ QuietIsWhole /\ FailureIsTold /\ ClosesLast)'
    BY <1>1, <1>2, <1>3, <2>2
       DEF AtEvent, EndIsEnd, QuietIsWhole, FailureIsTold, ClosesLast
  <2> QED
    BY <2>3, <2>6, <2>7
<1>6. ASSUME scanned' = scanned,
             \/ /\ pc' = "emit" /\ report' = report
                /\ scanned < Len(lines) /\ lines[scanned + 1] = "event"
             \/ \E failure \in {"upstream", "empty"} : ReportAs(failure)
             \/ ReturnQuietly /\ AtEnd /\ emitted > 0
      PROVE  PInv'
  <2>1. TypeOK'
    BY <1>1, <1>2, <1>3, <1>6 DEF TypeOK, ReportAs, ReturnQuietly, Stages, Reports
  <2>2. (Framed /\ SentSoFar /\ EndIsEnd)'
    BY <1>2, <1>3, <1>6 DEF Framed, SentSoFar, EndIsEnd
  <2>3. AtEvent'
    BY <1>2, <1>6 DEF AtEvent, ReportAs, ReturnQuietly
  <2>4. (QuietIsWhole /\ FailureIsTold /\ ClosesLast)'
    BY <1>1, <1>2, <1>3, <1>4, <1>6
       DEF QuietIsWhole, FailureIsTold, ClosesLast, ReportAs, ReturnQuietly, TypeOK
  <2> QED
    BY <2>1, <2>2, <2>3, <2>4
<1>7. CASE ScanLine /\ lines[scanned + 1] # "noise"
  <2>1. scanned < Len(lines)
    BY <1>1, <1>7 DEF ScanLine, Buffered
  <2>2. emitted \in Nat
    BY DEF TypeOK
  <2> QED
    BY <1>6, <1>7, <2>1, <2>2 DEF ScanLine, AtEnd
<1>8. CASE ScanEnds
  <2>1. reader # "error" => AtEnd
    <3>1. reader # "error" => read = 2 * Len(lines)
      BY <1>8 DEF ScanEnds, TypeOK, EndIsEnd, Fragments
    <3> QED
      BY <1>1, <1>8, <3>1 DEF ScanEnds, Buffered, AtEnd
  <2>2. emitted \in Nat
    BY DEF TypeOK
  <2> QED
    BY <1>6, <1>8, <2>1, <2>2 DEF ScanEnds
<1> QED
  BY <1>5, <1>7, <1>8

\* An event is sent or kept; or the client has left, or the answer is too large.
LEMMA SendingKeepsPInv ==
    ASSUME PInv, Emit \/ Collect
    PROVE  PInv'
<1> USE DEF PInv
<1>1. /\ Len(lines) \in Nat /\ Len(lines) <= MaxLines /\ scanned \in Nat
      /\ scanned + 1 \in 1..Len(lines) /\ lines[scanned + 1] = "event"
  BY BodyIs, NextEvent DEF Emit, Collect, TypeOK
<1>2. /\ UNCHANGED <<lines, told, mode, upstream, read, reader, closes>>
      /\ pc = "emit" /\ report = "none"
  BY DEF Emit, Collect, FailureIsTold
<1>3. Wanted' = Wanted /\ Fragments' = Fragments
  BY <1>2 DEF Wanted, Fragments
<1>4. CASE /\ got' = Append(got, scanned + 1) /\ scanned' = scanned + 1
           /\ emitted' = emitted + 1 /\ pc' = "scan"
           /\ UNCHANGED <<emitBroken, report>>
  <2>1. got \in Seq(1..MaxLines) /\ scanned + 1 \in 1..MaxLines
    BY <1>1, LinesAssumption DEF TypeOK
  <2>2. got' \in Seq(1..MaxLines) /\ Len(got') = Len(got) + 1
    BY <1>4, <2>1
  <2>3. Sent' = Sent \cup {scanned + 1}
    BY <1>4, <2>1, SentGrows
  <2>4. TypeOK'
    BY <1>1, <1>2, <1>3, <1>4, <2>2 DEF TypeOK, Stages
  <2>5. \A j \in 1..(scanned + 1) : j \in 1..scanned \/ j = scanned + 1
    BY <1>1
  <2>6. \A j \in 1..scanned : j \in 1..(scanned + 1)
    BY <1>1
  <2>7. Framed'
    BY <1>1, <1>2, <1>4, <2>5 DEF Framed
  <2>8. SentSoFar'
    BY <1>1, <1>2, <1>4, <2>3, <2>5, <2>6 DEF SentSoFar
  <2>9. (AtEvent /\ EndIsEnd /\ QuietIsWhole /\ FailureIsTold /\ ClosesLast)'
    BY <1>2, <1>3, <1>4
       DEF AtEvent, EndIsEnd, QuietIsWhole, FailureIsTold, ClosesLast
  <2> QED
    BY <2>4, <2>7, <2>8, <2>9
<1>5. CASE /\ UNCHANGED <<got, scanned, emitted>>
           /\ \/ emitBroken' = TRUE /\ told # "open" /\ ReturnQuietly
              \/ UNCHANGED emitBroken /\ mode = "collect" /\ ReportAs("upstream")
  <2>1. Sent' = Sent
    BY <1>5 DEF Sent
  <2>2. TypeOK'
    BY <1>2, <1>3, <1>5 DEF TypeOK, Stages, Reports, ReportAs, ReturnQuietly
  <2>3. (Framed /\ SentSoFar /\ EndIsEnd)'
    BY <1>2, <1>3, <1>5, <2>1 DEF Framed, SentSoFar, EndIsEnd
  <2>4. (AtEvent /\ QuietIsWhole /\ FailureIsTold /\ ClosesLast)'
    BY <1>2, <1>3, <1>5, <2>1
       DEF AtEvent, QuietIsWhole, FailureIsTold, ClosesLast, ReportAs, ReturnQuietly
  <2> QED
    BY <2>2, <2>3, <2>4
<1>6. CASE Emit
  BY <1>4, <1>5, <1>6 DEF Emit
<1>7. CASE Collect
  BY <1>4, <1>5, <1>7 DEF Collect
<1> QED
  BY <1>6, <1>7

\* The way out, a panic and a client that leaves.
LEMMA LeavingKeepsPInv ==
    ASSUME PInv,
           Report \/ Panic \/ Release \/ Recover \/ Close \/ Return \/ HangUp
    PROVE  PInv'
<1> USE DEF PInv
<1>1. UNCHANGED <<lines, got, mode, read, reader, scanned, emitted, emitBroken>>
  BY DEF Report, Panic, Release, Recover, Close, Return, HangUp, pump
<1>2. Sent' = Sent /\ Wanted' = Wanted /\ Fragments' = Fragments
  BY <1>1 DEF Sent, Wanted, Fragments
<1>3. (Framed /\ SentSoFar /\ EndIsEnd)'
  BY <1>1, <1>2 DEF Framed, SentSoFar, EndIsEnd
<1>4. TypeOK' /\ AtEvent'
  BY <1>1, <1>2
     DEF Report, Panic, Release, Recover, Close, Return, HangUp, EmitError, pump,
         TypeOK, AtEvent, Stages, Reports, Outcomes
<1>5. QuietIsWhole'
  BY <1>1, <1>2
     DEF Report, Panic, Release, Recover, Close, Return, HangUp, EmitError, pump,
         QuietIsWhole, Inside, FailureIsTold
<1>6. FailureIsTold'
  BY <1>1
     DEF Report, Panic, Release, Recover, Close, Return, HangUp, EmitError, pump,
         FailureIsTold, Inside, TypeOK
<1>7. ClosesLast'
  BY <1>1
     DEF Report, Panic, Release, Recover, Close, Return, HangUp, pump,
         ClosesLast, Inside, TypeOK, FailureIsTold
<1> QED
  BY <1>3, <1>4, <1>5, <1>6, <1>7

\* Every step keeps the invariant.
LEMMA NextPInv == PInv /\ [PumpNext]_vars => PInv'
<1>1. ASSUME PInv, UNCHANGED vars PROVE PInv'
  <2>1. Sent' = Sent /\ Wanted' = Wanted /\ Fragments' = Fragments
    BY <1>1 DEF vars, Sent, Wanted, Fragments
  <2>2. TypeOK'
    BY <1>1, <2>1 DEF PInv, TypeOK, vars
  <2>3. (Framed /\ SentSoFar /\ AtEvent /\ EndIsEnd)'
    BY <1>1, <2>1 DEF PInv, Framed, SentSoFar, AtEvent, EndIsEnd, vars
  <2>4. (QuietIsWhole /\ FailureIsTold /\ ClosesLast)'
    BY <1>1, <2>1 DEF PInv, QuietIsWhole, FailureIsTold, ClosesLast, vars
  <2> QED
    BY <2>2, <2>3, <2>4 DEF PInv
<1> QED
  BY <1>1, ReadingKeepsPInv, ScanningKeepsPInv, SendingKeepsPInv, LeavingKeepsPInv
     DEF PumpNext, Pump

\* So it holds for ever.
LEMMA Inductive == PumpSpec => []PInv
BY InitPInv, NextPInv, PTL DEF PumpSpec

----------------------------------------------------------------------------
(* The theorems *)

\* The call's state keeps its type, for bodies of any length.
THEOREM TypeCorrect == PumpSpec => []TypeOK
<1>1. PInv => TypeOK
  BY DEF PInv
<1> QED
  BY <1>1, Inductive, PTL

\* Every way out, a panic's too, releases the upstream body and closes the host
\* stream exactly once (the defers of pumpStream and pumpStreamChunks).
THEOREM ReleasedOnce == PumpSpec => []ReleasedAndClosedOnce
<1>1. PInv => ReleasedAndClosedOnce
  BY DEF PInv, ClosesLast, ReleasedAndClosedOnce, TypeOK
<1> QED
  BY <1>1, Inductive, PTL

\* What the goroutine does is what ClientStream promises: no truncated answer is
\* presented as complete, no event lost, repeated or out of order.
THEOREM PumpImplements == PumpSpec => ImplementsClientStream
<1> DEFINE client == <<lines, got, told>>
<1>1. PumpInit => Init
  BY DEF PumpInit
<1>2. PInv /\ [PumpNext]_vars => [Next]_client
  <2> SUFFICES ASSUME PInv, PumpNext PROVE Next \/ UNCHANGED client
    BY DEF vars
  <2>1. CASE Refused \/ Rejected \/ Accepted \/ ReadMore \/ ScanLine \/ ScanEnds
             \/ Panic \/ Release
    BY <2>1 DEF Refused, Rejected, Accepted, ReadMore, ScanLine, ScanEnds, Panic, Release
  <2>2. CASE Emit \/ Collect
    <3>1. lines' = lines /\ told' = told
      BY <2>2 DEF Emit, Collect
    <3>2. \/ got' = got
          \/ pc = "emit" /\ told = "open" /\ got' = Append(got, scanned + 1)
      BY <2>2 DEF Emit, Collect, PInv, FailureIsTold
    <3>3. CASE got' # got
      BY <3>1, <3>2, <3>3, NextEvent DEF Next, Deliver
    <3> QED
      BY <3>1, <3>3
  <2>3. CASE Report \/ Recover
    BY <2>3 DEF Report, Recover, EmitError, Next, Fail
  <2>4. CASE Close \/ Return
    <3>1. /\ UNCHANGED <<lines, got>> /\ pc = "close"
          /\ \/ UNCHANGED told
             \/ told = "open" /\ told' = "failed"
             \/ told = "open" /\ told' = "complete" /\ report = "none"
      BY <2>4 DEF Close, Return, PInv, FailureIsTold
    <3>2. CASE told = "open" /\ told' = "complete" /\ report = "none"
      <4>1. emitted > 0 /\ Wanted = Sent
        BY <3>1, <3>2 DEF PInv, QuietIsWhole
      <4>2. got # <<>>
        BY <4>1 DEF PInv, TypeOK
      <4> QED
        BY <3>1, <3>2, <4>1, <4>2 DEF Next, Complete
    <3> QED
      BY <3>1, <3>2 DEF Next, Fail
  <2>5. CASE HangUp
    BY <2>5 DEF HangUp, Next, Leave
  <2> QED
    BY <2>1, <2>2, <2>3, <2>4, <2>5 DEF PumpNext, Pump
<1> QED
  BY <1>1, <1>2, Inductive, PTL DEF PumpSpec, ImplementsClientStream, Spec
=============================================================================
