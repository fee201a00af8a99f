----------------------------- MODULE StreamPump -----------------------------
(***************************************************************************)
(* One streamed answer: the upstream body arrives in chunks that cut lines *)
(* anywhere and scanSSE frames them again.  A call with a stream ID starts *)
(* pumpStream, which sends every event to the host stream and closes it; a *)
(* call without one runs collectStream, which returns all events at once.  *)
(* The upstream can refuse, reject, break off; the client can hang up;     *)
(* either of the two can panic.                                            *)
(*                                                                         *)
(* A line is two fragments, so that a chunk can end inside it.  The host's *)
(* side of a stream is external: an emit fails when the client has left, a *)
(* close without an error before it makes the host append [DONE].          *)
(***************************************************************************)
EXTENDS ClientStream

CONSTANT MaxCollected \* maxStreamCollectBytes, in events

ASSUME CollectAssumption == MaxCollected \in Nat

VARIABLES mode,       \* "pump" or "collect": whether the call has a stream ID
          pc,         \* where the goroutine is
          upstream,   \* the handle of the upstream body
          read,       \* how many fragments it has delivered
          reader,     \* streamReader's done/err
          scanned,    \* how many lines the scanner has handed over
          emitted,    \* how many events went out or were collected
          emitBroken, \* an emit failed: the client hung up
          report,     \* the failure to report
          closes      \* history: how often the host stream was closed

pump == <<mode, pc, upstream, read, reader, scanned, emitted, emitBroken, report, closes>>
vars == <<lines, got, told, mode, pc, upstream, read, reader, scanned, emitted,
          emitBroken, report, closes>>

Stages  == {"open", "scan", "emit", "report", "release", "recover", "close", "done"}
Reports == {"none", "upstream", "empty", "panic"}
\* Inside pumpStreamChunks; its defers run from "release" on.
Inside  == {"open", "scan", "emit", "report"}

PumpInit ==
    /\ Init
    /\ mode \in {"pump", "collect"}
    /\ pc = "open"
    /\ upstream = "none"
    /\ read = 0
    /\ reader = "more"
    /\ scanned = 0
    /\ emitted = 0
    /\ emitBroken = FALSE
    /\ report = "none"
    /\ closes = 0

\* pumpStreamChunks hands a failure to emitError, collectStream returns it; both
\* may return without one.
ReportAs(failure) == /\ report' = failure
                     /\ pc' = IF mode = "pump" THEN "report" ELSE "release"
ReturnQuietly     == pc' = "release" /\ UNCHANGED report

----------------------------------------------------------------------------
(* doStream *)

Refused ==
    /\ pc = "open"
    /\ ReportAs("upstream")
    /\ UNCHANGED <<lines, got, told, mode, upstream, read, reader, scanned, emitted,
                   emitBroken, closes>>

\* Status 400 and above: the body is the gateway's error message.
Rejected ==
    /\ pc = "open"
    /\ upstream' = "open"
    /\ ReportAs("upstream")
    /\ UNCHANGED <<lines, got, told, mode, read, reader, scanned, emitted,
                   emitBroken, closes>>

Accepted ==
    /\ pc = "open"
    /\ upstream' = "open"
    /\ pc' = "scan"
    /\ UNCHANGED <<lines, got, told, mode, read, reader, scanned, emitted, emitBroken,
                   report, closes>>

----------------------------------------------------------------------------
(* upstreamStream.Read, streamReader and scanSSE *)

Fragments == 2 * Len(lines)
Buffered  == 2 * (scanned + 1) <= read

\* The scanner wants more: a chunk, the end of the body (alone or with the
\* last chunk), or a read error.
ReadMore ==
    /\ pc = "scan" /\ ~Buffered /\ reader = "more"
    /\ \/ \E n \in (read + 1)..Fragments :
             /\ read' = n
             /\ reader' \in {"more"} \cup (IF n = Fragments THEN {"eof"} ELSE {})
       \/ read = Fragments /\ reader' = "eof" /\ UNCHANGED read
       \/ reader' = "error" /\ UNCHANGED read
    /\ UNCHANGED <<lines, got, told, mode, pc, upstream, scanned, emitted, emitBroken,
                   report, closes>>

\* The next whole line.
ScanLine ==
    /\ pc = "scan" /\ Buffered
    /\ LET kind == lines[scanned + 1] IN
       \/ kind = "noise" /\ scanned' = scanned + 1 /\ UNCHANGED <<pc, report>>
       \/ kind = "event" /\ pc' = "emit" /\ UNCHANGED <<scanned, report>>
       \/ kind = "huge" /\ ReportAs("upstream") /\ UNCHANGED scanned
       \/ /\ kind = "done"
          /\ IF emitted = 0 THEN ReportAs("empty") ELSE ReturnQuietly
          /\ UNCHANGED scanned
    /\ UNCHANGED <<lines, got, told, mode, upstream, read, reader, emitted,
                   emitBroken, closes>>

\* Faulty: once events went out, a read error ends the stream quietly.
ScanEndsQuietly ==
    /\ pc = "scan" /\ ~Buffered /\ reader # "more"
    /\ IF emitted = 0 THEN ReportAs("empty") ELSE ReturnQuietly
    /\ UNCHANGED <<lines, got, told, mode, upstream, read, reader, scanned, emitted,
                   emitBroken, closes>>

\* The body is over.  Half a line left behind by a broken body is not JSON and
\* is dropped; the error is reported.
ScanEnds ==
    /\ pc = "scan" /\ ~Buffered /\ reader # "more"
    /\ IF reader = "error" THEN ReportAs("upstream")
       ELSE IF emitted = 0 THEN ReportAs("empty") ELSE ReturnQuietly
    /\ UNCHANGED <<lines, got, told, mode, upstream, read, reader, scanned, emitted,
                   emitBroken, closes>>

\* Faulty: the events that went out are not counted.
EmitUncounted ==
    /\ pc = "emit" /\ mode = "pump"
    /\ \/ /\ told = "open"
          /\ got' = Append(got, scanned + 1)
          /\ scanned' = scanned + 1
          /\ pc' = "scan"
          /\ UNCHANGED <<emitBroken, report>>
       \/ /\ told # "open"
          /\ emitBroken' = TRUE
          /\ ReturnQuietly
          /\ UNCHANGED <<got, scanned>>
    /\ UNCHANGED <<lines, told, mode, upstream, read, reader, emitted, closes>>

\* streamEmit: the host takes the event, or the client is gone and the pump
\* stops reading without a word.
Emit ==
    /\ pc = "emit" /\ mode = "pump"
    /\ \/ /\ told = "open"
          /\ got' = Append(got, scanned + 1)
          /\ scanned' = scanned + 1
          /\ emitted' = emitted + 1
          /\ pc' = "scan"
          /\ UNCHANGED <<emitBroken, report>>
       \/ /\ told # "open"
          /\ emitBroken' = TRUE
          /\ ReturnQuietly
          /\ UNCHANGED <<got, scanned, emitted>>
    /\ UNCHANGED <<lines, told, mode, upstream, read, reader, closes>>

\* Faulty: past the limit the rest of the answer is dropped.
CollectSoFar ==
    /\ pc = "emit" /\ mode = "collect"
    /\ IF emitted = MaxCollected
       THEN ReturnQuietly /\ UNCHANGED <<got, scanned, emitted>>
       ELSE /\ got' = Append(got, scanned + 1)
            /\ scanned' = scanned + 1
            /\ emitted' = emitted + 1
            /\ pc' = "scan"
            /\ UNCHANGED report
    /\ UNCHANGED <<lines, told, mode, upstream, read, reader, emitBroken, closes>>

\* collectStream keeps the event, unless the answer grew too large.  What it
\* collected reaches the client only if the call succeeds.
Collect ==
    /\ pc = "emit" /\ mode = "collect"
    /\ IF emitted = MaxCollected
       THEN ReportAs("upstream") /\ UNCHANGED <<got, scanned, emitted>>
       ELSE /\ got' = Append(got, scanned + 1)
            /\ scanned' = scanned + 1
            /\ emitted' = emitted + 1
            /\ pc' = "scan"
            /\ UNCHANGED report
    /\ UNCHANGED <<lines, told, mode, upstream, read, reader, emitBroken, closes>>

----------------------------------------------------------------------------
(* The way out *)

\* emitError; its own result is ignored.
EmitError == told' = IF told = "open" THEN "failed" ELSE told

Report ==
    /\ pc = "report"
    /\ EmitError
    /\ pc' = "release"
    /\ UNCHANGED <<lines, got, mode, upstream, read, reader, scanned, emitted, emitBroken,
                   report, closes>>

\* A panic anywhere in pumpStreamChunks or collectStream unwinds through the
\* same defers.
Panic ==
    /\ pc \in Inside
    /\ report' = "panic"
    /\ pc' = "release"
    /\ UNCHANGED <<lines, got, told, mode, upstream, read, reader, scanned, emitted,
                   emitBroken, closes>>

\* Faulty: the upstream handle is given back on the normal return only.
ReleaseUnlessPanic ==
    /\ pc = "release"
    /\ upstream' = IF report = "panic" THEN upstream ELSE "closed"
    /\ pc' = IF report = "panic" /\ mode = "pump" THEN "recover" ELSE "close"
    /\ UNCHANGED <<lines, got, told, mode, read, reader, scanned, emitted, emitBroken,
                   report, closes>>

\* defer stream.Close().
Release ==
    /\ pc = "release"
    /\ upstream' = IF upstream = "open" THEN "closed" ELSE upstream
    /\ pc' = IF report = "panic" /\ mode = "pump" THEN "recover" ELSE "close"
    /\ UNCHANGED <<lines, got, told, mode, read, reader, scanned, emitted, emitBroken,
                   report, closes>>

\* defer reportStreamPanic.
Recover ==
    /\ pc = "recover"
    /\ EmitError
    /\ pc' = "close"
    /\ UNCHANGED <<lines, got, mode, upstream, read, reader, scanned, emitted, emitBroken,
                   report, closes>>

\* Faulty: only a stream with a failure is closed.
CloseOnFailureOnly ==
    /\ pc = "close" /\ mode = "pump"
    /\ pc' = "done"
    /\ closes' = IF report = "none" THEN closes ELSE closes + 1
    /\ UNCHANGED <<lines, got, told, mode, upstream, read, reader, scanned, emitted,
                   emitBroken, report>>

\* defer streamClose: the host ends a stream that saw no error with [DONE].
Close ==
    /\ pc = "close" /\ mode = "pump"
    /\ pc' = "done"
    /\ closes' = closes + 1
    /\ told' = IF told = "open" THEN "complete" ELSE told
    /\ UNCHANGED <<lines, got, mode, upstream, read, reader, scanned, emitted, emitBroken,
                   report>>

\* The call without a stream ID returns the events, or an error: a panic as the
\* one dispatch makes of it.
Return ==
    /\ pc = "close" /\ mode = "collect"
    /\ pc' = "done"
    /\ told' = IF report = "none" THEN "complete" ELSE "failed"
    /\ UNCHANGED <<lines, got, mode, upstream, read, reader, scanned, emitted, emitBroken,
                   report, closes>>

\* The client disconnects and the host closes its stream; a call without one does
\* not notice.
HangUp ==
    /\ mode = "pump" /\ told = "open" /\ pc # "done"
    /\ told' = "left"
    /\ UNCHANGED <<lines, got, pump>>

Pump == \/ Refused \/ Rejected \/ Accepted
        \/ ReadMore \/ ScanLine \/ ScanEnds \/ Emit \/ Collect
        \/ Report \/ Release \/ Recover \/ Close \/ Return

PumpNext == Pump \/ Panic \/ HangUp

\* The goroutine keeps running, and the upstream neither hangs for ever nor
\* sends empty chunks for ever.
PumpSpec == PumpInit /\ [][PumpNext]_vars /\ WF_vars(Pump)

----------------------------------------------------------------------------
(* Properties *)

TypeOK ==
    /\ mode \in {"pump", "collect"}
    /\ lines \in Bodies
    /\ got \in Seq(1..MaxLines)
    /\ told \in Outcomes
    /\ pc \in Stages
    /\ upstream \in {"none", "open", "closed"}
    /\ read \in 0..Fragments
    /\ reader \in {"more", "eof", "error"}
    /\ scanned \in 0..Len(lines)
    /\ emitted = Len(got)
    /\ emitBroken \in BOOLEAN
    /\ report \in Reports
    /\ closes \in Nat

\* Pump and collector keep the promise of ClientStream: no truncated answer is presented
\* as complete, whatever broke and whenever, and no event is lost, repeated or
\* out of order although chunks cut lines anywhere (pumpStreamChunks,
\* collectStream, reportStreamPanic).
ImplementsClientStream == Spec

\* The host stream is closed exactly once, none is closed where there is none, and
\* the upstream body is released on every way out, panics included.
ReleasedAndClosedOnce ==
    /\ closes <= 1
    /\ pc \in {"recover", "close", "done"} => upstream # "open"
    /\ pc = "done" => closes = IF mode = "pump" THEN 1 ELSE 0

\* The client of a stream that is over has been told how it ended, and every
\* stream ends.
EveryClientTold == <>(told # "open")
=============================================================================
