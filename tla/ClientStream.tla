---------------------------- MODULE ClientStream ----------------------------
(***************************************************************************)
(* What the client of a streamed answer is promised: it gets the events of *)
(* the upstream answer in order, each once, and is told "complete" only    *)
(* when it has got them all.  Otherwise it is told of a failure, unless it *)
(* has left.                                                               *)
(***************************************************************************)
EXTENDS Naturals, Sequences

CONSTANT MaxLines     \* bound: the longest upstream body

ASSUME LinesAssumption == MaxLines \in Nat

VARIABLES lines,      \* the upstream body, one kind per line
          got,        \* the lines the client was sent, in order
          told        \* how its stream stands

Kinds == {"event",    \* a JSON payload
          "noise",    \* blank lines, comments, what is not JSON
          "huge",     \* an event longer than the scanner's 4 MiB
          "done"}     \* the [DONE] sentinel

Bodies   == UNION {[1..n -> Kinds] : n \in 0..MaxLines}
Outcomes == {"open", "complete", "failed", "left"}

\* The events of the answer: those before the sentinel.
Wanted == {i \in DOMAIN lines : /\ lines[i] \in {"event", "huge"}
                                /\ \A j \in 1..i : lines[j] # "done"}

Sent == {got[k] : k \in DOMAIN got}

Init == lines \in Bodies /\ got = <<>> /\ told = "open"

Deliver ==
    /\ told = "open"
    /\ \E i \in Wanted \ Sent :
          /\ \A j \in Wanted : j < i => j \in Sent
          /\ got' = Append(got, i)
    /\ UNCHANGED <<lines, told>>

Complete ==
    /\ told = "open" /\ got # <<>> /\ Wanted = Sent
    /\ told' = "complete"
    /\ UNCHANGED <<lines, got>>

Fail  == told = "open" /\ told' = "failed" /\ UNCHANGED <<lines, got>>
Leave == told = "open" /\ told' = "left" /\ UNCHANGED <<lines, got>>

Next == Deliver \/ Complete \/ Fail \/ Leave

Spec == Init /\ [][Next]_<<lines, got, told>>
=============================================================================
