-------------------------- MODULE SidecarRegister --------------------------
(***************************************************************************)
(* What the check-in code relies on: per sidecar path one record, changed  *)
(* by whole updates that take effect at one instant.  A path on which      *)
(* v0.2.4 left a record is not settled until the first update or the       *)
(* migration: up to then an I/O error may hide that record, and damage     *)
(* may bring it back.  CheckinSidecar is shown to implement this; Checkin  *)
(* is written on top of it.                                                *)
(***************************************************************************)
EXTENDS SidecarRecords

VARIABLES sidecar,      \* the record each path holds
          inherited     \* the record v0.2.4 left for it, in a set of at most one

Settle(f) == inherited' = [inherited EXCEPT ![f] = {}]

\* updateCheckinSidecar: a whole update, of the record or, where a record of
\* v0.2.4 was overlooked, of an empty one.
Update(f, u) ==
    /\ \/ sidecar' = [sidecar EXCEPT ![f] = Apply(u, sidecar[f])]
       \/ inherited[f] # {} /\ sidecar' = [sidecar EXCEPT ![f] = Apply(u, EmptySidecar)]
    /\ Settle(f)

\* The record of v0.2.4 becomes the current one.
Migrate(f) == sidecar[f] \in inherited[f] /\ Settle(f) /\ UNCHANGED sidecar

\* The damaged file in front of it is moved away.
Uncover(f) == /\ \E sc \in inherited[f] : sidecar' = [sidecar EXCEPT ![f] = sc]
              /\ UNCHANGED inherited

Init == /\ sidecar \in [Paths -> Sidecars]
        /\ inherited \in [Paths -> {{}} \cup {{sc} : sc \in Sidecars}]

Next == \E f \in Paths : \/ \E u \in Updates : Update(f, u)
                         \/ Migrate(f) \/ Uncover(f)

Spec == Init /\ [][Next]_<<sidecar, inherited>>
============================================================================
