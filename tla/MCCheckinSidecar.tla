-------------------------- MODULE MCCheckinSidecar --------------------------
(***************************************************************************)
(* Small instances of CheckinSidecar.  The scheduler's pass reads a sidecar *)
(* and records outcomes; the panel's handlers may do anything.  After a hot *)
(* swap the scheduler of the old instance works next to the new one.        *)
(***************************************************************************)
EXTENDS CheckinSidecar, TLC

CONSTANTS scheduler, panel, old, new

OneInstance  == [p \in Procs |-> new]
TwoInstances == [p \in Procs |-> IF p = scheduler THEN old ELSE new]

Passes   == {Read} \cup {RecordRun(r) : r \in Runs}
Requests == [p \in Procs |-> IF p = scheduler THEN Passes ELSE Updates \cup {Read}]

\* Two handlers that edit, one of them still running in the old instance; paths
\* are interchangeable.
Edits    == [p \in Procs |-> Updates]
Symmetry == Permutations(Paths)
=============================================================================
