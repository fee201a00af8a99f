--------------------------- MODULE MCAttestation ---------------------------
(***************************************************************************)
(* Small instances of Attestation.  Requests are interchangeable.          *)
(***************************************************************************)
EXTENDS Attestation, TLC

Symmetry == Permutations(Users)
============================================================================
