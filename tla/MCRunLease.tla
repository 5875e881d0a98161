----------------------------- MODULE MCRunLease -----------------------------
(***************************************************************************)
(* Instances of RunLease for TLC.                                          *)
(***************************************************************************)
EXTENDS RunLease, TLC

Symmetry == Permutations(Replicas)
=============================================================================
