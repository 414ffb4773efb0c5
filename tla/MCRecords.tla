------------------------------ MODULE MCRecords -----------------------------
(* Small instances of Records for TLC. *)
EXTENDS Records, TLC

Symmetry == Permutations(Call)
=============================================================================
