----------------------------- MODULE MCRefCache -----------------------------
(* Small instances of RefCache for TLC. *)
EXTENDS RefCache, TLC

\* Sessions, and the reads on them, are interchangeable.
Symmetry == Permutations(Session) \cup Permutations(Reader)
=============================================================================
