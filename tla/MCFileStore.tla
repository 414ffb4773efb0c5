---------------------------- MODULE MCFileStore ----------------------------
(* Small instances of FileStore for TLC. *)
EXTENDS FileStore, TLC

\* Callers are interchangeable, and so are ids.
Symmetry == Permutations(Ids) \cup Permutations(Caller)
=============================================================================
