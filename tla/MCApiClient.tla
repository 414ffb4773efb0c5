---------------------------- MODULE MCApiClient -----------------------------
(* Small instances of the Vchasno client for TLC. *)
EXTENDS ApiClient, TLC

CONSTANTS s1, c1, c2

OneSession(C) == [c \in C |-> s1]
McSessOf == OneSession(Call)
Symmetry == Permutations(Call \ Once)
=============================================================================
