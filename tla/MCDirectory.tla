----------------------------- MODULE MCDirectory -----------------------------
(* Small instances of Directory for TLC. *)
EXTENDS Directory, TLC

Someone == CHOOSE n \in Name : TRUE

\* An employee, a label and a team of one name.
SeedDef == <<[kind |-> "role", name |-> Someone], [kind |-> "tag", name |-> Someone],
             [kind |-> "group", name |-> Someone]>>

Symmetry == Permutations(Call) \cup Permutations(Sess)
=============================================================================
