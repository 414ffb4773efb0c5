---------------------------- MODULE MCRegister -----------------------------
(* Small instances of Register for TLC. *)
EXTENDS Register
=============================================================================
