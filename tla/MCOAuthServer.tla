--------------------------- MODULE MCOAuthServer ----------------------------
(* Small instances of the authorization server for TLC. *)
EXTENDS OAuthServer, TLC

CONSTANTS c1, c2, u1, u2, v1, v2, p1, p2

D(c, u, ch, m, p) == [client |-> c, uri |-> u, challenge |-> ch, method |-> m, cred |-> p]
A(c, u, v) == [client |-> c, uri |-> u, verifier |-> v]

\* Logins of two people through two clients, and one with a method the server
\* does not know, whose code is worth nothing.
McDeals == {D(c1, u1, v1, "S256", p1), D(c2, u1, v2, "S256", p2), D(c1, u1, v1, "plain", p1)}

\* The claims that fit, and claims wrong in one respect.
McAsks == {A(c1, u1, v1), A(c2, u1, v2), A(c2, u1, v1), A(c1, u2, v1)}
McUris == {{u1}}

Symmetry == Permutations(Token) \cup Permutations(Exchange) \cup Permutations(Request)
            \cup Permutations(Login) \cup Permutations(Code)
=============================================================================
