----------------------------- MODULE AuthGrant ------------------------------
(***************************************************************************)
(* What the authorization server promises of a login: a single-use grant.  *)
(* It is offered on the terms of the login, at most one access token comes *)
(* of it, only for somebody who meets the terms, and a grant that came to  *)
(* nothing never yields a token later.                                     *)
(***************************************************************************)
CONSTANTS Grant,      \* authorization codes
          Token,      \* access tokens
          Terms,      \* what a login settles: client, redirect URI, challenge, credentials
          Claim,      \* what is presented for a token: client, redirect URI, verifier
          Fit,        \* the pairs of a claim and the terms it meets
          None

VARIABLES state,      \* state[g]: none, offered, redeemed or void
          terms,      \* terms[g]: the terms of the login, or None
          token       \* token[t]: the grant it came of, the claim and its credentials

vars == <<state, terms, token>>

Init == /\ state = [g \in Grant |-> "none"]
        /\ terms = [g \in Grant |-> None]
        /\ token = [t \in Token |-> None]

\* A login offers a grant; grants that have grown old are dropped with it.
Offer(g, d, G) ==
    /\ state[g] = "none" /\ \A h \in G : state[h] = "offered"
    /\ state' = [h \in Grant |-> IF h = g THEN "offered"
                                 ELSE IF h \in G THEN "void" ELSE state[h]]
    /\ terms' = [terms EXCEPT ![g] = d]
    /\ UNCHANGED token

Redeem(g, a, t) ==
    /\ state[g] = "offered" /\ token[t] = None /\ <<a, terms[g]>> \in Fit
    /\ state' = [state EXCEPT ![g] = "redeemed"]
    /\ token' = [token EXCEPT ![t] = [of |-> g, by |-> a, cred |-> terms[g].cred]]
    /\ UNCHANGED terms

\* Any number of grants is lost at once when the server stops.
Void(G) ==
    /\ \A g \in G : state[g] = "offered"
    /\ state' = [g \in Grant |-> IF g \in G THEN "void" ELSE state[g]]
    /\ UNCHANGED <<terms, token>>

Next == \/ \E g \in Grant, a \in Claim, t \in Token : Redeem(g, a, t)
        \/ \E g \in Grant, d \in Terms, G \in SUBSET Grant : Offer(g, d, G)
        \/ \E G \in SUBSET Grant : Void(G)

Spec == Init /\ [][Next]_vars
=============================================================================
