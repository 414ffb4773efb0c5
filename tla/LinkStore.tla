----------------------------- MODULE LinkStore -----------------------------
(***************************************************************************)
(* What the download store promises to whoever holds a link, without       *)
(* files, registries, locks or clocks.  A link comes to life once, dies    *)
(* once and stays dead.  Asking for a link takes time, and the answer only *)
(* has to be right for some moment between the question and the answer.    *)
(***************************************************************************)
CONSTANTS Ids,      \* the links
          Caller,   \* the requests for a link
          None      \* no link

VARIABLES link,     \* link[id]: "none" before it works, "live", "dead"
          asked,    \* asked[c]: the link request c is about, None when idle
          state,    \* state[c]: "idle", "open" or answered "yes" / "no"
          seen      \* seen[c]: was the link live / not live during request c

vars == <<link, asked, state, seen>>

Unseen == [live |-> FALSE, dead |-> FALSE]

Init == /\ link = [id \in Ids |-> "none"]
        /\ asked = [c \in Caller |-> None]
        /\ state = [c \in Caller |-> "idle"]
        /\ seen = [c \in Caller |-> Unseen]

-----------------------------------------------------------------------------

\* The life of a link, seen by every request that is open on it.
Watch(on) == seen' = [c \in Caller |->
    IF c \in on
    THEN [live |-> seen[c].live \/ link'[asked'[c]] = "live",
          dead |-> seen[c].dead \/ link'[asked'[c]] # "live"]
    ELSE IF state'[c] = "idle" THEN Unseen ELSE seen[c]]

Open == {c \in Caller : state[c] = "open"}

Issue(id) == /\ link[id] = "none"
             /\ link' = [link EXCEPT ![id] = "live"]
             /\ UNCHANGED <<asked, state>>
             /\ Watch(Open)

\* Links die one at a time, when revoked, or together, when time passes or
\* the process stops.  A stop also drops the requests D it was serving.
Kill(K, D) == /\ \A id \in K : link[id] # "dead"
              /\ link' = [id \in Ids |-> IF id \in K THEN "dead" ELSE link[id]]
              /\ state' = [c \in Caller |-> IF c \in D THEN "idle" ELSE state[c]]
              /\ asked' = [c \in Caller |-> IF c \in D THEN None ELSE asked[c]]
              /\ Watch(Open \ D)

Ask(c, id) == /\ state[c] = "idle"
              /\ asked' = [asked EXCEPT ![c] = id]
              /\ state' = [state EXCEPT ![c] = "open"]
              /\ UNCHANGED link
              /\ Watch(Open \cup {c})

\* A link that does not work at the moment of the question may be refused at
\* once; otherwise the answer is one the request has seen to be right.
Refuse(c, id) == /\ state[c] = "idle" /\ link[id] # "live"
                 /\ asked' = [asked EXCEPT ![c] = id]
                 /\ state' = [state EXCEPT ![c] = "no"]
                 /\ UNCHANGED link
                 /\ Watch(Open \cup {c})

Answer(c) == /\ state[c] = "open"
             /\ \/ seen[c].live /\ state' = [state EXCEPT ![c] = "yes"]
                \/ seen[c].dead /\ state' = [state EXCEPT ![c] = "no"]
             /\ UNCHANGED <<link, asked>>
             /\ Watch(Open)

Done(c) == /\ state[c] \in {"yes", "no"}
           /\ state' = [state EXCEPT ![c] = "idle"]
           /\ asked' = [asked EXCEPT ![c] = None]
           /\ UNCHANGED link
           /\ Watch(Open)

Next == \/ \E id \in Ids : Issue(id)
        \/ \E K \in SUBSET Ids, D \in SUBSET Caller : Kill(K, D)
        \/ \E c \in Caller, id \in Ids : Ask(c, id) \/ Refuse(c, id)
        \/ \E c \in Caller : Answer(c) \/ Done(c)

Spec == Init /\ [][Next]_vars
=============================================================================
