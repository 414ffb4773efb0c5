---------------------------- MODULE OAuthServer -----------------------------
(***************************************************************************)
(* The OAuth authorization server (internal/auth): dynamic registration of *)
(* clients, logins that end in a single-use authorization code, codes      *)
(* exchanged for access tokens, and tokens resolved to live sessions.      *)
(*                                                                         *)
(* Everything but the RSA key is in memory and gone when the process ends; *)
(* the key is in a file so that tokens outlive the process.  One action is *)
(* one critical section, request or file operation; the handlers of        *)
(* several requests interleave between them.                               *)
(***************************************************************************)
EXTENDS Naturals, FiniteSets

CONSTANTS Client, Uri, Verifier, Cred,
          Deal,        \* the logins that are tried
          Ask,         \* the claims that are presented for a token
          UriSets,     \* the redirect URIs clients register with
          Code, Token, \* random identifiers, never drawn twice
          Login, Exchange, Request,   \* handlers running at the same time
          None,
          CodeLife,    \* how long a code can be exchanged (5 min), in ticks
          PurgeAge,    \* codes older than this are dropped (10 min)
          TokenLife,   \* MCP_JWT_EXPIRY_DAYS
          ReadFaults,  \* can reading an intact key file fail?
          MaxTime, MaxStarts, MaxSess   \* bounds: clock, starts, sessions per process

Challenge == Verifier \cup {None}
Terms == [client : Client, uri : Uri, challenge : Challenge, method : {"S256", "plain"}, cred : Cred]
Claim == [client : Client, uri : Uri, verifier : Verifier]
Time  == 0 .. MaxTime
Key   == 0 .. MaxStarts

\* The n-th session a process opened, for some credentials.
Session    == [n : 1 .. MaxSess, cred : Cred]
CodeEntry  == [deal : Terms, at : Time, sess : Session]
TokenEntry == [of : Code, by : Claim, key : Key, saved : BOOLEAN, cred : Cred, exp : Nat]

ASSUME OAuthAssumption ==
    /\ Deal \subseteq Terms /\ Ask \subseteq Claim /\ UriSets \subseteq SUBSET Uri \ {{}}
    /\ CodeLife \in Nat /\ PurgeAge \in Nat /\ TokenLife \in Nat /\ ReadFaults \in BOOLEAN
    /\ MaxTime \in Nat /\ MaxStarts \in Nat /\ MaxSess \in Nat
    /\ None \notin Nat \cup Verifier \cup Terms \cup CodeEntry \cup Session \cup TokenEntry
    /\ None \notin [of : Code, by : Claim, cred : Cred]

VARIABLES boot,      \* down, keyed (a new key is not saved yet) or up
          key,       \* the key of this process
          disk,      \* the key in the key file, or None when there is no usable one
          starts,    \* starts so far; numbers the keys
          clients,   \* clients[c]: registered redirect URIs, {} when unknown
          codes,     \* codes[c]: terms, time and session of the login, or None
          sessions,  \* sessions[t]: the live session of a token, or None
          login, exch, req,   \* the handlers
          made,      \* sessions opened by this process
          now,
          known,     \* history: client ids ever given out,
          deal,      \* ... the terms each code was issued on, or None,
          token,     \* ... the tokens made, or None,
          handed,    \* ... the tokens a client has been given,
          served     \* ... the sessions of this process each token was answered with

mem  == <<clients, codes, sessions, login, exch, req, made, served>>
hist == <<known, deal, token, handed>>
vars == <<boot, key, disk, starts, now, mem, hist>>

IdleLogin == [pc |-> "idle", deal |-> None]
IdleExch  == [pc |-> "idle", code |-> None, ac |-> None, ask |-> None, token |-> None]
IdleReq   == [pc |-> "idle", token |-> None]

\* The memory of a process that has just started.
Empty(cls, cds, sss, lgs, exs, rqs) ==
    /\ cls = [c \in Client |-> {}]
    /\ cds = [c \in Code |-> None]
    /\ sss = [t \in Token |-> None]
    /\ lgs = [l \in Login |-> IdleLogin]
    /\ exs = [e \in Exchange |-> IdleExch]
    /\ rqs = [q \in Request |-> IdleReq]

Init == /\ boot = "down" /\ key = 0 /\ disk = None /\ starts = 0 /\ now = 0
        /\ Empty(clients, codes, sessions, login, exch, req)
        /\ made = 0 /\ served = [t \in Token |-> {}]
        /\ known = {} /\ deal = [c \in Code |-> None] /\ token = [t \in Token |-> None] /\ handed = {}

-----------------------------------------------------------------------------
\* LoadOrGenerateKey: a readable key file is the key; after any failure to read
\* or parse it a new key is made ...
LoadAlways ==                        \* mutant: the file is not looked at
    /\ boot = "down" /\ starts < MaxStarts
    /\ starts' = starts + 1 /\ key' = starts' /\ boot' = "keyed"
    /\ UNCHANGED <<disk, now, mem, hist>>

LoadKey ==
    /\ boot = "down" /\ starts < MaxStarts
    /\ starts' = starts + 1
    /\ \/ disk # None /\ key' = disk /\ boot' = "up"
       \/ (disk = None \/ ReadFaults) /\ key' = starts' /\ boot' = "keyed"
    /\ UNCHANGED <<disk, now, mem, hist>>

\* ... and saved, if the directory can be written: otherwise the file stays as it
\* was or is cut short, and the process serves with a key nobody can load again.
SaveKey ==
    /\ boot = "keyed"
    /\ disk' \in {key, disk, None} /\ boot' = "up"
    /\ UNCHANGED <<key, starts, now, mem, hist>>

\* The process ends, also in the middle of writing the key file.
Crash ==
    /\ boot # "down" /\ starts < MaxStarts
    /\ boot' = "down"
    /\ disk' \in IF boot = "keyed" THEN {key, disk, None} ELSE {disk}
    /\ Empty(clients', codes', sessions', login', exch', req')
    /\ made' = 0 /\ served' = [t \in Token |-> {}]
    /\ UNCHANGED <<key, starts, now, hist>>

-----------------------------------------------------------------------------
\* POST /register
RegisterClient(c, us) ==
    /\ boot = "up" /\ c \notin known
    /\ clients' = [clients EXCEPT ![c] = us]
    /\ known' = known \cup {c}
    /\ UNCHANGED <<boot, key, disk, starts, now, codes, sessions, login, exch, req, made, served,
                   deal, token, handed>>

IsValidClient(d) == d.uri \in clients[d.client]

\* POST /authorize/callback: the client is checked, then Vchasno is asked about
\* the credentials without any lock held.
Submit(l, d) ==
    /\ boot = "up" /\ login[l].pc = "idle" /\ IsValidClient(d)
    /\ login' = [login EXCEPT ![l] = [pc |-> "connecting", deal |-> d]]
    /\ UNCHANGED <<boot, key, disk, starts, now, clients, codes, sessions, exch, req, made, served,
                   hist>>

LoginFails(l) ==
    /\ login[l].pc = "connecting"
    /\ login' = [login EXCEPT ![l] = IdleLogin]
    /\ UNCHANGED <<boot, key, disk, starts, now, clients, codes, sessions, exch, req, made, served,
                   hist>>

Opened(cr) == [n |-> made + 1, cred |-> cr]

\* The session is open: CreateAuthCode stores a code for it and drops stale ones.
CreateAuthCode(l, c) ==
    /\ login[l].pc = "connecting" /\ deal[c] = None /\ made < MaxSess
    /\ made' = made + 1
    /\ codes' = [x \in Code |->
           IF x = c THEN [deal |-> login[l].deal, at |-> now, sess |-> Opened(login[l].deal.cred)]
           ELSE IF codes[x] # None /\ now - codes[x].at > PurgeAge THEN None
           ELSE codes[x]]
    /\ deal' = [deal EXCEPT ![c] = login[l].deal]
    /\ login' = [login EXCEPT ![l] = IdleLogin]
    /\ UNCHANGED <<boot, key, disk, starts, now, clients, sessions, exch, req, served, known, token, handed>>

-----------------------------------------------------------------------------
\* POST /token: whatever comes of the exchange, the code is taken out first.
TakeNothing(e, c, a) ==              \* mutant: the code is deleted only on success
    /\ exch[e].pc = "idle" /\ codes[c] # None
    /\ exch' = [exch EXCEPT ![e] = [pc |-> "taken", code |-> c, ac |-> codes[c], ask |-> a, token |-> None]]
    /\ UNCHANGED <<boot, key, disk, starts, now, clients, codes, sessions, login, req, made, served, hist>>

TakeUnknown(e, c, a) ==              \* mutant: a code nobody knows is not refused
    /\ exch[e].pc = "idle"
    /\ codes' = [codes EXCEPT ![c] = None]
    /\ exch' = [exch EXCEPT ![e] = [pc |-> "taken", code |-> c, ac |-> codes[c], ask |-> a, token |-> None]]
    /\ UNCHANGED <<boot, key, disk, starts, now, clients, sessions, login, req, made, served, hist>>

TakeCode(e, c, a) ==
    /\ exch[e].pc = "idle" /\ codes[c] # None
    /\ codes' = [codes EXCEPT ![c] = None]
    /\ exch' = [exch EXCEPT ![e] = [pc |-> "taken", code |-> c, ac |-> codes[c], ask |-> a, token |-> None]]
    /\ UNCHANGED <<boot, key, disk, starts, now, clients, sessions, login, req, made, served, hist>>

\* The challenge is the hash of a verifier, or something no verifier hashes to.
VerifyPKCE(v, challenge, method) == method = "S256" /\ challenge = v

Fits(a, d) == a.client = d.client /\ a.uri = d.uri /\ VerifyPKCE(a.verifier, d.challenge, d.method)

Refuse(e) ==
    /\ exch[e].pc = "taken"
    /\ now - exch[e].ac.at > CodeLife \/ ~Fits(exch[e].ask, exch[e].ac.deal)
    /\ exch' = [exch EXCEPT ![e] = IdleExch]
    /\ UNCHANGED <<boot, key, disk, starts, now, clients, codes, sessions, login, req, made, served, hist>>

\* CreateToken: a signed and encrypted token carrying the credentials.
CreateToken(e, t) ==
    /\ exch[e].pc = "taken" /\ token[t] = None
    /\ now - exch[e].ac.at <= CodeLife /\ Fits(exch[e].ask, exch[e].ac.deal)
    /\ token' = [token EXCEPT ![t] = [of |-> exch[e].code, by |-> exch[e].ask, key |-> key,
                    saved |-> (disk = key), cred |-> exch[e].ac.deal.cred, exp |-> now + TokenLife]]
    /\ exch' = [exch EXCEPT ![e].pc = "made", ![e].token = t]
    /\ UNCHANGED <<boot, key, disk, starts, now, clients, codes, sessions, login, req, made, served,
                   known, deal, handed>>

\* The session of the login becomes the session of the token, and the client is
\* answered.
HandOver(e) ==
    /\ exch[e].pc = "made"
    /\ sessions' = [sessions EXCEPT ![exch[e].token] = exch[e].ac.sess]
    /\ exch' = [exch EXCEPT ![e] = IdleExch]
    /\ handed' = handed \cup {exch[e].token}
    /\ UNCHANGED <<boot, key, disk, starts, now, clients, codes, login, req, made, served,
                   known, deal, token>>

-----------------------------------------------------------------------------
\* SessionByToken: the live session of the token is the answer; without one the
\* token itself is looked at ...
Valid(t) == token[t].key = key /\ now <= token[t].exp

Serve(q, t, s) ==
    /\ served' = [served EXCEPT ![t] = @ \cup {s}]
    /\ req' = [req EXCEPT ![q] = IdleReq]

Resolve(q, t) ==
    /\ boot = "up" /\ req[q].pc = "idle" /\ t \in handed
    /\ \/ sessions[t] # None /\ Serve(q, t, sessions[t])
       \/ /\ sessions[t] = None /\ Valid(t)
          /\ req' = [req EXCEPT ![q] = [pc |-> "connecting", token |-> t]]
          /\ UNCHANGED served
    /\ UNCHANGED <<boot, key, disk, starts, now, clients, codes, sessions, login, exch, made, hist>>

\* ... and Vchasno is asked for a new session without the lock.
ConnectFails(q) ==
    /\ req[q].pc = "connecting"
    /\ req' = [req EXCEPT ![q] = IdleReq]
    /\ UNCHANGED <<boot, key, disk, starts, now, clients, codes, sessions, login, exch, made, served, hist>>

\* If another request was faster its session is the answer.
KeepNewest(q) ==                     \* mutant: the second look is left out
    /\ req[q].pc = "connecting" /\ made < MaxSess
    /\ made' = made + 1
    /\ LET t == req[q].token IN
         /\ sessions' = [sessions EXCEPT ![t] = Opened(token[t].cred)]
         /\ Serve(q, t, sessions'[t])
    /\ UNCHANGED <<boot, key, disk, starts, now, clients, codes, login, exch, hist>>

Restore(q) ==
    /\ req[q].pc = "connecting" /\ made < MaxSess
    /\ made' = made + 1
    /\ LET t == req[q].token IN
         /\ sessions' = [sessions EXCEPT ![t] = IF @ # None THEN @ ELSE Opened(token[t].cred)]
         /\ Serve(q, t, sessions'[t])
    /\ UNCHANGED <<boot, key, disk, starts, now, clients, codes, login, exch, hist>>

Tick == /\ now < MaxTime /\ now' = now + 1
        /\ UNCHANGED <<boot, key, disk, starts, mem, hist>>

Next == \/ LoadKey \/ SaveKey \/ Crash \/ Tick
        \/ \E c \in Client, us \in UriSets : RegisterClient(c, us)
        \/ \E l \in Login : \/ \E d \in Deal : Submit(l, d)
                           \/ LoginFails(l)
                           \/ \E c \in Code : CreateAuthCode(l, c)
        \/ \E e \in Exchange : \/ \E c \in Code, a \in Ask : TakeCode(e, c, a)
                              \/ \E t \in Token : CreateToken(e, t)
                              \/ Refuse(e) \/ HandOver(e)
        \/ \E q \in Request : \/ \E t \in Token : Resolve(q, t)
                             \/ ConnectFails(q) \/ Restore(q)

Spec == Init /\ [][Next]_vars

-----------------------------------------------------------------------------
(* Properties *)

TypeOK ==
    /\ boot \in {"down", "keyed", "up"} /\ key \in Key /\ disk \in Key \cup {None}
    /\ starts \in Key /\ now \in Time
    /\ clients \in [Client -> SUBSET Uri] /\ known \subseteq Client
    /\ codes \in [Code -> CodeEntry \cup {None}]
    /\ sessions \in [Token -> Session \cup {None}]
    /\ login \in [Login -> [pc : {"idle", "connecting"}, deal : Terms \cup {None}]]
    /\ exch \in [Exchange -> [pc : {"idle", "taken", "made"}, code : Code \cup {None},
                  ac : CodeEntry \cup {None}, ask : Claim \cup {None}, token : Token \cup {None}]]
    /\ \A e \in Exchange : exch[e].pc # "idle" => exch[e].code \in Code /\ exch[e].ac \in CodeEntry
                                               /\ exch[e].ask \in Claim
    /\ req \in [Request -> [pc : {"idle", "connecting"}, token : Token \cup {None}]]
    /\ made \in 0 .. MaxSess
    /\ deal \in [Code -> Terms \cup {None}]
    /\ token \in [Token -> TokenEntry \cup {None}]
    /\ handed \subseteq Token
    /\ served \in [Token -> SUBSET Session]

\* Requests with one token, however they interleave with its issue, with each
\* other and with the failure of a connection, are answered by one session for
\* as long as the process lives, and it is the company's whose login the token
\* came of.
OneSession == \A t \in Token : \A s \in served[t] :
    /\ served[t] = {s}
    /\ token[t] # None /\ s.cred = deal[token[t].of].cred

\* "creating and persisting it on first start so tokens survive restarts": a
\* token made under a key that had reached its file is good in every later process.
TokensSurvive == boot = "up" =>
    \A t \in Token : token[t] # None /\ token[t].saved => token[t].key = key

\* A code is a single-use grant on the terms of its login: AuthGrant.
Made(c) == {t \in Token : token[t] # None /\ token[t].of = c}
Pending(c) == codes[c] # None \/ \E e \in Exchange : exch[e].pc = "taken" /\ exch[e].code = c

GrantState(c) == IF deal[c] = None THEN "none"
                 ELSE IF Made(c) # {} THEN "redeemed"
                 ELSE IF Pending(c) THEN "offered" ELSE "void"

GrantToken(t) == IF token[t] = None THEN None
                 ELSE [of |-> token[t].of, by |-> token[t].by, cred |-> token[t].cred]

Grants == INSTANCE AuthGrant WITH
    Grant <- Code, Terms <- Deal, Claim <- Ask,
    Fit <- {p \in Ask \X Deal : Fits(p[1], p[2])},
    state <- [c \in Code |-> GrantState(c)],
    terms <- deal,
    token <- [t \in Token |-> GrantToken(t)]

ImplementsGrants == Grants!Spec
=============================================================================
