---------------------------- MODULE OAuthProofs -----------------------------
(* What the authorization server guarantees for any number of clients,      *)
(* logins, exchanges and requests, proved.                                  *)
EXTENDS OAuthServer, TLAPS

\* A login under way and every code that was issued have the terms of a login;
\* a code in store, or taken out by an exchange that is not through yet, has not
\* yielded a token, and only one exchange has taken it.
GrantInv ==
    /\ \A l \in Login : login[l].pc = "connecting" => login[l].deal \in Deal
    /\ \A c \in Code : deal[c] # None => deal[c] \in Deal
    /\ \A c \in Code : codes[c] # None => codes[c].deal = deal[c] /\ Made(c) = {}
    /\ \A e \in Exchange : exch[e].pc = "taken" =>
          /\ exch[e].ask \in Ask
          /\ exch[e].ac.deal = deal[exch[e].code]
          /\ codes[exch[e].code] = None /\ Made(exch[e].code) = {}
          /\ \A f \in Exchange : exch[f].pc = "taken" /\ exch[f].code = exch[e].code => f = e
    /\ \A t \in Token : token[t] # None => deal[token[t].of] # None

\* A session is for the credentials of the login it was opened for, wherever it
\* is on its way to a token; a token under way is in the hands of one exchange.
Underway ==
    /\ \A c \in Code : codes[c] # None => codes[c].sess.cred = codes[c].deal.cred
    /\ \A e \in Exchange : exch[e].pc # "idle" => exch[e].ac.sess.cred = exch[e].ac.deal.cred
    /\ \A e \in Exchange : exch[e].pc = "made" =>
          /\ exch[e].token \in Token \ handed /\ token[exch[e].token] # None
          /\ token[exch[e].token].cred = exch[e].ac.deal.cred
          /\ \A f \in Exchange : exch[f].pc = "made" /\ exch[f].token = exch[e].token => f = e
    /\ \A t \in Token : token[t] # None => token[t].cred = deal[token[t].of].cred

\* A token in use is answered with the session in its place, which stays there
\* for the life of the process.
InUse ==
    /\ \A q \in Request : req[q].pc = "connecting" => req[q].token \in handed
    /\ \A t \in handed : token[t] # None
    /\ \A t \in Token : sessions[t] # None => t \in handed /\ sessions[t].cred = token[t].cred
    /\ \A t \in Token : served[t] \subseteq {sessions[t]} \ {None}

SessionInv == Underway /\ InUse

\* Without faults in reading the key file, a key in the file is the key of the
\* process, and no key but that one has ever got there.
KeyInv ==
    /\ boot = "keyed" => disk = None
    /\ boot = "up" /\ disk # None => disk = key
    /\ \A t \in Token : token[t] # None /\ token[t].saved => disk = token[t].key

IInv == TypeOK /\ GrantInv /\ SessionInv

-----------------------------------------------------------------------------

ExchType == [pc : {"idle", "taken", "made"}, code : Code \cup {None}, ac : CodeEntry \cup {None},
             ask : Claim \cup {None}, token : Token \cup {None}]

LEMMA NewSession ==
    ASSUME TypeOK, made < MaxSess, NEW cr \in Cred
    PROVE  Opened(cr) \in Session /\ made + 1 \in 0 .. MaxSess
  BY OAuthAssumption DEF Opened, Session, TypeOK

LEMMA TypeStep == TypeOK /\ GrantInv /\ SessionInv /\ [Next]_vars => TypeOK'
  <1> SUFFICES ASSUME TypeOK, GrantInv, SessionInv, [Next]_vars PROVE TypeOK'
    OBVIOUS
  <1> USE OAuthAssumption
  <1>1. CASE UNCHANGED vars
    BY <1>1 DEF TypeOK, vars, mem, hist
  <1>2. CASE LoadKey
    BY <1>2 DEF TypeOK, LoadKey, mem, hist, Key
  <1>3. CASE SaveKey
    BY <1>3 DEF TypeOK, SaveKey, mem, hist
  <1>4. CASE Crash
    BY <1>4 DEF TypeOK, Crash, hist, Empty, IdleLogin, IdleExch, IdleReq
  <1>5. CASE Tick
    BY <1>5 DEF TypeOK, Tick, mem, hist, Time
  <1>6. ASSUME NEW c \in Client, NEW us \in UriSets, RegisterClient(c, us) PROVE TypeOK'
    BY <1>6 DEF TypeOK, RegisterClient
  <1>7. ASSUME NEW l \in Login, NEW d \in Deal, Submit(l, d) PROVE TypeOK'
    BY <1>7 DEF TypeOK, Submit, hist
  <1>8. ASSUME NEW l \in Login, LoginFails(l) PROVE TypeOK'
    BY <1>8 DEF TypeOK, LoginFails, hist, IdleLogin
  <1>9. ASSUME NEW l \in Login, NEW c \in Code, CreateAuthCode(l, c) PROVE TypeOK'
    <2>1. login[l].deal \in Terms
      BY <1>9 DEF CreateAuthCode, GrantInv
    <2>2. Opened(login[l].deal.cred) \in Session /\ made + 1 \in 0 .. MaxSess
      BY <1>9, <2>1, NewSession DEF CreateAuthCode, Terms
    <2>3. [deal |-> login[l].deal, at |-> now, sess |-> Opened(login[l].deal.cred)] \in CodeEntry
      BY <2>1, <2>2 DEF CodeEntry, TypeOK
    <2>4. codes' \in [Code -> CodeEntry \cup {None}]
      BY <1>9, <2>3 DEF CreateAuthCode, TypeOK
    <2>5. QED
      BY <1>9, <2>1, <2>2, <2>4 DEF TypeOK, CreateAuthCode, IdleLogin
  <1>10. ASSUME NEW e \in Exchange, NEW c \in Code, NEW a \in Ask, TakeCode(e, c, a) PROVE TypeOK'
    <2>1. codes[c] \in CodeEntry /\ a \in Claim
      BY <1>10 DEF TakeCode, TypeOK
    <2>2. QED
      BY <1>10, <2>1 DEF TypeOK, TakeCode, hist
  <1>11. ASSUME NEW e \in Exchange, Refuse(e) PROVE TypeOK'
    BY <1>11 DEF TypeOK, Refuse, hist, IdleExch
  <1>12. ASSUME NEW e \in Exchange, NEW t \in Token, CreateToken(e, t) PROVE TypeOK'
    <2>1. exch[e].code \in Code /\ exch[e].ask \in Claim /\ exch[e].ac \in CodeEntry
      BY <1>12 DEF TypeOK, CreateToken
    <2>2. [of |-> exch[e].code, by |-> exch[e].ask, key |-> key, saved |-> (disk = key),
           cred |-> exch[e].ac.deal.cred, exp |-> now + TokenLife] \in TokenEntry
      BY <2>1 DEF TypeOK, TokenEntry, CodeEntry, Terms, Time
    <2>3. token' \in [Token -> TokenEntry \cup {None}]
      BY <1>12, <2>2 DEF TypeOK, CreateToken
    <2>4. exch' = [exch EXCEPT ![e] = [exch[e] EXCEPT !.pc = "made", !.token = t]]
      BY <1>12 DEF CreateToken, TypeOK
    <2>5. exch' \in [Exchange -> ExchType]
      <3>1. exch[e] \in ExchType /\ exch \in [Exchange -> ExchType]
        BY DEF TypeOK, ExchType
      <3>2. [exch[e] EXCEPT !.pc = "made", !.token = t] \in ExchType
        BY <3>1 DEF ExchType
      <3>3. QED
        BY <2>4, <3>1, <3>2
    <2>6. \A f \in Exchange : exch'[f].pc # "idle" =>
             exch'[f].code \in Code /\ exch'[f].ac \in CodeEntry /\ exch'[f].ask \in Claim
      BY <2>1, <2>4 DEF TypeOK
    <2>7. QED
      BY <1>12, <2>3, <2>5, <2>6 DEF TypeOK, CreateToken, ExchType
  <1>13. ASSUME NEW e \in Exchange, HandOver(e) PROVE TypeOK'
    <2>1. exch[e].token \in Token /\ exch[e].ac.sess \in Session
      BY <1>13 DEF TypeOK, HandOver, SessionInv, Underway, InUse, CodeEntry
    <2>2. sessions' \in [Token -> Session \cup {None}]
      BY <1>13, <2>1 DEF TypeOK, HandOver
    <2>3. /\ exch' \in [Exchange -> ExchType]
          /\ \A f \in Exchange : exch'[f] = exch[f] \/ exch'[f].pc = "idle"
      BY <1>13 DEF TypeOK, HandOver, IdleExch, ExchType
    <2>4. \A f \in Exchange : exch'[f].pc # "idle" =>
             exch'[f].code \in Code /\ exch'[f].ac \in CodeEntry /\ exch'[f].ask \in Claim
      BY <2>3 DEF TypeOK
    <2>5. handed' \subseteq Token
      BY <1>13, <2>1 DEF TypeOK, HandOver
    <2>6. QED
      BY <1>13, <2>2, <2>3, <2>4, <2>5 DEF TypeOK, HandOver, ExchType
  <1>14. ASSUME NEW q \in Request, NEW t \in Token, Resolve(q, t) PROVE TypeOK'
    <2>1. CASE sessions[t] # None /\ Serve(q, t, sessions[t])
      <3>1. sessions[t] \in Session
        BY <2>1 DEF TypeOK
      <3>2. QED
        BY <1>14, <2>1, <3>1 DEF TypeOK, Resolve, Serve, hist, IdleReq
    <2>2. CASE req' = [req EXCEPT ![q] = [pc |-> "connecting", token |-> t]] /\ UNCHANGED served
      BY <1>14, <2>2 DEF TypeOK, Resolve, hist
    <2>3. QED
      BY <1>14, <2>1, <2>2 DEF Resolve
  <1>15. ASSUME NEW q \in Request, ConnectFails(q) PROVE TypeOK'
    BY <1>15 DEF TypeOK, ConnectFails, hist, IdleReq
  <1>16. ASSUME NEW q \in Request, Restore(q) PROVE TypeOK'
    <2> DEFINE t == req[q].token
    <2>1. t \in Token /\ token[t].cred \in Cred
      BY <1>16 DEF TypeOK, Restore, SessionInv, Underway, InUse, TokenEntry
    <2>2. Opened(token[t].cred) \in Session /\ made + 1 \in 0 .. MaxSess
      BY <1>16, <2>1, NewSession DEF Restore
    <2> HIDE DEF t
    <2>3. sessions' = [sessions EXCEPT ![t] = IF sessions[t] # None THEN sessions[t]
                                              ELSE Opened(token[t].cred)]
      BY <1>16 DEF Restore, t
    <2>4. sessions' \in [Token -> Session \cup {None}] /\ sessions'[t] \in Session
      BY <2>1, <2>2, <2>3 DEF TypeOK
    <2>5. served' = [served EXCEPT ![t] = served[t] \cup {sessions'[t]}]
      BY <1>16 DEF Restore, Serve, t
    <2>6. served' \in [Token -> SUBSET Session]
      BY <2>1, <2>4, <2>5 DEF TypeOK
    <2>7. QED
      BY <1>16, <2>2, <2>4, <2>6 DEF TypeOK, Restore, Serve, hist, IdleReq
  <1>17. QED
    BY <1>1, <1>2, <1>3, <1>4, <1>5, <1>6, <1>7, <1>8, <1>9, <1>10, <1>11, <1>12, <1>13,
       <1>14, <1>15, <1>16 DEF Next

-----------------------------------------------------------------------------

\* Steps that have nothing to do with codes and tokens.
Elsewhere == \/ LoadKey \/ SaveKey \/ Tick \/ UNCHANGED vars
             \/ \E c \in Client, us \in UriSets : RegisterClient(c, us)
             \/ \E q \in Request : (\E t \in Token : Resolve(q, t)) \/ ConnectFails(q) \/ Restore(q)

LEMMA StepKinds ==
    ASSUME [Next]_vars
    PROVE  \/ Elsewhere \/ Crash
           \/ \E l \in Login : LoginFails(l) \/ \E d \in Deal : Submit(l, d)
           \/ \E l \in Login, c \in Code : CreateAuthCode(l, c)
           \/ \E e \in Exchange, c \in Code, a \in Ask : TakeCode(e, c, a)
           \/ \E e \in Exchange : Refuse(e) \/ HandOver(e)
           \/ \E e \in Exchange, t \in Token : CreateToken(e, t)
  BY Zenon DEF Next, Elsewhere

LEMMA GrantStep == TypeOK /\ TypeOK' /\ GrantInv /\ [Next]_vars => GrantInv'
  <1> SUFFICES ASSUME TypeOK, TypeOK', GrantInv, [Next]_vars PROVE GrantInv'
    OBVIOUS
  <1> USE OAuthAssumption
  <1>0. \A e \in Exchange : exch[e].pc = "taken" =>
           exch[e].code \in Code /\ exch[e].ac.deal \in Terms /\ deal[exch[e].code] # None
    BY DEF TypeOK, GrantInv, CodeEntry
  <1>1. CASE Elsewhere
    <2>1. UNCHANGED <<login, codes, exch, deal, token>>
      BY <1>1 DEF Elsewhere, LoadKey, SaveKey, Tick, RegisterClient, Resolve, ConnectFails,
                  Restore, vars, mem, hist
    <2>2. QED
      BY <2>1 DEF GrantInv, Made
  <1>2. CASE Crash
    BY <1>2 DEF GrantInv, Made, Crash, Empty, hist, IdleLogin, IdleExch
  <1>3. ASSUME NEW l \in Login, LoginFails(l) \/ \E d \in Deal : Submit(l, d) PROVE GrantInv'
    <2>1. UNCHANGED <<codes, exch, deal, token>>
      BY <1>3 DEF Submit, LoginFails, hist
    <2>2. \A x \in Login : login'[x].pc = "connecting" => login'[x].deal \in Deal
      BY <1>3 DEF Submit, LoginFails, GrantInv, IdleLogin, TypeOK
    <2>3. QED
      BY <2>1, <2>2 DEF GrantInv, Made
  <1>4. ASSUME NEW l \in Login, NEW c \in Code, CreateAuthCode(l, c) PROVE GrantInv'
    <2>1. Made(c) = {}
      BY <1>4 DEF Made, GrantInv, CreateAuthCode
    <2>2. login[l].deal \in Deal /\ deal[c] = None
      BY <1>4 DEF GrantInv, CreateAuthCode
    <2>3. UNCHANGED <<exch, token>> /\ \A x \in Code : x # c => deal'[x] = deal[x]
      BY <1>4 DEF CreateAuthCode, TypeOK
    <2>4. /\ codes'[c].deal = login[l].deal /\ deal'[c] = login[l].deal
          /\ \A x \in Code : x # c => codes'[x] = codes[x] \/ codes'[x] = None
      BY <1>4 DEF CreateAuthCode, TypeOK
    <2>5. \A x \in Login : login'[x].pc = "connecting" => login'[x].deal \in Deal
      BY <1>4 DEF CreateAuthCode, GrantInv, IdleLogin, TypeOK
    <2>6. \A x \in Code : deal'[x] # None => deal'[x] \in Deal
      BY <2>2, <2>3, <2>4 DEF GrantInv
    <2>7. \A x \in Code : codes'[x] # None => codes'[x].deal = deal'[x] /\ Made(x)' = {}
      BY <2>1, <2>2, <2>3, <2>4 DEF GrantInv, Made
    <2>8. \A e \in Exchange : exch[e].pc = "taken" => exch[e].code # c
      BY <1>0, <2>2
    <2>9. QED
      BY <1>0, <2>2, <2>3, <2>4, <2>5, <2>6, <2>7, <2>8 DEF GrantInv, Made, TypeOK, TokenEntry
  <1>5. ASSUME NEW e \in Exchange, NEW c \in Code, NEW a \in Ask, TakeCode(e, c, a) PROVE GrantInv'
    <2>1. UNCHANGED <<login, deal, token>>
      BY <1>5 DEF TakeCode, hist
    <2>2. /\ codes[c] # None /\ codes[c].deal = deal[c] /\ Made(c) = {}
          /\ \A f \in Exchange : exch[f].pc = "taken" => exch[f].code # c
      BY <1>5 DEF TakeCode, GrantInv
    <2>3. codes'[c] = None /\ \A x \in Code : x # c => codes'[x] = codes[x]
      BY <1>5 DEF TakeCode, TypeOK
    <2>4. /\ exch'[e] = [pc |-> "taken", code |-> c, ac |-> codes[c], ask |-> a, token |-> None]
          /\ \A f \in Exchange : f # e => exch'[f] = exch[f]
      BY <1>5 DEF TakeCode, TypeOK
    <2>5. ASSUME NEW f \in Exchange, exch'[f].pc = "taken"
          PROVE  /\ exch'[f].ask \in Ask
                 /\ exch'[f].ac.deal = deal'[exch'[f].code]
                 /\ codes'[exch'[f].code] = None /\ Made(exch[f].code)' = {}
                 /\ \A g \in Exchange : exch'[g].pc = "taken" /\ exch'[g].code = exch'[f].code => g = f
      <3>1. CASE f = e
        BY <2>1, <2>2, <2>3, <2>4, <3>1 DEF Made
      <3>2. CASE f # e
        BY <1>0, <2>1, <2>2, <2>3, <2>4, <2>5, <3>2 DEF Made, GrantInv
      <3>3. QED
        BY <3>1, <3>2
    <2>6. QED
      BY <2>1, <2>3, <2>5 DEF GrantInv, Made
  <1>6. ASSUME NEW e \in Exchange, Refuse(e) \/ HandOver(e) PROVE GrantInv'
    <2>1. UNCHANGED <<login, codes, deal, token>>
      BY <1>6 DEF Refuse, HandOver, hist
    <2>2. \A f \in Exchange : exch'[f] = exch[f] \/ exch'[f].pc = "idle"
      BY <1>6 DEF Refuse, HandOver, IdleExch, TypeOK
    <2>3. \A f \in Exchange : exch'[f].pc = "taken" => exch'[f] = exch[f]
      BY <2>2
    <2>4. QED
      BY <2>1, <2>3 DEF GrantInv, Made
  <1>7. ASSUME NEW e \in Exchange, NEW t \in Token, CreateToken(e, t) PROVE GrantInv'
    <2>1. UNCHANGED <<login, codes, deal>> /\ token[t] = None /\ exch[e].pc = "taken"
      BY <1>7 DEF CreateToken
    <2>2. token'[t].of = exch[e].code /\ \A u \in Token : u # t => token'[u] = token[u]
      BY <1>7 DEF CreateToken, TypeOK
    <2>3. \A x \in Code : x # exch[e].code => Made(x)' = Made(x)
      BY <2>1, <2>2 DEF Made
    <2>4. exch'[e].pc = "made" /\ \A f \in Exchange : f # e => exch'[f] = exch[f]
      BY <1>7 DEF CreateToken, TypeOK
    <2>5. codes[exch[e].code] = None /\ deal[exch[e].code] # None
      BY <1>0, <2>1 DEF GrantInv
    <2>6. \A f \in Exchange : exch[f].pc = "taken" /\ f # e => exch[f].code # exch[e].code
      BY <2>1 DEF GrantInv
    <2>7. ASSUME NEW f \in Exchange, exch'[f].pc = "taken"
          PROVE  /\ exch'[f].ask \in Ask
                 /\ exch'[f].ac.deal = deal'[exch'[f].code]
                 /\ codes'[exch'[f].code] = None /\ Made(exch[f].code)' = {}
                 /\ \A g \in Exchange : exch'[g].pc = "taken" /\ exch'[g].code = exch'[f].code => g = f
      <3>1. f # e /\ exch'[f] = exch[f] /\ exch[f].code \in Code
        BY <1>0, <2>4, <2>7
      <3>2. Made(exch[f].code)' = {}
        BY <2>3, <2>6, <2>7, <3>1 DEF GrantInv
      <3>3. QED
        BY <2>1, <2>4, <2>7, <3>1, <3>2 DEF GrantInv
    <2>8. \A x \in Code : codes'[x] # None => codes'[x].deal = deal'[x] /\ Made(x)' = {}
      BY <2>1, <2>3, <2>5 DEF GrantInv
    <2>9. \A u \in Token : token'[u] # None => deal'[token'[u].of] # None
      BY <2>1, <2>2, <2>5 DEF GrantInv
    <2>10. QED
      BY <2>1, <2>7, <2>8, <2>9 DEF GrantInv
  <1>8. \/ Elsewhere \/ Crash
        \/ \E l \in Login : LoginFails(l) \/ \E d \in Deal : Submit(l, d)
        \/ \E l \in Login, c \in Code : CreateAuthCode(l, c)
        \/ \E e \in Exchange, c \in Code, a \in Ask : TakeCode(e, c, a)
        \/ \E e \in Exchange : Refuse(e) \/ HandOver(e)
        \/ \E e \in Exchange, t \in Token : CreateToken(e, t)
    BY StepKinds
  <1>9. QED
    BY <1>1, <1>2, <1>3, <1>4, <1>5, <1>6, <1>7, <1>8

LEMMA UnderwayStep ==
    TypeOK /\ TypeOK' /\ GrantInv /\ SessionInv /\ [Next]_vars => Underway'
  <1> SUFFICES ASSUME TypeOK, TypeOK', GrantInv, SessionInv, [Next]_vars PROVE Underway'
    OBVIOUS
  <1> USE OAuthAssumption
  <1>0. Underway
    BY DEF SessionInv, InUse, Underway
  <1>1. CASE Elsewhere
    <2>1. UNCHANGED <<codes, exch, deal, token, handed>>
      BY <1>1 DEF Elsewhere, LoadKey, SaveKey, Tick, RegisterClient, Resolve, ConnectFails,
                  Restore, vars, mem, hist
    <2>2. QED
      BY <1>0, <2>1 DEF Underway
  <1>2. CASE Crash
    BY <1>0, <1>2 DEF Underway, Crash, Empty, hist, IdleExch
  <1>3. ASSUME NEW l \in Login, LoginFails(l) \/ \E d \in Deal : Submit(l, d) PROVE Underway'
    <2>1. UNCHANGED <<codes, exch, deal, token, handed>>
      BY <1>3 DEF Submit, LoginFails, hist
    <2>2. QED
      BY <1>0, <2>1 DEF Underway
  <1>4. ASSUME NEW l \in Login, NEW c \in Code, CreateAuthCode(l, c) PROVE Underway'
    <2>1. UNCHANGED <<exch, token, handed>> /\ \A x \in Code : x # c => deal'[x] = deal[x]
      BY <1>4 DEF CreateAuthCode, TypeOK
    <2>2. /\ codes'[c].sess.cred = codes'[c].deal.cred
          /\ \A x \in Code : x # c => codes'[x] = codes[x] \/ codes'[x] = None
      BY <1>4 DEF CreateAuthCode, TypeOK, Opened
    <2>3. deal[c] = None /\ \A t \in Token : token[t] # None => token[t].of \in Code /\ token[t].of # c
      BY <1>4 DEF CreateAuthCode, GrantInv, TypeOK, TokenEntry
    <2>4. QED
      BY <1>0, <2>1, <2>2, <2>3 DEF Underway
  <1>5. ASSUME NEW e \in Exchange, NEW c \in Code, NEW a \in Ask, TakeCode(e, c, a) PROVE Underway'
    <2>1. UNCHANGED <<deal, token, handed>>
      BY <1>5 DEF TakeCode, hist
    <2>2. codes[c] # None /\ \A x \in Code : codes'[x] = codes[x] \/ codes'[x] = None
      BY <1>5 DEF TakeCode, TypeOK
    <2>3. /\ exch'[e].pc = "taken" /\ exch'[e].ac = codes[c]
          /\ \A f \in Exchange : f # e => exch'[f] = exch[f]
      BY <1>5 DEF TakeCode, TypeOK
    <2>4. QED
      BY <1>0, <2>1, <2>2, <2>3 DEF Underway
  <1>6. ASSUME NEW e \in Exchange, Refuse(e) PROVE Underway'
    <2>1. UNCHANGED <<codes, deal, token, handed>>
      BY <1>6 DEF Refuse, hist
    <2>2. \A f \in Exchange : exch'[f].pc # "idle" => exch'[f] = exch[f]
      BY <1>6 DEF Refuse, IdleExch, TypeOK
    <2>3. QED
      BY <1>0, <2>1, <2>2 DEF Underway
  <1>7. ASSUME NEW e \in Exchange, HandOver(e) PROVE Underway'
    <2>1. UNCHANGED <<codes, deal, token>> /\ handed' = handed \cup {exch[e].token}
      BY <1>7 DEF HandOver
    <2>2. exch[e].pc = "made"
          /\ \A f \in Exchange : exch'[f].pc # "idle" => f # e /\ exch'[f] = exch[f]
      BY <1>7 DEF HandOver, IdleExch, TypeOK
    <2>3. \A f \in Exchange : exch'[f].pc = "made" => exch[f].token # exch[e].token
      BY <1>0, <2>2 DEF Underway
    <2>4. QED
      BY <1>0, <2>1, <2>2, <2>3 DEF Underway
  <1>8. ASSUME NEW e \in Exchange, NEW t \in Token, CreateToken(e, t) PROVE Underway'
    <2>1. UNCHANGED <<codes, deal, handed>> /\ token[t] = None /\ exch[e].pc = "taken"
      BY <1>8 DEF CreateToken
    <2>2. /\ token'[t].of = exch[e].code /\ token'[t].cred = exch[e].ac.deal.cred /\ token'[t] # None
          /\ \A u \in Token : u # t => token'[u] = token[u]
      <3>1. token'[t] = [of |-> exch[e].code, by |-> exch[e].ask, key |-> key, saved |-> (disk = key),
                         cred |-> exch[e].ac.deal.cred, exp |-> now + TokenLife]
        BY <1>8 DEF CreateToken, TypeOK
      <3>2. exch[e].code \in Code /\ exch[e].ask \in Claim /\ exch[e].ac \in CodeEntry
        BY <2>1 DEF TypeOK
      <3>3. token'[t] \in TokenEntry
        BY <3>1, <3>2 DEF TypeOK, TokenEntry, CodeEntry, Terms, Time
      <3>4. QED
        BY <1>8, <3>1, <3>3 DEF CreateToken, TypeOK
    <2>3. /\ exch'[e].pc = "made" /\ exch'[e].token = t /\ exch'[e].ac = exch[e].ac
          /\ \A f \in Exchange : f # e => exch'[f] = exch[f]
      BY <1>8 DEF CreateToken, TypeOK
    <2>4. t \notin handed /\ \A f \in Exchange : exch[f].pc = "made" => exch[f].token # t
      BY <2>1 DEF SessionInv, Underway, InUse
    <2>5. exch[e].ac.deal = deal[exch[e].code]
      BY <2>1 DEF GrantInv
    <2>6. QED
      BY <1>0, <2>1, <2>2, <2>3, <2>4, <2>5 DEF Underway
  <1>9. QED
    BY <1>1, <1>2, <1>3, <1>4, <1>5, <1>6, <1>7, <1>8, StepKinds

LEMMA InUseStep ==
    TypeOK /\ TypeOK' /\ GrantInv /\ SessionInv /\ [Next]_vars => InUse'
  <1> SUFFICES ASSUME TypeOK, TypeOK', GrantInv, SessionInv, [Next]_vars PROVE InUse'
    OBVIOUS
  <1> USE OAuthAssumption
  <1>0. InUse
    BY DEF SessionInv, Underway, InUse
  \* Whoever makes a token, tokens in use stay as they are.
  <1>1. \A t \in Token : token[t] # None => token'[t] = token[t]
    <2>1. ASSUME NEW e \in Exchange, NEW t \in Token, CreateToken(e, t)
          PROVE  \A u \in Token : token[u] # None => token'[u] = token[u]
      BY <2>1 DEF CreateToken, TypeOK
    <2>2. (~ \E e \in Exchange, t \in Token : CreateToken(e, t)) => token' = token
      BY StepKinds DEF Elsewhere, LoadKey, SaveKey, Tick, RegisterClient, Resolve, ConnectFails,
         Restore, Crash, Submit, LoginFails, CreateAuthCode, TakeCode, Refuse, HandOver, vars, mem, hist
    <2>3. QED
      BY <2>1, <2>2
  <1>2. CASE UNCHANGED <<req, handed, sessions, served>>
    BY <1>0, <1>1, <1>2 DEF InUse, TypeOK
  <1>3. CASE Crash
    BY <1>0, <1>1, <1>3 DEF InUse, Crash, Empty, hist, IdleReq, TypeOK
  <1>4. ASSUME NEW e \in Exchange, HandOver(e) PROVE InUse'
    <2> DEFINE t == exch[e].token
    <2>1. /\ t \in Token \ handed /\ token[t] # None /\ sessions[t] = None
          /\ exch[e].ac.sess.cred = token[t].cred
      BY <1>4 DEF HandOver, SessionInv, Underway, InUse
    <2>2. /\ UNCHANGED <<req, token, served>> /\ handed' = handed \cup {t}
          /\ sessions'[t] = exch[e].ac.sess
          /\ \A u \in Token : u # t => sessions'[u] = sessions[u]
      BY <1>4, <2>1 DEF HandOver, TypeOK
    <2>3. served[t] = {}
      BY <1>0, <2>1 DEF InUse
    <2> HIDE DEF t
    <2>4. QED
      BY <1>0, <2>1, <2>2, <2>3 DEF InUse
  <1>5. ASSUME NEW q \in Request, NEW t \in Token, Resolve(q, t) PROVE InUse'
    <2>1. UNCHANGED <<sessions, token, handed>> /\ t \in handed
      BY <1>5 DEF Resolve, hist
    <2>2. \A x \in Request : req'[x].pc = "connecting" => req'[x].token \in handed
      BY <1>0, <1>5 DEF Resolve, Serve, IdleReq, InUse, TypeOK
    <2>3. \A u \in Token : served'[u] = served[u]
                            \/ (sessions[u] # None /\ served'[u] = served[u] \cup {sessions[u]})
      BY <1>5 DEF Resolve, Serve, TypeOK
    <2>4. QED
      BY <1>0, <2>1, <2>2, <2>3 DEF InUse
  <1>6. ASSUME NEW q \in Request, ConnectFails(q) PROVE InUse'
    BY <1>0, <1>6 DEF ConnectFails, IdleReq, InUse, TypeOK, hist
  <1>7. ASSUME NEW q \in Request, Restore(q) PROVE InUse'
    <2> DEFINE t == req[q].token
               s == Opened(token[t].cred)
    <2>1. t \in handed /\ t \in Token /\ token[t] # None
      BY <1>0, <1>7 DEF Restore, InUse, TypeOK
    <2>2. s \in Session /\ s.cred = token[t].cred
      <3>1. token[t].cred \in Cred
        BY <2>1 DEF TypeOK, TokenEntry
      <3>2. QED
        BY <1>7, <3>1, NewSession DEF Restore, Opened
    <2> HIDE DEF s
    <2>3. /\ UNCHANGED <<token, handed>>
          /\ sessions' = [sessions EXCEPT ![t] = IF sessions[t] # None THEN sessions[t] ELSE s]
          /\ served' = [served EXCEPT ![t] = served[t] \cup {sessions'[t]}]
          /\ req' = [req EXCEPT ![q] = IdleReq]
      BY <1>7 DEF Restore, Serve, hist, s
    <2> HIDE DEF t
    <2>4. \A x \in Request : req'[x].pc = "connecting" => req'[x].token \in handed
      BY <1>0, <2>3 DEF IdleReq, InUse, TypeOK
    <2>5. /\ sessions'[t] = sessions[t] \/ sessions[t] = None
          /\ sessions'[t] # None /\ sessions'[t].cred = token[t].cred
          /\ \A u \in Token : u # t => sessions'[u] = sessions[u] /\ served'[u] = served[u]
      BY <1>0, <2>1, <2>2, <2>3 DEF InUse, TypeOK
    <2>6. served'[t] \subseteq {sessions'[t]}
      BY <1>0, <2>1, <2>3, <2>5 DEF InUse, TypeOK
    <2>7. QED
      BY <1>0, <2>1, <2>3, <2>4, <2>5, <2>6 DEF InUse
  <1>8. \/ UNCHANGED <<req, handed, sessions, served>> \/ Crash
        \/ \E e \in Exchange : HandOver(e)
        \/ \E q \in Request : (\E t \in Token : Resolve(q, t)) \/ ConnectFails(q) \/ Restore(q)
    BY StepKinds DEF Elsewhere, LoadKey, SaveKey, Tick, RegisterClient, Submit, LoginFails,
       CreateAuthCode, TakeCode, Refuse, CreateToken, vars, mem, hist
  <1>9. QED
    BY <1>2, <1>3, <1>4, <1>5, <1>6, <1>7, <1>8

-----------------------------------------------------------------------------

LEMMA KeyStep ==
    ASSUME ~ReadFaults, TypeOK, KeyInv, [Next]_vars
    PROVE  KeyInv'
  <1> USE OAuthAssumption
  <1>1. CASE LoadKey
    BY <1>1 DEF KeyInv, LoadKey, hist
  <1>2. CASE SaveKey
    <2>1. disk = None /\ boot' = "up" /\ key' = key /\ token' = token /\ disk' \in {key, None}
      BY <1>2 DEF SaveKey, KeyInv, hist
    <2>2. \A t \in Token : token[t] # None => ~token[t].saved
      BY <2>1 DEF KeyInv, TypeOK, TokenEntry, Key
    <2>3. QED
      BY <2>1, <2>2 DEF KeyInv
  <1>3. CASE Crash
    <2>1. boot' = "down" /\ token' = token
      BY <1>3 DEF Crash, hist
    <2>2. CASE boot = "keyed"
      <3>1. \A t \in Token : token[t] # None => ~token[t].saved
        BY <2>2 DEF KeyInv, TypeOK, TokenEntry, Key
      <3>2. QED
        BY <2>1, <3>1 DEF KeyInv
    <2>3. CASE boot # "keyed"
      BY <1>3, <2>1, <2>3 DEF Crash, KeyInv
    <2>4. QED
      BY <2>2, <2>3
  <1>4. ASSUME NEW e \in Exchange, NEW t \in Token, CreateToken(e, t) PROVE KeyInv'
    <2>1. /\ UNCHANGED <<boot, disk, key>>
          /\ token'[t].saved = (disk = key) /\ token'[t].key = key
          /\ \A u \in Token : u # t => token'[u] = token[u]
      BY <1>4 DEF CreateToken, TypeOK
    <2>2. QED
      BY <2>1 DEF KeyInv
  <1>5. CASE UNCHANGED <<boot, disk, key, token>>
    BY <1>5 DEF KeyInv
  <1>6. LoadKey \/ SaveKey \/ Crash \/ (\E e \in Exchange, t \in Token : CreateToken(e, t))
        \/ UNCHANGED <<boot, disk, key, token>>
    BY StepKinds DEF Elsewhere, Tick, RegisterClient, Resolve, ConnectFails, Restore, Submit,
       LoginFails, CreateAuthCode, TakeCode, Refuse, HandOver, vars, mem, hist
  <1>7. QED
    BY <1>1, <1>2, <1>3, <1>4, <1>5, <1>6

THEOREM IInvariant == Spec => []IInv
  <1>1. Init => IInv
    <2> SUFFICES ASSUME Init PROVE IInv
      OBVIOUS
    <2> USE OAuthAssumption DEF Init, Empty, IdleLogin, IdleExch, IdleReq
    <2>1. TypeOK
      BY DEF TypeOK, Key, Time
    <2>2. GrantInv /\ SessionInv
      BY DEF GrantInv, SessionInv, Underway, InUse
    <2>3. QED
      BY <2>1, <2>2 DEF IInv
  <1>2. IInv /\ [Next]_vars => IInv'
    <2> SUFFICES ASSUME IInv, [Next]_vars PROVE IInv'
      OBVIOUS
    <2>1. TypeOK'
      BY TypeStep DEF IInv
    <2>2. GrantInv' /\ Underway' /\ InUse'
      BY <2>1, GrantStep, UnderwayStep, InUseStep DEF IInv
    <2>3. QED
      BY <2>1, <2>2 DEF IInv, SessionInv
  <1>3. QED
    BY <1>1, <1>2, PTL DEF Spec

\* The state of the authorization server has its type: in particular an exchange
\* past the lookup holds a code that was issued.
THEOREM TypeCorrect == Spec => []TypeOK
  <1>1. IInv => TypeOK
    BY DEF IInv
  <1>2. QED
    BY <1>1, IInvariant, PTL

\* However requests with one token interleave, one session answers them for the
\* life of the process, with the credentials of the login the token came of.
THEOREM OneSessionAlways == Spec => []OneSession
  <1>1. IInv => OneSession
    <2> SUFFICES ASSUME IInv, NEW t \in Token, NEW s \in served[t]
                 PROVE  served[t] = {s} /\ token[t] # None /\ s.cred = deal[token[t].of].cred
      BY DEF OneSession
    <2>1. s = sessions[t] /\ sessions[t] # None /\ served[t] \subseteq {sessions[t]}
      BY DEF IInv, SessionInv, InUse
    <2>2. t \in handed /\ sessions[t].cred = token[t].cred
      BY <2>1 DEF IInv, SessionInv, InUse
    <2>3. token[t] # None /\ token[t].cred = deal[token[t].of].cred
      BY <2>2 DEF IInv, SessionInv, InUse, Underway
    <2>4. QED
      BY <2>1, <2>2, <2>3
  <1>2. QED
    BY <1>1, IInvariant, PTL

\* When an intact key file can always be read, tokens made under a saved key are
\* good in every later process, wherever the processes before it ended.
THEOREM TokensSurviveAlways == ASSUME ~ReadFaults PROVE Spec => []TokensSurvive
  <1>1. Init => KeyInv
    BY DEF Init, KeyInv
  <1>2. IInv /\ KeyInv /\ [Next]_vars => KeyInv'
    BY KeyStep DEF IInv
  <1>3. IInv /\ KeyInv => TokensSurvive
    <2> SUFFICES ASSUME IInv, KeyInv, boot = "up", NEW t \in Token,
                        token[t] # None, token[t].saved
                 PROVE  token[t].key = key
      BY DEF TokensSurvive
    <2>1. disk = token[t].key /\ token[t].key \in Nat
      BY DEF IInv, KeyInv, TypeOK, TokenEntry, Key
    <2>2. QED
      BY <2>1, OAuthAssumption DEF KeyInv
  <1>4. QED
    BY <1>1, <1>2, <1>3, IInvariant, PTL DEF Spec

-----------------------------------------------------------------------------

\* Only what is known of a code matters for the state of its grant.
LEMMA SameGrants ==
    ASSUME UNCHANGED <<deal, token>>,
           NEW G \in SUBSET Code,
           \A c \in Code \ G : Pending(c)' = Pending(c),
           \A c \in G : deal[c] # None /\ Made(c) = {} /\ Pending(c) /\ ~Pending(c)'
    PROVE  /\ \A c \in G : GrantState(c) = "offered"
           /\ [c \in Code |-> GrantState(c)]'
                = [c \in Code |-> IF c \in G THEN "void" ELSE [x \in Code |-> GrantState(x)][c]]
           /\ [t \in Token |-> GrantToken(t)]' = [t \in Token |-> GrantToken(t)]
  <1>1. \A c \in Code : Made(c)' = Made(c)
    BY DEF Made
  <1>2. \A c \in G : GrantState(c) = "offered" /\ GrantState(c)' = "void"
    BY <1>1 DEF GrantState
  <1>3. \A c \in Code \ G : GrantState(c)' = GrantState(c)
    BY <1>1 DEF GrantState
  <1>4. \A t \in Token : GrantToken(t)' = GrantToken(t)
    BY DEF GrantToken
  <1>5. QED
    BY <1>2, <1>3, <1>4

\* Grants that come to nothing, possibly none.
LEMMA VoidStep ==
    ASSUME UNCHANGED <<deal, token>>,
           NEW G \in SUBSET Code,
           \A c \in Code \ G : Pending(c)' = Pending(c),
           \A c \in G : deal[c] # None /\ Made(c) = {} /\ Pending(c) /\ ~Pending(c)'
    PROVE  Grants!Next
  <1>1. Grants!Void(G)
    BY SameGrants DEF Grants!Void
  <1>2. QED
    BY <1>1 DEF Grants!Next

\* A login issues a code: a grant is offered, and old ones are dropped.
LEMMA OfferStep ==
    ASSUME IInv, IInv', NEW l \in Login, NEW c \in Code, CreateAuthCode(l, c)
    PROVE  Grants!Next
  <1> DEFINE G == {x \in Code : codes[x] # None /\ codes'[x] = None}
             d == login[l].deal
  <1> USE OAuthAssumption
  <1>1. /\ deal[c] = None /\ d \in Deal /\ d # None
        /\ deal' = [deal EXCEPT ![c] = d] /\ UNCHANGED <<exch, token>>
    BY DEF CreateAuthCode, IInv, GrantInv
  <1>2. codes[c] = None /\ codes'[c] # None
    <2>1. codes'[c].deal = d /\ codes'[c] = [deal |-> d, at |-> now, sess |-> Opened(d.cred)]
      BY DEF CreateAuthCode, IInv, TypeOK
    <2>2. Opened(d.cred) \in Session
      BY <1>1, NewSession DEF CreateAuthCode, IInv, Terms
    <2>3. codes'[c] \in CodeEntry
      BY <1>1, <2>1, <2>2 DEF CodeEntry, IInv, TypeOK
    <2>4. codes[c] = None
      <3>1. codes[c] # None => codes[c] \in CodeEntry /\ codes[c].deal = deal[c]
        BY DEF IInv, TypeOK, GrantInv
      <3>2. QED
        BY <1>1, <3>1 DEF CodeEntry
    <2>5. QED
      BY <2>3, <2>4
  <1>3. \A x \in Code : x # c => codes'[x] = codes[x] \/ codes'[x] = None
    BY DEF CreateAuthCode, IInv, TypeOK
  <1>4. \A x \in Code : Made(x)' = Made(x)
    BY <1>1 DEF Made
  <1>5. Made(c) = {} /\ \A e \in Exchange : exch[e].pc = "taken" => codes[exch[e].code] = None
    BY <1>1 DEF IInv, GrantInv, Made
  <1> HIDE DEF d
  <1>6. GrantState(c) = "none" /\ GrantState(c)' = "offered"
    BY <1>1, <1>2, <1>4, <1>5 DEF GrantState, Pending, IInv, TypeOK
  <1>7. ASSUME NEW x \in G
        PROVE  GrantState(x) = "offered" /\ GrantState(x)' = "void" /\ x # c
    <2>1. x # c /\ codes[x] # None /\ codes'[x] = None
      BY <1>2
    <2>2. deal[x] # None /\ deal'[x] = deal[x] /\ Made(x) = {}
      <3>1. codes[x].deal = deal[x] /\ codes[x].deal \in Terms /\ Made(x) = {}
        BY <2>1 DEF IInv, TypeOK, GrantInv, CodeEntry
      <3>2. QED
        BY <1>1, <2>1, <3>1 DEF IInv, TypeOK
    <2>3. ~Pending(x)'
      BY <1>1, <1>5, <2>1 DEF Pending
    <2>4. QED
      BY <1>4, <2>1, <2>2, <2>3 DEF GrantState, Pending
  <1>8. ASSUME NEW x \in Code, x # c, x \notin G
        PROVE  GrantState(x)' = GrantState(x)
    <2>1. codes'[x] = codes[x] /\ deal'[x] = deal[x]
      BY <1>1, <1>3, <1>8 DEF IInv, TypeOK
    <2>2. QED
      BY <1>1, <1>4, <2>1 DEF GrantState, Pending
  <1>9. [t \in Token |-> GrantToken(t)]' = [t \in Token |-> GrantToken(t)]
    BY <1>1 DEF GrantToken
  <1>10. Grants!Offer(c, d, G)
    BY <1>1, <1>6, <1>7, <1>8, <1>9 DEF Grants!Offer
  <1>11. QED
    BY <1>1, <1>10 DEF Grants!Next

\* An exchange that fits the terms redeems the grant it took.
LEMMA RedeemStep ==
    ASSUME IInv, IInv', NEW e \in Exchange, NEW t \in Token, CreateToken(e, t)
    PROVE  Grants!Next
  <1> DEFINE c == exch[e].code
             a == exch[e].ask
  <1> USE OAuthAssumption
  <1>1. /\ exch[e].pc = "taken" /\ c \in Code /\ a \in Ask
        /\ exch[e].ac.deal = deal[c] /\ deal[c] \in Deal /\ deal[c] # None
        /\ codes[c] = None /\ Made(c) = {}
        /\ \A f \in Exchange : exch[f].pc = "taken" /\ exch[f].code = c => f = e
    <2>1. exch[e].pc = "taken" /\ exch[e].ac.deal \in Terms /\ c \in Code
      BY DEF CreateToken, IInv, TypeOK, CodeEntry
    <2>2. QED
      BY <2>1 DEF IInv, GrantInv
  <1>2. Fits(a, deal[c]) /\ UNCHANGED <<codes, deal>>
    BY <1>1 DEF CreateToken
  <1>3. /\ token[t] = None /\ token'[t] # None
        /\ token'[t].of = c /\ token'[t].by = a /\ token'[t].cred = deal[c].cred
        /\ \A u \in Token : u # t => token'[u] = token[u]
    <2>1. token'[t] = [of |-> c, by |-> a, key |-> key, saved |-> (disk = key),
                       cred |-> exch[e].ac.deal.cred, exp |-> now + TokenLife]
      BY DEF CreateToken, IInv, TypeOK
    <2>2. a \in Claim /\ deal[c] \in Terms
      BY <1>1
    <2>3. token'[t] \in TokenEntry
      BY <1>1, <2>1, <2>2 DEF IInv, TypeOK, TokenEntry, Terms, Time
    <2>4. QED
      BY <1>1, <2>1, <2>3 DEF CreateToken, IInv, TypeOK
  <1>4. exch'[e].pc = "made" /\ \A f \in Exchange : f # e => exch'[f] = exch[f]
    BY DEF CreateToken, IInv, TypeOK
  <1> HIDE DEF c, a
  <1>5. GrantState(c) = "offered"
    BY <1>1 DEF GrantState, Pending, c
  <1>6. deal'[c] # None /\ t \in {u \in Token : token'[u] # None /\ token'[u].of = c}
    BY <1>1, <1>2, <1>3
  <1>7. ASSUME NEW x \in Code
        PROVE  GrantState(x)' = IF x = c THEN "redeemed" ELSE GrantState(x)
    <2>1. CASE x = c
      BY <1>6, <2>1 DEF GrantState, Made
    <2>2. CASE x # c
      <3>1. Made(x)' = Made(x)
        BY <1>3, <2>2 DEF Made
      <3>2. Pending(x)' = Pending(x)
        BY <1>1, <1>2, <1>4, <2>2 DEF Pending, c
      <3>3. QED
        BY <1>2, <2>2, <3>1, <3>2 DEF GrantState
    <2>3. QED
      BY <2>1, <2>2
  <1>8. /\ GrantToken(t) = None
        /\ GrantToken(t)' = [of |-> c, by |-> a, cred |-> deal[c].cred]
        /\ \A u \in Token : u # t => GrantToken(u)' = GrantToken(u)
    BY <1>3 DEF GrantToken
  <1>9. <<a, deal[c]>> \in {p \in Ask \X Deal : Fits(p[1], p[2])}
    BY <1>1, <1>2
  <1>10. Grants!Redeem(c, a, t)
    BY <1>1, <1>2, <1>5, <1>7, <1>8, <1>9 DEF Grants!Redeem
  <1>11. QED
    BY <1>1, <1>10 DEF Grants!Next

LEMMA GrantsStep == IInv /\ IInv' /\ [Next]_vars => [Grants!Next]_(Grants!vars)
  <1> SUFFICES ASSUME IInv, IInv', [Next]_vars PROVE [Grants!Next]_(Grants!vars)
    OBVIOUS
  <1> USE OAuthAssumption
  <1>1. CASE UNCHANGED <<codes, deal, token>> /\ \A e \in Exchange :
             \/ exch'[e] = exch[e]
             \/ exch[e].pc # "taken" /\ exch'[e].pc # "taken"
    <2>1. \A c \in Code : Pending(c)' = Pending(c)
      BY <1>1 DEF Pending
    <2>2. QED
      BY <1>1, <2>1, VoidStep
  <1>2. CASE Crash
    <2>0. PICK G \in SUBSET Code : G = {c \in Code : Pending(c)}
      OBVIOUS
    <2>1. \A c \in Code : ~Pending(c)'
      BY <1>2 DEF Crash, Empty, IdleExch, Pending
    <2>2. \A c \in G : deal[c] # None /\ Made(c) = {} /\ Pending(c)
      <3> SUFFICES ASSUME NEW c \in Code, Pending(c) PROVE deal[c] # None /\ Made(c) = {}
        BY <2>0
      <3>1. CASE codes[c] # None
        <4>1. codes[c] \in CodeEntry /\ codes[c].deal = deal[c] /\ Made(c) = {}
          BY <3>1 DEF IInv, GrantInv, TypeOK
        <4>2. QED
          BY <4>1 DEF CodeEntry
      <3>2. ASSUME NEW e \in Exchange, exch[e].pc = "taken", exch[e].code = c
            PROVE  deal[c] # None /\ Made(c) = {}
        <4>1. exch[e].ac \in CodeEntry /\ exch[e].ac.deal = deal[c] /\ Made(c) = {}
          BY <3>2 DEF IInv, GrantInv, TypeOK
        <4>2. QED
          BY <4>1 DEF CodeEntry
      <3>3. QED
        BY <3>1, <3>2 DEF Pending
    <2>3. UNCHANGED <<deal, token>>
      BY <1>2 DEF Crash, hist
    <2>4. \A c \in Code \ G : Pending(c)' = Pending(c)
      BY <2>0, <2>1 DEF Pending
    <2>5. QED
      BY <2>1, <2>2, <2>3, <2>4, VoidStep
  <1>3. ASSUME NEW e \in Exchange, NEW c \in Code, NEW a \in Ask, TakeCode(e, c, a)
        PROVE  Grants!Next
    <2>1. /\ UNCHANGED <<deal, token>> /\ codes[c] # None
          /\ \A x \in Code : x # c => codes'[x] = codes[x]
          /\ exch[e].pc # "taken" /\ exch'[e].pc = "taken" /\ exch'[e].code = c
          /\ \A f \in Exchange : f # e => exch'[f] = exch[f]
      BY <1>3 DEF TakeCode, hist, IInv, TypeOK
    <2>2. \A x \in Code : Pending(x)' = Pending(x)
      BY <2>1 DEF Pending
    <2>3. QED
      BY <2>1, <2>2, VoidStep
  <1>4. ASSUME NEW e \in Exchange, Refuse(e) PROVE Grants!Next
    <2>0. PICK c \in Code : c = exch[e].code
      BY <1>4 DEF Refuse, IInv, TypeOK
    <2>1. /\ UNCHANGED <<codes, deal, token>>
          /\ exch[e].pc = "taken" /\ exch'[e].pc = "idle"
          /\ \A f \in Exchange : f # e => exch'[f] = exch[f]
      BY <1>4 DEF Refuse, hist, IdleExch, IInv, TypeOK
    <2>2. /\ deal[c] # None /\ Made(c) = {} /\ codes[c] = None
          /\ \A f \in Exchange : exch[f].pc = "taken" /\ exch[f].code = c => f = e
      <3>1. exch[e].ac \in CodeEntry /\ exch[e].ac.deal = deal[c]
        BY <2>0, <2>1 DEF IInv, GrantInv, TypeOK
      <3>2. QED
        BY <2>0, <2>1, <3>1 DEF IInv, GrantInv, CodeEntry
    <2>3. Pending(c) /\ ~Pending(c)'
      BY <2>0, <2>1, <2>2 DEF Pending
    <2>4. \A x \in Code \ {c} : Pending(x)' = Pending(x)
      BY <2>0, <2>1 DEF Pending
    <2>5. /\ {c} \in SUBSET Code
          /\ \A x \in {c} : deal[x] # None /\ Made(x) = {} /\ Pending(x) /\ ~Pending(x)'
      BY <2>2, <2>3
    <2>6. QED
      BY <2>1, <2>4, <2>5, VoidStep
  <1>5. \/ UNCHANGED <<codes, deal, token>> /\ \A e \in Exchange :
             \/ exch'[e] = exch[e]
             \/ exch[e].pc # "taken" /\ exch'[e].pc # "taken"
        \/ Crash
        \/ \E l \in Login, c \in Code : CreateAuthCode(l, c)
        \/ \E e \in Exchange, c \in Code, a \in Ask : TakeCode(e, c, a)
        \/ \E e \in Exchange : Refuse(e)
        \/ \E e \in Exchange, t \in Token : CreateToken(e, t)
    <2>1. ASSUME NEW e \in Exchange, HandOver(e)
          PROVE  UNCHANGED <<codes, deal, token>> /\ \A f \in Exchange :
                   \/ exch'[f] = exch[f]
                   \/ exch[f].pc # "taken" /\ exch'[f].pc # "taken"
      BY <2>1 DEF HandOver, IdleExch, IInv, TypeOK
    <2>2. Elsewhere \/ (\E l \in Login : LoginFails(l) \/ \E d \in Deal : Submit(l, d))
          => UNCHANGED <<codes, deal, token, exch>>
      BY DEF Elsewhere, LoadKey, SaveKey, Tick, RegisterClient, Resolve, ConnectFails, Restore,
             Submit, LoginFails, vars, mem, hist
    <2>3. QED
      BY <2>1, <2>2, StepKinds
  <1>6. QED
    BY <1>1, <1>2, <1>3, <1>4, <1>5, OfferStep, RedeemStep

\* An authorization code is a single-use grant on the terms of its login: every
\* step of the server is a step of AuthGrant, or none.
THEOREM GrantsImplemented == Spec => ImplementsGrants
  <1>1. Init => Grants!Init
    BY DEF Init, Grants!Init, GrantState, GrantToken
  <1>2. IInv /\ IInv' /\ [Next]_vars => [Grants!Next]_(Grants!vars)
    BY GrantsStep
  <1>3. QED
    BY <1>1, <1>2, IInvariant, PTL DEF Spec, ImplementsGrants, Grants!Spec
=============================================================================
