---------------------------- MODULE GatewayProofs ----------------------------
(* What requests are served with, for any number of credentials, requests and *)
(* attempts, proved.                                                          *)
EXTENDS Gateway, TLAPS

\* The session that requests with the credentials c are served in, and whose it is.
Home(c)  == IF proc.token # None THEN proc.own ELSE byCreds[c]
Owner(c) == IF proc.token # None THEN proc.token ELSE c

\* A process with a token has at most one session, which is its own; it serves with it
\* and looks nowhere else.
Single == /\ proc.token = None => proc.own = 0 /\ proc.pc \notin {"connecting", "pausing"}
          /\ proc.token # None => /\ proc.own \in {0, 1} /\ proc.used = proc.own
                                  /\ \A c \in Cred : byCreds[c] = 0
                                  /\ \A r \in Request : req[r].pc \notin {"opening", "opened"}
                                  /\ proc.pc \in {"serving", "closing"} => proc.own # 0
          /\ proc.pc \in {"connecting", "pausing"} =>
                proc.own = 0 /\ servers = {} /\ \A r \in Request : req[r].pc = "idle"
          /\ proc.pc = "pausing" => proc.attempt < Attempts

\* A session that is known was opened with these credentials and stays open.
Homes == \A c \in Cred : Home(c) # 0 => /\ Home(c) \in 1 .. proc.used
                                        /\ sess[Home(c)].cred = Owner(c)
                                        /\ ~sess[Home(c)].closed

\* A session that waits for the second look is the request's alone.
Fresh == \A r \in Request : req[r].pc = "opened" =>
            /\ req[r].sess \in 1 .. proc.used
            /\ sess[req[r].sess].cred = req[r].cred /\ ~sess[req[r].sess].closed
            /\ \A c \in Cred : byCreds[c] # req[r].sess
            /\ \A q \in Request : req[q].pc = "opened" /\ req[q].sess = req[r].sess => q = r

\* Requests are served in the session of their credentials, and so is every server.
Served == /\ \A r \in Request : req[r].pc # "idle" => req[r].cred \in Cred
          /\ \A r \in Request : Holds(r) => Home(req[r].cred) # 0 /\ req[r].sess = Home(req[r].cred)
          /\ \A i \in servers : \E c \in Cred : Home(c) = i

Accounted == \A i \in 1 .. proc.used : Tracked(i)

Ledger == Single /\ Homes /\ Fresh /\ Served /\ Accounted

IInv == TypeOK /\ Ledger

-----------------------------------------------------------------------------
(* Types. *)

ProcType == [token : Cred \cup {None}, pc : {"connecting", "pausing", "serving", "closing", "ended"},
             attempt : 1 .. Attempts, stop : BOOLEAN, own : 0 .. MaxSess, used : 0 .. MaxSess]
SessType == [cred : Cred \cup {None}, open : BOOLEAN, closed : BOOLEAN]
ReqType  == [pc : {"idle", "opening", "opened", "has", "served", "refused"},
             cred : Cred \cup {None}, sess : 0 .. MaxSess]

\* Opening a session keeps the table of sessions and the count within their types.
LEMMA OpenedType ==
    ASSUME TypeOK, NEW c \in Cred, NEW a, Opened(c, a)
    PROVE  sess' \in [Ids -> SessType] /\ proc.used + 1 \in 1 .. MaxSess /\ proc.used + 1 \in 0 .. MaxSess
  <1>1. proc.used + 1 \in 1 .. MaxSess /\ proc.used + 1 \in 0 .. MaxSess
    BY GatewayAssumption DEF Opened, TypeOK
  <1>2. [cred |-> c, open |-> a = "open", closed |-> FALSE] \in SessType
    BY DEF SessType
  <1>3. sess \in [Ids -> SessType]
    BY DEF TypeOK, SessType
  <1>4. QED
    BY <1>1, <1>2, <1>3 DEF Opened

LEMMA TypeStep == IInv /\ [Next]_vars => TypeOK'
  <1> SUFFICES ASSUME TypeOK, Ledger, [Next]_vars PROVE TypeOK'
    BY DEF IInv
  <1> USE GatewayAssumption
  <1>0. /\ proc \in ProcType /\ sess \in [Ids -> SessType] /\ byCreds \in [Cred -> 0 .. MaxSess]
        /\ servers \subseteq Ids /\ req \in [Request -> ReqType]
        /\ api \in [Cred -> {"invalid", "closed", "open"}]
        /\ world \in [up : BOOLEAN, billing : BOOLEAN, ends : 0 .. MaxEnds]
    BY DEF TypeOK, ProcType, SessType, ReqType
  <1>t. ASSUME proc' \in ProcType, sess' \in [Ids -> SessType], byCreds' \in [Cred -> 0 .. MaxSess],
               servers' \subseteq Ids, req' \in [Request -> ReqType],
               api' \in [Cred -> {"invalid", "closed", "open"}],
               world' \in [up : BOOLEAN, billing : BOOLEAN, ends : 0 .. MaxEnds]
        PROVE  TypeOK'
    BY <1>t DEF TypeOK, ProcType, SessType, ReqType
  <1>1. CASE UNCHANGED vars
    BY <1>1 DEF TypeOK, vars, live
  <1>2. CASE Connect
    <2>1. CASE \E a \in Answers(proc.token) \cap Opening :
                  /\ Opened(proc.token, a)
                  /\ proc' = [proc EXCEPT !.pc = "serving", !.own = proc.used + 1, !.used = @ + 1]
      <3>1. proc.token \in Cred
        BY <1>0, <1>2 DEF Connect, Ledger, Single, ProcType
      <3>2. PICK a : /\ Opened(proc.token, a)
                     /\ proc' = [proc EXCEPT !.pc = "serving", !.own = proc.used + 1, !.used = @ + 1]
        BY <2>1
      <3>3. sess' \in [Ids -> SessType] /\ proc.used + 1 \in 0 .. MaxSess
        BY <3>1, <3>2, OpenedType
      <3>4. proc' \in ProcType
        BY <1>0, <3>2, <3>3 DEF ProcType
      <3>5. QED
        BY <1>0, <1>2, <1>t, <3>3, <3>4 DEF Connect
    <2>2. CASE proc' = [proc EXCEPT !.pc = "ended"] /\ UNCHANGED sess
      <3>1. proc' \in ProcType
        BY <1>0, <2>2 DEF ProcType
      <3>2. QED
        BY <1>0, <1>2, <1>t, <2>2, <3>1 DEF Connect
    <2>3. CASE proc' = [proc EXCEPT !.pc = Failed(proc)] /\ UNCHANGED sess
      <3>1. proc' \in ProcType
        BY <1>0, <2>3 DEF ProcType, Failed
      <3>2. QED
        BY <1>0, <1>2, <1>t, <2>3, <3>1 DEF Connect
    <2>4. QED
      BY <1>2, <2>1, <2>2, <2>3 DEF Connect
  <1>3. CASE Resume
    <2>1. CASE proc.stop
      <3>1. proc' = [proc EXCEPT !.pc = "ended"]
        BY <1>3, <2>1 DEF Resume
      <3>2. QED
        BY <1>0, <1>3, <1>t, <3>1 DEF Resume, ProcType
    <2>2. CASE ~proc.stop
      <3>1. proc' = [proc EXCEPT !.pc = "connecting", !.attempt = @ + 1]
        BY <1>3, <2>2 DEF Resume
      <3>2. proc.attempt + 1 \in 1 .. Attempts
        BY <1>0, <1>3 DEF Resume, ProcType, Ledger, Single
      <3>3. proc' \in ProcType
        BY <1>0, <3>1, <3>2 DEF ProcType
      <3>4. QED
        BY <1>0, <1>3, <1>t, <3>3 DEF Resume
    <2>3. QED
      BY <2>1, <2>2
  <1>4. CASE Signal \/ Crash
    <2>1. world' = [world EXCEPT !.ends = @ + 1] /\ world.ends < MaxEnds
      BY <1>4 DEF Signal, Crash
    <2>2. world.ends + 1 \in 0 .. MaxEnds
      BY <1>0, <2>1
    <2>3. world' \in [up : BOOLEAN, billing : BOOLEAN, ends : 0 .. MaxEnds]
      BY <1>0, <2>1, <2>2
    <2>4. proc' \in ProcType
      <3>1. proc' = [proc EXCEPT !.stop = TRUE] \/ proc' = [proc EXCEPT !.pc = "ended"]
        BY <1>4 DEF Signal, Crash
      <3>2. QED
        BY <1>0, <3>1 DEF ProcType
    <2>5. QED
      BY <1>0, <1>4, <1>t, <2>3, <2>4 DEF Signal, Crash
  <1>5. CASE Shutdown \/ Return
    <2>1. proc' \in ProcType
      BY <1>0, <1>5 DEF Shutdown, Return, ProcType
    <2>2. QED
      BY <1>0, <1>5, <1>t, <2>1 DEF Shutdown, Return
  <1>6. CASE Restart
    <2>1. proc.token \in Cred \cup {None} /\ 0 \in 0 .. MaxSess /\ 1 \in 1 .. Attempts
      BY <1>0 DEF ProcType
    <2>2. Begun(proc.token) \in ProcType
      BY <2>1 DEF ProcType, Begun
    <2>3. NoSessions \in [Ids -> SessType] /\ AllIdle \in [Request -> ReqType]
      BY <2>1 DEF SessType, ReqType, NoSession, Idle, NoSessions, AllIdle
    <2>4. NoneKnown \in [Cred -> 0 .. MaxSess]
      BY <2>1 DEF NoneKnown
    <2>5. QED
      BY <1>0, <1>6, <1>t, <2>2, <2>3, <2>4 DEF Restart
  <1>7. CASE Toggle
    BY <1>0, <1>7, <1>t DEF Toggle, live
  <1>8. ASSUME NEW c \in Cred, Change(c) PROVE TypeOK'
    BY <1>0, <1>8, <1>t DEF Change, live
  <1>9. ASSUME NEW r \in Request, NEW c \in Cred, Arrive(r, c) PROVE TypeOK'
    <2>1. PICK i \in 0 .. MaxSess, p \in {"has", "opening"} :
             req' = [req EXCEPT ![r] = [pc |-> p, cred |-> c, sess |-> i]]
      BY <1>0, <1>9 DEF Arrive, ProcType
    <2>2. [pc |-> p, cred |-> c, sess |-> i] \in ReqType
      BY DEF ReqType
    <2>3. QED
      BY <1>0, <1>9, <1>t, <2>1, <2>2 DEF Arrive
  <1>10. ASSUME NEW r \in Request, OpenSession(r) PROVE TypeOK'
    <2>1. req[r].cred \in Cred
      BY <1>10 DEF OpenSession, Ledger, Served
    <2>2. sess' \in [Ids -> SessType] /\ proc.used + 1 \in 0 .. MaxSess
      BY <1>10, <2>1, OpenedType DEF OpenSession
    <2>3. proc' \in ProcType
      BY <1>0, <1>10, <2>2 DEF OpenSession, ProcType
    <2>4. req' = [req EXCEPT ![r] = [req[r] EXCEPT !.pc = "opened", !.sess = proc.used + 1]]
      BY <1>10 DEF OpenSession
    <2>5. [req[r] EXCEPT !.pc = "opened", !.sess = proc.used + 1] \in ReqType
      <3>1. req[r] \in ReqType
        BY <1>0
      <3>2. QED
        BY <2>2, <3>1 DEF ReqType
    <2>6. QED
      BY <1>0, <1>10, <1>t, <2>2, <2>3, <2>4, <2>5 DEF OpenSession
  <1>11. ASSUME NEW r \in Request, Forbid(r) PROVE TypeOK'
    <2>1. req' \in [Request -> ReqType]
      BY <1>0, <1>11 DEF Forbid, ReqType
    <2>2. QED
      BY <1>0, <1>11, <1>t, <2>1 DEF Forbid
  <1>12. ASSUME NEW r \in Request, Register(r) PROVE TypeOK'
    <2>1. req[r].cred \in Cred /\ req[r].sess \in 0 .. MaxSess /\ req[r].sess \in Ids
      BY <1>0, <1>12 DEF Register, Ledger, Served, Fresh, ReqType, ProcType, Ids
    <2>2. byCreds[req[r].cred] \in 0 .. MaxSess
      BY <1>0, <2>1
    <2>3. CASE byCreds[req[r].cred] # 0
      <3>1. /\ sess' = [sess EXCEPT ![req[r].sess] = [sess[req[r].sess] EXCEPT !.closed = TRUE]]
            /\ req' = [req EXCEPT ![r] = [req[r] EXCEPT !.pc = "has", !.sess = byCreds[req[r].cred]]]
            /\ UNCHANGED <<byCreds, proc, servers, api, world>>
        BY <1>12, <2>3 DEF Register
      <3>2. sess[req[r].sess] \in SessType /\ req[r] \in ReqType
        BY <1>0, <2>1
      <3>3. [sess[req[r].sess] EXCEPT !.closed = TRUE] \in SessType
        BY <3>2 DEF SessType
      <3>4. [req[r] EXCEPT !.pc = "has", !.sess = byCreds[req[r].cred]] \in ReqType
        BY <2>2, <3>2 DEF ReqType
      <3>5. sess' \in [Ids -> SessType]
        BY <1>0, <3>1, <3>3
      <3>6. req' \in [Request -> ReqType]
        BY <1>0, <3>1, <3>4
      <3>7. QED
        BY <1>0, <1>t, <3>1, <3>5, <3>6
    <2>4. CASE byCreds[req[r].cred] = 0
      <3>1. /\ byCreds' = [byCreds EXCEPT ![req[r].cred] = req[r].sess]
            /\ req' = [req EXCEPT ![r] = [req[r] EXCEPT !.pc = "has"]]
            /\ UNCHANGED <<sess, proc, servers, api, world>>
        BY <1>12, <2>4 DEF Register
      <3>2. [req[r] EXCEPT !.pc = "has"] \in ReqType
        BY <1>0 DEF ReqType
      <3>3. QED
        BY <1>0, <1>t, <2>1, <3>1, <3>2
    <2>5. QED
      BY <2>3, <2>4
  <1>13. ASSUME NEW r \in Request, Bind(r) PROVE TypeOK'
    <2>1. req' \in [Request -> ReqType]
      BY <1>0, <1>13 DEF Bind, ReqType
    <2>2. Home(req[r].cred) # 0 /\ req[r].sess = Home(req[r].cred) /\ req[r].cred \in Cred
      BY <1>13 DEF Bind, Ledger, Served, Holds
    <2>3. req[r].sess \in Ids
      BY <1>0, <2>2 DEF Ledger, Homes, Ids, ProcType
    <2>4. QED
      BY <1>0, <1>13, <1>t, <2>1, <2>3 DEF Bind
  <1>14. ASSUME NEW r \in Request, ActivateTrial(r) PROVE TypeOK'
    <2>1. PICK told \in BOOLEAN :
             sess' = [sess EXCEPT ![req[r].sess] = [sess[req[r].sess] EXCEPT
                                                       !.open = sess[req[r].sess].open \/ told]]
      BY <1>14 DEF ActivateTrial
    <2>2. sess' \in [Ids -> SessType]
      <3>1. CASE req[r].sess \in Ids
        <4>1. sess[req[r].sess] \in SessType
          BY <1>0, <3>1
        <4>2. (sess[req[r].sess].open \/ told) \in BOOLEAN
          OBVIOUS
        <4>3. [sess[req[r].sess] EXCEPT !.open = sess[req[r].sess].open \/ told] \in SessType
          BY <4>1, <4>2 DEF SessType
        <4>4. QED
          BY <1>0, <2>1, <4>3
      <3>2. CASE req[r].sess \notin Ids
        BY <1>0, <2>1, <3>2
      <3>3. QED
        BY <3>1, <3>2
    <2>3. QED
      BY <1>0, <1>14, <1>t, <2>2 DEF ActivateTrial
  <1>15. ASSUME NEW r \in Request, Done(r) PROVE TypeOK'
    <2>1. Idle \in ReqType
      BY <1>0 DEF Idle, ReqType
    <2>2. QED
      BY <1>0, <1>15, <1>t, <2>1 DEF Done
  <1>99. QED
    BY <1>1, <1>2, <1>3, <1>4, <1>5, <1>6, <1>7, <1>8, <1>9, <1>10, <1>11, <1>12, <1>13, <1>14,
       <1>15 DEF Next, Handle

-----------------------------------------------------------------------------
(* Sessions. *)

\* What a step keeps when it touches neither the tables nor the requests.
LEMMA Same ==
    ASSUME Ledger, UNCHANGED <<byCreds, servers, req>>,
           proc'.token = proc.token, proc'.own = proc.own, proc'.used = proc.used,
           \A i \in 1 .. proc.used : sess'[i].cred = sess[i].cred /\ sess'[i].closed = sess[i].closed
    PROVE  (Homes /\ Fresh /\ Served /\ Accounted)'
  <1>1. Homes'
    BY DEF Ledger, Homes, Home, Owner
  <1>2. Fresh'
    BY DEF Ledger, Fresh
  <1>3. Served'
    BY DEF Ledger, Served, Home, Holds
  <1>4. Accounted'
    BY DEF Ledger, Accounted, Tracked
  <1>5. QED
    BY <1>1, <1>2, <1>3, <1>4

\* The ledger after a step of one request that opens no session and closes none.
LEMMA OneRequest ==
    ASSUME Ledger, NEW r \in Request, NEW y,
           req' = [req EXCEPT ![r] = y], req \in [Request -> ReqType],
           UNCHANGED <<proc, byCreds>>,
           \A i \in 1 .. proc.used : sess'[i].cred = sess[i].cred /\ sess'[i].closed = sess[i].closed,
           req[r].pc # "opened", y.pc # "opened",
           proc.pc \in {"serving", "closing"},
           y.pc # "idle" => y.cred \in Cred,
           y.pc = "opening" => proc.token = None,
           y.pc \in {"has", "served"} => Home(y.cred) # 0 /\ y.sess = Home(y.cred),
           \A i \in servers' : \E c \in Cred : Home(c) = i
    PROVE  Ledger'
  <1>1. req'[r] = y /\ \A q \in Request : q # r => req'[q] = req[q]
    OBVIOUS
  <1>2. Single'
    BY <1>1 DEF Ledger, Single
  <1>3. Homes'
    BY DEF Ledger, Homes, Home, Owner
  <1>4. Fresh'
    BY <1>1 DEF Ledger, Fresh
  <1>5. Served'
    BY <1>1 DEF Ledger, Served, Home, Holds
  <1>6. Accounted'
    BY <1>1 DEF Ledger, Accounted, Tracked
  <1>7. QED
    BY <1>2, <1>3, <1>4, <1>5, <1>6 DEF Ledger

LEMMA LedgerStep == IInv /\ [Next]_vars => Ledger'
  <1> SUFFICES ASSUME TypeOK, Ledger, [Next]_vars PROVE Ledger'
    BY DEF IInv
  <1>0. /\ proc \in ProcType /\ sess \in [Ids -> SessType] /\ byCreds \in [Cred -> 0 .. MaxSess]
        /\ req \in [Request -> ReqType] /\ proc.used \in 0 .. MaxSess /\ MaxSess \in Nat
        /\ servers \subseteq Ids
    BY GatewayAssumption DEF TypeOK, ProcType, SessType, ReqType
  <1>1. CASE UNCHANGED <<vars>> \/ Toggle \/ \E c \in Cred : Change(c)
    <2>1. UNCHANGED live
      BY <1>1 DEF vars, live, Toggle, Change
    <2>2. Single'
      BY <2>1 DEF Ledger, Single, live
    <2>3. QED
      BY <2>1, <2>2, Same DEF live, Ledger
  <1>2. CASE Resume \/ Signal \/ Shutdown \/ Return \/ Crash
    <2>1. /\ proc'.token = proc.token /\ proc'.own = proc.own /\ proc'.used = proc.used
          /\ UNCHANGED <<sess, byCreds, servers, req>>
      BY <1>0, <1>2 DEF Resume, Signal, Shutdown, Return, Crash, ProcType
    <2>2. \/ proc'.pc = proc.pc /\ proc'.attempt = proc.attempt
          \/ proc'.pc = "ended"
          \/ proc'.pc = "connecting" /\ proc.pc = "pausing"
          \/ proc'.pc = "closing" /\ proc.pc = "serving"
      BY <1>0, <1>2 DEF Resume, Signal, Shutdown, Return, Crash, ProcType
    <2>3. Single'
      BY <2>1, <2>2 DEF Ledger, Single
    <2>4. QED
      BY <2>1, <2>3, Same DEF Ledger
  <1>3. CASE Connect
    <2>0. /\ proc.token # None /\ proc.own = 0 /\ proc.used = 0 /\ servers = {}
          /\ \A r \in Request : req[r].pc = "idle"
          /\ \A c \in Cred : byCreds[c] = 0
          /\ UNCHANGED <<byCreds, servers, req>>
      BY <1>3 DEF Connect, Ledger, Single
    <2>1. CASE \E a \in Answers(proc.token) \cap Opening :
                  /\ Opened(proc.token, a)
                  /\ proc' = [proc EXCEPT !.pc = "serving", !.own = proc.used + 1, !.used = @ + 1]
      <3>1. PICK a : /\ Opened(proc.token, a)
                     /\ proc' = [proc EXCEPT !.pc = "serving", !.own = proc.used + 1, !.used = @ + 1]
        BY <2>1
      <3>2. proc'.pc = "serving" /\ proc'.own = 1 /\ proc'.used = 1 /\ proc'.token = proc.token
        BY <1>0, <2>0, <3>1 DEF ProcType
      <3>3. 1 \in Ids
        BY <1>0, <2>0, <3>1 DEF Opened, Ids
      <3>4. sess'[1] = [cred |-> proc.token, open |-> a = "open", closed |-> FALSE]
        BY <1>0, <2>0, <3>1, <3>3 DEF Opened
      <3>5. Single'
        BY <2>0, <3>2 DEF Single
      <3>6. Homes'
        BY <3>2, <3>4, <2>0 DEF Homes, Home, Owner
      <3>7. Fresh' /\ Served'
        BY <2>0 DEF Fresh, Served, Holds
      <3>8. Accounted'
        BY <3>2 DEF Accounted, Tracked
      <3>9. QED
        BY <3>5, <3>6, <3>7, <3>8 DEF Ledger
    <2>2. CASE /\ UNCHANGED sess
               /\ \/ proc' = [proc EXCEPT !.pc = "ended"]
                  \/ proc' = [proc EXCEPT !.pc = Failed(proc)]
      <3>1. /\ proc'.token = proc.token /\ proc'.own = proc.own /\ proc'.used = proc.used
            /\ proc'.attempt = proc.attempt
            /\ proc'.pc = "ended" \/ (proc'.pc = "pausing" /\ proc.attempt < Attempts)
        <4>1. Failed(proc) = "ended" \/ (Failed(proc) = "pausing" /\ proc.attempt < Attempts)
          <5>1. proc.attempt \in Nat /\ Attempts \in Nat
            BY <1>0, GatewayAssumption DEF ProcType
          <5>2. QED
            BY <5>1 DEF Failed
        <4>2. QED
          BY <1>0, <2>2, <4>1 DEF ProcType
      <3>2. Single'
        BY <2>0, <3>1 DEF Single
      <3>3. QED
        <4>1. \A k \in 1 .. proc.used : sess'[k].cred = sess[k].cred /\ sess'[k].closed = sess[k].closed
          BY <2>2
        <4>2. (Homes /\ Fresh /\ Served /\ Accounted)'
          BY <2>0, <3>1, <4>1, Same
        <4>3. QED
          BY <3>2, <4>2 DEF Ledger
    <2>3. QED
      BY <1>3, <2>1, <2>2 DEF Connect
  <1>4. CASE Restart
    <2>1. /\ proc'.token = proc.token /\ proc'.own = 0 /\ proc'.used = 0 /\ servers' = {}
          /\ proc'.attempt = 1
          /\ proc'.pc = IF proc.token = None THEN "serving" ELSE "connecting"
      BY <1>4 DEF Restart, Begun
    <2>2. /\ \A c \in Cred : byCreds'[c] = 0
          /\ \A r \in Request : req'[r].pc = "idle"
      BY <1>4 DEF Restart, NoneKnown, AllIdle, Idle
    <2>3. Single'
      BY <2>1, <2>2 DEF Single
    <2>4. Homes' /\ Fresh' /\ Served' /\ Accounted'
      BY <2>1, <2>2 DEF Homes, Home, Fresh, Served, Holds, Accounted
    <2>5. QED
      BY <2>3, <2>4 DEF Ledger
  <1>5. ASSUME NEW r \in Request, NEW c \in Cred, Arrive(r, c) PROVE Ledger'
    <2> DEFINE i == IF proc.own # 0 THEN proc.own ELSE byCreds[c]
               y == [pc |-> IF i # 0 THEN "has" ELSE "opening", cred |-> c, sess |-> i]
    <2>1. req' = [req EXCEPT ![r] = y] /\ UNCHANGED <<proc, sess, byCreds, servers>>
      BY <1>5 DEF Arrive
    <2>2. proc.pc = "serving" /\ req[r].pc = "idle"
      BY <1>5 DEF Arrive
    <2>3. i = Home(c) /\ (i = 0 => proc.token = None)
      BY <2>2 DEF Ledger, Single, Home
    <2>4. /\ y.cred \in Cred /\ y.pc # "opened" /\ y.pc \in {"has", "opening"}
          /\ y.pc = "opening" => proc.token = None
          /\ y.pc = "has" => Home(y.cred) # 0 /\ y.sess = Home(y.cred)
      BY <2>3
    <2>5. \A k \in servers' : \E d \in Cred : Home(d) = k
      BY <2>1 DEF Ledger, Served
    <2> HIDE DEF y, i
    <2>6. QED
      BY <1>0, <2>1, <2>2, <2>4, <2>5, OneRequest
  <1>6. ASSUME NEW r \in Request, OpenSession(r) PROVE Ledger'
    <2> DEFINE n == proc.used + 1
    <2>1. PICK a : Opened(req[r].cred, a)
      BY <1>6 DEF OpenSession
    <2>2. n \in Ids /\ n \in Nat /\ n # 0 /\ n \notin 1 .. proc.used
      BY <1>0, <2>1 DEF Opened, Ids
    <2>3. /\ sess'[n] = [cred |-> req[r].cred, open |-> a = "open", closed |-> FALSE]
          /\ \A k \in 1 .. proc.used : sess'[k] = sess[k]
      BY <1>0, <2>1, <2>2 DEF Opened, Ids
    <2>4. /\ proc.pc \in {"serving", "closing"} /\ req[r].pc = "opening" /\ req[r].cred \in Cred
          /\ proc.token = None
      BY <1>6 DEF OpenSession, Serving, Ledger, Single, Served
    <2>5. /\ proc'.pc = proc.pc /\ proc'.token = proc.token /\ proc'.own = proc.own
          /\ proc'.attempt = proc.attempt /\ proc'.used = n
      BY <1>0, <1>6 DEF OpenSession, ProcType
    <2>6. /\ req'[r].pc = "opened" /\ req'[r].sess = n /\ req'[r].cred = req[r].cred
          /\ \A q \in Request : q # r => req'[q] = req[q]
          /\ UNCHANGED <<byCreds, servers>>
      BY <1>0, <1>6 DEF OpenSession, ReqType
    <2>7. 1 .. n = 1 .. proc.used \cup {n}
      BY <1>0
    <2> HIDE DEF n
    <2>8. \A c \in Cred : Home(c)' = Home(c) /\ Owner(c)' = Owner(c) /\ Home(c) = byCreds[c]
      BY <2>4, <2>5, <2>6 DEF Home, Owner
    <2>9. \A c \in Cred : byCreds[c] # n
      BY <2>2, <2>8 DEF Ledger, Homes
    <2>10. Single'
      BY <2>4, <2>5 DEF Ledger, Single
    <2>11. Homes'
      BY <2>3, <2>5, <2>7, <2>8 DEF Ledger, Homes
    <2>12. Fresh'
      BY <2>2, <2>3, <2>5, <2>6, <2>7, <2>9 DEF Ledger, Fresh
    <2>13. Served'
      BY <2>4, <2>6, <2>8 DEF Ledger, Served, Holds
    <2>14. Accounted'
      BY <2>3, <2>4, <2>5, <2>6, <2>7 DEF Ledger, Accounted, Tracked
    <2>15. QED
      BY <2>10, <2>11, <2>12, <2>13, <2>14 DEF Ledger
  <1>7. ASSUME NEW r \in Request, Forbid(r) \/ Done(r) PROVE Ledger'
    <2>1. PICK y \in {Idle, [req[r] EXCEPT !.pc = "refused"]} : req' = [req EXCEPT ![r] = y]
      BY <1>7 DEF Forbid, Done
    <2>2. y.pc \in {"idle", "refused"} /\ (y.pc = "idle" \/ y.cred = req[r].cred)
      BY <1>0, <2>1 DEF Idle, ReqType
    <2>3. /\ proc.pc \in {"serving", "closing"} /\ req[r].pc \in {"opening", "served", "refused"}
          /\ UNCHANGED <<proc, sess, byCreds, servers>>
      BY <1>7 DEF Forbid, Done, Serving
    <2>4. y.pc # "idle" => y.cred \in Cred
      BY <2>2, <2>3 DEF Ledger, Served
    <2>5. \A k \in servers' : \E d \in Cred : Home(d) = k
      BY <2>3 DEF Ledger, Served
    <2>6. QED
      BY <1>0, <2>1, <2>2, <2>3, <2>4, <2>5, OneRequest
  <1>8. ASSUME NEW r \in Request, Bind(r) PROVE Ledger'
    <2> DEFINE y == [req[r] EXCEPT !.pc = "served"]
    <2>1. req' = [req EXCEPT ![r] = y] /\ UNCHANGED <<proc, sess, byCreds>>
      BY <1>8 DEF Bind
    <2>2. /\ proc.pc \in {"serving", "closing"} /\ req[r].pc = "has"
          /\ servers' = servers \cup {req[r].sess}
      BY <1>8 DEF Bind, Serving
    <2>3. y.pc = "served" /\ y.cred = req[r].cred /\ y.sess = req[r].sess
      BY <1>0 DEF ReqType
    <2>4. y.cred \in Cred /\ Home(y.cred) # 0 /\ y.sess = Home(y.cred)
      BY <2>2, <2>3 DEF Ledger, Served, Holds
    <2>5. \A k \in servers' : \E d \in Cred : Home(d) = k
      BY <2>2, <2>3, <2>4 DEF Ledger, Served
    <2> HIDE DEF y
    <2>6. QED
      BY <1>0, <2>1, <2>2, <2>3, <2>4, <2>5, OneRequest
  <1>9. ASSUME NEW r \in Request, ActivateTrial(r) PROVE Ledger'
    <2>1. UNCHANGED <<proc, byCreds, servers, req>>
      BY <1>9 DEF ActivateTrial
    <2>2. PICK told : sess' = [sess EXCEPT ![req[r].sess] =
                                  [sess[req[r].sess] EXCEPT !.open = sess[req[r].sess].open \/ told]]
      BY <1>9 DEF ActivateTrial
    <2>3. \A k \in Ids : sess'[k].cred = sess[k].cred /\ sess'[k].closed = sess[k].closed
      BY <1>0, <2>2 DEF SessType
    <2>4. \A k \in 1 .. proc.used : k \in Ids
      BY <1>0 DEF Ids
    <2>5. Single'
      BY <2>1 DEF Ledger, Single
    <2>6. QED
      BY <2>1, <2>3, <2>4, <2>5, Same DEF Ledger
  <1>10. ASSUME NEW r \in Request, Register(r) PROVE Ledger'
    <2> DEFINE c == req[r].cred
               i == req[r].sess
    <2>1. /\ proc.pc \in {"serving", "closing"} /\ req[r].pc = "opened" /\ c \in Cred
          /\ proc.token = None /\ proc.own = 0
          /\ i \in 1 .. proc.used /\ i # 0 /\ sess[i].cred = c /\ ~sess[i].closed /\ i \in Ids
      BY <1>0, <1>10 DEF Register, Serving, Ledger, Single, Served, Fresh, Ids
    <2>2. /\ \A d \in Cred : Home(d) = byCreds[d] /\ Owner(d) = d /\ byCreds[d] # i
          /\ \A d \in Cred : Home(d)' = byCreds'[d] /\ Owner(d)' = d
          /\ UNCHANGED <<proc, servers>>
      BY <1>10, <2>1 DEF Home, Owner, Ledger, Fresh, Register
    <2>3. \A q \in Request : q # r => req'[q] = req[q]
      BY <1>0, <1>10 DEF Register
    <2>4. \A q \in Request : q # r /\ req[q].pc = "opened" => req[q].sess # i
      BY <2>1 DEF Ledger, Fresh
    <2>5. CASE byCreds[c] # 0
      <3>1. /\ sess' = [sess EXCEPT ![i] = [sess[i] EXCEPT !.closed = TRUE]]
            /\ req' = [req EXCEPT ![r] = [req[r] EXCEPT !.pc = "has", !.sess = byCreds[c]]]
            /\ UNCHANGED byCreds
        BY <1>10, <2>5 DEF Register
      <3>2. req'[r].pc = "has" /\ req'[r].cred = c /\ req'[r].sess = byCreds[c]
        BY <1>0, <3>1 DEF ReqType
      <3>3. sess'[i].closed /\ \A k \in Ids : k # i => sess'[k] = sess[k]
        BY <1>0, <2>1, <3>1 DEF SessType
      <3>4. \A k \in 1 .. proc.used : k \in Ids
        BY <1>0 DEF Ids
      <3> HIDE DEF c, i
      <3>5. Single'
        BY <2>1, <2>2, <2>3, <3>1, <3>2 DEF Ledger, Single
      <3>6. Homes'
        BY <2>2, <3>1, <3>3, <3>4 DEF Ledger, Homes
      <3>7. Fresh'
        BY <2>2, <2>3, <2>4, <3>1, <3>2, <3>3, <3>4 DEF Ledger, Fresh
      <3>8. Served'
        BY <2>1, <2>2, <2>3, <2>5, <3>1, <3>2 DEF Ledger, Served, Holds
      <3>9. Accounted'
        <4>1. SUFFICES ASSUME NEW k \in 1 .. proc.used PROVE Tracked(k)'
          BY <2>2 DEF Accounted
        <4>2. CASE k = i
          BY <3>3, <4>2 DEF Tracked
        <4>3. CASE k # i
          <5>1. Tracked(k) /\ (req[r].pc = "opened" => req[r].sess = i)
            BY DEF Ledger, Accounted, i
          <5>2. QED
            BY <2>2, <2>3, <3>1, <3>3, <3>4, <4>3, <5>1 DEF Tracked
        <4>4. QED
          BY <4>2, <4>3
      <3>10. QED
        BY <3>5, <3>6, <3>7, <3>8, <3>9 DEF Ledger
    <2>6. CASE byCreds[c] = 0
      <3>1. /\ byCreds' = [byCreds EXCEPT ![c] = i]
            /\ req' = [req EXCEPT ![r] = [req[r] EXCEPT !.pc = "has"]]
            /\ UNCHANGED sess
        BY <1>10, <2>6 DEF Register
      <3>2. req'[r].pc = "has" /\ req'[r].cred = c /\ req'[r].sess = i
        BY <1>0, <3>1 DEF ReqType
      <3>3. byCreds'[c] = i /\ \A d \in Cred : d # c => byCreds'[d] = byCreds[d]
        BY <1>0, <2>1, <3>1
      <3> HIDE DEF c, i
      <3>4. \A q \in Request : q # r /\ Holds(q)' => req'[q].cred # c
        BY <2>2, <2>3, <2>6 DEF Ledger, Served, Holds
      <3>5. Single'
        BY <2>1, <2>2, <2>3, <3>2 DEF Ledger, Single
      <3>6. Homes'
        BY <2>1, <2>2, <3>1, <3>3 DEF Ledger, Homes
      <3>7. Fresh'
        BY <2>2, <2>3, <2>4, <3>1, <3>2, <3>3 DEF Ledger, Fresh
      <3>8. Served'
        <4>1. \A q \in Request : req'[q].pc # "idle" => req'[q].cred \in Cred
          BY <2>1, <2>3, <3>2 DEF Ledger, Served
        <4>2. \A q \in Request : req'[q].pc \in {"has", "served"} =>
                 byCreds'[req'[q].cred] # 0 /\ req'[q].sess = byCreds'[req'[q].cred]
          BY <2>1, <2>2, <2>3, <3>2, <3>3, <3>4 DEF Ledger, Served, Holds
        <4>3. \A k \in servers' : \E d \in Cred : Home(d)' = k
          <5>1. SUFFICES ASSUME NEW k \in servers PROVE \E d \in Cred : Home(d)' = k
            BY <2>2
          <5>2. PICK d \in Cred : Home(d) = k
            BY DEF Ledger, Served
          <5>3. QED
            BY <1>0, <2>1, <2>2, <2>6, <3>3, <5>2 DEF Ids
        <4>4. QED
          BY <2>1, <2>2, <4>1, <4>2, <4>3 DEF Served, Holds, Home
      <3>9. Accounted'
        BY <2>1, <2>2, <2>3, <2>6, <3>1, <3>2, <3>3 DEF Ledger, Accounted, Tracked
      <3>10. QED
        BY <3>5, <3>6, <3>7, <3>8, <3>9 DEF Ledger
    <2>7. QED
      BY <2>5, <2>6
  <1>99. QED
    BY <1>1, <1>2, <1>3, <1>4, <1>5, <1>6, <1>7, <1>8, <1>9, <1>10 DEF Next, Handle

-----------------------------------------------------------------------------

LEMMA Begins == Init => IInv
  <1> SUFFICES ASSUME Init PROVE IInv
    OBVIOUS
  <1> USE GatewayAssumption
  <1>1. PICK t \in Cred \cup {None} : proc = Begun(t)
    BY DEF Init
  <1>2. /\ proc.token = t /\ proc.own = 0 /\ proc.used = 0 /\ proc.attempt = 1
        /\ proc.pc = IF t = None THEN "serving" ELSE "connecting"
    BY <1>1 DEF Begun
  <1>3. /\ \A c \in Cred : byCreds[c] = 0
        /\ \A r \in Request : req[r].pc = "idle"
        /\ servers = {}
    BY DEF Init, NoneKnown, AllIdle, Idle
  <1>4. Ledger
    <2>1. Single
      BY <1>2, <1>3 DEF Single
    <2>2. Homes /\ Fresh /\ Served /\ Accounted
      BY <1>2, <1>3 DEF Homes, Home, Fresh, Served, Holds, Accounted
    <2>3. QED
      BY <2>1, <2>2 DEF Ledger
  <1>5. TypeOK
    <2>1. 0 \in 0 .. MaxSess /\ 1 \in 1 .. Attempts /\ 0 \in 0 .. MaxEnds
      OBVIOUS
    <2>2. Begun(t) \in ProcType
      BY <2>1 DEF ProcType, Begun
    <2>3. NoSessions \in [Ids -> SessType] /\ AllIdle \in [Request -> ReqType]
      BY <2>1 DEF SessType, ReqType, NoSession, Idle, NoSessions, AllIdle
    <2>4. NoneKnown \in [Cred -> 0 .. MaxSess]
      BY <2>1 DEF NoneKnown
    <2>5. world \in [up : BOOLEAN, billing : BOOLEAN, ends : 0 .. MaxEnds]
      BY <2>1 DEF Init
    <2>6. QED
      BY <1>1, <2>2, <2>3, <2>4, <2>5 DEF Init, TypeOK, ProcType, SessType, ReqType
  <1>6. QED
    BY <1>4, <1>5 DEF IInv

\* The ledger is kept by every step.
THEOREM Inductive == Spec => []IInv
  <1>1. Init => IInv
    BY Begins
  <1>2. IInv /\ [Next]_vars => IInv'
    BY TypeStep, LedgerStep DEF IInv
  <1>3. QED
    BY <1>1, <1>2, PTL DEF Spec

\* Every variable has its type: no start tries more than Attempts times, and every
\* request that is served has a session.
THEOREM TypeCorrect == Spec => []TypeOK
  <1>1. IInv => TypeOK
    BY DEF IInv
  <1>2. QED
    BY <1>1, Inductive, PTL

\* However many requests are the first to bring their credentials, those with the
\* same credentials are served in one session, which was opened with them.
THEOREM OneSessionAlways == Spec => []OneSession
  <1>1. IInv => OneSession
    BY DEF IInv, Ledger, Homes, Served, OneSession, Home, Owner, Holds, Single
  <1>2. QED
    BY <1>1, Inductive, PTL

\* No session is lost track of, and one that is closed serves nobody.
THEOREM NoneLostAlways == Spec => []NoneLost
  <1>1. ASSUME IInv PROVE NoneLost
    <2>1. SUFFICES ASSUME NEW i \in 1 .. proc.used
                   PROVE  /\ Tracked(i)
                          /\ sess[i].closed => i \notin servers /\ \A r \in Request : Holds(r) => req[r].sess # i
      BY DEF NoneLost
    <2>2. Tracked(i)
      BY <1>1 DEF IInv, Ledger, Accounted
    <2>3. ASSUME sess[i].closed PROVE \A c \in Cred : Home(c) # i
      BY <1>1, <2>3 DEF IInv, Ledger, Homes
    <2>4. QED
      BY <1>1, <2>2, <2>3 DEF IInv, Ledger, Served, Holds
  <1>2. QED
    BY <1>1, Inductive, PTL
=============================================================================
