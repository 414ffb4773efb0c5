------------------------------ MODULE Gateway -------------------------------
(***************************************************************************)
(* The process and its sessions: how it starts, what a request is served   *)
(* with, and how it ends (cmd/vchasno-edo-mcp/main.go,                     *)
(* internal/httpserver/server.go, internal/session/session.go).            *)
(*                                                                         *)
(* With a token of its own the process opens one session before it serves, *)
(* and every request uses it.  Without one a request brings its            *)
(* credentials in headers; the first to bring them opens the session, and  *)
(* not under the lock.  Requests with a bearer token are in OAuthServer.   *)
(***************************************************************************)
EXTENDS Naturals, FiniteSets

CONSTANTS Cred,        \* a host and a token
          Request,     \* requests under way at the same time
          None,
          Attempts,    \* of connectWithRetry: 8
          MaxSess,     \* bound of the model: sessions opened in a life
          MaxEnds      \* bound of the model: signals and crashes

ASSUME GatewayAssumption == /\ None \notin Cred
                            /\ Attempts \in Nat \ {0} /\ MaxSess \in Nat /\ MaxEnds \in Nat

VARIABLES proc,        \* the process
          sess,        \* sess[i]: the i-th session that was opened
          byCreds,     \* Server.byCreds, 0 where there is none
          servers,     \* the sessions that have an MCP server
          req,         \* req[r]: a request
          api,         \* api[c]: what Vchasno thinks of the credentials
          world        \* does Vchasno answer, has it a billing route; ends so far

live == <<proc, sess, byCreds, servers, req>>
vars == <<proc, sess, byCreds, servers, req, api, world>>

Ids == 1 .. MaxSess

\* token: MCP_VCHASNO_TOKEN; own: preAuth; used: the sessions opened so far.
Begun(t) == [token |-> t, pc |-> IF t = None THEN "serving" ELSE "connecting",
             attempt |-> 1, stop |-> FALSE, own |-> 0, used |-> 0]

NoSession == [cred |-> None, open |-> FALSE, closed |-> FALSE]
Idle == [pc |-> "idle", cred |-> None, sess |-> 0]

NoSessions == [i \in Ids |-> NoSession]
NoneKnown  == [c \in Cred |-> 0]
AllIdle    == [r \in Request |-> Idle]

Init == /\ \E t \in Cred \cup {None} : proc = Begun(t)
        /\ sess = NoSessions /\ byCreds = NoneKnown /\ servers = {} /\ req = AllIdle
        /\ api \in [Cred -> {"invalid", "closed", "open"}]
        /\ world \in [up : BOOLEAN, billing : BOOLEAN, ends : {0}]

-----------------------------------------------------------------------------
(* Opening a session. *)

AnswersStrict(c) == IF ~world.up THEN {"down"}          \* mutant: a closed company has no session
                    ELSE IF api[c] = "closed" THEN {"denied"} ELSE {api[c]}

\* Connect asks for the tariffs; where there is no such route, for the employees,
\* which a closed company is denied.
Answers(c) == IF ~world.up THEN {"down"}
              ELSE IF api[c] = "closed" /\ ~world.billing THEN {"denied"}
              ELSE {api[c]}

\* A company without an API tariff has a session all the same.
Opening == {"open", "closed"}

Opened(c, a) == /\ proc.used < MaxSess
                /\ sess' = [sess EXCEPT ![proc.used + 1] =
                               [cred |-> c, open |-> a = "open", closed |-> FALSE]]

-----------------------------------------------------------------------------
(* The process. *)

\* connectWithRetry, after an attempt that failed.
Failed(p) == IF p.attempt >= Attempts \/ p.stop THEN "ended" ELSE "pausing"

Connect == /\ proc.pc = "connecting"
           /\ \/ \E a \in Answers(proc.token) \cap Opening :
                    /\ Opened(proc.token, a)
                    /\ proc' = [proc EXCEPT !.pc = "serving", !.own = proc.used + 1, !.used = @ + 1]
              \/ /\ "invalid" \in Answers(proc.token)
                 /\ proc' = [proc EXCEPT !.pc = "ended"]
                 /\ UNCHANGED sess
              \/ /\ proc.stop \/ {"down", "denied"} \cap Answers(proc.token) # {}
                 /\ proc' = [proc EXCEPT !.pc = Failed(proc)]
                 /\ UNCHANGED sess
           /\ UNCHANGED <<byCreds, servers, req, api, world>>

\* The pause is over, or the process is told to stop.
Resume == /\ proc.pc = "pausing"
          /\ proc' = IF proc.stop THEN [proc EXCEPT !.pc = "ended"]
                     ELSE [proc EXCEPT !.pc = "connecting", !.attempt = @ + 1]
          /\ UNCHANGED <<sess, byCreds, servers, req, api, world>>

Signal == /\ proc.pc \in {"connecting", "pausing", "serving"} /\ ~proc.stop
          /\ world.ends < MaxEnds
          /\ proc' = [proc EXCEPT !.stop = TRUE]
          /\ world' = [world EXCEPT !.ends = @ + 1]
          /\ UNCHANGED <<sess, byCreds, servers, req, api>>

\* No further request is accepted, and ListenAndServe returns at once.
Shutdown == /\ proc.pc = "serving" /\ proc.stop
            /\ proc' = [proc EXCEPT !.pc = "closing"]
            /\ UNCHANGED <<sess, byCreds, servers, req, api, world>>

ReturnWhenIdle ==                      \* mutant: main waits for the requests, however long they take
    /\ proc.pc = "closing" /\ \A r \in Request : req[r].pc = "idle"
    /\ proc' = [proc EXCEPT !.pc = "ended"]
    /\ UNCHANGED <<sess, byCreds, servers, req, api, world>>

\* main returns, and does not wait for the requests under way.
Return == /\ proc.pc = "closing"
          /\ proc' = [proc EXCEPT !.pc = "ended"]
          /\ UNCHANGED <<sess, byCreds, servers, req, api, world>>

Crash == /\ proc.pc # "ended" /\ world.ends < MaxEnds
         /\ proc' = [proc EXCEPT !.pc = "ended"]
         /\ world' = [world EXCEPT !.ends = @ + 1]
         /\ UNCHANGED <<sess, byCreds, servers, req, api>>

\* restart: unless-stopped (docker-compose.yml).
Restart == /\ proc.pc = "ended"
           /\ proc' = Begun(proc.token)
           /\ sess' = NoSessions /\ byCreds' = NoneKnown /\ servers' = {} /\ req' = AllIdle
           /\ UNCHANGED <<api, world>>

-----------------------------------------------------------------------------
(* Requests with credentials in headers. *)

Serving == proc.pc \in {"serving", "closing"}

\* resolveSession: the session of the process, the one that is known, or a new one.
Arrive(r, c) ==
    /\ proc.pc = "serving" /\ req[r].pc = "idle"
    /\ LET i == IF proc.own # 0 THEN proc.own ELSE byCreds[c]
       IN  req' = [req EXCEPT ![r] = [pc |-> IF i # 0 THEN "has" ELSE "opening", cred |-> c, sess |-> i]]
    /\ UNCHANGED <<proc, sess, byCreds, servers, api, world>>

OpenSession(r) ==
    /\ Serving /\ req[r].pc = "opening"
    /\ \E a \in Answers(req[r].cred) \cap Opening : Opened(req[r].cred, a)
    /\ proc' = [proc EXCEPT !.used = @ + 1]
    /\ req' = [req EXCEPT ![r] = [@ EXCEPT !.pc = "opened", !.sess = proc.used + 1]]
    /\ UNCHANGED <<byCreds, servers, api, world>>

\* Vchasno does not give a session, or the caller has gone: "authentication failed".
Forbid(r) ==
    /\ Serving /\ req[r].pc = "opening"
    /\ req' = [req EXCEPT ![r] = [@ EXCEPT !.pc = "refused"]]
    /\ UNCHANGED <<proc, sess, byCreds, servers, api, world>>

RegisterBlindly(r) ==        \* mutant: nobody looks a second time
    LET q == req[r] IN
    /\ Serving /\ q.pc = "opened"
    /\ byCreds' = [byCreds EXCEPT ![q.cred] = q.sess]
    /\ req' = [req EXCEPT ![r] = [@ EXCEPT !.pc = "has"]]
    /\ UNCHANGED <<proc, sess, servers, api, world>>

RegisterOpen(r) ==           \* mutant: the session that is not needed stays open
    LET q == req[r]
        known == byCreds[q.cred]
    IN
    /\ Serving /\ q.pc = "opened"
    /\ IF known # 0
       THEN /\ req' = [req EXCEPT ![r] = [@ EXCEPT !.pc = "has", !.sess = known]]
            /\ UNCHANGED byCreds
       ELSE /\ byCreds' = [byCreds EXCEPT ![q.cred] = q.sess]
            /\ req' = [req EXCEPT ![r] = [@ EXCEPT !.pc = "has"]]
    /\ UNCHANGED <<proc, sess, servers, api, world>>

\* The second look: of two that opened a session, the second closes its own.
Register(r) ==
    LET q == req[r]
        known == byCreds[q.cred]
    IN
    /\ Serving /\ q.pc = "opened"
    /\ IF known # 0
       THEN /\ sess' = [sess EXCEPT ![q.sess] = [@ EXCEPT !.closed = TRUE]]
            /\ req' = [req EXCEPT ![r] = [@ EXCEPT !.pc = "has", !.sess = known]]
            /\ UNCHANGED byCreds
       ELSE /\ byCreds' = [byCreds EXCEPT ![q.cred] = q.sess]
            /\ req' = [req EXCEPT ![r] = [@ EXCEPT !.pc = "has"]]
            /\ UNCHANGED sess
    /\ UNCHANGED <<proc, servers, api, world>>

\* mcpServerFor: one MCP server for each session.
Bind(r) ==
    /\ Serving /\ req[r].pc = "has"
    /\ servers' = servers \cup {req[r].sess}
    /\ req' = [req EXCEPT ![r] = [@ EXCEPT !.pc = "served"]]
    /\ UNCHANGED <<proc, sess, byCreds, api, world>>

\* activate_integration_trial opens the session that it was called in; others of
\* the company stay as they are, and this one too if the answer is lost.
ActivateTrial(r) ==
    LET i == req[r].sess IN
    /\ Serving /\ req[r].pc = "served" /\ world.up
    /\ api[sess[i].cred] = "closed"
    /\ api' = [api EXCEPT ![sess[i].cred] = "open"]
    /\ \E told \in BOOLEAN : sess' = [sess EXCEPT ![i] = [@ EXCEPT !.open = sess[i].open \/ told]]
    /\ UNCHANGED <<proc, byCreds, servers, req, world>>

Done(r) ==
    /\ Serving /\ req[r].pc \in {"served", "refused"}
    /\ req' = [req EXCEPT ![r] = Idle]
    /\ UNCHANGED <<proc, sess, byCreds, servers, api, world>>

-----------------------------------------------------------------------------
(* Vchasno: tokens are revoked and tariffs bought and lost. *)

Change(c) == /\ api[c] # "invalid"
             /\ \E a \in {"invalid", "closed", "open"} : api' = [api EXCEPT ![c] = a]
             /\ UNCHANGED <<live, world>>

Toggle == /\ world' = [world EXCEPT !.up = ~@]
          /\ UNCHANGED <<live, api>>

Handle(r) == OpenSession(r) \/ Forbid(r) \/ Register(r) \/ Bind(r)

Next == \/ Connect \/ Resume \/ Signal \/ Shutdown \/ Return \/ Crash \/ Restart \/ Toggle
        \/ \E r \in Request : Handle(r) \/ ActivateTrial(r) \/ Done(r) \/ \E c \in Cred : Arrive(r, c)
        \/ \E c \in Cred : Change(c)

Spec == Init /\ [][Next]_vars

\* Requests to Vchasno have a timeout, pauses end, goroutines run, and the container
\* is started again.
Fairness == /\ WF_vars(Connect) /\ WF_vars(Resume) /\ WF_vars(Shutdown) /\ WF_vars(Return)
            /\ WF_vars(Restart)
            /\ \A r \in Request : WF_vars(Handle(r))

FairSpec == Spec /\ Fairness

-----------------------------------------------------------------------------
(* Properties *)

TypeOK == /\ proc \in [token : Cred \cup {None}, pc : {"connecting", "pausing", "serving", "closing", "ended"},
                       attempt : 1 .. Attempts, stop : BOOLEAN, own : 0 .. MaxSess, used : 0 .. MaxSess]
          /\ sess \in [Ids -> [cred : Cred \cup {None}, open : BOOLEAN, closed : BOOLEAN]]
          /\ byCreds \in [Cred -> 0 .. MaxSess]
          /\ servers \subseteq Ids
          /\ req \in [Request -> [pc : {"idle", "opening", "opened", "has", "served", "refused"},
                                  cred : Cred \cup {None}, sess : 0 .. MaxSess]]
          /\ api \in [Cred -> {"invalid", "closed", "open"}]
          /\ world \in [up : BOOLEAN, billing : BOOLEAN, ends : 0 .. MaxEnds]

Holds(r) == req[r].pc \in {"has", "served"}

\* Requests with the same credentials are served in one session, however many of
\* them are the first and whatever they wait for; the session was opened with these
\* credentials.  A process with a token serves all of them in its own.
OneSession == \A r \in Request : Holds(r) =>
    IF proc.token # None THEN req[r].sess = proc.own /\ sess[proc.own].cred = proc.token
    ELSE /\ sess[req[r].sess].cred = req[r].cred
         /\ \A q \in Request : Holds(q) /\ req[q].cred = req[r].cred => req[q].sess = req[r].sess

\* No session is lost track of: it is the one of the process, or of its
\* credentials, or closed, or its request has yet to look a second time.  One that is
\* closed serves nobody and has no server.
Tracked(i) == \/ proc.own = i
              \/ \E c \in Cred : byCreds[c] = i
              \/ sess[i].closed
              \/ \E r \in Request : req[r].pc = "opened" /\ req[r].sess = i

NoneLost == \A i \in 1 .. proc.used :
    /\ Tracked(i)
    /\ sess[i].closed => i \notin servers /\ \A r \in Request : Holds(r) => req[r].sess # i

\* As long as Vchasno answers and knows the token in the end, the process is serving
\* again and again: no failure of a start is final.
Known == proc.token # None => api[proc.token] \in {"open", "closed"} /\ (api[proc.token] = "open" \/ world.billing)

Recovers == <>[](world.up /\ Known) => []<>(proc.pc = "serving")

\* A process that is told to stop ends, in a pause, in an attempt or serving.
StopEnds == proc.stop ~> proc.pc = "ended"
=============================================================================
