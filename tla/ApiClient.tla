----------------------------- MODULE ApiClient ------------------------------
(***************************************************************************)
(* The Vchasno client (internal/vchasno/client.go): every call of a        *)
(* session takes a token of the session's token bucket for each attempt,   *)
(* sends its request, and tries again after a pause when the answer was    *)
(* 429, a server error, or no answer at all.                               *)
(*                                                                         *)
(* The clock ticks once per interval of the bucket (1/rps).  What Vchasno  *)
(* does with a request is external: it may make the change and answer, or  *)
(* answer without making it, or make it and the answer is lost.            *)
(***************************************************************************)
EXTENDS Naturals, SequencesExt

CONSTANTS Sess,       \* sessions of one company, each with a bucket of its own
          Call,       \* calls running at the same time
          SessOf,     \* SessOf[c]: the session of a call
          Once,       \* calls whose change Vchasno makes once and then refuses
          Burst,      \* tokens a bucket holds: int(rps)
          Window,     \* ticks in a second: rps
          Limit,      \* requests a second that Vchasno allows a company
          Retries,    \* MCP_RETRY_ATTEMPTS
          Half, Cap,  \* backoff: half a second, the longest pause, in ticks
          Hints       \* values of Retry-After; 0 when there is none

ASSUME ApiAssumption ==
    /\ SessOf \in [Call -> Sess] /\ Once \subseteq Call
    /\ Burst \in Nat \ {0} /\ Window \in Nat \ {0} /\ Limit \in Nat /\ Retries \in Nat \ {0}
    /\ Half \in Nat \ {0} /\ Cap \in Nat \ {0} /\ Hints \subseteq Nat /\ 0 \in Hints
    /\ Retries <= 35                                      \* a longer pause overflows a Duration
    /\ \A n \in 1 .. Retries : Half * 2 ^ (n - 1) \in Nat  \* true; the provers know nothing of ^

VARIABLES tokens,     \* tokens[s]: what is in the bucket
          queue,      \* queue[s]: calls waiting for a token, first come first served
          call,       \* call[c]: a call under way
          cancelled,  \* calls whose context is done
          recent,     \* history: recent[s][i], requests sent after the i-th of the last Window + 1 ticks
          effect,     \* history: how often the change of a call was made
          unsure      \* history: calls an attempt of which left open whether it was made

vars == <<tokens, queue, call, cancelled, recent, effect, unsure>>

Answer == {"none", "ok", "garbled", "refused", "busy", "error", "lost"}
At(p, n) == [pc |-> p, attempt |-> n, ans |-> "none", left |-> 0]   \* attempt n has reached p
Idle == At("idle", 0)

Init == /\ tokens = [s \in Sess |-> Burst]
        /\ queue = [s \in Sess |-> <<>>]
        /\ call = [c \in Call |-> Idle]
        /\ cancelled = {}
        /\ recent = [s \in Sess |-> [i \in 1 .. Window + 1 |-> 0]]
        /\ effect = [c \in Call |-> 0]
        /\ unsure = {}

End(c, a) == call' = [call EXCEPT ![c].pc = "done", ![c].ans = a]

Sends(s) == recent' = [recent EXCEPT ![s] = [i \in 1 .. Window + 1 |-> recent[s][i] + 1]]

-----------------------------------------------------------------------------
\* limiter.wait and the request that follows: with a token in the bucket the
\* request goes out, without one the call waits its turn.  If the context is done
\* the wait fails, or a token is spent on a request that is not sent.
WaitAnyway(c, n) ==                  \* mutant: the wait does not look at the context
    LET s == SessOf[c] IN
    IF tokens[s] > 0
    THEN /\ tokens' = [tokens EXCEPT ![s] = @ - 1]
         /\ Sends(s)
         /\ call' = [call EXCEPT ![c] = At("sent", n)]
         /\ UNCHANGED queue
    ELSE /\ queue' = [queue EXCEPT ![s] = Append(@, c)]
         /\ call' = [call EXCEPT ![c] = At("queued", n)]
         /\ UNCHANGED <<tokens, recent>>

Wait(c, n) ==
    LET s == SessOf[c] IN
    \/ /\ c \notin cancelled /\ tokens[s] > 0
       /\ tokens' = [tokens EXCEPT ![s] = @ - 1]
       /\ Sends(s)
       /\ call' = [call EXCEPT ![c] = At("sent", n)]
       /\ UNCHANGED queue
    \/ /\ c \notin cancelled /\ tokens[s] = 0
       /\ queue' = [queue EXCEPT ![s] = Append(@, c)]
       /\ call' = [call EXCEPT ![c] = At("queued", n)]
       /\ UNCHANGED <<tokens, recent>>
    \/ /\ c \in cancelled
       /\ tokens' \in {tokens, [tokens EXCEPT ![s] = IF @ > 0 THEN @ - 1 ELSE 0]}
       /\ End(c, "lost")
       /\ UNCHANGED <<queue, recent>>

Start(c) ==
    /\ call[c].pc = "idle"
    /\ Wait(c, 1)
    /\ UNCHANGED <<cancelled, effect, unsure>>

\* The ticker puts a token into each bucket that is not full, or hands it to the
\* call that has waited longest; pauses get shorter; the second moves on.
Refill(s) == IF tokens[s] < Burst THEN tokens[s] + 1 ELSE tokens[s]

Served == {Head(queue[s]) : s \in {x \in Sess : queue[x] # <<>>}}

Tick ==
    /\ tokens' = [s \in Sess |-> IF queue[s] = <<>> THEN Refill(s) ELSE tokens[s]]
    /\ queue' = [s \in Sess |-> IF queue[s] = <<>> THEN <<>> ELSE Tail(queue[s])]
    /\ recent' = [s \in Sess |-> [i \in 1 .. Window + 1 |->
           IF i <= Window THEN recent[s][i + 1] + (IF queue[s] = <<>> THEN 0 ELSE 1) ELSE 0]]
    /\ call' = [c \in Call |-> IF c \in Served THEN [call[c] EXCEPT !.pc = "sent"]
                               ELSE IF call[c].left > 0 THEN [call[c] EXCEPT !.left = @ - 1]
                               ELSE call[c]]
    /\ UNCHANGED <<cancelled, effect, unsure>>

-----------------------------------------------------------------------------
\* Vchasno: what comes of a request.
Process(c, a, applied) ==
    /\ call[c].pc = "sent"
    /\ applied => ~(c \in Once /\ effect[c] > 0)
    /\ a \in {"ok", "garbled"} => applied
    /\ a \in {"refused", "busy"} => ~applied
    /\ effect' = [effect EXCEPT ![c] = IF applied THEN @ + 1 ELSE @]
    /\ call' = [call EXCEPT ![c].pc = "answered", ![c].ans = a]
    /\ UNCHANGED <<tokens, queue, cancelled, recent, unsure>>

\* parseError: which answers are worth another attempt.  A success that cannot be
\* decoded is not.
RetryGarbled(a) == a \in {"busy", "error", "lost", "garbled"}   \* mutant

RetryDue(a) == a \in {"busy", "error", "lost"}

\* The pause before the next attempt: what the server asks for, or half a second
\* doubled with each attempt, but no longer than the cap.
Backoff(n, hint) == LET d == IF hint > 0 THEN hint ELSE Half * 2 ^ (n - 1)
                    IN IF d > Cap THEN Cap ELSE d

OneTooMany(c) == call[c].attempt > Retries      \* mutant

LastAttempt(c) == call[c].attempt >= Retries

Finish(c) ==
    /\ call[c].pc = "answered"
    /\ ~RetryDue(call[c].ans) \/ LastAttempt(c) \/ (call[c].ans = "lost" /\ c \in cancelled)
    /\ End(c, call[c].ans)
    /\ UNCHANGED <<tokens, queue, cancelled, recent, effect, unsure>>

Pause(c) ==
    /\ call[c].pc = "answered" /\ RetryDue(call[c].ans) /\ ~LastAttempt(c)
    /\ \E h \in IF call[c].ans = "lost" THEN {0} ELSE Hints :
         call' = [call EXCEPT ![c].pc = "backoff", ![c].left = Backoff(call[c].attempt, h)]
    /\ unsure' = IF call[c].ans \in {"error", "lost"} THEN unsure \cup {c} ELSE unsure
    /\ UNCHANGED <<tokens, queue, cancelled, recent, effect>>

Again(c) == call[c].attempt              \* mutant: the attempt is not counted

NextAttempt(c) == call[c].attempt + 1

RetryUnpaced(c) ==                       \* mutant: only the first attempt takes a token
    /\ call[c].pc = "backoff" /\ (call[c].left = 0 \/ c \in cancelled)
    /\ IF c \in cancelled THEN End(c, "lost") /\ UNCHANGED recent
       ELSE /\ Sends(SessOf[c])
            /\ call' = [call EXCEPT ![c] = At("sent", NextAttempt(c))]
    /\ UNCHANGED <<tokens, queue, cancelled, effect, unsure>>

Retry(c) ==
    /\ call[c].pc = "backoff" /\ (call[c].left = 0 \/ c \in cancelled)
    /\ Wait(c, NextAttempt(c))
    /\ UNCHANGED <<cancelled, effect, unsure>>

\* The caller gives up: a call that waits for a token ends at once; a pause is cut
\* short; a request under way is abandoned, whatever becomes of it.
Cancel(c) ==
    /\ call[c].pc \notin {"idle", "done"} /\ c \notin cancelled
    /\ cancelled' = cancelled \cup {c}
    /\ \/ /\ call[c].pc = "queued" /\ End(c, "lost")
          /\ \E i \in 1 .. Len(queue[SessOf[c]]) :
                /\ queue[SessOf[c]][i] = c
                /\ queue' = [queue EXCEPT ![SessOf[c]] = RemoveAt(@, i)]
       \/ call[c].pc # "queued" /\ UNCHANGED <<queue, call>>
    /\ UNCHANGED <<tokens, recent, effect, unsure>>

\* The caller has its result and may call again.
Recycle(c) ==
    /\ call[c].pc = "done"
    /\ call' = [call EXCEPT ![c] = Idle]
    /\ cancelled' = cancelled \ {c} /\ unsure' = unsure \ {c}
    /\ effect' = [effect EXCEPT ![c] = 0]
    /\ UNCHANGED <<tokens, queue, recent>>

Vchasno(c) == \E a \in Answer \ {"none"}, b \in BOOLEAN : Process(c, a, b)

Next == \/ Tick
        \/ \E c \in Call : \/ Start(c) \/ Finish(c) \/ Pause(c) \/ Retry(c)
                           \/ Cancel(c) \/ Recycle(c) \/ Vchasno(c)

Spec == Init /\ [][Next]_vars

\* The ticker ticks, an answer or the timeout of the request comes, and the code
\* does not stop between two requests.
Fairness == /\ WF_vars(Tick)
            /\ \A c \in Call : WF_vars(Finish(c) \/ Pause(c) \/ Retry(c)) /\ WF_vars(Vchasno(c))

FairSpec == Spec /\ Fairness

-----------------------------------------------------------------------------
(* Properties *)

TypeOK == /\ tokens \in [Sess -> 0 .. Burst]
          /\ queue \in [Sess -> Seq(Call)]
          /\ call \in [Call -> [pc : {"idle", "queued", "sent", "answered", "backoff", "done"},
                                attempt : 0 .. Retries, ans : Answer, left : 0 .. Cap]]
          /\ cancelled \subseteq Call /\ unsure \subseteq Call
          /\ recent \in [Sess -> [1 .. Window + 1 -> Nat]]
          /\ effect \in [Call -> 0 .. Retries]
          /\ \A s \in Sess : \A i \in 1 .. Len(queue[s]) : LET c == queue[s][i] IN
                /\ call[c].pc = "queued" /\ SessOf[c] = s
                /\ \A j \in 1 .. Len(queue[s]) : queue[s][j] = c => j = i

\* However many calls there are and however they are retried, a session sends in
\* no second more than a full bucket and the tokens that arrive in it: a second
\* between two ticks has Window ticks in it and begins after the first of the last
\* Window + 1.  With the default of 8 these are 16 requests.
Paced == \A s \in Sess : recent[s][1] <= Burst + Window

\* What client.go:3-5 and 445-447 say of it: the sessions of a company keep to the
\* limit of the company.  The second of the last Window + 1 ticks is a second ago.
WithinLimit == MapThenSumSet(LAMBDA s : recent[s][2], Sess) <= Limit

\* A result can be relied on: success means the change was made; a change made
\* twice, or a refusal of a change that was made, comes only of an attempt that
\* was retried without knowing what had become of it.
Reliable == \A c \in Call : call[c].pc = "done" =>
    /\ call[c].ans = "ok" => effect[c] > 0
    /\ effect[c] > 1 => c \in unsure
    /\ call[c].ans = "refused" /\ effect[c] > 0 => c \in unsure

\* Once the caller has given up, no request of the call goes out.
QuietAfterCancel == [][\A c \in Call : c \in cancelled /\ call[c].pc # "sent"
                                       => call'[c].pc # "sent"]_vars

\* Every call ends: it gets a token in its turn, its request is answered or times
\* out, and it is tried a bounded number of times.
CallsEnd == \A c \in Call : call[c].pc # "idle" ~> call[c].pc = "done"
=============================================================================
