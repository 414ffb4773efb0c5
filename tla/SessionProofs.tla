---------------------------- MODULE SessionProofs ----------------------------
(***************************************************************************)
(* Proofs about what a session consists of: its client of Vchasno          *)
(* (ApiClient), for any number of calls and attempts, and the data that it *)
(* caches (RefCache), for any number of kinds, readers and writers.  The   *)
(* two share no variable; each part rests on its own specification.        *)
(***************************************************************************)
EXTENDS ApiClient, RefCache, SequenceTheorems, TLAPS

-----------------------------------------------------------------------------
(* The client: its inductive invariant. *)

Records == [pc : {"idle", "queued", "sent", "answered", "backoff", "done"},
            attempt : 0 .. Retries, ans : Answer, left : 0 .. Cap]

Types == /\ tokens \in [Sess -> 0 .. Burst]
         /\ queue \in [Sess -> Seq(Call)]
         /\ call \in [Call -> Records]
         /\ cancelled \subseteq Call /\ unsure \subseteq Call
         /\ recent \in [Sess -> [1 .. Window + 1 -> Nat]]
         /\ effect \in [Call -> 0 .. Retries]

\* A queue holds calls of its session that wait for a token, each of them once.
InLine(q, s) == \A i \in 1 .. Len(q) :
                   /\ call[q[i]].pc = "queued" /\ SessOf[q[i]] = s
                   /\ \A j \in 1 .. Len(q) : q[j] = q[i] => j = i
Queues == \A s \in Sess : InLine(queue[s], s)

\* An attempt makes the change at most once, and is counted before it is made.
Counted == \A c \in Call :
    /\ call[c].pc = "idle" => effect[c] = 0
    /\ call[c].pc \in {"queued", "sent"} => call[c].attempt >= 1 /\ effect[c] < call[c].attempt
    /\ call[c].pc = "answered" => call[c].attempt >= 1 /\ effect[c] <= call[c].attempt
    /\ call[c].pc = "backoff" => /\ call[c].attempt >= 1 /\ call[c].attempt < Retries
                                 /\ effect[c] <= call[c].attempt

\* What a call can know of its change, at every stage of an attempt.
Known == \A c \in Call :
    /\ call[c].pc \in {"queued", "sent", "backoff"} /\ effect[c] > 0 => c \in unsure
    /\ call[c].pc = "answered" =>
          /\ call[c].ans \in {"ok", "garbled"} => effect[c] > 0
          /\ effect[c] > 1 => c \in unsure
          /\ call[c].ans \in {"refused", "busy"} /\ effect[c] > 0 => c \in unsure

\* A call that was given up does not wait for a token.
Silent == \A c \in cancelled : call[c].pc # "queued"

IInv == Types /\ Queues /\ Counted /\ Known /\ Silent /\ Reliable

LEMMA TypeOKFromIInv == IInv => TypeOK
BY DEF IInv, Types, Queues, InLine, TypeOK, Records

-----------------------------------------------------------------------------
(* Queues: what joining, leaving and being served do to one. *)

LEMMA Joined ==
    ASSUME NEW q \in Seq(Call), NEW c \in Call, \A i \in 1 .. Len(q) : q[i] # c,
           \A i, j \in 1 .. Len(q) : q[j] = q[i] => j = i
    PROVE  LET r == Append(q, c) IN
           /\ r \in Seq(Call)
           /\ \A i \in 1 .. Len(r) : r[i] = c \/ \E k \in 1 .. Len(q) : r[i] = q[k]
           /\ \A i, j \in 1 .. Len(r) : r[j] = r[i] => j = i
OBVIOUS

LEMMA Concat ==
    ASSUME NEW a \in Seq(Call), NEW b \in Seq(Call)
    PROVE  /\ a \o b \in Seq(Call) /\ Len(a \o b) = Len(a) + Len(b)
           /\ \A i \in 1 .. Len(a) + Len(b) : (a \o b)[i] = IF i <= Len(a) THEN a[i] ELSE b[i - Len(a)]
BY ConcatProperties

LEMMA Left ==
    ASSUME NEW q \in Seq(Call), NEW n \in 1 .. Len(q),
           \A i, j \in 1 .. Len(q) : q[j] = q[i] => j = i
    PROVE  LET r == RemoveAt(q, n) IN
           /\ r \in Seq(Call)
           /\ \A i \in 1 .. Len(r) : r[i] # q[n] /\ \E k \in 1 .. Len(q) : r[i] = q[k]
           /\ \A i, j \in 1 .. Len(r) : r[j] = r[i] => j = i
<1> DEFINE a == SubSeq(q, 1, n - 1)
           b == SubSeq(q, n + 1, Len(q))
<1>1. a \in Seq(Call) /\ Len(a) = n - 1 /\ \A i \in 1 .. n - 1 : a[i] = q[i]
  BY SubSeqProperties
<1>2. b \in Seq(Call) /\ Len(b) = Len(q) - n /\ \A i \in 1 .. Len(q) - n : b[i] = q[n + i]
  BY SubSeqProperties
<1>3. RemoveAt(q, n) = a \o b
  BY DEF RemoveAt
<1> HIDE DEF a, b
<1> DEFINE r == a \o b
<1>4. /\ r \in Seq(Call) /\ Len(r) = Len(a) + Len(b)
      /\ \A i \in 1 .. Len(a) + Len(b) : r[i] = IF i <= Len(a) THEN a[i] ELSE b[i - Len(a)]
  <2>1. a \in Seq(Call) /\ b \in Seq(Call)
    BY <1>1, <1>2
  <2>2. /\ a \o b \in Seq(Call) /\ Len(a \o b) = Len(a) + Len(b)
        /\ \A i \in 1 .. Len(a) + Len(b) : (a \o b)[i] = IF i <= Len(a) THEN a[i] ELSE b[i - Len(a)]
    BY <2>1, Concat
  <2>3. QED
    BY <2>2
<1> HIDE DEF r
<1>5. Len(r) = Len(q) - 1 /\ \A i \in 1 .. Len(q) - 1 : r[i] = IF i < n THEN q[i] ELSE q[i + 1]
  <2>1. Len(q) \in Nat /\ n \in 1 .. Len(q) /\ Len(a) + Len(b) = Len(q) - 1
    BY <1>1, <1>2
  <2>2. ASSUME NEW i \in 1 .. Len(q) - 1 PROVE r[i] = IF i < n THEN q[i] ELSE q[i + 1]
    <3>1. CASE i < n
      BY <1>1, <1>4, <2>1, <3>1
    <3>2. CASE ~(i < n)
      <4>1. r[i] = b[i - (n - 1)]
        BY <1>1, <1>4, <2>1, <3>2
      <4>2. i - (n - 1) \in 1 .. Len(q) - n /\ n + (i - (n - 1)) = i + 1
        BY <2>1, <3>2
      <4>3. QED
        BY <1>2, <3>2, <4>1, <4>2
    <3>3. QED
      BY <3>1, <3>2
  <2>3. QED
    BY <1>4, <2>1, <2>2
<1>6. r = RemoveAt(q, n)
  BY <1>3 DEF r
<1>7. r \in Seq(Call) /\ (\A i \in 1 .. Len(r) : r[i] # q[n] /\ \E k \in 1 .. Len(q) : r[i] = q[k])
      /\ (\A i, j \in 1 .. Len(r) : r[j] = r[i] => j = i)
  <2>1. Len(q) \in Nat
    OBVIOUS
  <2>2. r \in Seq(Call)
    BY <1>4
  <2>3. ASSUME NEW i \in 1 .. Len(r) PROVE r[i] # q[n] /\ \E k \in 1 .. Len(q) : r[i] = q[k]
    BY <1>5, <2>1
  <2>4. ASSUME NEW i \in 1 .. Len(r), NEW j \in 1 .. Len(r), r[j] = r[i] PROVE j = i
    BY <1>5, <2>1, <2>4
  <2>5. QED
    BY <2>2, <2>3, <2>4
<1>8. QED
  BY <1>6, <1>7

LEMMA Moved ==
    ASSUME NEW q \in Seq(Call), q # <<>>,
           \A i, j \in 1 .. Len(q) : q[j] = q[i] => j = i
    PROVE  LET r == Tail(q) IN
           /\ Head(q) \in Call /\ Head(q) = q[1] /\ r \in Seq(Call)
           /\ \A i \in 1 .. Len(r) : r[i] # Head(q) /\ \E k \in 1 .. Len(q) : r[i] = q[k]
           /\ \A i, j \in 1 .. Len(r) : r[j] = r[i] => j = i
OBVIOUS

-----------------------------------------------------------------------------
(* The moves of one call: every step of the client is, for each call, one of *)
(* these.                                                                    *)

Kept(c) == effect'[c] = effect[c] /\ (c \in unsure' <=> c \in unsure)

Stays(c) == Kept(c) /\ call'[c] = call[c]
Attempts(c) == /\ Kept(c) /\ c \notin cancelled
               /\ \/ call[c].pc = "idle" /\ call'[c].attempt = 1
                  \/ call[c].pc = "backoff" /\ call'[c].attempt = call[c].attempt + 1
               /\ \E p \in {"queued", "sent"} :
                     call'[c] = At(p, call'[c].attempt)
Abandons(c) == /\ Kept(c) /\ call[c].pc \in {"idle", "backoff", "queued"}
               /\ call'[c] = [call[c] EXCEPT !.pc = "done", !.ans = "lost"]
GetsToken(c) == /\ Kept(c) /\ call[c].pc = "queued" /\ \E s \in Sess : queue[s] # <<>> /\ c = Head(queue[s])
                /\ call'[c] = [call[c] EXCEPT !.pc = "sent"]
Pauses(c) == Kept(c) /\ call[c].left > 0 /\ call'[c] = [call[c] EXCEPT !.left = @ - 1]
IsAnswered(c) == /\ call[c].pc = "sent" /\ (c \in unsure' <=> c \in unsure)
                 /\ \E a \in Answer \ {"none"} :
                       /\ call'[c] = [call[c] EXCEPT !.pc = "answered", !.ans = a]
                       /\ \/ effect'[c] = effect[c] + 1 /\ a \notin {"refused", "busy"}
                          \/ effect'[c] = effect[c] /\ a \notin {"ok", "garbled"}
Ends(c) == Kept(c) /\ call[c].pc = "answered" /\ call'[c] = [call[c] EXCEPT !.pc = "done"]
PutsOff(c) == /\ call[c].pc = "answered" /\ RetryDue(call[c].ans) /\ ~LastAttempt(c)
              /\ effect'[c] = effect[c]
              /\ c \in unsure' <=> c \in unsure \/ call[c].ans \in {"error", "lost"}
              /\ \E d \in 0 .. Cap : call'[c] = [call[c] EXCEPT !.pc = "backoff", !.left = d]
Restarts(c) == call[c].pc = "done" /\ call'[c] = Idle /\ effect'[c] = 0 /\ c \notin unsure'

Moves(c) == \/ Stays(c) \/ Attempts(c) \/ Abandons(c) \/ GetsToken(c) \/ Pauses(c)
            \/ IsAnswered(c) \/ Ends(c) \/ PutsOff(c) \/ Restarts(c)

LEMMA Sizes == Retries \in Nat /\ Retries > 0 /\ Cap \in Nat /\ Burst \in Nat /\ Burst > 0
               /\ Window \in Nat /\ Window > 0 /\ SessOf \in [Call -> Sess]
BY ApiAssumption

LEMMA BackoffRange ==
    ASSUME NEW n \in 1 .. Retries, NEW h \in Hints
    PROVE  Backoff(n, h) \in 0 .. Cap
<1> DEFINE d == IF h > 0 THEN h ELSE Half * 2 ^ (n - 1)
<1>1. d \in Nat
  BY ApiAssumption
<1> HIDE DEF d
<1>2. (IF d > Cap THEN Cap ELSE d) \in 0 .. Cap
  BY <1>1, ApiAssumption
<1>3. QED
  BY <1>2 DEF Backoff, d

\* What the wait for a token does to the call that waits.
LEMMA WaitMoves ==
    ASSUME Types, NEW c \in Call, NEW n \in 1 .. Retries, Wait(c, n), UNCHANGED <<effect, unsure>>,
           (call[c].pc = "idle" /\ n = 1) \/ (call[c].pc = "backoff" /\ n = call[c].attempt + 1)
    PROVE  /\ Attempts(c) \/ Abandons(c)
           /\ \A d \in Call \ {c} : call'[d] = call[d]
           /\ call' \in [Call -> Records]
<1>1. CASE \E p \in {"queued", "sent"} :
              call' = [call EXCEPT ![c] = At(p, n)] /\ c \notin cancelled
  <2>1. PICK p \in {"queued", "sent"} :
              call' = [call EXCEPT ![c] = At(p, n)] /\ c \notin cancelled
    BY <1>1
  <2>3. At(p, n) \in Records
    <3>1. p \in {"idle", "queued", "sent", "answered", "backoff", "done"} /\ "none" \in Answer
      BY DEF Answer
    <3>2. n \in 0 .. Retries /\ 0 \in 0 .. Cap
      BY Sizes
    <3>3. QED
      BY <3>1, <3>2 DEF Records, At
  <2>4. call'[c] = At(p, n)
    BY <2>1 DEF Types
  <2>5. call'[c].attempt = n
    BY <2>4 DEF At
  <2>6. QED
    BY <2>1, <2>3, <2>4, <2>5 DEF Types, Attempts, Kept
<1>2. CASE End(c, "lost")
  <2>1. call[c] \in Records
    BY DEF Types
  <2>2. call' = [call EXCEPT ![c] = [call[c] EXCEPT !.pc = "done", !.ans = "lost"]]
    BY <1>2, <2>1 DEF End, Types, Records
  <2>3. [call[c] EXCEPT !.pc = "done", !.ans = "lost"] \in Records
    BY <2>1 DEF Records, Answer
  <2>4. QED
    BY <2>2, <2>3 DEF Types, Abandons, Kept
<1>3. QED
  BY <1>1, <1>2 DEF Wait

LEMMA TickMoves ==
    ASSUME Types, Queues, Tick, NEW c \in Call
    PROVE  Moves(c) /\ call'[c] \in Records
<1>1. call[c] \in Records /\ Kept(c)
  BY DEF Types, Tick, Kept
<1>2. CASE c \in Served
  <2>1. PICK s \in Sess : queue[s] # <<>> /\ c = Head(queue[s])
    BY <1>2 DEF Served
  <2>2. call[c].pc = "queued"
    <3>1. queue[s] \in Seq(Call) /\ Head(queue[s]) = queue[s][1] /\ 1 \in 1 .. Len(queue[s])
      BY <2>1 DEF Types
    <3>2. QED
      BY <2>1, <3>1 DEF Queues, InLine
  <2>3. call'[c] = [call[c] EXCEPT !.pc = "sent"]
    BY <1>2 DEF Tick
  <2>4. call'[c] \in Records
    BY <1>1, <2>3 DEF Records
  <2>5. QED
    BY <1>1, <2>1, <2>2, <2>3, <2>4 DEF Moves, GetsToken
<1>3. CASE c \notin Served /\ call[c].left > 0
  <2>1. call'[c] = [call[c] EXCEPT !.left = @ - 1]
    BY <1>3 DEF Tick
  <2>2. call[c].left - 1 \in 0 .. Cap
    BY <1>1, <1>3, Sizes DEF Records
  <2>3. call'[c] \in Records
    BY <1>1, <2>1, <2>2 DEF Records
  <2>4. QED
    BY <1>1, <1>3, <2>1, <2>3 DEF Moves, Pauses
<1>4. CASE c \notin Served /\ ~(call[c].left > 0)
  <2>1. call'[c] = call[c]
    BY <1>4 DEF Tick
  <2>2. QED
    BY <1>1, <2>1 DEF Moves, Stays
<1>5. QED
  BY <1>2, <1>3, <1>4

\* A step of one call moves that call and no other.
Only(c) == \A d \in Call \ {c} : Stays(d)

LEMMA OneMoves ==
    ASSUME Types, Counted, NEW c \in Call,
           Start(c) \/ Finish(c) \/ Pause(c) \/ Retry(c) \/ Cancel(c) \/ Recycle(c) \/ Vchasno(c)
    PROVE  Moves(c) /\ Only(c) /\ call' \in [Call -> Records]
<1> USE DEF Kept, Stays, Only
<1>0. call[c] \in Records
  BY DEF Types
<1>1. CASE Start(c)
  <2>1. 1 \in 1 .. Retries
    BY Sizes
  <2>2. QED
    BY <1>1, <2>1, WaitMoves DEF Start, Moves
<1>2. CASE Finish(c)
  <2>1. call' = [call EXCEPT ![c] = [call[c] EXCEPT !.pc = "done"]]
    BY <1>2, <1>0 DEF Finish, End, Types, Records
  <2>2. [call[c] EXCEPT !.pc = "done"] \in Records
    BY <1>0 DEF Records
  <2>3. QED
    BY <1>2, <2>1, <2>2 DEF Finish, Types, Moves, Ends
<1>3. CASE Pause(c)
  <2>1. call[c].attempt \in 1 .. Retries
    BY <1>0, <1>3, Sizes DEF Pause, Counted, Records
  <2>2. PICK d \in 0 .. Cap : call' = [call EXCEPT ![c] = [call[c] EXCEPT !.pc = "backoff", !.left = d]]
    <3>1. PICK h \in Hints :
             call' = [call EXCEPT ![c].pc = "backoff", ![c].left = Backoff(call[c].attempt, h)]
      BY <1>3, ApiAssumption DEF Pause
    <3>2. Backoff(call[c].attempt, h) \in 0 .. Cap
      BY <2>1, BackoffRange
    <3>3. QED
      BY <1>0, <3>1, <3>2 DEF Types, Records
  <2>3. [call[c] EXCEPT !.pc = "backoff", !.left = d] \in Records
    BY <1>0, <2>2 DEF Records
  <2>4. PutsOff(c)
    BY <1>3, <2>2 DEF Pause, PutsOff, Types
  <2>5. QED
    BY <1>3, <2>2, <2>3, <2>4 DEF Pause, Types, Moves
<1>4. CASE Retry(c)
  <2>1. NextAttempt(c) = call[c].attempt + 1 /\ NextAttempt(c) \in 1 .. Retries
    BY <1>0, <1>4, Sizes DEF Retry, NextAttempt, Counted, Records
  <2>2. QED
    BY <1>4, <2>1, WaitMoves DEF Retry, Moves
<1>5. CASE Cancel(c)
  <2>1. CASE call[c].pc = "queued"
    <3>1. call' = [call EXCEPT ![c] = [call[c] EXCEPT !.pc = "done", !.ans = "lost"]]
      BY <1>0, <1>5, <2>1 DEF Cancel, End, Types, Records
    <3>2. [call[c] EXCEPT !.pc = "done", !.ans = "lost"] \in Records
      BY <1>0 DEF Records, Answer
    <3>3. QED
      BY <1>5, <2>1, <3>1, <3>2 DEF Cancel, Types, Moves, Abandons
  <2>2. CASE call[c].pc # "queued"
    BY <1>5, <2>2 DEF Cancel, Types, Moves
  <2>3. QED
    BY <2>1, <2>2
<1>6. CASE Recycle(c)
  <2>1. Idle \in Records
    BY Sizes DEF Idle, At, Records, Answer
  <2>2. QED
    BY <1>6, <2>1 DEF Recycle, Types, Moves, Restarts
<1>7. CASE Vchasno(c)
  <2>1. PICK a \in Answer \ {"none"}, b \in BOOLEAN : Process(c, a, b)
    BY <1>7 DEF Vchasno
  <2>2. call' = [call EXCEPT ![c] = [call[c] EXCEPT !.pc = "answered", !.ans = a]]
    BY <1>0, <2>1 DEF Process, Types, Records
  <2>3. [call[c] EXCEPT !.pc = "answered", !.ans = a] \in Records
    BY <1>0 DEF Records
  <2>4. IsAnswered(c)
    BY <2>1, <2>2, Sizes DEF Process, IsAnswered, Types
  <2>5. QED
    BY <2>1, <2>2, <2>3, <2>4 DEF Process, Types, Moves
<1>8. QED
  BY <1>1, <1>2, <1>3, <1>4, <1>5, <1>6, <1>7

AllMove == /\ \A c \in Call : Moves(c)
           /\ call' \in [Call -> Records]

LEMMA NextMoves ==
    ASSUME Types, Queues, Counted, Next
    PROVE  AllMove
<1>1. CASE Tick
  <2>1. call' = [c \in Call |-> call'[c]]
    BY <1>1 DEF Tick
  <2>2. QED
    BY <1>1, <2>1, TickMoves DEF AllMove
<1>2. ASSUME NEW c \in Call,
             Start(c) \/ Finish(c) \/ Pause(c) \/ Retry(c) \/ Cancel(c) \/ Recycle(c) \/ Vchasno(c)
      PROVE  AllMove
  BY <1>2, OneMoves DEF AllMove, Only, Moves
<1>3. QED
  BY <1>1, <1>2 DEF Next

-----------------------------------------------------------------------------
(* The facts about single calls. *)

LEMMA CallStep ==
    ASSUME Types, Counted, Known, Reliable, AllMove
    PROVE  /\ Counted' /\ Known' /\ Reliable'
           /\ \A c \in Call : effect'[c] \in 0 .. Retries
<1> SUFFICES ASSUME NEW c \in Call
             PROVE  /\ effect'[c] \in 0 .. Retries
                    /\ call'[c].pc = "idle" => effect'[c] = 0
                    /\ call'[c].pc \in {"queued", "sent"} =>
                          call'[c].attempt >= 1 /\ effect'[c] < call'[c].attempt
                    /\ call'[c].pc = "answered" =>
                          call'[c].attempt >= 1 /\ effect'[c] <= call'[c].attempt
                    /\ call'[c].pc = "backoff" => /\ call'[c].attempt >= 1 /\ call'[c].attempt < Retries
                                                  /\ effect'[c] <= call'[c].attempt
                    /\ call'[c].pc \in {"queued", "sent", "backoff"} /\ effect'[c] > 0 => c \in unsure'
                    /\ call'[c].pc = "answered" =>
                          /\ call'[c].ans \in {"ok", "garbled"} => effect'[c] > 0
                          /\ effect'[c] > 1 => c \in unsure'
                          /\ call'[c].ans \in {"refused", "busy"} /\ effect'[c] > 0 => c \in unsure'
                    /\ call'[c].pc = "done" =>
                          /\ call'[c].ans = "ok" => effect'[c] > 0
                          /\ effect'[c] > 1 => c \in unsure'
                          /\ call'[c].ans = "refused" /\ effect'[c] > 0 => c \in unsure'
  BY DEF Counted, Known, Reliable
<1>1. /\ call[c] \in Records /\ call'[c] \in Records /\ effect[c] \in 0 .. Retries
      /\ effect[c] \in Nat /\ call[c].attempt \in Nat
  BY Sizes DEF Types, AllMove, Records
<1>2. /\ call[c].pc = "idle" => effect[c] = 0
      /\ call[c].pc \in {"queued", "sent"} => call[c].attempt >= 1 /\ effect[c] < call[c].attempt
      /\ call[c].pc = "answered" => call[c].attempt >= 1 /\ effect[c] <= call[c].attempt
      /\ call[c].pc = "backoff" => /\ call[c].attempt >= 1 /\ call[c].attempt < Retries
                                   /\ effect[c] <= call[c].attempt
  BY DEF Counted
<1>3. /\ call[c].pc \in {"queued", "sent", "backoff"} /\ effect[c] > 0 => c \in unsure
      /\ call[c].pc = "answered" =>
          /\ call[c].ans \in {"ok", "garbled"} => effect[c] > 0
          /\ effect[c] > 1 => c \in unsure
          /\ call[c].ans \in {"refused", "busy"} /\ effect[c] > 0 => c \in unsure
      /\ call[c].pc = "done" =>
          /\ call[c].ans = "ok" => effect[c] > 0
          /\ effect[c] > 1 => c \in unsure
          /\ call[c].ans = "refused" /\ effect[c] > 0 => c \in unsure
  BY DEF Known, Reliable
<1>4. CASE Stays(c)
  BY <1>1, <1>2, <1>3, <1>4 DEF Stays, Kept
<1>5. CASE Attempts(c)
  BY <1>1, <1>2, <1>3, <1>5 DEF Attempts, Kept, At
<1>6. CASE Abandons(c)
  BY <1>1, <1>2, <1>3, <1>6 DEF Abandons, Kept, Records
<1>7. CASE GetsToken(c)
  BY <1>1, <1>2, <1>3, <1>7 DEF GetsToken, Kept, Records
<1>8. CASE Pauses(c)
  BY <1>1, <1>2, <1>3, <1>8 DEF Pauses, Kept, Records
<1>9. CASE IsAnswered(c)
  BY <1>1, <1>2, <1>3, <1>9, Sizes DEF IsAnswered, Records
<1>10. CASE Ends(c)
  BY <1>1, <1>2, <1>3, <1>10, Sizes DEF Ends, Kept, Records
<1>11. CASE PutsOff(c)
  BY <1>1, <1>2, <1>3, <1>11, Sizes DEF PutsOff, Records, RetryDue, LastAttempt
<1>12. CASE Restarts(c)
  BY <1>12, Sizes DEF Restarts, Idle, At
<1>13. Moves(c)
  BY DEF AllMove
<1>14. QED
  BY <1>4, <1>5, <1>6, <1>7, <1>8, <1>9, <1>10, <1>11, <1>12, <1>13 DEF Moves

-----------------------------------------------------------------------------
(* The queues. *)

\* A queue stays in line when nothing joins it and its calls still wait.
LEMMA LineKept ==
    ASSUME NEW s \in Sess, NEW q, InLine(q, s), NEW r,
           \A i \in 1 .. Len(r) : \E k \in 1 .. Len(q) : r[i] = q[k],
           \A i, j \in 1 .. Len(r) : r[j] = r[i] => j = i,
           \A i \in 1 .. Len(r) : call'[r[i]].pc = call[r[i]].pc
    PROVE  InLine(r, s)'
<1>1. ASSUME NEW i \in 1 .. Len(r) PROVE call'[r[i]].pc = "queued" /\ SessOf[r[i]] = s
  <2>1. PICK k \in 1 .. Len(q) : r[i] = q[k]
    OBVIOUS
  <2>2. QED
    BY <2>1 DEF InLine
<1>2. QED
  BY <1>1 DEF InLine

LEMMA Replaced ==
    ASSUME NEW s \in Sess, NEW r \in Seq(Call), queue'[s] = r, InLine(r, s)'
    PROVE  InLine(queue[s], s)' /\ queue'[s] \in Seq(Call)
BY DEF InLine

\* What Tick does to a call that is not at the head of a queue.
LEMMA TickWaits ==
    ASSUME Types, Tick, NEW c \in Call, c \notin Served
    PROVE  call'[c].pc = call[c].pc
<1>1. call[c] \in Records
  BY DEF Types
<1>2. CASE call[c].left > 0
  <2>1. call'[c] = [call[c] EXCEPT !.left = @ - 1]
    BY <1>2 DEF Tick
  <2>2. QED
    BY <1>1, <2>1 DEF Records
<1>3. CASE ~(call[c].left > 0)
  BY <1>3 DEF Tick
<1>4. QED
  BY <1>2, <1>3

LEMMA QueueTick ==
    ASSUME Types, Queues, Tick
    PROVE  Queues' /\ queue' \in [Sess -> Seq(Call)]
<1>1. ASSUME NEW s \in Sess PROVE InLine(queue[s], s)' /\ queue'[s] \in Seq(Call)
  <2>1. PICK q \in Seq(Call) : q = queue[s] /\ InLine(q, s)
    BY DEF Types, Queues
  <2>2. \A i, j \in 1 .. Len(q) : q[j] = q[i] => j = i
    BY <2>1 DEF InLine
  <2>3. \A t \in Sess : queue[t] # <<>> => Head(queue[t]) \in Call /\ SessOf[Head(queue[t])] = t
    <3>1. ASSUME NEW t \in Sess, queue[t] # <<>>
          PROVE  Head(queue[t]) \in Call /\ SessOf[Head(queue[t])] = t
      <4>1. queue[t] \in Seq(Call) /\ InLine(queue[t], t)
        BY DEF Types, Queues
      <4>2. Head(queue[t]) = queue[t][1] /\ 1 \in 1 .. Len(queue[t]) /\ Head(queue[t]) \in Call
        BY <3>1, <4>1
      <4>3. QED
        BY <4>1, <4>2 DEF InLine
    <3>2. QED
      BY <3>1
  <2>4. CASE q = <<>>
    <3>1. queue'[s] = <<>>
      BY <2>1, <2>4 DEF Tick
    <3>2. QED
      BY <3>1 DEF InLine
  <2>5. CASE q # <<>>
    <3>1. LET r == Tail(q) IN
          /\ r \in Seq(Call)
          /\ \A i \in 1 .. Len(r) : r[i] # Head(q) /\ \E k \in 1 .. Len(q) : r[i] = q[k]
          /\ \A i, j \in 1 .. Len(r) : r[j] = r[i] => j = i
      BY <2>2, <2>5, Moved
    <3>2. PICK r \in Seq(Call) : r = Tail(q)
      BY <3>1
    <3>3. /\ queue'[s] = r
          /\ \A i \in 1 .. Len(r) : r[i] # Head(q) /\ \E k \in 1 .. Len(q) : r[i] = q[k]
          /\ \A i, j \in 1 .. Len(r) : r[j] = r[i] => j = i
      BY <2>1, <2>5, <3>1, <3>2 DEF Tick
    <3>4. ASSUME NEW i \in 1 .. Len(r) PROVE call'[r[i]].pc = call[r[i]].pc
      <4>1. r[i] \in Call /\ SessOf[r[i]] = s
        BY <2>1, <3>3 DEF InLine
      <4>2. r[i] \notin Served
        BY <2>1, <2>3, <3>3, <4>1 DEF Served
      <4>3. QED
        BY <4>1, <4>2, TickWaits
    <3>5. InLine(r, s)'
      <4>1. InLine(q, s)
        BY <2>1
      <4>2. \A i \in 1 .. Len(r) : \E k \in 1 .. Len(q) : r[i] = q[k]
        BY <3>3
      <4>3. \A i, j \in 1 .. Len(r) : r[j] = r[i] => j = i
        BY <3>3
      <4>4. QED
        BY <3>4, <4>1, <4>2, <4>3, LineKept
    <3>6. queue'[s] = r
      BY <3>3
    <3>7. QED
      BY <3>5, <3>6, Replaced
  <2>6. QED
    BY <2>4, <2>5
<1>2. queue' = [s \in Sess |-> queue'[s]]
  BY DEF Tick
<1>3. QED
  BY <1>1, <1>2 DEF Queues

\* The queues when a call that is in none of them makes a move and joins none.
LEMMA QueueSame ==
    ASSUME Types, Queues, NEW c \in Call, call[c].pc # "queued", Only(c), UNCHANGED queue
    PROVE  Queues' /\ queue' \in [Sess -> Seq(Call)]
<1>1. ASSUME NEW s \in Sess PROVE InLine(queue[s], s)'
  <2>1. PICK q \in Seq(Call) : q = queue[s] /\ InLine(q, s)
    BY DEF Types, Queues
  <2>2. \A i \in 1 .. Len(q) : q[i] \in Call \ {c}
    BY <2>1 DEF InLine
  <2>3. \A i \in 1 .. Len(q) : call'[q[i]].pc = call[q[i]].pc
    BY <2>2 DEF Only, Stays
  <2>4. \A i, j \in 1 .. Len(q) : q[j] = q[i] => j = i
    BY <2>1 DEF InLine
  <2>5. InLine(q, s)'
    BY <2>1, <2>3, <2>4, LineKept
  <2>6. QED
    BY <2>1, <2>5 DEF InLine
<1>2. QED
  BY <1>1 DEF Queues, Types

LEMMA QueueJoin ==
    ASSUME Types, Queues, NEW c \in Call, call[c].pc # "queued", Only(c), call'[c].pc = "queued",
           queue' = [queue EXCEPT ![SessOf[c]] = Append(@, c)]
    PROVE  Queues' /\ queue' \in [Sess -> Seq(Call)]
<1>0. SessOf[c] \in Sess
  BY Sizes
<1>1. ASSUME NEW s \in Sess PROVE InLine(queue[s], s)' /\ queue'[s] \in Seq(Call)
  <2>1. PICK q \in Seq(Call) : q = queue[s] /\ InLine(q, s)
    BY DEF Types, Queues
  <2>2. \A i \in 1 .. Len(q) : q[i] \in Call \ {c}
    BY <2>1 DEF InLine
  <2>3. \A i \in 1 .. Len(q) : call'[q[i]].pc = call[q[i]].pc
    BY <2>2 DEF Only, Stays
  <2>4. \A i, j \in 1 .. Len(q) : q[j] = q[i] => j = i
    BY <2>1 DEF InLine
  <2>5. CASE s = SessOf[c]
    <3>1. PICK r : r = Append(q, c)
      OBVIOUS
    <3>2. queue'[s] = r
      BY <1>0, <2>1, <2>5, <3>1 DEF Types
    <3>a. \A i \in 1 .. Len(q) : q[i] # c
      BY <2>2
    <3>3. /\ r \in Seq(Call)
          /\ \A i \in 1 .. Len(r) : r[i] = c \/ \E k \in 1 .. Len(q) : r[i] = q[k]
          /\ \A i, j \in 1 .. Len(r) : r[j] = r[i] => j = i
      BY <2>4, <3>a, <3>1, Joined
    <3>4. ASSUME NEW i \in 1 .. Len(r) PROVE call'[r[i]].pc = "queued" /\ SessOf[r[i]] = s
      <4>1. CASE r[i] = c
        BY <2>5, <4>1
      <4>2. CASE \E k \in 1 .. Len(q) : r[i] = q[k]
        <5>1. PICK k \in 1 .. Len(q) : r[i] = q[k]
          BY <4>2
        <5>2. call[q[k]].pc = "queued" /\ SessOf[q[k]] = s
          BY <2>1 DEF InLine
        <5>3. QED
          BY <2>3, <5>1, <5>2
      <4>3. QED
        BY <3>3, <4>1, <4>2
    <3>5. InLine(r, s)'
      BY <3>3, <3>4 DEF InLine
    <3>6. r \in Seq(Call)
      BY <3>3
    <3>7. QED
      BY <3>2, <3>5, <3>6, Replaced
  <2>6. CASE s # SessOf[c]
    <3>1. queue'[s] = q
      BY <2>1, <2>6 DEF Types
    <3>2. InLine(q, s)'
      BY <2>1, <2>3, <2>4, LineKept
    <3>3. q \in Seq(Call)
      OBVIOUS
    <3>4. QED
      BY <3>1, <3>2, <3>3, Replaced
  <2>7. QED
    BY <2>5, <2>6
<1>2. QED
  BY <1>1 DEF Queues, Types

LEMMA QueueLeave ==
    ASSUME Types, Queues, NEW c \in Call, Only(c),
           NEW n \in 1 .. Len(queue[SessOf[c]]), queue[SessOf[c]][n] = c,
           queue' = [queue EXCEPT ![SessOf[c]] = RemoveAt(@, n)]
    PROVE  Queues' /\ queue' \in [Sess -> Seq(Call)]
<1>0. SessOf[c] \in Sess
  BY Sizes
<1>1. ASSUME NEW s \in Sess PROVE InLine(queue[s], s)' /\ queue'[s] \in Seq(Call)
  <2>1. PICK q \in Seq(Call) : q = queue[s] /\ InLine(q, s)
    BY DEF Types, Queues
  <2>2. \A i, j \in 1 .. Len(q) : q[j] = q[i] => j = i
    BY <2>1 DEF InLine
  <2>3. PICK r \in Seq(Call) :
           /\ queue'[s] = r
           /\ \A i \in 1 .. Len(r) : r[i] # c /\ \E k \in 1 .. Len(q) : r[i] = q[k]
           /\ \A i, j \in 1 .. Len(r) : r[j] = r[i] => j = i
    <3>1. CASE s = SessOf[c]
      <4>1. PICK m \in 1 .. Len(q) : m = n
        BY <2>1, <3>1
      <4>2. q[m] = c /\ queue'[s] = RemoveAt(q, m)
        BY <1>0, <2>1, <3>1, <4>1 DEF Types
      <4>3. QED
        BY <2>2, <4>2, Left
    <3>2. CASE s # SessOf[c]
      <4>1. queue'[s] = q /\ \A i \in 1 .. Len(q) : q[i] # c
        BY <2>1, <3>2 DEF Types, InLine
      <4>2. QED
        BY <2>2, <4>1
    <3>3. QED
      BY <3>1, <3>2
  <2>4. \A i \in 1 .. Len(r) : call'[r[i]].pc = call[r[i]].pc
    BY <2>3 DEF Only, Stays
  <2>5. InLine(r, s)'
    <3>1. InLine(q, s)
      BY <2>1
    <3>2. \A i \in 1 .. Len(r) : \E k \in 1 .. Len(q) : r[i] = q[k]
      BY <2>3
    <3>3. \A i, j \in 1 .. Len(r) : r[j] = r[i] => j = i
      BY <2>3
    <3>4. QED
      BY <2>4, <3>1, <3>2, <3>3, LineKept
  <2>6. queue'[s] = r /\ r \in Seq(Call)
    BY <2>3
  <2>7. QED
    BY <2>5, <2>6, Replaced
<1>2. QED
  BY <1>1 DEF Queues, Types

LEMMA QueueWait ==
    ASSUME Types, Queues, NEW c \in Call, NEW n, Wait(c, n), Only(c), call[c].pc # "queued"
    PROVE  Queues' /\ queue' \in [Sess -> Seq(Call)]
<1>1. CASE UNCHANGED queue
  BY <1>1, QueueSame
<1>2. CASE /\ queue' = [queue EXCEPT ![SessOf[c]] = Append(@, c)]
           /\ call' = [call EXCEPT ![c] = At("queued", n)]
  <2>1. call'[c].pc = "queued"
    BY <1>2 DEF Types, At
  <2>2. QED
    BY <1>2, <2>1, QueueJoin
<1>3. QED
  BY <1>1, <1>2 DEF Wait

LEMMA QueueStep ==
    ASSUME Types, Queues, Counted, Next
    PROVE  Queues' /\ queue' \in [Sess -> Seq(Call)]
<1>1. CASE Tick
  BY <1>1, QueueTick
<1>2. ASSUME NEW c \in Call,
             Start(c) \/ Finish(c) \/ Pause(c) \/ Retry(c) \/ Cancel(c) \/ Recycle(c) \/ Vchasno(c)
      PROVE  Queues' /\ queue' \in [Sess -> Seq(Call)]
  <2>1. Only(c)
    BY <1>2, OneMoves
  <2>2. CASE Start(c)
    BY <2>1, <2>2, QueueWait DEF Start
  <2>3. CASE Retry(c)
    BY <2>1, <2>3, QueueWait DEF Retry
  <2>4. CASE Finish(c) \/ Pause(c) \/ Recycle(c) \/ Vchasno(c)
    <3>1. call[c].pc # "queued" /\ UNCHANGED queue
      BY <2>4 DEF Finish, Pause, Recycle, Vchasno, Process
    <3>2. QED
      BY <2>1, <3>1, QueueSame
  <2>5. CASE Cancel(c)
    <3>1. CASE call[c].pc = "queued"
      <4>1. PICK i \in 1 .. Len(queue[SessOf[c]]) :
               /\ queue[SessOf[c]][i] = c
               /\ queue' = [queue EXCEPT ![SessOf[c]] = RemoveAt(@, i)]
        BY <2>5, <3>1 DEF Cancel
      <4>2. QED
        BY <2>1, <4>1, QueueLeave
    <3>2. CASE call[c].pc # "queued"
      <4>1. UNCHANGED queue
        BY <2>5, <3>2 DEF Cancel
      <4>2. QED
        BY <2>1, <3>2, <4>1, QueueSame
    <3>3. QED
      BY <3>1, <3>2
  <2>6. QED
    BY <1>2, <2>2, <2>3, <2>4, <2>5
<1>3. QED
  BY <1>1, <1>2 DEF Next

-----------------------------------------------------------------------------
(* The buckets, and what was sent. *)

LEMMA WaitBucket ==
    ASSUME Types, NEW c \in Call, NEW n, Wait(c, n)
    PROVE  tokens' \in [Sess -> 0 .. Burst] /\ recent' \in [Sess -> [1 .. Window + 1 -> Nat]]
<1> DEFINE s == SessOf[c]
<1>1. s \in Sess /\ tokens[s] \in 0 .. Burst /\ Burst \in Nat /\ Window \in Nat
  BY Sizes DEF Types
<1> HIDE DEF s
<1>2. tokens[s] > 0 => tokens[s] - 1 \in 0 .. Burst
  BY <1>1
<1>3. tokens' \in [Sess -> 0 .. Burst]
  <2>1. tokens' = tokens \/ (tokens' = [tokens EXCEPT ![s] = @ - 1] /\ tokens[s] > 0)
        \/ tokens' = [tokens EXCEPT ![s] = IF @ > 0 THEN @ - 1 ELSE 0]
    BY DEF Wait, s
  <2>2. 0 \in 0 .. Burst
    BY <1>1
  <2>3. QED
    BY <1>1, <1>2, <2>1, <2>2 DEF Types
<1>4. recent' \in [Sess -> [1 .. Window + 1 -> Nat]]
  <2>1. recent' = recent \/ recent' = [recent EXCEPT ![s] = [i \in 1 .. Window + 1 |-> recent[s][i] + 1]]
    BY DEF Wait, Sends, s
  <2>2. recent[s] \in [1 .. Window + 1 -> Nat]
    BY <1>1 DEF Types
  <2>3. [i \in 1 .. Window + 1 |-> recent[s][i] + 1] \in [1 .. Window + 1 -> Nat]
    <3>1. \A i \in 1 .. Window + 1 : recent[s][i] + 1 \in Nat
      BY <1>1, <2>2
    <3>2. QED
      BY <3>1
  <2>4. QED
    BY <1>1, <2>1, <2>3 DEF Types
<1>5. QED
  BY <1>3, <1>4

LEMMA TickBucket ==
    ASSUME Types, Tick
    PROVE  tokens' \in [Sess -> 0 .. Burst] /\ recent' \in [Sess -> [1 .. Window + 1 -> Nat]]
<1>1. ASSUME NEW s \in Sess
      PROVE  (IF queue[s] = <<>> THEN Refill(s) ELSE tokens[s]) \in 0 .. Burst
  <2>1. tokens[s] \in 0 .. Burst /\ Burst \in Nat
    BY Sizes DEF Types
  <2>2. QED
    BY <2>1 DEF Refill
<1>2. ASSUME NEW s \in Sess, NEW i \in 1 .. Window + 1
      PROVE  (IF i <= Window THEN recent[s][i + 1] + (IF queue[s] = <<>> THEN 0 ELSE 1) ELSE 0) \in Nat
  <2>1. recent[s] \in [1 .. Window + 1 -> Nat] /\ Window \in Nat
    BY Sizes DEF Types
  <2>2. i <= Window => i + 1 \in 1 .. Window + 1
    BY <2>1
  <2>3. QED
    BY <2>1, <2>2
<1>3. QED
  BY <1>1, <1>2 DEF Tick

LEMMA OtherTypes ==
    ASSUME Types, Next
    PROVE  /\ tokens' \in [Sess -> 0 .. Burst] /\ recent' \in [Sess -> [1 .. Window + 1 -> Nat]]
           /\ cancelled' \subseteq Call /\ unsure' \subseteq Call
           /\ effect' = [c \in Call |-> effect'[c]]
<1>1. CASE Tick
  <2>1. UNCHANGED <<cancelled, unsure, effect>>
    BY <1>1 DEF Tick
  <2>2. QED
    BY <1>1, <2>1, TickBucket DEF Types
<1>2. ASSUME NEW c \in Call, Start(c) \/ Retry(c)
      PROVE  /\ tokens' \in [Sess -> 0 .. Burst] /\ recent' \in [Sess -> [1 .. Window + 1 -> Nat]]
             /\ UNCHANGED <<cancelled, unsure, effect>>
  BY <1>2, WaitBucket DEF Start, Retry
<1>3. ASSUME NEW c \in Call, Finish(c) \/ Pause(c) \/ Cancel(c) \/ Recycle(c) \/ Vchasno(c)
      PROVE  /\ UNCHANGED <<tokens, recent>>
             /\ cancelled' \subseteq Call /\ unsure' \subseteq Call
             /\ effect' = [d \in Call |-> effect'[d]]
  BY <1>3 DEF Finish, Pause, Cancel, Recycle, Vchasno, Process, Types
<1>4. QED
  BY <1>1, <1>2, <1>3 DEF Next, Types

-----------------------------------------------------------------------------
(* The pace.  What was sent in the last ticks and what is still in the bucket  *)
(* make up no more than a full bucket and the tokens of those ticks; a call    *)
(* waits only while the bucket is empty, so that a token it is handed does not *)
(* come on top of others.                                                      *)

Filled(s) == /\ queue[s] # <<>> => tokens[s] = 0
             /\ \A i \in 1 .. Window + 1 : recent[s][i] + tokens[s] <= Burst + (Window + 1 - i)

Budget == \A s \in Sess : Filled(s)

LEMMA WaitPaced ==
    ASSUME Types, Budget, NEW c \in Call, NEW n, Wait(c, n), NEW s \in Sess
    PROVE  Filled(s)'
<1>1. /\ SessOf[c] \in Sess /\ tokens[s] \in 0 .. Burst /\ recent[s] \in [1 .. Window + 1 -> Nat]
      /\ Burst \in Nat /\ Window \in Nat
  BY Sizes DEF Types
<1>2. Filled(s)
  BY DEF Budget
<1>3. CASE s # SessOf[c]
  <2>1. tokens'[s] = tokens[s] /\ recent'[s] = recent[s] /\ queue'[s] = queue[s]
    BY <1>1, <1>3 DEF Wait, Sends, Types
  <2> QED  BY <1>2, <2>1 DEF Filled
<1>4. CASE s = SessOf[c] /\ UNCHANGED queue /\ tokens[s] > 0 /\ Sends(s) /\ tokens' = [tokens EXCEPT ![s] = @ - 1]
  <2>1. tokens'[s] = tokens[s] - 1 /\ \A i \in 1 .. Window + 1 : recent'[s][i] = recent[s][i] + 1
    BY <1>1, <1>4 DEF Sends, Types
  <2>2. queue[s] = <<>>
    BY <1>2, <1>4 DEF Filled
  <2>3. ASSUME NEW i \in 1 .. Window + 1 PROVE recent'[s][i] + tokens'[s] <= Burst + (Window + 1 - i)
    <3>1. recent[s][i] \in Nat /\ recent[s][i] + tokens[s] <= Burst + (Window + 1 - i)
      BY <1>1, <1>2 DEF Filled
    <3> QED  BY <1>1, <2>1, <3>1
  <2> QED  BY <1>4, <2>2, <2>3 DEF Filled
<1>5. CASE s = SessOf[c] /\ tokens[s] = 0 /\ UNCHANGED <<tokens, recent>>
  BY <1>2, <1>5 DEF Filled
<1>6. CASE /\ s = SessOf[c] /\ UNCHANGED <<queue, recent>>
           /\ tokens' \in {tokens, [tokens EXCEPT ![s] = IF @ > 0 THEN @ - 1 ELSE 0]}
  <2>1. tokens'[s] <= tokens[s] /\ tokens'[s] \in Nat
    BY <1>1, <1>6 DEF Types
  <2>2. queue[s] # <<>> => tokens'[s] = 0
    BY <1>1, <1>2, <2>1 DEF Filled
  <2>3. ASSUME NEW i \in 1 .. Window + 1 PROVE recent[s][i] + tokens'[s] <= Burst + (Window + 1 - i)
    <3>1. recent[s][i] \in Nat /\ recent[s][i] + tokens[s] <= Burst + (Window + 1 - i)
      BY <1>1, <1>2 DEF Filled
    <3> QED  BY <1>1, <2>1, <3>1
  <2> QED  BY <1>6, <2>2, <2>3 DEF Filled
<1> QED  BY <1>3, <1>4, <1>5, <1>6 DEF Wait

\* The window that moves on loses its first tick; a token comes with the new one.
LEMMA TickPaced ==
    ASSUME Types, Budget, Tick, NEW s \in Sess
    PROVE  Filled(s)'
<1>1. /\ tokens[s] \in 0 .. Burst /\ recent[s] \in [1 .. Window + 1 -> Nat]
      /\ Burst \in Nat /\ Burst > 0 /\ Window \in Nat
  BY Sizes DEF Types
<1>2. Filled(s)
  BY DEF Budget
<1>3. CASE queue[s] = <<>>
  <2>1. /\ queue'[s] = <<>> /\ tokens'[s] \in 0 .. Burst /\ tokens'[s] <= tokens[s] + 1
        /\ \A i \in 1 .. Window + 1 : recent'[s][i] = IF i <= Window THEN recent[s][i + 1] ELSE 0
    <3>1. queue'[s] = <<>> /\ tokens'[s] = Refill(s)
      BY <1>3 DEF Tick
    <3>2. tokens'[s] \in 0 .. Burst /\ tokens'[s] <= tokens[s] + 1
      BY <1>1, <3>1 DEF Refill
    <3>3. \A i \in 1 .. Window + 1 : recent'[s][i] = IF i <= Window THEN recent[s][i + 1] + 0 ELSE 0
      BY <1>3 DEF Tick
    <3>4. \A i \in 1 .. Window + 1 : i <= Window => i + 1 \in 1 .. Window + 1
      BY <1>1
    <3>5. \A i \in 1 .. Window + 1 : (IF i <= Window THEN recent[s][i + 1] ELSE 0) \in Nat
      BY <1>1, <3>4
    <3>6. \A i \in 1 .. Window + 1 : recent'[s][i] = IF i <= Window THEN recent[s][i + 1] ELSE 0
      BY <3>3, <3>5
    <3> QED  BY <3>1, <3>2, <3>6
  <2>2. ASSUME NEW i \in 1 .. Window + 1 PROVE recent'[s][i] + tokens'[s] <= Burst + (Window + 1 - i)
    <3>1. CASE i <= Window
      <4>1. i + 1 \in 1 .. Window + 1
        BY <1>1, <3>1
      <4>2. recent[s][i + 1] + tokens[s] <= Burst + (Window + 1 - (i + 1)) /\ recent[s][i + 1] \in Nat
        BY <1>1, <1>2, <4>1 DEF Filled
      <4>3. recent'[s][i] = recent[s][i + 1]
        BY <2>1, <3>1, <4>2
      <4>4. tokens'[s] \in Nat /\ tokens'[s] <= tokens[s] + 1
        BY <1>1, <2>1
      <4> QED  BY <1>1, <3>1, <4>2, <4>3, <4>4
    <3>2. CASE i = Window + 1
      BY <1>1, <2>1, <3>2
    <3> QED  BY <1>1, <3>1, <3>2
  <2> QED  BY <2>1, <2>2 DEF Filled
<1>4. CASE queue[s] # <<>>
  <2>1. /\ tokens[s] = 0 /\ tokens'[s] = tokens[s]
        /\ \A i \in 1 .. Window + 1 : recent'[s][i] = IF i <= Window THEN recent[s][i + 1] + 1 ELSE 0
    BY <1>2, <1>4 DEF Tick, Filled
  <2>2. ASSUME NEW i \in 1 .. Window + 1 PROVE recent'[s][i] + tokens'[s] <= Burst + (Window + 1 - i)
    <3>1. CASE i <= Window
      <4>1. i + 1 \in 1 .. Window + 1
        BY <1>1, <3>1
      <4>2. recent[s][i + 1] + tokens[s] <= Burst + (Window + 1 - (i + 1)) /\ recent[s][i + 1] \in Nat
        BY <1>1, <1>2, <4>1 DEF Filled
      <4>3. recent'[s][i] = recent[s][i + 1] + 1
        BY <2>1, <3>1, <4>2
      <4>4. tokens'[s] = tokens[s] /\ tokens[s] \in Nat
        BY <1>1, <2>1
      <4> DEFINE p == recent[s][i + 1]
      <4>5. p \in Nat /\ p + tokens[s] <= Burst + (Window + 1 - (i + 1))
        BY <4>2
      <4> HIDE DEF p
      <4>6. (p + 1) + tokens[s] <= Burst + (Window + 1 - i)
        BY <1>1, <4>4, <4>5
      <4>7. recent'[s][i] + tokens'[s] = (p + 1) + tokens[s]
        BY <4>3, <4>4 DEF p
      <4> QED  BY <4>6, <4>7
    <3>2. CASE i = Window + 1
      BY <1>1, <2>1, <3>2
    <3> QED  BY <1>1, <3>1, <3>2
  <2> QED  BY <2>1, <2>2 DEF Filled
<1> QED  BY <1>3, <1>4

LEMMA CancelPaced ==
    ASSUME Types, Budget, NEW c \in Call, Cancel(c), NEW s \in Sess
    PROVE  Filled(s)'
<1>1. Filled(s) /\ UNCHANGED <<tokens, recent>>
  BY DEF Budget, Cancel
<1>2. queue'[s] # <<>> => queue[s] # <<>>
  <2>1. queue[s] \in Seq(Call) /\ SessOf[c] \in Sess
    BY Sizes DEF Types
  <2>2. CASE queue' = queue
    BY <2>2
  <2>3. CASE \E i \in 1 .. Len(queue[SessOf[c]]) : queue' = [queue EXCEPT ![SessOf[c]] = RemoveAt(@, i)]
    <3>1. s # SessOf[c] => queue'[s] = queue[s]
      BY <2>1, <2>3 DEF Types
    <3>2. s = SessOf[c] => queue[s] # <<>>
      BY <2>1, <2>3
    <3> QED  BY <3>1, <3>2
  <2> QED  BY <2>2, <2>3 DEF Cancel
<1> QED  BY <1>1, <1>2 DEF Filled

LEMMA BudgetStep ==
    ASSUME Types, Budget, [Next]_vars
    PROVE  Budget'
<1>1. CASE Tick
  BY <1>1, TickPaced DEF Budget
<1>2. ASSUME NEW c \in Call, Start(c) \/ Retry(c)
      PROVE  Budget'
  BY <1>2, WaitPaced DEF Start, Retry, Budget
<1>3. ASSUME NEW c \in Call, Cancel(c)
      PROVE  Budget'
  BY <1>3, CancelPaced DEF Budget
<1>4. ASSUME NEW c \in Call, Finish(c) \/ Pause(c) \/ Recycle(c) \/ Vchasno(c)
      PROVE  Budget'
  <2>1. UNCHANGED <<tokens, queue, recent>>
    BY <1>4 DEF Finish, Pause, Recycle, Vchasno, Process
  <2> QED  BY <2>1 DEF Budget, Filled
<1>5. CASE UNCHANGED vars
  BY <1>5 DEF vars, Budget, Filled
<1> QED  BY <1>1, <1>2, <1>3, <1>4, <1>5 DEF Next

-----------------------------------------------------------------------------
(* Calls that were given up. *)

\* Whatever happens to a call that was given up, it neither waits for a token nor
\* sends its request after that.
LEMMA GivenUp ==
    ASSUME NEW d \in cancelled, call[d] \in Records, Moves(d), call[d].pc # "queued"
    PROVE  /\ call'[d].pc # "queued"
           /\ call[d].pc # "sent" => call'[d].pc # "sent"
<1>1. CASE Stays(d)
  BY <1>1 DEF Stays
<1>2. CASE Attempts(d)
  BY <1>2 DEF Attempts
<1>3. CASE Abandons(d)
  BY <1>3 DEF Abandons, Records
<1>4. CASE GetsToken(d)
  BY <1>4 DEF GetsToken
<1>5. CASE Pauses(d)
  BY <1>5 DEF Pauses, Records
<1>6. CASE IsAnswered(d)
  <2>1. PICK a \in Answer : call'[d] = [call[d] EXCEPT !.pc = "answered", !.ans = a]
    BY <1>6 DEF IsAnswered
  <2>2. QED
    BY <2>1 DEF Records
<1>7. CASE Ends(d)
  BY <1>7 DEF Ends, Records
<1>8. CASE PutsOff(d)
  <2>1. PICK n \in 0 .. Cap : call'[d] = [call[d] EXCEPT !.pc = "backoff", !.left = n]
    BY <1>8 DEF PutsOff
  <2>2. QED
    BY <2>1 DEF Records
<1>9. CASE Restarts(d)
  BY <1>9 DEF Restarts, Idle, At
<1>10. QED
  BY <1>1, <1>2, <1>3, <1>4, <1>5, <1>6, <1>7, <1>8, <1>9 DEF Moves

LEMMA SilentStep ==
    ASSUME Types, Queues, Counted, Silent, Next
    PROVE  Silent'
<1> SUFFICES ASSUME NEW d \in cancelled' PROVE call'[d].pc # "queued"
  BY DEF Silent
<1>0. d \in Call /\ call[d] \in Records /\ AllMove
  BY OtherTypes, NextMoves DEF Types
<1>1. CASE d \in cancelled
  <2>1. call[d].pc # "queued" /\ Moves(d)
    BY <1>0, <1>1 DEF Silent, AllMove
  <2>2. QED
    BY <1>0, <1>1, <2>1, GivenUp
<1>2. CASE d \notin cancelled
  <2>1. Cancel(d)
    BY <1>0, <1>2 DEF Next, Tick, Start, Finish, Pause, Retry, Cancel, Recycle, Vchasno, Process
  <2>2. QED
    BY <1>0, <2>1 DEF Cancel, End, Types, Records
<1>3. QED
  BY <1>1, <1>2

-----------------------------------------------------------------------------
(* The theorems *)

LEMMA InitIInv == Init => IInv
<1> SUFFICES ASSUME Init PROVE IInv
  OBVIOUS
<1>1. Idle \in Records
  BY Sizes DEF Idle, At, Records, Answer
<1>2. Types
  BY <1>1, Sizes DEF Init, Types
<1>3. Queues
  BY DEF Init, Queues, InLine
<1>4. \A c \in Call : call[c].pc = "idle" /\ effect[c] = 0
  BY DEF Init, Idle, At
<1>5. Counted /\ Known /\ Reliable
  BY <1>4 DEF Counted, Known, Reliable
<1>6. Silent
  BY DEF Init, Silent
<1>7. QED
  BY <1>2, <1>3, <1>5, <1>6 DEF IInv

LEMMA NextIInv == IInv /\ Next => IInv'
<1> SUFFICES ASSUME IInv, Next PROVE IInv'
  OBVIOUS
<1>1. Types /\ Queues /\ Counted /\ Known /\ Silent /\ Reliable
  BY DEF IInv
<1>2. AllMove
  BY <1>1, NextMoves
<1>3. Counted' /\ Known' /\ Reliable' /\ \A c \in Call : effect'[c] \in 0 .. Retries
  BY <1>1, <1>2, CallStep
<1>4. Queues' /\ queue' \in [Sess -> Seq(Call)]
  BY <1>1, QueueStep
<1>5. Silent'
  BY <1>1, SilentStep
<1>6. Types'
  <2>1. effect' \in [Call -> 0 .. Retries]
    BY <1>1, <1>3, OtherTypes
  <2>2. QED
    BY <1>1, <1>2, <1>4, <2>1, OtherTypes DEF Types, AllMove
<1>7. QED
  BY <1>3, <1>4, <1>5, <1>6 DEF IInv

LEMMA StutterIInv == IInv /\ UNCHANGED vars => IInv'
<1> SUFFICES ASSUME IInv, UNCHANGED vars PROVE IInv'
  OBVIOUS
<1> USE DEF vars
<1>1. Types' /\ Counted' /\ Known'
  BY DEF IInv, Types, Counted, Known
<1>2. Queues'
  BY DEF IInv, Queues, InLine
<1>3. Silent' /\ Reliable'
  BY DEF IInv, Silent, Reliable
<1>4. QED
  BY <1>1, <1>2, <1>3 DEF IInv

LEMMA Invariant == Spec => []IInv
BY InitIInv, NextIInv, StutterIInv, PTL DEF Spec

\* The buckets, the queues and the records of the calls keep their types; what is in
\* a queue is a call of its session that waits for a token, and is there only once
\* (client.go: limiter.wait, doWithRetry).
THEOREM TypeCorrect == Spec => []TypeOK
BY Invariant, TypeOKFromIInv, PTL

\* The result of a call can be relied on: success means that Vchasno made the
\* change; a change made twice, or a refusal of a change that was made, comes only
\* of an attempt that left open what had become of it (client.go: doWithRetry).
THEOREM ReliableAlways == Spec => []Reliable
<1>1. IInv => Reliable
  BY DEF IInv
<1>2. QED
  BY <1>1, Invariant, PTL

\* However many calls there are, however they are retried and given up, a session
\* sends in no second more than a full bucket and the tokens that arrive in it
\* (client.go: newLimiter, limiter.wait).
THEOREM PacedAlways == Spec => []Paced
<1>1. Init => Budget
  <2> SUFFICES ASSUME Init, NEW s \in Sess PROVE Filled(s)
    BY DEF Budget
  <2>1. /\ tokens[s] = Burst /\ queue[s] = <<>> /\ \A i \in 1 .. Window + 1 : recent[s][i] = 0
        /\ Burst \in Nat /\ Window \in Nat
    BY Sizes DEF Init
  <2> QED  BY <2>1 DEF Filled
<1>2. IInv /\ Budget /\ [Next]_vars => Budget'
  BY BudgetStep DEF IInv
<1>3. IInv /\ Budget => Paced
  <2> SUFFICES ASSUME IInv, Budget, NEW s \in Sess PROVE recent[s][1] <= Burst + Window
    BY DEF Paced
  <2>1. /\ tokens[s] \in Nat /\ recent[s] \in [1 .. Window + 1 -> Nat] /\ 1 \in 1 .. Window + 1
        /\ Burst \in Nat /\ Window \in Nat
    BY Sizes DEF IInv, Types
  <2>2. recent[s][1] + tokens[s] <= Burst + (Window + 1 - 1) /\ recent[s][1] \in Nat
    BY <2>1 DEF Budget, Filled
  <2> QED  BY <2>1, <2>2
<1> QED  BY <1>1, <1>2, <1>3, Invariant, PTL DEF Spec

\* Once its caller has given up, nothing is sent for a call: not from the queue of
\* the bucket, not after a pause (client.go: limiter.wait and the pause select on
\* the context).
THEOREM QuietAlways == Spec => QuietAfterCancel
<1> DEFINE Quiet == \A c \in Call : c \in cancelled /\ call[c].pc # "sent" => call'[c].pc # "sent"
<1>1. IInv /\ Next => Quiet
  <2> SUFFICES ASSUME IInv, Next, NEW c \in Call, c \in cancelled, call[c].pc # "sent"
               PROVE  call'[c].pc # "sent"
    OBVIOUS
  <2>1. Types /\ Queues /\ Counted /\ Silent
    BY DEF IInv
  <2>2. Moves(c) /\ call[c] \in Records /\ call[c].pc # "queued"
    BY <2>1, NextMoves DEF AllMove, Types, Silent
  <2>3. QED
    BY <2>2, GivenUp
<1>2. UNCHANGED vars => Quiet
  BY DEF vars
<1>3. IInv /\ [Next]_vars => [Quiet]_vars
  BY <1>1, <1>2
<1>4. QED
  BY <1>3, Invariant, PTL DEF Spec, QuietAfterCancel

-----------------------------------------------------------------------------
(* What a session caches: its inductive invariant. *)

\* An answer under way was asked for in an epoch that has begun; if no
\* Invalidate came since, it is as new as what Vchasno held at the last one,
\* because versions at Vchasno only grow.
FetchInv == \A r \in Reader :
    /\ rd[r].pc \in {"missed", "fetched"} => rd[r].s \in Session /\ rd[r].k \in Kind
                                             /\ rd[r].born <= epoch[rd[r].s]
    /\ rd[r].pc = "fetched" /\ rd[r].val \in Version /\ rd[r].born = epoch[rd[r].s]
           => rd[r].val >= floor[rd[r].s][rd[r].k]
    /\ rd[r].pc = "fetched" => rd[r].val \in Value

\* The same for the entries of the cache.
CacheInv == \A s \in Session, k \in Kind : cache[s][k] # None =>
    /\ cache[s][k].born <= epoch[s]
    /\ cache[s][k].kept = epoch[s]
    /\ cache[s][k].val \in Version /\ cache[s][k].born = epoch[s]
           => cache[s][k].val >= floor[s][k]

\* Versions at Vchasno never fall below what they were at an Invalidate.
FloorInv == \A s \in Session, k \in Kind : floor[s][k] <= data[k]

\* A change under way is a change of a session.
WriteInv == \A w \in Writer : wr[w].pc # "idle" => wr[w].s \in Session

CacheIInv == CacheTypeOK /\ FetchInv /\ CacheInv /\ FloorInv /\ WriteInv

-----------------------------------------------------------------------------

\* Updating one place of a function of functions keeps it one.
LEMMA NestedUpdate ==
    ASSUME NEW A, NEW B, NEW C, NEW f \in [A -> [B -> C]], NEW a \in A, NEW b \in B, NEW c \in C
    PROVE  [f EXCEPT ![a][b] = c] \in [A -> [B -> C]]
  OBVIOUS

LEMMA StoreType ==
    ASSUME CacheTypeOK, FetchInv, NEW r \in Reader, Store(r)
    PROVE  cache' \in [Session -> [Kind -> Entry \cup {None}]]
  <1> DEFINE e == [val |-> rd[r].val, at |-> now, born |-> rd[r].born,
                   kept |-> epoch[rd[r].s], shut |-> rd[r].shut]
  <1>1. rd[r].s \in Session /\ rd[r].k \in Kind /\ rd[r].val \in Value
    BY DEF Store, FetchInv
  <1>2. e \in Entry \cup {None}
    BY <1>1 DEF CacheTypeOK, Entry, Read, Time
  <1>3. cache' = [cache EXCEPT ![rd[r].s][rd[r].k] = e]
    BY DEF Store
  <1>4. cache \in [Session -> [Kind -> Entry \cup {None}]]
    BY DEF CacheTypeOK
  <1> HIDE DEF e
  <1>5. [cache EXCEPT ![rd[r].s][rd[r].k] = e] \in [Session -> [Kind -> Entry \cup {None}]]
    BY <1>1, <1>2, <1>4, NestedUpdate, Zenon
  <1>6. QED
    BY <1>3, <1>5, Zenon

\* Whatever a fetch comes out with is an answer of Vchasno, the built-in data or an
\* error; the rest of the read stays as it is, but for the time and for `shut`.
Answers(k) == {NoData(k), [pc |-> "fetched", val |-> data[k]]}

LEMMA FetchAnswers ==
    ASSUME NEW r \in Reader, Fetch(r)
    PROVE  \E x \in Answers(rd[r].k), z \in BOOLEAN : rd' = [rd EXCEPT ![r] = Got(r, x, z)]
  <1>1. NoData(rd[r].k) \in Answers(rd[r].k) /\ Asked(rd[r].k) \subseteq Answers(rd[r].k)
    BY DEF Asked, Answers
  <1>2. CASE \E x \in Asked(rd[r].k) : rd' = [rd EXCEPT ![r] = Got(r, x, FALSE)]
    BY <1>1, <1>2
  <1>3. CASE rd' = [rd EXCEPT ![r] = Got(r, NoData(rd[r].k), TRUE)]
    BY <1>1, <1>3
  <1>4. QED
    BY <1>2, <1>3 DEF Fetch

LEMMA CacheTypeStep == CacheTypeOK /\ WriteInv /\ FetchInv /\ [CacheNext]_cacheVars => CacheTypeOK'
  <1> SUFFICES ASSUME CacheTypeOK, WriteInv, FetchInv, [CacheNext]_cacheVars PROVE CacheTypeOK'
    OBVIOUS
  <1>0. ASSUME NEW r \in Reader, Store(r)
        PROVE  cache' \in [Session -> [Kind -> Entry \cup {None}]]
    BY <1>0, StoreType
  <1> USE RefCacheAssumption
      DEF CacheTypeOK, Version, Value, Time, Tariff, Entry, IdleRead, Read, IdleWrite, Write
  <1>1. CASE UNCHANGED cacheVars
    BY <1>1 DEF cacheVars
  <1>2. ASSUME NEW r \in Reader, NEW s \in Session, NEW k \in Kind, Lookup(r, s, k)
        PROVE  CacheTypeOK'
    <2>1. rd' \in [Reader -> Read]
      <3>1. CASE Fresh(cache[s][k])
        <4>1. cache[s][k].val \in Value \cup {Failure, None}
          BY <3>1 DEF Fresh
        <4>2. rd' = [rd EXCEPT ![r] = [IdleRead EXCEPT !.pc = "done", !.s = s, !.k = k,
                                                       !.val = cache[s][k].val, !.at = now]]
          BY <1>2, <3>1 DEF Lookup
        <4>3. QED
          BY <4>1, <4>2
      <3>2. CASE ~Fresh(cache[s][k])
        BY <1>2, <3>2 DEF Lookup
      <3>3. QED
        BY <3>1, <3>2
    <2>2. QED
      BY <1>2, <2>1 DEF Lookup
  <1>3. ASSUME NEW r \in Reader, Fetch(r) PROVE CacheTypeOK'
    <2>1. rd[r].s \in Session /\ rd[r].k \in Kind
      BY <1>3 DEF Fetch, FetchInv
    <2>2. data[rd[r].k] \in Version
      BY <2>1
    <2>3. PICK x \in Answers(rd[r].k), z \in BOOLEAN : rd' = [rd EXCEPT ![r] = Got(r, x, z)]
      BY <1>3, FetchAnswers
    <2>4. /\ x.val \in Value \cup {Failure, None}
          /\ x.pc \in {"idle", "missed", "fetched", "done"}
      BY <2>2 DEF Answers, NoData
    <2>5. Got(r, x, z) \in Read
      <3>1. rd[r] \in Read /\ now \in Time
        OBVIOUS
      <3> HIDE DEF CacheTypeOK, Value, Time
      <3>2. QED
        BY <2>4, <3>1 DEF Read, Got
    <2>6. rd' \in [Reader -> Read]
      BY <2>3, <2>5
    <2>7. QED
      BY <1>3, <2>6 DEF Fetch
  <1>4. ASSUME NEW r \in Reader, Store(r) PROVE CacheTypeOK'
    <2>1. rd[r].s \in Session /\ rd[r].k \in Kind /\ rd[r].val \in Value
      BY <1>4 DEF Store, FetchInv
    <2>2. cache' \in [Session -> [Kind -> Entry \cup {None}]]
      BY <1>4, <1>0
    <2>3. rd' \in [Reader -> Read]
      <3>1. rd' = [rd EXCEPT ![r] = [rd[r] EXCEPT !.pc = "done", !.at = now]]
        BY <1>4 DEF Store
      <3>2. [rd[r] EXCEPT !.pc = "done", !.at = now] \in Read
        <4>1. rd[r] \in Read /\ now \in Time
          OBVIOUS
        <4> HIDE DEF CacheTypeOK, Value, Time
        <4>2. QED
          BY <4>1
      <3>3. QED
        BY <3>1, <3>2
    <2>4. QED
      BY <1>4, <2>2, <2>3 DEF Store
  <1>5. ASSUME NEW r \in Reader, Return(r) PROVE CacheTypeOK'
    BY <1>5 DEF Return
  <1>6. ASSUME NEW w \in Writer, NEW s \in Session, NEW k \in Kind, Apply(w, s, k)
        PROVE  CacheTypeOK'
    BY <1>6 DEF Apply
  <1>7. ASSUME NEW w \in Writer, NEW s \in Session, ActivateTrial(w, s) PROVE CacheTypeOK'
    BY <1>7 DEF ActivateTrial
  <1>8. ASSUME NEW w \in Writer, Invalidate(w) PROVE CacheTypeOK'
    BY <1>8 DEF Invalidate, WriteInv
  <1>9. ASSUME NEW w \in Writer, Lose(w) PROVE CacheTypeOK'
    BY <1>9 DEF Lose
  <1>10. ASSUME NEW w \in Writer, OpenSession(w) PROVE CacheTypeOK'
    BY <1>10 DEF OpenSession, WriteInv
  <1>11. CASE CacheTick
    BY <1>11 DEF CacheTick
  <1>12. CASE TariffEnds
    BY <1>12 DEF TariffEnds
  <1>13. QED
    BY <1>1, <1>2, <1>3, <1>4, <1>5, <1>6, <1>7, <1>8, <1>9, <1>10, <1>11, <1>12 DEF CacheNext

-----------------------------------------------------------------------------

LEMMA WriteStep == CacheTypeOK /\ WriteInv /\ [CacheNext]_cacheVars => WriteInv'
  <1> SUFFICES ASSUME CacheTypeOK, WriteInv, [CacheNext]_cacheVars, NEW w \in Writer
               PROVE  wr'[w].pc # "idle" => wr'[w].s \in Session
    BY DEF WriteInv
  <1>1. wr[w] \in Write /\ wr \in [Writer -> Write]
    BY DEF CacheTypeOK
  <1>2. CASE wr'[w] = wr[w]
    BY <1>2 DEF WriteInv
  <1>3. ASSUME NEW x \in Writer, NEW s \in Session,
               (\E k \in Kind : Apply(x, s, k)) \/ ActivateTrial(x, s)
        PROVE  wr'[w] = wr[w] \/ wr'[w].s \in Session
    BY <1>1, <1>3 DEF Apply, ActivateTrial
  <1>4. ASSUME NEW x \in Writer, Invalidate(x) \/ Lose(x)
        PROVE  wr'[w] = wr[w] \/ wr'[w].pc = "idle"
    BY <1>1, <1>4 DEF Invalidate, Lose, IdleWrite
  <1>5. ASSUME NEW x \in Writer, OpenSession(x)
        PROVE  wr'[w] = wr[w] \/ (wr[w].pc = "trial" /\ wr'[w].s = wr[w].s)
    BY <1>1, <1>5 DEF OpenSession, Write
  <1>6. (\E r \in Reader : (\E s \in Session, k \in Kind : Lookup(r, s, k))
                            \/ Fetch(r) \/ Store(r) \/ Return(r)) \/ TariffEnds \/ CacheTick \/ UNCHANGED cacheVars
        => wr' = wr
    BY DEF Lookup, Fetch, Store, Return, TariffEnds, CacheTick, cacheVars
  <1>7. QED
    BY <1>2, <1>3, <1>4, <1>5, <1>6 DEF CacheNext, WriteInv

\* Data at Vchasno only grows, and the floor is what it was at some time.
LEMMA FloorStep == CacheTypeOK /\ WriteInv /\ FloorInv /\ [CacheNext]_cacheVars => FloorInv'
  <1> SUFFICES ASSUME CacheTypeOK, WriteInv, FloorInv, [CacheNext]_cacheVars, NEW s \in Session, NEW k \in Kind
               PROVE  floor'[s][k] <= data'[k]
    BY DEF FloorInv
  <1>1. floor[s][k] <= data[k] /\ floor[s][k] \in Nat /\ data[k] \in Nat
    BY RefCacheAssumption DEF CacheTypeOK, Version, FloorInv
  <1>2. CASE data' = data /\ floor' = floor
    BY <1>1, <1>2
  <1>3. ASSUME NEW w \in Writer, NEW x \in Session, NEW y \in Kind, Apply(w, x, y)
        PROVE  floor' = floor /\ (data'[k] = data[k] \/ data'[k] = data[k] + 1)
    BY <1>3 DEF Apply, CacheTypeOK
  <1>4. ASSUME NEW w \in Writer, Invalidate(w)
        PROVE  data' = data /\ (floor'[s] = floor[s] \/ floor'[s] = data)
    BY <1>4 DEF Invalidate, CacheTypeOK
  <1>5. ASSUME NEW w \in Writer, (\E x \in Session : ActivateTrial(w, x)) \/ Lose(w) \/ OpenSession(w)
        PROVE  data' = data /\ floor' = floor
    BY <1>5 DEF ActivateTrial, Lose, OpenSession
  <1>6. (\E r \in Reader : (\E x \in Session, y \in Kind : Lookup(r, x, y))
                            \/ Fetch(r) \/ Store(r) \/ Return(r)) \/ TariffEnds \/ CacheTick \/ UNCHANGED cacheVars
        => data' = data /\ floor' = floor
    BY DEF Lookup, Fetch, Store, Return, TariffEnds, CacheTick, cacheVars
  <1>7. QED
    BY <1>1, <1>2, <1>3, <1>4, <1>5, <1>6 DEF CacheNext

\* How a step can change the history of a session: an Invalidate begins a new
\* epoch, every other step leaves the epoch and the floor alone.
LEMMA EpochStep ==
    ASSUME CacheTypeOK, WriteInv, [CacheNext]_cacheVars, NEW s \in Session
    PROVE  \/ epoch'[s] = epoch[s] /\ floor'[s] = floor[s]
           \/ epoch'[s] = epoch[s] + 1 /\ (\A k \in Kind : cache'[s][k] = None) /\ rd' = rd
  <1>1. ASSUME NEW w \in Writer, Invalidate(w)
        PROVE  \/ epoch'[s] = epoch[s] /\ floor'[s] = floor[s]
               \/ epoch'[s] = epoch[s] + 1 /\ (\A k \in Kind : cache'[s][k] = None) /\ rd' = rd
    BY <1>1 DEF Invalidate, CacheTypeOK
  <1>2. ASSUME NEW w \in Writer, \/ \E x \in Session, y \in Kind : Apply(w, x, y)
                                \/ \E x \in Session : ActivateTrial(w, x)
                                \/ Lose(w) \/ OpenSession(w)
        PROVE  epoch' = epoch /\ floor' = floor
    BY <1>2 DEF Apply, ActivateTrial, Lose, OpenSession
  <1>3. (\E r \in Reader : (\E x \in Session, y \in Kind : Lookup(r, x, y))
                            \/ Fetch(r) \/ Store(r) \/ Return(r)) \/ TariffEnds \/ CacheTick \/ UNCHANGED cacheVars
        => epoch' = epoch /\ floor' = floor
    BY DEF Lookup, Fetch, Store, Return, TariffEnds, CacheTick, cacheVars
  <1>4. QED
    BY <1>1, <1>2, <1>3 DEF CacheNext

LEMMA FetchStep ==
    CacheTypeOK /\ CacheTypeOK' /\ WriteInv /\ FloorInv /\ FetchInv /\ [CacheNext]_cacheVars => FetchInv'
  <1> SUFFICES ASSUME CacheTypeOK, CacheTypeOK', WriteInv, FloorInv, FetchInv, [CacheNext]_cacheVars, NEW q \in Reader
               PROVE  FetchInv!(q)'
    BY DEF FetchInv
  <1>1. FetchInv!(q)
    BY DEF FetchInv
  <1>2. rd[q] \in Read /\ rd \in [Reader -> Read]
    BY DEF CacheTypeOK
  \* The step leaves the read alone: only an Invalidate matters, which begins a
  \* new epoch.
  <1>3. CASE rd'[q] = rd[q]
    <2>1. CASE rd[q].pc \in {"missed", "fetched"}
      <3>1. rd[q].s \in Session /\ rd[q].k \in Kind /\ rd[q].born \in Nat
        BY <1>1, <1>2, <2>1 DEF Read
      <3>2. epoch[rd[q].s] \in Nat
        BY <3>1 DEF CacheTypeOK
      <3>3. \/ epoch'[rd[q].s] = epoch[rd[q].s] /\ floor'[rd[q].s] = floor[rd[q].s]
            \/ epoch'[rd[q].s] = epoch[rd[q].s] + 1
        BY <3>1, EpochStep
      <3>4. QED
        BY <1>1, <1>3, <3>1, <3>2, <3>3
    <2>2. CASE rd[q].pc \notin {"missed", "fetched"}
      BY <1>3, <2>2
    <2>3. QED
      BY <2>1, <2>2
  <1>4. ASSUME NEW s \in Session, NEW k \in Kind, Lookup(q, s, k) PROVE FetchInv!(q)'
    <2>1. rd'[q].pc = "done" \/ (/\ rd'[q].pc = "missed" /\ rd'[q].s = s
                                 /\ rd'[q].k = k /\ rd'[q].born = epoch[s])
      BY <1>2, <1>4 DEF Lookup
    <2>2. epoch' = epoch /\ epoch[s] \in Nat
      BY <1>4 DEF Lookup, CacheTypeOK
    <2>3. QED
      BY <2>1, <2>2
  <1>5. CASE Fetch(q)
    <2>1. rd[q].s \in Session /\ rd[q].k \in Kind /\ rd[q].born <= epoch[rd[q].s]
      BY <1>1, <1>5 DEF Fetch
    <2>2. data[rd[q].k] \in Version /\ floor[rd[q].s][rd[q].k] <= data[rd[q].k]
      BY <2>1 DEF CacheTypeOK, FloorInv
    <2>3. Builtin \notin Version
      BY RefCacheAssumption DEF Version
    <2>4. /\ rd'[q].s = rd[q].s /\ rd'[q].k = rd[q].k /\ rd'[q].born = rd[q].born
          /\ \/ rd'[q].pc = "done"
             \/ rd'[q].pc = "fetched" /\ rd'[q].val = Builtin
             \/ rd'[q].pc = "fetched" /\ rd'[q].val = data[rd[q].k]
      <3>1. PICK x \in Answers(rd[q].k), z \in BOOLEAN : rd' = [rd EXCEPT ![q] = Got(q, x, z)]
        BY <1>5, FetchAnswers
      <3>2. \/ x.pc = "done"
            \/ x.pc = "fetched" /\ x.val \in {Builtin, data[rd[q].k]}
        BY DEF Answers, NoData
      <3>3. QED
        BY <1>2, <3>1, <3>2 DEF Got, Read
    <2>5. epoch' = epoch /\ floor' = floor
      BY <1>5 DEF Fetch
    <2>6. QED
      BY <2>1, <2>2, <2>3, <2>4, <2>5 DEF Value
  <1>6. CASE Store(q) \/ Return(q)
    <2>1. rd'[q].pc \in {"done", "idle"}
      BY <1>2, <1>6 DEF Store, Return, IdleRead, Read
    <2>2. QED
      BY <2>1
  <1>7. ASSUME NEW r \in Reader, r # q,
               (\E s \in Session, k \in Kind : Lookup(r, s, k)) \/ Fetch(r) \/ Store(r) \/ Return(r)
        PROVE  rd'[q] = rd[q]
    BY <1>2, <1>7 DEF Lookup, Fetch, Store, Return
  <1>8. (\E w \in Writer : \/ \E s \in Session, k \in Kind : Apply(w, s, k)
                           \/ \E s \in Session : ActivateTrial(w, s)
                           \/ Invalidate(w) \/ Lose(w) \/ OpenSession(w)) \/ TariffEnds \/ CacheTick \/ UNCHANGED cacheVars
        => rd' = rd
    BY DEF Apply, ActivateTrial, Invalidate, Lose, OpenSession, TariffEnds, CacheTick, cacheVars
  <1>9. QED
    BY <1>3, <1>4, <1>5, <1>6, <1>7, <1>8 DEF CacheNext

\* A place of the cache is filled by a Store of its own; the rest of a step leaves it
\* alone or empties it.
LEMMA CachePlace ==
    ASSUME CacheTypeOK, WriteInv, FetchInv, [CacheNext]_cacheVars,
           NEW s \in Session, NEW k \in Kind, cache'[s][k] # None
    PROVE  cache'[s][k] = cache[s][k] \/ \E r \in Reader : Store(r) /\ rd[r].s = s /\ rd[r].k = k
  <1>1. ASSUME NEW r \in Reader, Store(r), ~(rd[r].s = s /\ rd[r].k = k)
        PROVE  cache'[s][k] = cache[s][k]
    <2>1. rd[r].s \in Session /\ rd[r].k \in Kind
      BY <1>1 DEF Store, FetchInv
    <2>2. QED
      BY <1>1, <2>1 DEF Store, CacheTypeOK
  <1>2. ASSUME NEW w \in Writer, Invalidate(w)
        PROVE  cache'[s][k] = cache[s][k]
    BY <1>2 DEF Invalidate, CacheTypeOK
  <1>3. \/ \E w \in Writer : \/ \E x \in Session, y \in Kind : Apply(w, x, y)
                            \/ \E x \in Session : ActivateTrial(w, x)
                            \/ Lose(w) \/ OpenSession(w)
        \/ \E r \in Reader : (\E x \in Session, y \in Kind : Lookup(r, x, y)) \/ Fetch(r) \/ Return(r)
        \/ TariffEnds \/ CacheTick \/ UNCHANGED cacheVars
        => cache' = cache
    BY DEF Apply, ActivateTrial, Lose, OpenSession, Lookup, Fetch, Return, TariffEnds, CacheTick, cacheVars
  <1>4. QED
    BY <1>1, <1>2, <1>3 DEF CacheNext

LEMMA CacheStep ==
    CacheTypeOK /\ WriteInv /\ FetchInv /\ CacheInv /\ [CacheNext]_cacheVars => CacheInv'
  <1> SUFFICES ASSUME CacheTypeOK, WriteInv, FetchInv, CacheInv, [CacheNext]_cacheVars,
                      NEW s \in Session, NEW k \in Kind, cache'[s][k] # None
               PROVE  /\ cache'[s][k].born <= epoch'[s]
                      /\ cache'[s][k].kept = epoch'[s]
                      /\ cache'[s][k].val \in Version /\ cache'[s][k].born = epoch'[s]
                             => cache'[s][k].val >= floor'[s][k]
    BY DEF CacheInv
  <1>1. epoch'[s] = epoch[s] /\ floor'[s] = floor[s]
    BY EpochStep
  <1>2. CASE cache'[s][k] = cache[s][k]
    BY <1>1, <1>2 DEF CacheInv
  <1>8. ASSUME NEW r \in Reader, Store(r), rd[r].s = s, rd[r].k = k
        PROVE  /\ cache'[s][k].born <= epoch'[s]
               /\ cache'[s][k].kept = epoch'[s]
               /\ cache'[s][k].val \in Version /\ cache'[s][k].born = epoch'[s]
                      => cache'[s][k].val >= floor'[s][k]
    <2>1. cache'[s][k] = [val |-> rd[r].val, at |-> now, born |-> rd[r].born,
                         kept |-> epoch[s], shut |-> rd[r].shut]
      BY <1>8 DEF Store, CacheTypeOK
    <2>2. /\ cache'[s][k].val = rd[r].val
          /\ cache'[s][k].born = rd[r].born
          /\ cache'[s][k].kept = epoch[s]
      BY <2>1
    <2>3. /\ rd[r].born <= epoch[s]
          /\ rd[r].val \in Version /\ rd[r].born = epoch[s] => rd[r].val >= floor[s][k]
      BY <1>8 DEF Store, FetchInv
    <2>4. QED
      BY <1>1, <2>2, <2>3
  <1>9. QED
    BY <1>2, <1>8, CachePlace

-----------------------------------------------------------------------------
THEOREM CacheInvariant == CacheSpec => []CacheIInv
  <1>1. CacheInit => CacheIInv
    <2> SUFFICES ASSUME CacheInit PROVE CacheIInv
      OBVIOUS
    <2>1. data \in [Kind -> Version]
      BY RefCacheAssumption DEF CacheInit, Version
    <2>2. CacheTypeOK
      BY <2>1, RefCacheAssumption
         DEF CacheInit, CacheTypeOK, Time, Tariff, Read, IdleRead, Write, IdleWrite, Value
    <2>3. FetchInv /\ CacheInv /\ WriteInv
      BY DEF CacheInit, FetchInv, CacheInv, WriteInv, IdleRead, IdleWrite
    <2>4. FloorInv
      BY <2>1 DEF CacheInit, FloorInv, Version
    <2>5. QED
      BY <2>2, <2>3, <2>4 DEF CacheIInv
  <1>2. CacheIInv /\ [CacheNext]_cacheVars => CacheIInv'
    BY CacheTypeStep, WriteStep, FloorStep, FetchStep, CacheStep DEF CacheIInv
  <1>3. QED
    BY <1>1, <1>2, PTL DEF CacheSpec

\* The cache, the reads and the changes under way have their types; the proofs
\* about what the cache holds rest on it.
THEOREM CacheTypeCorrect == CacheSpec => []CacheTypeOK
  <1>1. CacheIInv => CacheTypeOK
    BY DEF CacheIInv
  <1>2. QED
    BY <1>1, CacheInvariant, PTL

\* Whatever the interleaving, an entry older than the last Invalidate was brought
\* by a request under way at that Invalidate: the mutex of the session, held only
\* for the lookup and for the store, loses no other change.
THEOREM StaleOnlyByRaceAlways == CacheSpec => []StaleOnlyByRace
  <1>1. CacheIInv => StaleOnlyByRace
    <2> SUFFICES ASSUME CacheIInv, NEW s \in Session, NEW k \in Kind,
                        cache[s][k] # None, cache[s][k].val \in Version
                 PROVE  /\ cache[s][k].kept = epoch[s]
                        /\ cache[s][k].val < floor[s][k] => cache[s][k].born < epoch[s]
      BY DEF StaleOnlyByRace
    <2>1. /\ cache[s][k].born <= epoch[s]
          /\ cache[s][k].kept = epoch[s]
          /\ cache[s][k].born = epoch[s] => cache[s][k].val >= floor[s][k]
      BY DEF CacheIInv, CacheInv
    <2>2. /\ cache[s][k].born \in Nat /\ epoch[s] \in Nat
          /\ floor[s][k] \in Nat /\ cache[s][k].val \in Nat
      BY RefCacheAssumption DEF CacheIInv, CacheTypeOK, Entry, Version
    <2>3. QED
      BY <2>1, <2>2
  <1>2. QED
    BY <1>1, CacheInvariant, PTL

-----------------------------------------------------------------------------
\* What a session was content with while it was closed.

\* Has a tool opened the session without having invalidated it yet?
Opening(s) == \E w \in Writer : wr[w].pc = "opened" /\ wr[w].s = s

\* A read that found its session closed began, once the session is open and was
\* invalidated, in an earlier epoch.
ShutRead == \A r \in Reader :
    /\ rd[r].pc \in {"missed", "fetched"} /\ rd[r].shut
    /\ open[rd[r].s] /\ ~Opening(rd[r].s)
    => rd[r].born < epoch[rd[r].s]

ShutCache == \A s \in Session, k \in Kind :
    cache[s][k] # None /\ cache[s][k].shut /\ open[s] /\ ~Opening(s)
    => cache[s][k].born < epoch[s]

\* A session is opened by a tool that has still to invalidate it, and the tool is
\* done with it only when it has.
LEMMA OpenStep ==
    ASSUME CacheTypeOK, WriteInv, [CacheNext]_cacheVars, NEW s \in Session
    PROVE  \/ Opening(s)'
           \/ epoch'[s] = epoch[s] + 1
           \/ (open'[s] => open[s]) /\ (Opening(s) => Opening(s)')
  <1>1. ASSUME NEW w \in Writer, OpenSession(w)
        PROVE  Opening(s)' \/ ((open'[s] => open[s]) /\ (Opening(s) => Opening(s)'))
    <2>1. CASE wr[w].s = s
      BY <1>1, <2>1 DEF OpenSession, Opening, CacheTypeOK, Write
    <2>2. CASE wr[w].s # s
      <3>1. open'[s] = open[s]
        BY <1>1, <2>2 DEF OpenSession, CacheTypeOK
      <3>2. \A x \in Writer : wr[x].pc = "opened" => wr'[x] = wr[x]
        BY <1>1 DEF OpenSession, CacheTypeOK
      <3>3. QED
        BY <3>1, <3>2 DEF Opening
    <2>3. QED
      BY <2>1, <2>2
  <1>2. ASSUME NEW w \in Writer, Invalidate(w)
        PROVE  epoch'[s] = epoch[s] + 1 \/ (open' = open /\ (Opening(s) => Opening(s)'))
    <2>1. CASE wr[w].s = s
      BY <1>2, <2>1 DEF Invalidate, CacheTypeOK
    <2>2. CASE wr[w].s # s
      <3>1. \A x \in Writer : wr[x].s = s => wr'[x] = wr[x]
        BY <1>2, <2>2 DEF Invalidate, CacheTypeOK
      <3>2. QED
        BY <1>2, <3>1 DEF Invalidate, Opening
    <2>3. QED
      BY <2>1, <2>2
  <1>3. ASSUME NEW w \in Writer, \/ \E x \in Session, y \in Kind : Apply(w, x, y)
                                \/ \E x \in Session : ActivateTrial(w, x)
                                \/ Lose(w)
        PROVE  open' = open /\ (Opening(s) => Opening(s)')
    <2>1. open' = open /\ \A x \in Writer : wr[x].pc = "opened" => wr'[x] = wr[x]
      BY <1>3 DEF Apply, ActivateTrial, Lose, CacheTypeOK
    <2>2. QED
      BY <2>1 DEF Opening
  <1>4. (\E r \in Reader : (\E x \in Session, y \in Kind : Lookup(r, x, y))
                            \/ Fetch(r) \/ Store(r) \/ Return(r))
           \/ TariffEnds \/ CacheTick \/ UNCHANGED cacheVars
        => open' = open /\ wr' = wr
    BY DEF Lookup, Fetch, Store, Return, TariffEnds, CacheTick, cacheVars
  <1>5. QED
    BY <1>1, <1>2, <1>3, <1>4 DEF CacheNext, Opening

LEMMA ShutReadStep ==
    CacheIInv /\ CacheIInv' /\ ShutRead /\ [CacheNext]_cacheVars => ShutRead'
  <1> SUFFICES ASSUME CacheIInv, CacheIInv', ShutRead, [CacheNext]_cacheVars, NEW q \in Reader,
                      NEW s \in Session, rd'[q].s = s,
                      rd'[q].pc \in {"missed", "fetched"}, rd'[q].shut, open'[s], ~Opening(s)'
               PROVE  rd'[q].born < epoch'[s]
    BY DEF CacheIInv, FetchInv, ShutRead, Opening
  <1>1. CacheTypeOK /\ WriteInv /\ FetchInv
    BY DEF CacheIInv
  <1>2. rd[q] \in Read /\ rd \in [Reader -> Read] /\ epoch[s] \in Nat
    BY <1>1 DEF CacheTypeOK
  <1>3. CASE rd[q].pc \in {"missed", "fetched"} /\ rd[q].shut /\ rd[q].s = s /\ rd'[q].born = rd[q].born
    <2>1. rd[q].born <= epoch[s] /\ rd[q].born \in Nat
      BY <1>1, <1>2, <1>3 DEF FetchInv, Read
    <2>2. epoch'[s] = epoch[s] \/ epoch'[s] = epoch[s] + 1
      BY <1>1, EpochStep
    <2>3. CASE epoch'[s] = epoch[s] + 1
      BY <1>2, <1>3, <2>1, <2>3
    <2>4. CASE epoch'[s] = epoch[s]
      <3>1. open[s] /\ ~Opening(s)
        BY <1>1, <1>2, <2>4, OpenStep
      <3>2. QED
        BY <1>3, <2>4, <3>1 DEF ShutRead, Opening
    <2>5. QED
      BY <2>2, <2>3, <2>4
  <1>4. ASSUME NEW x \in Session, NEW k \in Kind, Lookup(q, x, k) PROVE FALSE
    <2>1. rd'[q].s = x /\ rd'[q].shut = ~open[x]
      BY <1>2, <1>4 DEF Lookup, IdleRead
    <2>2. open' = open
      BY <1>4 DEF Lookup
    <2>3. QED
      BY <2>1, <2>2
  <1>5. CASE Fetch(q)
    <2>1. PICK x \in Answers(rd[q].k), z \in BOOLEAN : rd' = [rd EXCEPT ![q] = Got(q, x, z)]
      BY <1>5, FetchAnswers
    <2>2. rd'[q].s = rd[q].s /\ rd'[q].born = rd[q].born
      BY <1>2, <2>1 DEF Got, Read
    <2>3. \/ \E a \in Asked(rd[q].k) : rd' = [rd EXCEPT ![q] = Got(q, a, FALSE)]
          \/ rd[q].shut
      BY <1>5 DEF Fetch
    <2>4. ASSUME NEW a \in Asked(rd[q].k), rd' = [rd EXCEPT ![q] = Got(q, a, FALSE)]
          PROVE  FALSE
      BY <1>2, <2>4 DEF Got, Read
    <2>5. QED
      BY <1>3, <1>5, <2>2, <2>3, <2>4 DEF Fetch
  <1>6. CASE Store(q) \/ Return(q)
    BY <1>2, <1>6 DEF Store, Return, IdleRead, Read
  <1>7. ASSUME NEW r \in Reader, r # q,
               (\E x \in Session, k \in Kind : Lookup(r, x, k)) \/ Fetch(r) \/ Store(r) \/ Return(r)
        PROVE  rd'[q] = rd[q]
    BY <1>2, <1>7 DEF Lookup, Fetch, Store, Return
  <1>8. (\E w \in Writer : \/ \E x \in Session, k \in Kind : Apply(w, x, k)
                           \/ \E x \in Session : ActivateTrial(w, x)
                           \/ Invalidate(w) \/ Lose(w) \/ OpenSession(w))
           \/ TariffEnds \/ CacheTick \/ UNCHANGED cacheVars
        => rd' = rd
    BY DEF Apply, ActivateTrial, Invalidate, Lose, OpenSession, TariffEnds, CacheTick, cacheVars
  <1>9. QED
    BY <1>3, <1>4, <1>5, <1>6, <1>7, <1>8 DEF CacheNext

LEMMA ShutCacheStep ==
    CacheIInv /\ ShutRead /\ ShutCache /\ [CacheNext]_cacheVars => ShutCache'
  <1> SUFFICES ASSUME CacheIInv, ShutRead, ShutCache, [CacheNext]_cacheVars,
                      NEW s \in Session, NEW k \in Kind,
                      cache'[s][k] # None, cache'[s][k].shut, open'[s], ~Opening(s)'
               PROVE  cache'[s][k].born < epoch'[s]
    BY DEF ShutCache, Opening
  <1>1. CacheTypeOK /\ WriteInv /\ FetchInv /\ epoch[s] \in Nat
    BY DEF CacheIInv, CacheTypeOK
  <1>2. epoch'[s] = epoch[s]
    BY <1>1, EpochStep
  <1>3. open[s] /\ ~Opening(s)
    BY <1>1, <1>2, OpenStep
  <1>4. CASE cache'[s][k] = cache[s][k]
    BY <1>2, <1>3, <1>4 DEF ShutCache
  <1>5. ASSUME NEW r \in Reader, Store(r), rd[r].s = s, rd[r].k = k
        PROVE  cache'[s][k].born < epoch'[s]
    <2>1. cache'[s][k] = [val |-> rd[r].val, at |-> now, born |-> rd[r].born,
                         kept |-> epoch[s], shut |-> rd[r].shut]
      BY <1>1, <1>5 DEF Store, CacheTypeOK
    <2>2. cache'[s][k].born = rd[r].born /\ rd[r].shut
      BY <2>1
    <2>3. rd[r].pc = "fetched" /\ rd[r].shut /\ open[rd[r].s] /\ ~Opening(rd[r].s)
      BY <1>3, <1>5, <2>2 DEF Store, Opening
    <2>4. rd[r].born < epoch[rd[r].s]
      BY <2>3 DEF ShutRead
    <2>5. QED
      BY <1>2, <1>5, <2>2, <2>4
  <1>6. QED
    BY <1>1, <1>4, <1>5, CachePlace

\* Once a session is open and was invalidated, the built-in data that it took for
\* an answer while it was closed is gone from its cache, but for a read that has
\* seen it closed: setting APIOpen without the lock does no more harm than that.
THEOREM OpenedAfreshAlways == CacheSpec => []OpenedAfresh
  <1>1. CacheInit => ShutRead /\ ShutCache
    BY DEF CacheInit, ShutRead, ShutCache, IdleRead
  <1>2. /\ CacheIInv /\ CacheIInv' /\ ShutRead /\ ShutCache /\ [CacheNext]_cacheVars
        => ShutRead' /\ ShutCache'
    BY ShutReadStep, ShutCacheStep
  <1>3. ShutCache => OpenedAfresh
    BY DEF ShutCache, OpenedAfresh, Opening
  <1>4. QED
    BY <1>1, <1>2, <1>3, CacheInvariant, PTL DEF CacheSpec

-----------------------------------------------------------------------------
\* How old data can be.  What Vchasno still holds was not replaced.
ReplacedInv == \A k \in Kind, v \in Version : replaced[k][v] # None => v < data[k]

\* Was version v of kind k still held at Vchasno less than `slack` ticks before
\* `at`?
HeldAt(k, v, at, slack) == replaced[k][v] = None \/ at <= replaced[k][v] + slack

\* An answer under way was the data when Vchasno gave it, and is not under way
\* for longer than the timeout; what was read is at most an answer and a life
\* in the cache old.
ReadAge == \A r \in Reader :
    /\ rd[r].at <= now
    /\ rd[r].pc \in {"missed", "fetched", "done"} => rd[r].k \in Kind
    /\ rd[r].pc = "fetched" => now <= rd[r].at + Latency
    /\ rd[r].pc = "fetched" /\ rd[r].val \in Version => HeldAt(rd[r].k, rd[r].val, rd[r].at, 0)
    /\ rd[r].pc = "done" /\ rd[r].val \in Version
           => HeldAt(rd[r].k, rd[r].val, rd[r].at + 1, TTL + Latency)

\* An entry was stored at most Latency after Vchasno gave the answer.
CacheAge == \A s \in Session, k \in Kind : cache[s][k] # None =>
    /\ cache[s][k].at <= now
    /\ cache[s][k].val \in Version => HeldAt(k, cache[s][k].val, cache[s][k].at, Latency)

AgeInv == ReplacedInv /\ ReadAge /\ CacheAge

\* A version is replaced once, and then now: for whatever was read up to now it
\* stays held, with any slack.
LEMMA HeldStep ==
    ASSUME CacheTypeOK, [CacheNext]_cacheVars, NEW k \in Kind, NEW v \in Version,
           NEW at \in Nat, NEW slack \in Nat, HeldAt(k, v, at, slack), at <= now + slack
    PROVE  HeldAt(k, v, at, slack)'
  <1>1. CASE replaced' = replaced
    BY <1>1 DEF HeldAt
  <1>2. ASSUME NEW w \in Writer, NEW s \in Session, NEW y \in Kind, Apply(w, s, y)
        PROVE  replaced'[k][v] = replaced[k][v] \/ replaced'[k][v] = now
    BY <1>2 DEF Apply, CacheTypeOK
  <1>3. ASSUME NEW w \in Writer, \/ \E x \in Session : ActivateTrial(w, x)
                                \/ Invalidate(w) \/ Lose(w) \/ OpenSession(w)
        PROVE  replaced' = replaced
    BY <1>3 DEF ActivateTrial, Invalidate, Lose, OpenSession
  <1>4. (\E r \in Reader : (\E x \in Session, y \in Kind : Lookup(r, x, y))
                            \/ Fetch(r) \/ Store(r) \/ Return(r)) \/ TariffEnds \/ CacheTick \/ UNCHANGED cacheVars
        => replaced' = replaced
    BY DEF Lookup, Fetch, Store, Return, TariffEnds, CacheTick, cacheVars
  <1>5. QED
    BY <1>1, <1>2, <1>3, <1>4 DEF CacheNext, HeldAt

LEMMA ClockStep ==
    ASSUME CacheTypeOK, [CacheNext]_cacheVars
    PROVE  now' >= now /\ (CacheTick \/ now' = now)
  <1>1. now \in Nat
    BY RefCacheAssumption DEF CacheTypeOK, Time
  <1>2. CASE CacheTick
    BY <1>1, <1>2 DEF CacheTick
  <1>3. CASE now' = now
    BY <1>1, <1>3
  <1>4. (\E w \in Writer : \/ \E x \in Session, y \in Kind : Apply(w, x, y)
                           \/ \E x \in Session : ActivateTrial(w, x)
                           \/ Invalidate(w) \/ Lose(w) \/ OpenSession(w))
        => now' = now
    BY DEF Apply, ActivateTrial, Invalidate, Lose, OpenSession
  <1>5. (\E r \in Reader : (\E x \in Session, y \in Kind : Lookup(r, x, y))
                            \/ Fetch(r) \/ Store(r) \/ Return(r)) \/ TariffEnds \/ UNCHANGED cacheVars
        => now' = now
    BY DEF Lookup, Fetch, Store, Return, TariffEnds, cacheVars
  <1>6. CacheTick \/ now' = now
    BY <1>4, <1>5 DEF CacheNext
  <1>7. QED
    BY <1>2, <1>3, <1>6

LEMMA ReplacedStep == CacheTypeOK /\ ReplacedInv /\ [CacheNext]_cacheVars => ReplacedInv'
  <1> SUFFICES ASSUME CacheTypeOK, ReplacedInv, [CacheNext]_cacheVars, NEW k \in Kind, NEW v \in Version,
                      replaced'[k][v] # None
               PROVE  v < data'[k]
    BY DEF ReplacedInv
  <1>1. data[k] \in Nat /\ v \in Nat /\ (replaced[k][v] # None => v < data[k])
    BY RefCacheAssumption DEF CacheTypeOK, Version, ReplacedInv
  <1>2. CASE data' = data /\ replaced' = replaced
    BY <1>1, <1>2
  <1>3. ASSUME NEW w \in Writer, NEW x \in Session, NEW y \in Kind, Apply(w, x, y)
        PROVE  v < data'[k]
    <2>1. CASE y = k
      <3>1. data'[k] = data[k] + 1
        BY <1>3, <2>1 DEF Apply, CacheTypeOK
      <3>2. v = data[k] \/ replaced'[k][v] = replaced[k][v]
        BY <1>3, <2>1 DEF Apply, CacheTypeOK
      <3>3. QED
        BY <1>1, <3>1, <3>2
    <2>2. CASE y # k
      <3>1. data'[k] = data[k] /\ replaced'[k] = replaced[k]
        BY <1>3, <2>2 DEF Apply, CacheTypeOK
      <3>2. QED
        BY <1>1, <3>1
    <2>3. QED
      BY <2>1, <2>2
  <1>4. ASSUME NEW w \in Writer, \/ \E x \in Session : ActivateTrial(w, x)
                                \/ Invalidate(w) \/ Lose(w) \/ OpenSession(w)
        PROVE  data' = data /\ replaced' = replaced
    BY <1>4 DEF ActivateTrial, Invalidate, Lose, OpenSession
  <1>5. (\E r \in Reader : (\E x \in Session, y \in Kind : Lookup(r, x, y))
                            \/ Fetch(r) \/ Store(r) \/ Return(r)) \/ TariffEnds \/ CacheTick \/ UNCHANGED cacheVars
        => data' = data /\ replaced' = replaced
    BY DEF Lookup, Fetch, Store, Return, TariffEnds, CacheTick, cacheVars
  <1>6. QED
    BY <1>2, <1>3, <1>4, <1>5 DEF CacheNext

LEMMA ReadAgeStep ==
    CacheTypeOK /\ CacheTypeOK' /\ FetchInv /\ AgeInv /\ [CacheNext]_cacheVars => ReadAge'
  <1> SUFFICES ASSUME CacheTypeOK, CacheTypeOK', FetchInv, AgeInv, [CacheNext]_cacheVars, NEW q \in Reader
               PROVE  ReadAge!(q)'
    BY DEF ReadAge
  <1>1. ReadAge!(q)
    BY DEF AgeInv, ReadAge
  <1>2. rd[q] \in Read /\ rd \in [Reader -> Read]
    BY DEF CacheTypeOK
  <1>3. /\ now \in Nat /\ now' \in Nat /\ rd[q].at \in Nat
        /\ TTL \in Nat \ {0} /\ Latency \in Nat
    BY <1>2, RefCacheAssumption DEF CacheTypeOK, Time, Read
  <1>4. now' >= now
    BY ClockStep
  \* The step leaves the read alone: the clock may go on, or a version be replaced.
  <1>5. CASE rd'[q] = rd[q]
    <2>1. rd'[q].at <= now'
      BY <1>1, <1>3, <1>4, <1>5
    <2>2. rd'[q].pc = "fetched" => now' <= rd'[q].at + Latency
      <3>1. CASE CacheTick
        BY <1>2, <1>3, <1>5, <3>1 DEF CacheTick
      <3>2. CASE ~CacheTick
        <4>1. now' = now
          BY <3>2, ClockStep
        <4>2. QED
          BY <1>1, <1>5, <4>1
      <3>3. QED
        BY <3>1, <3>2
    <2>3. ASSUME rd[q].pc = "fetched", rd[q].val \in Version
          PROVE  HeldAt(rd[q].k, rd[q].val, rd[q].at, 0)'
      <3> DEFINE k == rd[q].k
                 v == rd[q].val
                 a == rd[q].at
      <3>1. k \in Kind /\ v \in Version /\ a \in Nat /\ a <= now + 0 /\ HeldAt(k, v, a, 0)
        BY <1>1, <1>3, <2>3
      <3>2. k' = k /\ v' = v /\ a' = a
        BY <1>5
      <3>3. replaced'[k][v] = None \/ a <= replaced'[k][v] + 0
        <4> HIDE DEF k, v, a
        <4>1. QED
          BY <3>1, HeldStep DEF HeldAt
      <3>4. QED
        BY <3>2, <3>3 DEF HeldAt
    <2>4. ASSUME rd[q].pc = "done", rd[q].val \in Version
          PROVE  HeldAt(rd[q].k, rd[q].val, rd[q].at + 1, TTL + Latency)'
      <3> DEFINE k == rd[q].k
                 v == rd[q].val
                 a == rd[q].at
      <3>1. /\ k \in Kind /\ v \in Version /\ a + 1 \in Nat /\ TTL + Latency \in Nat
            /\ a + 1 <= now + (TTL + Latency) /\ HeldAt(k, v, a + 1, TTL + Latency)
        BY <1>1, <1>3, <2>4
      <3>2. k' = k /\ v' = v /\ a' = a
        BY <1>5
      <3>3. replaced'[k][v] = None \/ a + 1 <= replaced'[k][v] + (TTL + Latency)
        <4> HIDE DEF k, v, a
        <4>1. QED
          BY <3>1, HeldStep DEF HeldAt
      <3>4. QED
        BY <3>2, <3>3 DEF HeldAt
    <2>5. QED
      BY <1>1, <1>5, <2>1, <2>2, <2>3, <2>4
  <1>6. ASSUME NEW s \in Session, NEW k \in Kind, Lookup(q, s, k) PROVE ReadAge!(q)'
    <2>1. CASE ~Fresh(cache[s][k])
      <3>1. rd'[q].pc = "missed" /\ rd'[q].k = k /\ rd'[q].at = 0
        BY <1>2, <1>6, <2>1 DEF Lookup
      <3>2. QED
        BY <1>3, <3>1
    <2>2. CASE Fresh(cache[s][k])
      <3>1. rd'[q] = [IdleRead EXCEPT !.pc = "done", !.s = s, !.k = k,
                                      !.val = cache[s][k].val, !.at = now]
        BY <1>2, <1>6, <2>2 DEF Lookup
      <3>2. now' = now /\ replaced' = replaced
        BY <1>6 DEF Lookup
      <3>3. /\ cache[s][k] # None /\ now - cache[s][k].at < TTL
        BY <2>2 DEF Fresh
      <3>4. /\ cache[s][k].at <= now /\ cache[s][k].at \in Nat
            /\ cache[s][k].val \in Version => HeldAt(k, cache[s][k].val, cache[s][k].at, Latency)
        BY <3>3, RefCacheAssumption DEF AgeInv, CacheAge, CacheTypeOK, Entry, Time
      <3>5. ASSUME cache[s][k].val \in Version
            PROVE  \/ replaced[k][cache[s][k].val] = None
                   \/ now + 1 <= replaced[k][cache[s][k].val] + (TTL + Latency)
        <4>1. replaced[k][cache[s][k].val] \in Nat \cup {None}
          BY <3>5, RefCacheAssumption DEF CacheTypeOK, Time
        <4>2. QED
          BY <1>3, <3>3, <3>4, <3>5, <4>1 DEF HeldAt
      <3>6. /\ rd'[q].pc = "done" /\ rd'[q].k = k /\ rd'[q].at = now
            /\ rd'[q].val = cache[s][k].val
        BY <3>1 DEF IdleRead
      <3>7. QED
        BY <1>3, <3>2, <3>5, <3>6 DEF HeldAt
    <2>3. QED
      BY <2>1, <2>2
  <1>7. CASE Fetch(q)
    <2>1. rd[q].k \in Kind /\ data[rd[q].k] \in Version
      BY <1>1, <1>7 DEF Fetch, CacheTypeOK
    <2>2. Builtin \notin Version /\ Failure \notin Version
      BY RefCacheAssumption DEF Version
    <2>3. /\ rd'[q].k = rd[q].k /\ rd'[q].at = now
          /\ \/ rd'[q].pc = "done" /\ rd'[q].val = Failure
             \/ rd'[q].pc = "fetched" /\ rd'[q].val = Builtin
             \/ rd'[q].pc = "fetched" /\ rd'[q].val = data[rd[q].k]
      <3>1. PICK x \in Answers(rd[q].k), z \in BOOLEAN : rd' = [rd EXCEPT ![q] = Got(q, x, z)]
        BY <1>7, FetchAnswers
      <3>2. \/ x.pc = "done" /\ x.val = Failure
            \/ x.pc = "fetched" /\ x.val \in {Builtin, data[rd[q].k]}
        BY DEF Answers, NoData
      <3>3. QED
        BY <1>2, <3>1, <3>2 DEF Got, Read
    <2>4. now' = now /\ replaced' = replaced
      BY <1>7 DEF Fetch
    <2>5. replaced[rd[q].k][data[rd[q].k]] = None
      <3>1. ~(data[rd[q].k] < data[rd[q].k])
        BY <2>1, RefCacheAssumption DEF Version
      <3>2. QED
        BY <2>1, <3>1 DEF AgeInv, ReplacedInv
    <2>6. QED
      BY <1>3, <2>1, <2>2, <2>3, <2>4, <2>5 DEF HeldAt
  <1>8. CASE Store(q)
    <2>1. /\ rd'[q].pc = "done" /\ rd'[q].k = rd[q].k /\ rd'[q].val = rd[q].val
          /\ rd'[q].at = now
      BY <1>2, <1>8 DEF Store, Read
    <2>2. now' = now /\ replaced' = replaced /\ rd[q].pc = "fetched"
      BY <1>8 DEF Store
    <2>3. ASSUME rd[q].val \in Version
          PROVE  \/ replaced[rd[q].k][rd[q].val] = None
                 \/ now + 1 <= replaced[rd[q].k][rd[q].val] + (TTL + Latency)
      <3>1. rd[q].k \in Kind
        BY <1>1, <2>2
      <3>2. replaced[rd[q].k][rd[q].val] \in Nat \cup {None}
        BY <2>3, <3>1, RefCacheAssumption DEF CacheTypeOK, Time
      <3>3. QED
        BY <1>1, <1>3, <2>2, <2>3, <3>2 DEF HeldAt
    <2>4. QED
      BY <1>1, <1>3, <2>1, <2>2, <2>3 DEF HeldAt
  <1>9. CASE Return(q)
    <2>1. rd'[q].pc = "idle" /\ rd'[q].at = 0
      BY <1>2, <1>9 DEF Return, IdleRead
    <2>2. QED
      BY <1>3, <2>1
  <1>10. ASSUME NEW r \in Reader, r # q,
                (\E s \in Session, k \in Kind : Lookup(r, s, k)) \/ Fetch(r) \/ Store(r) \/ Return(r)
         PROVE  rd'[q] = rd[q]
    BY <1>2, <1>10 DEF Lookup, Fetch, Store, Return
  <1>11. (\E w \in Writer : \/ \E s \in Session, k \in Kind : Apply(w, s, k)
                            \/ \E s \in Session : ActivateTrial(w, s)
                            \/ Invalidate(w) \/ Lose(w) \/ OpenSession(w)) \/ TariffEnds \/ CacheTick \/ UNCHANGED cacheVars
         => rd' = rd
    BY DEF Apply, ActivateTrial, Invalidate, Lose, OpenSession, TariffEnds, CacheTick, cacheVars
  <1>12. QED
    BY <1>5, <1>6, <1>7, <1>8, <1>9, <1>10, <1>11 DEF CacheNext

LEMMA CacheAgeStep ==
    CacheTypeOK /\ CacheTypeOK' /\ WriteInv /\ FetchInv /\ AgeInv /\ [CacheNext]_cacheVars => CacheAge'
  <1> SUFFICES ASSUME CacheTypeOK, CacheTypeOK', WriteInv, FetchInv, AgeInv, [CacheNext]_cacheVars,
                      NEW s \in Session, NEW k \in Kind, cache'[s][k] # None
               PROVE  /\ cache'[s][k].at <= now'
                      /\ cache'[s][k].val \in Version =>
                             \/ replaced'[k][cache'[s][k].val] = None
                             \/ cache'[s][k].at <= replaced'[k][cache'[s][k].val] + Latency
    BY DEF CacheAge, HeldAt
  <1>1. /\ now \in Nat /\ now' \in Nat /\ Latency \in Nat /\ now' >= now
    BY ClockStep, RefCacheAssumption DEF CacheTypeOK, Time
  <1>2. ASSUME cache'[s][k] = cache[s][k]
        PROVE  /\ cache[s][k].at <= now'
               /\ cache[s][k].val \in Version =>
                      \/ replaced'[k][cache[s][k].val] = None
                      \/ cache[s][k].at <= replaced'[k][cache[s][k].val] + Latency
    <2> DEFINE v == cache[s][k].val
               a == cache[s][k].at
    <2>1. a \in Nat /\ a <= now /\ (v \in Version => HeldAt(k, v, a, Latency))
      BY <1>2, RefCacheAssumption DEF AgeInv, CacheAge, CacheTypeOK, Entry, Time
    <2>2. a <= now + Latency
      BY <1>1, <2>1
    <2>3. v \in Version => replaced'[k][v] = None \/ a <= replaced'[k][v] + Latency
      <3> HIDE DEF v, a
      <3>1. QED
        BY <1>1, <2>1, <2>2, HeldStep DEF HeldAt
    <2>4. QED
      BY <1>1, <2>1, <2>3
  <1>3. ASSUME NEW r \in Reader, Store(r), rd[r].s = s, rd[r].k = k
        PROVE  /\ cache'[s][k].at <= now'
               /\ cache'[s][k].val \in Version =>
                      \/ replaced'[k][cache'[s][k].val] = None
                      \/ cache'[s][k].at <= replaced'[k][cache'[s][k].val] + Latency
    <2>1. cache'[s][k] = [val |-> rd[r].val, at |-> now, born |-> rd[r].born,
                         kept |-> epoch[s], shut |-> rd[r].shut]
      BY <1>3 DEF Store, CacheTypeOK
    <2>2. cache'[s][k].val = rd[r].val /\ cache'[s][k].at = now
      BY <2>1
    <2>3. now' = now /\ replaced' = replaced /\ rd[r].pc = "fetched"
      BY <1>3 DEF Store
    <2>4. /\ now <= rd[r].at + Latency /\ rd[r].at \in Nat
          /\ rd[r].val \in Version => HeldAt(k, rd[r].val, rd[r].at, 0)
      BY <1>3, <2>3, RefCacheAssumption DEF AgeInv, ReadAge, CacheTypeOK, Read, Time
    <2>5. rd[r].val \in Version => replaced[k][rd[r].val] \in Nat \cup {None}
      BY RefCacheAssumption DEF CacheTypeOK, Time
    <2>6. QED
      BY <1>1, <2>2, <2>3, <2>4, <2>5 DEF HeldAt
  <1>4. QED
    BY <1>2, <1>3, CachePlace

\* No interleaving of reads, changes of any session and lost answers makes a read
\* return data that was replaced a life in the cache and a timeout ago.
THEOREM BoundedStalenessAlways == CacheSpec => []BoundedStaleness
  <1>1. CacheInit => AgeInv
    BY RefCacheAssumption
       DEF CacheInit, AgeInv, ReplacedInv, ReadAge, CacheAge, IdleRead
  <1>2. CacheTypeOK /\ CacheTypeOK' /\ WriteInv /\ FetchInv /\ AgeInv /\ [CacheNext]_cacheVars => AgeInv'
    BY ReplacedStep, ReadAgeStep, CacheAgeStep DEF AgeInv
  <1>3. CacheIInv => CacheTypeOK /\ WriteInv /\ FetchInv
    BY DEF CacheIInv
  <1>4. CacheTypeOK /\ AgeInv => BoundedStaleness
    <2> SUFFICES ASSUME CacheTypeOK, AgeInv, NEW r \in Reader,
                        rd[r].pc = "done", rd[r].val \in Version,
                        replaced[rd[r].k][rd[r].val] # None
                 PROVE  rd[r].at < replaced[rd[r].k][rd[r].val] + TTL + Latency
      BY DEF BoundedStaleness
    <2>1. rd[r].k \in Kind /\ rd[r].at + 1 <= replaced[rd[r].k][rd[r].val] + (TTL + Latency)
      BY DEF AgeInv, ReadAge, HeldAt
    <2>2. /\ rd[r].at \in Nat /\ replaced[rd[r].k][rd[r].val] \in Nat
          /\ TTL \in Nat /\ Latency \in Nat
      BY <2>1, RefCacheAssumption DEF CacheTypeOK, Read, Time
    <2>3. QED
      BY <2>1, <2>2
  <1>5. QED
    BY <1>1, <1>2, <1>3, <1>4, CacheInvariant, PTL DEF CacheSpec
=============================================================================
