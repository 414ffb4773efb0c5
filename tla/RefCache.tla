------------------------------ MODULE RefCache ------------------------------
(***************************************************************************)
(* The reference data a session caches (internal/session/session.go):      *)
(* document categories, roles, tags, fields and groups of the company, one *)
(* cache per session, filled on demand and dropped by Invalidate when a    *)
(* tool of the session has changed something.                              *)
(*                                                                         *)
(* The data at Vchasno is a version number per kind.  The mutex of the     *)
(* session is held inside an action and never across a request, so that    *)
(* readers, writers and the clock interleave between the steps of a read.  *)
(*                                                                         *)
(* Where ApiClient, the other part of a session, has the same name, the    *)
(* name here begins with "Cache": SessionProofs extends both.              *)
(***************************************************************************)
EXTENDS Naturals, FiniteSets

CONSTANTS Session,    \* sessions of one company
          Kind,       \* kinds of reference data
          Merged,     \* kinds merged over built-in ones: a failed fetch is no error
          Deferred,   \* kinds whose tools Invalidate even when they fail
          Reader,     \* tool calls that read reference data
          Writer,     \* tool calls that change it
          Builtin,    \* only the built-in data
          Failure,    \* an error instead of data
          None,
          TTL,        \* refTTL, in ticks
          Latency,    \* the longest an answer of Vchasno is under way, in ticks
          MaxTime, MaxVer   \* bounds on the clock and on changes of a kind

ASSUME RefCacheAssumption ==
    /\ Merged \subseteq Kind /\ Deferred \subseteq Kind
    /\ TTL \in Nat \ {0} /\ Latency \in Nat /\ MaxTime \in Nat /\ MaxVer \in Nat
    /\ None \notin Session \cup Kind
    /\ Builtin \notin Nat \cup {Failure, None} /\ Failure \notin Nat \cup {None} /\ None \notin Nat

VARIABLES data,       \* data[k]: the version at Vchasno
          replaced,   \* replaced[k][v]: when version v was replaced, or None
          tariff,     \* the company's integration tariff; a trial is given once
          open,       \* open[s]: Session.APIOpen
          cache,      \* cache[s][k]: value and the time it was stored, or None
          rd,         \* rd[r]: a read under way, or just finished
          wr,         \* wr[w]: a change under way
          now,
          epoch,      \* history: how often s was invalidated,
          floor       \* ... and what Vchasno held then

cacheVars == <<data, replaced, tariff, open, cache, rd, wr, now, epoch, floor>>

Version == 0 .. MaxVer
Value   == Version \cup {Builtin}
Time    == 0 .. MaxTime

Tariff  == {"none", "active", "over"}

\* History: born, the epoch in which the fetch of the value began; kept, the epoch
\* in which it was stored; shut, whether Vchasno was not asked for it, because the
\* session was closed.
Entry == [val : Value, at : Time, born : Nat, kept : Nat, shut : BOOLEAN]

\* shut, until the value is there: was the session closed when the lock was held?
IdleRead == [pc |-> "idle", s |-> None, k |-> None, val |-> None, at |-> 0, born |-> 0, shut |-> FALSE]
Read == [pc : {"idle", "missed", "fetched", "done"}, s : Session \cup {None}, k : Kind \cup {None},
         val : Value \cup {Failure, None}, at : Time, born : Nat, shut : BOOLEAN]

IdleWrite == [pc |-> "idle", s |-> None, k |-> None]
Write == [pc : {"idle", "applied", "trial", "opened"}, s : Session \cup {None}, k : Kind \cup {None}]

CacheInit == /\ data = [k \in Kind |-> 0]
             /\ replaced = [k \in Kind |-> [v \in Version |-> None]]
             /\ tariff \in Tariff
             /\ open = [s \in Session |-> tariff = "active"]
             /\ cache = [s \in Session |-> [k \in Kind |-> None]]
             /\ rd = [r \in Reader |-> IdleRead]
             /\ wr = [w \in Writer |-> IdleWrite]
             /\ now = 0
             /\ epoch = [s \in Session |-> 0]
             /\ floor = [s \in Session |-> data]

-----------------------------------------------------------------------------
\* Categories, Roles, Tags, Fields, Groups: an entry younger than the TTL is the
\* answer; otherwise the lock is released and Vchasno is asked.  Only the merged
\* kinds are read on a session whose API is closed.

FreshForever(e) == e # None          \* mutant: the age is not looked at

Fresh(e) == e # None /\ now - e.at < TTL


Lookup(r, s, k) ==
    /\ rd[r].pc = "idle" /\ (open[s] \/ k \in Merged)
    /\ LET e == cache[s][k] IN rd' = [rd EXCEPT ![r] =
         IF Fresh(e) THEN [IdleRead EXCEPT !.pc = "done", !.s = s, !.k = k, !.val = e.val, !.at = now]
         ELSE [pc |-> "missed", s |-> s, k |-> k, val |-> None, at |-> 0,
               born |-> epoch[s], shut |-> ~open[s]]]
    /\ UNCHANGED <<data, replaced, tariff, open, cache, wr, now, epoch, floor>>

\* Vchasno answers, or the request fails.  On a closed session the merged kinds
\* are not asked for at all; in both cases they come out as the built-in data.
\* APIOpen is read without the lock: it may be what it was under the lock.
NoData(k) == IF k \in Merged THEN [pc |-> "fetched", val |-> Builtin]
             ELSE [pc |-> "done", val |-> Failure]

Asked(k) == {NoData(k)} \cup (IF tariff = "active" THEN {[pc |-> "fetched", val |-> data[k]]} ELSE {})

Got(r, x, closed) == [rd[r] EXCEPT !.pc = x.pc, !.val = x.val, !.at = now, !.shut = closed]

Fetch(r) ==
    /\ rd[r].pc = "missed"
    /\ \/ /\ open[rd[r].s]
          /\ \E x \in Asked(rd[r].k) : rd' = [rd EXCEPT ![r] = Got(r, x, FALSE)]
       \/ /\ rd[r].shut
          /\ rd' = [rd EXCEPT ![r] = Got(r, NoData(rd[r].k), TRUE)]
    /\ UNCHANGED <<data, replaced, tariff, open, cache, wr, now, epoch, floor>>

\* The answer arrives; it is cached as of now and returned.
Store(r) ==
    /\ rd[r].pc = "fetched"
    /\ cache' = [cache EXCEPT ![rd[r].s][rd[r].k] =
           [val |-> rd[r].val, at |-> now, born |-> rd[r].born,
            kept |-> epoch[rd[r].s], shut |-> rd[r].shut]]
    /\ rd' = [rd EXCEPT ![r].pc = "done", ![r].at = now]
    /\ UNCHANGED <<data, replaced, tariff, open, wr, now, epoch, floor>>

Return(r) ==
    /\ rd[r].pc = "done"
    /\ rd' = [rd EXCEPT ![r] = IdleRead]
    /\ UNCHANGED <<data, replaced, tariff, open, cache, wr, now, epoch, floor>>

-----------------------------------------------------------------------------
\* A tool changes something at Vchasno and then invalidates its own session.

Apply(w, s, k) ==
    /\ wr[w].pc = "idle" /\ open[s] /\ tariff = "active" /\ data[k] < MaxVer
    /\ data' = [data EXCEPT ![k] = @ + 1]
    /\ replaced' = [replaced EXCEPT ![k][data[k]] = now]
    /\ wr' = [wr EXCEPT ![w] = [pc |-> "applied", s |-> s, k |-> k]]
    /\ UNCHANGED <<tariff, open, cache, rd, now, epoch, floor>>

InvalidateOne(w) ==                  \* mutant: only the changed kind is dropped
    /\ wr[w].pc \in {"applied", "opened"}
    /\ cache' = [cache EXCEPT ![wr[w].s] = [k \in Kind |-> IF k = wr[w].k THEN None ELSE @[k]]]
    /\ epoch' = [epoch EXCEPT ![wr[w].s] = @ + 1]
    /\ floor' = [floor EXCEPT ![wr[w].s] = data]
    /\ wr' = [wr EXCEPT ![w] = IdleWrite]
    /\ UNCHANGED <<data, replaced, tariff, open, rd, now>>

Invalidate(w) ==
    /\ wr[w].pc \in {"applied", "opened"}
    /\ cache' = [cache EXCEPT ![wr[w].s] = [k \in Kind |-> None]]
    /\ epoch' = [epoch EXCEPT ![wr[w].s] = @ + 1]
    /\ floor' = [floor EXCEPT ![wr[w].s] = data]
    /\ wr' = [wr EXCEPT ![w] = IdleWrite]
    /\ UNCHANGED <<data, replaced, tariff, open, rd, now>>

\* The answer to the change is lost: most tools return the error and leave the
\* cache alone, those that defer Invalidate do not.
Lose(w) ==
    /\ wr[w].pc \in {"applied", "trial"} /\ wr[w].k \notin Deferred
    /\ wr' = [wr EXCEPT ![w] = IdleWrite]
    /\ UNCHANGED <<data, replaced, tariff, open, cache, rd, now, epoch, floor>>

\* activate_integration_trial: Vchasno opens the API, once; the tool then opens its
\* session and invalidates it.
ActivateTrial(w, s) ==
    /\ wr[w].pc = "idle" /\ tariff = "none"
    /\ tariff' = "active"
    /\ wr' = [wr EXCEPT ![w] = [pc |-> "trial", s |-> s, k |-> None]]
    /\ UNCHANGED <<data, replaced, open, cache, rd, now, epoch, floor>>

OpenOnly(w) ==                       \* mutant: the session opens and is not invalidated
    /\ wr[w].pc = "trial"
    /\ open' = [open EXCEPT ![wr[w].s] = TRUE]
    /\ wr' = [wr EXCEPT ![w] = IdleWrite]
    /\ UNCHANGED <<data, replaced, tariff, cache, rd, now, epoch, floor>>

OpenSession(w) ==
    /\ wr[w].pc = "trial"
    /\ open' = [open EXCEPT ![wr[w].s] = TRUE]
    /\ wr' = [wr EXCEPT ![w].pc = "opened"]
    /\ UNCHANGED <<data, replaced, tariff, cache, rd, now, epoch, floor>>

\* The tariff runs out at Vchasno; no session is told.
TariffEnds ==
    /\ tariff = "active"
    /\ tariff' = "over"
    /\ UNCHANGED <<data, replaced, open, cache, rd, wr, now, epoch, floor>>

\* Time passes, but an answer is never under way for longer than the timeout
\* of a request.
CacheTick == /\ now < MaxTime
             /\ \A r \in Reader : rd[r].pc = "fetched" => now - rd[r].at < Latency
             /\ now' = now + 1
             /\ UNCHANGED <<data, replaced, tariff, open, cache, rd, wr, epoch, floor>>

CacheNext == \/ \E r \in Reader : \/ \E s \in Session, k \in Kind : Lookup(r, s, k)
                                  \/ Fetch(r) \/ Store(r) \/ Return(r)
             \/ \E w \in Writer : \/ \E s \in Session, k \in Kind : Apply(w, s, k)
                                  \/ \E s \in Session : ActivateTrial(w, s)
                                  \/ Invalidate(w) \/ Lose(w) \/ OpenSession(w)
             \/ TariffEnds \/ CacheTick

CacheSpec == CacheInit /\ [][CacheNext]_cacheVars

-----------------------------------------------------------------------------
(* Properties *)

CacheTypeOK == /\ data \in [Kind -> Version]
               /\ replaced \in [Kind -> [Version -> Time \cup {None}]]
               /\ tariff \in Tariff
               /\ open \in [Session -> BOOLEAN]
               /\ cache \in [Session -> [Kind -> Entry \cup {None}]]
               /\ rd \in [Reader -> Read]
               /\ wr \in [Writer -> Write]
               /\ now \in Time
               /\ epoch \in [Session -> Nat]
               /\ floor \in [Session -> [Kind -> Version]]

\* What is in the cache was stored after the last Invalidate, which drops all
\* kinds; and it is older than what Vchasno held at that Invalidate only if the
\* request that brought it was already under way by then.
StaleOnlyByRace == \A s \in Session, k \in Kind :
    cache[s][k] # None /\ cache[s][k].val \in Version =>
        /\ cache[s][k].kept = epoch[s]
        /\ cache[s][k].val < floor[s][k] => cache[s][k].born < epoch[s]

\* What a session was content with while it was closed does not outlast its opening:
\* once APIOpen is set and Invalidate is done, such an entry comes only of a read that
\* was already under way, whichever value of APIOpen it has seen.
OpenedAfresh == \A s \in Session, k \in Kind :
    /\ open[s] /\ cache[s][k] # None /\ cache[s][k].shut
    /\ \A w \in Writer : ~(wr[w].pc = "opened" /\ wr[w].s = s)
    => cache[s][k].born < epoch[s]

\* However reads, writes of this or another session, lost answers and Invalidate
\* interleave, no read returns data that was replaced TTL + Latency ago.
BoundedStaleness == \A r \in Reader :
    rd[r].pc = "done" /\ rd[r].val \in Version =>
        LET t == replaced[rd[r].k][rd[r].val] IN t = None \/ rd[r].at < t + TTL + Latency

=============================================================================
