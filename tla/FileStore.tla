----------------------------- MODULE FileStore -----------------------------
(***************************************************************************)
(* The download store, internal/filestore/store.go.  A tool Puts a file    *)
(* and hands out a link; GET /files/{id} Opens it; a janitor Sweeps what   *)
(* has expired.  The registry is in memory, the files are in a directory   *)
(* that outlives the process: New empties it first.                        *)
(*                                                                         *)
(* One action is one step between two points where another goroutine, the  *)
(* clock or the end of the process can come in: the mutex is held inside a *)
(* step, file operations are steps of their own.                           *)
(***************************************************************************)
EXTENDS Naturals, FiniteSets

CONSTANTS Proc,      \* the processes that use the same directory
          Ids,       \* the random ids; each is drawn once (256 bits)
          Foreign,   \* files in the directory that no store wrote
          Caller,    \* goroutines serving GET /files/{id}
          None,
          TTL,       \* lifetime of a link, in ticks
          MaxTime,   \* bound on the clock
          MaxStops,  \* bound on process ends
          FsFaults   \* may file operations fail?

ASSUME FileStoreAssumption ==
    /\ None \notin Proc \cup Ids
    /\ Ids \cap Foreign = {}
    /\ TTL \in Nat \ {0} /\ MaxTime \in Nat /\ MaxStops \in Nat
    /\ FsFaults \in BOOLEAN

VARIABLES up,        \* up[p]: "down", "clearing" (in New) or "up"
          todo,      \* todo[p]: the directory listing New has still to remove
          sweepAt,   \* sweepAt[p]: the time a Sweep in progress has read, or None
          owner,     \* owner[id]: the process that drew id, or None
          phase,     \* phase[id]: where id is in its life
          expires,   \* expires[id]: Entry.Expires, 0 before it is computed
          disk,      \* the names in the directory
          call,      \* call[c]: the Open in progress or just answered
          now,       \* the clock
          stops,     \* how many times a process has ended
          seen       \* history: was the asked link live / not live during call c

code == <<up, todo, sweepAt, owner, phase, expires, disk, call, now, stops>>
vars == <<up, todo, sweepAt, owner, phase, expires, disk, call, now, stops, seen>>

\* written: on disk, not registered; stamped: its expiry is computed; held: in
\* s.entries; swept / forgotten: taken out of s.entries by Sweep / Forget, file
\* not yet removed; removed: a swept id whose file Sweep is done with; gone: a
\* forgotten id, a failed Put or an id of a process that has ended.
Phase == {"unused", "written", "stamped", "held", "swept", "forgotten", "removed", "gone"}
Idle  == [pc |-> "idle", id |-> None, proc |-> None]
Call  == [pc : {"idle", "found", "fresh", "yes", "no"},
          id : Ids \cup {None}, proc : Proc \cup {None}]

TypeOK == /\ up \in [Proc -> {"down", "clearing", "up"}]
          /\ todo \in [Proc -> SUBSET (Ids \cup Foreign)]
          /\ sweepAt \in [Proc -> Nat \cup {None}]
          /\ owner \in [Ids -> Proc \cup {None}]
          /\ phase \in [Ids -> Phase]
          /\ expires \in [Ids -> Nat]
          /\ disk \subseteq Ids \cup Foreign
          /\ call \in [Caller -> Call]
          /\ now \in Nat /\ stops \in Nat
          /\ seen \in [Caller -> [live : BOOLEAN, dead : BOOLEAN]]
          /\ \A p \in Proc : todo[p] # {} => up[p] = "clearing"
          /\ \A p \in Proc : sweepAt[p] # None => up[p] = "up" /\ sweepAt[p] <= now

Init == /\ up = [p \in Proc |-> "down"]
        /\ todo = [p \in Proc |-> {}]
        /\ sweepAt = [p \in Proc |-> None]
        /\ owner = [id \in Ids |-> None]
        /\ phase = [id \in Ids |-> "unused"]
        /\ expires = [id \in Ids |-> 0]
        /\ disk = Foreign
        /\ call = [c \in Caller |-> Idle]
        /\ now = 0 /\ stops = 0
        /\ seen = [c \in Caller |-> [live |-> FALSE, dead |-> FALSE]]

Expired(id, t) == t > expires[id]          \* time.Now().After(e.Expires)

\* The links that have to work: registered, not forgotten, not expired, their
\* process running.  (An id that Sweep takes is not excused: it must be expired.)
LiveIds == {id \in Ids : phase[id] \in {"held", "swept", "removed"} /\ ~Expired(id, now)}

-----------------------------------------------------------------------------
\* New: list the directory, remove what is listed, one file after another.
\* A directory that cannot be read is left as it is.

StartKeepingFiles(p) ==      \* mutant: clearDir is not called
    /\ up[p] = "down"
    /\ up' = [up EXCEPT ![p] = "clearing"]
    /\ UNCHANGED <<todo, sweepAt, owner, phase, expires, disk, call, now, stops>>

Start(p) ==
    /\ up[p] = "down"
    /\ up' = [up EXCEPT ![p] = "clearing"]
    /\ \/ todo' = [todo EXCEPT ![p] = disk]
       \/ FsFaults /\ todo' = [todo EXCEPT ![p] = {}]
    /\ UNCHANGED <<sweepAt, owner, phase, expires, disk, call, now, stops>>

\* os.Remove of n: gone afterwards, unless it fails.
Unlink(n) == \/ disk' = disk \ {n}
             \/ FsFaults /\ UNCHANGED disk

ClearOne(p, n) ==
    /\ up[p] = "clearing" /\ n \in todo[p]
    /\ todo' = [todo EXCEPT ![p] = @ \ {n}]
    /\ Unlink(n)
    /\ UNCHANGED <<up, sweepAt, owner, phase, expires, call, now, stops>>

ReadyBeforeCleared(p) ==     \* mutant: New does not wait for the clearing
    /\ up[p] = "clearing"
    /\ up' = [up EXCEPT ![p] = "up"]
    /\ UNCHANGED <<todo, sweepAt, owner, phase, expires, disk, call, now, stops>>

Ready(p) ==
    /\ up[p] = "clearing" /\ todo[p] = {}
    /\ up' = [up EXCEPT ![p] = "up"]
    /\ UNCHANGED <<todo, sweepAt, owner, phase, expires, disk, call, now, stops>>

\* The process ends, whatever it was doing: registry, goroutines and the Puts
\* under way are lost, the directory stays.
Stop(p) ==
    /\ up[p] # "down" /\ stops < MaxStops
    /\ up' = [up EXCEPT ![p] = "down"]
    /\ todo' = [todo EXCEPT ![p] = {}]
    /\ sweepAt' = [sweepAt EXCEPT ![p] = None]
    /\ phase' = [id \in Ids |-> IF owner[id] = p THEN "gone" ELSE phase[id]]
    /\ call' = [c \in Caller |-> IF call[c].proc = p THEN Idle ELSE call[c]]
    /\ stops' = stops + 1
    /\ UNCHANGED <<owner, expires, disk, now>>

-----------------------------------------------------------------------------
\* Put: draw an id, write the file, compute the expiry, register.  A write
\* that fails may leave a file that nothing will ever refer to.

PutWrite(p, id) ==
    /\ up[p] = "up" /\ phase[id] = "unused"
    /\ owner' = [owner EXCEPT ![id] = p]
    /\ \/ /\ phase' = [phase EXCEPT ![id] = "written"]
          /\ disk' = disk \cup {id}
       \/ /\ FsFaults
          /\ phase' = [phase EXCEPT ![id] = "gone"]
          /\ disk' \in {disk, disk \cup {id}}
    /\ UNCHANGED <<up, todo, sweepAt, expires, call, now, stops>>

PutStamp(id) ==
    /\ phase[id] = "written"
    /\ phase' = [phase EXCEPT ![id] = "stamped"]
    /\ expires' = [expires EXCEPT ![id] = now + TTL]
    /\ UNCHANGED <<up, todo, sweepAt, owner, disk, call, now, stops>>

PutRegister(id) ==
    /\ phase[id] = "stamped"
    /\ phase' = [phase EXCEPT ![id] = "held"]
    /\ UNCHANGED <<up, todo, sweepAt, owner, expires, disk, call, now, stops>>

-----------------------------------------------------------------------------
\* Open: look the id up under the lock, then look at the clock, then read the
\* file.  A link names the process that issued it.

OpenLookup(c, p, id) ==
    /\ up[p] = "up" /\ call[c] = Idle /\ owner[id] \in {p, None}
    /\ call' = [call EXCEPT ![c] =
           [pc |-> IF phase[id] = "held" THEN "found" ELSE "no", id |-> id, proc |-> p]]
    /\ UNCHANGED <<up, todo, sweepAt, owner, phase, expires, disk, now, stops>>

OpenCheckNoClock(c) ==       \* mutant: the expiry is not looked at
    /\ call[c].pc = "found"
    /\ call' = [call EXCEPT ![c].pc = "fresh"]
    /\ UNCHANGED <<up, todo, sweepAt, owner, phase, expires, disk, now, stops>>

OpenCheck(c) ==
    /\ call[c].pc = "found"
    /\ call' = [call EXCEPT ![c].pc = IF Expired(call[c].id, now) THEN "no" ELSE "fresh"]
    /\ UNCHANGED <<up, todo, sweepAt, owner, phase, expires, disk, now, stops>>

OpenReadSliding(c) ==        \* mutant: a successful Open renews the lifetime
    /\ call[c].pc = "fresh"
    /\ call' = [call EXCEPT ![c].pc = IF call[c].id \in disk THEN "yes" ELSE "no"]
    /\ expires' = [expires EXCEPT ![call[c].id] = now + TTL]
    /\ UNCHANGED <<up, todo, sweepAt, owner, phase, disk, now, stops>>

OpenRead(c) ==
    /\ call[c].pc = "fresh"
    /\ \/ call' = [call EXCEPT ![c].pc = IF call[c].id \in disk THEN "yes" ELSE "no"]
       \/ FsFaults /\ call' = [call EXCEPT ![c].pc = "no"]
    /\ UNCHANGED <<up, todo, sweepAt, owner, phase, expires, disk, now, stops>>

\* The handler has written its response.
Respond(c) ==
    /\ call[c].pc \in {"yes", "no"}
    /\ call' = [call EXCEPT ![c] = Idle]
    /\ UNCHANGED <<up, todo, sweepAt, owner, phase, expires, disk, now, stops>>

-----------------------------------------------------------------------------
\* Forget and Sweep take entries out of the registry under the lock and remove
\* the files after it.  Sweep reads the clock before it takes the lock.

Forget(id) ==
    /\ phase[id] = "held"
    /\ phase' = [phase EXCEPT ![id] = "forgotten"]
    /\ UNCHANGED <<up, todo, sweepAt, owner, expires, disk, call, now, stops>>

SweepStart(p) ==
    /\ up[p] = "up" /\ sweepAt[p] = None
    /\ sweepAt' = [sweepAt EXCEPT ![p] = now]
    /\ UNCHANGED <<up, todo, owner, phase, expires, disk, call, now, stops>>

StaleTooEarly(p, t) ==       \* mutant: a link is swept in its last tick
    {id \in Ids : owner[id] = p /\ phase[id] = "held" /\ t >= expires[id]}

StaleJustNow(p, t) ==        \* mutant: only what has expired since the last sweep
    {id \in Ids : owner[id] = p /\ phase[id] = "held" /\ t = expires[id] + 1}

Stale(p, t) == {id \in Ids : owner[id] = p /\ phase[id] = "held" /\ Expired(id, t)}

SweepCollect(p) ==
    /\ sweepAt[p] # None
    /\ phase' = [id \in Ids |-> IF id \in Stale(p, sweepAt[p]) THEN "swept" ELSE phase[id]]
    /\ sweepAt' = [sweepAt EXCEPT ![p] = None]
    /\ UNCHANGED <<up, todo, owner, expires, disk, call, now, stops>>

RemoveFile(id) ==
    /\ phase[id] \in {"swept", "forgotten"}
    /\ phase' = [phase EXCEPT ![id] = IF @ = "swept" THEN "removed" ELSE "gone"]
    /\ Unlink(id)
    /\ UNCHANGED <<up, todo, sweepAt, owner, expires, call, now, stops>>

Tick == /\ now < MaxTime
        /\ now' = now + 1
        /\ UNCHANGED <<up, todo, sweepAt, owner, phase, expires, disk, call, stops>>

-----------------------------------------------------------------------------

Step == \/ \E p \in Proc : \/ Start(p) \/ Ready(p) \/ Stop(p)
                           \/ SweepStart(p) \/ SweepCollect(p)
                           \/ \E n \in Ids \cup Foreign : ClearOne(p, n)
                           \/ \E id \in Ids : PutWrite(p, id)
                           \/ \E c \in Caller, id \in Ids : OpenLookup(c, p, id)
        \/ \E id \in Ids : PutStamp(id) \/ PutRegister(id) \/ Forget(id) \/ RemoveFile(id)
        \/ \E c \in Caller : OpenCheck(c) \/ OpenRead(c) \/ Respond(c)
        \/ Tick

\* History: what call c has seen of its link since it looked it up.
Observe == seen' = [c \in Caller |->
    IF call'[c].pc = "idle" THEN [live |-> FALSE, dead |-> FALSE]
    ELSE IF call[c].pc \in {"yes", "no"} THEN seen[c]
    ELSE [live |-> seen[c].live \/ call'[c].id \in LiveIds',
          dead |-> seen[c].dead \/ call'[c].id \notin LiveIds']]

Next == Step /\ Observe

Spec == Init /\ [][Next]_vars

\* The janitor's ticker fires and its goroutine runs; a container that ends is
\* started again (restart: unless-stopped in docker-compose.yml).
Fairness == /\ \A p \in Proc : /\ WF_vars(Start(p) /\ Observe)
                               /\ WF_vars(Ready(p) /\ Observe)
                               /\ WF_vars(\E n \in Ids \cup Foreign : ClearOne(p, n) /\ Observe)
                               /\ WF_vars(SweepStart(p) /\ Observe)
                               /\ WF_vars(SweepCollect(p) /\ Observe)
            /\ \A id \in Ids : WF_vars(RemoveFile(id) /\ Observe)

FairSpec == Spec /\ Fairness

-----------------------------------------------------------------------------
(* Properties *)

\* A file is served only over a link that worked at some moment of the request
\* (Open checks the registry and the clock at different times; Forget, Sweep
\* and the clock run in between).
ServedWasLive == \A c \in Caller : call[c].pc = "yes" => seen[c].live

\* A request is refused only if its link did not work at some moment of the
\* request: a link is good from the moment Put returns until expires_at.  Put
\* writes before it registers, Forget and Sweep unregister before they remove.
RefusedWasDead == \A c \in Caller : call[c].pc = "no" => seen[c].dead

\* Once New has returned, no file of this store is in the directory without an
\* entry, a Put or a removal that still refers to it: neither what an earlier
\* process left nor what this one has dropped accumulates.
NoOrphans == \A p \in Proc : up[p] = "up" =>
                \A id \in Ids : owner[id] = p /\ phase[id] \in {"removed", "gone"} => id \notin disk

\* The store is a LinkStore: links come to life once, die once and stay dead.
LinkState(id) == IF id \in LiveIds THEN "live"
                 ELSE IF phase[id] \in {"unused", "written", "stamped"} THEN "none" ELSE "dead"
RequestState(c) == IF call[c].pc \in {"found", "fresh"} THEN "open" ELSE call[c].pc

Links == INSTANCE LinkStore WITH
    link <- [id \in Ids |-> LinkState(id)],
    asked <- [c \in Caller |-> call[c].id],
    state <- [c \in Caller |-> RequestState(c)]

ImplementsLinks == Links!Spec

\* The bytes of an expired link leave the disk, across any restarts.
ExpiredFilesGo == \A id \in Ids :
    (phase[id] = "held" /\ Expired(id, now)) ~> (id \notin disk)
=============================================================================
