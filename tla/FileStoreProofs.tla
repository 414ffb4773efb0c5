-------------------------- MODULE FileStoreProofs --------------------------
(* What FileStore guarantees for every number of processes, ids, callers,   *)
(* lifetimes and failures, and the tools on top of it (Exports), proved.    *)
EXTENDS Exports, TLAPS

-----------------------------------------------------------------------------
(* The inductive invariant. *)

\* An id has an owner once it is drawn; while it is in use, its owner runs.
Owners == \A id \in Ids :
    /\ phase[id] = "unused" <=> owner[id] = None
    /\ phase[id] \notin {"unused", "gone"} => up[owner[id]] = "up"

\* Sweep takes only what has expired, and what has expired stays so.
SweptExpired == \A id \in Ids : phase[id] \in {"swept", "removed"} => Expired(id, now)

\* An Open runs in its process, and past the lookup it is about an id whose
\* Put is over.
Calls == \A c \in Caller :
    \/ call[c] = Idle
    \/ /\ call[c].pc # "idle" /\ call[c].id \in Ids /\ call[c].proc \in Proc
       /\ up[call[c].proc] = "up"
       /\ call[c].pc # "no" => /\ phase[call[c].id] \notin {"unused", "written", "stamped"}
                               /\ owner[call[c].id] = call[c].proc

\* An Open that has found its entry has seen a working link, unless the link
\* had expired by then, which OpenCheck is still going to notice.
SeenLive == \A c \in Caller :
    /\ call[c].pc = "found" => seen[c].live \/ Expired(call[c].id, now)
    /\ call[c].pc \in {"fresh", "yes"} => seen[c].live

IInv == TypeOK /\ Owners /\ SweptExpired /\ Calls /\ SeenLive

-----------------------------------------------------------------------------
(* Type correctness. *)

\* The history variable has its type whatever the step did.
LEMMA ObserveType ==
    ASSUME TypeOK, Observe
    PROVE  seen' \in [Caller -> [live : BOOLEAN, dead : BOOLEAN]]
  BY DEF TypeOK, Observe

\* Every state of the store is of the declared types; a listing is only kept
\* while New runs and a Sweep only runs in a running process.
LEMMA TypeStep == TypeOK /\ [Next]_vars => TypeOK'
  <1> SUFFICES ASSUME TypeOK, [Next]_vars PROVE TypeOK'
    OBVIOUS
  <1> USE FileStoreAssumption DEF TypeOK, Phase, Call, Idle
  <1>1. CASE UNCHANGED vars
    BY <1>1 DEF vars
  <1>2. CASE Next
    <2>0. seen' \in [Caller -> [live : BOOLEAN, dead : BOOLEAN]]
      BY <1>2, ObserveType DEF Next
    <2>1. ASSUME NEW p \in Proc, Start(p) PROVE TypeOK'
      BY <2>0, <2>1 DEF Start
    <2>2. ASSUME NEW p \in Proc, Ready(p) PROVE TypeOK'
      BY <2>0, <2>2 DEF Ready
    <2>3. ASSUME NEW p \in Proc, Stop(p) PROVE TypeOK'
      BY <2>0, <2>3 DEF Stop
    <2>4. ASSUME NEW p \in Proc, SweepStart(p) PROVE TypeOK'
      BY <2>0, <2>4 DEF SweepStart
    <2>5. ASSUME NEW p \in Proc, SweepCollect(p) PROVE TypeOK'
      BY <2>0, <2>5 DEF SweepCollect
    <2>6. ASSUME NEW p \in Proc, NEW n \in Ids \cup Foreign, ClearOne(p, n) PROVE TypeOK'
      BY <2>0, <2>6 DEF ClearOne, Unlink
    <2>7. ASSUME NEW p \in Proc, NEW id \in Ids, PutWrite(p, id) PROVE TypeOK'
      BY <2>0, <2>7 DEF PutWrite
    <2>8. ASSUME NEW c \in Caller, NEW p \in Proc, NEW id \in Ids, OpenLookup(c, p, id)
          PROVE  TypeOK'
      BY <2>0, <2>8 DEF OpenLookup
    <2>9. ASSUME NEW id \in Ids, PutStamp(id) PROVE TypeOK'
      BY <2>0, <2>9 DEF PutStamp
    <2>10. ASSUME NEW id \in Ids, PutRegister(id) PROVE TypeOK'
      BY <2>0, <2>10 DEF PutRegister
    <2>11. ASSUME NEW id \in Ids, Forget(id) PROVE TypeOK'
      BY <2>0, <2>11 DEF Forget
    <2>12. ASSUME NEW id \in Ids, RemoveFile(id) PROVE TypeOK'
      BY <2>0, <2>12 DEF RemoveFile, Unlink
    <2>13. ASSUME NEW c \in Caller, OpenCheck(c) PROVE TypeOK'
      BY <2>0, <2>13, SMTT(40) DEF OpenCheck
    <2>14. ASSUME NEW c \in Caller, OpenRead(c) PROVE TypeOK'
      <3>1. PICK a \in {"yes", "no"} : call' = [call EXCEPT ![c].pc = a]
        BY <2>14 DEF OpenRead
      <3>2. call' \in [Caller -> Call]
        BY <3>1
      <3>3. UNCHANGED <<up, todo, sweepAt, owner, phase, expires, disk, now, stops>>
        BY <2>14 DEF OpenRead
      <3>4. QED
        BY <2>0, <3>2, <3>3
    <2>15. ASSUME NEW c \in Caller, Respond(c) PROVE TypeOK'
      BY <2>0, <2>15 DEF Respond
    <2>16. CASE Tick
      BY <2>0, <2>16 DEF Tick
    <2>17. QED
      BY <1>2, <2>1, <2>2, <2>3, <2>4, <2>5, <2>6, <2>7, <2>8, <2>9, <2>10, <2>11,
         <2>12, <2>13, <2>14, <2>15, <2>16 DEF Next, Step
  <1>3. QED
    BY <1>1, <1>2

\* The store never leaves its types.
THEOREM TypeCorrect == Spec => []TypeOK
  <1>1. Init => TypeOK
    BY FileStoreAssumption DEF Init, TypeOK, Phase, Call, Idle
  <1>2. QED
    BY <1>1, TypeStep, PTL DEF Spec

-----------------------------------------------------------------------------
(* The store's bookkeeping: Owners, SweptExpired and Calls. *)

Book == Owners /\ SweptExpired /\ Calls

LEMMA BookStep == TypeOK /\ Book /\ [Next]_vars => Book'
  <1> SUFFICES ASSUME TypeOK, TypeOK', Book, [Next]_vars PROVE Book'
    BY TypeStep
  <1> USE FileStoreAssumption DEF TypeOK, Phase, Call, Idle, Book, Owners, SweptExpired, Calls, Expired
  <1>1. CASE UNCHANGED vars
    BY <1>1 DEF vars
  <1>2. CASE Next
    <2>1. ASSUME NEW p \in Proc, Start(p) PROVE Book'
      BY <2>1 DEF Start
    <2>2. ASSUME NEW p \in Proc, Ready(p) PROVE Book'
      BY <2>2 DEF Ready
    <2>3. ASSUME NEW p \in Proc, Stop(p) PROVE Book'
      <3>1. Owners' /\ SweptExpired'
        BY <2>3 DEF Stop
      <3>2. Calls'
        BY <2>3 DEF Stop
      <3>3. QED
        BY <3>1, <3>2
    <2>4. ASSUME NEW p \in Proc, SweepStart(p) PROVE Book'
      BY <2>4 DEF SweepStart
    <2>5. ASSUME NEW p \in Proc, SweepCollect(p) PROVE Book'
      BY <2>5 DEF SweepCollect, Stale
    <2>6. ASSUME NEW p \in Proc, NEW n \in Ids \cup Foreign, ClearOne(p, n) PROVE Book'
      BY <2>6 DEF ClearOne
    <2>7. ASSUME NEW p \in Proc, NEW id \in Ids, PutWrite(p, id) PROVE Book'
      BY <2>7 DEF PutWrite
    <2>8. ASSUME NEW c \in Caller, NEW p \in Proc, NEW id \in Ids, OpenLookup(c, p, id)
          PROVE  Book'
      BY <2>8 DEF OpenLookup
    <2>9. ASSUME NEW id \in Ids, PutStamp(id) PROVE Book'
      BY <2>9 DEF PutStamp
    <2>10. ASSUME NEW id \in Ids, PutRegister(id) PROVE Book'
      BY <2>10 DEF PutRegister
    <2>11. ASSUME NEW id \in Ids, Forget(id) PROVE Book'
      BY <2>11 DEF Forget
    <2>12. ASSUME NEW id \in Ids, RemoveFile(id) PROVE Book'
      BY <2>12 DEF RemoveFile
    <2>13. ASSUME NEW c \in Caller, OpenCheck(c) PROVE Book'
      BY <2>13 DEF OpenCheck
    <2>14. ASSUME NEW c \in Caller, OpenRead(c) PROVE Book'
      BY <2>14 DEF OpenRead
    <2>15. ASSUME NEW c \in Caller, Respond(c) PROVE Book'
      BY <2>15 DEF Respond
    <2>16. CASE Tick
      BY <2>16 DEF Tick
    <2>17. QED
      BY <1>2, <2>1, <2>2, <2>3, <2>4, <2>5, <2>6, <2>7, <2>8, <2>9, <2>10, <2>11,
         <2>12, <2>13, <2>14, <2>15, <2>16 DEF Next, Step
  <1>3. QED
    BY <1>1, <1>2

-----------------------------------------------------------------------------
(* A file is served only over a working link. *)

\* What a request has seen is not forgotten while it lasts.
LEMMA SeenStays ==
    ASSUME TypeOK, Observe, NEW c \in Caller, call'[c].pc # "idle"
    PROVE  /\ seen[c].live => seen'[c].live
           /\ seen[c].dead => seen'[c].dead
  BY DEF TypeOK, Observe

\* A request that is not yet answered notes the state of its link.
LEMMA SeenNow ==
    ASSUME TypeOK, Observe, NEW c \in Caller,
           call'[c].pc # "idle", call[c].pc \notin {"yes", "no"}
    PROVE  /\ call'[c].id \in LiveIds' => seen'[c].live
           /\ call'[c].id \notin LiveIds' => seen'[c].dead
  BY DEF TypeOK, Observe

\* The expiry of an id is computed once, before it is registered.
LEMMA ExpiryStays ==
    ASSUME TypeOK, Next, NEW id \in Ids, phase[id] # "written", Expired(id, now)
    PROVE  Expired(id, now)'
  BY DEF TypeOK, Expired, Next, Step, Start, Ready, Stop, SweepStart, SweepCollect, ClearOne,
         PutWrite, OpenLookup, PutStamp, PutRegister, Forget, RemoveFile, OpenCheck,
         OpenRead, Respond, Tick

\* Only these steps change the state of a request.
LEMMA CallSteps ==
    ASSUME Next
    PROVE  \/ UNCHANGED call
           \/ \E p \in Proc : Stop(p) \/ \E c \in Caller, id \in Ids : OpenLookup(c, p, id)
           \/ \E c \in Caller : OpenCheck(c) \/ OpenRead(c) \/ Respond(c)
  BY DEF Next, Step, Start, Ready, SweepStart, SweepCollect, ClearOne, PutWrite, PutStamp,
         PutRegister, Forget, RemoveFile, Tick

LEMMA SeenLiveStep == TypeOK /\ Book /\ SeenLive /\ [Next]_vars => SeenLive'
  <1> SUFFICES ASSUME TypeOK, TypeOK', Book, SeenLive, [Next]_vars,
                      NEW c \in Caller, call'[c].pc # "idle"
               PROVE  /\ call'[c].pc = "found" => seen'[c].live \/ Expired(call[c].id, now)'
                      /\ call'[c].pc \in {"fresh", "yes"} => seen'[c].live
    BY TypeStep DEF SeenLive
  <1>1. CASE UNCHANGED vars
    BY <1>1 DEF vars, SeenLive, Expired
  <1>2. CASE Next
    <2>1. seen[c].live => seen'[c].live
      BY <1>2, SeenStays DEF Next
    <2>2. CASE call'[c] = call[c]
      <3>1. call[c].pc = "found" => call[c].id \in Ids /\ phase[call[c].id] # "written"
        BY DEF Book, Calls, Idle
      <3>2. call[c].pc = "found" /\ Expired(call[c].id, now) => Expired(call[c].id, now)'
        <4>1. SUFFICES ASSUME call[c].pc = "found", Expired(call[c].id, now)
                       PROVE  Expired(call[c].id, now)'
          OBVIOUS
        <4>2. \A id \in Ids : phase[id] # "written" /\ Expired(id, now) => now' > expires'[id]
          BY <1>2, ExpiryStays DEF Expired
        <4>3. QED
          BY <2>2, <3>1, <4>1, <4>2 DEF Expired
      <3>3. QED
        BY <2>1, <2>2, <3>2 DEF SeenLive
    <2>3. ASSUME NEW p \in Proc, Stop(p) PROVE call'[c] = call[c]
      BY <2>3 DEF Stop, TypeOK, Idle
    <2>4. ASSUME NEW d \in Caller, NEW p \in Proc, NEW id \in Ids, OpenLookup(d, p, id), d = c
          PROVE  (call'[c].pc \in {"found", "no"} /\ (seen'[c].live \/ Expired(call[c].id, now)'))
                 \/ call'[c].pc = "no"
      <3>1. call'[c] = [pc |-> IF phase[id] = "held" THEN "found" ELSE "no", id |-> id, proc |-> p]
        BY <2>4 DEF OpenLookup, TypeOK
      <3>2. call[c].pc = "idle" /\ Observe
        BY <1>2, <2>4 DEF OpenLookup, Idle, Next
      <3>3. CASE phase[id] = "held"
        <4>1. id \in LiveIds' \/ now' > expires'[id]
          BY <2>4, <3>3 DEF OpenLookup, LiveIds, Expired
        <4>2. QED
          BY <3>1, <3>2, <3>3, <4>1, SeenNow DEF Expired
      <3>4. QED
        BY <3>1, <3>3
    <2>5. ASSUME NEW d \in Caller, OpenCheck(d), d = c
          PROVE  call'[c].pc = "no" \/ (call'[c].pc = "fresh" /\ seen'[c].live)
      BY <2>1, <2>5 DEF OpenCheck, TypeOK, SeenLive
    <2>6. ASSUME NEW d \in Caller, OpenRead(d), d = c
          PROVE  call'[c].pc \in {"yes", "no"} /\ seen'[c].live
      <3>1. call[c].pc = "fresh"
        BY <2>6 DEF OpenRead
      <3>2. seen'[c].live
        BY <2>1, <3>1 DEF SeenLive
      <3>3. PICK a \in {"yes", "no"} : call' = [call EXCEPT ![c].pc = a]
        BY <2>6 DEF OpenRead
      <3>4. call'[c].pc \in {"yes", "no"}
        BY <3>3 DEF TypeOK, Call
      <3>5. QED
        BY <3>2, <3>4
    <2>7. ASSUME NEW d \in Caller, Respond(d), d = c PROVE FALSE
      BY <2>7 DEF Respond, TypeOK, Idle
    <2>8. ASSUME NEW d \in Caller, d # c,
                 OpenCheck(d) \/ OpenRead(d) \/ Respond(d)
                 \/ \E p \in Proc, id \in Ids : OpenLookup(d, p, id)
          PROVE  call'[c] = call[c]
      BY <2>8 DEF OpenCheck, OpenRead, Respond, OpenLookup, TypeOK
    <2>9. QED
      BY <1>2, <2>2, <2>3, <2>4, <2>5, <2>6, <2>7, <2>8, CallSteps
  <1>3. QED
    BY <1>1, <1>2

LEMMA IInvariant == Spec => [](TypeOK /\ Book /\ SeenLive)
  <1>1. Init => TypeOK /\ Book /\ SeenLive
    BY FileStoreAssumption
       DEF Init, TypeOK, Phase, Call, Idle, Book, Owners, SweptExpired, Calls, SeenLive
  <1>2. QED
    BY <1>1, TypeStep, BookStep, SeenLiveStep, PTL DEF Spec

\* Whatever Forget, Sweep, the clock, the failing file system and the end of
\* processes do between the steps of an Open, it serves a file only over a link
\* that worked while it ran.
THEOREM ServedWasLiveAlways == Spec => []ServedWasLive
  <1>1. SeenLive => ServedWasLive
    BY DEF SeenLive, ServedWasLive
  <1>2. QED
    BY <1>1, IInvariant, PTL

-----------------------------------------------------------------------------
(* One process alone in its directory, with a file system that works.  Then  *)
(* a link is refused only when it does not work, and nothing accumulates.    *)

Alone == FsFaults = FALSE /\ \E p \in Proc : Proc = {p}

\* What is in the directory: while New runs only what it still has to remove,
\* afterwards only files with an entry, a Put or a removal under way; and every
\* registered file is there.
Tidy == /\ \A p \in Proc : up[p] = "clearing" => disk \subseteq todo[p]
        /\ \A p \in Proc : up[p] = "up" => \A n \in disk :
              n \in Ids /\ phase[n] \in {"written", "stamped", "held", "swept", "forgotten"}
        /\ \A id \in Ids : phase[id] \in {"written", "stamped", "held"} => id \in disk

\* An Open on its way to the file will find it, or has seen the link fail.
SeenDead == \A c \in Caller :
    /\ call[c].pc \in {"found", "fresh"} => call[c].id \in disk \/ seen[c].dead
    /\ call[c].pc = "no" => seen[c].dead

LEMMA TidyStep == Alone /\ TypeOK /\ Book /\ Tidy /\ [Next]_vars => Tidy'
  <1> SUFFICES ASSUME Alone, TypeOK, TypeOK', Book, Tidy, [Next]_vars PROVE Tidy'
    BY TypeStep
  <1>0. PICK q \in Proc : Proc = {q}
    BY DEF Alone
  <1> USE <1>0, FileStoreAssumption
      DEF TypeOK, Alone, Phase, Book, Owners, SweptExpired, Tidy, Expired, Unlink
  <1>1. CASE UNCHANGED vars
    BY <1>1 DEF vars
  <1>2. CASE Next
    <2>1. CASE Start(q)
      BY <2>1 DEF Start
    <2>2. CASE Ready(q)
      BY <2>2 DEF Ready
    <2>3. CASE Stop(q)
      BY <2>3 DEF Stop
    <2>4. CASE SweepStart(q)
      BY <2>4 DEF SweepStart
    <2>5. CASE SweepCollect(q)
      BY <2>5 DEF SweepCollect, Stale
    <2>6. ASSUME NEW n \in Ids \cup Foreign, ClearOne(q, n) PROVE Tidy'
      BY <2>6 DEF ClearOne
    <2>7. ASSUME NEW id \in Ids, PutWrite(q, id) PROVE Tidy'
      BY <2>7 DEF PutWrite
    <2>8. ASSUME NEW id \in Ids, PutStamp(id) PROVE Tidy'
      BY <2>8 DEF PutStamp
    <2>9. ASSUME NEW id \in Ids, PutRegister(id) PROVE Tidy'
      BY <2>9 DEF PutRegister
    <2>10. ASSUME NEW id \in Ids, Forget(id) PROVE Tidy'
      BY <2>10 DEF Forget
    <2>11. ASSUME NEW id \in Ids, RemoveFile(id) PROVE Tidy'
      BY <2>11 DEF RemoveFile
    <2>12. ASSUME NEW c \in Caller,
                  OpenCheck(c) \/ OpenRead(c) \/ Respond(c) \/ \E id \in Ids : OpenLookup(c, q, id)
           PROVE  Tidy'
      BY <2>12 DEF OpenCheck, OpenRead, Respond, OpenLookup
    <2>13. CASE Tick
      BY <2>13 DEF Tick
    <2>14. QED
      BY <1>2, <2>1, <2>2, <2>3, <2>4, <2>5, <2>6, <2>7, <2>8, <2>9, <2>10, <2>11, <2>12, <2>13
      DEF Next, Step
  <1>3. QED
    BY <1>1, <1>2

\* A file leaves the directory only when its link does not work any more.
LEMMA UnlinkedIsDead ==
    ASSUME Alone, TypeOK, Book, Tidy, Next, NEW id \in disk, id \notin disk', id \in Ids,
           NEW p \in Proc, up[p] = "up"
    PROVE  id \notin LiveIds'
  <1>1. Proc = {p} /\ FsFaults = FALSE
    BY DEF Alone
  <1>2. RemoveFile(id)
    BY <1>1 DEF Next, Step, Start, Ready, Stop, SweepStart, SweepCollect, ClearOne, Unlink,
         PutWrite, OpenLookup, PutStamp, PutRegister, Forget, RemoveFile, OpenCheck,
         OpenRead, Respond, Tick
  <1>3. QED
    BY <1>2 DEF RemoveFile, LiveIds, Expired, TypeOK, Book, SweptExpired

LEMMA SeenDeadStep == Alone /\ TypeOK /\ Book /\ Tidy /\ SeenDead /\ [Next]_vars => SeenDead'
  <1> SUFFICES ASSUME Alone, TypeOK, TypeOK', Book, Tidy, SeenDead, [Next]_vars,
                      NEW c \in Caller, call'[c].pc # "idle"
               PROVE  /\ call'[c].pc \in {"found", "fresh"} => call'[c].id \in disk' \/ seen'[c].dead
                      /\ call'[c].pc = "no" => seen'[c].dead
    BY TypeStep DEF SeenDead
  <1>1. CASE UNCHANGED vars
    BY <1>1 DEF vars, SeenDead
  <1>2. CASE Next
    <2>1. seen[c].dead => seen'[c].dead
      BY <1>2, SeenStays DEF Next
    <2>2. CASE call'[c] = call[c]
      <3>1. SUFFICES ASSUME call[c].pc \in {"found", "fresh"}, ~seen[c].dead, call[c].id \notin disk'
                     PROVE  seen'[c].dead
        BY <2>1, <2>2 DEF SeenDead
      <3>2. call[c].id \in disk /\ call[c].id \in Ids /\ \E p \in Proc : up[p] = "up"
        BY <3>1 DEF SeenDead, Book, Calls, Idle
      <3>3. \A id \in disk : id \in Ids /\ id \notin disk' => id \notin LiveIds'
        BY <1>2, <3>2, UnlinkedIsDead
      <3>4. QED
        BY <1>2, <2>2, <3>1, <3>2, <3>3, SeenNow DEF Next
    <2>3. ASSUME NEW p \in Proc, Stop(p) PROVE call'[c] = call[c]
      BY <2>3 DEF Stop, TypeOK, Idle
    <2>4. ASSUME NEW d \in Caller, NEW p \in Proc, NEW id \in Ids, OpenLookup(d, p, id), d = c
          PROVE  \/ call'[c].pc = "found" /\ call'[c].id \in disk'
                 \/ call'[c].pc = "no" /\ seen'[c].dead
      <3>1. call'[c] = [pc |-> IF phase[id] = "held" THEN "found" ELSE "no", id |-> id, proc |-> p]
        BY <2>4 DEF OpenLookup, TypeOK
      <3>2. call[c].pc = "idle" /\ Observe
        BY <1>2, <2>4 DEF OpenLookup, Idle, Next
      <3>3. CASE phase[id] = "held"
        BY <2>4, <3>1, <3>3 DEF OpenLookup, Tidy
      <3>4. CASE phase[id] # "held"
        <4>1. id \notin LiveIds'
          BY <2>4, <3>4 DEF OpenLookup, LiveIds, Expired, Book, SweptExpired
        <4>2. QED
          BY <3>1, <3>2, <3>4, <4>1, SeenNow
      <3>5. QED
        BY <3>3, <3>4
    <2>5. ASSUME NEW d \in Caller, OpenCheck(d), d = c
          PROVE  \/ call'[c].pc = "fresh" /\ (call'[c].id \in disk' \/ seen'[c].dead)
                 \/ call'[c].pc = "no" /\ seen'[c].dead
      <3>1. /\ call[c].pc = "found" /\ call'[c].id = call[c].id
            /\ call'[c].pc = IF Expired(call[c].id, now) THEN "no" ELSE "fresh"
        BY <2>5 DEF OpenCheck, TypeOK
      <3>2. CASE Expired(call[c].id, now)
        <4>1. call'[c].id \notin LiveIds'
          BY <2>5, <3>1, <3>2 DEF OpenCheck, LiveIds, Expired
        <4>2. QED
          BY <1>2, <3>1, <3>2, <4>1, SeenNow DEF Next
      <3>3. CASE ~Expired(call[c].id, now)
        BY <2>1, <2>5, <3>1, <3>3 DEF OpenCheck, SeenDead
      <3>4. QED
        BY <3>2, <3>3
    <2>6. ASSUME NEW d \in Caller, OpenRead(d), d = c
          PROVE  call'[c].pc = "yes" \/ (call'[c].pc = "no" /\ seen'[c].dead)
      <3>1. /\ call[c].pc = "fresh"
            /\ call' = [call EXCEPT ![c].pc = IF call[c].id \in disk THEN "yes" ELSE "no"]
        BY <2>6 DEF OpenRead, Alone
      <3>2. call'[c].pc = IF call[c].id \in disk THEN "yes" ELSE "no"
        BY <3>1 DEF TypeOK, Call
      <3>3. QED
        BY <2>1, <3>1, <3>2 DEF SeenDead
    <2>7. ASSUME NEW d \in Caller, Respond(d), d = c PROVE FALSE
      BY <2>7 DEF Respond, TypeOK, Idle
    <2>8. ASSUME NEW d \in Caller, d # c,
                 OpenCheck(d) \/ OpenRead(d) \/ Respond(d)
                 \/ \E p \in Proc, id \in Ids : OpenLookup(d, p, id)
          PROVE  call'[c] = call[c]
      BY <2>8 DEF OpenCheck, OpenRead, Respond, OpenLookup, TypeOK
    <2>9. QED
      BY <1>2, <2>2, <2>3, <2>4, <2>5, <2>6, <2>7, <2>8, CallSteps
  <1>3. QED
    BY <1>1, <1>2

LEMMA AloneInvariant ==
    ASSUME Alone PROVE Spec => [](TypeOK /\ Book /\ Tidy /\ SeenDead)
  <1>1. Init => Tidy /\ SeenDead
    BY FileStoreAssumption DEF Init, Tidy, SeenDead, Idle
  <1>2. TypeOK /\ Book /\ Tidy /\ SeenDead /\ [Next]_vars => (Tidy /\ SeenDead)'
    BY TidyStep, SeenDeadStep
  <1>3. QED
    BY <1>1, <1>2, IInvariant, PTL DEF Spec

\* In a directory of its own, the store refuses a link only if at some moment of
\* the request it did not work: no order of Put, Open, Forget, Sweep, New and
\* ticks makes a good link fail.
THEOREM RefusedWasDeadAlways == ASSUME Alone PROVE Spec => []RefusedWasDead
  <1>1. SeenDead => RefusedWasDead
    BY DEF SeenDead, RefusedWasDead
  <1>2. QED
    BY <1>1, AloneInvariant, PTL

\* Nothing the store ever wrote stays in the directory unaccounted for.
THEOREM NoOrphansAlways == ASSUME Alone PROVE Spec => []NoOrphans
  <1>1. Tidy => NoOrphans
    BY DEF Tidy, NoOrphans
  <1>2. QED
    BY <1>1, AloneInvariant, PTL

-----------------------------------------------------------------------------
(* The store implements LinkStore.  A step that LinkStore does not know is    *)
(* its Kill of no link for no request: open requests watch their links on.    *)

\* An open request has seen what its link is at present.
Watched == \A c \in Caller : call[c].pc \in {"found", "fresh"} =>
    /\ call[c].id \in LiveIds => seen[c].live
    /\ call[c].id \notin LiveIds => seen[c].dead

\* The history that the store keeps is the one that LinkStore keeps, when exactly the
\* requests of on are open during the step.
LEMMA WatchStep ==
    ASSUME TypeOK, TypeOK', Observe, NEW on \in SUBSET Caller,
           \A c \in on : /\ call'[c].pc # "idle" /\ call'[c].id \in Ids
                         /\ call[c].pc \notin {"yes", "no"},
           \A c \in Caller \ on : call'[c].pc = "idle" \/ call[c].pc \in {"yes", "no"}
    PROVE  Links!Watch(on)
  <1> DEFINE Live(c) == ([id \in Ids |-> LinkState(id)]')[([d \in Caller |-> call[d].id]')[c]] = "live"
             Abs(c) == IF c \in on
                       THEN [live |-> seen[c].live \/ Live(c), dead |-> seen[c].dead \/ ~Live(c)]
                       ELSE IF ([d \in Caller |-> RequestState(d)]')[c] = "idle"
                            THEN [live |-> FALSE, dead |-> FALSE] ELSE seen[c]
             Con(c) == IF call'[c].pc = "idle" THEN [live |-> FALSE, dead |-> FALSE]
                       ELSE IF call[c].pc \in {"yes", "no"} THEN seen[c]
                       ELSE [live |-> seen[c].live \/ call'[c].id \in LiveIds',
                             dead |-> seen[c].dead \/ call'[c].id \notin LiveIds']
  <1>1. ASSUME NEW c \in Caller PROVE Abs(c) = Con(c)
    <2>1. ([d \in Caller |-> RequestState(d)]')[c] = "idle" <=> call'[c].pc = "idle"
      BY DEF RequestState
    <2>2. CASE c \in on
      <3>1. Live(c) <=> call'[c].id \in LiveIds'
        BY <2>2 DEF LinkState
      <3>2. seen[c].live \in BOOLEAN /\ seen[c].dead \in BOOLEAN
        BY DEF TypeOK
      <3>. HIDE DEF Live
      <3>3. (seen[c].live \/ Live(c)) = (seen[c].live \/ call'[c].id \in LiveIds')
        BY <3>1, <3>2
      <3>4. (seen[c].dead \/ ~Live(c)) = (seen[c].dead \/ call'[c].id \notin LiveIds')
        BY <3>1, <3>2
      <3>5. QED
        BY <2>2, <3>3, <3>4
    <2>3. CASE c \notin on
      BY <2>1, <2>3
    <2>4. QED
      BY <2>2, <2>3
  <1>2. seen' = [c \in Caller |-> Con(c)]
    BY DEF Observe
  <1>3. seen' = [c \in Caller |-> Abs(c)]
    <2>. HIDE DEF Abs, Con
    <2>. QED  BY <1>1, <1>2
  <1>4. QED
    BY <1>3 DEF Links!Watch, Links!Unseen

\* Every step that brings no link to life and moves no request, other than to end
\* it with its process, is a Kill.
LEMMA KillStep ==
    ASSUME TypeOK, TypeOK', Book', Observe,
           \A id \in Ids : LinkState(id)' \in {LinkState(id), "dead"},
           \A c \in Caller : \/ call'[c] \in {call[c], Idle}
                            \/ /\ call[c].pc = "found" /\ call'[c].pc = "fresh"
                               /\ call'[c].id = call[c].id
    PROVE  Links!Next
  <1> DEFINE L == [id \in Ids |-> LinkState(id)]
             R == [c \in Caller |-> RequestState(c)]
             A == [c \in Caller |-> call[c].id]
  <1>1. PICK K \in SUBSET Ids : K = {id \in Ids : LinkState(id) # "dead" /\ LinkState(id)' = "dead"}
    OBVIOUS
  <1>2. PICK D \in SUBSET Caller : D = {c \in Caller : call'[c] = Idle}
    OBVIOUS
  <1>3. PICK on \in SUBSET Caller : on = {c \in Caller : RequestState(c) = "open"} \ D
    OBVIOUS
  <1>4. Links!Watch(on)
    <2>1. ASSUME NEW c \in on
          PROVE  call'[c].pc # "idle" /\ call'[c].id \in Ids /\ call[c].pc \notin {"yes", "no"}
      <3>1. call'[c] # Idle /\ call[c].pc \in {"found", "fresh"}
        BY <1>2, <1>3 DEF RequestState, TypeOK, Call
      <3>2. QED
        BY <3>1 DEF Book, Calls, Idle
    <2>2. \A c \in Caller \ on : call'[c].pc = "idle" \/ call[c].pc \in {"yes", "no"}
      BY <1>2, <1>3 DEF RequestState, Idle, TypeOK, Call
    <2>3. QED
      BY <2>1, <2>2, WatchStep
  <1>5. Links!Open \ D = on
    BY <1>3 DEF Links!Open
  <1>6. /\ L' = [id \in Ids |-> IF id \in K THEN "dead" ELSE L[id]]
        /\ \A id \in K : L[id] # "dead"
    BY <1>1
  <1>7. /\ R' = [c \in Caller |-> IF c \in D THEN "idle" ELSE R[c]]
        /\ A' = [c \in Caller |-> IF c \in D THEN None ELSE A[c]]
    BY <1>2 DEF RequestState, Idle
  <1>8. Links!Watch(Links!Open \ D)
    BY <1>4, <1>5 DEF Links!Watch
  <1>9. Links!Kill(K, D)
    BY <1>6, <1>7, <1>8 DEF Links!Kill
  <1>10. QED
    BY <1>9 DEF Links!Next

\* Put returns: the link comes to life, if its time is not over by then.
LEMMA IssueStep ==
    ASSUME TypeOK, TypeOK', Book, Book', Observe, NEW id \in Ids, PutRegister(id)
    PROVE  Links!Next
  <1> DEFINE L == [i \in Ids |-> LinkState(i)]
  <1> USE FileStoreAssumption DEF PutRegister, LinkState, LiveIds, Expired
  <1>1. CASE Expired(id, now)
    <2>1. \A i \in Ids : LinkState(i)' \in {LinkState(i), "dead"}
      BY <1>1 DEF TypeOK
    <2>2. QED
      BY <2>1, KillStep
  <1>2. CASE ~Expired(id, now)
    <2>1. L[id] = "none" /\ L' = [L EXCEPT ![id] = "live"]
      BY <1>2 DEF TypeOK
    <2>2. PICK on \in SUBSET Caller : on = {c \in Caller : RequestState(c) = "open"}
      OBVIOUS
    <2>3. Links!Watch(on)
      <3>1. ASSUME NEW c \in on
            PROVE  call'[c].pc # "idle" /\ call'[c].id \in Ids /\ call[c].pc \notin {"yes", "no"}
        BY <2>2 DEF RequestState, TypeOK, Call, Book, Calls, Idle
      <3>2. \A c \in Caller \ on : call'[c].pc = "idle" \/ call[c].pc \in {"yes", "no"}
        BY <2>2 DEF RequestState, TypeOK, Call
      <3>3. QED
        BY <3>1, <3>2, WatchStep
    <2>4. Links!Open = on
      BY <2>2 DEF Links!Open
    <2>5. Links!Watch(Links!Open)
      BY <2>3, <2>4 DEF Links!Watch
    <2>6. [c \in Caller |-> call[c].id]' = [c \in Caller |-> call[c].id]
          /\ [c \in Caller |-> RequestState(c)]' = [c \in Caller |-> RequestState(c)]
      BY DEF RequestState
    <2>7. Links!Issue(id)
      <3>. HIDE DEF LinkState
      <3>. QED  BY <2>1, <2>5, <2>6 DEF Links!Issue
    <2>8. QED
      BY <2>7 DEF Links!Next
  <1>3. QED
    BY <1>1, <1>2

\* Links change with the registry, the expiry and the clock only.
LEMMA LinksStay == UNCHANGED <<phase, expires, now>> =>
                   UNCHANGED [id \in Ids |-> LinkState(id)]
  BY DEF LinkState, LiveIds, Expired

\* A request for a link: the store knows it, or it does not work.
LEMMA LookupStep ==
    ASSUME TypeOK, TypeOK', Book, Book', Observe,
           NEW c \in Caller, NEW p \in Proc, NEW id \in Ids, OpenLookup(c, p, id)
    PROVE  Links!Next
  <1> DEFINE L == [i \in Ids |-> LinkState(i)]
             R == [d \in Caller |-> RequestState(d)]
             A == [d \in Caller |-> call[d].id]
  <1>1. /\ call[c].pc = "idle" /\ call'[c].id = id
        /\ call'[c].pc = IF phase[id] = "held" THEN "found" ELSE "no"
        /\ \A d \in Caller \ {c} : call'[d] = call[d]
    BY DEF OpenLookup, TypeOK, Idle
  <1>2. L' = L /\ A' = [A EXCEPT ![c] = id] /\ R[c] = "idle"
    <2>1. L' = L
      BY LinksStay DEF OpenLookup
    <2>2. A' = [A EXCEPT ![c] = id]
      BY <1>1
    <2>3. R[c] = "idle"
      BY <1>1 DEF RequestState
    <2>4. QED
      BY <2>1, <2>2, <2>3
  <1>3. PICK on \in SUBSET Caller : on = {d \in Caller : RequestState(d) = "open"} \cup {c}
    OBVIOUS
  <1>4. Links!Watch(on)
    <2>1. ASSUME NEW d \in on
          PROVE  call'[d].pc # "idle" /\ call'[d].id \in Ids /\ call[d].pc \notin {"yes", "no"}
      BY <1>1, <1>3 DEF RequestState, TypeOK, Call, Book, Calls, Idle
    <2>2. \A d \in Caller \ on : call'[d].pc = "idle" \/ call[d].pc \in {"yes", "no"}
      BY <1>1, <1>3 DEF RequestState, TypeOK, Call
    <2>3. QED
      BY <2>1, <2>2, WatchStep
  <1>5. Links!Open \cup {c} = on
    BY <1>3 DEF Links!Open
  <1>6. Links!Watch(Links!Open \cup {c})
    BY <1>4, <1>5 DEF Links!Watch
  <1>7. CASE phase[id] = "held"
    <2>1. R' = [R EXCEPT ![c] = "open"]
      BY <1>1, <1>7 DEF RequestState
    <2>2. Links!Ask(c, id)
      BY <1>2, <1>6, <2>1 DEF Links!Ask
    <2>3. QED
      BY <2>2 DEF Links!Next
  <1>8. CASE phase[id] # "held"
    <2>1. R' = [R EXCEPT ![c] = "no"]
      BY <1>1, <1>8 DEF RequestState
    <2>2. L[id] # "live"
      BY <1>8 DEF LinkState, LiveIds, Book, SweptExpired
    <2>3. Links!Refuse(c, id)
      BY <1>2, <1>6, <2>1, <2>2 DEF Links!Refuse
    <2>4. QED
      BY <2>3 DEF Links!Next
  <1>9. QED
    BY <1>7, <1>8

\* A request is answered as it has seen its link.
LEMMA AnswerStep ==
    ASSUME TypeOK, TypeOK', Book, Book', Observe, UNCHANGED <<phase, expires, now>>,
           NEW c \in Caller, call[c].pc \in {"found", "fresh"},
           NEW a \in {"yes", "no"}, call' = [call EXCEPT ![c].pc = a],
           a = "yes" => seen[c].live, a = "no" => seen[c].dead
    PROVE  Links!Next
  <1> DEFINE L == [i \in Ids |-> LinkState(i)]
             R == [d \in Caller |-> RequestState(d)]
             A == [d \in Caller |-> call[d].id]
  <1>1. /\ call'[c].id = call[c].id /\ call'[c].pc = a
        /\ \A d \in Caller \ {c} : call'[d] = call[d]
    BY DEF TypeOK, Call
  <1>2. L' = L /\ A' = A /\ R[c] = "open" /\ R' = [R EXCEPT ![c] = a]
    <2>1. L' = L
      BY LinksStay
    <2>2. A' = A
      BY <1>1
    <2>3. R[c] = "open" /\ R' = [R EXCEPT ![c] = a]
      <3>1. RequestState(c) = "open" /\ RequestState(c)' = a
        BY <1>1 DEF RequestState
      <3>2. \A d \in Caller \ {c} : RequestState(d)' = RequestState(d)
        BY <1>1 DEF RequestState
      <3>3. QED
        BY <3>1, <3>2
    <2>4. QED
      BY <2>1, <2>2, <2>3
  <1>3. PICK on \in SUBSET Caller : on = {d \in Caller : RequestState(d) = "open"}
    OBVIOUS
  <1>4. Links!Watch(on)
    <2>1. ASSUME NEW d \in on
          PROVE  call'[d].pc # "idle" /\ call'[d].id \in Ids /\ call[d].pc \notin {"yes", "no"}
      BY <1>1, <1>3 DEF RequestState, TypeOK, Call, Book, Calls, Idle
    <2>2. \A d \in Caller \ on : call'[d].pc = "idle" \/ call[d].pc \in {"yes", "no"}
      BY <1>1, <1>3 DEF RequestState, TypeOK, Call
    <2>3. QED
      BY <2>1, <2>2, WatchStep
  <1>5. Links!Open = on
    BY <1>3 DEF Links!Open
  <1>6. Links!Watch(Links!Open)
    BY <1>4, <1>5 DEF Links!Watch
  <1>7. Links!Answer(c)
    BY <1>2, <1>6 DEF Links!Answer
  <1>8. QED
    BY <1>7 DEF Links!Next

\* A request that was answered is over.
LEMMA DoneStep ==
    ASSUME TypeOK, TypeOK', Book, Book', Observe, NEW c \in Caller, Respond(c)
    PROVE  Links!Next
  <1> DEFINE L == [i \in Ids |-> LinkState(i)]
             R == [d \in Caller |-> RequestState(d)]
             A == [d \in Caller |-> call[d].id]
  <1>1. /\ call'[c] = Idle /\ call[c].pc \in {"yes", "no"}
        /\ \A d \in Caller \ {c} : call'[d] = call[d]
    BY DEF Respond, TypeOK
  <1>2. /\ L' = L /\ A' = [A EXCEPT ![c] = None]
        /\ R[c] \in {"yes", "no"} /\ R' = [R EXCEPT ![c] = "idle"]
    <2>1. L' = L
      BY LinksStay DEF Respond
    <2>2. A' = [A EXCEPT ![c] = None]
      <3>1. call'[c].id = None
        BY <1>1 DEF Idle
      <3>2. QED
        BY <1>1, <3>1
    <2>3. R[c] \in {"yes", "no"} /\ R' = [R EXCEPT ![c] = "idle"]
      <3>1. RequestState(c) \in {"yes", "no"} /\ RequestState(c)' = "idle"
        BY <1>1 DEF RequestState, Idle
      <3>2. \A d \in Caller \ {c} : RequestState(d)' = RequestState(d)
        BY <1>1 DEF RequestState
      <3>3. QED
        BY <3>1, <3>2
    <2>4. QED
      BY <2>1, <2>2, <2>3
  <1>3. PICK on \in SUBSET Caller : on = {d \in Caller : RequestState(d) = "open"}
    OBVIOUS
  <1>4. Links!Watch(on)
    <2>1. ASSUME NEW d \in on
          PROVE  call'[d].pc # "idle" /\ call'[d].id \in Ids /\ call[d].pc \notin {"yes", "no"}
      BY <1>1, <1>3 DEF RequestState, TypeOK, Call, Book, Calls, Idle
    <2>2. \A d \in Caller \ on : call'[d].pc = "idle" \/ call[d].pc \in {"yes", "no"}
      BY <1>1, <1>3 DEF RequestState, TypeOK, Call
    <2>3. QED
      BY <2>1, <2>2, WatchStep
  <1>5. Links!Open = on
    BY <1>3 DEF Links!Open
  <1>6. Links!Watch(Links!Open)
    BY <1>4, <1>5 DEF Links!Watch
  <1>7. Links!Done(c)
    BY <1>2, <1>6 DEF Links!Done
  <1>8. QED
    BY <1>7 DEF Links!Next

\* What a request has to have seen when it is answered, it has seen by then.
LEMMA WatchedStep == ASSUME TypeOK, Next PROVE Watched'
  <1> SUFFICES ASSUME NEW c \in Caller, call'[c].pc \in {"found", "fresh"}
               PROVE  /\ call'[c].id \in LiveIds' => seen'[c].live
                      /\ call'[c].id \notin LiveIds' => seen'[c].dead
    BY DEF Watched
  <1>1. call[c].pc \notin {"yes", "no"}
    <2>1. ASSUME NEW p \in Proc, Stop(p) PROVE call'[c] = call[c]
      BY <2>1 DEF Stop, Idle, TypeOK
    <2>2. ASSUME NEW d \in Caller,
                 OpenCheck(d) \/ OpenRead(d) \/ Respond(d)
                 \/ \E p \in Proc, id \in Ids : OpenLookup(d, p, id)
          PROVE  call'[c] = call[c] \/ call[c].pc \in {"idle", "found", "fresh"}
      <3>1. d = c => call[c].pc \in {"idle", "found", "fresh"}
        BY <2>2 DEF OpenCheck, OpenRead, Respond, OpenLookup, Idle, TypeOK
      <3>2. d # c => call'[c] = call[c]
        BY <2>2 DEF OpenCheck, OpenRead, Respond, OpenLookup, TypeOK
      <3>3. QED
        BY <3>1, <3>2
    <2>3. QED
      BY <2>1, <2>2, CallSteps
  <1>2. QED
    BY <1>1, SeenNow DEF Next

\* What the refinement rests on.
LinksInv == TypeOK /\ Book /\ SeenLive /\ Tidy /\ SeenDead /\ Watched

\* Every step of the store is a step of LinkStore.
LEMMA LinksStep == ASSUME Alone, LinksInv, TypeOK', Book', Step, Observe
                   PROVE  Links!Next
  <1> USE DEF LinksInv
  <1>1. ASSUME \A id \in Ids : LinkState(id)' \in {LinkState(id), "dead"}, UNCHANGED call
        PROVE  Links!Next
    BY <1>1, KillStep
  <1>2. ASSUME UNCHANGED <<phase, expires, now, call>> PROVE Links!Next
    BY <1>1, <1>2 DEF LinkState, LiveIds, Expired
  <1>3. ASSUME NEW p \in Proc, Start(p) \/ Ready(p) \/ SweepStart(p)
                               \/ \E n \in Ids \cup Foreign : ClearOne(p, n)
        PROVE  Links!Next
    BY <1>2, <1>3 DEF Start, Ready, SweepStart, ClearOne
  <1>4. ASSUME NEW p \in Proc, Stop(p) PROVE Links!Next
    <2>1. \A id \in Ids : LinkState(id)' \in {LinkState(id), "dead"}
      BY <1>4 DEF Stop, LinkState, LiveIds, Expired, TypeOK, Phase
    <2>2. \A c \in Caller : call'[c] \in {call[c], Idle}
      BY <1>4 DEF Stop, TypeOK
    <2>3. QED
      BY <2>1, <2>2, KillStep
  <1>5. ASSUME NEW p \in Proc, SweepCollect(p) PROVE Links!Next
    BY <1>1, <1>5 DEF SweepCollect, Stale, LinkState, LiveIds, Expired, TypeOK, Phase
  <1>6. ASSUME NEW p \in Proc, NEW id \in Ids, PutWrite(p, id) PROVE Links!Next
    BY <1>1, <1>6 DEF PutWrite, LinkState, LiveIds, Expired, TypeOK, Phase
  <1>7. ASSUME NEW id \in Ids, PutStamp(id) PROVE Links!Next
    BY <1>1, <1>7 DEF PutStamp, LinkState, LiveIds, Expired, TypeOK, Phase
  <1>8. ASSUME NEW id \in Ids, Forget(id) \/ RemoveFile(id) PROVE Links!Next
    BY <1>1, <1>8 DEF Forget, RemoveFile, LinkState, LiveIds, Expired, TypeOK, Phase
  <1>9. CASE Tick
    BY <1>1, <1>9 DEF Tick, LinkState, LiveIds, Expired, TypeOK, Phase
  <1>10. ASSUME NEW c \in Caller, OpenCheck(c) PROVE Links!Next
    <2>1. call[c].pc = "found" /\ UNCHANGED <<phase, expires, now>>
      BY <1>10 DEF OpenCheck
    <2>2. CASE Expired(call[c].id, now)
      <3>1. call' = [call EXCEPT ![c].pc = "no"]
        BY <1>10, <2>2 DEF OpenCheck
      <3>2. seen[c].dead
        BY <2>1, <2>2 DEF Watched, LiveIds
      <3>3. QED
        BY <2>1, <3>1, <3>2, AnswerStep
    <2>3. CASE ~Expired(call[c].id, now)
      <3>1. call' = [call EXCEPT ![c].pc = "fresh"]
        BY <1>10, <2>3 DEF OpenCheck
      <3>2. /\ call'[c].pc = "fresh" /\ call'[c].id = call[c].id
            /\ \A d \in Caller \ {c} : call'[d] = call[d]
        BY <3>1 DEF TypeOK, Call
      <3>3. \A id \in Ids : LinkState(id)' \in {LinkState(id), "dead"}
        BY <2>1 DEF LinkState, LiveIds, Expired
      <3>4. QED
        BY <2>1, <3>2, <3>3, KillStep
    <2>4. QED
      BY <2>2, <2>3
  <1>11. ASSUME NEW c \in Caller, OpenRead(c) PROVE Links!Next
    <2>1. /\ call[c].pc = "fresh" /\ UNCHANGED <<phase, expires, now>>
          /\ call' = [call EXCEPT ![c].pc = IF call[c].id \in disk THEN "yes" ELSE "no"]
      BY <1>11 DEF OpenRead, Alone
    <2>2. seen[c].live /\ (call[c].id \in disk \/ seen[c].dead)
      BY <2>1 DEF SeenLive, SeenDead
    <2>3. PICK a \in {"yes", "no"} : a = IF call[c].id \in disk THEN "yes" ELSE "no"
      OBVIOUS
    <2>4. QED
      BY <2>1, <2>2, <2>3, AnswerStep
  <1>12. QED
    BY <1>3, <1>4, <1>5, <1>6, <1>7, <1>8, <1>9, <1>10, <1>11,
       IssueStep, LookupStep, DoneStep DEF Step

\* In a directory of its own, the store is a LinkStore: every step of its files,
\* registry, locks and clocks is a step of links that come to life once, die once and
\* stay dead, and of requests that are answered as their link was while they ran.
THEOREM LinksImplemented == ASSUME Alone PROVE Spec => ImplementsLinks
  <1>1. Init => Links!Init /\ Watched
    BY FileStoreAssumption DEF Init, Links!Init, Links!Unseen, LinkState, LiveIds, RequestState,
       Idle, Watched
  <1>2. LinksInv /\ TypeOK' /\ Book' /\ [Next]_vars => [Links!Next]_(Links!vars)
    <2>1. ASSUME LinksInv, TypeOK', Book', Next PROVE Links!Next
      BY <2>1, LinksStep DEF Next
    <2>2. ASSUME UNCHANGED vars PROVE UNCHANGED Links!vars
      BY <2>2 DEF vars, Links!vars, LinkState, LiveIds, Expired, RequestState
    <2>3. QED
      BY <2>1, <2>2
  <1>3. TypeOK /\ Watched /\ [Next]_vars => Watched'
    <2>1. ASSUME Watched, UNCHANGED vars PROVE Watched'
      BY <2>1 DEF vars, Watched, LiveIds, Expired
    <2>2. QED
      BY <2>1, WatchedStep
  <1>4. Spec => [](TypeOK /\ Book /\ SeenLive /\ Tidy /\ SeenDead)
    BY AloneInvariant, IInvariant, PTL
  <1>5. QED
    BY <1>1, <1>2, <1>3, <1>4, PTL DEF Spec, LinksInv, ImplementsLinks, Links!Spec

-----------------------------------------------------------------------------
(* The tools on top of the store (Exports): any number of processes, tools   *)
(* and reports, and file operations that may fail.                           *)

\* A call of a tool by itself: where it is, by when it has to go on, and what it asks for,
\* at time n.
CallOK(w, n) ==
    /\ w \in Tools
    /\ w # NoTool => w.pc # "idle" /\ w.proc \in Proc
    /\ w.ans # "none" => w.pc = "done"
    /\ w.pc \in Working => n <= w.by /\ w.by < w.began + Deadline + 2 * Slow + Longest
    /\ w.pc = "request" => /\ w.ask \in {"queue", "wait"} /\ w.by <= w.began + Slow
                           /\ w.said = "none" => w.rep = None
                           /\ w.said # "none" => w.rep \in Report
    /\ w.pc \in {"render", "download", "save", "done"} => w.rep = None
    /\ w.pc = "render"  => w.ask = "download" /\ w.by <= w.began + Slow
    /\ w.pc = "done"    => w.ask = "download"
    /\ w.pc = "status"  => /\ w.ask \in {"get", "wait"} /\ w.rep \in Report /\ w.by <= n + Slow
                           /\ w.ask = "get"  => w.by <= w.began + Slow
                           /\ w.ask = "wait" => w.by < w.until + Slow
    /\ w.pc = "pause"   => /\ w.ask = "wait" /\ w.rep \in Report
                           /\ w.by <= n + Poll /\ w.by < w.until + Slow + Poll
    /\ w.pc \in {"status", "pause"} /\ w.ask = "wait" => w.until <= w.began + Slow + Deadline

\* Once a report was ready in time, no question is left out before it is seen: an answer
\* under way that says otherwise comes early enough for a pause and another question.
ReadyOK(w, rp) ==
    /\ w.ready /\ w.pc \in Working =>
          /\ w.ask = "wait" /\ w.rep \in Report /\ rp[w.rep] = "ready"
          /\ \/ w.pc = "request" /\ w.said # "none"
             \/ w.pc = "status" /\ (w.said = "pending" => w.by + Poll < w.until)
             \/ w.pc = "pause" /\ w.by < w.until
    /\ w.ans = "late" => ~w.ready

\* A call runs in a process that runs, and saves a file of its own.
Hosted == \A t \in Tool : LET w == tool[t] IN
    /\ w.pc # "idle" => up[w.proc] = "up"
    /\ w.pc = "save" => /\ w.link \in Ids /\ phase[w.link] \in {"written", "stamped"}
                        /\ owner[w.link] = w.proc
                        /\ \A u \in Tool \ {t} : tool[u].pc = "save" => tool[u].link # w.link

\* A file that is written and not yet given up is on the disk; a link that was handed
\* out is registered until it is swept.
Kept == \A id \in Ids : phase[id] \in {"written", "stamped", "held"} => id \in disk
ToldHeld == \A id \in told : phase[id] \in {"held", "swept", "removed"}

CallsOK == \A t \in Tool : CallOK(tool[t], now) /\ ReadyOK(tool[t], report)

ToolsOK == /\ tool \in [Tool -> Tools] /\ CallsOK
           /\ report \in [Report -> State]

-----------------------------------------------------------------------------
(* The tools use the store as it is meant to be used. *)

\* Every step of the tools is a step of the store, other than Forget, or leaves it alone.
StoreMoves == \/ \E p \in Proc : \/ Start(p) \/ Ready(p) \/ Stop(p) \/ SweepStart(p) \/ SweepCollect(p)
                                 \/ \E n \in Ids \cup Foreign : ClearOne(p, n)
                                 \/ \E id \in Ids : PutWrite(p, id)
                                 \/ \E c \in Caller, id \in Ids : OpenLookup(c, p, id)
              \/ \E id \in Ids : PutStamp(id) \/ PutRegister(id) \/ RemoveFile(id)
              \/ \E c \in Caller : OpenCheck(c) \/ OpenRead(c) \/ Respond(c)
              \/ Tick

LEMMA StoreStep == ASSUME ToolsOK, Hosted, NextE
                   PROVE  (StoreMoves \/ UNCHANGED code) /\ Observe
<1>1. Observe
  BY DEF NextE
<1>2. ASSUME NEW t \in Tool, ToolStep(t)
      PROVE  StoreMoves \/ UNCHANGED code
  <2>1. CASE SaveDownload(t)
    <3>1. PICK id \in Ids : PutWrite(tool[t].proc, id)
      BY <2>1 DEF SaveDownload
    <3>2. tool[t].proc \in Proc
      BY <2>1 DEF SaveDownload, ToolsOK, CallsOK, CallOK, NoTool
    <3> QED  BY <3>1, <3>2 DEF StoreMoves
  <2>2. CASE Stamp(t) \/ HandOut(t)
    <3>1. tool[t].link \in Ids
      BY <2>2 DEF Stamp, HandOut, Hosted
    <3> QED  BY <2>2, <3>1 DEF Stamp, HandOut, StoreMoves
  <2>3. CASE \E p \in Proc : DownloadDocument(t, p) \/ GetActionsReport(t, p) \/ RequestActionsReport(t, p)
    BY <2>3 DEF DownloadDocument, GetActionsReport, RequestActionsReport, Begin
  <2>4. CASE \/ Queue(t) \/ Queued(t) \/ ReadStatus(t) \/ StatusOf(t) \/ Continue(t) \/ Rendered(t)
             \/ Fail(t) \/ Leave(t) \/ Return(t)
    BY <2>4 DEF Queue, Queued, ReadStatus, StatusOf, Continue, Rendered, Fail, Leave, Return
  <2> QED  BY <1>2, <2>1, <2>2, <2>3, <2>4 DEF ToolStep
<1>3. ASSUME NEW p \in Proc, StopAll(p)
      PROVE  StoreMoves
  BY <1>3 DEF StopAll, StoreMoves
<1>4. ASSUME NEW r \in Report, Build(r)
      PROVE  UNCHANGED code
  BY <1>4 DEF Build
<1>5. CASE Store
  <2>1. CASE \E p \in Proc : \/ Start(p) \/ Ready(p) \/ SweepStart(p) \/ SweepCollect(p)
                            \/ \E n \in Ids \cup Foreign : ClearOne(p, n)
                            \/ \E c \in Caller, id \in Ids : OpenLookup(c, p, id)
    BY <1>1, <2>1 DEF StoreMoves
  <2>2. CASE \E id \in Ids : RemoveFile(id)
    BY <1>1, <2>2 DEF StoreMoves
  <2>3. CASE \E c \in Caller : OpenCheck(c) \/ OpenRead(c) \/ Respond(c)
    BY <1>1, <2>3 DEF StoreMoves
  <2> QED  BY <1>1, <1>5, <2>1, <2>2, <2>3 DEF Store
<1>6. CASE Pass
  BY <1>1, <1>6 DEF Pass, StoreMoves
<1> QED  BY <1>1, <1>2, <1>3, <1>4, <1>5, <1>6 DEF NextE

LEMMA StoreInvStep == ASSUME TypeOK, Book, SeenLive, ToolsOK, Hosted, [NextE]_allVars
                      PROVE  TypeOK' /\ Book' /\ SeenLive'
<1>1. CASE UNCHANGED allVars
  BY <1>1, TypeStep, BookStep, SeenLiveStep DEF allVars
<1>2. CASE StoreMoves /\ Observe
  <2>1. Next
    BY <1>2 DEF StoreMoves, Next, Step
  <2> QED  BY <2>1, TypeStep, BookStep, SeenLiveStep
<1>3. CASE UNCHANGED code /\ Observe
  <2>1. TypeOK'
    BY <1>3, ObserveType DEF TypeOK, code
  <2>2. Book'
    BY <1>3 DEF Book, Owners, SweptExpired, Calls, Expired, code
  <2>3. SeenLive'
    <3>1. \A c \in Caller : call[c].pc # "idle" => (seen[c].live => seen'[c].live)
      BY <1>3, SeenStays DEF code
    <3> QED  BY <1>3, <3>1 DEF SeenLive, Expired, code
  <2> QED  BY <2>1, <2>2, <2>3
<1> QED  BY <1>1, <1>2, <1>3, StoreStep

-----------------------------------------------------------------------------
(* What becomes of the call of a tool. *)

LEMMA SendFields ==
  ASSUME NEW w \in Tools, NEW p \in Asking, now \in Nat
  PROVE  /\ Send(w, p) \in Tools
         /\ Send(w, p).pc = p /\ Send(w, p).by = now + Slow /\ Send(w, p).said = "none"
         /\ Send(w, p).ask = w.ask /\ Send(w, p).proc = w.proc /\ Send(w, p).rep = w.rep
         /\ Send(w, p).until = w.until /\ Send(w, p).began = w.began
         /\ Send(w, p).ans = w.ans /\ Send(w, p).ready = w.ready
<1> DEFINE v == [w EXCEPT !.pc = p, !.said = "none", !.by = now + Slow]
<1>1. now + Slow \in Nat /\ p \in Working \cup {"idle", "save", "done"}
  BY ExportsAssumption DEF Working
<1>2. v \in Tools
  BY <1>1 DEF Tools
<1>3. /\ v.pc = p /\ v.by = now + Slow /\ v.said = "none"
      /\ v.ask = w.ask /\ v.proc = w.proc /\ v.rep = w.rep
      /\ v.until = w.until /\ v.began = w.began /\ v.ans = w.ans
  BY DEF Tools
<1>4. v.ready = w.ready
  BY DEF Tools
<1> QED  BY <1>2, <1>3, <1>4 DEF Send

LEMMA NoToolFields ==
  /\ NoTool \in Tools /\ NoTool.pc = "idle" /\ NoTool.ans = "none" /\ NoTool.ready = FALSE
  /\ NoTool.rep = None
  /\ \A n \in Nat : CallOK(NoTool, n)
  /\ \A rp : ReadyOK(NoTool, rp)
<1>1. /\ NoTool \in Tools /\ NoTool.pc = "idle" /\ NoTool.ans = "none" /\ NoTool.ready = FALSE
      /\ NoTool.rep = None
  BY DEF NoTool, Tools, Working, Asking
<1>2. ASSUME NEW n \in Nat
      PROVE  CallOK(NoTool, n)
  BY <1>1 DEF Working, Asking, CallOK
<1>3. ASSUME NEW rp
      PROVE  ReadyOK(NoTool, rp)
  BY <1>1 DEF Working, Asking, ReadyOK
<1> QED  BY <1>1, <1>2, <1>3

\* The call that goes for its file.
LEMMA FetchFields ==
  ASSUME NEW w \in Tools, now \in Nat
  PROVE  /\ Fetch(w) \in Tools /\ Fetch(w).pc = "download" /\ Fetch(w).by = now + Slow
         /\ Fetch(w).ask = w.ask /\ Fetch(w).proc = w.proc /\ Fetch(w).began = w.began
         /\ Fetch(w).rep = None /\ Fetch(w).ans = "none" /\ Fetch(w).ready = FALSE
<1> DEFINE v == [NoTool EXCEPT !.ask = w.ask, !.proc = w.proc, !.began = w.began]
<1>1. /\ v \in Tools /\ v.ask = w.ask /\ v.proc = w.proc /\ v.began = w.began
      /\ v.rep = None /\ v.ans = "none" /\ v.ready = FALSE
  BY NoToolFields DEF NoTool, Tools
<1> HIDE DEF v
<1> QED  BY <1>1, SendFields DEF Asking, Fetch, v

\* A call that is over owes nothing.
LEMMA DoneOK ==
  ASSUME NEW w \in Tools, w.proc \in Proc,
         NEW a \in {"file", "status", "queued", "building", "late", "error", "left"},
         a = "late" => ~w.ready, NEW n \in Nat, NEW rp
  PROVE  /\ Done(w, a) \in Tools /\ Done(w, a).pc = "done" /\ Done(w, a).proc = w.proc
         /\ CallOK(Done(w, a), n) /\ ReadyOK(Done(w, a), rp)
<1>1. /\ Done(w, a) \in Tools /\ Done(w, a).pc = "done" /\ Done(w, a).ans = a
      /\ Done(w, a).proc = w.proc /\ Done(w, a).ask = "download" /\ Done(w, a).rep = None
      /\ Done(w, a).ready = w.ready
  <2> DEFINE v == [NoTool EXCEPT !.pc = "done", !.ans = a, !.proc = w.proc, !.ready = w.ready]
  <2>1. NoTool \in Tools
    BY NoToolFields
  <2>2. v \in Tools
    <3> DEFINE x == [NoTool EXCEPT !.pc = "done"]
               y == [x EXCEPT !.ans = a]
               z == [y EXCEPT !.proc = w.proc]
    <3>1. x \in Tools
      BY <2>1 DEF Tools
    <3> HIDE DEF x
    <3>2. y \in Tools
      BY <3>1 DEF Tools
    <3> HIDE DEF y
    <3>3. z \in Tools
      BY <3>2 DEF Tools
    <3> HIDE DEF z
    <3>4. [z EXCEPT !.ready = w.ready] \in Tools
      BY <3>3 DEF Tools
    <3> QED  BY <3>4 DEF x, y, z
  <2>3. v.pc = "done" /\ v.ans = a /\ v.proc = w.proc /\ v.ask = "download" /\ v.rep = None
    BY DEF NoTool
  <2>4. v.ready = w.ready
    BY DEF NoTool
  <2> QED  BY <2>2, <2>3, <2>4 DEF Done
<1> QED  BY <1>1 DEF CallOK, ReadyOK, Working, Asking

\* The call that Begin makes, and that it is in order.
Fresh(q, p, r, f) == Send([NoTool EXCEPT !.ask = q, !.proc = p, !.rep = r, !.began = now], f)

LEMMA BeginOK ==
  ASSUME NEW q \in {"download", "get", "queue", "wait"}, NEW p \in Proc,
         NEW r \in Report \cup {None}, NEW f \in Asking, now \in Nat,
         \/ f = "status" /\ q = "get" /\ r \in Report
         \/ f = "request" /\ q \in {"queue", "wait"} /\ r = None
         \/ f \in {"render", "download"} /\ q = "download" /\ r = None,
         NEW rp
  PROVE  /\ CallOK(Fresh(q, p, r, f), now) /\ ReadyOK(Fresh(q, p, r, f), rp)
         /\ Fresh(q, p, r, f).proc = p /\ Fresh(q, p, r, f).pc = f
<1> DEFINE w == [NoTool EXCEPT !.ask = q, !.proc = p, !.rep = r, !.began = now]
           v == Send(w, f)
<1>1. /\ w \in Tools /\ w.ask = q /\ w.proc = p /\ w.rep = r /\ w.began = now
      /\ w.ans = "none" /\ w.ready = FALSE
  BY NoToolFields DEF NoTool, Tools
<1> HIDE DEF w
<1>2. /\ v \in Tools /\ v.pc = f /\ v.by = now + Slow /\ v.ask = q /\ v.proc = p /\ v.rep = r
      /\ v.said = "none"
      /\ v.began = now /\ v.ans = "none" /\ v.ready = FALSE
  BY <1>1, SendFields
<1> HIDE DEF v
<1>3. CallOK(v, now) /\ ReadyOK(v, rp) /\ v.proc = p /\ v.pc = f
  BY <1>2, ExportsAssumption DEF CallOK, ReadyOK, Asking, Working, Longest, Tools
<1> QED  BY <1>3 DEF v, w, Fresh

\* A question that is asked before the deadline.
LEMMA PolledOK ==
  ASSUME NEW w \in Tools, w.proc \in Proc, w.ask = "wait", w.rep \in Report, now \in Nat,
         w.until <= w.began + Slow + Deadline, w.ans = "none", NEW rp,
         w.ready => now < w.until /\ rp[w.rep] = "ready"
  PROVE  /\ CallOK(Polled(w), now) /\ ReadyOK(Polled(w), rp)
         /\ Polled(w).proc = w.proc /\ Polled(w).pc \in {"status", "done"}
<1>1. CASE now < w.until
  <2> DEFINE v == Send(w, "status")
  <2>1. /\ v \in Tools /\ v.pc = "status" /\ v.by = now + Slow /\ v.ask = "wait" /\ v.proc = w.proc
        /\ v.said = "none"
        /\ v.rep = w.rep /\ v.until = w.until /\ v.began = w.began /\ v.ans = w.ans /\ v.ready = w.ready
    BY SendFields DEF Asking
  <2> HIDE DEF v
  <2>2. CallOK(v, now) /\ ReadyOK(v, rp)
    BY <1>1, <2>1, ExportsAssumption DEF CallOK, ReadyOK, Asking, Working, Longest, Tools
  <2> QED  BY <1>1, <2>1, <2>2 DEF Polled, v
<1>2. CASE ~(now < w.until)
  BY <1>2, DoneOK DEF Polled
<1> QED  BY <1>1, <1>2

\* What a tool says of a failure.
LEMMA FailedOK ==
  ASSUME NEW w \in Tools, w.proc \in Proc, NEW n \in Nat, NEW rp
  PROVE  /\ CallOK(Failed(w), n) /\ ReadyOK(Failed(w), rp)
         /\ Failed(w).proc = w.proc /\ Failed(w).pc = "done"
BY DoneOK DEF Failed

\* Going for the file.
LEMMA FetchOK ==
  ASSUME NEW w \in Tools, w.proc \in Proc, now \in Nat, NEW rp,
         now + Slow < w.began + Deadline + 2 * Slow + Longest
  PROVE  /\ CallOK(Fetch(w), now) /\ ReadyOK(Fetch(w), rp)
         /\ Fetch(w).proc = w.proc /\ Fetch(w).pc = "download"
<1> DEFINE v == Fetch(w)
<1>1. /\ v \in Tools /\ v.pc = "download" /\ v.by = now + Slow /\ v.proc = w.proc
      /\ v.began = w.began /\ v.rep = None /\ v.ans = "none" /\ v.ready = FALSE
  BY FetchFields
<1> HIDE DEF v
<1>2. CallOK(v, now) /\ ReadyOK(v, rp)
  BY <1>1, ExportsAssumption DEF CallOK, ReadyOK, Working, Asking, Tools
<1> QED  BY <1>1, <1>2 DEF v

\* What tool t's own step makes of its call.
Becomes(t, v) == /\ tool' = [tool EXCEPT ![t] = v]
                 /\ CallOK(v, now) /\ ReadyOK(v, report')
                 /\ v.pc # "idle" => up[v.proc] = "up"
                 /\ v.pc = "save" => SaveDownload(t) \/ v = tool[t]

LEMMA ToolMoves ==
  ASSUME TypeOK, ToolsOK, Hosted, NEW t \in Tool, ToolStep(t)
  PROVE  /\ \E v : Becomes(t, v)
         /\ now' = now
<1> DEFINE w == tool[t]
<1>1. /\ w \in Tools /\ CallOK(w, now) /\ ReadyOK(w, report) /\ now \in Nat
  BY DEF ToolsOK, CallsOK, TypeOK
<1>2. w.pc # "idle" => w.proc \in Proc
  BY <1>1 DEF CallOK, NoTool
<1>3. tool = [tool EXCEPT ![t] = w]
  BY DEF ToolsOK
<1>0. (w.pc # "idle" => up[w.proc] = "up") /\ w = tool[t]
  BY DEF Hosted
<1> HIDE DEF w
<1>4. ASSUME NEW p \in Proc, DownloadDocument(t, p)
      PROVE  (\E v : Becomes(t, v)) /\ now' = now
  <2>1. PICK f \in {"download", "render"} : Begin(t, p, "download", f, None)
    BY <1>4 DEF DownloadDocument
  <2> DEFINE v == Fresh("download", p, None, f)
  <2>2. CallOK(v, now) /\ ReadyOK(v, report) /\ v.proc = p /\ v.pc = f
    <3>1. f \in Asking
      BY DEF Asking
    <3> QED  BY <1>1, <3>1, BeginOK
  <2>3. tool' = [tool EXCEPT ![t] = v] /\ now' = now /\ report' = report /\ up[p] = "up"
    BY <2>1 DEF Begin, Fresh, code
  <2> QED  BY <2>2, <2>3 DEF Becomes
<1>5. ASSUME NEW p \in Proc, GetActionsReport(t, p)
      PROVE  (\E v : Becomes(t, v)) /\ now' = now
  <2>1. PICK r \in Report : Begin(t, p, "get", "status", r)
    BY <1>5 DEF GetActionsReport
  <2> DEFINE v == Fresh("get", p, r, "status")
  <2>2. CallOK(v, now) /\ ReadyOK(v, report) /\ v.proc = p /\ v.pc = "status"
    <3>1. "status" \in Asking
      BY DEF Asking
    <3> QED  BY <1>1, <3>1, BeginOK
  <2>3. tool' = [tool EXCEPT ![t] = v] /\ now' = now /\ report' = report /\ up[p] = "up"
    BY <2>1 DEF Begin, Fresh, code
  <2> QED  BY <2>2, <2>3 DEF Becomes
<1>6. ASSUME NEW p \in Proc, RequestActionsReport(t, p)
      PROVE  (\E v : Becomes(t, v)) /\ now' = now
  <2>1. PICK q \in {"queue", "wait"} : Begin(t, p, q, "request", None)
    BY <1>6 DEF RequestActionsReport
  <2> DEFINE v == Fresh(q, p, None, "request")
  <2>2. CallOK(v, now) /\ ReadyOK(v, report) /\ v.proc = p /\ v.pc = "request"
    <3>1. "request" \in Asking
      BY DEF Asking
    <3> QED  BY <1>1, <3>1, BeginOK
  <2>3. tool' = [tool EXCEPT ![t] = v] /\ now' = now /\ report' = report /\ up[p] = "up"
    BY <2>1 DEF Begin, Fresh, code
  <2> QED  BY <2>2, <2>3 DEF Becomes
<1>7. CASE Queue(t)
  <2>1. PICK r \in Report :
          /\ report[r] = "not_found" /\ report' = [report EXCEPT ![r] = "pending"]
          /\ \/ UNCHANGED tool
             \/ tool' = [tool EXCEPT ![t].rep = r, ![t].said = "pending"]
    BY <1>7 DEF Queue
  <2>2. now' = now /\ w.pc = "request" /\ w.said = "none"
    BY <1>7 DEF Queue, code, w
  <2>3. /\ w.ask \in {"queue", "wait"} /\ ~w.ready /\ w.proc \in Proc /\ w.ans = "none"
        /\ now <= w.by /\ w.by <= w.began + Slow /\ w.by < w.began + Deadline + 2 * Slow + Longest
    BY <1>1, <1>2, <2>2 DEF CallOK, ReadyOK, Working, Asking
  <2>4. CASE UNCHANGED tool
    <3>1. ReadyOK(w, report')
      BY <1>1, <2>2, <2>3 DEF ReadyOK
    <3> QED  BY <1>0, <1>1, <1>3, <2>2, <2>4, <3>1 DEF Becomes
  <2>5. CASE tool' = [tool EXCEPT ![t].rep = r, ![t].said = "pending"]
    <3> DEFINE v == [w EXCEPT !.rep = r, !.said = "pending"]
    <3>1. /\ v \in Tools /\ v.pc = "request" /\ v.said = "pending" /\ v.rep = r /\ v.ask = w.ask
          /\ v.proc = w.proc /\ v.by = w.by /\ v.began = w.began /\ v.ans = w.ans
      BY <1>1, <2>2 DEF Tools, State
    <3>2. v.ready = w.ready
      BY <1>1 DEF Tools
    <3>3. tool' = [tool EXCEPT ![t] = v]
      BY <1>0, <2>5
    <3> HIDE DEF v
    <3>4. CallOK(v, now) /\ ReadyOK(v, report')
      BY <2>3, <3>1, <3>2 DEF CallOK, ReadyOK, Working, Asking
    <3> QED  BY <1>0, <2>2, <3>1, <3>3, <3>4 DEF Becomes
  <2> QED  BY <2>1, <2>4, <2>5
<1>8. CASE Queued(t)
  <2>1. /\ w.pc = "request" /\ w.said # "none" /\ now' = now /\ report' = report
        /\ tool' = [tool EXCEPT ![t] = IF w.ask = "queue" THEN Done(w, "queued")
                                       ELSE Polled([w EXCEPT !.until = now + Deadline])]
    BY <1>8 DEF Queued, code, w
  <2>2. /\ w.ask \in {"queue", "wait"} /\ w.proc \in Proc /\ w.ans = "none" /\ w.rep \in Report
        /\ now <= w.by /\ w.by <= w.began + Slow
        /\ w.ready => report[w.rep] = "ready"
    BY <1>1, <1>2, <2>1 DEF CallOK, ReadyOK, Working, Asking
  <2>3. CASE w.ask = "queue"
    <3>1. tool' = [tool EXCEPT ![t] = Done(w, "queued")]
      BY <2>1, <2>3
    <3>2. /\ CallOK(Done(w, "queued"), now) /\ ReadyOK(Done(w, "queued"), report')
          /\ Done(w, "queued").proc = w.proc /\ Done(w, "queued").pc = "done"
      BY <1>1, <2>2, DoneOK
    <3> QED  BY <1>0, <2>1, <3>1, <3>2 DEF Becomes
  <2>4. CASE w.ask = "wait"
    <3> DEFINE x == [w EXCEPT !.until = now + Deadline]
    <3>1. /\ x \in Tools /\ x.proc = w.proc /\ x.ask = "wait" /\ x.rep = w.rep
          /\ x.until = now + Deadline /\ x.began = w.began /\ x.ans = w.ans /\ x.ready = w.ready
      <4>1. now + Deadline \in Nat
        BY <1>1, ExportsAssumption
      <4>2. x \in Tools
        BY <1>1, <4>1 DEF Tools
      <4>3. /\ x.proc = w.proc /\ x.ask = w.ask /\ x.rep = w.rep
            /\ x.until = now + Deadline /\ x.began = w.began /\ x.ans = w.ans
        BY <1>1 DEF Tools
      <4>4. x.ready = w.ready
        BY <1>1 DEF Tools
      <4> QED  BY <2>4, <4>2, <4>3, <4>4
    <3>2. x.until <= x.began + Slow + Deadline /\ now < x.until
      BY <1>1, <2>2, <3>1, ExportsAssumption DEF Tools
    <3>3. tool' = [tool EXCEPT ![t] = Polled(x)]
      BY <2>1, <2>4
    <3> HIDE DEF x
    <3>4. /\ CallOK(Polled(x), now) /\ ReadyOK(Polled(x), report)
          /\ Polled(x).proc = x.proc /\ Polled(x).pc \in {"status", "done"}
      BY <1>1, <2>2, <3>1, <3>2, PolledOK
    <3>5. up[w.proc] = "up" /\ x.proc = w.proc /\ now' = now /\ report' = report
      BY <1>0, <2>1, <3>1
    <3> QED  BY <3>3, <3>4, <3>5 DEF Becomes
  <2> QED  BY <2>2, <2>3, <2>4
<1>9. CASE ReadStatus(t)
  <2>1. /\ w.pc = "status" /\ w.said = "none" /\ now' = now /\ report' = report
        /\ tool' = [tool EXCEPT ![t].said = report[w.rep]]
    BY <1>9 DEF ReadStatus, code, w
  <2>2. w.rep \in Report /\ report[w.rep] \in State /\ w.proc \in Proc
    BY <1>1, <1>2, <2>1 DEF CallOK, ToolsOK
  <2> DEFINE v == [w EXCEPT !.said = report[w.rep]]
  <2>3. /\ v \in Tools /\ v.pc = w.pc /\ v.said = report[w.rep] /\ v.rep = w.rep /\ v.ask = w.ask
        /\ v.proc = w.proc /\ v.by = w.by /\ v.began = w.began /\ v.ans = w.ans /\ v.until = w.until
    BY <1>1, <2>2 DEF Tools
  <2>4. v.ready = w.ready
    BY <1>1 DEF Tools
  <2>5. tool' = [tool EXCEPT ![t] = v]
    BY <1>0, <2>1
  <2> HIDE DEF v
  <2>6. CallOK(v, now) /\ ReadyOK(v, report)
    BY <1>1, <2>1, <2>2, <2>3, <2>4 DEF CallOK, ReadyOK, Working, Asking
  <2>7. up[v.proc] = "up" /\ v.pc = "status" /\ now' = now /\ report' = report
    BY <1>0, <2>1, <2>3
  <2> QED  BY <2>5, <2>6, <2>7 DEF Becomes
<1>10. CASE StatusOf(t)
  <2>1. /\ w.pc = "status" /\ w.said # "none" /\ now' = now /\ report' = report
        /\ tool' = [tool EXCEPT ![t] =
             CASE w.said = "ready" -> Fetch(w)
               [] w.said # "ready" /\ w.ask = "get" -> Done(w, "status")
               [] w.said = "pending" /\ w.ask = "wait" -> [w EXCEPT !.pc = "pause", !.by = now + Poll]
               [] w.said = "not_found" /\ w.ask = "wait" -> Failed(w)]
    BY <1>10 DEF StatusOf, code, w
  <2>2. /\ w.ask \in {"get", "wait"} /\ w.rep \in Report /\ w.proc \in Proc /\ w.ans = "none"
        /\ w.ask = "get"  => w.by <= w.began + Slow
        /\ w.ask = "wait" => w.by < w.until + Slow /\ w.until <= w.began + Slow + Deadline
        /\ now <= w.by /\ w.said \in {"not_found", "pending", "ready"}
        /\ w.ready => report[w.rep] = "ready" /\ (w.said = "pending" => w.by + Poll < w.until)
    BY <1>1, <1>2, <2>1 DEF CallOK, ReadyOK, Working, Asking, Tools, State
  <2>3. CASE w.said = "ready"
    <3>1. now + Slow < w.began + Deadline + 2 * Slow + Longest
      BY <1>1, <2>2, ExportsAssumption DEF Longest, Tools
    <3>2. tool' = [tool EXCEPT ![t] = Fetch(w)]
      BY <2>1, <2>3
    <3> QED  BY <1>0, <1>1, <2>1, <2>2, <3>1, <3>2, FetchOK DEF Becomes
  <2>4. CASE w.said # "ready" /\ w.ask = "get"
    <3>1. tool' = [tool EXCEPT ![t] = Done(w, "status")]
      BY <2>1, <2>4
    <3>2. /\ CallOK(Done(w, "status"), now) /\ ReadyOK(Done(w, "status"), report')
          /\ Done(w, "status").proc = w.proc /\ Done(w, "status").pc = "done"
      BY <1>1, <2>2, DoneOK
    <3> QED  BY <1>0, <2>1, <3>1, <3>2 DEF Becomes
  <2>5. CASE w.said = "pending" /\ w.ask = "wait"
    <3> DEFINE v == [w EXCEPT !.pc = "pause", !.by = now + Poll]
    <3>1. /\ v \in Tools /\ v.pc = "pause" /\ v.by = now + Poll /\ v.ask = w.ask /\ v.proc = w.proc
          /\ v.rep = w.rep /\ v.until = w.until /\ v.began = w.began /\ v.ans = w.ans /\ v.ready = w.ready
      <4>1. now + Poll \in Nat /\ "pause" \in Working \cup {"idle", "save", "done"}
        BY <1>1, ExportsAssumption DEF Working
      <4>2. v \in Tools
        BY <1>1, <4>1 DEF Tools
      <4>3. /\ v.pc = "pause" /\ v.by = now + Poll /\ v.ask = w.ask /\ v.proc = w.proc
            /\ v.rep = w.rep /\ v.until = w.until /\ v.began = w.began /\ v.ans = w.ans
        BY <1>1 DEF Tools
      <4>4. v.ready = w.ready
        BY <1>1 DEF Tools
      <4> QED  BY <4>2, <4>3, <4>4
    <3>2. tool' = [tool EXCEPT ![t] = v]
      BY <2>1, <2>5
    <3> HIDE DEF v
    <3>3. now + Poll < w.began + Deadline + 2 * Slow + Longest /\ now + Poll < w.until + Slow + Poll
      BY <1>1, <2>2, <2>5, ExportsAssumption DEF Longest, Tools
    <3>4. w.ready => now + Poll < w.until
      BY <1>1, <2>2, <2>5, ExportsAssumption DEF Tools
    <3>5. CallOK(v, now) /\ ReadyOK(v, report)
      BY <1>1, <2>2, <2>5, <3>1, <3>3, <3>4, ExportsAssumption DEF CallOK, ReadyOK, Working, Asking, Tools
    <3> QED  BY <1>0, <2>1, <3>1, <3>2, <3>5 DEF Becomes
  <2>6. CASE w.said = "not_found" /\ w.ask = "wait"
    <3>1. tool' = [tool EXCEPT ![t] = Failed(w)]
      BY <2>1, <2>6
    <3> QED  BY <1>0, <1>1, <2>1, <2>2, <3>1, FailedOK DEF Becomes
  <2> QED  BY <2>2, <2>3, <2>4, <2>5, <2>6
<1>11. CASE Continue(t)
  <2>1. /\ w.pc = "pause" /\ now >= w.by /\ now' = now /\ report' = report
        /\ tool' = [tool EXCEPT ![t] = Polled(w)]
    BY <1>11 DEF Continue, code, w
  <2>2. /\ w.ask = "wait" /\ w.rep \in Report /\ w.proc \in Proc /\ w.ans = "none"
        /\ w.until <= w.began + Slow + Deadline /\ now <= w.by
        /\ w.ready => report[w.rep] = "ready" /\ w.by < w.until
    BY <1>1, <1>2, <2>1 DEF CallOK, ReadyOK, Working
  <2>3. w.ready => now < w.until
    BY <1>1, <2>1, <2>2 DEF Tools
  <2>4. /\ CallOK(Polled(w), now) /\ ReadyOK(Polled(w), report)
        /\ Polled(w).proc = w.proc /\ Polled(w).pc \in {"status", "done"}
    BY <1>1, <2>2, <2>3, PolledOK
  <2> QED  BY <1>0, <2>1, <2>4 DEF Becomes
<1>12. CASE Rendered(t)
  <2>1. /\ w.pc = "render" /\ now' = now /\ report' = report
        /\ tool' = [tool EXCEPT ![t] = Fetch(w)]
    BY <1>12 DEF Rendered, code, w
  <2>2. w.proc \in Proc /\ now <= w.by /\ w.by <= w.began + Slow
    BY <1>1, <1>2, <2>1 DEF CallOK, Working, Asking
  <2>3. now + Slow < w.began + Deadline + 2 * Slow + Longest
    BY <1>1, <2>2, ExportsAssumption DEF Longest, Tools
  <2> QED  BY <1>0, <1>1, <2>1, <2>2, <2>3, FetchOK DEF Becomes
<1>13. CASE SaveDownload(t)
  <2>1. /\ w.pc = "download" /\ now' = now /\ report' = report
        /\ \E id \in Ids : tool' = [tool EXCEPT ![t] =
               IF phase'[id] = "written" THEN [NoTool EXCEPT !.pc = "save", !.proc = w.proc, !.link = id]
               ELSE Failed(w)]
    BY <1>13 DEF SaveDownload, PutWrite, w
  <2>2. ASSUME NEW id \in Ids
        PROVE  LET v == [NoTool EXCEPT !.pc = "save", !.proc = w.proc, !.link = id]
               IN  CallOK(v, now) /\ ReadyOK(v, report) /\ v.proc = w.proc /\ v.pc = "save"
    <3> DEFINE v == [NoTool EXCEPT !.pc = "save", !.proc = w.proc, !.link = id]
    <3>1. /\ v \in Tools /\ v.pc = "save" /\ v.proc = w.proc /\ v.proc \in Proc /\ v.ans = "none"
          /\ v.rep = None
      BY <1>2, <2>1, NoToolFields DEF NoTool, Tools
    <3> HIDE DEF v
    <3>2. CallOK(v, now) /\ ReadyOK(v, report)
      BY <3>1 DEF CallOK, ReadyOK, Working, Asking
    <3> QED  BY <3>1, <3>2 DEF v
  <2>3. CallOK(Failed(w), now) /\ ReadyOK(Failed(w), report) /\ Failed(w).proc = w.proc /\ Failed(w).pc = "done"
    BY <1>1, <1>2, <2>1, FailedOK
  <2> QED  BY <1>0, <1>13, <2>1, <2>2, <2>3 DEF Becomes
<1>14. CASE Stamp(t)
  BY <1>0, <1>1, <1>3, <1>14 DEF Stamp, PutStamp, exports, Becomes
<1>15. CASE HandOut(t)
  <2>1. w.pc = "save" /\ now' = now /\ report' = report /\ tool' = [tool EXCEPT ![t] = Done(w, "file")]
    BY <1>15 DEF HandOut, PutRegister, w
  <2>2. /\ CallOK(Done(w, "file"), now) /\ ReadyOK(Done(w, "file"), report')
        /\ Done(w, "file").proc = w.proc /\ Done(w, "file").pc = "done"
    BY <1>1, <1>2, <2>1, DoneOK
  <2> QED  BY <1>0, <2>1, <2>1, <2>2 DEF Becomes
<1>16. CASE Fail(t)
  <2>1. w.pc \in Asking /\ now' = now /\ report' = report /\ tool' = [tool EXCEPT ![t] = Failed(w)]
    BY <1>16 DEF Fail, code, w
  <2> QED  BY <1>0, <1>1, <1>2, <2>1, FailedOK DEF Becomes, Asking
<1>17. CASE Leave(t)
  <2>1. w.pc \in Working /\ now' = now /\ report' = report /\ tool' = [tool EXCEPT ![t] = Done(w, "left")]
    BY <1>17 DEF Leave, code, w
  <2>2. /\ CallOK(Done(w, "left"), now) /\ ReadyOK(Done(w, "left"), report')
        /\ Done(w, "left").proc = w.proc /\ Done(w, "left").pc = "done"
    BY <1>1, <1>2, <2>1, DoneOK DEF Asking, Working
  <2> QED  BY <1>0, <2>1, <2>1, <2>2 DEF Becomes, Asking, Working
<1>18. CASE Return(t)
  <2>1. now' = now /\ report' = report /\ tool' = [tool EXCEPT ![t] = NoTool]
    BY <1>18 DEF Return, code
  <2> QED  BY <1>1, <2>1, NoToolFields DEF Becomes
<1> QED  BY <1>4, <1>5, <1>6, <1>7, <1>8, <1>9, <1>10, <1>11, <1>12, <1>13, <1>14, <1>15, <1>16, <1>17, <1>18 DEF ToolStep

\* A report that is ready stays so.
LEMMA ReportsStay ==
  ASSUME ToolsOK, NextE, NEW r \in Report
  PROVE  report[r] = "ready" => report'[r] = "ready"
<1>1. ASSUME NEW t \in Tool, Queue(t)
      PROVE  report[r] = "ready" => report'[r] = "ready"
  BY <1>1 DEF Queue, ToolsOK
<1>2. ASSUME NEW q \in Report, Build(q)
      PROVE  report[r] = "ready" => report'[r] = "ready"
  BY <1>2 DEF Build, ToolsOK
<1>3. ASSUME NEW t \in Tool, ToolStep(t), ~Queue(t)
      PROVE  report' = report
  BY <1>3 DEF ToolStep, DownloadDocument, GetActionsReport, RequestActionsReport, Begin,
     Queued, ReadStatus, StatusOf, Continue, Rendered, SaveDownload, Stamp, HandOut, Fail, Leave,
     Return, exports
<1>4. ASSUME NEW p \in Proc, StopAll(p)
      PROVE  report' = report
  BY <1>4 DEF StopAll
<1>5. Store \/ Pass => report' = report
  BY DEF Store, Pass, exports
<1> QED  BY <1>1, <1>2, <1>3, <1>4, <1>5 DEF NextE

LEMMA ReportTypes == ASSUME ToolsOK, NextE
                     PROVE  report' \in [Report -> State]
<1>1. ASSUME NEW t \in Tool, ToolStep(t)
      PROVE  report' \in [Report -> State]
  BY <1>1 DEF ToolsOK, ToolStep, DownloadDocument, GetActionsReport, RequestActionsReport, Begin,
     Queue, Queued, ReadStatus, StatusOf, State, Continue, Rendered, SaveDownload, Stamp, HandOut, Fail, Leave, Return, exports
<1>2. ASSUME NEW r \in Report, Build(r)
      PROVE  report' \in [Report -> State]
  BY <1>2 DEF ToolsOK, Build, State
<1>3. (\E p \in Proc : StopAll(p)) \/ Store \/ Pass => report' = report
  BY DEF StopAll, Store, Pass, exports
<1> QED  BY <1>1, <1>2, <1>3 DEF ToolsOK, NextE

\* A call at which nothing happens stays in order.
LEMMA Waits ==
  ASSUME ToolsOK, NextE, NEW t \in Tool, NEW n \in Nat, CallOK(tool[t], n)
  PROVE  CallOK(tool[t], n) /\ ReadyOK(tool[t], report')
<1>1. ReadyOK(tool[t], report)
  BY DEF ToolsOK, CallsOK
<1> QED  BY <1>1, ReportsStay DEF ReadyOK

LEMMA BuildMoves ==
  ASSUME TypeOK, ToolsOK, NEW r \in Report, Build(r)
  PROVE  ToolsOK'
<1>1. /\ report[r] = "pending" /\ report' = [report EXCEPT ![r] = "ready"] /\ now' = now
      /\ tool' = [t \in Tool |->
             IF tool[t].ask = "wait" /\ tool[t].rep = r
             THEN [tool[t] EXCEPT !.ready = @ \/ tool[t].pc = "request"
                                            \/ now + Poll + Slow < tool[t].until]
             ELSE tool[t]]
  BY DEF Build, code
<1>2. report' \in [Report -> State] /\ report'[r] = "ready"
  BY <1>1 DEF ToolsOK, State
<1>3. ASSUME NEW t \in Tool
      PROVE  tool'[t] \in Tools /\ CallOK(tool'[t], now) /\ ReadyOK(tool'[t], report')
  <2> DEFINE w == tool[t]
  <2>1. w \in Tools /\ CallOK(w, now) /\ ReadyOK(w, report)
    BY DEF ToolsOK, CallsOK
  <2>2. CASE ~(w.ask = "wait" /\ w.rep = r)
    <3>1. tool'[t] = w
      BY <1>1, <2>2
    <3>2. \A q \in Report : report[q] = "ready" => report'[q] = "ready"
      BY <1>1, <1>2 DEF ToolsOK
    <3>3. ReadyOK(w, report')
      BY <2>1, <3>2 DEF ReadyOK
    <3> QED  BY <2>1, <3>1, <3>3
  <2>3. CASE w.ask = "wait" /\ w.rep = r
    <3> DEFINE b == w.ready \/ w.pc = "request" \/ now + Poll + Slow < w.until
               v == [w EXCEPT !.ready = b]
    <3>1. tool'[t] = v
      BY <1>1, <2>3
    <3>2. b \in BOOLEAN
      BY <2>1 DEF Tools
    <3> HIDE DEF w
    <3>3. v \in Tools /\ v.ready = b
      <4> HIDE DEF b
      <4> QED  BY <2>1, <3>2 DEF Tools
    <3>4. /\ v.pc = w.pc /\ v.ask = w.ask /\ v.proc = w.proc /\ v.rep = w.rep /\ v.until = w.until
          /\ v.by = w.by /\ v.began = w.began /\ v.ans = w.ans /\ v.link = w.link /\ v.said = w.said
      BY <2>1 DEF Tools
    <3>5. v # NoTool /\ w # NoTool
      BY <2>3, <3>4 DEF NoTool
    <3> HIDE DEF v, b
    <3>6. CallOK(v, now)
      BY <2>1, <3>3, <3>4, <3>5 DEF CallOK
    <3>7. /\ w.pc \in Working => w.pc \in {"request", "status", "pause"}
          /\ w.pc = "request" => w.said # "none"
      BY <2>1, <2>3, ExportsAssumption DEF CallOK, Working, Asking
    <3>8. ~(w.ready /\ w.pc \in Working)
      BY <1>1, <2>1, <2>3 DEF ReadyOK
    <3>9. /\ b /\ w.pc = "pause" => w.by < w.until
          /\ b /\ w.pc = "status" => w.by + Poll < w.until
      <4>1. now \in Nat /\ w.until \in Nat /\ w.by \in Nat
        BY <2>1 DEF Tools, TypeOK
      <4>2. CASE w.pc = "pause"
        <5>1. w.by <= now + Poll /\ ~w.ready
          BY <2>1, <3>8, <4>2 DEF CallOK, Working
        <5> QED  BY <4>1, <4>2, <5>1, ExportsAssumption DEF b
      <4>3. CASE w.pc = "status"
        <5>1. w.by <= now + Slow /\ ~w.ready
          BY <2>1, <3>8, <4>3 DEF CallOK, Working, Asking
        <5> QED  BY <4>1, <4>3, <5>1, ExportsAssumption DEF b
      <4> QED  BY <4>2, <4>3
    <3>10. w.ans = "late" => FALSE
      BY <2>1, <2>3, ExportsAssumption DEF CallOK
    <3>11. ReadyOK(v, report')
      BY <1>2, <2>3, <3>3, <3>4, <3>7, <3>9, <3>10 DEF ReadyOK
    <3> QED  BY <3>1, <3>3, <3>6, <3>11
  <2> QED  BY <2>2, <2>3
<1> QED  BY <1>1, <1>2, <1>3 DEF ToolsOK, CallsOK


LEMMA ToolsStep ==
  ASSUME TypeOK, TypeOK', ToolsOK, Hosted, NextE
  PROVE  ToolsOK'
<1>1. report' \in [Report -> State]
  BY ReportTypes
<1>2. now \in Nat /\ now' \in Nat
  BY DEF TypeOK
<1>3. ASSUME now' = now, NEW t \in Tool, tool'[t] = tool[t]
      PROVE  CallOK(tool'[t], now') /\ ReadyOK(tool'[t], report')
  BY <1>2, <1>3, Waits DEF ToolsOK, CallsOK
<1>4. ASSUME NEW t \in Tool, ToolStep(t)
      PROVE  ToolsOK'
  <2>1. PICK v : Becomes(t, v)
    BY <1>4, ToolMoves
  <2>2. now' = now
    BY <1>4, ToolMoves
  <2>3. v \in Tools /\ CallOK(v, now') /\ ReadyOK(v, report')
    BY <2>1, <2>2 DEF Becomes, CallOK
  <2>4. tool' \in [Tool -> Tools] /\ \A u \in Tool : tool'[u] = IF u = t THEN v ELSE tool[u]
    BY <2>1, <2>3 DEF Becomes, ToolsOK
  <2> QED  BY <1>1, <1>3, <2>2, <2>3, <2>4 DEF ToolsOK, CallsOK
<1>5. ASSUME NEW r \in Report, Build(r)
      PROVE  ToolsOK'
  BY <1>5, BuildMoves
<1>6. ASSUME NEW p \in Proc, StopAll(p)
      PROVE  ToolsOK'
  <2>1. now' = now /\ tool' = [t \in Tool |-> IF tool[t].proc = p THEN NoTool ELSE tool[t]]
    BY <1>6 DEF StopAll, Stop
  <2>2. ASSUME NEW t \in Tool
        PROVE  tool'[t] \in Tools /\ CallOK(tool'[t], now') /\ ReadyOK(tool'[t], report')
    <3>1. CASE tool'[t] = NoTool
      BY <1>2, <3>1, NoToolFields
    <3>2. CASE tool'[t] = tool[t]
      BY <1>3, <2>1, <3>2 DEF ToolsOK
    <3> QED  BY <2>1, <3>1, <3>2
  <2> QED  BY <1>1, <2>1, <2>2 DEF ToolsOK, CallsOK
<1>7. CASE Store
  <2>1. tool' = tool /\ now' = now
    BY <1>7 DEF Store, exports, Start, Ready, SweepStart, SweepCollect, ClearOne, OpenLookup,
       RemoveFile, OpenCheck, OpenRead, Respond
  <2> QED  BY <1>1, <1>3, <2>1 DEF ToolsOK, CallsOK
<1>8. CASE Pass
  <2>1. /\ tool' = tool /\ now' = now + 1
        /\ \A t \in Tool : tool[t].pc \in Working => now < tool[t].by
    BY <1>8 DEF Pass, Tick, exports
  <2>2. ASSUME NEW t \in Tool
        PROVE  CallOK(tool[t], now')
    <3>1. CallOK(tool[t], now) /\ tool[t] \in Tools
      BY DEF ToolsOK, CallsOK
    <3> QED  BY <1>2, <2>1, <3>1, ExportsAssumption DEF CallOK, Tools
  <2>3. ASSUME NEW t \in Tool
        PROVE  ReadyOK(tool[t], report')
    BY <1>2, <2>2, Waits
  <2> QED  BY <1>1, <2>1, <2>2, <2>3 DEF ToolsOK, CallsOK
<1> QED  BY <1>4, <1>5, <1>6, <1>7, <1>8 DEF NextE

-----------------------------------------------------------------------------
(* The files of the tools. *)

\* The store by itself ends no process and touches no file that is being saved.
LEMMA StoreLeaves ==
  ASSUME TypeOK, Store \/ Pass
  PROVE  /\ \A p \in Proc : up[p] = "up" => up'[p] = "up"
         /\ \A id \in Ids : phase[id] \in {"written", "stamped"} => phase'[id] = phase[id]
         /\ owner' = owner /\ tool' = tool /\ told' = told
BY DEF TypeOK, Phase, Store, Pass, exports, Start, Ready, SweepStart, SweepCollect, Stale, ClearOne,
   OpenLookup, RemoveFile, OpenCheck, OpenRead, Respond, Tick

\* Most steps of a tool do not touch the store at all.
LEMMA ToolLeaves ==
  ASSUME NEW t \in Tool, ToolStep(t), ~SaveDownload(t), ~Stamp(t), ~HandOut(t)
  PROVE  UNCHANGED code /\ told' = told
BY DEF ToolStep, DownloadDocument, GetActionsReport, RequestActionsReport, Begin, Queue, Queued, ReadStatus,
   StatusOf, Continue, Rendered, Fail, Leave, Return

LEMMA HostedStep ==
  ASSUME TypeOK, Book, ToolsOK, Hosted, NextE
  PROVE  Hosted'
<1>1. \A t \in Tool : tool[t].pc # "idle" => tool[t].proc \in Proc
  BY DEF ToolsOK, CallsOK, CallOK, NoTool
<1>2. ASSUME NEW t \in Tool, ToolStep(t)
      PROVE  Hosted'
  <2>1. PICK v : Becomes(t, v)
    BY <1>2, ToolMoves
  <2>2. tool'[t] = v /\ \A u \in Tool \ {t} : tool'[u] = tool[u]
    BY <2>1 DEF Becomes, ToolsOK
  <2>3. CASE UNCHANGED code /\ ~SaveDownload(t)
    BY <2>1, <2>2, <2>3 DEF Becomes, Hosted, code
  <2>4. CASE SaveDownload(t)
    <3>1. PICK id \in Ids :
            /\ PutWrite(tool[t].proc, id)
            /\ tool' = [tool EXCEPT ![t] =
                 IF phase'[id] = "written"
                 THEN [NoTool EXCEPT !.pc = "save", !.proc = tool[t].proc, !.link = id] ELSE Failed(tool[t])]
            /\ tool[t].pc = "download"
      BY <2>4 DEF SaveDownload
    <3>2. /\ phase[id] = "unused" /\ up' = up /\ owner'[id] = tool[t].proc
          /\ \A i \in Ids \ {id} : phase'[i] = phase[i] /\ owner'[i] = owner[i]
      BY <3>1 DEF PutWrite, TypeOK
    <3>3. v.pc = "save" => /\ v.link = id /\ v.proc = tool[t].proc /\ phase'[id] = "written"
      <4>1. CASE phase'[id] = "written"
        <5>1. v = [NoTool EXCEPT !.pc = "save", !.proc = tool[t].proc, !.link = id]
          BY <2>2, <3>1, <4>1 DEF ToolsOK
        <5> QED  BY <4>1, <5>1 DEF NoTool
      <4>2. CASE phase'[id] # "written"
        <5>1. v = Failed(tool[t])
          BY <2>2, <3>1, <4>2 DEF ToolsOK
        <5>2. Failed(tool[t]).pc = "done"
          BY DEF Failed, Done, NoTool
        <5> QED  BY <5>1, <5>2
      <4> QED  BY <4>1, <4>2
    <3>4. \A u \in Tool \ {t} : tool[u].pc = "save" => tool[u].link # id
      BY <3>2 DEF Hosted
    <3>5. up[v.proc] = "up" \/ v.pc = "idle"
      BY <2>1 DEF Becomes
    <3> QED  BY <2>2, <3>2, <3>3, <3>4, <3>5 DEF Hosted
  <2>5. CASE Stamp(t)
    <3>1. /\ up' = up /\ owner' = owner /\ tool' = tool
          /\ \A i \in Ids : phase'[i] = IF i = tool[t].link THEN "stamped" ELSE phase[i]
      BY <2>5 DEF Stamp, PutStamp, exports, TypeOK
    <3> QED  BY <3>1 DEF Hosted
  <2>6. CASE HandOut(t)
    <3>1. /\ up' = up /\ owner' = owner /\ tool[t].pc = "save"
          /\ tool' = [tool EXCEPT ![t] = Done(tool[t], "file")]
          /\ \A i \in Ids : i # tool[t].link => phase'[i] = phase[i]
      BY <2>6 DEF HandOut, PutRegister, TypeOK
    <3>2. v.pc = "done"
      BY <2>2, <3>1 DEF Done, NoTool, ToolsOK
    <3>3. up[v.proc] = "up"
      BY <2>1, <3>2 DEF Becomes
    <3> QED  BY <2>2, <3>1, <3>2, <3>3 DEF Hosted
  <2> QED  BY <1>2, <2>3, <2>4, <2>5, <2>6, ToolLeaves
<1>3. ASSUME NEW r \in Report, Build(r)
      PROVE  Hosted'
  <2>1. UNCHANGED code
    BY <1>3 DEF Build
  <2>2. ASSUME NEW t \in Tool
        PROVE  tool'[t].pc = tool[t].pc /\ tool'[t].proc = tool[t].proc /\ tool'[t].link = tool[t].link
    <3>1. tool[t] \in Tools
      BY DEF ToolsOK
    <3>2. tool'[t] = tool[t] \/ \E b : tool'[t] = [tool[t] EXCEPT !.ready = b]
      BY <1>3 DEF Build
    <3> QED  BY <3>1, <3>2 DEF Tools
  <2> QED  BY <2>1, <2>2 DEF Hosted, code
<1>4. ASSUME NEW p \in Proc, StopAll(p)
      PROVE  Hosted'
  <2>1. /\ tool' = [t \in Tool |-> IF tool[t].proc = p THEN NoTool ELSE tool[t]]
        /\ phase' = [id \in Ids |-> IF owner[id] = p THEN "gone" ELSE phase[id]]
        /\ up' = [up EXCEPT ![p] = "down"] /\ owner' = owner
    BY <1>4 DEF StopAll, Stop
  <2>2. \A t \in Tool : tool'[t].pc # "idle" => tool'[t] = tool[t] /\ tool[t].proc # p
    BY <2>1 DEF NoTool
  <2>3. \A q \in Proc : q # p => up'[q] = up[q]
    BY <2>1 DEF TypeOK
  <2> QED  BY <1>1, <2>1, <2>2, <2>3 DEF Hosted
<1>5. CASE Store \/ Pass
  <2>1. /\ \A p \in Proc : up[p] = "up" => up'[p] = "up"
        /\ \A id \in Ids : phase[id] \in {"written", "stamped"} => phase'[id] = phase[id]
        /\ owner' = owner /\ tool' = tool
    BY <1>5, StoreLeaves
  <2> QED  BY <1>1, <2>1 DEF Hosted
<1> QED  BY <1>2, <1>3, <1>4, <1>5 DEF NextE

-----------------------------------------------------------------------------
(* The theorems about the tools. *)

EInv == TypeOK /\ Book /\ SeenLive /\ ToolsOK /\ Hosted /\ told \subseteq Ids

LEMMA EInit == ASSUME InitE
               PROVE  EInv /\ Kept /\ ToldHeld
<1>1. TypeOK /\ Book /\ SeenLive
  BY FileStoreAssumption
     DEF InitE, Init, TypeOK, Phase, Call, Idle, Book, Owners, SweptExpired, Calls, SeenLive
<1>2. ToolsOK
  BY <1>1, NoToolFields DEF InitE, ToolsOK, CallsOK, TypeOK, State
<1>3. Hosted /\ told \subseteq Ids /\ Kept /\ ToldHeld
  BY NoToolFields DEF InitE, Init, Hosted, Kept, ToldHeld
<1> QED  BY <1>1, <1>2, <1>3 DEF EInv

LEMMA ToldIds == ASSUME EInv, NextE
                 PROVE  told' \subseteq Ids
<1>1. ASSUME NEW t \in Tool, ToolStep(t)
      PROVE  told' \subseteq Ids
  BY <1>1, ToolLeaves DEF EInv, Hosted, SaveDownload, Stamp, HandOut, exports
<1>2. (\E r \in Report : Build(r)) \/ (\E p \in Proc : StopAll(p)) \/ Store \/ Pass => told' \subseteq told
  BY DEF Build, StopAll, Store, Pass, exports
<1> QED  BY <1>1, <1>2 DEF NextE, EInv

LEMMA EStep == ASSUME EInv, [NextE]_allVars
               PROVE  EInv'
<1>1. TypeOK' /\ Book' /\ SeenLive'
  BY StoreInvStep DEF EInv
<1>2. CASE NextE
  BY <1>1, <1>2, ToolsStep, HostedStep, ToldIds DEF EInv
<1>3. CASE UNCHANGED allVars
  <2>1. ToolsOK'
    BY <1>3 DEF EInv, ToolsOK, CallsOK, CallOK, ReadyOK, allVars, vars, exports
  <2>2. Hosted' /\ told' \subseteq Ids
    BY <1>3 DEF EInv, Hosted, allVars, vars, exports
  <2> QED  BY <1>1, <2>1, <2>2 DEF EInv
<1> QED  BY <1>2, <1>3

\* One process has the directory for itself.
OneProcess == \E p \in Proc : Proc = {p}

\* A file under way or registered is removed by nobody.
LEMMA KeptStep == ASSUME OneProcess, EInv, Kept, [NextE]_allVars
                  PROVE  Kept'
<1>0. PICK q \in Proc : Proc = {q}
  BY DEF OneProcess
<1> USE DEF EInv, Kept, TypeOK, Book, Owners, Phase
<1>1. CASE StoreMoves
  <2>1. CASE Start(q) \/ Ready(q) \/ Stop(q) \/ SweepStart(q) \/ SweepCollect(q)
    BY <2>1 DEF Start, Ready, Stop, SweepStart, SweepCollect
  <2>2. ASSUME NEW n \in Ids \cup Foreign, ClearOne(q, n)
        PROVE  Kept'
    <3>1. \A id \in Ids : phase[id] \notin {"written", "stamped", "held"}
      BY <1>0, <2>2, FileStoreAssumption DEF ClearOne
    <3> QED  BY <2>2, <3>1 DEF ClearOne
  <2>3. ASSUME NEW id \in Ids, PutWrite(q, id)
        PROVE  Kept'
    BY <2>3 DEF PutWrite
  <2>4. ASSUME NEW id \in Ids, PutStamp(id) \/ PutRegister(id)
        PROVE  Kept'
    BY <2>4 DEF PutStamp, PutRegister
  <2>5. ASSUME NEW id \in Ids, RemoveFile(id)
        PROVE  Kept'
    BY <2>5 DEF RemoveFile, Unlink
  <2>6. ASSUME NEW c \in Caller,
               OpenCheck(c) \/ OpenRead(c) \/ Respond(c) \/ \E id \in Ids : OpenLookup(c, q, id)
        PROVE  Kept'
    BY <2>6 DEF OpenCheck, OpenRead, Respond, OpenLookup
  <2>7. CASE Tick
    BY <2>7 DEF Tick
  <2> QED  BY <1>0, <1>1, <2>1, <2>2, <2>3, <2>4, <2>5, <2>6, <2>7 DEF StoreMoves
<1>2. CASE UNCHANGED code
  BY <1>2 DEF code
<1>3. CASE UNCHANGED allVars
  BY <1>3 DEF allVars, vars
<1> QED  BY <1>1, <1>2, <1>3, StoreStep

\* A link that was handed out leaves the registry only by Sweep.
LEMMA ToldStep == ASSUME OneProcess, EInv, ToldHeld, [NextE]_allVars
                  PROVE  ToldHeld'
<1>0. PICK q \in Proc : Proc = {q}
  BY DEF OneProcess
<1> USE DEF EInv, ToldHeld, TypeOK, Phase
<1>1. ASSUME NEW t \in Tool, ToolStep(t)
      PROVE  ToldHeld'
  <2>1. CASE UNCHANGED code /\ told' = told
    BY <2>1 DEF code
  <2>2. CASE SaveDownload(t)
    BY <2>2 DEF SaveDownload, PutWrite
  <2>3. CASE Stamp(t)
    BY <2>3 DEF Stamp, PutStamp, exports
  <2>4. CASE HandOut(t)
    BY <2>4 DEF HandOut, PutRegister, Hosted
  <2> QED  BY <1>1, <2>1, <2>2, <2>3, <2>4, ToolLeaves
<1>2. ASSUME NEW r \in Report, Build(r)
      PROVE  ToldHeld'
  BY <1>2 DEF Build, code
<1>3. CASE StopAll(q)
  <2>1. \A id \in told : owner[id] = q
    BY <1>0 DEF Book, Owners
  <2> QED  BY <1>3, <2>1 DEF StopAll
<1>4. CASE Store \/ Pass
  BY <1>4 DEF Store, Pass, exports, Start, Ready, SweepStart, SweepCollect, ClearOne, OpenLookup,
     RemoveFile, OpenCheck, OpenRead, Respond, Tick
<1>5. CASE UNCHANGED allVars
  BY <1>5 DEF allVars, vars, exports
<1> QED  BY <1>0, <1>1, <1>2, <1>3, <1>4, <1>5 DEF NextE

LEMMA EInvariant == SpecE => []EInv
<1>1. InitE => EInv
  BY EInit
<1>2. EInv /\ [NextE]_allVars => EInv'
  BY EStep
<1> QED  BY <1>1, <1>2, PTL DEF SpecE

\* Calls and reports stay what they are, a call has a process that runs, and a file
\* is saved by one tool.
THEOREM ExportsTypeCorrect == SpecE => []ExportsTypeOK
<1>1. EInv => ExportsTypeOK
  <2> SUFFICES ASSUME EInv PROVE ExportsTypeOK
    OBVIOUS
  <2>1. ASSUME NEW t \in Tool, tool[t] # NoTool
        PROVE  up[tool[t].proc] = "up"
    BY <2>1 DEF EInv, ToolsOK, CallsOK, CallOK, Hosted
  <2> QED  BY <2>1 DEF EInv, ToolsOK, Hosted, ExportsTypeOK
<1> QED  BY <1>1, EInvariant, PTL

\* What the store serves with tools on top of it was live, too.
THEOREM ExportsServeLive == SpecE => []ServedWasLive
<1>1. EInv => ServedWasLive
  BY DEF EInv, SeenLive, ServedWasLive
<1> QED  BY <1>1, EInvariant, PTL

\* The link in an answer works until the time in the answer, whatever is swept or
\* cleared and whichever file operations fail, as long as the process runs and no
\* other one empties its directory.
THEOREM ToldLinksWorkAlways == ASSUME OneProcess PROVE SpecE => []ToldLinksWork
<1>1. InitE => EInv /\ Kept /\ ToldHeld
  BY EInit
<1>2. EInv /\ Kept /\ ToldHeld /\ [NextE]_allVars => (EInv /\ Kept /\ ToldHeld)'
  BY EStep, KeptStep, ToldStep
<1>3. EInv /\ Kept /\ ToldHeld => ToldLinksWork
  BY DEF EInv, Kept, ToldHeld, Book, SweptExpired, ToldLinksWork
<1> QED  BY <1>1, <1>2, <1>3, PTL DEF SpecE

\* The report of a wait can become ready while an answer that says otherwise is under way,
\* or in a pause; the wait is not given up before it has asked again, if that was more
\* than a pause and a request before its deadline.
THEOREM GivenUpLateAlways == SpecE => []GivenUpLate
<1>1. EInv => GivenUpLate
  BY DEF EInv, ToolsOK, CallsOK, ReadyOK, GivenUpLate
<1> QED  BY <1>1, EInvariant, PTL

\* However its requests, pauses and questions fall, a call does not work past the
\* deadline by more than its requests take.
THEOREM EndsInTimeAlways == SpecE => []EndsInTime
<1>1. EInv => EndsInTime
  <2> SUFFICES ASSUME EInv, NEW t \in Tool, tool[t].pc \in Working
               PROVE  now < tool[t].began + Deadline + 2 * Slow + Longest
    BY DEF EndsInTime
  <2>1. CallOK(tool[t], now) /\ now \in Nat
    BY DEF EInv, ToolsOK, CallsOK, TypeOK
  <2> QED  BY <2>1, ExportsAssumption DEF CallOK, Tools, Longest
<1> QED  BY <1>1, EInvariant, PTL

\* The tools leave the store alone or take a step of it, and requests watch on.
LEMMA AloneEStep ==
    ASSUME Alone, EInv, EInv', Tidy, SeenDead, Watched, [NextE]_allVars
    PROVE  (Tidy /\ SeenDead /\ Watched)' /\ [Links!Next]_(Links!vars)
<1> USE DEF EInv
<1>1. CASE StoreMoves /\ Observe
  <2>1. Step /\ Next
    BY <1>1 DEF StoreMoves, Next, Step
  <2>2. Links!Next
    BY <1>1, <2>1, LinksStep DEF LinksInv
  <2> QED  BY <2>1, <2>2, TidyStep, SeenDeadStep, WatchedStep
<1>2. CASE UNCHANGED code /\ Observe
  <2>1. Tidy'
    BY <1>2 DEF code, Tidy
  <2>2. \A c \in Caller : call[c].pc # "idle" => (seen[c].dead => seen'[c].dead)
    BY <1>2, SeenStays DEF code
  <2>3. SeenDead'
    BY <1>2, <2>2 DEF code, SeenDead
  <2>4. Watched'
    <3> SUFFICES ASSUME NEW c \in Caller, call[c].pc \in {"found", "fresh"}
                 PROVE  /\ call'[c].id \in LiveIds' => seen'[c].live
                        /\ call'[c].id \notin LiveIds' => seen'[c].dead
      BY <1>2 DEF Watched, code
    <3> QED  BY <1>2, SeenNow DEF code
  <2>5. /\ \A id \in Ids : LinkState(id)' = LinkState(id)
        /\ UNCHANGED call
    BY <1>2 DEF code, LinkState, LiveIds, Expired
  <2> QED  BY <1>2, <2>1, <2>3, <2>4, <2>5, KillStep
<1>3. CASE UNCHANGED allVars
  <2>1. UNCHANGED vars /\ UNCHANGED Links!vars
    BY <1>3 DEF allVars, vars, Links!vars, LinkState, LiveIds, Expired, RequestState
  <2> QED  BY <2>1 DEF vars, Tidy, SeenDead, Watched, LiveIds, Expired
<1> QED  BY <1>1, <1>2, <1>3, StoreStep

\* Alone in its directory and with a file system that works, the store is a LinkStore to
\* whoever holds a link when the files come from the tools, too: nothing that a tool
\* does, fails at or leaves undone makes a link die early, or live again.
THEOREM ExportsImplementLinks == ASSUME Alone PROVE SpecE => ImplementsLinks
<1>1. InitE => Links!Init /\ Tidy /\ SeenDead /\ Watched
  BY FileStoreAssumption DEF InitE, Init, Links!Init, Links!Unseen, LinkState, LiveIds,
     RequestState, Idle, Watched, Tidy, SeenDead
<1>2. EInv /\ EInv' /\ Tidy /\ SeenDead /\ Watched /\ [NextE]_allVars
      => (Tidy /\ SeenDead /\ Watched)' /\ [Links!Next]_(Links!vars)
  BY AloneEStep
<1> QED  BY <1>1, <1>2, EInvariant, PTL DEF SpecE, ImplementsLinks, Links!Spec
=============================================================================
