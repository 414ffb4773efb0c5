--------------------------- MODULE RegisterProofs --------------------------
(* What walking through a changing register guarantees, for any documents,  *)
(* readers, page sizes, limits and delays: the type invariant, that a walk  *)
(* to the end misses nothing, and that the windows of a reader leave no gap. *)
EXTENDS Register, FiniteSetTheorems, TLAPS

-----------------------------------------------------------------------------
(* Counting documents *)

LEMMA Finite ==
    ASSUME NEW S \in SUBSET Docs
    PROVE  IsFiniteSet(S) /\ Cardinality(S) \in Nat
BY RegisterAssumption, FS_Subset, FS_CardinalityType

LEMMA BeforeType ==
    ASSUME NEW S \in SUBSET Docs, NEW d \in Docs
    PROVE  Before(d, S) \in Nat
<1>1. {e \in S : e < d} \in SUBSET Docs
  OBVIOUS
<1> QED BY <1>1, Finite DEF Before

\* In a larger list as many documents or more come before one.
LEMMA BeforeGrows ==
    ASSUME NEW S \in SUBSET Docs, NEW T \in SUBSET Docs, S \subseteq T, NEW d \in Docs
    PROVE  Before(d, S) <= Before(d, T)
<1> DEFINE A == {e \in S : e < d}
           B == {e \in T : e < d}
<1>1. A \in SUBSET B /\ B \in SUBSET Docs
  OBVIOUS
<1>2. IsFiniteSet(B)
  BY <1>1, Finite
<1>3. Cardinality(A) <= Cardinality(B)
  BY ONLY <1>1, <1>2, FS_Subset
<1> QED BY <1>3 DEF Before

\* Not all documents of a list come before one of them.
LEMMA BeforeBounded ==
    ASSUME NEW S \in SUBSET Docs, NEW d \in S
    PROVE  Before(d, S) < Cardinality(S)
<1> DEFINE A == {e \in S : e < d}
<1>1. A \in SUBSET S /\ d \notin A /\ IsFiniteSet(S) /\ A \in SUBSET Docs
  <2>1. ~ d < d
    BY RegisterAssumption
  <2> QED BY <2>1, Finite
<1>2. A # S
  BY <1>1
<1>3. Cardinality(A) <= Cardinality(S) /\ Cardinality(A) # Cardinality(S)
  BY ONLY <1>1, <1>2, FS_Subset
<1>4. Cardinality(A) \in Nat /\ Cardinality(S) \in Nat
  BY <1>1, Finite
<1> QED BY <1>3, <1>4 DEF Before

-----------------------------------------------------------------------------
(* Types *)

LEMMA AsksType ==
    /\ \A ask \in Nat : /\ Limit(ask) \in Nat /\ 0 < Limit(ask) /\ Limit(ask) <= MaxPageSize * MaxPages
                        /\ Pages(ask) \in Nat /\ 0 < Pages(ask) /\ Pages(ask) <= MaxPages
    /\ SyncLimit \in Nat /\ 0 < SyncLimit /\ SyncLimit <= MaxPageSize * MaxPages
<1>1. \A ask \in Nat : /\ Limit(ask) \in Nat /\ 0 < Limit(ask) /\ Limit(ask) <= MaxPageSize
                       /\ Pages(ask) \in Nat /\ 0 < Pages(ask) /\ Pages(ask) <= MaxPages
  BY RegisterAssumption DEF Limit, Pages
<1> DEFINE M == MaxPageSize * MaxPages
<1>2. M \in Nat \ {0} /\ MaxPageSize <= M /\ MaxPageSize \in Nat /\ SyncRows \in Nat \ {0}
  BY RegisterAssumption
<1> HIDE DEF M
<1>3. SyncLimit = IF SyncRows > M THEN M ELSE SyncRows
  BY DEF SyncLimit, M
<1>4. /\ \A ask \in Nat : Limit(ask) <= M
      /\ SyncLimit \in Nat /\ 0 < SyncLimit /\ SyncLimit <= M
  BY <1>1, <1>2, <1>3
<1> QED BY <1>1, <1>4 DEF M

LEMMA ListedType ==
    ASSUME NEW w, NEW g
    PROVE  Listed(w, g) \in SUBSET Docs /\ Wanted(w, g) \in SUBSET Docs
BY DEF Listed, Wanted, Matching

LEMMA IdleType == Idle \in Walks /\ Bounded(Idle)
BY RegisterAssumption DEF Idle, Walks, Lists, Bounded

\* What a walk sees of the register never moves it.
LEMMA WatchedType ==
    ASSUME NEW w \in Walks, NEW g, NEW D
    PROVE  /\ Watched(w, g, D) \in Walks
           /\ Bounded(w) => Bounded(Watched(w, g, D))
           /\ Watched(w, g, D).pc = w.pc /\ Watched(w, g, D).goal = w.goal
           /\ Watched(w, g, D).list = w.list /\ Watched(w, g, D).from = w.from
           /\ Watched(w, g, D).to = w.to /\ Watched(w, g, D).cursor = w.cursor
           /\ Watched(w, g, D).out = w.out /\ Watched(w, g, D).got = w.got
           /\ Watched(w, g, D).cut = w.cut
<1>1. CASE w.pc \notin {"fetch", "paused"}
  BY <1>1 DEF Watched
<1>2. CASE w.pc \in {"fetch", "paused"}
  <2> DEFINE s == w.shrunk \/ ~(Listed(w, reg) \subseteq Listed(w, g))
             t == w.grown  \/ ~(Listed(w, g) \subseteq Listed(w, reg))
             a == w.want \cap Wanted(w, g)
             b == w.stale \cup (w.out \cap D)
  <2>1. Watched(w, g, D) = [w EXCEPT !.shrunk = s, !.grown = t, !.want = a, !.stale = b]
    BY <1>2 DEF Watched
  <2>2. w.shrunk \in BOOLEAN /\ w.grown \in BOOLEAN /\ w.want \in SUBSET Docs
        /\ w.stale \in SUBSET Docs /\ w.out \in SUBSET Docs
    BY DEF Walks
  <2>3. s \in BOOLEAN /\ t \in BOOLEAN /\ a \in SUBSET Docs /\ b \in SUBSET Docs
    BY <2>2
  <2> DEFINE v == [w EXCEPT !.shrunk = s, !.grown = t, !.want = a, !.stale = b]
  <2> HIDE DEF s, t, a, b
  <2>4. v \in Walks
    BY <2>3 DEF Walks
  <2>5. /\ v.pc = w.pc /\ v.goal = w.goal /\ v.list = w.list /\ v.from = w.from /\ v.to = w.to
        /\ v.cursor = w.cursor /\ v.out = w.out /\ v.got = w.got /\ v.cut = w.cut
        /\ v.limit = w.limit /\ v.left = w.left /\ v.n = w.n
    BY DEF Walks
  <2> HIDE DEF v
  <2>6. Bounded(w) => Bounded(v)
    BY <2>5 DEF Bounded
  <2>7. Watched(w, g, D) = v
    BY <2>1 DEF v
  <2> QED BY <2>4, <2>5, <2>6, <2>7
<1> QED BY <1>1, <1>2

LEMMA WatchType ==
    ASSUME TypeOK, NEW D, Watch(D)
    PROVE  walk' \in [Reader -> Walks] /\ \A r \in Reader : Bounded(walk'[r])
<1>1. \A r \in Reader : Watched(walk[r], reg', D) \in Walks /\ Bounded(Watched(walk[r], reg', D))
  BY WatchedType DEF TypeOK
<1> QED BY <1>1 DEF Watch

\* A step of the register that leaves the readers' own state alone.
LEMMA TypeStep ==
    ASSUME TypeOK, NEW D, Watch(D), reg' \in [Docs -> Entries], UNCHANGED <<now, since, gap>>,
           shown' \in [Reader -> SUBSET Docs], owed' \subseteq Docs, dropped' \subseteq Docs
    PROVE  TypeOK'
<1>1. walk' \in [Reader -> Walks] /\ \A r \in Reader : Bounded(walk'[r])
  BY WatchType
<1> QED BY <1>1 DEF TypeOK

LEMMA UnmarkType ==
    ASSUME TypeOK, NEW D, Unmark(D)
    PROVE  reg' \in [Docs -> Entries]
BY DEF TypeOK, Unmark, Entries

LEMMA PageType ==
    ASSUME NEW w \in Walks
    PROVE  /\ Rows(w) \in SUBSET Listed(w, reg) /\ Rows(w) \in SUBSET Docs
           /\ Kept(w) \in SUBSET Rows(w)
           /\ Cardinality(Rows(w)) \in Nat /\ Following(w) \in Nat
<1>1. Rows(w) \in SUBSET Listed(w, reg) /\ Rows(w) \in SUBSET Docs
  BY ListedType DEF Rows, Page
<1>2. Cardinality(Rows(w)) \in Nat
  BY <1>1, Finite
<1>3. Following(w) \in Nat
  BY RegisterAssumption DEF Following, NextCursor, Walks
<1> QED BY <1>1, <1>2, <1>3 DEF Kept

LEMMA CollectedType ==
    ASSUME NEW w \in Walks, Bounded(w), w.pc = "fetch"
    PROVE  Collected(w) \in Walks /\ Bounded(Collected(w))
<1> DEFINE last == Last(w)
           next == Following(w)
           rows == Rows(w)
           kept == Kept(w)
           size == Cardinality(rows)
           M == MaxPageSize * MaxPages
<1>1. rows \in SUBSET Docs /\ kept \in SUBSET Docs /\ size \in Nat /\ next \in Nat
  BY PageType
<1>2. last <=> w.n + size >= w.limit \/ next = 0 \/ w.left = 1
  BY DEF Last
<1>3. M \in Nat /\ w.limit <= M /\ w.left <= MaxPages /\ w.left > 0 /\ MaxPages \in Nat
  BY RegisterAssumption DEF Bounded
<1> HIDE DEF last, next, rows, kept, size, M
<1> DEFINE pc == IF ~last THEN "fetch" ELSE IF next = 0 THEN "done" ELSE "paused"
           limit == IF last THEN 0 ELSE w.limit
           left == IF last THEN 0 ELSE w.left - 1
           n == IF last THEN 0 ELSE w.n + size
           out == IF last THEN {} ELSE w.out \cup kept
           stale == IF last THEN {} ELSE w.stale \ kept
           got == w.got \cup kept
           twice == w.twice \/ kept \cap w.got # {}
           cut == w.cut \/ kept # rows
           shrunk == w.shrunk \/ (w.list = "flagged" /\ next # 0)
<1>4. /\ w.limit \in Nat /\ w.left \in Nat /\ w.n \in Nat /\ w.out \in SUBSET Docs
      /\ w.stale \in SUBSET Docs /\ w.got \in SUBSET Docs /\ w.twice \in BOOLEAN
      /\ w.cut \in BOOLEAN /\ w.shrunk \in BOOLEAN
  BY DEF Walks
<1>5. /\ pc \in {"idle", "fetch", "paused", "done"} /\ limit \in Nat /\ left \in Nat /\ n \in Nat
      /\ limit <= M /\ left <= MaxPages /\ (pc = "fetch" => left > 0 /\ n < limit)
      /\ (pc = "paused" => n = 0)
  BY <1>1, <1>2, <1>3, <1>4
<1>6. /\ out \in SUBSET Docs /\ stale \in SUBSET Docs /\ got \in SUBSET Docs
      /\ twice \in BOOLEAN /\ cut \in BOOLEAN /\ shrunk \in BOOLEAN
  BY <1>1, <1>4
<1>7. Collected(w) = [w EXCEPT !.pc = pc, !.cursor = next, !.limit = limit, !.left = left, !.n = n,
         !.out = out, !.stale = stale, !.got = got, !.twice = twice, !.cut = cut, !.shrunk = shrunk]
  BY DEF Collected, last, next, rows, kept, size, Walks
<1> HIDE DEF pc, limit, left, n, out, stale, got, twice, cut, shrunk
<1>8. Collected(w) \in Walks
  <2> DEFINE a == [w EXCEPT !.pc = pc, !.cursor = next, !.limit = limit, !.left = left, !.n = n]
  <2>1. a \in Walks
    BY <1>1, <1>5 DEF Walks
  <2>2. Collected(w) = [a EXCEPT !.out = out, !.stale = stale, !.got = got, !.twice = twice,
                                 !.cut = cut, !.shrunk = shrunk]
    BY <1>7 DEF Walks
  <2> HIDE DEF a
  <2> QED BY <1>6, <2>1, <2>2 DEF Walks
<1>9. Collected(w).pc = pc /\ Collected(w).limit = limit /\ Collected(w).left = left /\ Collected(w).n = n
  BY <1>7 DEF Walks
<1> QED BY <1>5, <1>8, <1>9 DEF Bounded, M

-----------------------------------------------------------------------------
(* TypeOK is inductive. *)

LEMMA TypeInit == Init => TypeOK
<1> SUFFICES ASSUME Init PROVE TypeOK
  OBVIOUS
<1>1. walk \in [Reader -> Walks] /\ \A r \in Reader : Bounded(walk[r])
  BY IdleType DEF Init
<1> QED BY <1>1 DEF Init, TypeOK, Entries

LEMMA FloorType == \A t \in Nat : Floor(t) \in Nat /\ Floor(t) <= t
<1> SUFFICES ASSUME NEW t \in Nat PROVE t - (t % Minute) \in Nat /\ t - (t % Minute) <= t
  BY DEF Floor
<1>1. Minute \in Nat \ {0}
  BY RegisterAssumption
<1>2. t % Minute \in 0 .. Minute - 1 /\ (t < Minute => t % Minute = t)
  BY <1>1, SMT
<1> QED BY <1>1, <1>2

LEMMA TypeRegister == TypeOK /\ Register => TypeOK'
<1> SUFFICES ASSUME TypeOK, Register PROVE TypeOK'
  OBVIOUS
<1>1. CASE Tick
  BY <1>1 DEF Tick, TypeOK
<1>2. ASSUME NEW d \in Docs, Upload(d) PROVE TypeOK'
  <2>1. reg' \in [Docs -> Entries]
    BY <1>2 DEF Upload, TypeOK, Entries
  <2>2. /\ Watch({}) /\ UNCHANGED <<now, since, gap>> /\ shown' \in [Reader -> SUBSET Docs]
        /\ owed' \subseteq Docs /\ dropped' \subseteq Docs
    BY <1>2 DEF Upload, TypeOK
  <2> QED BY <2>1, <2>2, TypeStep
<1>3. ASSUME NEW d \in Docs, MarkProcessed(d) PROVE TypeOK'
  <2>1. reg' \in [Docs -> Entries]
    BY <1>3 DEF MarkProcessed, TypeOK, Entries
  <2>2. /\ Watch({}) /\ UNCHANGED <<now, since, gap>> /\ shown' \in [Reader -> SUBSET Docs]
        /\ owed' \subseteq Docs /\ dropped' \subseteq Docs
    BY <1>3 DEF MarkProcessed, TypeOK
  <2> QED BY <2>1, <2>2, TypeStep
<1>4. ASSUME NEW d \in Docs, Delete(d) PROVE TypeOK'
  <2>1. reg' \in [Docs -> Entries]
    BY <1>4 DEF Delete, TypeOK, Entries
  <2>2. /\ Watch({}) /\ UNCHANGED <<now, since, gap>> /\ shown' \in [Reader -> SUBSET Docs]
        /\ owed' \subseteq Docs /\ dropped' \subseteq Docs
    BY <1>4 DEF Delete, TypeOK
  <2> QED BY <2>1, <2>2, TypeStep
<1>5. ASSUME NEW d \in Docs, Index(d) PROVE TypeOK'
  <2>1. reg' \in [Docs -> Entries]
    BY <1>5 DEF Index, TypeOK, Entries
  <2>2. /\ Watch({}) /\ UNCHANGED <<now, since, gap>> /\ shown' \in [Reader -> SUBSET Docs]
        /\ owed' \subseteq Docs /\ dropped' \subseteq Docs
    BY <1>5 DEF Index, TypeOK
  <2> QED BY <2>1, <2>2, TypeStep
<1>6. ASSUME NEW d \in Docs, NEW b \in BOOLEAN, Change(d, b) PROVE TypeOK'
  <2>1. reg' \in [Docs -> Entries]
    <3> DEFINE f == reg[d].flag \/ b
               e == [reg[d] EXCEPT !.changed = now, !.flag = f]
    <3>1. reg[d] \in Entries /\ f \in BOOLEAN /\ now \in Nat
      BY DEF TypeOK, Entries
    <3>2. reg' = [reg EXCEPT ![d] = e]
      BY <1>6 DEF Change, TypeOK
    <3> HIDE DEF f
    <3>3. e \in Entries
      BY <3>1 DEF Entries
    <3> HIDE DEF e
    <3> QED BY <3>2, <3>3 DEF TypeOK
  <2>2. /\ Watch({d}) /\ UNCHANGED <<now, since, gap>> /\ shown' \in [Reader -> SUBSET Docs]
        /\ owed' \subseteq Docs /\ dropped' \subseteq Docs
    BY <1>6 DEF Change, TypeOK
  <2> QED BY <2>1, <2>2, TypeStep
<1> QED BY <1>1, <1>2, <1>3, <1>4, <1>5, <1>6 DEF Register

LEMMA TypeTools == TypeOK /\ Tools => TypeOK'
<1> SUFFICES ASSUME TypeOK, Tools PROVE TypeOK'
  OBVIOUS
<1>0. AskRows \subseteq Nat /\ AskPages \subseteq Nat
      /\ SyncPages \in Nat /\ Overlap \in Nat
  BY RegisterAssumption
<1>1. ASSUME NEW r \in Reader, NEW q \in Queries, NEW rows \in AskRows, NEW pages \in AskPages,
             List(r, q, rows, pages) PROVE TypeOK'
  <2> DEFINE w == [Idle EXCEPT !.pc = "fetch", !.goal = q, !.list = q, !.limit = Limit(rows),
                               !.left = Pages(pages), !.want = Matching(reg, q, 0, 0)]
  <2>1. Matching(reg, q, 0, 0) \in SUBSET Docs /\ q \in Lists
    BY RegisterAssumption DEF Matching, Lists
  <2>2. w \in Walks /\ Bounded(w)
    BY <1>0, <2>1, AsksType, IdleType DEF Walks, Bounded, Idle
  <2> QED BY <1>1, <2>2 DEF List, TypeOK
<1>2. ASSUME NEW r \in Reader, NEW rows \in AskRows, NEW pages \in AskPages,
             Sync(r, rows, pages) PROVE TypeOK'
  <2> DEFINE limit == IF rows = 0 THEN SyncLimit ELSE Limit(rows)
             left == IF pages = 0 THEN Pages(SyncPages) ELSE Pages(pages)
             want == Matching(reg, "window", since[r], Floor(now))
             w == [Idle EXCEPT !.pc = "fetch", !.goal = "window", !.list = "window",
                    !.from = since[r], !.to = Floor(now), !.limit = limit, !.left = left, !.want = want]
  <2>1. want \in SUBSET Docs /\ since[r] \in Nat /\ Floor(now) \in Nat
    BY FloorType DEF Matching, TypeOK
  <2>2. limit \in Nat /\ 0 < limit /\ limit <= MaxPageSize * MaxPages
        /\ left \in Nat /\ 0 < left /\ left <= MaxPages
    BY <1>0, AsksType
  <2> HIDE DEF limit, left, want
  <2>3. w \in Walks /\ Bounded(w)
    BY <2>1, <2>2, IdleType DEF Walks, Bounded, Idle, Lists
  <2>4. walk' = [walk EXCEPT ![r] = w]
    BY <1>2 DEF Sync, limit, left, want
  <2> HIDE DEF w
  <2> QED BY <1>2, <2>3, <2>4 DEF Sync, TypeOK
<1>3. ASSUME NEW r \in Reader, NEW rows \in AskRows, NEW pages \in AskPages,
             Continue(r, rows, pages) PROVE TypeOK'
  <2> DEFINE list == IF walk[r].list = "window" THEN "all" ELSE walk[r].list
             limit == Limit(rows)
             left == Pages(pages)
             w == [walk[r] EXCEPT !.pc = "fetch", !.limit = limit, !.left = left, !.list = list]
  <2>1. walk[r] \in Walks /\ list \in Lists /\ walk[r].n = 0
    BY <1>3 DEF TypeOK, Walks, Lists, Continue, Bounded
  <2>2. /\ limit \in Nat /\ 0 < limit /\ limit <= MaxPageSize * MaxPages
        /\ left \in Nat /\ 0 < left /\ left <= MaxPages
    BY <1>0, AsksType
  <2>3. walk' = [walk EXCEPT ![r] = w]
    BY <1>3 DEF Continue, TypeOK
  <2> HIDE DEF list, limit, left
  <2>4. w \in Walks
    BY <2>1, <2>2 DEF Walks
  <2>5. Bounded(w)
    BY <2>1, <2>2 DEF Bounded, Walks
  <2>6. UNCHANGED <<reg, now, since, shown, gap, owed, dropped>>
    BY <1>3 DEF Continue
  <2> HIDE DEF w
  <2> QED BY <2>3, <2>4, <2>5, <2>6 DEF TypeOK
<1>4. ASSUME NEW r \in Reader, Fetch(r) PROVE TypeOK'
  <2>1. reg' \in [Docs -> Entries]
    BY <1>4, UnmarkType DEF Fetch
  <2>2. \A x \in Reader : walk[x] \in Walks /\ Bounded(walk[x])
    BY DEF TypeOK
  <2>3. walk' \in [Reader -> Walks] /\ \A x \in Reader : Bounded(walk'[x])
    BY <1>4, <2>2, CollectedType, WatchedType DEF Fetch
  <2>4. Rows(walk[r]) \in SUBSET Docs /\ Kept(walk[r]) \in SUBSET Docs /\ walk[r].out \in SUBSET Docs
    BY <2>2, PageType DEF Walks
  <2> QED BY <1>4, <2>1, <2>3, <2>4 DEF Fetch, TypeOK
<1>5. ASSUME NEW r \in Reader, LosePage(r) PROVE TypeOK'
  <2>1. walk[r] \in Walks
    BY DEF TypeOK
  <2>2. reg' \in [Docs -> Entries]
    BY <1>5, UnmarkType DEF LosePage
  <2>3. Rows(walk[r]) \in SUBSET Docs
    BY <2>1, PageType
  <2>4. /\ Watch({}) /\ UNCHANGED <<now, since, gap>> /\ shown' \in [Reader -> SUBSET Docs]
        /\ owed' \subseteq Docs /\ dropped' \subseteq Docs
    BY <1>5, <2>3 DEF LosePage, TypeOK
  <2> QED BY <2>2, <2>4, TypeStep
<1>6. ASSUME NEW r \in Reader, Fail(r) PROVE TypeOK'
  <2>1. walk[r].out \in SUBSET Docs
    BY DEF TypeOK, Walks
  <2> QED BY <1>6, <2>1, IdleType DEF Fail, TypeOK
<1>7. ASSUME NEW r \in Reader, Leave(r) PROVE TypeOK'
  <2>1. Back(walk[r].to) \in Nat
    BY <1>0 DEF Back, TypeOK, Walks
  <2> QED BY <1>7, <2>1, IdleType DEF Leave, TypeOK
<1> QED BY <1>1, <1>2, <1>3, <1>4, <1>5, <1>6, <1>7 DEF Tools

\* A call of a tool asks for no more pages and rows than the configuration
\* allows, and for a page only while it lacks rows: collect stops in time.
THEOREM TypeCorrect == Spec => []TypeOK
<1>1. TypeOK /\ UNCHANGED vars => TypeOK'
  BY DEF TypeOK, vars
<1>2. TypeOK /\ [Next]_vars => TypeOK'
  BY <1>1, TypeRegister, TypeTools DEF Next
<1> QED BY <1>2, TypeInit, PTL DEF Spec

-----------------------------------------------------------------------------
(* NoneMissed: as long as no document leaves the list, what a walk has not   *)
(* been given comes after its cursor.                                        *)

Steady(w) == ~w.cut /\ ~w.shrunk

Ahead(w, g) == w.pc \in {"fetch", "paused"} /\ Steady(w) =>
    \A d \in w.want : \/ d \in w.got
                      \/ d \in Listed(w, g) /\ w.cursor <= Before(d, Listed(w, g))

Complete(w) == w.pc = "done" /\ Steady(w) => w.want \subseteq w.got

Whole(w, g) == Ahead(w, g) /\ Complete(w)

IInv == \A r \in Reader : Whole(walk[r], reg)

\* Listing an unchanged order again, with documents added, moves none of them forward.
LEMMA WholeWatched ==
    ASSUME NEW w \in Walks, Whole(w, reg), NEW g, NEW D
    PROVE  Whole(Watched(w, g, D), g)
<1>1. CASE w.pc \notin {"fetch", "paused"}
  BY <1>1 DEF Whole, Ahead, Complete, Watched, Steady
<1>2. CASE w.pc \in {"fetch", "paused"}
  <2> DEFINE v == Watched(w, g, D)
             S == Listed(w, reg)
             T == Listed(w, g)
  <2>1. /\ v.pc = w.pc /\ v.cut = w.cut /\ v.got = w.got /\ v.cursor = w.cursor
        /\ v.list = w.list /\ v.from = w.from /\ v.to = w.to
    BY WatchedType
  <2>2. Listed(v, g) = T
    BY <2>1 DEF Listed
  <2>3. v.want = w.want \cap Wanted(w, g) /\ v.shrunk = (w.shrunk \/ ~(S \subseteq T))
    BY <1>2 DEF Watched, Walks
  <2>4. S \in SUBSET Docs /\ T \in SUBSET Docs
    BY ListedType
  <2>5. ASSUME Steady(v), NEW d \in v.want, d \notin v.got
        PROVE  d \in T /\ v.cursor <= Before(d, T)
    <3>1. Steady(w) /\ S \subseteq T /\ d \in w.want /\ d \notin w.got
      BY <2>1, <2>3, <2>5 DEF Steady
    <3>2. d \in S /\ w.cursor <= Before(d, S)
      BY <1>2, <3>1 DEF Whole, Ahead
    <3>3. Before(d, S) <= Before(d, T)
      BY <2>4, <3>1, <3>2, BeforeGrows
    <3>4. Before(d, S) \in Nat /\ Before(d, T) \in Nat /\ w.cursor \in Nat
      BY <2>4, <3>2, BeforeType DEF Walks
    <3> QED BY <2>1, <3>1, <3>2, <3>3, <3>4
  <2> HIDE DEF v, S, T
  <2>6. Ahead(v, g)
    BY <2>2, <2>5 DEF Ahead
  <2>7. Complete(v)
    BY <1>2, <2>1 DEF Complete
  <2> QED BY <2>6, <2>7 DEF Whole, v
<1> QED BY <1>1, <1>2

\* A page has what the cursor passes.
LEMMA WholeCollected ==
    ASSUME NEW w \in Walks, w.pc = "fetch", Whole(w, reg), NEW g,
           w.list # "flagged" => Listed(w, g) = Listed(w, reg)
    PROVE  Whole(Collected(w), g)
<1> DEFINE v == Collected(w)
           S == Listed(w, reg)
           next == Following(w)
<1>1. /\ v.pc = IF ~Last(w) THEN "fetch" ELSE IF next = 0 THEN "done" ELSE "paused"
      /\ v.cursor = next /\ v.want = w.want /\ v.got = w.got \cup Kept(w)
      /\ v.cut = (w.cut \/ Kept(w) # Rows(w))
      /\ v.shrunk = (w.shrunk \/ (w.list = "flagged" /\ next # 0))
      /\ v.list = w.list /\ v.from = w.from /\ v.to = w.to
  BY DEF Collected, Walks
<1>2. Listed(v, g) = Listed(w, g)
  BY <1>1 DEF Listed
<1>3. next = 0 => Last(w)
  BY DEF Last
<1>4. ASSUME Steady(v), NEW d \in w.want, d \notin v.got
      PROVE  /\ next # 0 /\ d \in S /\ next <= Before(d, S)
  <2>1. Steady(w) /\ Kept(w) = Rows(w) /\ d \notin w.got /\ d \notin Rows(w)
    BY <1>1, <1>4 DEF Steady
  <2>2. d \in S /\ w.cursor <= Before(d, S)
    BY <2>1 DEF Whole, Ahead
  <2>3. ~(Before(d, S) < w.cursor + PageSize)
    BY <2>1, <2>2 DEF Rows, Page
  <2>4. Before(d, S) < Cardinality(S) /\ Before(d, S) \in Nat /\ Cardinality(S) \in Nat
    BY <2>2, ListedType, BeforeBounded, BeforeType, Finite
  <2>5. w.cursor \in Nat /\ PageSize \in Nat \ {0}
    BY RegisterAssumption DEF Walks
  <2>6. next = IF w.cursor + PageSize < Cardinality(S) THEN w.cursor + PageSize ELSE 0
    BY DEF Following, NextCursor
  <2> HIDE DEF S, next
  <2> QED BY <2>2, <2>3, <2>4, <2>5, <2>6
<1>5. Steady(v) /\ next # 0 => Listed(v, g) = S
  BY <1>1, <1>2 DEF Steady
<1> HIDE DEF v, S, next
<1>6. Ahead(v, g)
  BY <1>1, <1>4, <1>5 DEF Ahead
<1>7. Complete(v)
  BY <1>1, <1>3, <1>4 DEF Complete
<1> QED BY <1>6, <1>7 DEF Whole, v

LEMMA WholeWatch ==
    ASSUME TypeOK, IInv, NEW D, Watch(D)
    PROVE  IInv'
<1>1. \A r \in Reader : walk[r] \in Walks /\ Whole(walk[r], reg)
  BY DEF TypeOK, IInv
<1>2. \A r \in Reader : Whole(Watched(walk[r], reg', D), reg')
  BY <1>1, WholeWatched
<1>3. \A r \in Reader : Whole(walk'[r], reg')
  BY <1>2, Zenon DEF Watch
<1> QED BY <1>3 DEF IInv

\* A step that leaves the register alone and changes one walk.
LEMMA WholeOne ==
    ASSUME TypeOK, IInv, NEW r \in Reader, NEW w, Whole(w, reg),
           walk' = [walk EXCEPT ![r] = w], reg' = reg
    PROVE  IInv'
<1>1. \A x \in Reader : walk'[x] = IF x = r THEN w ELSE walk[x]
  BY DEF TypeOK
<1>2. \A x \in Reader : Whole(walk'[x], reg)
  BY <1>1, Zenon DEF IInv
<1>3. \A x \in Reader : Whole(walk'[x], reg')
  BY <1>2, Zenon
<1> QED BY <1>3 DEF IInv

LEMMA WholeIdle == \A g : Whole(Idle, g)
BY DEF Whole, Ahead, Complete, Idle

\* A walk begins before everything it is after.
LEMMA WholeBegun ==
    ASSUME NEW w \in Walks, w.cursor = 0, w.pc = "fetch", w.want = Listed(w, reg)
    PROVE  Whole(w, reg)
<1>1. ASSUME NEW d \in Listed(w, reg) PROVE 0 <= Before(d, Listed(w, reg))
  BY ListedType, BeforeType
<1> QED BY <1>1 DEF Whole, Ahead, Complete

LEMMA WholeInit == Init => IInv
<1> SUFFICES ASSUME Init PROVE IInv
  OBVIOUS
<1>1. \A r \in Reader : walk[r] = Idle
  BY DEF Init
<1> QED BY <1>1, WholeIdle, Zenon DEF IInv

LEMMA WholeRegister == TypeOK /\ IInv /\ Register => IInv'
<1> SUFFICES ASSUME TypeOK, IInv, Register PROVE IInv'
  OBVIOUS
<1>1. CASE Tick
  <2>1. walk' = walk /\ reg' = reg
    BY <1>1 DEF Tick
  <2> QED BY <2>1 DEF IInv
<1>2. CASE \E d \in Docs : \/ Upload(d) \/ MarkProcessed(d) \/ Delete(d) \/ Index(d)
                          \/ \E b \in BOOLEAN : Change(d, b)
  <2>1. \E D : Watch(D)
    BY <1>2 DEF Upload, MarkProcessed, Delete, Index, Change
  <2> QED BY <2>1, WholeWatch
<1> QED BY <1>1, <1>2 DEF Register

LEMMA WholeFetch ==
    ASSUME TypeOK, IInv, NEW r \in Reader, Fetch(r)
    PROVE  IInv'
<1> DEFINE w == walk[r]
<1>1. \A x \in Reader : walk[x] \in Walks /\ Whole(walk[x], reg)
  BY DEF TypeOK, IInv
<1>2. w.list # "flagged" => Listed(w, reg') = Listed(w, reg)
  <2>1. \A d \in Docs : /\ reg'[d].state = reg[d].state /\ reg'[d].indexed = reg[d].indexed
                        /\ reg'[d].processed = reg[d].processed
    BY DEF Fetch, Unmark, TypeOK, Entries
  <2> QED BY <2>1 DEF Listed, Matching, Matches
<1>3. Whole(Collected(w), reg')
  BY <1>1, <1>2, WholeCollected DEF Fetch
<1>4. \A x \in Reader : walk'[x] = IF x = r THEN Collected(w) ELSE Watched(walk[x], reg', {})
  BY DEF Fetch
<1>5. \A x \in Reader : Whole(Watched(walk[x], reg', {}), reg')
  BY <1>1, WholeWatched
<1>6. \A x \in Reader : Whole(walk'[x], reg')
  BY <1>3, <1>4, <1>5, Zenon
<1> QED BY <1>6 DEF IInv

\* The rest of a window is asked of the list of all documents, where as many
\* documents or more come before each.
LEMMA WholeContinue ==
    ASSUME TypeOK, IInv, NEW r \in Reader, NEW rows, NEW pages, Continue(r, rows, pages)
    PROVE  IInv'
<1> DEFINE w == walk[r]
           list == IF w.list = "window" THEN "all" ELSE w.list
           v == [w EXCEPT !.pc = "fetch", !.limit = Limit(rows), !.left = Pages(pages), !.list = list]
           S == Listed(w, reg)
           T == Listed(v, reg)
<1>1. w \in Walks /\ Whole(w, reg) /\ w.pc = "paused"
  BY DEF TypeOK, IInv, Continue
<1>2. /\ v.pc = "fetch" /\ v.list = list /\ v.from = w.from /\ v.to = w.to /\ v.want = w.want
      /\ v.got = w.got /\ v.cursor = w.cursor /\ v.cut = w.cut /\ v.shrunk = w.shrunk
  BY <1>1 DEF Walks
<1>3. S \subseteq T
  BY <1>2 DEF Listed, Matching, Matches
<1>4. S \in SUBSET Docs /\ T \in SUBSET Docs /\ w.cursor \in Nat
  BY <1>1, ListedType DEF Walks
<1>5. walk' = [walk EXCEPT ![r] = v] /\ reg' = reg
  BY DEF Continue, TypeOK
<1> HIDE DEF v, S, T
<1>6. ASSUME Steady(v), NEW d \in v.want, d \notin v.got PROVE d \in T /\ v.cursor <= Before(d, T)
  <2>1. d \in S /\ w.cursor <= Before(d, S)
    BY <1>1, <1>2, <1>6 DEF Whole, Ahead, Steady, S
  <2>2. Before(d, S) <= Before(d, T) /\ Before(d, S) \in Nat /\ Before(d, T) \in Nat
    BY <1>3, <1>4, <2>1, BeforeGrows, BeforeType
  <2> QED BY <1>2, <1>3, <1>4, <2>1, <2>2
<1>7. Whole(v, reg)
  BY <1>2, <1>6 DEF Whole, Ahead, Complete, T
<1> QED BY <1>5, <1>7, WholeOne

LEMMA WholeTools == TypeOK /\ TypeOK' /\ IInv /\ Tools => IInv'
<1> SUFFICES ASSUME TypeOK, TypeOK', IInv, Tools PROVE IInv'
  OBVIOUS
<1>1. ASSUME NEW r \in Reader, NEW q \in Queries, NEW rows \in AskRows, NEW pages \in AskPages,
             List(r, q, rows, pages) PROVE IInv'
  <2> DEFINE w == walk'[r]
  <2>1. w = [Idle EXCEPT !.pc = "fetch", !.goal = q, !.list = q, !.limit = Limit(rows),
                         !.left = Pages(pages), !.want = Matching(reg, q, 0, 0)]
    BY <1>1 DEF List, TypeOK
  <2>2. w \in Walks /\ walk' = [walk EXCEPT ![r] = w] /\ reg' = reg
    BY <1>1 DEF List, TypeOK
  <2>3. w.cursor = 0 /\ w.pc = "fetch" /\ w.want = Listed(w, reg)
    BY <2>1 DEF Idle, Listed
  <2> HIDE DEF w
  <2>4. Whole(w, reg)
    BY <2>2, <2>3, WholeBegun
  <2> QED BY <2>2, <2>4, WholeOne
<1>2. ASSUME NEW r \in Reader, NEW rows \in AskRows, NEW pages \in AskPages,
             Sync(r, rows, pages) PROVE IInv'
  <2> DEFINE w == walk'[r]
  <2>1. w = [Idle EXCEPT !.pc = "fetch", !.goal = "window", !.list = "window",
               !.from = since[r], !.to = Floor(now),
               !.limit = IF rows = 0 THEN SyncLimit ELSE Limit(rows),
               !.left = IF pages = 0 THEN Pages(SyncPages) ELSE Pages(pages),
               !.want = Matching(reg, "window", since[r], Floor(now))]
    BY <1>2 DEF Sync, TypeOK
  <2>2. w \in Walks /\ walk' = [walk EXCEPT ![r] = w] /\ reg' = reg
    BY <1>2 DEF Sync, TypeOK
  <2>3. w.cursor = 0 /\ w.pc = "fetch" /\ w.want = Listed(w, reg)
    BY <2>1 DEF Idle, Listed
  <2> HIDE DEF w
  <2>4. Whole(w, reg)
    BY <2>2, <2>3, WholeBegun
  <2> QED BY <2>2, <2>4, WholeOne
<1>3. ASSUME NEW r \in Reader, NEW rows \in AskRows, NEW pages \in AskPages,
             Continue(r, rows, pages) PROVE IInv'
  BY <1>3, WholeContinue
<1>4. ASSUME NEW r \in Reader, Fetch(r) PROVE IInv'
  BY <1>4, WholeFetch
<1>5. ASSUME NEW r \in Reader, LosePage(r) PROVE IInv'
  BY <1>5, WholeWatch DEF LosePage
<1>6. ASSUME NEW r \in Reader, Fail(r) \/ Leave(r) PROVE IInv'
  <2>1. walk' = [walk EXCEPT ![r] = Idle] /\ reg' = reg
    BY <1>6 DEF Fail, Leave
  <2> QED BY <2>1, WholeIdle, WholeOne
<1> QED BY <1>1, <1>2, <1>3, <1>4, <1>5, <1>6 DEF Tools

LEMMA WholeAlways == Spec => []IInv
<1>1. TypeOK /\ TypeOK' /\ IInv /\ [Next]_vars => IInv'
  <2>1. IInv /\ UNCHANGED vars => IInv'
    BY DEF vars, IInv
  <2> QED BY <2>1, WholeRegister, WholeTools DEF Next
<1> QED BY <1>1, WholeInit, TypeCorrect, PTL DEF Spec

\* Who follows next_cursor to the end of a list has been given every document
\* that was in it all the time, whatever is uploaded in between and however many
\* calls it takes, unless an answer was cut or a document left the list.
THEOREM NoneMissedAlways == Spec => []NoneMissed
<1>1. IInv => NoneMissed
  BY DEF IInv, Whole, Complete, Steady, NoneMissed
<1> QED BY <1>1, WholeAlways, PTL

-----------------------------------------------------------------------------
(* SyncCovers: what changed before the end of a window, less the overlap, is  *)
(* in the index and in the window.                                           *)

Clock(g, t) == t > 0 /\ \A d \in Docs : g[d].state = "there" =>
    /\ 0 < g[d].changed /\ g[d].changed <= t
    /\ g[d].indexed = g[d].changed \/ t <= g[d].changed + Delay

\* s is where the window of the reader begins, sh what it has been shown.
Window(w, s, t) == w.pc # "idle" /\ w.goal = "window" => w.from = s /\ w.to <= t

Wants(w, g) == w.pc # "idle" /\ w.goal = "window" =>
    \A d \in Docs : g[d].state = "there" /\ w.from <= g[d].changed /\ g[d].changed < Back(w.to)
                      => d \in w.want

Gives(w, g, sh) ==
    /\ w.pc # "fetch" => w.out = {}
    /\ w.pc # "idle" /\ w.goal = "window" =>
          \A d \in w.got : g[d].changed < Back(w.to) => d \in sh \/ d \in w.out \ w.stale

Covered(r, g, s, sh, gp) == r \notin gp =>
    \A d \in Docs : g[d].state = "there" /\ g[d].changed < s => d \in sh

Synced(r, w, g, t, s, sh, gp) ==
    s <= t /\ Window(w, s, t) /\ Wants(w, g) /\ Gives(w, g, sh) /\ Covered(r, g, s, sh, gp)

SInv == /\ Clock(reg, now)
        /\ \A r \in Reader : Synced(r, walk[r], reg, now, since[r], shown[r], gap)

LEMMA BackType == \A t \in Nat : Back(t) \in Nat /\ Back(t) <= t
BY RegisterAssumption DEF Back

LEMMA Indexed ==
    ASSUME NEW w \in Walks, w.goal = "window", NEW g \in [Docs -> Entries], NEW t \in Nat,
           Clock(g, t), w.to <= t, NEW d \in Docs, g[d].state = "there",
           w.from <= g[d].changed, g[d].changed < Back(w.to)
    PROVE  d \in Wanted(w, g)
<1>1. /\ w.to \in Nat /\ g[d].changed \in Nat /\ g[d].indexed \in Nat
      /\ Delay \in Nat /\ Overlap \in Nat /\ Delay <= Overlap
  BY RegisterAssumption DEF Walks, Entries
<1>2. g[d].changed + Overlap < w.to
  BY <1>1 DEF Back
<1>3. g[d].indexed = g[d].changed /\ 0 < g[d].changed /\ g[d].changed < w.to
  BY <1>1, <1>2 DEF Clock
<1>4. InWindow(g[d].indexed, w.from, w.to)
  BY <1>3 DEF InWindow
<1> QED BY <1>4 DEF Wanted, Matching, Matches

\* What a step of the register may do to the documents, those of D with new contents.
Touches(D) ==
    /\ now' = now /\ since' = since /\ gap' = gap
    /\ \A d \in Docs : \/ reg'[d].changed = now
                       \/ /\ d \notin D /\ reg'[d].changed = reg[d].changed
                          /\ reg'[d].state = "there" => reg[d].state = "there"

LEMMA SyncedWatched ==
    ASSUME TypeOK, TypeOK', SInv, Clock(reg', now), NEW D \in SUBSET Docs, Touches(D), NEW r \in Reader,
           walk'[r] = Watched(walk[r], reg', D), shown[r] \ D \subseteq shown'[r]
    PROVE  Synced(r, walk'[r], reg', now', since'[r], shown'[r], gap')
<1> DEFINE w == walk[r]
           v == Watched(w, reg', D)
<1>1. /\ w \in Walks /\ reg \in [Docs -> Entries] /\ reg' \in [Docs -> Entries]
      /\ now \in Nat /\ since[r] \in Nat /\ w.to \in Nat /\ Back(w.to) \in Nat /\ Back(w.to) <= w.to
  BY BackType DEF TypeOK, Walks
<1>2. /\ v.pc = w.pc /\ v.goal = w.goal /\ v.from = w.from /\ v.to = w.to
      /\ v.got = w.got /\ v.out = w.out
  BY <1>1, WatchedType
<1>3. /\ w.pc \notin {"fetch", "paused"} => v = w
      /\ w.pc \in {"fetch", "paused"} => v.want = w.want \cap Wanted(w, reg')
                                       /\ v.stale = w.stale \cup (w.out \cap D)
  BY <1>1 DEF Watched, Walks
<1>4. /\ since[r] <= now /\ Window(w, since[r], now) /\ Wants(w, reg) /\ Gives(w, reg, shown[r])
      /\ Covered(r, reg, since[r], shown[r], gap)
  BY DEF SInv, Synced
<1>5. now' = now /\ since' = since /\ gap' = gap /\ walk'[r] = v
  BY DEF Touches
<1>6. \A d \in Docs : reg'[d].changed # now =>
         /\ d \notin D /\ reg'[d].changed = reg[d].changed
         /\ reg'[d].state = "there" => reg[d].state = "there"
  BY DEF Touches
<1>7. \A d \in Docs : reg'[d].changed \in Nat
  BY <1>1 DEF Entries
<1> HIDE DEF v
<1>8. Window(v, since[r], now)
  BY <1>2, <1>4 DEF Window
<1>9. Wants(v, reg')
  <2> SUFFICES ASSUME w.pc # "idle", w.goal = "window", NEW d \in Docs, reg'[d].state = "there",
                      w.from <= reg'[d].changed, reg'[d].changed < Back(w.to)
               PROVE  d \in v.want
    BY <1>2 DEF Wants
  <2>1. w.to <= now
    BY <1>4 DEF Window
  <2>2. reg'[d].changed # now
    BY <1>1, <1>7, <2>1
  <2>3. d \in w.want
    BY <1>4, <1>6, <2>2 DEF Wants
  <2>4. d \in Wanted(w, reg')
    BY <1>1, <2>1, Indexed
  <2> QED BY <1>3, <2>3, <2>4
<1>10. Gives(v, reg', shown'[r])
  <2>1. v.pc # "fetch" => v.out = {}
    BY <1>2, <1>4 DEF Gives
  <2>2. ASSUME w.pc # "idle", w.goal = "window", NEW d \in w.got, reg'[d].changed < Back(w.to)
        PROVE  d \in shown'[r] \/ d \in v.out \ v.stale
    <3>1. w.to <= now /\ d \in Docs
      BY <1>1, <1>4, <2>2 DEF Window, Walks
    <3>2. d \notin D /\ reg'[d].changed = reg[d].changed
      BY <1>1, <1>6, <1>7, <2>2, <3>1
    <3>3. d \in shown[r] \/ d \in w.out \ w.stale
      BY <1>4, <2>2, <3>2 DEF Gives
    <3>4. d \in v.stale => d \in w.stale
      BY <1>3, <3>2
    <3> QED BY <1>2, <3>2, <3>3, <3>4
  <2> QED BY <1>2, <2>1, <2>2 DEF Gives
<1>11. Covered(r, reg', since[r], shown'[r], gap)
  BY <1>1, <1>4, <1>6, <1>7 DEF Covered
<1> QED BY <1>4, <1>5, <1>8, <1>9, <1>10, <1>11 DEF Synced

LEMMA SyncedIdle ==
    ASSUME NEW r, NEW g, NEW t, NEW s, NEW sh, NEW gp, s <= t, Covered(r, g, s, sh, gp)
    PROVE  Synced(r, Idle, g, t, s, sh, gp)
BY DEF Synced, Window, Wants, Gives, Idle

LEMMA SyncedInit == Init => SInv
<1> SUFFICES ASSUME Init PROVE SInv
  OBVIOUS
<1>1. Clock(reg, now)
  BY DEF Init, Clock
<1>2. \A r \in Reader : walk[r] = Idle /\ since[r] = 0 /\ now = 1
  BY DEF Init
<1>3. \A d \in Docs : reg[d].changed \in Nat
  BY DEF Init
<1>4. \A r \in Reader : Covered(r, reg, since[r], shown[r], gap)
  BY <1>2, <1>3 DEF Covered
<1>5. \A r \in Reader : Synced(r, walk[r], reg, now, since[r], shown[r], gap)
  BY <1>2, <1>4, SyncedIdle
<1> QED BY <1>1, <1>5 DEF SInv

LEMMA SyncedWatch ==
    ASSUME TypeOK, TypeOK', SInv, Clock(reg', now), NEW D \in SUBSET Docs, Touches(D), Watch(D),
           \A r \in Reader : shown[r] \ D \subseteq shown'[r]
    PROVE  SInv'
<1>1. \A r \in Reader : walk'[r] = Watched(walk[r], reg', D)
  BY DEF Watch
<1>2. \A r \in Reader : Synced(r, walk'[r], reg', now', since'[r], shown'[r], gap')
  BY <1>1, SyncedWatched
<1>3. Clock(reg', now')
  BY DEF Touches
<1> QED BY <1>2, <1>3 DEF SInv

LEMMA SyncedTick == TypeOK /\ SInv /\ Tick => SInv'
<1> SUFFICES ASSUME TypeOK, SInv, Tick PROVE SInv'
  OBVIOUS
<1>1. /\ reg' = reg /\ walk' = walk /\ since' = since /\ shown' = shown /\ gap' = gap
      /\ now' = now + 1 /\ now \in Nat /\ Delay \in Nat
  BY RegisterAssumption DEF Tick, TypeOK
<1>2. Clock(reg, now + 1)
  BY <1>1 DEF Clock, SInv, Tick, TypeOK, Entries
<1>3. ASSUME NEW r \in Reader
      PROVE  Synced(r, walk[r], reg, now + 1, since[r], shown[r], gap)
  <2>1. Synced(r, walk[r], reg, now, since[r], shown[r], gap)
    BY DEF SInv
  <2>2. since[r] \in Nat /\ walk[r].to \in Nat
    BY DEF TypeOK, Walks
  <2> QED BY <1>1, <2>1, <2>2 DEF Synced, Window
<1> QED BY <1>1, <1>2, <1>3 DEF SInv

LEMMA SyncedRegister == TypeOK /\ TypeOK' /\ SInv /\ Register => SInv'
<1> SUFFICES ASSUME TypeOK, TypeOK', SInv, Register PROVE SInv'
  OBVIOUS
<1>0. Clock(reg, now) /\ reg \in [Docs -> Entries] /\ now \in Nat /\ Delay \in Nat
  BY RegisterAssumption DEF SInv, TypeOK
<1>1. CASE Tick
  BY <1>1, SyncedTick
<1>2. ASSUME NEW d \in Docs, Upload(d) PROVE SInv'
  <2>1. Touches({}) /\ Clock(reg', now) /\ Watch({})
    BY <1>0, <1>2 DEF Upload, Touches, Clock, Entries
  <2> QED BY <1>2, <2>1, SyncedWatch DEF Upload
<1>3. ASSUME NEW d \in Docs, MarkProcessed(d) PROVE SInv'
  <2>1. Touches({}) /\ Clock(reg', now) /\ Watch({})
    BY <1>0, <1>3 DEF MarkProcessed, Touches, Clock, Entries
  <2> QED BY <1>3, <2>1, SyncedWatch DEF MarkProcessed
<1>4. ASSUME NEW d \in Docs, Delete(d) PROVE SInv'
  <2>1. Touches({}) /\ Clock(reg', now) /\ Watch({})
    BY <1>0, <1>4 DEF Delete, Touches, Clock, Entries
  <2> QED BY <1>4, <2>1, SyncedWatch DEF Delete
<1>5. ASSUME NEW d \in Docs, Index(d) PROVE SInv'
  <2>1. Touches({}) /\ Clock(reg', now) /\ Watch({})
    BY <1>0, <1>5 DEF Index, Touches, Clock, Entries
  <2> QED BY <1>5, <2>1, SyncedWatch DEF Index
<1>6. ASSUME NEW d \in Docs, NEW b \in BOOLEAN, Change(d, b) PROVE SInv'
  <2>1. Touches({d}) /\ Clock(reg', now) /\ Watch({d})
    BY <1>0, <1>6 DEF Change, Touches, Clock, Entries
  <2>2. \A r \in Reader : shown[r] \ {d} \subseteq shown'[r]
    BY <1>6 DEF Change
  <2> QED BY <2>1, <2>2, SyncedWatch
<1> QED BY <1>1, <1>2, <1>3, <1>4, <1>5, <1>6 DEF Register

\* A page touches the marks of documents and nothing else.
LEMMA UnmarkTouches ==
    ASSUME TypeOK, SInv, NEW D, Unmark(D), UNCHANGED <<now, since, gap>>
    PROVE  /\ Touches({}) /\ Clock(reg', now)
           /\ \A d \in Docs : /\ reg'[d].state = reg[d].state /\ reg'[d].changed = reg[d].changed
                              /\ reg'[d].indexed = reg[d].indexed
<1>1. \A d \in Docs : /\ reg'[d].state = reg[d].state /\ reg'[d].changed = reg[d].changed
                      /\ reg'[d].indexed = reg[d].indexed
  BY DEF Unmark, TypeOK, Entries
<1>2. Clock(reg', now)
  BY <1>1 DEF Clock, SInv
<1> QED BY <1>1, <1>2 DEF Touches

LEMMA SyncedFetch ==
    ASSUME TypeOK, TypeOK', SInv, NEW r \in Reader, Fetch(r)
    PROVE  SInv'
<1> DEFINE w == walk[r]
           v == Collected(w)
           kept == Kept(w)
           last == Last(w)
<1>1. /\ Touches({}) /\ Clock(reg', now)
      /\ \A d \in Docs : reg'[d].state = reg[d].state /\ reg'[d].changed = reg[d].changed
  BY UnmarkTouches DEF Fetch
<1>2. UNCHANGED <<now, since, gap>> /\ w.pc = "fetch" /\ w \in Walks /\ kept \in SUBSET Docs
  BY PageType DEF Fetch, TypeOK
<1>3. ASSUME NEW x \in Reader, x # r
      PROVE  Synced(x, walk'[x], reg', now', since'[x], shown'[x], gap')
  <2>1. walk'[x] = Watched(walk[x], reg', {}) /\ shown[x] \ {} \subseteq shown'[x]
    BY <1>3 DEF Fetch, TypeOK
  <2> QED BY <1>1, <2>1, SyncedWatched
<1>4. /\ v.pc # "idle" /\ v.goal = w.goal /\ v.from = w.from /\ v.to = w.to /\ v.want = w.want
      /\ v.got = w.got \cup kept
      /\ v.out = IF last THEN {} ELSE w.out \cup kept
      /\ v.stale = IF last THEN {} ELSE w.stale \ kept
      /\ v.pc # "fetch" <=> last
  BY <1>2 DEF Collected, Walks
<1>5. walk'[r] = v
  BY DEF Fetch
<1>6. shown'[r] = IF last /\ w.goal = "window"
                  THEN shown[r] \cup ((w.out \cup kept) \ (w.stale \ kept)) ELSE shown[r]
  BY DEF Fetch, TypeOK
<1>7. Synced(r, w, reg, now, since[r], shown[r], gap)
  BY DEF SInv
<1> HIDE DEF v, kept, last
<1>8. Window(v, since[r], now)
  BY <1>2, <1>4, <1>7 DEF Synced, Window
<1>9. Wants(v, reg')
  BY <1>1, <1>2, <1>4, <1>7 DEF Synced, Wants
<1>10. Gives(v, reg', shown'[r])
  <2>1. v.pc # "fetch" => v.out = {}
    BY <1>4
  <2>2. ASSUME w.goal = "window", NEW d \in w.got \cup kept, reg'[d].changed < Back(w.to)
        PROVE  d \in shown'[r] \/ d \in v.out \ v.stale
    <3>1. d \in Docs
      BY <1>2 DEF Walks
    <3>2. d \in kept \/ d \in shown[r] \/ d \in w.out \ w.stale
      BY <1>1, <1>2, <1>7, <2>2, <3>1 DEF Synced, Gives
    <3> QED BY <1>4, <1>6, <2>2, <3>2
  <2> QED BY <1>4, <2>1, <2>2 DEF Gives
<1>11. Covered(r, reg', since[r], shown'[r], gap)
  BY <1>1, <1>6, <1>7 DEF Synced, Covered
<1>12. Synced(r, walk'[r], reg', now', since'[r], shown'[r], gap')
  BY <1>2, <1>5, <1>7, <1>8, <1>9, <1>10, <1>11 DEF Synced
<1>13. \A x \in Reader : Synced(x, walk'[x], reg', now', since'[x], shown'[x], gap')
  BY <1>3, <1>12, Zenon
<1>14. Clock(reg', now')
  BY <1>1, <1>2
<1> QED BY <1>13, <1>14 DEF SInv

\* A step that leaves the register alone and concerns one reader.
LEMMA SyncedOne ==
    ASSUME TypeOK, SInv, NEW r \in Reader, NEW w, walk' = [walk EXCEPT ![r] = w],
           UNCHANGED <<reg, now, shown>>, NEW s, since' = [since EXCEPT ![r] = s],
           gap \subseteq gap', gap' \subseteq gap \cup {r},
           Synced(r, w, reg, now, s, shown[r], gap')
    PROVE  SInv'
<1>1. walk'[r] = w /\ since'[r] = s
  BY DEF TypeOK
<1>2. ASSUME NEW x \in Reader, x # r PROVE Synced(x, walk[x], reg, now, since[x], shown[x], gap')
  BY <1>2 DEF SInv, Synced, Covered
<1>3. \A x \in Reader : x # r => walk'[x] = walk[x] /\ since'[x] = since[x]
  BY DEF TypeOK
<1>4. \A x \in Reader : Synced(x, walk'[x], reg, now, since'[x], shown[x], gap')
  BY <1>1, <1>2, <1>3, Zenon
<1>5. \A x \in Reader : Synced(x, walk'[x], reg', now', since'[x], shown'[x], gap')
  BY <1>4
<1>6. Clock(reg', now')
  BY DEF SInv
<1> QED BY <1>5, <1>6 DEF SInv

LEMMA SyncedTools == TypeOK /\ TypeOK' /\ IInv /\ SInv /\ Tools => SInv'
<1> SUFFICES ASSUME TypeOK, TypeOK', IInv, SInv, Tools PROVE SInv'
  OBVIOUS
<1>0. \A r \in Reader : /\ Synced(r, walk[r], reg, now, since[r], shown[r], gap)
                        /\ walk[r] \in Walks /\ since[r] \in Nat /\ Whole(walk[r], reg)
  BY DEF SInv, TypeOK, IInv
<1>1. ASSUME NEW r \in Reader, NEW q \in Queries, NEW rows \in AskRows, NEW pages \in AskPages,
             List(r, q, rows, pages) PROVE SInv'
  <2> DEFINE w == walk'[r]
  <2>1. /\ walk' = [walk EXCEPT ![r] = w] /\ since' = [since EXCEPT ![r] = since[r]]
        /\ UNCHANGED <<reg, now, shown, gap>>
    BY <1>1 DEF List, TypeOK
  <2>2. w.goal # "window" /\ w.out = {}
    BY <1>1 DEF List, TypeOK, Idle
  <2> HIDE DEF w
  <2>3. Synced(r, w, reg, now, since[r], shown[r], gap')
    BY <1>0, <2>1, <2>2 DEF Synced, Window, Wants, Gives
  <2> QED BY <2>1, <2>3, SyncedOne
<1>2. ASSUME NEW r \in Reader, NEW rows \in AskRows, NEW pages \in AskPages,
             Sync(r, rows, pages) PROVE SInv'
  <2> DEFINE w == walk'[r]
  <2>1. /\ walk' = [walk EXCEPT ![r] = w] /\ since' = [since EXCEPT ![r] = since[r]]
        /\ UNCHANGED <<reg, now, shown, gap>> /\ w \in Walks
    BY <1>2 DEF Sync, TypeOK
  <2>2. w = [Idle EXCEPT !.pc = "fetch", !.goal = "window", !.list = "window",
               !.from = since[r], !.to = Floor(now),
               !.limit = IF rows = 0 THEN SyncLimit ELSE Limit(rows),
               !.left = IF pages = 0 THEN Pages(SyncPages) ELSE Pages(pages),
               !.want = Matching(reg, "window", since[r], Floor(now))]
    BY <1>2 DEF Sync, TypeOK
  <2>3. /\ w.pc = "fetch" /\ w.goal = "window" /\ w.from = since[r] /\ w.to = Floor(now)
        /\ w.out = {} /\ w.got = {} /\ w.want = Wanted(w, reg)
    BY <2>2 DEF Idle, Wanted
  <2> HIDE DEF w
  <2>4. w.to <= now
    BY <2>3, FloorType DEF TypeOK
  <2>5. Wants(w, reg)
    BY <2>1, <2>3, <2>4, Indexed DEF Wants, TypeOK, SInv
  <2>6. Synced(r, w, reg, now, since[r], shown[r], gap')
    BY <1>0, <2>1, <2>3, <2>4, <2>5 DEF Synced, Window, Gives
  <2> QED BY <2>1, <2>6, SyncedOne
<1>3. ASSUME NEW r \in Reader, NEW rows \in AskRows, NEW pages \in AskPages,
             Continue(r, rows, pages) PROVE SInv'
  <2> DEFINE w == walk[r]
             v == walk'[r]
  <2>1. /\ walk' = [walk EXCEPT ![r] = v] /\ since' = [since EXCEPT ![r] = since[r]]
        /\ UNCHANGED <<reg, now, shown, gap>>
    BY <1>3 DEF Continue, TypeOK
  <2>2. v = [w EXCEPT !.pc = "fetch", !.limit = Limit(rows), !.left = Pages(pages),
                      !.list = IF w.list = "window" THEN "all" ELSE w.list]
    BY <1>3 DEF Continue, TypeOK
  <2>3. /\ w.pc = "paused" /\ v.pc = "fetch" /\ v.goal = w.goal /\ v.from = w.from /\ v.to = w.to
        /\ v.out = w.out /\ v.stale = w.stale /\ v.got = w.got /\ v.want = w.want
    <3>1. w.pc = "paused"
      BY <1>3 DEF Continue
    <3>2. w \in Walks
      BY <1>0
    <3> HIDE DEF v, w
    <3> QED BY <3>1, <3>2, <2>2 DEF Walks
  <2> HIDE DEF v, w
  <2>4. Synced(r, w, reg, now, since[r], shown[r], gap)
    BY <1>0 DEF w
  <2>5. Synced(r, v, reg, now, since[r], shown[r], gap')
    BY <2>1, <2>3, <2>4 DEF Synced, Window, Wants, Gives
  <2> QED BY <2>1, <2>5, SyncedOne
<1>4. ASSUME NEW r \in Reader, Fetch(r) PROVE SInv'
  BY <1>4, SyncedFetch
<1>5. ASSUME NEW r \in Reader, LosePage(r) PROVE SInv'
  <2>1. Unmark(Unmarked(walk[r], Rows(walk[r]))) /\ UNCHANGED <<now, since, gap>>
        /\ shown' = shown /\ Watch({})
    BY <1>5 DEF LosePage
  <2>2. Touches({}) /\ Clock(reg', now)
    BY <2>1, UnmarkTouches
  <2> QED BY <2>1, <2>2, SyncedWatch
<1>6. ASSUME NEW r \in Reader, Fail(r) PROVE SInv'
  <2>1. /\ walk' = [walk EXCEPT ![r] = Idle] /\ since' = [since EXCEPT ![r] = since[r]]
        /\ UNCHANGED <<reg, now, shown, gap>>
    BY <1>6 DEF Fail, TypeOK
  <2>2. Synced(r, Idle, reg, now, since[r], shown[r], gap')
    BY <1>0, <2>1, SyncedIdle DEF Synced
  <2> QED BY <2>1, <2>2, SyncedOne
<1>7. ASSUME NEW r \in Reader, Leave(r) PROVE SInv'
  <2> DEFINE w == walk[r]
  <2>1. walk' = [walk EXCEPT ![r] = Idle] /\ UNCHANGED <<reg, now, shown>> /\ w.pc \in {"paused", "done"}
    BY <1>7 DEF Leave
  <2>2. CASE w.goal # "window"
    <3>1. since' = [since EXCEPT ![r] = since[r]] /\ gap' = gap
      BY <1>7, <2>2 DEF Leave, TypeOK
    <3>2. Synced(r, Idle, reg, now, since[r], shown[r], gap')
      BY <1>0, <3>1, SyncedIdle DEF Synced
    <3> QED BY <2>1, <3>1, <3>2, SyncedOne
  <2>3. CASE w.goal = "window"
    <3>1. since' = [since EXCEPT ![r] = Back(w.to)]
          /\ gap' = IF w.pc = "paused" \/ w.cut \/ w.shrunk THEN gap \cup {r} ELSE gap
      BY <1>7, <2>3 DEF Leave
    <3>2. /\ w.from = since[r] /\ w.to <= now /\ w.out = {}
          /\ w.to \in Nat /\ now \in Nat /\ since[r] \in Nat
      BY <1>0, <2>1, <2>3 DEF Synced, Window, Gives, TypeOK, Walks
    <3>3. Back(w.to) \in Nat /\ Back(w.to) <= now
      BY <3>2, BackType
    <3>4. ASSUME r \notin gap', NEW d \in Docs, reg[d].state = "there", reg[d].changed < Back(w.to)
          PROVE  d \in shown[r]
      <4>1. w.pc = "done" /\ ~w.cut /\ ~w.shrunk /\ r \notin gap
        BY <2>1, <3>1, <3>4
      <4>2. CASE reg[d].changed < since[r]
        BY <1>0, <3>4, <4>1, <4>2 DEF Synced, Covered
      <4>3. CASE ~(reg[d].changed < since[r])
        <5>1. w.from <= reg[d].changed
          BY <3>2, <4>3 DEF TypeOK, Entries
        <5>2. d \in w.want
          BY <1>0, <2>1, <2>3, <3>4, <5>1 DEF Synced, Wants
        <5>3. d \in w.got
          BY <1>0, <4>1, <5>2 DEF Whole, Complete, Steady
        <5> QED BY <1>0, <2>1, <2>3, <3>2, <3>4, <5>3 DEF Synced, Gives
      <4> QED BY <4>2, <4>3
    <3>5. Synced(r, Idle, reg, now, Back(w.to), shown[r], gap')
      BY <3>3, <3>4, SyncedIdle DEF Covered
    <3>6. gap \subseteq gap' /\ gap' \subseteq gap \cup {r}
      BY <3>1
    <3> QED BY <2>1, <3>1, <3>5, <3>6, SyncedOne
  <2> QED BY <2>2, <2>3
<1> QED BY <1>1, <1>2, <1>3, <1>4, <1>5, <1>6, <1>7 DEF Tools

LEMMA SyncedAlways == Spec => []SInv
<1>1. TypeOK /\ TypeOK' /\ IInv /\ SInv /\ [Next]_vars => SInv'
  <2>1. SInv /\ UNCHANGED vars => SInv'
    BY DEF vars, SInv
  <2> QED BY <2>1, SyncedRegister, SyncedTools DEF Next
<1> QED BY <1>1, SyncedInit, TypeCorrect, WholeAlways, PTL DEF Spec

\* A reader that follows each window to its end, and begins the next one the
\* overlap before it, has been given every document after its last change,
\* however late within that overlap changes reach the index, unless a document
\* left a window that was being read or an answer was cut.
THEOREM SyncCoversAlways == Spec => []SyncCovers
<1>1. SInv => SyncCovers
  BY DEF SInv, Synced, Covered, SyncCovers
<1> QED BY <1>1, SyncedAlways, PTL

-----------------------------------------------------------------------------
(* NoneTwice: as long as no document comes into the list, what a walk has    *)
(* been given comes before its cursor.                                       *)

Behind(w, g) == w.pc \in {"fetch", "paused"} =>
    \A d \in w.got : d \in Listed(w, g) => Before(d, Listed(w, g)) < w.cursor

Once(w, g) == /\ w.list = "window" => w.goal = "window"
              /\ ~w.grown /\ w.list = w.goal => ~w.twice /\ Behind(w, g)

OInv == \A r \in Reader : Once(walk[r], reg)

\* Documents that leave the list, or a page of it, move the others back only.
LEMMA OnceWatched ==
    ASSUME NEW w \in Walks, Once(w, reg), NEW g, NEW D
    PROVE  Once(Watched(w, g, D), g)
<1>1. CASE w.pc \notin {"fetch", "paused"}
  BY <1>1 DEF Once, Behind, Watched
<1>2. CASE w.pc \in {"fetch", "paused"}
  <2> DEFINE v == Watched(w, g, D)
             S == Listed(w, reg)
             T == Listed(w, g)
  <2>1. /\ v.pc = w.pc /\ v.goal = w.goal /\ v.list = w.list /\ v.from = w.from /\ v.to = w.to
        /\ v.got = w.got /\ v.cursor = w.cursor
    BY WatchedType
  <2>2. Listed(v, g) = T
    BY <2>1 DEF Listed
  <2>3. v.twice = w.twice /\ v.grown = (w.grown \/ ~(T \subseteq S))
    BY <1>2 DEF Watched, Walks
  <2>4. S \in SUBSET Docs /\ T \in SUBSET Docs
    BY ListedType
  <2>5. ASSUME ~v.grown, v.list = v.goal
        PROVE  ~v.twice /\ \A d \in v.got : d \in T => Before(d, T) < v.cursor
    <3>1. ~w.grown /\ T \subseteq S /\ w.list = w.goal
      BY <2>1, <2>3, <2>5
    <3>2. ~w.twice /\ \A d \in w.got : d \in S => Before(d, S) < w.cursor
      BY <1>2, <3>1 DEF Once, Behind
    <3>3. ASSUME NEW d \in w.got, d \in T PROVE Before(d, T) < w.cursor
      <4>1. Before(d, T) <= Before(d, S) /\ Before(d, S) < w.cursor
        BY <2>4, <3>1, <3>2, <3>3, BeforeGrows
      <4>2. Before(d, S) \in Nat /\ Before(d, T) \in Nat /\ w.cursor \in Nat
        BY <2>4, <3>3, BeforeType DEF Walks
      <4> QED BY <4>1, <4>2
    <3> QED BY <2>1, <2>3, <3>2, <3>3
  <2>6. w.list = "window" => w.goal = "window"
    BY DEF Once
  <2> HIDE DEF v, S, T
  <2> QED BY <2>1, <2>2, <2>5, <2>6 DEF Once, Behind, v
<1> QED BY <1>1, <1>2

\* A page begins at the cursor and ends before the next one.
LEMMA OnceCollected ==
    ASSUME NEW w \in Walks, w.pc = "fetch", Once(w, reg), NEW g,
           Listed(w, g) \subseteq Listed(w, reg)
    PROVE  Once(Collected(w), g)
<1> DEFINE v == Collected(w)
           S == Listed(w, reg)
           T == Listed(w, g)
           next == Following(w)
           kept == Kept(w)
<1>1. /\ v.pc = IF ~Last(w) THEN "fetch" ELSE IF next = 0 THEN "done" ELSE "paused"
      /\ v.cursor = next /\ v.got = w.got \cup kept
      /\ v.twice = (w.twice \/ kept \cap w.got # {}) /\ v.grown = w.grown
      /\ v.goal = w.goal /\ v.list = w.list /\ v.from = w.from /\ v.to = w.to
  BY DEF Collected, Walks
<1>2. Listed(v, g) = T
  BY <1>1 DEF Listed
<1>3. next = 0 => Last(w)
  BY DEF Last
<1>4. S \in SUBSET Docs /\ T \in SUBSET Docs
  BY ListedType
<1>5. w.cursor \in Nat /\ PageSize \in Nat \ {0}
  BY RegisterAssumption DEF Walks
<1>6. \A d \in kept : d \in S /\ w.cursor <= Before(d, S) /\ Before(d, S) < w.cursor + PageSize
  BY DEF Kept, Rows, Page
<1>7. next # 0 => next = w.cursor + PageSize
  BY DEF Following, NextCursor
<1>8. w.list = "window" => w.goal = "window"
  BY DEF Once
<1> HIDE DEF v, S, T, next, kept
<1>9. ASSUME ~w.grown, w.list = w.goal
      PROVE  /\ ~w.twice /\ kept \cap w.got = {}
             /\ next # 0 => \A d \in w.got \cup kept : d \in T => Before(d, T) < next
  <2>1. ~w.twice /\ \A d \in w.got : d \in S => Before(d, S) < w.cursor
    BY <1>9 DEF Once, Behind, S
  <2>2. ASSUME NEW d \in kept, d \in w.got PROVE FALSE
    <3>1. w.cursor <= Before(d, S) /\ Before(d, S) < w.cursor /\ Before(d, S) \in Nat
      BY <1>4, <1>6, <2>1, <2>2, BeforeType
    <3> QED BY <1>5, <3>1
  <2>3. ASSUME next # 0, NEW d \in w.got \cup kept, d \in T PROVE Before(d, T) < next
    <3>1. d \in S /\ T \subseteq S
      BY <2>3 DEF S, T
    <3>2. Before(d, T) <= Before(d, S) /\ Before(d, T) \in Nat /\ Before(d, S) \in Nat
      BY <1>4, <3>1, <2>3, BeforeGrows, BeforeType
    <3>3. Before(d, S) < w.cursor + PageSize
      BY <1>5, <1>6, <2>1, <2>3, <3>1, <3>2
    <3> QED BY <1>5, <1>7, <2>3, <3>2, <3>3
  <2> QED BY <2>1, <2>2, <2>3
<1>10. v.pc \in {"fetch", "paused"} => next # 0
  BY <1>1, <1>3
<1>11. Once(v, g)
  BY <1>1, <1>2, <1>8, <1>9, <1>10 DEF Once, Behind
<1> QED BY <1>11 DEF v

LEMMA OnceWatch ==
    ASSUME TypeOK, OInv, NEW D, Watch(D)
    PROVE  OInv'
<1>1. \A r \in Reader : walk[r] \in Walks /\ Once(walk[r], reg)
  BY DEF TypeOK, OInv
<1>2. \A r \in Reader : Once(Watched(walk[r], reg', D), reg')
  BY <1>1, OnceWatched
<1>3. \A r \in Reader : Once(walk'[r], reg')
  BY <1>2, Zenon DEF Watch
<1> QED BY <1>3 DEF OInv

LEMMA OnceOne ==
    ASSUME TypeOK, OInv, NEW r \in Reader, NEW w, Once(w, reg),
           walk' = [walk EXCEPT ![r] = w], reg' = reg
    PROVE  OInv'
<1>1. \A x \in Reader : walk'[x] = IF x = r THEN w ELSE walk[x]
  BY DEF TypeOK
<1>2. \A x \in Reader : Once(walk'[x], reg)
  BY <1>1, Zenon DEF OInv
<1>3. \A x \in Reader : Once(walk'[x], reg')
  BY <1>2, Zenon
<1> QED BY <1>3 DEF OInv

LEMMA OnceIdle == \A g : Once(Idle, g)
BY DEF Once, Behind, Idle

LEMMA OnceRegister == TypeOK /\ OInv /\ Register => OInv'
<1> SUFFICES ASSUME TypeOK, OInv, Register PROVE OInv'
  OBVIOUS
<1>1. CASE Tick
  <2>1. walk' = walk /\ reg' = reg
    BY <1>1 DEF Tick
  <2> QED BY <2>1 DEF OInv
<1>2. CASE \E d \in Docs : \/ Upload(d) \/ MarkProcessed(d) \/ Delete(d) \/ Index(d)
                          \/ \E b \in BOOLEAN : Change(d, b)
  <2>1. \E D : Watch(D)
    BY <1>2 DEF Upload, MarkProcessed, Delete, Index, Change
  <2> QED BY <2>1, OnceWatch
<1> QED BY <1>1, <1>2 DEF Register

LEMMA OnceFetch ==
    ASSUME TypeOK, OInv, NEW r \in Reader, Fetch(r)
    PROVE  OInv'
<1> DEFINE w == walk[r]
<1>1. \A x \in Reader : walk[x] \in Walks /\ Once(walk[x], reg)
  BY DEF TypeOK, OInv
<1>2. Listed(w, reg') \subseteq Listed(w, reg)
  <2>1. \A d \in Docs : /\ reg'[d].state = reg[d].state /\ reg'[d].indexed = reg[d].indexed
                        /\ reg'[d].processed = reg[d].processed /\ (reg'[d].flag => reg[d].flag)
    BY DEF Fetch, Unmark, TypeOK, Entries
  <2> QED BY <2>1 DEF Listed, Matching, Matches
<1>3. Once(Collected(w), reg')
  BY <1>1, <1>2, OnceCollected DEF Fetch
<1>4. \A x \in Reader : walk'[x] = IF x = r THEN Collected(w) ELSE Watched(walk[x], reg', {})
  BY DEF Fetch
<1>5. \A x \in Reader : Once(Watched(walk[x], reg', {}), reg')
  BY <1>1, OnceWatched
<1>6. \A x \in Reader : Once(walk'[x], reg')
  BY <1>3, <1>4, <1>5, Zenon
<1> QED BY <1>6 DEF OInv

LEMMA OnceTools == TypeOK /\ OInv /\ Tools => OInv'
<1> SUFFICES ASSUME TypeOK, OInv, Tools PROVE OInv'
  OBVIOUS
<1>1. ASSUME NEW r \in Reader, NEW q \in Queries, NEW rows \in AskRows, NEW pages \in AskPages,
             List(r, q, rows, pages) PROVE OInv'
  <2> DEFINE w == walk'[r]
  <2>1. w = [Idle EXCEPT !.pc = "fetch", !.goal = q, !.list = q, !.limit = Limit(rows),
                         !.left = Pages(pages), !.want = Matching(reg, q, 0, 0)]
    BY <1>1 DEF List, TypeOK
  <2>2. walk' = [walk EXCEPT ![r] = w] /\ reg' = reg
    BY <1>1 DEF List, TypeOK
  <2>3. w.goal = w.list /\ w.got = {} /\ ~w.twice
    BY <2>1 DEF Idle
  <2> HIDE DEF w
  <2>4. Once(w, reg)
    BY <2>3 DEF Once, Behind
  <2> QED BY <2>2, <2>4, OnceOne
<1>2. ASSUME NEW r \in Reader, NEW rows \in AskRows, NEW pages \in AskPages,
             Sync(r, rows, pages) PROVE OInv'
  <2> DEFINE w == walk'[r]
  <2>1. w = [Idle EXCEPT !.pc = "fetch", !.goal = "window", !.list = "window",
               !.from = since[r], !.to = Floor(now),
               !.limit = IF rows = 0 THEN SyncLimit ELSE Limit(rows),
               !.left = IF pages = 0 THEN Pages(SyncPages) ELSE Pages(pages),
               !.want = Matching(reg, "window", since[r], Floor(now))]
    BY <1>2 DEF Sync, TypeOK
  <2>2. walk' = [walk EXCEPT ![r] = w] /\ reg' = reg
    BY <1>2 DEF Sync, TypeOK
  <2>3. w.goal = w.list /\ w.got = {} /\ ~w.twice
    BY <2>1 DEF Idle
  <2> HIDE DEF w
  <2>4. Once(w, reg)
    BY <2>3 DEF Once, Behind
  <2> QED BY <2>2, <2>4, OnceOne
<1>3. ASSUME NEW r \in Reader, NEW rows \in AskRows, NEW pages \in AskPages,
             Continue(r, rows, pages) PROVE OInv'
  <2> DEFINE w == walk[r]
             list == IF w.list = "window" THEN "all" ELSE w.list
             v == [w EXCEPT !.pc = "fetch", !.limit = Limit(rows), !.left = Pages(pages), !.list = list]
  <2>1. w \in Walks /\ Once(w, reg) /\ w.pc = "paused"
    BY <1>3 DEF TypeOK, OInv, Continue
  <2>2. /\ v.pc = "fetch" /\ v.list = list /\ v.goal = w.goal /\ v.from = w.from /\ v.to = w.to
        /\ v.got = w.got /\ v.cursor = w.cursor /\ v.twice = w.twice /\ v.grown = w.grown
    BY <2>1 DEF Walks
  <2>3. walk' = [walk EXCEPT ![r] = v] /\ reg' = reg
    BY <1>3 DEF Continue, TypeOK
  <2>4. v.list = v.goal => w.list = v.list
    BY <2>1, <2>2 DEF Once
  <2>5. v.list # "window"
    BY <2>2
  <2>6. w.list = v.list => Listed(v, reg) = Listed(w, reg)
    BY <2>2 DEF Listed
  <2> HIDE DEF v, list
  <2>7. Once(v, reg)
    BY <2>1, <2>2, <2>4, <2>5, <2>6 DEF Once, Behind
  <2> QED BY <2>3, <2>7, OnceOne
<1>4. ASSUME NEW r \in Reader, Fetch(r) PROVE OInv'
  BY <1>4, OnceFetch
<1>5. ASSUME NEW r \in Reader, LosePage(r) PROVE OInv'
  BY <1>5, OnceWatch DEF LosePage
<1>6. ASSUME NEW r \in Reader, Fail(r) \/ Leave(r) PROVE OInv'
  <2>1. walk' = [walk EXCEPT ![r] = Idle] /\ reg' = reg
    BY <1>6 DEF Fail, Leave
  <2> QED BY <2>1, OnceIdle, OnceOne
<1> QED BY <1>1, <1>2, <1>3, <1>4, <1>5, <1>6 DEF Tools

\* No document is given twice in one walk, whatever leaves the list, however
\* answers are cut and calls continue, unless a document came into the list.
THEOREM NoneTwiceAlways == Spec => []NoneTwice
<1>1. Init => OInv
  <2> SUFFICES ASSUME Init PROVE OInv
    OBVIOUS
  <2>1. \A r \in Reader : walk[r] = Idle
    BY DEF Init
  <2> QED BY <2>1, OnceIdle, Zenon DEF OInv
<1>2. TypeOK /\ OInv /\ [Next]_vars => OInv'
  <2>1. OInv /\ UNCHANGED vars => OInv'
    BY DEF vars, OInv
  <2> QED BY <2>1, OnceRegister, OnceTools DEF Next
<1>3. OInv => NoneTwice
  BY DEF OInv, Once, NoneTwice
<1> QED BY <1>1, <1>2, <1>3, TypeCorrect, PTL DEF Spec

-----------------------------------------------------------------------------
(* MarkKept: a mark is on its document or in the answer of a call under way. *)

\* Only a call under way holds rows.
Empty == \A r \in Reader : walk[r].pc # "fetch" => walk[r].out = {}

LEMMA SyncedEmpty == SInv => Empty
BY DEF SInv, Synced, Gives, Empty


\* A mark that is owed is of a document that has been uploaded.
Known == \A d \in owed : reg[d].state # "new"

MInv == MarkKept /\ Known

\* What MarkKept is about, and what it finds in the answers of calls.
Owing(d) == d \in owed /\ reg[d].state = "there" /\ d \notin dropped
Held(d, r) == walk[r].list = "flagged" /\ d \in walk[r].out

\* It is enough that a step leaves each document that is owed its mark or its
\* place in an answer, or marks it.
LEMMA MarkedStep ==
    ASSUME TypeOK', MarkKept,
           \A d \in Docs : Owing(d)' =>
               \/ reg'[d].flag
               \/ /\ Owing(d) /\ ~reg[d].flag
                  /\ \A r \in Reader : Held(d, r) => Held(d, r)'
    PROVE  MarkKept'
<1> SUFFICES ASSUME NEW d \in owed', reg'[d].state = "there", d \notin dropped', ~reg'[d].flag
             PROVE  \E r \in Reader : walk'[r].list = "flagged" /\ d \in walk'[r].out
  BY DEF MarkKept
<1>1. d \in Docs
  BY DEF TypeOK
<1>2. Owing(d)'
  BY DEF Owing
<1>3. Owing(d) /\ ~reg[d].flag /\ \A r \in Reader : Held(d, r) => Held(d, r)'
  BY <1>1, <1>2
<1>4. PICK r \in Reader : Held(d, r)
  BY <1>3 DEF MarkKept, Owing, Held
<1>5. Held(d, r)'
  BY <1>3, <1>4
<1> QED BY <1>5 DEF Held

\* What a walk sees of the register leaves its list and its rows alone.
LEMMA WatchRows ==
    ASSUME TypeOK, NEW D, Watch(D), NEW r \in Reader
    PROVE  walk'[r].list = walk[r].list /\ walk'[r].out = walk[r].out
BY WatchedType DEF Watch, TypeOK

LEMMA MarkKeptRegister == TypeOK /\ TypeOK' /\ MInv /\ Register => MInv'
<1> SUFFICES ASSUME TypeOK, TypeOK', MInv, Register PROVE MInv'
  OBVIOUS
<1>1. CASE Tick
  BY <1>1 DEF Tick, MInv, MarkKept, Known
<1>2. ASSUME NEW x \in Docs, Upload(x) PROVE MInv'
  <2>1. /\ Watch({}) /\ owed' = owed /\ dropped' = dropped
        /\ \A d \in Docs : /\ reg'[d].flag = reg[d].flag
                           /\ reg'[d].state = IF d = x THEN "there" ELSE reg[d].state
    BY <1>2 DEF Upload, TypeOK, Entries
  <2>2. x \notin owed
    BY <1>2 DEF MInv, Known, Upload
  <2>3. Known'
    BY <2>1 DEF MInv, Known, TypeOK
  <2>4. ASSUME NEW d \in Docs, NEW r \in Reader, Held(d, r) PROVE Held(d, r)'
    BY <2>1, <2>4, WatchRows DEF Held
  <2>5. MarkKept'
    BY <2>1, <2>2, <2>4, MarkedStep DEF MInv, Owing
  <2> QED BY <2>3, <2>5 DEF MInv
<1>3. ASSUME NEW x \in Docs, MarkProcessed(x) \/ Delete(x) \/ Index(x)
      PROVE  MInv'
  <2>1. /\ Watch({}) /\ owed' = owed /\ dropped' = dropped
        /\ \A d \in Docs : /\ reg'[d].flag = reg[d].flag
                           /\ reg'[d].state = reg[d].state \/ reg'[d].state = "gone"
    BY <1>3 DEF MarkProcessed, Delete, Index, TypeOK, Entries
  <2>2. Known'
    BY <2>1 DEF MInv, Known, TypeOK
  <2>3. ASSUME NEW d \in Docs, NEW r \in Reader, Held(d, r) PROVE Held(d, r)'
    BY <2>1, <2>3, WatchRows DEF Held
  <2>4. MarkKept'
    BY <2>1, <2>3, MarkedStep DEF MInv, Owing
  <2> QED BY <2>2, <2>4 DEF MInv
<1>4. ASSUME NEW x \in Docs, NEW b \in BOOLEAN, Change(x, b) PROVE MInv'
  <2>0. /\ Watch({x}) /\ reg[x].state = "there"
        /\ owed' = IF b THEN owed \cup {x} ELSE owed
        /\ dropped' = IF b THEN dropped \ {x} ELSE dropped
        /\ reg' = [reg EXCEPT ![x].changed = now, ![x].flag = @ \/ b]
    BY <1>4 DEF Change
  <2>1. \A d \in Docs : /\ reg'[d].state = reg[d].state
                        /\ d # x => reg'[d] = reg[d]
                        /\ d = x => reg'[d].flag = (reg[d].flag \/ b)
    BY <2>0 DEF TypeOK, Entries
  <2>2. Known'
    BY <2>0, <2>1 DEF MInv, Known, TypeOK
  <2>3. ASSUME NEW d \in Docs, NEW r \in Reader, Held(d, r) PROVE Held(d, r)'
    BY <2>0, <2>3, WatchRows DEF Held
  <2>4. MarkKept'
    BY <2>0, <2>1, <2>3, MarkedStep DEF MInv, Owing
  <2> QED BY <2>2, <2>4 DEF MInv
<1> QED BY <1>1, <1>2, <1>3, <1>4 DEF Register

\* A page that unmarks documents hands them out, or their marks are dropped.
LEMMA MarkKeptFetch ==
    ASSUME TypeOK, TypeOK', MInv, NEW r \in Reader, Fetch(r)
    PROVE  MInv'
<1> DEFINE w == walk[r]
           v == Collected(w)
           rows == Rows(w)
           kept == Kept(w)
           flagged == w.list = "flagged"
<1>1. /\ w \in Walks /\ kept \in SUBSET rows /\ rows \in SUBSET Docs
  BY PageType DEF TypeOK
<1>2. \A d \in Docs : /\ reg'[d].state = reg[d].state
                      /\ reg'[d].flag = (reg[d].flag /\ ~(flagged /\ d \in rows))
  BY DEF Fetch, Unmark, Unmarked, TypeOK, Entries
<1>3. /\ owed' = IF Last(w) /\ flagged
                 THEN owed \ {d \in w.out \cup kept : ~reg'[d].flag} ELSE owed
      /\ dropped' = IF flagged THEN dropped \cup (rows \ kept) ELSE dropped
  BY DEF Fetch
<1>4. /\ v.list = w.list
      /\ v.out = IF Last(w) THEN {} ELSE w.out \cup kept
  BY <1>1 DEF Collected, Walks
<1>5. walk'[r] = v
  BY DEF Fetch
<1>6. ASSUME NEW x \in Reader, x # r
      PROVE  walk'[x].list = walk[x].list /\ walk'[x].out = walk[x].out
  BY <1>6, WatchedType DEF Fetch, TypeOK
<1> HIDE DEF w, v, rows, kept
<1>7. Known'
  BY <1>2, <1>3 DEF MInv, Known, TypeOK
<1>8. ASSUME NEW d \in Docs, Owing(d)', ~reg'[d].flag
      PROVE  \E x \in Reader : Held(d, x)'
  <2>1. Owing(d)
    BY <1>2, <1>3, <1>8 DEF Owing
  <2>2. ~(Last(w) /\ flagged /\ d \in w.out \cup kept) /\ ~(flagged /\ d \in rows \ kept)
    BY <1>3, <1>8 DEF Owing
  <2>3. CASE reg[d].flag
    <3>1. flagged /\ d \in kept
      BY <1>2, <1>8, <2>2, <2>3
    <3>2. Held(d, r)'
      BY <1>4, <1>5, <2>2, <3>1 DEF Held
    <3> QED BY <3>2
  <2>4. CASE ~reg[d].flag
    <3>1. PICK x \in Reader : Held(d, x)
      BY <2>1, <2>4 DEF MInv, MarkKept, Owing, Held
    <3>2. CASE x = r
      <4>1. flagged /\ d \in w.out
        BY <3>1, <3>2 DEF Held, w
      <4>2. Held(d, r)'
        BY <1>4, <1>5, <2>2, <4>1 DEF Held
      <4> QED BY <4>2
    <3>3. CASE x # r
      <4>1. Held(d, x)'
        BY <1>6, <3>1, <3>3 DEF Held
      <4> QED BY <4>1
    <3> QED BY <3>2, <3>3
  <2> QED BY <2>3, <2>4
<1>9. MarkKept'
  BY <1>8 DEF MarkKept, Owing, Held, TypeOK
<1> QED BY <1>7, <1>9 DEF MInv

\* A step of a tool that holds no rows, and of one that fails and drops them.
LEMMA MarkKeptOne ==
    ASSUME TypeOK, TypeOK', MInv, NEW r \in Reader, NEW w, walk' = [walk EXCEPT ![r] = w],
           reg' = reg, owed' = owed, dropped \subseteq dropped',
           walk[r].list = "flagged" => walk[r].out \subseteq dropped'
    PROVE  MInv'
<1>1. \A x \in Reader : x # r => walk'[x] = walk[x]
  BY DEF TypeOK
<1>2. ASSUME NEW d \in Docs, Owing(d)', NEW x \in Reader, Held(d, x) PROVE Held(d, x)'
  BY <1>1, <1>2 DEF Held, Owing
<1>3. MarkKept'
  BY <1>2, MarkedStep DEF MInv, Owing
<1>4. Known'
  BY DEF MInv, Known
<1> QED BY <1>3, <1>4 DEF MInv

LEMMA MarkKeptTools == TypeOK /\ TypeOK' /\ Empty /\ MInv /\ Tools => MInv'
<1> SUFFICES ASSUME TypeOK, TypeOK', Empty, MInv, Tools PROVE MInv'
  OBVIOUS
<1>1. ASSUME NEW r \in Reader, NEW rows \in AskRows, NEW pages \in AskPages,
             \/ Sync(r, rows, pages) \/ Continue(r, rows, pages)
             \/ \E q \in Queries : List(r, q, rows, pages)
      PROVE  MInv'
  <2>1. /\ walk' = [walk EXCEPT ![r] = walk'[r]] /\ reg' = reg /\ owed' = owed /\ dropped' = dropped
        /\ walk[r].pc # "fetch"
    BY <1>1 DEF Sync, Continue, List, TypeOK
  <2>2. walk[r].out = {}
    BY <2>1 DEF Empty
  <2> QED BY <2>1, <2>2, MarkKeptOne
<1>2. ASSUME NEW r \in Reader, Fetch(r) PROVE MInv'
  BY <1>2, MarkKeptFetch
<1>3. ASSUME NEW r \in Reader, LosePage(r) PROVE MInv'
  <2>1. Watch({}) /\ owed' = owed /\ dropped' = dropped \cup Rows(walk[r])
    BY <1>3 DEF LosePage
  <2>2. \A d \in Docs : /\ reg'[d].state = reg[d].state
                        /\ d \notin Rows(walk[r]) => reg'[d].flag = reg[d].flag
    BY <1>3 DEF LosePage, Unmark, Unmarked, TypeOK, Entries
  <2>3. ASSUME NEW d \in Docs, NEW x \in Reader, Held(d, x) PROVE Held(d, x)'
    BY <2>1, <2>3, WatchRows DEF Held
  <2>4. MarkKept'
    BY <2>1, <2>2, <2>3, MarkedStep DEF MInv, Owing
  <2>5. Known'
    BY <2>1, <2>2 DEF MInv, Known, TypeOK
  <2> QED BY <2>4, <2>5 DEF MInv
<1>4. ASSUME NEW r \in Reader, Fail(r) PROVE MInv'
  <2>1. /\ walk' = [walk EXCEPT ![r] = Idle] /\ reg' = reg /\ owed' = owed
        /\ dropped' = IF walk[r].list = "flagged" THEN dropped \cup walk[r].out ELSE dropped
    BY <1>4 DEF Fail
  <2> QED BY <2>1, MarkKeptOne
<1>5. ASSUME NEW r \in Reader, Leave(r) PROVE MInv'
  <2>1. /\ walk' = [walk EXCEPT ![r] = Idle] /\ reg' = reg /\ owed' = owed /\ dropped' = dropped
        /\ walk[r].pc # "fetch"
    BY <1>5 DEF Leave
  <2>2. walk[r].out = {}
    BY <2>1 DEF Empty
  <2> QED BY <2>1, <2>2, MarkKeptOne
<1> QED BY <1>1, <1>2, <1>3, <1>4, <1>5 DEF Tools

\* A document that was marked as changed keeps its mark until a call returns it,
\* whatever is uploaded, deleted or read in between, unless a call took the mark
\* and did not return the document.
THEOREM MarkKeptAlways == Spec => []MarkKept
<1>1. Init => MInv
  BY DEF Init, MInv, MarkKept, Known
<1>2. TypeOK /\ TypeOK' /\ SInv /\ MInv /\ [Next]_vars => MInv'
  <2>1. MInv /\ UNCHANGED vars => MInv'
    BY DEF vars, MInv, MarkKept, Known
  <2> QED BY <2>1, SyncedEmpty, MarkKeptRegister, MarkKeptTools DEF Next
<1>3. MInv => MarkKept
  BY DEF MInv
<1> QED BY <1>1, <1>2, <1>3, SyncedAlways, TypeCorrect, PTL DEF Spec
=============================================================================
