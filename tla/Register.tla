------------------------------ MODULE Register ------------------------------
(***************************************************************************)
(* The document register and its readers: collect, list_documents and      *)
(* sync_changed_documents (internal/tools/documents.go) walk the cursor    *)
(* pages of a register (internal/mockvchasno/routes.go) that goes on       *)
(* changing between one page and the next.                                 *)
(*                                                                         *)
(* A page is a step: the service answers it under its lock.  A cursor is   *)
(* the number of documents before the next page.  Documents are numbered   *)
(* in the order in which the register lists them.                          *)
(***************************************************************************)
EXTENDS Naturals, FiniteSets

CONSTANTS Docs,        \* documents, in the order of their ids
          Seeds,       \* those the register begins with
          Reader,      \* callers of the tools
          Queries,     \* the kinds of list they ask for
          PageSize,    \* documents on a page
          DefaultPage, MaxPageSize, MaxPages,   \* MCP_DEFAULT_PAGE_SIZE, MCP_MAX_...
          SyncRows, SyncPages,  \* what sync_changed_documents asks for by itself
          AskRows, AskPages,    \* limit and pages of a call; 0 when left out
          Minute,      \* ticks in a minute
          Delay,       \* longest time until a change is in the search index
          Overlap,     \* how far a reader goes back from next_window_start
          Edited,      \* bound of the model: documents that are changed
          Handled,     \* bound of the model: documents that are marked as processed
          MaxTime      \* bound of the model: the last tick

ASSUME RegisterAssumption ==
    /\ Docs \subseteq Nat /\ IsFiniteSet(Docs) /\ Seeds \subseteq Docs
    /\ Edited \subseteq Docs /\ Handled \subseteq Docs
    /\ Queries \subseteq {"all", "unprocessed", "flagged", "window"}
    /\ \A n \in {PageSize, DefaultPage, MaxPageSize, MaxPages, SyncRows, SyncPages, Minute} :
          n \in Nat \ {0}
    /\ DefaultPage <= MaxPageSize /\ MaxPageSize * MaxPages \in Nat \ {0}
    /\ MaxPageSize <= MaxPageSize * MaxPages
    /\ AskRows \subseteq Nat /\ AskPages \subseteq Nat
    /\ Delay \in Nat /\ Overlap \in Nat /\ Delay <= Overlap /\ MaxTime \in Nat

VARIABLES reg,      \* reg[d]: a document
          now,
          walk,     \* walk[r]: the list a reader is walking through
          since,    \* since[r]: where the next sync window of a reader begins
          shown,    \* history: shown[r], documents a sync gave a reader and that are as they were then
          gap,      \* history: readers with a window they did not see the whole of
          owed,     \* history: documents marked as changed and not shown as such since
          dropped   \* history: documents unmarked by a call that did not return them

vars == <<reg, now, walk, since, shown, gap, owed, dropped>>

\* An answer of the register that is being put together, and what it belongs to.
Idle == [pc |-> "idle", goal |-> "all", list |-> "all", from |-> 0, to |-> 0, cursor |-> 0,
         limit |-> 0, left |-> 0, n |-> 0, out |-> {}, stale |-> {}, got |-> {}, want |-> {},
         twice |-> FALSE, cut |-> FALSE, shrunk |-> FALSE, grown |-> FALSE]

Init == /\ reg = [d \in Docs |-> [state |-> IF d \in Seeds THEN "there" ELSE "new",
                                  changed |-> IF d \in Seeds THEN 1 ELSE 0,
                                  indexed |-> IF d \in Seeds THEN 1 ELSE 0,   \* 0: not indexed
                                  flag |-> FALSE, processed |-> FALSE]]
        /\ now = 1
        /\ walk = [r \in Reader |-> Idle]
        /\ since = [r \in Reader |-> 0]
        /\ shown = [r \in Reader |-> {}]
        /\ gap = {}
        /\ owed = {}
        /\ dropped = {}

-----------------------------------------------------------------------------
(* The register. *)

\* matches: the filters of a list.  The window is of what the index knows, and
\* its end is not part of it.
InWindowAfter(c, f, t) == c > 0 /\ f < c /\ c < t    \* mutant: nor is its beginning

InWindow(c, f, t) == c > 0 /\ f <= c /\ c < t

Matches(d, g, q, f, t) ==
    /\ g[d].state = "there"
    /\ q = "unprocessed" => ~g[d].processed
    /\ q = "flagged" => g[d].flag
    /\ q = "window" => InWindow(g[d].indexed, f, t)

Matching(g, q, f, t) == {d \in Docs : Matches(d, g, q, f, t)}

Listed(w, g) == Matching(g, w.list, w.from, w.to)
Wanted(w, g) == Matching(g, w.goal, w.from, w.to)

\* listDocuments: a page of a list, and the cursor of the next one; 0 when there is none.
Before(d, S) == Cardinality({e \in S : e < d})

PageOverlapping(S, c) == {d \in S : c <= Before(d, S) + 1 /\ Before(d, S) < c + PageSize}  \* mutant

Page(S, c) == {d \in S : c <= Before(d, S) /\ Before(d, S) < c + PageSize}

NextTooEarly(S, c) == IF c + PageSize + 1 < Cardinality(S) THEN c + PageSize ELSE 0   \* mutant

NextCursor(S, c) == IF c + PageSize < Cardinality(S) THEN c + PageSize ELSE 0

\* A walk under way sees the register become g under it, the documents of D with
\* new contents.
Watched(w, g, D) ==
    IF w.pc \notin {"fetch", "paused"} THEN w
    ELSE [w EXCEPT !.shrunk = @ \/ ~(Listed(w, reg) \subseteq Listed(w, g)),
                   !.grown  = @ \/ ~(Listed(w, g) \subseteq Listed(w, reg)),
                   !.want   = @ \cap Wanted(w, g),
                   !.stale  = @ \cup (w.out \cap D)]

Watch(D) == walk' = [r \in Reader |-> Watched(walk[r], reg', D)]

\* upload: ids are given in ascending order and never again.
Upload(d) ==
    /\ reg[d].state = "new" /\ \A e \in Docs \ Seeds : e < d => reg[e].state # "new"
    /\ reg' = [reg EXCEPT ![d].state = "there", ![d].changed = now]
    /\ Watch({})
    /\ UNCHANGED <<now, since, shown, gap, owed, dropped>>

\* What the workflow routes and Touch do to a document; some do not set has_changed.
Change(d, flags) ==
    /\ reg[d].state = "there" /\ d \in Edited
    /\ reg' = [reg EXCEPT ![d].changed = now, ![d].flag = @ \/ flags]
    /\ owed' = IF flags THEN owed \cup {d} ELSE owed
    /\ dropped' = IF flags THEN dropped \ {d} ELSE dropped
    /\ Watch({d})
    /\ shown' = [r \in Reader |-> shown[r] \ {d}]
    /\ UNCHANGED <<now, since, gap>>

MarkProcessed(d) ==
    /\ reg[d].state = "there" /\ ~reg[d].processed /\ d \in Handled
    /\ reg' = [reg EXCEPT ![d].processed = TRUE]
    /\ Watch({})
    /\ UNCHANGED <<now, since, shown, gap, owed, dropped>>

Delete(d) ==
    /\ reg[d].state = "there"
    /\ reg' = [reg EXCEPT ![d].state = "gone"]
    /\ Watch({})
    /\ UNCHANGED <<now, since, shown, gap, owed, dropped>>

\* "changes reach the index with a small delay"
Index(d) ==
    /\ reg[d].state = "there" /\ reg[d].indexed # reg[d].changed
    /\ reg' = [reg EXCEPT ![d].indexed = reg[d].changed]
    /\ Watch({})
    /\ UNCHANGED <<now, since, shown, gap, owed, dropped>>

Tick ==
    /\ now < MaxTime
    /\ \A d \in Docs : reg[d].state = "there" =>
          reg[d].indexed = reg[d].changed \/ now < reg[d].changed + Delay
    /\ now' = now + 1
    /\ UNCHANGED <<reg, walk, since, shown, gap, owed, dropped>>

-----------------------------------------------------------------------------
(* The tools. *)

\* limit and pages: what is asked for, within the bounds of the configuration.
Limit(ask) == IF ask = 0 THEN DefaultPage ELSE IF ask > MaxPageSize THEN MaxPageSize ELSE ask

PagesUnbounded(ask) == IF ask = 0 THEN 1 ELSE ask             \* mutant

Pages(ask) == IF ask = 0 THEN 1 ELSE IF ask > MaxPages THEN MaxPages ELSE ask

SyncLimit == IF SyncRows > MaxPageSize * MaxPages THEN MaxPageSize * MaxPages ELSE SyncRows

Floor(t) == t - (t % Minute)

Back(t) == IF t > Overlap THEN t - Overlap ELSE 0

\* list_documents and list_incoming_documents, from the beginning.
List(r, q, rows, pages) ==
    /\ walk[r].pc = "idle" /\ q # "window"
    /\ walk' = [walk EXCEPT ![r] = [Idle EXCEPT !.pc = "fetch", !.goal = q, !.list = q,
           !.limit = Limit(rows), !.left = Pages(pages), !.want = Matching(reg, q, 0, 0)]]
    /\ UNCHANGED <<reg, now, since, shown, gap, owed, dropped>>

\* sync_changed_documents: the window ends at the minute that has begun.
Sync(r, rows, pages) ==
    /\ walk[r].pc = "idle" /\ "window" \in Queries
    /\ walk' = [walk EXCEPT ![r] = [Idle EXCEPT !.pc = "fetch", !.goal = "window", !.list = "window",
           !.from = since[r], !.to = Floor(now),
           !.limit = IF rows = 0 THEN SyncLimit ELSE Limit(rows),
           !.left = IF pages = 0 THEN Pages(SyncPages) ELSE Pages(pages),
           !.want = Matching(reg, "window", since[r], Floor(now))]]
    /\ UNCHANGED <<reg, now, since, shown, gap, owed, dropped>>

\* Another call with the cursor of the last.  The rest of a window is asked of
\* list_documents, which knows no window.
Continue(r, rows, pages) ==
    /\ walk[r].pc = "paused"
    /\ walk' = [walk EXCEPT ![r].pc = "fetch", ![r].limit = Limit(rows), ![r].left = Pages(pages),
                            ![r].list = IF @ = "window" THEN "all" ELSE @]
    /\ UNCHANGED <<reg, now, since, shown, gap, owed, dropped>>

\* The service answers a page; a list of marked documents unmarks those on it.
UnmarkAlways(w, rows) == rows        \* mutant: any list does

Unmarked(w, rows) == IF w.list = "flagged" THEN rows ELSE {}

Unmark(D) == reg' = [d \in Docs |-> [reg[d] EXCEPT !.flag = @ /\ d \notin D]]

\* collect: with enough rows, without a next page, or when the call has walked
\* its pages, the tool answers with the first rows up to the limit, and with the
\* cursor behind all of them.
Rows(w) == Page(Listed(w, reg), w.cursor)
Following(w) == NextCursor(Listed(w, reg), w.cursor)
Last(w) == w.n + Cardinality(Rows(w)) >= w.limit \/ Following(w) = 0 \/ w.left = 1
Kept(w) == IF Last(w) THEN {d \in Rows(w) : w.n + Before(d, Rows(w)) < w.limit} ELSE Rows(w)

Collected(w) == [w EXCEPT
    !.pc = IF ~Last(w) THEN "fetch" ELSE IF Following(w) = 0 THEN "done" ELSE "paused",
    !.cursor = Following(w),
    !.limit = IF Last(w) THEN 0 ELSE @,
    !.left  = IF Last(w) THEN 0 ELSE @ - 1,
    !.n     = IF Last(w) THEN 0 ELSE @ + Cardinality(Rows(w)),
    !.out   = IF Last(w) THEN {} ELSE @ \cup Kept(w),
    !.stale = IF Last(w) THEN {} ELSE @ \ Kept(w),
    !.got   = @ \cup Kept(w),
    !.twice = @ \/ Kept(w) \cap w.got # {},
    !.cut   = @ \/ Kept(w) # Rows(w),
    !.shrunk = @ \/ (w.list = "flagged" /\ Following(w) # 0)]

Fetch(r) ==
    LET w == walk[r]
        out == w.out \cup Kept(w)
    IN  /\ w.pc = "fetch"
        /\ Unmark(Unmarked(w, Rows(w)))
        /\ walk' = [x \in Reader |-> IF x = r THEN Collected(w) ELSE Watched(walk[x], reg', {})]
        /\ shown' = IF Last(w) /\ w.goal = "window"
                    THEN [shown EXCEPT ![r] = @ \cup (out \ (w.stale \ Kept(w)))] ELSE shown
        /\ owed' = IF Last(w) /\ w.list = "flagged"
                   THEN owed \ {d \in out : ~reg'[d].flag} ELSE owed
        /\ dropped' = IF w.list = "flagged" THEN dropped \cup (Rows(w) \ Kept(w)) ELSE dropped
        /\ UNCHANGED <<now, since, gap>>

\* The page is answered and the answer lost: the client asks for it again.
LosePage(r) ==
    LET w == walk[r] IN
    /\ w.pc = "fetch" /\ w.list = "flagged" /\ Rows(w) # {}
    /\ Unmark(Unmarked(w, Rows(w)))
    /\ dropped' = dropped \cup Rows(w)
    /\ Watch({})
    /\ UNCHANGED <<now, since, shown, gap, owed>>

\* A page that cannot be had fails the whole call, whatever it has gathered.
Fail(r) ==
    /\ walk[r].pc = "fetch"
    /\ walk' = [walk EXCEPT ![r] = Idle]
    /\ dropped' = IF walk[r].list = "flagged" THEN dropped \cup walk[r].out ELSE dropped
    /\ UNCHANGED <<reg, now, since, shown, gap, owed>>

\* The reader has what it wanted; after a window it goes on from its end.
Leave(r) ==
    LET w == walk[r] IN
    /\ w.pc \in {"paused", "done"}
    /\ walk' = [walk EXCEPT ![r] = Idle]
    /\ IF w.goal = "window"
       THEN /\ since' = [since EXCEPT ![r] = Back(w.to)]
            /\ gap' = IF w.pc = "paused" \/ w.cut \/ w.shrunk THEN gap \cup {r} ELSE gap
       ELSE UNCHANGED <<since, gap>>
    /\ UNCHANGED <<reg, now, shown, owed, dropped>>

Register == \/ Tick
            \/ \E d \in Docs : \/ Upload(d) \/ MarkProcessed(d) \/ Delete(d) \/ Index(d)
                               \/ \E b \in BOOLEAN : Change(d, b)

Tools == \E r \in Reader :
    \/ \E rows \in AskRows, pages \in AskPages :
          \/ Sync(r, rows, pages) \/ Continue(r, rows, pages)
          \/ \E q \in Queries : List(r, q, rows, pages)
    \/ Fetch(r) \/ LosePage(r) \/ Fail(r) \/ Leave(r)

Next == Register \/ Tools

Spec == Init /\ [][Next]_vars

-----------------------------------------------------------------------------
(* Properties *)

\* Documents, walks, and what a call may still ask for.
Entries == [state : {"new", "there", "gone"}, changed : Nat, indexed : Nat,
            flag : BOOLEAN, processed : BOOLEAN]

Lists == {"all", "unprocessed", "flagged", "window"}

Walks == [pc : {"idle", "fetch", "paused", "done"}, goal : Lists, list : Lists, from : Nat, to : Nat,
          cursor : Nat, limit : Nat, left : Nat, n : Nat, out : SUBSET Docs, stale : SUBSET Docs,
          got : SUBSET Docs, want : SUBSET Docs, twice : BOOLEAN, cut : BOOLEAN,
          shrunk : BOOLEAN, grown : BOOLEAN]

\* A call asks for a page only while it has pages and rows left, and for no more
\* pages and rows than the configuration allows.
Bounded(w) == /\ w.limit <= MaxPageSize * MaxPages /\ w.left <= MaxPages
              /\ w.pc = "fetch" => w.left > 0 /\ w.n < w.limit
              /\ w.pc = "paused" => w.n = 0

TypeOK == /\ reg \in [Docs -> Entries] /\ now \in Nat
          /\ walk \in [Reader -> Walks] /\ \A r \in Reader : Bounded(walk[r])
          /\ since \in [Reader -> Nat] /\ shown \in [Reader -> SUBSET Docs]
          /\ gap \subseteq Reader /\ owed \subseteq Docs /\ dropped \subseteq Docs

\* Who follows next_cursor to the end has been given every document that was in
\* the list all the time, although calls have limits, documents come into the
\* list, and the rest of a window is asked of a list without one; unless an
\* answer was cut to its limit or a document left the list.
NoneMissed == \A r \in Reader : LET w == walk[r] IN
    w.pc = "done" /\ ~w.cut /\ ~w.shrunk => w.want \subseteq w.got

\* No document is given twice in one walk, even when answers are cut and
\* documents leave the list; unless a document came into it.
NoneTwice == \A r \in Reader : LET w == walk[r] IN
    ~w.grown /\ w.list = w.goal => ~w.twice

\* A reader that syncs window after window, each to its end, has been given every
\* document after its last change, up to the beginning of the next window; unless
\* a document left a window that was being read.
SyncCovers == \A r \in Reader : r \notin gap =>
    \A d \in Docs : reg[d].state = "there" /\ reg[d].changed < since[r] => d \in shown[r]

\* A document marked as changed stays marked until a reader is given it, unless a
\* call unmarked it without returning it.
MarkKept == \A d \in owed : reg[d].state = "there" /\ d \notin dropped =>
    \/ reg[d].flag
    \/ \E r \in Reader : walk[r].list = "flagged" /\ d \in walk[r].out

\* "next_cursor from a previous answer, to continue where it stopped": a document
\* of the list has been given, or it comes after the cursor.
ContinuesWhereStopped == \A r \in Reader : LET w == walk[r] IN
    w.pc = "paused" /\ ~w.shrunk =>
        \A d \in w.want : d \in w.got \/ w.cursor <= Before(d, Listed(w, reg))
=============================================================================
