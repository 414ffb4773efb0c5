----------------------------- MODULE Directory ------------------------------
(***************************************************************************)
(* The company's directory at Vchasno (internal/mockvchasno/routes.go):    *)
(* employees, labels, extra parameters, teams and document types, who      *)
(* carries which label and who is in which team; and the tools that change *)
(* it (internal/tools/company.go).                                         *)
(*                                                                         *)
(* A tool is given names.  Its session looks them up in a list it has      *)
(* cached, or reads the list first (internal/session/session.go), and asks *)
(* Vchasno for the change by id; what it was told of makes it forget its   *)
(* lists.  Meanwhile other calls of this and of other sessions go on.      *)
(***************************************************************************)
EXTENDS Naturals, FiniteSets, Sequences, Bags

Bag == INSTANCE BagsExt

CONSTANTS Name,      \* names of entries: email addresses, titles
          Sess,      \* sessions of the company
          Call,      \* the tool calls that are made, each once
          Doc,       \* a document
          None,
          Seed,      \* the entries there are at first
          Given,     \* the ids that are given for names
          TagPage,   \* labels in an answer: 200
          Retries,   \* MCP_RETRY_ATTEMPTS
          MaxIds     \* bound of the model: ids of entries and members

Ids == 1 .. MaxIds

Kind == {"role", "tag", "field", "group", "category"}

ASSUME DirectoryAssumption ==
    /\ TagPage \in Nat \ {0} /\ Retries \in Nat \ {0} /\ MaxIds \in Nat
    /\ Seed \in Seq([kind : Kind, name : Name]) /\ Len(Seed) <= MaxIds
    /\ Given \subseteq Ids /\ None \notin Name /\ Doc \notin Ids /\ Name \cap Ids = {}

VARIABLES svc,       \* the directory at Vchasno
          cache,     \* cache[s][k]: the list of a session
          call,      \* call[c]: a tool call
          told       \* history: the entries of whose present state a session was told

vars == <<svc, cache, call, told>>

Row(i, k, n) == [id |-> i, kind |-> k, name |-> n]

\* rows: the entries; members: of teams; labels: a bag of who carries what; used: the
\* ids given so far.
Seeded == [rows |-> {Row(i, Seed[i].kind, Seed[i].name) : i \in DOMAIN Seed},
           members |-> {}, labels |-> EmptyBag, used |-> Len(Seed)]

\* A list of a session; flaw: what it lacks, if anything.
NoList == [rows |-> {}, flaw |-> "none", known |-> FALSE]

\* need: the names to look up; got: what was found; ids: members to remove.  flaw: what
\* the lists lacked that were used; crossed: the session forgot its lists while the
\* call read one.  id, saw: what the answer is about, and what it says of it.
\* History: blind, requests without an answer; knows, what the session had been told
\* before; contested, whether a call that gives was under way too, or begun since.
NewCall == [pc |-> "new", sess |-> None, ask |-> "none", kind |-> "none", need |-> <<>>, got |-> <<>>,
            to |-> None, ids |-> {}, list |-> NoList, flaw |-> "none", crossed |-> FALSE, tries |-> 1,
            id |-> 0, saw |-> {}, blind |-> 0, knows |-> {}, contested |-> FALSE]

-----------------------------------------------------------------------------
(* Vchasno. *)

Rows(k)  == {e \in svc.rows : e.kind = k}
Alive(k) == {e.id : e \in Rows(k)}

\* Of the labels only the first are listed.
Pages(k) == IF k = "tag" /\ Cardinality(Rows(k)) > TagPage
            THEN {P \in SUBSET Rows(k) : Cardinality(P) = TagPage} ELSE {Rows(k)}

Listings(k) == {[rows |-> P, flaw |-> IF P = Rows(k) THEN "none" ELSE "cut", known |-> TRUE] :
                   P \in Pages(k)}

Init == /\ svc = Seeded
        /\ \E S \in SUBSET Sess : cache = [s \in Sess |-> [k \in Kind |->
              IF s \in S THEN CHOOSE l \in Listings(k) : TRUE ELSE NoList]]
        /\ call = [c \in Call |-> NewCall]
        /\ told = [s \in Sess |-> {}]

\* Nobody looks whether the name is taken.
CreateRoute(s, k, n) ==
    IF s.used = MaxIds THEN {} ELSE {[s EXCEPT !.rows = @ \cup {Row(s.used + 1, k, n)}, !.used = @ + 1]}

Without(s, i) == {e \in s.rows : e.id # i}

\* "no such role", field, category, group.
IfThere(s, i, k, y) == IF \E e \in s.rows : e.id = i /\ e.kind = k THEN {y} ELSE {}

RenameRoute(s, i, k, n) == IfThere(s, i, k, [s EXCEPT !.rows = Without(s, i) \cup {Row(i, k, n)}])
DeleteRoute(s, i, k)    == IfThere(s, i, k, [s EXCEPT !.rows = Without(s, i)])
UpdateRoute(s, i)       == IfThere(s, i, "role", s)

\* A new label is put on the holder at once.
LabelRoute(s, h, n) == {[y EXCEPT !.labels = Bag!BagAdd(@, <<h, y.used>>)] :
                           y \in CreateRoute(s, "tag", n)}

AssignRoute(s, h, t) == {[s EXCEPT !.labels = Bag!BagAdd(@, <<h, t>>)]}

\* A label that nobody carries any more may go, as UnassignTagsFromDocuments says.
MayGo(s, t) == {s} \cup IF \E p \in DOMAIN s.labels : p[2] = t THEN {}
                        ELSE DeleteRoute(s, t, "tag")

UnassignOne(s, h, t) == MayGo([s EXCEPT !.labels = Bag!BagRemove(@, <<h, t>>)], t)   \* mutant

\* "without": however often the label was put on.
UnassignRoute(s, h, t) == MayGo([s EXCEPT !.labels = Bag!BagRemoveAll(@, <<h, t>>)], t)

\* Nobody looks whether there is such a team.
JoinRoute(s, g, p) ==
    IF s.used = MaxIds THEN {}
    ELSE {[s EXCEPT !.members = @ \cup {[id |-> s.used + 1, group |-> g, role |-> p]}, !.used = @ + 1]}

ExpelRoute(s, g, M) == {[s EXCEPT !.members = {m \in @ : ~(m.group = g /\ m.id \in M)}]}

\* The holder of a label: the document, or the employee that was looked up.
Holder(w) == IF w.need # <<>> /\ w.need[1].kind = "role" THEN w.got[1] ELSE Doc

Outcomes(w) ==
    LET n == Len(w.got)
    IN  CASE w.ask = "create" -> CreateRoute(svc, w.kind, w.to)
          [] w.ask = "rename" -> RenameRoute(svc, w.got[n], w.kind, w.to)
          [] w.ask = "delete" -> DeleteRoute(svc, w.got[n], w.kind)
          [] w.ask = "update" -> UpdateRoute(svc, w.got[n])
          [] w.ask = "label" -> LabelRoute(svc, Holder(w), w.to)
          [] w.ask = "assign" -> AssignRoute(svc, Holder(w), w.got[n])
          [] w.ask = "unassign" -> UnassignRoute(svc, Holder(w), w.got[n])
          [] w.ask = "join" -> JoinRoute(svc, w.got[1], w.got[2])
          [] w.ask = "expel" -> ExpelRoute(svc, w.got[1], w.ids)
          [] w.ask = "use" -> {svc}

-----------------------------------------------------------------------------
(* The tools: what they ask for, and the names they have to look up. *)

Named(k) == [kind : {k}, arg : Name \cup (Given \cap Alive(k))]

Gives(v, w) == \/ v.ask \in {"label", "assign"} /\ w.ask = "unassign"
               \/ v.ask = "join" /\ w.ask = "expel"

Underway(w) == w.pc \notin {"new", "ok", "error"}

Begin(c, s, q, k, need, to, M) ==
    LET w == [NewCall EXCEPT !.pc = "resolving", !.sess = s, !.ask = q, !.kind = k, !.need = need,
                             !.to = to, !.ids = M, !.knows = told[s]]
    IN /\ call[c].pc = "new"
       /\ call' = [x \in Call |->
             IF x = c THEN [w EXCEPT !.contested = \E b \in Call : Underway(call[b]) /\ Gives(call[b], w)]
             ELSE [call[x] EXCEPT !.contested = @ \/ Gives(w, call[x])]]
       /\ UNCHANGED <<svc, cache, told>>

TagDocuments(c, s) ==
    \/ \E n \in Name : Begin(c, s, "label", "tag", <<>>, n, {})
    \/ \E t \in Named("tag"), q \in {"assign", "unassign"} : Begin(c, s, q, "tag", <<t>>, None, {})

TagEmployees(c, s) == \E p \in Named("role") :
    \/ \E n \in Name : Begin(c, s, "label", "tag", <<p>>, n, {})
    \/ \E t \in Named("tag"), q \in {"assign", "unassign"} : Begin(c, s, q, "tag", <<p, t>>, None, {})

CreateField(c, s)    == \E n \in Name : Begin(c, s, "create", "field", <<>>, n, {})
UpdateField(c, s)    == \E f \in Named("field"), n \in Name : Begin(c, s, "rename", "field", <<f>>, n, {})
SetDocumentField(c, s) == \E f \in Named("field") : Begin(c, s, "use", "field", <<f>>, None, {})

CreateCategory(c, s) == \E n \in Name : Begin(c, s, "create", "category", <<>>, n, {})

\* Types are changed by their number; a type is looked up for a document.
RenameCategory(c, s) == \E i \in Alive("category"), n \in Name :
    Begin(c, s, "rename", "category", <<[kind |-> "none", arg |-> i]>>, n, {})
DeleteCategory(c, s) == \E i \in Alive("category") :
    Begin(c, s, "delete", "category", <<[kind |-> "none", arg |-> i]>>, None, {})
FromTemplate(c, s)   == \E t \in Named("category") : Begin(c, s, "use", "category", <<t>>, None, {})

CreateGroup(c, s)    == \E n \in Name : Begin(c, s, "create", "group", <<>>, n, {})
RenameGroup(c, s)    == \E g \in Named("group"), n \in Name : Begin(c, s, "rename", "group", <<g>>, n, {})
DeleteGroup(c, s)    == \E g \in Named("group") : Begin(c, s, "delete", "group", <<g>>, None, {})

\* Members are removed by the ids that a list of some team has shown.
GroupMembers(c, s)   == \E g \in Named("group") :
    \/ \E p \in Named("role") : Begin(c, s, "join", "group", <<g, p>>, None, {})
    \/ \E t \in Alive("group") : LET M == {m.id : m \in {x \in svc.members : x.group = t}} IN
          M # {} /\ Begin(c, s, "expel", "group", <<g>>, None, M)

CreateCoworker(c, s) == \E n \in Name : Begin(c, s, "create", "role", <<>>, n, {})
UpdateRole(c, s)     == \E p \in Named("role") : Begin(c, s, "update", "role", <<p>>, None, {})
DeleteRole(c, s)     == \E p \in Named("role") : Begin(c, s, "delete", "role", <<p>>, None, {})

Tool(c, s) == \/ TagDocuments(c, s) \/ TagEmployees(c, s) \/ CreateField(c, s) \/ UpdateField(c, s)
              \/ SetDocumentField(c, s) \/ CreateCategory(c, s) \/ RenameCategory(c, s)
              \/ DeleteCategory(c, s) \/ FromTemplate(c, s) \/ CreateGroup(c, s) \/ RenameGroup(c, s)
              \/ DeleteGroup(c, s) \/ GroupMembers(c, s) \/ CreateCoworker(c, s) \/ UpdateRole(c, s)
              \/ DeleteRole(c, s)

-----------------------------------------------------------------------------
(* Looking a name up. *)

Resolving(w) == w.pc = "resolving" /\ Len(w.got) < Len(w.need)
Query(w)     == w.need[Len(w.got) + 1]
Listed       == {"tag", "field", "group"}

Worse(f, g) == IF "stale" \in {f, g} THEN "stale" ELSE IF "cut" \in {f, g} THEN "cut" ELSE "none"

\* An id stands for itself; of several entries of a name it is any.
Fitting(l, q) == IF q.arg \in Ids THEN {q.arg} ELSE {e.id : e \in {x \in l.rows : x.name = q.arg}}

Found(w, l) ==
    LET v == [w EXCEPT !.flaw = Worse(@, l.flaw), !.list = NoList, !.crossed = FALSE]
    IN  IF Fitting(l, Query(w)) = {} THEN {[v EXCEPT !.pc = "missing"]}
        ELSE {[v EXCEPT !.pc = "resolving", !.got = Append(@, i)] : i \in Fitting(l, Query(w))}

\* ResolveRoleID and the number of a type: an id is not looked up.
Straight(c) == LET w == call[c] IN
    /\ Resolving(w) /\ Query(w).arg \in Ids /\ Query(w).kind \notin Listed
    /\ \E v \in Found(w, NoList) : call' = [call EXCEPT ![c] = v]
    /\ UNCHANGED <<svc, cache, told>>

\* The list of the session is used, or read if there is none or refTTL is over.
Lookup(c) == LET w == call[c]
                 l == cache[w.sess][Query(w).kind] IN
    /\ Resolving(w) /\ ~(Query(w).arg \in Ids /\ Query(w).kind \notin Listed)
    /\ \/ l.known /\ (\E v \in Found(w, l) : call' = [call EXCEPT ![c] = v]) /\ UNCHANGED cache
       \/ /\ call' = [call EXCEPT ![c].pc = "reading"]
          /\ cache' = [cache EXCEPT ![w.sess][Query(w).kind] = NoList]
    /\ UNCHANGED <<svc, told>>

Fetch(c) == LET w == call[c] IN
    /\ w.pc = "reading"
    /\ \E l \in Listings(Query(w).kind) : call' = [call EXCEPT ![c] = [w EXCEPT !.pc = "fetched", !.list = l]]
    /\ UNCHANGED <<svc, cache, told>>

\* Without an answer there are the public document types only; an id stands for
\* itself; a name is not found.
FetchFails(c) == LET w == call[c] IN
    /\ w.pc = "reading"
    /\ LET v == IF Query(w).kind = "category"
                THEN [w EXCEPT !.pc = "fetched", !.list = [NoList EXCEPT !.flaw = "stale", !.known = TRUE]]
                ELSE IF Query(w).arg \in Ids
                THEN [w EXCEPT !.pc = "resolving", !.got = Append(@, Query(w).arg), !.crossed = FALSE]
                ELSE [w EXCEPT !.pc = "failing", !.crossed = FALSE]
       IN  call' = [call EXCEPT ![c] = v]
    /\ UNCHANGED <<svc, cache, told>>

\* A list that was under way when the session forgot its lists is kept all the same.
Store(c) == LET w == call[c] IN
    /\ w.pc = "fetched"
    /\ cache' = [cache EXCEPT ![w.sess][Query(w).kind] =
                    [w.list EXCEPT !.flaw = IF w.crossed THEN "stale" ELSE @]]
    /\ \E v \in Found(w, w.list) : call' = [call EXCEPT ![c] = v]
    /\ UNCHANGED <<svc, told>>

-----------------------------------------------------------------------------
(* The request. *)

Asking(w) == w.pc = "resolving" /\ Len(w.got) = Len(w.need)

Changed(y) == {e.id : e \in (y.rows \ svc.rows) \cup (svc.rows \ y.rows)}

\* The service is y, the call c is v: what anybody knew of a changed entry is over.
Serve(c, y, v) ==
    /\ svc' = y
    /\ told' = [s \in Sess |-> told[s] \ Changed(y)]
    /\ call' = [x \in Call |-> [(IF x = c THEN v ELSE call[x]) EXCEPT !.knows = @ \ Changed(y)]]
    /\ UNCHANGED cache

\* The entry that an answer is about.
About(w, y) == CASE w.ask \in {"create", "label"} -> y.used
                 [] w.ask \in {"rename", "delete"} -> w.got[Len(w.got)]
                 [] OTHER -> 0

OneTooMany(w) ==                     \* mutant
    [w EXCEPT !.blind = @ + 1, !.tries = IF @ <= Retries THEN @ + 1 ELSE @,
              !.pc = IF w.tries <= Retries THEN @ ELSE "failing"]

Unanswered(w) == [w EXCEPT !.blind = @ + 1, !.tries = IF @ < Retries THEN @ + 1 ELSE @,
                           !.pc = IF w.tries < Retries THEN @ ELSE "failing"]

AnsweredAgain(w, y) ==               \* mutant: a request that succeeded is made again
    IF w.tries < Retries THEN [w EXCEPT !.tries = @ + 1]
    ELSE [w EXCEPT !.pc = "answered", !.id = About(w, y), !.saw = {e \in y.rows : e.id = About(w, y)}]

Answered(w, y) ==
    [w EXCEPT !.pc = "answered", !.id = About(w, y), !.saw = {e \in y.rows : e.id = About(w, y)}]

Answer(c) == LET w == call[c] IN
    /\ Asking(w)
    /\ \E y \in Outcomes(w) : Serve(c, y, Answered(w, y))

Refuse(c) == LET w == call[c] IN
    /\ Asking(w) /\ Outcomes(w) = {}
    /\ call' = [call EXCEPT ![c].pc = "failing"]
    /\ UNCHANGED <<svc, cache, told>>

\* The request or its answer is lost.
Lose(c) == LET w == call[c] IN
    /\ Asking(w)
    /\ \E y \in {svc} \cup Outcomes(w) : Serve(c, y, Unanswered(w))

ForgetsNotRenamed(w) ==              \* mutant: a new name is not noticed
    w.ask \in {"create", "delete", "update", "label", "assign", "unassign"} /\ w.pc = "answered"

\* Invalidate: after a change that succeeded, and by the tools of labels in any case
\* from where they say so.  Nothing that group_members does is in a list.
Forgets(w) ==
    \/ w.pc = "answered" /\ w.ask \in {"create", "rename", "delete", "update"}
    \/ w.kind = "tag" /\ (w.need # <<>> /\ w.need[1].kind = "role" => w.got # <<>>)

\* What is left of a call: what it has done, if it has.
Result(w) ==
    LET v == [NewCall EXCEPT !.ask = w.ask, !.kind = w.kind, !.to = w.to, !.blind = w.blind]
    IN  IF w.pc = "answered"
        THEN [v EXCEPT !.pc = "ok", !.need = w.need, !.got = w.got, !.ids = w.ids,
                       !.contested = w.contested]
        ELSE [v EXCEPT !.pc = "error"]

\* The tool returns.
Return(c) == LET w == call[c] IN
    /\ w.pc \in {"answered", "missing", "failing"}
    /\ IF Forgets(w)
       THEN /\ cache' = [cache EXCEPT ![w.sess] = [k \in Kind |-> NoList]]
            /\ call' = [x \in Call |-> IF x = c THEN Result(w) ELSE
                 [call[x] EXCEPT !.crossed = @ \/ (call[x].pc \in {"reading", "fetched"} /\ call[x].sess = w.sess)]]
       ELSE /\ call' = [call EXCEPT ![c] = Result(w)]
            /\ UNCHANGED cache
    /\ told' = IF w.pc = "answered" /\ w.id # 0 /\ {e \in svc.rows : e.id = w.id} = w.saw
               THEN [told EXCEPT ![w.sess] = @ \cup {w.id}] ELSE told
    /\ UNCHANGED svc

Next == \E c \in Call : \/ \E s \in Sess : Tool(c, s)
                        \/ Straight(c) \/ Lookup(c) \/ Fetch(c) \/ FetchFails(c) \/ Store(c)
                        \/ Answer(c) \/ Refuse(c) \/ Lose(c) \/ Return(c)

Spec == Init /\ [][Next]_vars

-----------------------------------------------------------------------------
(* Properties *)

Entry == [id : Ids, kind : Kind, name : Name]
List  == [rows : SUBSET Entry, flaw : {"none", "cut", "stale"}, known : BOOLEAN]

TypeOK ==
    /\ svc.rows \subseteq Entry /\ svc.used \in 0 .. MaxIds
    /\ svc.members \subseteq [id : Ids, group : Ids, role : Ids]
    /\ IsABag(svc.labels) /\ DOMAIN svc.labels \subseteq (Ids \cup {Doc}) \X Ids
    /\ cache \in [Sess -> [Kind -> List]]
    /\ call \in [Call -> [pc : {"new", "resolving", "reading", "fetched", "missing", "failing", "answered",
                                "ok", "error"},
                          sess : Sess \cup {None},
                          ask : {"none", "create", "rename", "delete", "update", "label", "assign",
                                 "unassign", "join", "expel", "use"},
                          kind : Kind \cup {"none"},
                          need : Seq([kind : Kind \cup {"none"}, arg : Name \cup Ids]), got : Seq(Ids),
                          to : Name \cup {None}, ids : SUBSET Ids, list : List,
                          flaw : {"none", "cut", "stale"}, crossed : BOOLEAN, tries : 1 .. Retries,
                          id : 0 .. MaxIds, saw : SUBSET Entry, blind : 0 .. Retries, knows : SUBSET Ids,
                          contested : BOOLEAN]]
    /\ told \in [Sess -> SUBSET Ids]

\* What a session was told of an entry, its later calls go by as long as it is so: a
\* name is not taken for an entry that is gone or has another name now, and not
\* found missing when an entry bears it.  The exceptions: a list that was read while
\* the session forgot its lists, the types after a failed read, labels beyond the first.
Bears(i, q) == Row(i, q.kind, q.arg) \in svc.rows

Heeds(w, i) == \A j \in DOMAIN w.need : w.need[j].arg \in Name =>
    /\ j <= Len(w.got) /\ w.got[j] = i => Bears(i, w.need[j])
    /\ w.pc = "missing" /\ j = Len(w.got) + 1 => ~Bears(i, w.need[j])

HeardOf == \A c \in Call : call[c].flaw = "none" => \A i \in call[c].knows : Heeds(call[c], i)

\* A label that was taken off, and members that were removed, are gone, however often
\* they had been added, unless somebody was adding at that time or has begun since.
TakenOff == \A c \in Call : LET w == call[c] IN
    w.pc = "ok" /\ ~w.contested =>
        /\ w.ask = "unassign" => ~BagIn(<<Holder(w), w.got[Len(w.got)]>>, svc.labels)
        /\ w.ask = "expel" => \A m \in svc.members : m.id \in w.ids => m.group # w.got[1]

\* Two entries have the same name only if it was asked for twice (one of them may have
\* been there), or if a request was made again that had not been answered.
Wanted(e) == {c \in Call : call[c].to = e.name /\ call[c].kind = e.kind}
Was(e)    == {n \in DOMAIN Seed : Seed[n].kind = e.kind /\ Seed[n].name = e.name}

Namesakes == \A e, f \in svc.rows : e # f /\ e.kind = f.kind /\ e.name = f.name =>
    \/ \E c \in Wanted(e) : call[c].blind > 0
    \/ Cardinality(Wanted(e)) + Cardinality(Was(e)) > 1

=============================================================================
