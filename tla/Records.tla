------------------------------ MODULE Records -------------------------------
(***************************************************************************)
(* What the service keeps beside a document (internal/mockvchasno): its    *)
(* comments, fields, reviewers, versions, connections, public links, its   *)
(* place in the archive and its recognised data; and the tools that add to *)
(* it, take from it and read it (internal/tools).                          *)
(*                                                                         *)
(* A request that is not answered is made again (ApiClient).  An attempt   *)
(* may be dropped, or delayed: the client has gone on, and the service     *)
(* serves it at some later time, when the tool has perhaps returned.       *)
(***************************************************************************)
EXTENDS Naturals, FiniteSets

CONSTANTS Doc,       \* ids of documents
          Versioned, \* those that support versions; the others take an upload and record nothing
          Call,      \* the tool calls that are made, each once
          Retries,   \* MCP_RETRY_ATTEMPTS
          MaxIds     \* bound of the model: ids of versions and links

ASSUME RecordsAssumption == Versioned \subseteq Doc /\ Retries \in Nat \ {0} /\ MaxIds \in Nat

VARIABLES svc,       \* the service
          call       \* call[c]: a tool call

vars == <<svc, call>>

Ids == 1 .. MaxIds

\* Comments, fields and reviewers (of one person) are counted; child[e] counts how
\* often e is among the children; link is the public link that is shown.
Row == [comments |-> 0, fields |-> 0, reviewers |-> 0, versions |-> {}, child |-> [e \in Doc |-> 0],
        parent |-> {}, archived |-> FALSE, extract |-> "none", link |-> 0]

\* there: the register; rows[d]: what is kept for d; link[l]: a public link; used:
\* the ids given so far.
NewService == [there |-> Doc, rows |-> [d \in Doc |-> Row], link |-> [l \in Ids |-> "none"], used |-> 0]

Reads == {"reviews", "export", "showlink"}
Tools == Reads \cup {"comment", "field", "reviewer", "unreview", "version", "unversion", "attach",
                     "detach", "link", "relink", "revoke", "archive", "unarchive", "extract",
                     "confirm", "delete"}

\* A call: on, other and id are what it is about, step the request it is at, late
\* the attempts of its that are still on their way, seen what it has read.  History:
\* made, how often it took effect; blind, its attempts without an answer; ids, the
\* ids it was given; contested, whether a call that may take it back was under way
\* together with it, or has begun since.
NewCall == [pc |-> "new", ask |-> "delete", on |-> {}, other |-> {}, id |-> 0, step |-> 1, tries |-> 0,
            late |-> 0, seen |-> {}, made |-> 0, blind |-> 0, ids |-> {}, contested |-> FALSE]

Init == svc = NewService /\ call = [c \in Call |-> NewCall]

-----------------------------------------------------------------------------
(* The routes of the service: what it may be after a request of the call w;  *)
(* nothing when the request is refused.                                      *)

\* documentRoute: "no such document".
IfThere(s, d, y) == IF d \in s.there THEN {y} ELSE {}

CommentRoute(s, d)  == IfThere(s, d, [s EXCEPT !.rows[d].comments = @ + 1])
FieldRoute(s, d)    == IfThere(s, d, [s EXCEPT !.rows[d].fields = @ + 1])
ReviewerRoute(s, d) == IfThere(s, d, [s EXCEPT !.rows[d].reviewers = @ + 1])

UnreviewFirst(s, d) ==               \* mutant: one of the same reviewers goes
    IfThere(s, d, [s EXCEPT !.rows[d].reviewers = IF @ = 0 THEN 0 ELSE @ - 1])

\* All that name the reviewer go.
UnreviewRoute(s, d) == IfThere(s, d, [s EXCEPT !.rows[d].reviewers = 0])

\* The service takes the file for every document that is there, but records a version
\* only of those that support versions: so say internal/tools/files.go:257 and 272, and
\* the tool warns of it.  For the mock, all of them do.
VersionRoute(s, d) ==
    IF d \notin Versioned THEN IfThere(s, d, s)
    ELSE IF s.used = MaxIds THEN {}
    ELSE IfThere(s, d, [s EXCEPT !.rows[d].versions = @ \cup {s.used + 1}, !.used = @ + 1])
UnversionRoute(s, d, v) == IfThere(s, d, [s EXCEPT !.rows[d].versions = @ \ {v}])

\* The child learns of its parent if it is there; it is not told when it is detached.
AttachRoute(s, d, e) ==
    IfThere(s, d, [s EXCEPT !.rows[d].child[e] = @ + 1,
                            !.rows[e].parent = IF e \in s.there THEN {d} ELSE @])
DetachRoute(s, d, e) == IfThere(s, d, [s EXCEPT !.rows[d].child[e] = 0])

\* sharedRoute: a further link of a document takes the place of the last one, which
\* works on.  Nobody looks whether the document is there.
LinkRoute(s, d) ==
    IF s.used = MaxIds THEN {}
    ELSE {[s EXCEPT !.link[s.used + 1] = "active", !.rows[d].link = s.used + 1, !.used = @ + 1]}
RelinkRoute(s, l) == IF s.link[l] = "none" THEN {} ELSE {s}
RevokeRoute(s, l) == IF s.link[l] = "none" THEN {} ELSE {[s EXCEPT !.link[l] = "revoked"]}

ArchiveRoute(s, d)   == {[s EXCEPT !.rows[d].archived = TRUE]}
UnarchiveRoute(s, d) == {[s EXCEPT !.rows[d].archived = FALSE]}

\* A recognition that is started anew has to be confirmed anew.
ExtractRoute(s, d) == {[s EXCEPT !.rows[d].extract = "pending"]}

\* A person checks what was recognised.
Confirm(s, d) == {[s EXCEPT !.rows[d].extract = "confirmed"]}

DeleteRoute(s, d) == IfThere(s, d, [s EXCEPT !.there = @ \ {d}])

Write(w, s, d, e) ==
    CASE w.ask = "comment" -> CommentRoute(s, d)    [] w.ask = "field" -> FieldRoute(s, d)
      [] w.ask = "reviewer" -> ReviewerRoute(s, d)  [] w.ask = "unreview" -> UnreviewRoute(s, d)
      [] w.ask = "version" -> VersionRoute(s, d)    [] w.ask = "unversion" -> UnversionRoute(s, d, w.id)
      [] w.ask = "attach" -> AttachRoute(s, d, e)   [] w.ask = "detach" -> DetachRoute(s, d, e)
      [] w.ask = "link" -> LinkRoute(s, d)          [] w.ask = "relink" -> RelinkRoute(s, w.id)
      [] w.ask = "revoke" -> RevokeRoute(s, w.id)   [] w.ask = "archive" -> ArchiveRoute(s, d)
      [] w.ask = "unarchive" -> UnarchiveRoute(s, d) [] w.ask = "extract" -> ExtractRoute(s, d)
      [] w.ask = "confirm" -> Confirm(s, d)         [] w.ask = "delete" -> DeleteRoute(s, d)

-----------------------------------------------------------------------------
(* What a request reads; nothing when it is refused. *)

Known(n) == IF n = 0 THEN "none" ELSE "some"

\* get_review_state asks for the state, the requests and the history.
ReadReviews(s, d)  == IfThere(s, d, Known(s.rows[d].reviewers))

\* upload_document_version: "report what the document actually holds now".
ReadVersions(s, d) == IfThere(s, d, Known(Cardinality(s.rows[d].versions)))

\* download_structured_data: a file only of what is confirmed, otherwise the status.
ReadExtract(s, d)  == IfThere(s, d, s.rows[d].extract)

\* get_public_link: 404 is no link.
ReadLink(s, d) == {IF s.rows[d].link = 0 THEN "none" ELSE s.link[s.rows[d].link]}

Read(w, s, d) == CASE w.ask = "reviews" -> ReadReviews(s, d) [] w.ask = "version" -> ReadVersions(s, d)
                   [] w.ask = "export" -> ReadExtract(s, d)  [] w.ask = "showlink" -> ReadLink(s, d)

-----------------------------------------------------------------------------
(* The calls. *)

Writing(w) == w.ask \notin Reads /\ w.step = 1

\* May v take back what w does, or change what w reads?
Opposed == {<<"reviewer", "unreview">>, <<"attach", "detach">>, <<"archive", "unarchive">>,
            <<"extract", "confirm">>, <<"reviewer", "reviews">>, <<"unreview", "reviews">>}

Undoes(v, w) ==
    \/ v.on = w.on /\ v.other = w.other /\ (<<v.ask, w.ask>> \in Opposed \/ <<w.ask, v.ask>> \in Opposed)
    \/ v.ask = "attach" /\ w.ask = "attach" /\ v.other = w.other /\ v.on # w.on
    \/ v.ask = "unversion" /\ w.ask = "version" /\ v.id \in w.ids
    \/ v.ask = "revoke" /\ w.ask = "link" /\ v.id \in w.ids

Underway(w) == w.pc = "asked" \/ w.late > 0

Begin(c, q, d, e, i) ==
    LET w == [NewCall EXCEPT !.pc = "asked", !.ask = q, !.on = {d}, !.other = {e}, !.id = i, !.tries = 1]
    IN /\ call[c].pc = "new"
       /\ call' = [x \in Call |->
             IF x = c THEN [w EXCEPT !.contested = \E b \in Call : Underway(call[b]) /\ Undoes(call[b], w)]
             ELSE [call[x] EXCEPT !.contested = @ \/ Undoes(w, call[x])]]
       /\ UNCHANGED svc

AddComment(c, d)            == Begin(c, "comment", d, d, 0)
SetDocumentField(c, d)      == Begin(c, "field", d, d, 0)
AddReviewer(c, d)           == Begin(c, "reviewer", d, d, 0)
RemoveReviewer(c, d)        == Begin(c, "unreview", d, d, 0)
GetReviewState(c, d)        == Begin(c, "reviews", d, d, 0)
UploadDocumentVersion(c, d) == Begin(c, "version", d, d, 0)
DeleteDocumentVersion(c, d) == \E v \in 1 .. svc.used : Begin(c, "unversion", d, d, v)
AttachChildDocument(c, d)   == \E e \in Doc : Begin(c, "attach", d, e, 0)
DetachChildDocument(c, d)   == \E e \in Doc : Begin(c, "detach", d, e, 0)
GetPublicLink(c, d)         == Begin(c, "showlink", d, d, 0)
CreatePublicLink(c, d)      == Begin(c, "link", d, d, 0)
UpdatePublicLink(c, d)      == \E l \in 1 .. svc.used : Begin(c, "relink", d, d, l)
RevokePublicLink(c, d)      == \E l \in 1 .. svc.used : Begin(c, "revoke", d, d, l)
ArchiveDocuments(c, d)      == Begin(c, "archive", d, d, 0)
UnarchiveDocuments(c, d)    == Begin(c, "unarchive", d, d, 0)
StartStructuredData(c, d)   == Begin(c, "extract", d, d, 0)
ConfirmStructuredData(c, d) == Begin(c, "confirm", d, d, 0)
DownloadStructuredData(c, d) == Begin(c, "export", d, d, 0)
DeleteDocument(c, d)        == Begin(c, "delete", d, d, 0)

Changing(c, d) == \/ AddComment(c, d) \/ SetDocumentField(c, d) \/ AddReviewer(c, d)
                  \/ RemoveReviewer(c, d) \/ UploadDocumentVersion(c, d) \/ DeleteDocumentVersion(c, d)
                  \/ AttachChildDocument(c, d) \/ DetachChildDocument(c, d) \/ CreatePublicLink(c, d)
                  \/ UpdatePublicLink(c, d) \/ RevokePublicLink(c, d) \/ ArchiveDocuments(c, d)
                  \/ UnarchiveDocuments(c, d) \/ StartStructuredData(c, d)
                  \/ ConfirmStructuredData(c, d) \/ DeleteDocument(c, d)

Reading(c, d) == \/ GetReviewState(c, d) \/ DownloadStructuredData(c, d) \/ GetPublicLink(c, d)

-----------------------------------------------------------------------------
(* What comes of a request. *)

Requests(q) == CASE q = "version" -> 2 [] q = "reviews" -> 3 [] OTHER -> 1

\* The next request of the tool, or its end.
Onward(w) == IF w.step < Requests(w.ask) THEN [w EXCEPT !.step = @ + 1, !.tries = 1]
             ELSE [w EXCEPT !.pc = "ok", !.tries = 0]

\* get_review_state says what it could not read; an upload of a version that was taken
\* is told as a success, whether the versions can be read back or not.
Failed(w) == IF w.ask = "reviews" \/ w.step = 2 THEN Onward(w)
             ELSE [w EXCEPT !.pc = "error", !.tries = 0]

OneMore(w) == IF w.tries < Retries THEN [w EXCEPT !.tries = @ + 1] ELSE Failed(w)

\* The call w was served, and the service is y: it took effect, unless its version was
\* not recorded.
Took(w, y) == IF w.ask = "version" /\ y = svc THEN 0 ELSE 1
Made(w, y) == [w EXCEPT !.made = @ + Took(w, y),
                        !.ids = IF y.used > svc.used THEN @ \cup {y.used} ELSE @]

ToldOnceMore(w, y) ==                \* mutant: what succeeded is tried again
    IF w.tries < Retries THEN [Made(w, y) EXCEPT !.tries = @ + 1] ELSE Onward(Made(w, y))

Told(w, y) == Onward([Made(w, y) EXCEPT !.id = IF y.used > svc.used THEN y.used ELSE @])

\* What the service may be when a request of w is served, and what one of w may read.
Outcomes(w) == UNION {Write(w, svc, d, e) : d \in w.on, e \in w.other}
Views(w)    == UNION {Read(w, svc, d) : d \in w.on}

\* Served and answered.
Answer(c) == LET w == call[c] IN
    /\ w.pc = "asked" /\ Writing(w)
    /\ \E y \in Outcomes(w) : svc' = y /\ call' = [call EXCEPT ![c] = Told(w, y)]

Look(c) == LET w == call[c] IN
    /\ w.pc = "asked" /\ ~Writing(w)
    /\ \E r \in Views(w) : call' = [call EXCEPT ![c] = Onward([w EXCEPT !.seen = @ \cup {r}])]
    /\ UNCHANGED svc

Refuse(c) == LET w == call[c] IN
    /\ w.pc = "asked"
    /\ IF Writing(w) THEN Outcomes(w) = {} ELSE Views(w) = {}
    /\ call' = [call EXCEPT ![c] = Failed(w)]
    /\ UNCHANGED svc

\* Too many requests, or no connection.
Drop(c) == LET w == call[c] IN
    /\ w.pc = "asked"
    /\ call' = [call EXCEPT ![c] = OneMore(w)]
    /\ UNCHANGED svc

\* No answer in time, or none that can be read; the caller may also have gone.
Delay(c) == LET w == call[c] IN
    /\ w.pc = "asked" /\ Writing(w)
    /\ \E v \in {OneMore(w), Failed(w)} :
          call' = [call EXCEPT ![c] = [v EXCEPT !.late = @ + 1, !.blind = @ + 1]]
    /\ UNCHANGED svc

\* A delayed request is served, or refused.
Arrived(w) == [w EXCEPT !.late = @ - 1]

Late(c) == LET w == call[c] IN
    /\ w.late > 0
    /\ \/ \E y \in Outcomes(w) : svc' = y /\ call' = [call EXCEPT ![c] = Made(Arrived(w), y)]
       \/ Outcomes(w) = {} /\ UNCHANGED svc /\ call' = [call EXCEPT ![c] = Arrived(w)]

Next == \E c \in Call : \/ \E d \in Doc : Changing(c, d) \/ Reading(c, d)
                        \/ Answer(c) \/ Look(c) \/ Refuse(c) \/ Drop(c) \/ Delay(c) \/ Late(c)

Spec == Init /\ [][Next]_vars

-----------------------------------------------------------------------------
(* Properties *)

Rows == [comments : Nat, fields : Nat, reviewers : Nat, versions : SUBSET Ids, child : [Doc -> Nat],
         parent : SUBSET Doc, archived : BOOLEAN, extract : {"none", "pending", "confirmed"},
         link : 0 .. MaxIds]

Services == [there : SUBSET Doc, rows : [Doc -> Rows], link : [Ids -> {"none", "active", "revoked"}],
             used : 0 .. MaxIds]

Calls == [pc : {"new", "asked", "ok", "error"}, ask : Tools, on : SUBSET Doc, other : SUBSET Doc,
          id : 0 .. MaxIds, step : 1 .. 3, tries : 0 .. Retries, late : Nat,
          seen : SUBSET {"none", "some", "pending", "confirmed", "active", "revoked"},
          made : Nat, blind : Nat, ids : SUBSET Ids, contested : BOOLEAN]

TypeOK == svc \in Services /\ call \in [Call -> Calls]

\* Retried requests are not recognised as such by the service: a call may take
\* effect more than once.  But never more often than it had attempts without an
\* answer, and one more if it succeeded; who is told of success made something, and
\* who is told of an error when all attempts were answered made nothing.  The upload of
\* a version alone may succeed and make nothing, but then versions_now never says that
\* the document has one.
CountedOnce == \A c \in Call : LET w == call[c] IN
    /\ w.made <= w.blind + (IF w.pc = "ok" \/ w.step > 1 THEN 1 ELSE 0)
    /\ w.pc = "ok" /\ w.ask \notin Reads => w.made > 0 \/ (w.ask = "version" /\ "some" \notin w.seen)

\* What a tool has told its caller stands, and what it read in several requests is
\* of one piece, as long as nobody worked against it: no call that may take it back
\* was under way at that time, with an attempt still delayed on its way counting as
\* under way, or has begun since.  In particular nothing brings back a public link
\* that was revoked, and upload_document_version warns of a version that was not
\* recorded, and of no other, whenever it can read the document.
Holds(w, d, e) ==
    LET r == svc.rows[d] IN
    CASE w.ask = "reviewer" -> r.reviewers > 0
      [] w.ask = "unreview" -> r.reviewers = 0
      [] w.ask = "version" -> IF d \in Versioned THEN w.id \in r.versions /\ "none" \notin w.seen
                              ELSE r.versions = {} /\ "some" \notin w.seen
      [] w.ask = "unversion" -> w.id \notin r.versions
      [] w.ask = "attach" -> r.child[e] > 0 /\ (e \in svc.there => svc.rows[e].parent = {d})
      [] w.ask = "detach" -> r.child[e] = 0
      [] w.ask = "link" -> svc.link[w.id] = "active"
      [] w.ask = "revoke" -> svc.link[w.id] = "revoked"
      [] w.ask = "archive" -> r.archived
      [] w.ask = "unarchive" -> ~r.archived
      [] w.ask = "extract" -> r.extract = "pending"
      [] w.ask = "confirm" -> r.extract = "confirmed"
      [] w.ask = "delete" -> d \notin svc.there
      [] w.ask = "reviews" -> Cardinality(w.seen) <= 1
      [] OTHER -> TRUE

Stands == \A c \in Call : LET w == call[c] IN
    w.pc = "ok" /\ ~w.contested => \A d \in w.on, e \in w.other : Holds(w, d, e)
=============================================================================
