---------------------------- MODULE RecordsProofs ----------------------------
(***************************************************************************)
(* Proofs about Records, for any documents, calls and attempts.            *)
(*                                                                         *)
(* That a call took effect no more often than it had attempts without an   *)
(* answer is not inductive as it stands: a delayed attempt may still take  *)
(* effect.  What is kept is the sum of what was made and what is on its    *)
(* way (Counts).  An upload that made nothing was of a document that does  *)
(* not support versions, and such a document never has any (Bare).         *)
(*                                                                         *)
(* That what was told stands is not inductive either.  It holds of a call  *)
(* from the moment it took effect, long before it is told (Standing), and  *)
(* it is kept because whoever may undo it is marked on the call as soon as *)
(* both are under way (Contest) and can name only ids that were given      *)
(* (Shape).  Each route is shown to change nothing but what its name says  *)
(* (Effects), and that this leaves every other call's ground alone         *)
(* (KeptStays); then there is one lemma for each action.                   *)
(***************************************************************************)
EXTENDS Records, FiniteSetTheorems, TLAPS

Counts(w) ==
    /\ w.made + w.late <= w.blind + (IF w.pc = "ok" \/ w.step > 1 THEN 1 ELSE 0)
    /\ w.ask \notin Reads /\ (w.pc = "ok" \/ w.step > 1) =>
          w.made > 0 \/ (w.ask = "version" /\ w.on \cap Versioned = {})
    /\ \A d, e \in w.on : d = e
    /\ w.late > 0 => w.ask \notin Reads
    /\ w.step > 1 => w.ask \in {"version", "reviews"}

IInv == TypeOK /\ \A c \in Call : Counts(call[c])

-----------------------------------------------------------------------------
(* The routes keep the service well formed. *)

LEMMA RowReplaced ==
  ASSUME NEW s \in Services, NEW d \in Doc
  PROVE  /\ s.rows[d] \in Rows
         /\ \A r \in Rows : [s EXCEPT !.rows = [s.rows EXCEPT ![d] = r]] \in Services
BY DEF Services

LEMMA Numbered ==
  ASSUME NEW s \in Services, NEW n \in 0 .. MaxIds
  PROVE  [s EXCEPT !.used = n] \in Services
BY DEF Services

LEMMA Shown ==
  ASSUME NEW s \in Services, NEW n \in Nat, NEW a \in {"active", "revoked"}
  PROVE  [s EXCEPT !.link = [s.link EXCEPT ![n] = a]] \in Services
BY DEF Services

\* What an existing document gives.
LEMMA There ==
  ASSUME NEW s, NEW d, NEW z, NEW y \in IfThere(s, d, z)
  PROVE  y = z /\ d \in s.there
BY DEF IfThere

LEMMA RowSteps ==
  ASSUME NEW r \in Rows
  PROVE  /\ [r EXCEPT !.comments = @ + 1] \in Rows /\ [r EXCEPT !.fields = @ + 1] \in Rows
         /\ [r EXCEPT !.reviewers = @ + 1] \in Rows /\ [r EXCEPT !.reviewers = 0] \in Rows
         /\ [r EXCEPT !.archived = TRUE] \in Rows /\ [r EXCEPT !.archived = FALSE] \in Rows
         /\ [r EXCEPT !.extract = "pending"] \in Rows /\ [r EXCEPT !.extract = "confirmed"] \in Rows
<1>1. [r EXCEPT !.comments = @ + 1] \in Rows /\ [r EXCEPT !.fields = @ + 1] \in Rows
  BY DEF Rows
<1>2. [r EXCEPT !.reviewers = @ + 1] \in Rows /\ [r EXCEPT !.reviewers = 0] \in Rows
  BY DEF Rows
<1>3. [r EXCEPT !.archived = TRUE] \in Rows /\ [r EXCEPT !.archived = FALSE] \in Rows
  BY DEF Rows
<1>4. [r EXCEPT !.extract = "pending"] \in Rows /\ [r EXCEPT !.extract = "confirmed"] \in Rows
  BY DEF Rows
<1> QED  BY <1>1, <1>2, <1>3, <1>4

LEMMA RowVersions ==
  ASSUME NEW r \in Rows, NEW v \in Nat
  PROVE  /\ [r EXCEPT !.versions = @ \ {v}] \in Rows
         /\ v \in Ids => [r EXCEPT !.versions = @ \cup {v}] \in Rows /\ [r EXCEPT !.link = v] \in Rows
<1>1. [r EXCEPT !.versions = @ \ {v}] \in Rows
  BY DEF Rows
<1>2. v \in Ids => [r EXCEPT !.versions = @ \cup {v}] \in Rows
  BY DEF Rows
<1>3. v \in Ids => [r EXCEPT !.link = v] \in Rows
  BY RecordsAssumption DEF Rows, Ids
<1> QED  BY <1>1, <1>2, <1>3

LEMMA RowFamily ==
  ASSUME NEW r \in Rows, NEW e \in Doc, NEW p \in SUBSET Doc
  PROVE  /\ [r EXCEPT !.parent = p] \in Rows
         /\ [r EXCEPT !.child = [r.child EXCEPT ![e] = @ + 1]] \in Rows
         /\ [r EXCEPT !.child = [r.child EXCEPT ![e] = 0]] \in Rows
<1>1. [r EXCEPT !.parent = p] \in Rows
  BY DEF Rows
<1>2. r.child \in [Doc -> Nat]
  BY DEF Rows
<1>3. [r.child EXCEPT ![e] = @ + 1] \in [Doc -> Nat] /\ [r.child EXCEPT ![e] = 0] \in [Doc -> Nat]
  BY <1>2
<1>4. \A f \in [Doc -> Nat] : [r EXCEPT !.child = f] \in Rows
  BY DEF Rows
<1> QED  BY <1>1, <1>3, <1>4

-----------------------------------------------------------------------------
(* Each route. *)

LEMMA CommentTyped ==
  ASSUME NEW s \in Services, NEW d \in Doc, NEW y \in CommentRoute(s, d)
  PROVE  y \in Services
<1>1. y = [s EXCEPT !.rows = [s.rows EXCEPT ![d] = [s.rows[d] EXCEPT !.comments = @ + 1]]]
  BY There DEF CommentRoute
<1> QED  BY <1>1, RowReplaced, RowSteps

LEMMA FieldTyped ==
  ASSUME NEW s \in Services, NEW d \in Doc, NEW y \in FieldRoute(s, d)
  PROVE  y \in Services
<1>1. y = [s EXCEPT !.rows = [s.rows EXCEPT ![d] = [s.rows[d] EXCEPT !.fields = @ + 1]]]
  BY There DEF FieldRoute
<1> QED  BY <1>1, RowReplaced, RowSteps

LEMMA ReviewerTyped ==
  ASSUME NEW s \in Services, NEW d \in Doc, NEW y \in ReviewerRoute(s, d)
  PROVE  y \in Services
<1>1. y = [s EXCEPT !.rows = [s.rows EXCEPT ![d] = [s.rows[d] EXCEPT !.reviewers = @ + 1]]]
  BY There DEF ReviewerRoute
<1> QED  BY <1>1, RowReplaced, RowSteps

LEMMA UnreviewTyped ==
  ASSUME NEW s \in Services, NEW d \in Doc, NEW y \in UnreviewRoute(s, d)
  PROVE  y \in Services
<1>1. y = [s EXCEPT !.rows = [s.rows EXCEPT ![d] = [s.rows[d] EXCEPT !.reviewers = 0]]]
  BY There DEF UnreviewRoute
<1> QED  BY <1>1, RowReplaced, RowSteps

LEMMA UnversionTyped ==
  ASSUME NEW s \in Services, NEW d \in Doc, NEW v \in Nat, NEW y \in UnversionRoute(s, d, v)
  PROVE  y \in Services
<1>1. y = [s EXCEPT !.rows = [s.rows EXCEPT ![d] = [s.rows[d] EXCEPT !.versions = @ \ {v}]]]
  BY There DEF UnversionRoute
<1> QED  BY <1>1, RowReplaced, RowVersions

LEMMA ArchiveTyped ==
  ASSUME NEW s \in Services, NEW d \in Doc, NEW y \in ArchiveRoute(s, d)
  PROVE  y \in Services
<1>1. y = [s EXCEPT !.rows = [s.rows EXCEPT ![d] = [s.rows[d] EXCEPT !.archived = TRUE]]]
  BY Zenon DEF ArchiveRoute
<1> QED  BY <1>1, RowReplaced, RowSteps

LEMMA UnarchiveTyped ==
  ASSUME NEW s \in Services, NEW d \in Doc, NEW y \in UnarchiveRoute(s, d)
  PROVE  y \in Services
<1>1. y = [s EXCEPT !.rows = [s.rows EXCEPT ![d] = [s.rows[d] EXCEPT !.archived = FALSE]]]
  BY Zenon DEF UnarchiveRoute
<1> QED  BY <1>1, RowReplaced, RowSteps

LEMMA ExtractTyped ==
  ASSUME NEW s \in Services, NEW d \in Doc, NEW y \in ExtractRoute(s, d)
  PROVE  y \in Services
<1>1. y = [s EXCEPT !.rows = [s.rows EXCEPT ![d] = [s.rows[d] EXCEPT !.extract = "pending"]]]
  BY Zenon DEF ExtractRoute
<1> QED  BY <1>1, RowReplaced, RowSteps

LEMMA ConfirmTyped ==
  ASSUME NEW s \in Services, NEW d \in Doc, NEW y \in Confirm(s, d)
  PROVE  y \in Services
<1>1. y = [s EXCEPT !.rows = [s.rows EXCEPT ![d] = [s.rows[d] EXCEPT !.extract = "confirmed"]]]
  BY Zenon DEF Confirm
<1> QED  BY <1>1, RowReplaced, RowSteps

\* A version that is recorded gets the next id.
LEMMA Recording ==
  ASSUME NEW s \in Services, NEW d \in Doc, d \in Versioned, NEW y \in VersionRoute(s, d)
  PROVE  /\ y \in Services /\ y.used = s.used + 1 /\ s.used + 1 \in Ids
         /\ y = [[s EXCEPT !.rows = [s.rows EXCEPT ![d] =
                    [s.rows[d] EXCEPT !.versions = @ \cup {s.used + 1}]]] EXCEPT !.used = s.used + 1]
<1> DEFINE n == s.used + 1
           z == [s EXCEPT !.rows = [s.rows EXCEPT ![d] = [s.rows[d] EXCEPT !.versions = @ \cup {n}]]]
<1>1. s.used # MaxIds /\ y \in IfThere(s, d, [s EXCEPT !.rows[d].versions = @ \cup {n}, !.used = @ + 1])
  BY DEF VersionRoute
<1>2. n \in Nat /\ n \in Ids /\ n \in 0 .. MaxIds
  BY <1>1, RecordsAssumption DEF Services, Ids
<1>3. z \in Services
  BY <1>2, RowReplaced, RowVersions
<1>4. y = [z EXCEPT !.used = n]
  BY <1>1, There
<1> HIDE DEF z
<1>5. y \in Services /\ y.used = n
  BY <1>2, <1>3, <1>4, Numbered DEF Services
<1> QED  BY <1>2, <1>4, <1>5 DEF z

LEMMA VersionTyped ==
  ASSUME NEW s \in Services, NEW d \in Doc, NEW y \in VersionRoute(s, d)
  PROVE  y \in Services
<1>1. CASE d \in Versioned
  BY <1>1, Recording
<1>2. CASE d \notin Versioned
  BY <1>2, There DEF VersionRoute
<1> QED  BY <1>1, <1>2

LEMMA AttachTyped ==
  ASSUME NEW s \in Services, NEW d \in Doc, NEW e \in Doc, NEW y \in AttachRoute(s, d, e)
  PROVE  y \in Services
<1> DEFINE z == [s EXCEPT !.rows = [s.rows EXCEPT ![d] =
                    [s.rows[d] EXCEPT !.child = [s.rows[d].child EXCEPT ![e] = @ + 1]]]]
           p == IF e \in s.there THEN {d} ELSE s.rows[e].parent
<1>1. z \in Services
  BY RowReplaced, RowFamily
<1>2. p \in SUBSET Doc
  BY RowReplaced DEF Rows
<1>3. y = [z EXCEPT !.rows = [z.rows EXCEPT ![e] = [z.rows[e] EXCEPT !.parent = p]]]
  BY There DEF AttachRoute
<1> HIDE DEF z, p
<1> QED  BY <1>1, <1>2, <1>3, RowReplaced, RowFamily

LEMMA DetachTyped ==
  ASSUME NEW s \in Services, NEW d \in Doc, NEW e \in Doc, NEW y \in DetachRoute(s, d, e)
  PROVE  y \in Services
<1>1. y = [s EXCEPT !.rows = [s.rows EXCEPT ![d] =
              [s.rows[d] EXCEPT !.child = [s.rows[d].child EXCEPT ![e] = 0]]]]
  BY There DEF DetachRoute
<1> QED  BY <1>1, RowReplaced, RowFamily

LEMMA LinkTyped ==
  ASSUME NEW s \in Services, NEW d \in Doc, NEW y \in LinkRoute(s, d)
  PROVE  y \in Services
<1> DEFINE n == s.used + 1
           u == [s EXCEPT !.link = [s.link EXCEPT ![n] = "active"]]
           z == [u EXCEPT !.rows = [u.rows EXCEPT ![d] = [u.rows[d] EXCEPT !.link = n]]]
<1>1. s.used # MaxIds
      /\ y = [s EXCEPT !.link[n] = "active", !.rows[d].link = n, !.used = @ + 1]
  BY Zenon DEF LinkRoute
<1>2. n \in Nat /\ n \in Ids /\ n \in 0 .. MaxIds
  BY <1>1, RecordsAssumption DEF Services, Ids
<1>3. u \in Services
  BY <1>2, Shown
<1>4. z \in Services
  BY <1>2, <1>3, RowReplaced, RowVersions
<1>5. y = [z EXCEPT !.used = n]
  BY <1>1
<1> QED  BY <1>2, <1>4, <1>5, Numbered

LEMMA RevokeTyped ==
  ASSUME NEW s \in Services, NEW l \in Nat, NEW y \in RelinkRoute(s, l) \cup RevokeRoute(s, l)
  PROVE  y \in Services
<1>1. y = s \/ y = [s EXCEPT !.link = [s.link EXCEPT ![l] = "revoked"]]
  BY Zenon DEF RelinkRoute, RevokeRoute
<1> QED  BY <1>1, Shown

LEMMA DeleteTyped ==
  ASSUME NEW s \in Services, NEW d \in Doc, NEW y \in DeleteRoute(s, d)
  PROVE  y \in Services
<1>1. y = [s EXCEPT !.there = @ \ {d}]
  BY There DEF DeleteRoute
<1> QED  BY <1>1 DEF Services

-----------------------------------------------------------------------------
(* Calls. *)

LEMMA OutcomesTyped ==
  ASSUME svc \in Services, NEW w \in Calls, w.ask \notin Reads, NEW y \in Outcomes(w)
  PROVE  y \in Services
<1>1. PICK d \in w.on, e \in w.other : y \in Write(w, svc, d, e)
  BY DEF Outcomes
<1>2. /\ d \in Doc /\ e \in Doc /\ w.id \in Nat /\ w.ask \in Tools \ Reads
  BY <1>1, RecordsAssumption DEF Calls
<1>3. CASE w.ask \in {"comment", "field", "reviewer", "unreview"}
  BY <1>1, <1>2, <1>3, CommentTyped, FieldTyped, ReviewerTyped, UnreviewTyped DEF Write
<1>4. CASE w.ask \in {"version", "unversion", "attach", "detach"}
  BY <1>1, <1>2, <1>4, VersionTyped, UnversionTyped, AttachTyped, DetachTyped DEF Write
<1>5. CASE w.ask \in {"link", "relink", "revoke", "delete"}
  BY <1>1, <1>2, <1>5, LinkTyped, RevokeTyped, DeleteTyped DEF Write
<1>6. CASE w.ask \in {"archive", "unarchive", "extract", "confirm"}
  BY <1>1, <1>2, <1>6, ArchiveTyped, UnarchiveTyped, ExtractTyped, ConfirmTyped DEF Write
<1> QED  BY <1>2, <1>3, <1>4, <1>5, <1>6 DEF Tools, Reads

LEMMA ViewsTyped ==
  ASSUME svc \in Services, NEW w \in Calls, w.ask \in Reads \cup {"version"}, NEW r \in Views(w)
  PROVE  r \in {"none", "some", "pending", "confirmed", "active", "revoked"}
<1>1. PICK d \in w.on : r \in Read(w, svc, d)
  BY DEF Views
<1>2. d \in Doc /\ svc.rows[d].extract \in {"none", "pending", "confirmed"} /\ svc.rows[d].link \in 0 .. MaxIds
  BY <1>1, RowReplaced DEF Calls, Rows
<1>3. \A n : Known(n) \in {"none", "some"}
  BY DEF Known
<1>4. CASE w.ask = "reviews"
  BY <1>1, <1>3, <1>4, There DEF Read, ReadReviews
<1>5. CASE w.ask = "version"
  BY <1>1, <1>3, <1>5, There DEF Read, ReadVersions
<1>6. CASE w.ask = "export"
  BY <1>1, <1>2, <1>6, There DEF Read, ReadExtract
<1>7. CASE w.ask = "showlink"
  <2>1. svc.rows[d].link # 0 => svc.link[svc.rows[d].link] \in {"none", "active", "revoked"}
    BY <1>2, RecordsAssumption DEF Services, Ids
  <2> QED  BY <1>1, <1>7, <2>1 DEF Read, ReadLink
<1> QED  BY <1>4, <1>5, <1>6, <1>7 DEF Reads

LEMMA OnwardTyped ==
  ASSUME NEW w \in Calls
  PROVE  Onward(w) \in Calls
<1>1. w.step < Requests(w.ask) => w.step + 1 \in 1 .. 3
  BY DEF Calls, Requests
<1>2. 1 \in 0 .. Retries /\ 0 \in 0 .. Retries
  BY RecordsAssumption
<1>3. \A n \in 1 .. 3 : [w EXCEPT !.step = n, !.tries = 1] \in Calls
  BY <1>2 DEF Calls
<1>4. [w EXCEPT !.pc = "ok", !.tries = 0] \in Calls
  BY <1>2 DEF Calls
<1> QED  BY <1>1, <1>3, <1>4 DEF Onward

LEMMA FailedTyped ==
  ASSUME NEW w \in Calls
  PROVE  Failed(w) \in Calls /\ OneMore(w) \in Calls
<1>1. [w EXCEPT !.pc = "error", !.tries = 0] \in Calls
  <2>1. 0 \in 0 .. Retries
    BY RecordsAssumption
  <2> QED  BY <2>1 DEF Calls
<1>2. Failed(w) \in Calls
  BY <1>1, OnwardTyped DEF Failed
<1>3. w.tries < Retries => w.tries + 1 \in 0 .. Retries
  BY RecordsAssumption DEF Calls
<1>4. \A n \in 0 .. Retries : [w EXCEPT !.tries = n] \in Calls
  BY DEF Calls
<1> QED  BY <1>2, <1>3, <1>4 DEF OneMore

\* What an answer, or its absence, leaves of a call.
Keeps(v, w) == /\ v.ask = w.ask /\ v.made = w.made /\ v.blind = w.blind /\ v.late = w.late
               /\ v.seen = w.seen /\ v.ids = w.ids /\ v.on = w.on

LEMMA OnwardKeeps ==
  ASSUME NEW w \in Calls
  PROVE  /\ Keeps(Onward(w), w)
         /\ Onward(w).step > 1 \/ Onward(w).pc = "ok"
         /\ Onward(w).step > 1 => w.step > 1 \/ w.ask \in {"version", "reviews"}
<1>1. CASE w.step < Requests(w.ask)
  <2>1. Onward(w) = [w EXCEPT !.step = @ + 1, !.tries = 1]
    BY <1>1 DEF Onward
  <2>2. Keeps(Onward(w), w) /\ Onward(w).step = w.step + 1
    BY <2>1 DEF Keeps, Calls
  <2>3. w.step \in 1 .. 3
    BY DEF Calls
  <2> QED  BY <1>1, <2>2, <2>3 DEF Requests
<1>2. CASE ~(w.step < Requests(w.ask))
  <2>1. Onward(w) = [w EXCEPT !.pc = "ok", !.tries = 0]
    BY <1>2 DEF Onward
  <2>2. Keeps(Onward(w), w) /\ Onward(w).step = w.step /\ Onward(w).pc = "ok"
    BY <2>1 DEF Keeps, Calls
  <2> QED  BY <2>2
<1> QED  BY <1>1, <1>2

\* Counts says the same of a call that keeps its counters, and told more.
LEMMA CountsKept ==
  ASSUME NEW w \in Calls, NEW v \in Calls, Counts(w), Keeps(v, w), w.pc = "asked",
         v.step > 1 => v.ask \in {"version", "reviews"},
         w.step > 1 => v.step > 1 \/ v.pc = "ok",
         w.ask \notin Reads /\ w.step = 1 => v.step = 1 /\ v.pc # "ok"
  PROVE  Counts(v)
<1>1. w.step \in 1 .. 3 /\ v.step \in 1 .. 3 /\ w.made \in Nat /\ w.late \in Nat /\ w.blind \in Nat
  BY DEF Calls
<1> QED  BY <1>1 DEF Counts, Keeps

LEMMA FailedCounts ==
  ASSUME NEW w \in Calls, Counts(w), w.pc = "asked"
  PROVE  Counts(Failed(w)) /\ Counts(OneMore(w))
<1>s. w.step \in 1 .. 3
  BY DEF Calls
<1>1. Counts(Failed(w))
  <2>1. CASE w.ask = "reviews" \/ w.step = 2
    <3>1. Failed(w) = Onward(w) /\ Onward(w) \in Calls
      BY <2>1, OnwardTyped DEF Failed
    <3>2. w.ask = "reviews" \/ w.step > 1
      BY <2>1
    <3>3. w.step > 1 => w.ask \in {"version", "reviews"}
      BY DEF Counts
    <3>4. ~(w.ask \notin Reads /\ w.step = 1)
      BY <2>1 DEF Reads
    <3>5. Onward(w).step > 1 => Onward(w).ask \in {"version", "reviews"}
      BY <3>3, OnwardKeeps DEF Keeps
    <3> QED  BY <3>1, <3>4, <3>5, OnwardKeeps, CountsKept
  <2>2. CASE ~(w.ask = "reviews" \/ w.step = 2)
    <3>1. Failed(w) = [w EXCEPT !.pc = "error", !.tries = 0]
      BY <2>2 DEF Failed
    <3>2. Keeps(Failed(w), w) /\ Failed(w).pc = "error" /\ Failed(w).step = w.step
      BY <3>1 DEF Keeps, Calls
    <3> QED  BY <3>2, FailedTyped, CountsKept DEF Counts, Keeps
  <2> QED  BY <2>1, <2>2
<1>2. Counts(OneMore(w))
  <2>1. CASE w.tries < Retries
    <3>1. OneMore(w) = [w EXCEPT !.tries = @ + 1]
      BY <2>1 DEF OneMore
    <3>2. Keeps(OneMore(w), w) /\ OneMore(w).pc = "asked" /\ OneMore(w).step = w.step
      BY <3>1 DEF Keeps, Calls
    <3> QED  BY <3>2, FailedTyped, CountsKept DEF Counts, Keeps
  <2> QED  BY <1>1, <2>1 DEF OneMore
<1> QED  BY <1>1, <1>2

LEMMA ToldGood ==
  ASSUME TypeOK, NEW w \in Calls, Counts(w), w.pc = "asked", Writing(w), NEW y \in Services,
         w.ask = "version" /\ y = svc => w.on \cap Versioned = {}
  PROVE  Told(w, y) \in Calls /\ Counts(Told(w, y))
<1> DEFINE m == Made(w, y)
           v == [m EXCEPT !.id = IF y.used > svc.used THEN y.used ELSE @]
           n == Took(w, y)
<1>0. n \in {0, 1} /\ (n = 0 => w.ask = "version" /\ w.on \cap Versioned = {})
  BY DEF Took
<1> HIDE DEF n
<1>1. y.used \in 0 .. MaxIds /\ svc.used \in 0 .. MaxIds
  BY DEF TypeOK, Services
<1>2. y.used > svc.used => y.used \in Ids
  BY <1>1, RecordsAssumption DEF Ids
<1>3. /\ m = [w EXCEPT !.made = w.made + n, !.ids = IF y.used > svc.used THEN @ \cup {y.used} ELSE @]
      /\ w.made + n \in Nat /\ (IF y.used > svc.used THEN w.ids \cup {y.used} ELSE w.ids) \in SUBSET Ids
  BY <1>0, <1>2 DEF Made, Calls, n
<1>4. /\ m \in Calls /\ m.ask = w.ask /\ m.made = w.made + n /\ m.blind = w.blind /\ m.late = w.late
      /\ m.step = w.step /\ m.on = w.on
  BY <1>3 DEF Calls
<1>5. /\ v \in Calls /\ v.ask = w.ask /\ v.made = w.made + n /\ v.blind = w.blind /\ v.late = w.late
      /\ v.step = w.step /\ v.on = w.on
  BY <1>1, <1>4 DEF Calls
<1>6. Told(w, y) = Onward(v)
  BY DEF Told
<1> HIDE DEF m, v
<1>7. Onward(v) \in Calls /\ Keeps(Onward(v), v) /\ (Onward(v).step > 1 \/ Onward(v).pc = "ok")
      /\ (Onward(v).step > 1 => v.step > 1 \/ v.ask \in {"version", "reviews"})
  BY <1>5, OnwardTyped, OnwardKeeps
<1>8. w.made \in Nat /\ w.late \in Nat /\ w.blind \in Nat /\ w.step = 1
  BY DEF Calls, Writing
<1> QED  BY <1>0, <1>5, <1>6, <1>7, <1>8 DEF Counts, Keeps

-----------------------------------------------------------------------------
(* The inductive invariant. *)

LEMMA NewCallGood == NewCall \in Calls /\ Counts(NewCall)
<1>1. 0 \in 0 .. Retries /\ 0 \in 0 .. MaxIds
  BY RecordsAssumption
<1> QED  BY <1>1 DEF NewCall, Calls, Tools, Counts

LEMMA InitGood ==
  ASSUME Init
  PROVE  IInv
<1>1. 0 \in 0 .. Retries /\ 0 \in 0 .. MaxIds
  BY RecordsAssumption
<1>2. Row \in Rows
  BY <1>1 DEF Row, Rows
<1>3. svc \in Services
  BY <1>1, <1>2 DEF Init, NewService, Services
<1> QED  BY <1>3, NewCallGood DEF Init, TypeOK, IInv

\* A step that changes one call.
LEMMA OneCall ==
  ASSUME IInv, svc' \in Services, NEW c \in Call, NEW v \in Calls, Counts(v),
         call' = [call EXCEPT ![c] = v]
  PROVE  IInv'
<1>1. call' \in [Call -> Calls]
  BY DEF IInv, TypeOK
<1>2. \A x \in Call : call'[x] = IF x = c THEN v ELSE call[x]
  BY DEF IInv, TypeOK
<1> QED  BY <1>1, <1>2 DEF IInv, TypeOK

LEMMA BeginGood ==
  ASSUME IInv, NEW c \in Call, NEW q \in Tools, NEW d \in Doc, NEW e \in Doc, NEW i \in 0 .. MaxIds,
         Begin(c, q, d, e, i)
  PROVE  IInv'
<1> DEFINE w == [NewCall EXCEPT !.pc = "asked", !.ask = q, !.on = {d}, !.other = {e}, !.id = i, !.tries = 1]
           b == \E x \in Call : Underway(call[x]) /\ Undoes(call[x], w)
<1>1. 1 \in 0 .. Retries /\ 0 \in 0 .. MaxIds
  BY RecordsAssumption
<1>2. /\ NewCall.made = 0 /\ NewCall.late = 0 /\ NewCall.blind = 0 /\ NewCall.step = 1
  BY DEF NewCall
<1>3. w \in Calls /\ Counts(w)
  <2>1. w \in Calls
    BY <1>1, NewCallGood DEF Calls
  <2>2. w.made = 0 /\ w.late = 0 /\ w.blind = 0 /\ w.step = 1 /\ w.pc = "asked" /\ w.on = {d}
    BY <1>2, NewCallGood DEF Calls
  <2> QED  BY <2>1, <2>2 DEF Counts
<1>4. \A v \in Calls, x \in BOOLEAN : Counts(v) =>
         [v EXCEPT !.contested = x] \in Calls /\ Counts([v EXCEPT !.contested = x])
  <2> TAKE v \in Calls, x \in BOOLEAN
  <2>1. [v EXCEPT !.contested = x] \in Calls
    BY DEF Calls
  <2>2. /\ [v EXCEPT !.contested = x].pc = v.pc /\ [v EXCEPT !.contested = x].ask = v.ask
        /\ [v EXCEPT !.contested = x].step = v.step /\ [v EXCEPT !.contested = x].made = v.made
        /\ [v EXCEPT !.contested = x].late = v.late /\ [v EXCEPT !.contested = x].blind = v.blind
        /\ [v EXCEPT !.contested = x].on = v.on
    BY DEF Calls
  <2> QED  BY <2>1, <2>2 DEF Counts
<1>5. /\ svc' = svc
      /\ call' = [x \in Call |-> IF x = c THEN [w EXCEPT !.contested = b]
                                 ELSE [call[x] EXCEPT !.contested = @ \/ Undoes(w, call[x])]]
  BY DEF Begin
<1> HIDE DEF w, b
<1>6. \A x \in Call : call[x] \in Calls /\ Counts(call[x]) /\ call[x].contested \in BOOLEAN
  BY DEF IInv, TypeOK, Calls
<1>7. b \in BOOLEAN /\ \A x \in Call : (call[x].contested \/ Undoes(w, call[x])) \in BOOLEAN
  BY DEF b
<1>8. \A x \in Call : call'[x] \in Calls /\ Counts(call'[x])
  <2> TAKE x \in Call
  <2>1. CASE x = c
    BY <1>3, <1>4, <1>5, <1>7, <2>1
  <2>2. CASE x # c
    BY <1>4, <1>5, <1>6, <1>7, <2>2
  <2> QED  BY <2>1, <2>2
<1>9. call' \in [Call -> Calls]
  BY <1>5, <1>8
<1> QED  BY <1>5, <1>8, <1>9 DEF IInv, TypeOK

LEMMA BegunGood ==
  ASSUME IInv, NEW c \in Call, NEW d \in Doc, Changing(c, d) \/ Reading(c, d)
  PROVE  IInv'
<1>1. PICK q \in Tools, e \in Doc, i \in 0 .. MaxIds : Begin(c, q, d, e, i)
  <2>1. \A v \in 1 .. svc.used : v \in 0 .. MaxIds
    BY RecordsAssumption DEF IInv, TypeOK, Services
  <2>2. 0 \in 0 .. MaxIds
    BY RecordsAssumption
  <2>3. CASE AddComment(c, d) \/ SetDocumentField(c, d) \/ AddReviewer(c, d) \/ RemoveReviewer(c, d)
    BY <2>2, <2>3 DEF AddComment, SetDocumentField, AddReviewer, RemoveReviewer, Tools
  <2>4. CASE UploadDocumentVersion(c, d) \/ DeleteDocumentVersion(c, d) \/ AttachChildDocument(c, d)
             \/ DetachChildDocument(c, d)
    BY <2>1, <2>2, <2>4 DEF UploadDocumentVersion, DeleteDocumentVersion, AttachChildDocument,
                            DetachChildDocument, Tools
  <2>5. CASE CreatePublicLink(c, d) \/ UpdatePublicLink(c, d) \/ RevokePublicLink(c, d)
    BY <2>1, <2>2, <2>5 DEF CreatePublicLink, UpdatePublicLink, RevokePublicLink, Tools
  <2>6. CASE ArchiveDocuments(c, d) \/ UnarchiveDocuments(c, d) \/ StartStructuredData(c, d)
             \/ ConfirmStructuredData(c, d) \/ DeleteDocument(c, d)
    BY <2>2, <2>6 DEF ArchiveDocuments, UnarchiveDocuments, StartStructuredData, ConfirmStructuredData,
                      DeleteDocument, Tools
  <2>7. CASE Reading(c, d)
    BY <2>2, <2>7 DEF Reading, GetReviewState, DownloadStructuredData, GetPublicLink, Tools, Reads
  <2> QED  BY <2>3, <2>4, <2>5, <2>6, <2>7 DEF Changing
<1> QED  BY <1>1, BeginGood

LEMMA AnswerGood ==
  ASSUME IInv, NEW c \in Call, Answer(c)
  PROVE  IInv'
<1> DEFINE w == call[c]
<1>1. w \in Calls /\ Counts(w) /\ w.pc = "asked" /\ Writing(w) /\ svc \in Services
  BY DEF IInv, TypeOK, Answer
<1>2. PICK y \in Outcomes(w) : svc' = y /\ call' = [call EXCEPT ![c] = Told(w, y)]
  BY DEF Answer
<1>3. y \in Services
  BY <1>1, <1>2, OutcomesTyped DEF Writing
<1>5. w.ask = "version" /\ y = svc => w.on \cap Versioned = {}
  <2> SUFFICES ASSUME w.ask = "version", y = svc, NEW a \in w.on, a \in Versioned
               PROVE  FALSE
    OBVIOUS
  <2>1. PICK d \in w.on, e \in w.other : y \in Write(w, svc, d, e)
    BY <1>2 DEF Outcomes
  <2>2. y \in VersionRoute(svc, a) /\ a \in Doc
    BY <1>1, <2>1 DEF Write, Counts, Calls
  <2>3. svc.used \in Nat
    BY <1>1, RecordsAssumption DEF Services
  <2>4. y.used = svc.used + 1
    BY <1>1, <2>2, Recording
  <2> QED  BY <2>3, <2>4
<1>4. Told(w, y) \in Calls /\ Counts(Told(w, y))
  BY <1>1, <1>3, <1>5, ToldGood DEF IInv
<1> QED  BY <1>2, <1>3, <1>4, OneCall

LEMMA LookGood ==
  ASSUME IInv, NEW c \in Call, Look(c)
  PROVE  IInv'
<1> DEFINE w == call[c]
<1>1. w \in Calls /\ Counts(w) /\ w.pc = "asked" /\ ~Writing(w) /\ svc \in Services
  BY DEF IInv, TypeOK, Look
<1>2. PICK r \in Views(w) : call' = [call EXCEPT ![c] = Onward([w EXCEPT !.seen = @ \cup {r}])]
  BY DEF Look
<1>3. w.step \in 1 .. 3 /\ (w.step > 1 \/ w.ask \in Reads)
  BY <1>1 DEF Calls, Writing
<1>4. w.ask \in Reads \cup {"version"}
  BY <1>1, <1>3 DEF Counts, Reads
<1>5. r \in {"none", "some", "pending", "confirmed", "active", "revoked"}
  BY <1>1, <1>2, <1>4, ViewsTyped
<1> DEFINE v == [w EXCEPT !.seen = w.seen \cup {r}]
<1>6. v \in Calls /\ v.ask = w.ask /\ v.made = w.made /\ v.blind = w.blind /\ v.late = w.late
      /\ v.step = w.step /\ v.pc = w.pc /\ v.on = w.on
  <2>1. w.seen \cup {r} \in SUBSET {"none", "some", "pending", "confirmed", "active", "revoked"}
    BY <1>1, <1>5 DEF Calls
  <2> QED  BY <1>1, <2>1 DEF Calls
<1> HIDE DEF v
<1>7. Onward(v) \in Calls /\ Keeps(Onward(v), v) /\ (Onward(v).step > 1 \/ Onward(v).pc = "ok")
      /\ (Onward(v).step > 1 => v.step > 1 \/ v.ask \in {"version", "reviews"})
  BY <1>6, OnwardTyped, OnwardKeeps
<1>8. Counts(v)
  BY <1>1, <1>6 DEF Counts
<1>9. Counts(Onward(v))
  BY <1>1, <1>3, <1>6, <1>7, <1>8, CountsKept DEF Counts, Keeps
<1>10. svc' = svc /\ call' = [call EXCEPT ![c] = Onward(v)]
  BY <1>2 DEF Look, v
<1> QED  BY <1>1, <1>7, <1>9, <1>10, OneCall

LEMMA RefuseGood ==
  ASSUME IInv, NEW c \in Call, Refuse(c) \/ Drop(c)
  PROVE  IInv'
<1>1. call[c] \in Calls /\ Counts(call[c]) /\ call[c].pc = "asked" /\ svc' = svc /\ svc \in Services
  BY DEF IInv, TypeOK, Refuse, Drop
<1>2. PICK v \in {Failed(call[c]), OneMore(call[c])} : call' = [call EXCEPT ![c] = v]
  BY DEF Refuse, Drop
<1>3. v \in Calls /\ Counts(v)
  BY <1>1, <1>2, FailedTyped, FailedCounts
<1> QED  BY <1>1, <1>2, <1>3, OneCall

LEMMA DelayGood ==
  ASSUME IInv, NEW c \in Call, Delay(c)
  PROVE  IInv'
<1> DEFINE w == call[c]
<1>1. w \in Calls /\ Counts(w) /\ w.pc = "asked" /\ Writing(w) /\ svc' = svc /\ svc \in Services
  BY DEF IInv, TypeOK, Delay
<1>2. PICK v \in {OneMore(w), Failed(w)} :
          call' = [call EXCEPT ![c] = [v EXCEPT !.late = @ + 1, !.blind = @ + 1]]
  BY DEF Delay
<1>3. v \in Calls /\ Counts(v)
  BY <1>1, <1>2, FailedTyped, FailedCounts
<1>4. v.ask = w.ask
  <2>1. Failed(w).ask = w.ask
    BY <1>1, OnwardKeeps DEF Failed, Keeps, Calls
  <2> QED  BY <1>1, <1>2, <2>1 DEF OneMore, Calls
<1> DEFINE u == [v EXCEPT !.late = v.late + 1, !.blind = v.blind + 1]
<1>5. v.late \in Nat /\ v.blind \in Nat /\ v.made \in Nat /\ v.late + 1 \in Nat /\ v.blind + 1 \in Nat
  BY <1>3 DEF Calls
<1>6. u \in Calls /\ u.ask = v.ask /\ u.made = v.made /\ u.blind = v.blind + 1 /\ u.late = v.late + 1
      /\ u.step = v.step /\ u.pc = v.pc /\ u.on = v.on
  BY <1>3, <1>5 DEF Calls
<1>7. Counts(u)
  BY <1>1, <1>3, <1>4, <1>5, <1>6 DEF Counts, Writing
<1> QED  BY <1>1, <1>2, <1>6, <1>7, OneCall

LEMMA LateGood ==
  ASSUME IInv, NEW c \in Call, Late(c)
  PROVE  IInv'
<1> DEFINE w == call[c]
           a == Arrived(w)
<1>1. w \in Calls /\ Counts(w) /\ w.late > 0 /\ svc \in Services /\ w.late - 1 \in Nat /\ w.ask \notin Reads
  BY DEF IInv, TypeOK, Late, Calls, Counts
<1>2. a \in Calls /\ a.ask = w.ask /\ a.made = w.made /\ a.blind = w.blind /\ a.late = w.late - 1
      /\ a.step = w.step /\ a.pc = w.pc /\ a.on = w.on
  BY <1>1 DEF Calls, Arrived
<1>3. w.late \in Nat /\ w.made \in Nat /\ w.blind \in Nat
  BY <1>1 DEF Calls
<1> HIDE DEF a
<1>4. CASE Outcomes(w) = {} /\ svc' = svc /\ call' = [call EXCEPT ![c] = a]
  <2>1. Counts(a)
    BY <1>1, <1>2, <1>3 DEF Counts
  <2> QED  BY <1>1, <1>2, <1>4, <2>1, OneCall
<1>5. CASE \E y \in Outcomes(w) : svc' = y /\ call' = [call EXCEPT ![c] = Made(a, y)]
  <2>1. PICK y \in Outcomes(w) : svc' = y /\ call' = [call EXCEPT ![c] = Made(a, y)]
    BY <1>5
  <2>2. y \in Services
    BY <1>1, OutcomesTyped
  <2>3. y.used \in 0 .. MaxIds /\ svc.used \in 0 .. MaxIds
    BY <1>1, <2>2 DEF Services
  <2>4. y.used > svc.used => y.used \in Ids
    BY <2>3, RecordsAssumption DEF Ids
  <2> DEFINE m == Made(a, y)
             n == Took(a, y)
  <2>9. n \in {0, 1}
    BY DEF Took
  <2> HIDE DEF n
  <2>5. /\ m = [a EXCEPT !.made = a.made + n, !.ids = IF y.used > svc.used THEN @ \cup {y.used} ELSE @]
        /\ a.made + n \in Nat /\ (IF y.used > svc.used THEN a.ids \cup {y.used} ELSE a.ids) \in SUBSET Ids
    BY <1>2, <2>4, <2>9 DEF Made, Calls, n
  <2>6. m \in Calls /\ m.ask = a.ask /\ m.made = a.made + n /\ m.blind = a.blind /\ m.late = a.late
        /\ m.step = a.step /\ m.pc = a.pc /\ m.on = a.on
    BY <1>2, <2>5 DEF Calls
  <2> HIDE DEF m
  <2>7. Counts(m)
    BY <1>1, <1>2, <1>3, <2>6, <2>9 DEF Counts
  <2>8. call' = [call EXCEPT ![c] = m]
    BY <2>1 DEF m
  <2> QED  BY <2>1, <2>2, <2>6, <2>7, <2>8, OneCall
<1> QED  BY <1>4, <1>5 DEF Late, a

THEOREM Inductive == Spec => []IInv
<1>1. Init => IInv
  BY InitGood
<1>2. IInv /\ [Next]_vars => IInv'
  <2> SUFFICES ASSUME IInv, [Next]_vars
               PROVE  IInv'
    OBVIOUS
  <2>1. CASE UNCHANGED vars
    BY <2>1 DEF vars, IInv, TypeOK
  <2>2. ASSUME NEW c \in Call, NEW d \in Doc, Changing(c, d) \/ Reading(c, d)
        PROVE  IInv'
    BY <2>2, BegunGood
  <2>3. ASSUME NEW c \in Call,
               Answer(c) \/ Look(c) \/ Refuse(c) \/ Drop(c) \/ Delay(c) \/ Late(c)
        PROVE  IInv'
    BY <2>3, AnswerGood, LookGood, RefuseGood, DelayGood, LateGood
  <2> QED  BY <2>1, <2>2, <2>3 DEF Next
<1> QED  BY <1>1, <1>2, PTL DEF Spec

\* The types of the service and of the calls.
THEOREM TypeCorrect == Spec => []TypeOK
<1>1. IInv => TypeOK
  BY DEF IInv
<1> QED  BY <1>1, Inductive, PTL

-----------------------------------------------------------------------------
(* What is told stands.  Whoever takes back what a call did is under way when *)
(* it does so, and then the call is contested (Contest).  So between two      *)
(* steps of a call that is not contested nobody touches what it rests on.     *)

\* A call that has been told of its success, or that goes on to read what it did.
Settled(w) == w.pc = "ok" \/ w.step > 1

\* Documents that do not support versions have none.
Bare(s) == \A d \in Doc \ Versioned : s.rows[d].versions = {}

\* Does a request of w on document d give a new id?
Gives(w, d) == w.ask = "link" \/ (w.ask = "version" /\ d \in Versioned)

\* A call is about one document, and one other if it is about a family; it names ids
\* that are given, its own ids are its own.
Shape(s, w) ==
    /\ w.pc = "new" => w.ask = "delete" /\ w.late = 0 /\ w.step = 1
    /\ w.pc # "new" => \E d, e \in Doc : /\ w.on = {d} /\ w.other = {e}
                                         /\ w.ask \notin {"attach", "detach"} => e = d
    /\ w.ask \notin Reads /\ w.step = 1 => w.seen = {}
    /\ w.ids \subseteq 1 .. s.used
    /\ w.ask \in {"unversion", "relink", "revoke"} => w.id \in 1 .. s.used
    /\ \A d \in w.on : Gives(w, d) /\ Settled(w) => w.id \in w.ids
    /\ w.ask = "version" /\ w.on \cap Versioned = {} => "some" \notin w.seen

\* What a call that took effect rests on.
Kept(s, w, d, e) ==
    /\ w.ask = "reviewer" => s.rows[d].reviewers > 0
    /\ w.ask = "unreview" => s.rows[d].reviewers = 0
    /\ w.ask = "version" /\ d \in Versioned => w.id \in s.rows[d].versions /\ "none" \notin w.seen
    /\ w.ask = "unversion" => w.id \notin s.rows[d].versions
    /\ w.ask = "attach" => s.rows[d].child[e] > 0 /\ (e \in s.there => s.rows[e].parent = {d})
    /\ w.ask = "detach" => s.rows[d].child[e] = 0
    /\ w.ask = "link" => s.link[w.id] = "active"
    /\ w.ask = "revoke" => s.link[w.id] = "revoked"
    /\ w.ask = "archive" => s.rows[d].archived
    /\ w.ask = "unarchive" => ~s.rows[d].archived
    /\ w.ask = "extract" => s.rows[d].extract = "pending"
    /\ w.ask = "confirm" => s.rows[d].extract = "confirmed"
    /\ w.ask = "delete" => d \notin s.there

Standing(s, w) == ~w.contested => \A d \in w.on, e \in w.other :
    /\ Settled(w) => Kept(s, w, d, e)
    /\ w.ask = "reviews" /\ w.pc = "asked" => w.seen \subseteq {Known(s.rows[d].reviewers)}
    /\ w.ask = "reviews" => \A x, y \in w.seen : x = y

Contest(v, w) == Underway(v) /\ Undoes(v, w) => w.contested

SInv == /\ IInv /\ Bare(svc)
        /\ \A c \in Call : /\ Shape(svc, call[c]) /\ Standing(svc, call[c])
                           /\ \A b \in Call : Contest(call[b], call[c])

-----------------------------------------------------------------------------
(* What a request changes, and that it changes nothing else. *)

\* q is the row of x after a request of v on a, and on b if it is about a family; p was it.
RowEffect(p, q, s, v, a, b, x) ==
    /\ q.reviewers = IF v.ask = "reviewer" /\ x = a THEN p.reviewers + 1
                     ELSE IF v.ask = "unreview" /\ x = a THEN 0 ELSE p.reviewers
    /\ q.versions = IF v.ask = "version" /\ x = a /\ a \in Versioned THEN p.versions \cup {s.used + 1}
                    ELSE IF v.ask = "unversion" /\ x = a THEN p.versions \ {v.id} ELSE p.versions
    /\ q.archived = IF v.ask = "archive" /\ x = a THEN TRUE
                    ELSE IF v.ask = "unarchive" /\ x = a THEN FALSE ELSE p.archived
    /\ q.extract = IF v.ask = "extract" /\ x = a THEN "pending"
                   ELSE IF v.ask = "confirm" /\ x = a THEN "confirmed" ELSE p.extract
    /\ q.parent = IF v.ask = "attach" /\ x = b /\ b \in s.there THEN {a} ELSE p.parent
    /\ \A z \in Doc : q.child[z] = IF v.ask = "attach" /\ x = a /\ z = b THEN p.child[z] + 1
                                  ELSE IF v.ask = "detach" /\ x = a /\ z = b THEN 0 ELSE p.child[z]

\* What is kept beside the rows.
Beside(s, y, v, a) ==
    /\ y.used = IF Gives(v, a) THEN s.used + 1 ELSE s.used
    /\ y.there = IF v.ask = "delete" THEN s.there \ {a} ELSE s.there
    /\ \A l \in Ids : y.link[l] = IF v.ask = "revoke" /\ l = v.id THEN "revoked"
                                  ELSE IF v.ask = "link" /\ l = s.used + 1 THEN "active" ELSE s.link[l]

Effect(s, y, v, a, b) ==
    Beside(s, y, v, a) /\ \A x \in Doc : RowEffect(s.rows[x], y.rows[x], s, v, a, b, x)

\* s with another row of a.
WithRow(s, a, r) == [s EXCEPT !.rows = [s.rows EXCEPT ![a] = r]]

LEMMA OneRow ==
  ASSUME NEW s \in Services, NEW a \in Doc, NEW r \in Rows, NEW y,
         y = WithRow(s, a, r)
  PROVE  /\ y.used = s.used /\ y.there = s.there /\ y.link = s.link
         /\ \A x \in Doc : y.rows[x] = IF x = a THEN r ELSE s.rows[x]
<1> DEFINE f == [s.rows EXCEPT ![a] = r]
<1>1. \A x \in Doc : f[x] = IF x = a THEN r ELSE s.rows[x]
  BY DEF Services
<1> HIDE DEF f
<1>2. y = [s EXCEPT !.rows = f]
  BY DEF f, WithRow
<1>3. y.used = s.used /\ y.there = s.there /\ y.link = s.link /\ y.rows = f
  BY <1>2 DEF Services
<1>4. \A x \in Doc : y.rows[x] = IF x = a THEN r ELSE s.rows[x]
  BY <1>1, <1>3, Zenon
<1> QED  BY <1>3, <1>4, Zenon

LEMMA OtherRow ==
  ASSUME NEW p, NEW s, NEW v, NEW a, NEW b, NEW x, x # a, v.ask # "attach" \/ x # b \/ b \notin s.there
  PROVE  RowEffect(p, p, s, v, a, b, x)
BY DEF RowEffect

\* A request that replaces one row.
LEMMA EffectOfRow ==
  ASSUME NEW s \in Services, NEW a \in Doc, NEW b \in Doc, NEW v, NEW r \in Rows, NEW y,
         y = WithRow(s, a, r),
         v.ask \notin {"version", "link", "delete", "revoke", "attach"},
         RowEffect(s.rows[a], r, s, v, a, b, a)
  PROVE  Effect(s, y, v, a, b)
<1>1. /\ y.used = s.used /\ y.there = s.there /\ y.link = s.link
      /\ \A x \in Doc : y.rows[x] = IF x = a THEN r ELSE s.rows[x]
  BY OneRow
<1>2. Beside(s, y, v, a)
  BY <1>1 DEF Beside, Gives
<1>3. ASSUME NEW x \in Doc PROVE RowEffect(s.rows[x], y.rows[x], s, v, a, b, x)
  BY <1>1, OtherRow
<1> QED  BY <1>2, <1>3 DEF Effect

LEMMA RowEffects ==
  ASSUME NEW r \in Rows, NEW s, NEW v, NEW a, NEW b
  PROVE  /\ v.ask = "comment" => RowEffect(r, [r EXCEPT !.comments = @ + 1], s, v, a, b, a)
         /\ v.ask = "field" => RowEffect(r, [r EXCEPT !.fields = @ + 1], s, v, a, b, a)
         /\ v.ask = "reviewer" => RowEffect(r, [r EXCEPT !.reviewers = @ + 1], s, v, a, b, a)
         /\ v.ask = "unreview" => RowEffect(r, [r EXCEPT !.reviewers = 0], s, v, a, b, a)
         /\ v.ask = "unversion" => RowEffect(r, [r EXCEPT !.versions = @ \ {v.id}], s, v, a, b, a)
         /\ v.ask = "archive" => RowEffect(r, [r EXCEPT !.archived = TRUE], s, v, a, b, a)
         /\ v.ask = "unarchive" => RowEffect(r, [r EXCEPT !.archived = FALSE], s, v, a, b, a)
         /\ v.ask = "extract" => RowEffect(r, [r EXCEPT !.extract = "pending"], s, v, a, b, a)
         /\ v.ask = "confirm" => RowEffect(r, [r EXCEPT !.extract = "confirmed"], s, v, a, b, a)
<1>1. v.ask = "comment" => RowEffect(r, [r EXCEPT !.comments = @ + 1], s, v, a, b, a)
  BY DEF RowEffect, Rows
<1>2. v.ask = "field" => RowEffect(r, [r EXCEPT !.fields = @ + 1], s, v, a, b, a)
  BY DEF RowEffect, Rows
<1>3. v.ask = "reviewer" => RowEffect(r, [r EXCEPT !.reviewers = @ + 1], s, v, a, b, a)
  BY DEF RowEffect, Rows
<1>4. v.ask = "unreview" => RowEffect(r, [r EXCEPT !.reviewers = 0], s, v, a, b, a)
  BY DEF RowEffect, Rows
<1>5. v.ask = "unversion" => RowEffect(r, [r EXCEPT !.versions = @ \ {v.id}], s, v, a, b, a)
  BY DEF RowEffect, Rows
<1>6. v.ask = "archive" => RowEffect(r, [r EXCEPT !.archived = TRUE], s, v, a, b, a)
  BY DEF RowEffect, Rows
<1>7. v.ask = "unarchive" => RowEffect(r, [r EXCEPT !.archived = FALSE], s, v, a, b, a)
  BY DEF RowEffect, Rows
<1>8. v.ask = "extract" => RowEffect(r, [r EXCEPT !.extract = "pending"], s, v, a, b, a)
  BY DEF RowEffect, Rows
<1>9. v.ask = "confirm" => RowEffect(r, [r EXCEPT !.extract = "confirmed"], s, v, a, b, a)
  BY DEF RowEffect, Rows
<1> QED  BY <1>1, <1>2, <1>3, <1>4, <1>5, <1>6, <1>7, <1>8, <1>9

LEMMA EffectOnRow ==
  ASSUME NEW s \in Services, NEW a \in Doc, NEW b \in Doc, NEW v, NEW y,
         \/ v.ask = "comment" /\ y \in CommentRoute(s, a)
         \/ v.ask = "field" /\ y \in FieldRoute(s, a)
         \/ v.ask = "reviewer" /\ y \in ReviewerRoute(s, a)
         \/ v.ask = "unreview" /\ y \in UnreviewRoute(s, a)
         \/ v.ask = "archive" /\ y \in ArchiveRoute(s, a)
         \/ v.ask = "unarchive" /\ y \in UnarchiveRoute(s, a)
         \/ v.ask = "extract" /\ y \in ExtractRoute(s, a)
         \/ v.ask = "confirm" /\ y \in Confirm(s, a)
  PROVE  Effect(s, y, v, a, b)
<1> DEFINE r == s.rows[a]
           Only(q) == y = WithRow(s, a, q)
<1>r. r \in Rows
  BY RowReplaced
<1>1. CASE v.ask = "comment"
  <2>1. Only([r EXCEPT !.comments = @ + 1])
    BY <1>1, There DEF CommentRoute, WithRow
  <2> QED  BY <1>r, <1>1, <2>1, RowSteps, RowEffects, EffectOfRow
<1>2. CASE v.ask = "field"
  <2>1. Only([r EXCEPT !.fields = @ + 1])
    BY <1>2, There DEF FieldRoute, WithRow
  <2> QED  BY <1>r, <1>2, <2>1, RowSteps, RowEffects, EffectOfRow
<1>3. CASE v.ask = "reviewer"
  <2>1. Only([r EXCEPT !.reviewers = @ + 1])
    BY <1>3, There DEF ReviewerRoute, WithRow
  <2> QED  BY <1>r, <1>3, <2>1, RowSteps, RowEffects, EffectOfRow
<1>4. CASE v.ask = "unreview"
  <2>1. Only([r EXCEPT !.reviewers = 0])
    BY <1>4, There DEF UnreviewRoute, WithRow
  <2> QED  BY <1>r, <1>4, <2>1, RowSteps, RowEffects, EffectOfRow
<1>5. CASE v.ask = "archive"
  <2>1. Only([r EXCEPT !.archived = TRUE])
    BY <1>5, Zenon DEF ArchiveRoute, WithRow
  <2> QED  BY <1>r, <1>5, <2>1, RowSteps, RowEffects, EffectOfRow
<1>6. CASE v.ask = "unarchive"
  <2>1. Only([r EXCEPT !.archived = FALSE])
    BY <1>6, Zenon DEF UnarchiveRoute, WithRow
  <2> QED  BY <1>r, <1>6, <2>1, RowSteps, RowEffects, EffectOfRow
<1>7. CASE v.ask = "extract"
  <2>1. Only([r EXCEPT !.extract = "pending"])
    BY <1>7, Zenon DEF ExtractRoute, WithRow
  <2> QED  BY <1>r, <1>7, <2>1, RowSteps, RowEffects, EffectOfRow
<1>8. CASE v.ask = "confirm"
  <2>1. Only([r EXCEPT !.extract = "confirmed"])
    BY <1>8, Zenon DEF Confirm, WithRow
  <2> QED  BY <1>r, <1>8, <2>1, RowSteps, RowEffects, EffectOfRow
<1> QED  BY <1>1, <1>2, <1>3, <1>4, <1>5, <1>6, <1>7, <1>8

LEMMA EffectOfVersions ==
  ASSUME NEW s \in Services, NEW a \in Doc, NEW b \in Doc, NEW v, v.id \in Nat, NEW y,
         \/ v.ask = "version" /\ y \in VersionRoute(s, a)
         \/ v.ask = "unversion" /\ y \in UnversionRoute(s, a, v.id)
  PROVE  Effect(s, y, v, a, b)
<1> DEFINE r == s.rows[a]
<1>r. r \in Rows
  BY RowReplaced
<1>1. CASE v.ask = "unversion"
  <2>1. y = WithRow(s, a, [r EXCEPT !.versions = @ \ {v.id}])
    BY <1>1, There DEF UnversionRoute, WithRow
  <2> QED  BY <1>r, <1>1, <2>1, RowVersions, RowEffects, EffectOfRow
<1>2. CASE v.ask = "version" /\ a \in Versioned
  <2> DEFINE n == s.used + 1
             q == [r EXCEPT !.versions = @ \cup {n}]
             z == WithRow(s, a, q)
  <2>1. s.used \in Nat
    BY RecordsAssumption DEF Services
  <2>2. n \in Nat /\ n \in Ids
    <3>1. y \in VersionRoute(s, a) /\ a \in Versioned
      BY <1>2
    <3>2. s.used + 1 \in Ids
      BY <3>1, Recording
    <3> QED  BY <2>1, <3>2
  <2>3. q \in Rows
    BY <1>r, <2>2, RowVersions
  <2>4. y = [z EXCEPT !.used = n]
    BY <1>2, Recording DEF WithRow
  <2>5. RowEffect(r, q, s, v, a, b, a)
    BY <1>r, <1>2 DEF RowEffect, Rows
  <2>6. z \in Services
    BY <2>3, RowReplaced DEF WithRow
  <2> HIDE DEF q
  <2>7. /\ z.there = s.there /\ z.link = s.link
        /\ \A x \in Doc : z.rows[x] = IF x = a THEN q ELSE s.rows[x]
    BY <2>3, OneRow
  <2> HIDE DEF z
  <2>8. y.used = n /\ y.there = s.there /\ y.link = s.link /\ y.rows = z.rows
    BY <2>4, <2>6, <2>7 DEF Services
  <2>9. Beside(s, y, v, a)
    BY <1>2, <2>8 DEF Beside, Gives
  <2>10. ASSUME NEW x \in Doc PROVE RowEffect(s.rows[x], y.rows[x], s, v, a, b, x)
    BY <1>2, <2>5, <2>7, <2>8, OtherRow
  <2> QED  BY <2>9, <2>10 DEF Effect
<1>3. CASE v.ask = "version" /\ a \notin Versioned
  <2>1. y = s
    BY <1>3, There DEF VersionRoute
  <2>2. Beside(s, y, v, a)
    BY <1>3, <2>1 DEF Beside, Gives
  <2>3. ASSUME NEW x \in Doc PROVE RowEffect(s.rows[x], y.rows[x], s, v, a, b, x)
    BY <1>3, <2>1 DEF RowEffect
  <2> QED  BY <2>2, <2>3 DEF Effect
<1> QED  BY <1>1, <1>2, <1>3

LEMMA EffectOfFamily ==
  ASSUME NEW s \in Services, NEW a \in Doc, NEW b \in Doc, NEW v, NEW y,
         \/ v.ask = "attach" /\ y \in AttachRoute(s, a, b)
         \/ v.ask = "detach" /\ y \in DetachRoute(s, a, b)
  PROVE  Effect(s, y, v, a, b)
<1> DEFINE r == s.rows[a]
<1>r. r \in Rows /\ r.child \in [Doc -> Nat]
  BY RowReplaced DEF Rows
<1>1. CASE v.ask = "detach"
  <2> DEFINE f == [r.child EXCEPT ![b] = 0]
             q == [r EXCEPT !.child = f]
  <2>1. y = WithRow(s, a, q)
    BY <1>1, There DEF DetachRoute, WithRow
  <2>2. q \in Rows
    BY <1>r, RowFamily, Zenon
  <2>3. \A x \in Doc : f[x] = IF x = b THEN 0 ELSE r.child[x]
    BY <1>r
  <2> HIDE DEF f
  <2>4. /\ q.child = f /\ q.reviewers = r.reviewers /\ q.versions = r.versions
        /\ q.extract = r.extract /\ q.parent = r.parent
    BY <1>r DEF Rows
  <2>5. q.archived = r.archived
    BY <1>r DEF Rows
  <2> HIDE DEF q
  <2>6. RowEffect(r, q, s, v, a, b, a)
    BY <1>1, <2>3, <2>4, <2>5 DEF RowEffect
  <2> QED  BY <1>1, <2>1, <2>2, <2>6, EffectOfRow
<1>2. CASE v.ask = "attach"
  <2> DEFINE f == [r.child EXCEPT ![b] = @ + 1]
             q == [r EXCEPT !.child = f]
             z == WithRow(s, a, q)
             p == IF b \in s.there THEN {a} ELSE s.rows[b].parent
             g == [z.rows[b] EXCEPT !.parent = p]
  <2>1. y = WithRow(z, b, g)
    BY <1>2, There DEF AttachRoute, WithRow
  <2>2. q \in Rows
    BY <1>r, RowFamily, Zenon
  <2>3. \A x \in Doc : f[x] = IF x = b THEN r.child[x] + 1 ELSE r.child[x]
    BY <1>r
  <2> HIDE DEF f
  <2>4. /\ q.child = f /\ q.reviewers = r.reviewers /\ q.versions = r.versions
        /\ q.extract = r.extract /\ q.parent = r.parent
    BY <1>r DEF Rows
  <2>5. q.archived = r.archived
    BY <1>r DEF Rows
  <2>6. z \in Services
    BY <2>2, RowReplaced DEF WithRow
  <2> HIDE DEF q
  <2>7. /\ z.used = s.used /\ z.there = s.there /\ z.link = s.link
        /\ \A x \in Doc : z.rows[x] = IF x = a THEN q ELSE s.rows[x]
    BY <2>2, OneRow
  <2>8. p \in SUBSET Doc /\ z.rows[b] \in Rows
    BY <2>6, RowReplaced DEF Rows
  <2> HIDE DEF z, p
  <2>9. /\ g \in Rows /\ g.parent = p /\ g.child = z.rows[b].child
        /\ g.reviewers = z.rows[b].reviewers /\ g.versions = z.rows[b].versions
        /\ g.extract = z.rows[b].extract
    BY <2>8, RowFamily DEF Rows
  <2>10. g.archived = z.rows[b].archived
    BY <2>8 DEF Rows
  <2> HIDE DEF g
  <2>11. /\ y.used = z.used /\ y.there = z.there /\ y.link = z.link
         /\ \A x \in Doc : y.rows[x] = IF x = b THEN g ELSE z.rows[x]
    BY <2>1, <2>6, <2>9, OneRow
  <2>12. Beside(s, y, v, a)
    BY <1>2, <2>7, <2>11 DEF Beside, Gives
  <2>13. RowEffect(s.rows[b], g, s, v, a, b, b)
    BY <1>2, <2>3, <2>4, <2>5, <2>7, <2>9, <2>10 DEF RowEffect, p
  <2>14. a # b => RowEffect(r, q, s, v, a, b, a)
    BY <1>2, <2>3, <2>4, <2>5 DEF RowEffect
  <2>15. ASSUME NEW x \in Doc PROVE RowEffect(s.rows[x], y.rows[x], s, v, a, b, x)
    BY <2>7, <2>11, <2>13, <2>14, OtherRow
  <2> QED  BY <2>12, <2>15 DEF Effect
<1> QED  BY <1>1, <1>2

LEMMA EffectOfLinks ==
  ASSUME NEW s \in Services, NEW a \in Doc, NEW b \in Doc, NEW v, v.id \in Nat, NEW y,
         \/ v.ask = "link" /\ y \in LinkRoute(s, a)
         \/ v.ask = "relink" /\ y \in RelinkRoute(s, v.id)
         \/ v.ask = "revoke" /\ y \in RevokeRoute(s, v.id)
         \/ v.ask = "delete" /\ y \in DeleteRoute(s, a)
  PROVE  Effect(s, y, v, a, b)
<1>0. \A x \in Doc : v.ask \in {"link", "relink", "revoke", "delete"} =>
         RowEffect(s.rows[x], s.rows[x], s, v, a, b, x)
  BY DEF RowEffect
<1>1. CASE v.ask = "relink"
  <2>1. y = s
    BY <1>1, Zenon DEF RelinkRoute
  <2> QED  BY <1>0, <1>1, <2>1 DEF Effect, Beside, Gives
<1>2. CASE v.ask = "revoke"
  <2>1. y = [s EXCEPT !.link = [s.link EXCEPT ![v.id] = "revoked"]]
    BY <1>2, Zenon DEF RevokeRoute
  <2>2. y.used = s.used /\ y.there = s.there /\ y.rows = s.rows
    BY <2>1 DEF Services
  <2>3. \A l \in Ids : y.link[l] = IF l = v.id THEN "revoked" ELSE s.link[l]
    BY <2>1 DEF Services
  <2> QED  BY <1>0, <1>2, <2>2, <2>3 DEF Effect, Beside, Gives
<1>3. CASE v.ask = "delete"
  <2>1. y = [s EXCEPT !.there = @ \ {a}]
    BY <1>3, There DEF DeleteRoute
  <2>2. y.used = s.used /\ y.there = s.there \ {a} /\ y.rows = s.rows /\ y.link = s.link
    BY <2>1 DEF Services
  <2> QED  BY <1>0, <1>3, <2>2 DEF Effect, Beside, Gives
<1>4. CASE v.ask = "link"
  <2> DEFINE n == s.used + 1
             u == [s EXCEPT !.link = [s.link EXCEPT ![n] = "active"]]
             q == [u.rows[a] EXCEPT !.link = n]
             z == WithRow(u, a, q)
  <2>1. s.used # MaxIds
        /\ y = [s EXCEPT !.link[n] = "active", !.rows[a].link = n, !.used = @ + 1]
    BY <1>4, Zenon DEF LinkRoute
  <2>2. n \in Nat /\ n \in Ids
    BY <2>1, RecordsAssumption DEF Services, Ids
  <2>3. y = [z EXCEPT !.used = n]
    BY <2>1 DEF WithRow
  <2>4. u \in Services
    BY <2>2, Shown
  <2>5. u.there = s.there /\ u.rows = s.rows
    BY DEF Services
  <2>6. \A l \in Ids : u.link[l] = IF l = n THEN "active" ELSE s.link[l]
    BY DEF Services
  <2> HIDE DEF u
  <2>7. q \in Rows /\ u.rows[a] \in Rows
    BY <2>2, <2>4, RowReplaced, RowVersions
  <2>8. RowEffect(s.rows[a], q, s, v, a, b, a)
    BY <1>4, <2>5, <2>7 DEF RowEffect, Rows
  <2>9. z \in Services
    BY <2>4, <2>7, RowReplaced DEF WithRow
  <2> HIDE DEF q
  <2>10. /\ z.there = u.there /\ z.link = u.link
         /\ \A x \in Doc : z.rows[x] = IF x = a THEN q ELSE u.rows[x]
    BY <2>4, <2>7, OneRow
  <2> HIDE DEF z
  <2>11. y.used = n /\ y.there = z.there /\ y.link = z.link /\ y.rows = z.rows
    BY <2>3, <2>9 DEF Services
  <2>12. Beside(s, y, v, a)
    BY <1>4, <2>5, <2>6, <2>10, <2>11 DEF Beside, Gives
  <2>13. ASSUME NEW x \in Doc PROVE RowEffect(s.rows[x], y.rows[x], s, v, a, b, x)
    BY <1>0, <1>4, <2>5, <2>8, <2>10, <2>11
  <2> QED  BY <2>12, <2>13 DEF Effect
<1> QED  BY <1>1, <1>2, <1>3, <1>4

\* Whatever a call asks for: what its request does to the service.
LEMMA Effects ==
  ASSUME svc \in Services, NEW v \in Calls, v.ask \notin Reads, NEW a \in Doc, NEW b \in Doc,
         v.on = {a}, v.other = {b}, NEW y \in Outcomes(v)
  PROVE  Effect(svc, y, v, a, b)
<1>1. y \in Write(v, svc, a, b)
  BY DEF Outcomes
<1>2. v.id \in Nat /\ v.ask \in Tools \ Reads
  BY RecordsAssumption DEF Calls
<1>3. CASE v.ask \in {"comment", "field", "reviewer", "unreview"}
  BY <1>1, <1>3, EffectOnRow DEF Write
<1>4. CASE v.ask \in {"archive", "unarchive", "extract", "confirm"}
  BY <1>1, <1>4, EffectOnRow DEF Write
<1>5. CASE v.ask \in {"version", "unversion"}
  BY <1>1, <1>2, <1>5, EffectOfVersions DEF Write
<1>6. CASE v.ask \in {"attach", "detach"}
  BY <1>1, <1>6, EffectOfFamily DEF Write
<1>7. CASE v.ask \in {"link", "relink", "revoke", "delete"}
  BY <1>1, <1>2, <1>7, EffectOfLinks DEF Write
<1> QED  BY <1>2, <1>3, <1>4, <1>5, <1>6, <1>7 DEF Tools, Reads

-----------------------------------------------------------------------------
(* What stands, stands whatever another call does that does not undo it. *)

\* The documents that w is about.
About(w, d, e) == /\ d \in Doc /\ e \in Doc /\ w.on = {d} /\ w.other = {e}
                  /\ w.ask \notin {"attach", "detach"} => e = d

LEMMA NoSelf == ASSUME NEW w PROVE ~Undoes(w, w)
BY DEF Undoes, Opposed

LEMMA GivenIds == ASSUME NEW s \in Services, NEW i \in 1 .. s.used PROVE i \in Ids /\ i # s.used + 1
<1>1. s.used \in 0 .. MaxIds
  BY DEF Services
<1> QED  BY <1>1, RecordsAssumption DEF Ids

LEMMA KeptStays ==
  ASSUME NEW s \in Services, NEW y \in Services, NEW v \in Calls, NEW w \in Calls,
         Shape(s, v), Shape(s, w), Settled(w),
         NEW a, NEW b, About(v, a, b), NEW d, NEW e, About(w, d, e),
         Effect(s, y, v, a, b), ~Undoes(v, w), Kept(s, w, d, e)
  PROVE  Kept(y, w, d, e)
<1> USE DEF About
<1>0. /\ s.used \in Nat /\ s.rows[d] \in Rows /\ y.rows[d] \in Rows
      /\ s.rows[d].reviewers \in Nat /\ s.rows[d].child[e] \in Nat
      /\ (d = a <=> v.on = w.on) /\ (e = b <=> v.other = w.other)
  <2>1. s.used \in Nat /\ s.rows[d] \in Rows /\ y.rows[d] \in Rows
    BY RecordsAssumption, RowReplaced DEF Services
  <2>2. s.rows[d].reviewers \in Nat /\ s.rows[d].child[e] \in Nat
    BY <2>1 DEF Rows
  <2>3. (d = a <=> v.on = w.on) /\ (e = b <=> v.other = w.other)
    OBVIOUS
  <2> QED  BY <2>1, <2>2, <2>3
<1>1. RowEffect(s.rows[d], y.rows[d], s, v, a, b, d) /\ RowEffect(s.rows[e], y.rows[e], s, v, a, b, e)
      /\ Beside(s, y, v, a)
  BY DEF Effect
<1>2. CASE w.ask = "reviewer"
  <2>1. ~(v.ask = "unreview" /\ d = a)
    BY <1>0, <1>2 DEF Undoes, Opposed
  <2> QED  BY <1>0, <1>1, <1>2, <2>1 DEF Kept, RowEffect
<1>3. CASE w.ask = "unreview"
  <2>1. ~(v.ask = "reviewer" /\ d = a)
    BY <1>0, <1>3 DEF Undoes, Opposed
  <2> QED  BY <1>0, <1>1, <1>3, <2>1 DEF Kept, RowEffect
<1>4. CASE w.ask = "version"
  <2>1. d \in Versioned => ~(v.ask = "unversion" /\ v.id = w.id)
    BY <1>4 DEF Undoes, Shape, Gives
  <2> QED  BY <1>1, <1>4, <2>1 DEF Kept, RowEffect
<1>5. CASE w.ask = "unversion"
  <2>1. w.id # s.used + 1
    BY <1>0, <1>5 DEF Shape
  <2> QED  BY <1>1, <1>5, <2>1 DEF Kept, RowEffect
<1>6. CASE w.ask = "attach"
  <2>1. ~(v.ask = "detach" /\ d = a /\ e = b) /\ (v.ask = "attach" /\ e = b => d = a)
    BY <1>0, <1>6 DEF Undoes, Opposed
  <2>2. y.rows[d].child[e] > 0
    BY <1>0, <1>1, <1>6, <2>1 DEF Kept, RowEffect
  <2>3. e \in y.there => y.rows[e].parent = {d}
    BY <1>0, <1>1, <1>6, <2>1 DEF Kept, RowEffect, Beside
  <2> QED  BY <1>6, <2>2, <2>3 DEF Kept
<1>7. CASE w.ask = "detach"
  <2>1. ~(v.ask = "attach" /\ d = a /\ e = b)
    BY <1>0, <1>7 DEF Undoes, Opposed
  <2> QED  BY <1>0, <1>1, <1>7, <2>1 DEF Kept, RowEffect
<1>8. CASE w.ask = "link"
  <2>1. ~(v.ask = "revoke" /\ v.id = w.id) /\ w.id \in Ids
    BY <1>8 DEF Undoes, Shape, Calls, Gives
  <2> QED  BY <1>1, <1>8, <2>1 DEF Kept, Beside
<1>9. CASE w.ask = "revoke"
  <2>1. w.id # s.used + 1 /\ w.id \in Ids
    BY <1>0, <1>9, GivenIds DEF Shape
  <2> QED  BY <1>1, <1>9, <2>1 DEF Kept, Beside
<1>10. CASE w.ask = "archive"
  <2>1. ~(v.ask = "unarchive" /\ d = a)
    BY <1>0, <1>10 DEF Undoes, Opposed
  <2> QED  BY <1>1, <1>10, <2>1 DEF Kept, RowEffect
<1>11. CASE w.ask = "unarchive"
  <2>1. ~(v.ask = "archive" /\ d = a)
    BY <1>0, <1>11 DEF Undoes, Opposed
  <2> QED  BY <1>1, <1>11, <2>1 DEF Kept, RowEffect
<1>12. CASE w.ask = "extract"
  <2>1. ~(v.ask = "confirm" /\ d = a)
    BY <1>0, <1>12 DEF Undoes, Opposed
  <2> QED  BY <1>1, <1>12, <2>1 DEF Kept, RowEffect
<1>13. CASE w.ask = "confirm"
  <2>1. ~(v.ask = "extract" /\ d = a)
    BY <1>0, <1>13 DEF Undoes, Opposed
  <2> QED  BY <1>1, <1>13, <2>1 DEF Kept, RowEffect
<1>14. CASE w.ask = "delete"
  BY <1>1, <1>14 DEF Kept, Beside
<1> QED
  BY <1>2, <1>3, <1>4, <1>5, <1>6, <1>7, <1>8, <1>9, <1>10, <1>11, <1>12, <1>13, <1>14 DEF Kept

\* A call that took effect rests on what it did.
LEMMA KeptNow ==
  ASSUME NEW s \in Services, NEW y \in Services, NEW w \in Calls, NEW v \in Calls,
         w.ask \notin Reads, Shape(s, w), NEW a, NEW b, About(w, a, b), Effect(s, y, w, a, b),
         v.ask = w.ask, v.seen = {}, v.id = IF y.used > s.used THEN y.used ELSE w.id
  PROVE  Kept(y, v, a, b)
<1> USE DEF About
<1>0. s.used \in Nat /\ s.rows[a] \in Rows /\ s.rows[a].reviewers \in Nat /\ s.rows[a].child[b] \in Nat
  <2>1. s.used \in Nat /\ s.rows[a] \in Rows
    BY RecordsAssumption, RowReplaced DEF Services
  <2> QED  BY <2>1 DEF Rows
<1>1. RowEffect(s.rows[a], y.rows[a], s, w, a, b, a) /\ RowEffect(s.rows[b], y.rows[b], s, w, a, b, b)
      /\ Beside(s, y, w, a)
  BY DEF Effect
<1>2. Gives(w, a) => v.id = s.used + 1 /\ v.id \in Ids
  <2>1. Gives(w, a) => y.used = s.used + 1
    BY <1>1 DEF Beside
  <2>2. y.used \in 0 .. MaxIds
    BY DEF Services
  <2> QED  BY <1>0, <2>1, <2>2, RecordsAssumption DEF Ids
<1>3. w.ask \in {"unversion", "revoke"} => v.id = w.id /\ v.id \in Ids
  <2>1. w.ask \in {"unversion", "revoke"} => y.used = s.used
    BY <1>1 DEF Beside, Gives
  <2> QED  BY <1>0, <2>1, GivenIds DEF Shape
<1>4. /\ v.ask = "reviewer" => y.rows[a].reviewers > 0
      /\ v.ask = "unreview" => y.rows[a].reviewers = 0
      /\ v.ask = "attach" => y.rows[a].child[b] > 0
      /\ v.ask = "detach" => y.rows[a].child[b] = 0
  BY <1>0, <1>1 DEF RowEffect
<1>5. v.ask = "attach" => (b \in y.there => y.rows[b].parent = {a})
  BY <1>1 DEF RowEffect, Beside
<1>6. /\ v.ask = "version" /\ a \in Versioned => v.id \in y.rows[a].versions /\ "none" \notin v.seen
      /\ v.ask = "unversion" => v.id \notin y.rows[a].versions
  BY <1>1, <1>2, <1>3 DEF RowEffect, Gives
<1>7. /\ v.ask = "link" => y.link[v.id] = "active"
      /\ v.ask = "revoke" => y.link[v.id] = "revoked"
      /\ v.ask = "delete" => a \notin y.there
  BY <1>1, <1>2, <1>3 DEF Beside, Gives
<1>8. /\ v.ask = "archive" => y.rows[a].archived
      /\ v.ask = "unarchive" => ~y.rows[a].archived
  BY <1>1 DEF RowEffect
<1>9. /\ v.ask = "extract" => y.rows[a].extract = "pending"
      /\ v.ask = "confirm" => y.rows[a].extract = "confirmed"
  BY <1>1 DEF RowEffect
<1> QED  BY <1>4, <1>5, <1>6, <1>7, <1>8, <1>9 DEF Kept

\* A request of one call leaves every other call standing that is not contested, and
\* itself.
LEMMA OthersStand ==
  ASSUME SInv, NEW c \in Call, Underway(call[c]), call[c].ask \notin Reads,
         NEW y \in Outcomes(call[c]), NEW x \in Call
  PROVE  Standing(y, call[x])
<1> DEFINE v == call[c]
           w == call[x]
<1>1. v \in Calls /\ w \in Calls /\ svc \in Services /\ Shape(svc, v) /\ Shape(svc, w) /\ Standing(svc, w)
  BY DEF SInv, IInv, TypeOK
<1>2. y \in Services
  BY <1>1, OutcomesTyped
<1>3. PICK a \in Doc, b \in Doc : About(v, a, b)
  BY <1>1 DEF Shape, Underway, About
<1>4. Effect(svc, y, v, a, b)
  BY <1>1, <1>3, Effects DEF About
<1> SUFFICES ASSUME ~w.contested, NEW d \in w.on, NEW e \in w.other
             PROVE  /\ Settled(w) => Kept(y, w, d, e)
                    /\ w.ask = "reviews" /\ w.pc = "asked" => w.seen \subseteq {Known(y.rows[d].reviewers)}
                    /\ w.ask = "reviews" => \A p, q \in w.seen : p = q
  BY DEF Standing
<1>5. ~Undoes(v, w)
  BY NoSelf DEF SInv, Contest
<1>6. CASE w.pc = "new"
  BY <1>1, <1>6 DEF Shape, Settled
<1>7. CASE w.pc # "new"
  <2>1. About(w, d, e)
    BY <1>1, <1>7 DEF Shape, About
  <2>2. Settled(w) => Kept(y, w, d, e)
    BY <1>1, <1>2, <1>3, <1>4, <1>5, <2>1, KeptStays DEF Standing
  <2>3. w.ask = "reviews" => y.rows[d].reviewers = svc.rows[d].reviewers
    <3>1. w.ask = "reviews" => ~(v.ask \in {"reviewer", "unreview"} /\ d = a)
      BY <1>3, <1>5, <2>1 DEF Undoes, Opposed, About
    <3>2. RowEffect(svc.rows[d], y.rows[d], svc, v, a, b, d)
      BY <1>4, <2>1 DEF Effect, About
    <3> QED  BY <3>1, <3>2 DEF RowEffect
  <2> QED  BY <1>1, <2>2, <2>3 DEF Standing
<1> QED  BY <1>6, <1>7

-----------------------------------------------------------------------------
(* Steps of one call. *)

\* v is the call w, later.
Follows(v, w) ==
    /\ v.ask = w.ask /\ v.on = w.on /\ v.other = w.other /\ v.contested = w.contested
    /\ v.pc # "new" /\ w.pc # "new"
    /\ Underway(v) => Underway(w)

\* A call that has nothing new to answer for stands as it did.
LEMMA StandsOn ==
  ASSUME NEW s, NEW w, NEW v, Standing(s, w), Follows(v, w), v.seen = w.seen, v.id = w.id,
         Settled(v) => Settled(w) \/ w.ask \in Reads, v.pc = "asked" => w.pc = "asked"
  PROVE  Standing(s, v)
<1>1. \A d, e : Kept(s, w, d, e) => Kept(s, v, d, e)
  BY DEF Kept, Follows
<1>2. w.ask \in Reads => \A d, e : Kept(s, v, d, e)
  BY DEF Kept, Follows, Reads
<1> QED  BY <1>1, <1>2 DEF Standing, Follows

\* The steps of a call, with the service going on from svc: it follows itself, and
\* what it was given is new.
LEMMA Moved ==
  ASSUME SInv, IInv', NEW c \in Call, NEW v, call' = [call EXCEPT ![c] = v], Follows(v, call[c]),
         svc'.used >= svc.used, \A i \in v.ids : i \in call[c].ids \/ i > svc.used,
         v.ask \in {"unversion", "revoke"} => v.id = call[c].id,
         Shape(svc', v), Standing(svc', v), \A x \in Call \ {c} : Standing(svc', call[x]),
         Bare(svc)'
  PROVE  SInv'
<1>1. call'[c] = v /\ \A x \in Call \ {c} : call'[x] = call[x]
  BY DEF SInv, IInv, TypeOK
<1>2. svc.used \in Nat /\ svc'.used \in Nat
  BY RecordsAssumption DEF SInv, IInv, TypeOK, Services
<1>3. ASSUME NEW x \in Call PROVE Shape(svc', call'[x]) /\ Standing(svc', call'[x])
  <2>1. CASE x = c
    BY <1>1, <2>1
  <2>2. CASE x # c
    <3>1. Shape(svc, call[x])
      BY DEF SInv
    <3>2. 1 .. svc.used \subseteq 1 .. svc'.used
      BY <1>2
    <3>3. Shape(svc', call[x])
      BY <3>1, <3>2 DEF Shape
    <3> QED  BY <1>1, <2>2, <3>3
  <2> QED  BY <2>1, <2>2
<1>4. ASSUME NEW x \in Call, NEW b \in Call, Underway(call'[b]), Undoes(call'[b], call'[x])
      PROVE  call'[x].contested
  <2>1. Underway(call[b]) /\ call'[x].contested = call[x].contested
    BY <1>1, <1>4 DEF Follows
  <2>2. Contest(call[b], call[x]) /\ Shape(svc, call[b])
    BY DEF SInv
  <2>3. /\ call'[b].ask = call[b].ask /\ call'[b].on = call[b].on /\ call'[b].other = call[b].other
        /\ call'[x].ask = call[x].ask /\ call'[x].on = call[x].on /\ call'[x].other = call[x].other
    BY <1>1 DEF Follows
  <2>4. call[b].ask \in {"unversion", "revoke"} => call'[b].id = call[b].id /\ ~(call[b].id > svc.used)
    BY <1>1, <1>2, <2>2, <2>3 DEF Shape
  <2>5. \A i \in call'[x].ids : i \in call[x].ids \/ i > svc.used
    BY <1>1
  <2>6. Undoes(call[b], call[x])
    BY <1>4, <2>3, <2>4, <2>5 DEF Undoes
  <2> QED  BY <2>1, <2>2, <2>6 DEF Contest
<1> QED  BY <1>3, <1>4 DEF SInv, Contest

\* What a call keeps when it goes on or ends.
Goes(v, w) == /\ v.ask = w.ask /\ v.on = w.on /\ v.other = w.other /\ v.contested = w.contested
              /\ v.late = w.late /\ v.seen = w.seen /\ v.ids = w.ids /\ v.id = w.id

LEMMA OnwardGoes ==
  ASSUME NEW w \in Calls, w.pc = "asked"
  PROVE  /\ Goes(Onward(w), w)
         /\ \/ Onward(w).pc = "asked" /\ Onward(w).step > 1 /\ w.ask \in {"version", "reviews"}
            \/ Onward(w).pc = "ok"
<1>1. CASE w.step < Requests(w.ask)
  <2>1. Onward(w) = [w EXCEPT !.step = @ + 1, !.tries = 1]
    BY <1>1 DEF Onward
  <2>2. Goes(Onward(w), w) /\ Onward(w).step = w.step + 1 /\ Onward(w).pc = "asked"
    BY <2>1 DEF Goes, Calls
  <2>3. w.step \in 1 .. 3
    BY DEF Calls
  <2> QED  BY <1>1, <2>2, <2>3 DEF Requests
<1>2. CASE ~(w.step < Requests(w.ask))
  <2>1. Onward(w) = [w EXCEPT !.pc = "ok", !.tries = 0]
    BY <1>2 DEF Onward
  <2>2. Goes(Onward(w), w) /\ Onward(w).pc = "ok"
    BY <2>1 DEF Goes, Calls
  <2> QED  BY <2>2
<1> QED  BY <1>1, <1>2

LEMMA FailedGoes ==
  ASSUME NEW w \in Calls, w.pc = "asked", NEW v \in {Failed(w), OneMore(w)}
  PROVE  /\ Goes(v, w) /\ v.pc \in {"asked", "ok", "error"}
         /\ Settled(v) => Settled(w) \/ w.ask \in Reads
         /\ w.ask \notin Reads /\ w.step = 1 => v.step = 1 /\ v.pc # "ok"
<1>1. ASSUME v = Failed(w)
      PROVE  /\ Goes(v, w) /\ v.pc \in {"asked", "ok", "error"}
             /\ Settled(v) => Settled(w) \/ w.ask \in Reads
             /\ w.ask \notin Reads /\ w.step = 1 => v.step = 1 /\ v.pc # "ok"
  <2>1. CASE w.ask = "reviews" \/ w.step = 2
    <3>1. v = Onward(w)
      BY <1>1, <2>1 DEF Failed
    <3> QED  BY <2>1, <3>1, OnwardGoes DEF Settled, Reads
  <2>2. CASE ~(w.ask = "reviews" \/ w.step = 2)
    <3>1. v = [w EXCEPT !.pc = "error", !.tries = 0]
      BY <1>1, <2>2 DEF Failed
    <3>2. Goes(v, w) /\ v.pc = "error" /\ v.step = w.step
      BY <3>1 DEF Goes, Calls
    <3> QED  BY <3>2 DEF Settled
  <2> QED  BY <2>1, <2>2
<1>2. ASSUME v # Failed(w)
      PROVE  /\ Goes(v, w) /\ v.pc \in {"asked", "ok", "error"}
             /\ Settled(v) => Settled(w) \/ w.ask \in Reads
             /\ w.ask \notin Reads /\ w.step = 1 => v.step = 1 /\ v.pc # "ok"
  <2>1. v = [w EXCEPT !.tries = @ + 1]
    BY <1>2 DEF OneMore
  <2>2. Goes(v, w) /\ v.pc = w.pc /\ v.step = w.step
    BY <2>1 DEF Goes, Calls
  <2> QED  BY <2>2 DEF Settled
<1> QED  BY <1>1, <1>2

\* A step that leaves the service alone and gives the call nothing to answer for.
LEMMA QuietStep ==
  ASSUME SInv, IInv', NEW c \in Call, call[c].pc # "new", UNCHANGED svc,
         NEW v, call' = [call EXCEPT ![c] = v], Follows(v, call[c]),
         v.seen = call[c].seen, v.id = call[c].id, v.ids = call[c].ids,
         Settled(v) => Settled(call[c]) \/ call[c].ask \in Reads, v.pc = "asked" => call[c].pc = "asked",
         v.ask \notin Reads /\ v.step = 1 => call[c].step = 1
  PROVE  SInv'
<1>1. Shape(svc, call[c]) /\ Standing(svc, call[c])
  BY DEF SInv
<1>2. Standing(svc, v)
  BY <1>1, StandsOn
<1>3. Shape(svc, v)
  <2>1. ASSUME NEW d \in v.on, Gives(v, d), Settled(v) PROVE v.id \in v.ids
    <3>1. d \in call[c].on /\ Gives(call[c], d) /\ call[c].ask \notin Reads
      BY <2>1 DEF Follows, Gives, Reads
    <3> QED  BY <1>1, <2>1, <3>1 DEF Shape
  <2> QED  BY <1>1, <2>1 DEF Shape, Follows, Reads
<1>4. svc'.used >= svc.used
  BY RecordsAssumption DEF SInv, IInv, TypeOK, Services
<1>5. Bare(svc)'
  BY DEF SInv, Bare
<1> QED  BY <1>2, <1>3, <1>4, <1>5, Moved DEF SInv, Follows

\* A call never goes back.
LEMMA NeverBack ==
  ASSUME NEW w \in Calls
  PROVE  Onward(w).step >= w.step /\ \A v \in {Failed(w), OneMore(w)} : v.step >= w.step
<1>s. w.step \in 1 .. 3
  BY DEF Calls
<1>1. Onward(w).step >= w.step
  <2>1. CASE w.step < Requests(w.ask)
    <3>1. Onward(w).step = w.step + 1
      BY <2>1 DEF Onward, Calls
    <3> QED  BY <1>s, <3>1
  <2>2. CASE ~(w.step < Requests(w.ask))
    <3>1. Onward(w).step = w.step
      BY <2>2 DEF Onward, Calls
    <3> QED  BY <1>s, <3>1
  <2> QED  BY <2>1, <2>2
<1>2. Failed(w).step >= w.step
  <2>1. [w EXCEPT !.pc = "error", !.tries = 0].step = w.step
    BY DEF Calls
  <2> QED  BY <1>s, <1>1, <2>1 DEF Failed
<1>3. OneMore(w).step >= w.step
  <2>1. [w EXCEPT !.tries = @ + 1].step = w.step
    BY DEF Calls
  <2> QED  BY <1>s, <1>2, <2>1 DEF OneMore
<1> QED  BY <1>1, <1>2, <1>3

LEMMA RefuseStands ==
  ASSUME SInv, NEW c \in Call, Refuse(c) \/ Drop(c)
  PROVE  SInv'
<1> DEFINE w == call[c]
<1>1. w \in Calls /\ w.pc = "asked" /\ svc' = svc
  BY DEF SInv, IInv, TypeOK, Refuse, Drop
<1>2. PICK v \in {Failed(w), OneMore(w)} : call' = [call EXCEPT ![c] = v]
  BY DEF Refuse, Drop
<1>3. IInv'
  BY RefuseGood DEF SInv
<1>4. /\ Goes(v, w) /\ v.pc \in {"asked", "ok", "error"}
      /\ Settled(v) => Settled(w) \/ w.ask \in Reads
  BY <1>1, FailedGoes
<1>5. v.step >= w.step /\ v.step \in 1 .. 3 /\ w.step \in 1 .. 3
  BY <1>1, NeverBack, FailedTyped DEF Calls
<1>6. Follows(v, w)
  BY <1>1, <1>4 DEF Follows, Goes, Underway
<1>7. v.step = 1 => w.step = 1
  BY <1>5
<1> QED  BY <1>1, <1>2, <1>3, <1>4, <1>6, <1>7, QuietStep DEF Goes

LEMMA DelayStands ==
  ASSUME SInv, NEW c \in Call, Delay(c)
  PROVE  SInv'
<1> DEFINE w == call[c]
<1>1. w \in Calls /\ w.pc = "asked" /\ w.ask \notin Reads /\ w.step = 1 /\ svc' = svc
  BY DEF SInv, IInv, TypeOK, Delay, Writing
<1>2. PICK v \in {OneMore(w), Failed(w)} :
          call' = [call EXCEPT ![c] = [v EXCEPT !.late = @ + 1, !.blind = @ + 1]]
  BY DEF Delay
<1>3. IInv'
  BY DelayGood DEF SInv
<1>4. Goes(v, w) /\ v.pc \in {"asked", "ok", "error"} /\ v.step = 1 /\ v.pc # "ok" /\ v \in Calls
  BY <1>1, FailedGoes, FailedTyped
<1> DEFINE u == [v EXCEPT !.late = v.late + 1, !.blind = v.blind + 1]
<1>5. /\ u.ask = v.ask /\ u.on = v.on /\ u.other = v.other /\ u.contested = v.contested /\ u.pc = v.pc
      /\ u.seen = v.seen /\ u.id = v.id /\ u.ids = v.ids /\ u.step = v.step
  BY <1>4 DEF Calls
<1>6. call' = [call EXCEPT ![c] = u]
  BY <1>2
<1> HIDE DEF u
<1>7. Follows(u, w) /\ ~Settled(u)
  BY <1>1, <1>4, <1>5 DEF Follows, Goes, Underway, Settled
<1> QED  BY <1>1, <1>3, <1>4, <1>5, <1>6, <1>7, QuietStep DEF Goes

\* The answer to a read of what the call made is that it is there.
LEMMA SomeVersion ==
  ASSUME NEW s \in Services, NEW d \in Doc, s.rows[d].versions # {}
  PROVE  Known(Cardinality(s.rows[d].versions)) = "some"
<1>1. s.rows[d].versions \subseteq 1 .. MaxIds
  BY RowReplaced DEF Rows, Ids
<1>2. IsFiniteSet(1 .. MaxIds)
  BY RecordsAssumption, FS_Interval
<1>3. IsFiniteSet(s.rows[d].versions)
  BY <1>1, <1>2, FS_Subset
<1> QED  BY <1>3, FS_EmptySet DEF Known

LEMMA LookStands ==
  ASSUME SInv, NEW c \in Call, Look(c)
  PROVE  SInv'
<1> DEFINE w == call[c]
<1>1. /\ w \in Calls /\ w.pc = "asked" /\ svc' = svc /\ svc \in Services
      /\ Counts(w) /\ Shape(svc, w) /\ Standing(svc, w)
  BY DEF SInv, IInv, TypeOK, Look
<1>2. PICK r \in Views(w) : call' = [call EXCEPT ![c] = Onward([w EXCEPT !.seen = @ \cup {r}])]
  BY DEF Look
<1>3. w.step \in 1 .. 3 /\ (w.step > 1 \/ w.ask \in Reads)
  BY <1>1 DEF Look, Calls, Writing
<1>4. w.ask \in Reads \/ w.ask = "version"
  BY <1>3, <1>1 DEF Counts, Reads
<1>5. r \in {"none", "some", "pending", "confirmed", "active", "revoked"}
  BY <1>1, <1>2, <1>4, ViewsTyped
<1> DEFINE u == [w EXCEPT !.seen = w.seen \cup {r}]
<1>6. /\ u \in Calls /\ u.ask = w.ask /\ u.on = w.on /\ u.other = w.other /\ u.contested = w.contested
      /\ u.late = w.late /\ u.ids = w.ids /\ u.id = w.id /\ u.step = w.step /\ u.pc = w.pc
      /\ u.seen = w.seen \cup {r}
  <2>1. w.seen \cup {r} \in SUBSET {"none", "some", "pending", "confirmed", "active", "revoked"}
    BY <1>1, <1>5 DEF Calls
  <2> QED  BY <1>1, <2>1 DEF Calls
<1> DEFINE v == Onward(u)
<1>7. call' = [call EXCEPT ![c] = v]
  BY <1>2
<1> HIDE DEF u
<1>8. v \in Calls /\ Goes(v, u) /\ v.pc \in {"asked", "ok"} /\ v.step >= u.step
  BY <1>1, <1>6, OnwardGoes, OnwardTyped, NeverBack
<1> HIDE DEF v
<1>9. Follows(v, w)
  BY <1>1, <1>6, <1>8 DEF Follows, Goes, Underway
<1>10. v.step \in 1 .. 3 /\ v.step >= w.step
  BY <1>6, <1>8 DEF Calls
<1>11. ~(v.ask \notin Reads /\ v.step = 1)
  BY <1>3, <1>9, <1>10 DEF Follows
<1>12. v.ask = "version" => Settled(w)
  BY <1>3, <1>9 DEF Follows, Settled, Reads
<1>13. Shape(svc, v)
  <2>1. v.ask \in Reads \/ v.ask = "version"
    BY <1>4, <1>9 DEF Follows
  <2>2. v.ids = w.ids /\ v.id = w.id
    BY <1>6, <1>8 DEF Goes
  <2>3. v.ask \notin {"unversion", "relink", "revoke", "link", "attach", "detach"}
    BY <2>1 DEF Reads
  <2>4. \A d \in v.on : Gives(v, d) /\ Settled(v) => v.id \in v.ids
    BY <1>1, <1>9, <1>12, <2>2, <2>3 DEF Shape, Follows, Gives
  <2>5. ASSUME v.ask = "version", v.on \cap Versioned = {}
        PROVE  "some" \notin v.seen
    <3>1. PICK d \in Doc : w.on = {d} /\ r \in Read(w, svc, d)
      BY <1>1, <1>2 DEF Shape, Views
    <3>2. w.ask = "version" /\ d \notin Versioned
      BY <1>9, <2>5, <3>1 DEF Follows
    <3>3. svc.rows[d].versions = {}
      BY <3>1, <3>2 DEF SInv, Bare
    <3>4. r = "none"
      BY <3>1, <3>2, <3>3, FS_EmptySet, There DEF Read, ReadVersions, Known
    <3>5. "some" \notin w.seen /\ v.seen = w.seen \cup {r}
      BY <1>1, <1>6, <1>8, <1>9, <2>5, <3>2 DEF Shape, Follows, Goes
    <3> QED  BY <3>4, <3>5
  <2> QED  BY <1>1, <1>9, <1>11, <2>2, <2>3, <2>4, <2>5 DEF Shape, Follows
<1>14. Standing(svc, v)
  <2> SUFFICES ASSUME ~w.contested, NEW d \in w.on, NEW e \in w.other
               PROVE  /\ Kept(svc, v, d, e)
                      /\ w.ask = "reviews" => v.seen \subseteq {Known(svc.rows[d].reviewers)}
                      /\ w.ask = "reviews" => \A p, q \in v.seen : p = q
    BY <1>9 DEF Standing, Follows
  <2>1. v.seen = w.seen \cup {r} /\ v.ask = w.ask /\ v.id = w.id
    BY <1>6, <1>8 DEF Goes
  <2>2. d \in Doc /\ w.on = {d}
    BY <1>1 DEF Shape
  <2>3. r \in Read(w, svc, d)
    BY <1>2, <2>2 DEF Views
  <2>4. CASE w.ask = "reviews"
    <3>1. r = Known(svc.rows[d].reviewers)
      BY <2>3, <2>4, There DEF Read, ReadReviews
    <3>2. w.seen \subseteq {Known(svc.rows[d].reviewers)}
      BY <1>1, <2>4 DEF Standing
    <3>3. v.seen \subseteq {Known(svc.rows[d].reviewers)}
      BY <2>1, <3>1, <3>2
    <3>4. Kept(svc, v, d, e)
      BY <2>1, <2>4 DEF Kept
    <3> QED  BY <3>3, <3>4
  <2>7. CASE w.ask = "version" /\ d \notin Versioned
    BY <2>1, <2>7 DEF Kept
  <2>5. CASE w.ask = "version" /\ d \in Versioned
    <3>1. Kept(svc, w, d, e)
      BY <1>1, <1>12, <2>1, <2>5 DEF Standing
    <3>2. w.id \in svc.rows[d].versions /\ "none" \notin w.seen
      BY <2>5, <3>1 DEF Kept
    <3>3. r = "some"
      <4>1. Known(Cardinality(svc.rows[d].versions)) = "some"
        BY <1>1, <2>2, <3>2, SomeVersion
      <4> QED  BY <2>3, <2>5, <4>1, There DEF Read, ReadVersions
    <3> QED  BY <2>1, <2>5, <3>2, <3>3 DEF Kept
  <2>6. CASE w.ask \in Reads \ {"reviews"}
    BY <2>1, <2>6 DEF Kept, Reads
  <2> QED  BY <1>4, <2>4, <2>5, <2>6, <2>7
<1>15. IInv'
  BY LookGood DEF SInv
<1>16. \A x \in Call \ {c} : Standing(svc, call[x])
  BY DEF SInv
<1>17. svc'.used >= svc.used
  BY <1>1, RecordsAssumption DEF Services
<1>18. v.ids = w.ids /\ v.id = w.id
  BY <1>6, <1>8 DEF Goes
<1>19. Bare(svc)'
  BY <1>1 DEF SInv, Bare
<1> QED  BY <1>1, <1>7, <1>9, <1>13, <1>14, <1>15, <1>16, <1>17, <1>18, <1>19, Moved

\* A request that took effect: what it gave is new, and everyone else stands.
LEMMA Served ==
  ASSUME SInv, NEW c \in Call, Underway(call[c]), call[c].ask \notin Reads, NEW y \in Outcomes(call[c])
  PROVE  /\ y \in Services /\ y.used >= svc.used
         /\ y.used > svc.used => y.used = svc.used + 1 /\ call[c].ask \in {"version", "link"}
         /\ \A d \in call[c].on : Gives(call[c], d) => y.used > svc.used
         /\ Bare(y)
         /\ \A x \in Call : Standing(y, call[x])
<1>1. call[c] \in Calls /\ svc \in Services /\ Shape(svc, call[c])
  BY DEF SInv, IInv, TypeOK
<1>2. y \in Services
  BY <1>1, OutcomesTyped
<1>3. PICK a \in Doc, b \in Doc : call[c].on = {a} /\ call[c].other = {b}
  BY <1>1 DEF Shape, Underway
<1>4. Beside(svc, y, call[c], a)
  BY <1>1, <1>3, Effects DEF Effect
<1>5. svc.used \in Nat
  BY <1>1, RecordsAssumption DEF Services
<1>6. /\ y.used >= svc.used
      /\ y.used > svc.used => y.used = svc.used + 1 /\ call[c].ask \in {"version", "link"}
      /\ \A d \in call[c].on : Gives(call[c], d) => y.used > svc.used
  BY <1>3, <1>4, <1>5 DEF Beside, Gives
<1>7. \A x \in Call : Standing(y, call[x])
  BY OthersStand
<1>8. Bare(y)
  <2> SUFFICES ASSUME NEW d \in Doc \ Versioned PROVE y.rows[d].versions = {}
    BY DEF Bare
  <2>1. RowEffect(svc.rows[d], y.rows[d], svc, call[c], a, b, d)
    BY <1>1, <1>3, Effects DEF Effect
  <2>2. svc.rows[d].versions = {}
    BY DEF SInv, Bare
  <2> QED  BY <2>1, <2>2 DEF RowEffect
<1> QED  BY <1>2, <1>6, <1>7, <1>8

\* The call w with the ids it has when it took effect.
LEMMA MadeGoes ==
  ASSUME svc \in Services, NEW w \in Calls, NEW y \in Services
  PROVE  LET m == Made(w, y) IN
         /\ m \in Calls
         /\ m.ask = w.ask /\ m.on = w.on /\ m.other = w.other /\ m.contested = w.contested
         /\ m.late = w.late /\ m.seen = w.seen /\ m.id = w.id /\ m.step = w.step /\ m.pc = w.pc
         /\ m.ids = IF y.used > svc.used THEN w.ids \cup {y.used} ELSE w.ids
<1>1. y.used \in 0 .. MaxIds /\ svc.used \in 0 .. MaxIds
  BY DEF Services
<1>2. y.used > svc.used => y.used \in Ids
  BY <1>1, RecordsAssumption DEF Ids
<1>3. /\ Made(w, y) = [w EXCEPT !.made = w.made + Took(w, y),
                                 !.ids = IF y.used > svc.used THEN w.ids \cup {y.used} ELSE w.ids]
      /\ w.made + Took(w, y) \in Nat /\ (IF y.used > svc.used THEN w.ids \cup {y.used} ELSE w.ids) \in SUBSET Ids
  BY <1>2 DEF Made, Took, Calls
<1> QED  BY <1>3 DEF Calls

LEMMA AnswerStands ==
  ASSUME SInv, NEW c \in Call, Answer(c)
  PROVE  SInv'
<1> DEFINE w == call[c]
<1>1. /\ w \in Calls /\ w.pc = "asked" /\ w.ask \notin Reads /\ w.step = 1 /\ svc \in Services
      /\ Shape(svc, w) /\ Underway(w)
  BY DEF SInv, IInv, TypeOK, Answer, Writing, Underway
<1>2. PICK y \in Outcomes(w) : svc' = y /\ call' = [call EXCEPT ![c] = Told(w, y)]
  BY DEF Answer
<1>3. /\ y \in Services /\ y.used >= svc.used
      /\ y.used > svc.used => y.used = svc.used + 1 /\ w.ask \in {"version", "link"}
      /\ \A d \in w.on : Gives(w, d) => y.used > svc.used
      /\ Bare(y)
      /\ \A x \in Call : Standing(y, call[x])
  BY <1>1, Served
<1> DEFINE m == Made(w, y)
           i == IF y.used > svc.used THEN y.used ELSE w.id
           u == [m EXCEPT !.id = i]
           v == Onward(u)
<1>4. m \in Calls /\ m.id = w.id /\ m.ids = (IF y.used > svc.used THEN w.ids \cup {y.used} ELSE w.ids)
      /\ m.ask = w.ask /\ m.on = w.on /\ m.other = w.other /\ m.contested = w.contested
      /\ m.late = w.late /\ m.seen = w.seen /\ m.step = w.step /\ m.pc = w.pc
  BY <1>1, <1>3, MadeGoes
<1>5. Told(w, y) = v
  BY <1>4 DEF Told
<1> HIDE DEF m
<1>6. i \in 0 .. MaxIds
  BY <1>1, <1>3 DEF Calls, Services
<1> HIDE DEF i
<1>7. /\ u \in Calls /\ u.id = i /\ u.ids = m.ids /\ u.ask = w.ask /\ u.on = w.on /\ u.other = w.other
      /\ u.contested = w.contested /\ u.late = w.late /\ u.seen = w.seen /\ u.pc = w.pc
  BY <1>4, <1>6 DEF Calls
<1> HIDE DEF u
<1>8. Goes(v, u) /\ v.pc \in {"asked", "ok"} /\ (v.step > 1 \/ v.pc = "ok") /\ v \in Calls
  BY <1>1, <1>7, OnwardGoes, OnwardTyped
<1> HIDE DEF v
<1>9. /\ v.ask = w.ask /\ v.on = w.on /\ v.other = w.other /\ v.contested = w.contested
      /\ v.seen = w.seen /\ v.id = i /\ v.ids = m.ids
  BY <1>7, <1>8 DEF Goes
<1>10. Follows(v, w)
  BY <1>1, <1>8, <1>9 DEF Follows
<1>11. w.seen = {}
  BY <1>1 DEF Shape
<1>12. y.used \in Nat /\ svc.used \in Nat
  BY <1>1, <1>3, RecordsAssumption DEF Services
<1>13. m.ids \subseteq 1 .. y.used /\ \A n \in m.ids : n \in w.ids \/ n > svc.used
  <2>1. w.ids \subseteq 1 .. svc.used
    BY <1>1 DEF Shape
  <2> QED  BY <1>3, <1>4, <1>12, <2>1
<1>14. v.ask \in {"unversion", "relink", "revoke"} => v.id = w.id
  BY <1>3, <1>9 DEF i
<1>15. Shape(y, v)
  <2>1. v.ask \in {"unversion", "relink", "revoke"} => v.id \in 1 .. y.used
    <3>1. w.ask \in {"unversion", "relink", "revoke"} => w.id \in 1 .. svc.used
      BY <1>1 DEF Shape
    <3> QED  BY <1>3, <1>9, <1>12, <1>14, <3>1
  <2>2. \A d \in v.on : Gives(v, d) => v.id \in v.ids
    BY <1>3, <1>4, <1>9 DEF i, Gives
  <2>3. \E d, e \in Doc : v.on = {d} /\ v.other = {e} /\ (v.ask \notin {"attach", "detach"} => e = d)
    BY <1>1, <1>9 DEF Shape
  <2> QED  BY <1>8, <1>9, <1>11, <1>13, <2>1, <2>2, <2>3 DEF Shape
<1>16. Standing(y, v)
  <2> SUFFICES ASSUME NEW d \in v.on, NEW e \in v.other
               PROVE  Kept(y, v, d, e)
    BY <1>1, <1>9, <1>11 DEF Standing, Reads
  <2>1. About(w, d, e)
    BY <1>1, <1>9 DEF Shape, About
  <2>2. Effect(svc, y, w, d, e)
    BY <1>1, <2>1, Effects DEF About
  <2>3. v.id = IF y.used > svc.used THEN y.used ELSE w.id
    BY <1>9 DEF i
  <2> QED  BY <1>1, <1>3, <1>8, <1>9, <1>11, <2>1, <2>2, <2>3, KeptNow
<1>17. IInv'
  BY AnswerGood DEF SInv
<1>18. Bare(svc)'
  BY <1>2, <1>3 DEF Bare
<1> QED  BY <1>2, <1>3, <1>5, <1>9, <1>10, <1>13, <1>14, <1>15, <1>16, <1>17, <1>18, Moved

LEMMA LateStands ==
  ASSUME SInv, NEW c \in Call, Late(c)
  PROVE  SInv'
<1> DEFINE w == call[c]
           a == Arrived(w)
<1>1. /\ w \in Calls /\ w.late > 0 /\ svc \in Services /\ w.late - 1 \in Nat /\ w.ask \notin Reads
      /\ Shape(svc, w) /\ w.pc # "new" /\ Underway(w)
  BY DEF SInv, IInv, TypeOK, Late, Calls, Counts, Shape, Underway
<1>2. /\ a \in Calls /\ a.ask = w.ask /\ a.on = w.on /\ a.other = w.other /\ a.contested = w.contested
      /\ a.late = w.late - 1 /\ a.seen = w.seen /\ a.id = w.id /\ a.ids = w.ids /\ a.step = w.step /\ a.pc = w.pc
  BY <1>1 DEF Calls, Arrived
<1> HIDE DEF a
<1>3. IInv'
  BY LateGood DEF SInv
<1>4. CASE Outcomes(w) = {} /\ svc' = svc /\ call' = [call EXCEPT ![c] = a]
  <2>1. Follows(a, w) /\ (Settled(a) => Settled(w))
    BY <1>1, <1>2 DEF Follows, Settled
  <2> QED  BY <1>1, <1>2, <1>3, <1>4, <2>1, QuietStep
<1>5. CASE \E y \in Outcomes(w) : svc' = y /\ call' = [call EXCEPT ![c] = Made(a, y)]
  <2>1. PICK y \in Outcomes(w) : svc' = y /\ call' = [call EXCEPT ![c] = Made(a, y)]
    BY <1>5
  <2>2. /\ y \in Services /\ y.used >= svc.used
        /\ y.used > svc.used => y.used = svc.used + 1 /\ w.ask \in {"version", "link"}
        /\ Bare(y)
        /\ \A x \in Call : Standing(y, call[x])
    BY <1>1, Served
  <2> DEFINE m == Made(a, y)
  <2>3. m \in Calls /\ m.id = w.id /\ m.ids = (IF y.used > svc.used THEN w.ids \cup {y.used} ELSE w.ids)
        /\ m.ask = w.ask /\ m.on = w.on /\ m.other = w.other /\ m.contested = w.contested
        /\ m.seen = w.seen /\ m.step = w.step /\ m.pc = w.pc
    BY <1>1, <1>2, <2>2, MadeGoes
  <2>4. call' = [call EXCEPT ![c] = m]
    BY <2>1
  <2> HIDE DEF m
  <2>5. Follows(m, w) /\ (Settled(m) => Settled(w))
    BY <1>1, <2>3 DEF Follows, Settled
  <2>6. Standing(y, m)
    BY <2>2, <2>3, <2>5, StandsOn
  <2>7. y.used \in Nat /\ svc.used \in Nat
    BY <1>1, <2>2, RecordsAssumption DEF Services
  <2>8. m.ids \subseteq 1 .. y.used /\ (\A n \in m.ids : n \in w.ids \/ n > svc.used) /\ w.ids \subseteq m.ids
    <3>1. w.ids \subseteq 1 .. svc.used
      BY <1>1 DEF Shape
    <3> QED  BY <2>2, <2>3, <2>7, <3>1
  <2>9. Shape(y, m)
    <3>1. m.ask \in {"unversion", "relink", "revoke"} => m.id \in 1 .. y.used
      <4>1. w.ask \in {"unversion", "relink", "revoke"} => w.id \in 1 .. svc.used
        BY <1>1 DEF Shape
      <4> QED  BY <2>2, <2>3, <2>7, <4>1
    <3>2. \A d \in m.on : Gives(m, d) /\ Settled(m) => m.id \in m.ids
      BY <1>1, <2>3, <2>5, <2>8 DEF Shape, Gives
    <3>3. \E d, e \in Doc : m.on = {d} /\ m.other = {e} /\ (m.ask \notin {"attach", "detach"} => e = d)
      BY <1>1, <2>3 DEF Shape
    <3>4. m.ask \notin Reads /\ m.step = 1 => m.seen = {}
      BY <1>1, <2>3 DEF Shape
    <3>5. m.ask = "version" /\ m.on \cap Versioned = {} => "some" \notin m.seen
      BY <1>1, <2>3 DEF Shape
    <3> QED  BY <1>1, <2>3, <2>8, <3>1, <3>2, <3>3, <3>4, <3>5 DEF Shape
  <2>10. Bare(svc)'
    BY <2>1, <2>2 DEF Bare
  <2> QED  BY <1>3, <2>1, <2>2, <2>3, <2>4, <2>5, <2>6, <2>8, <2>9, <2>10, Moved
<1> QED  BY <1>4, <1>5 DEF Late, a

-----------------------------------------------------------------------------
(* A call that begins sees who is under way, and all others see it. *)

\* v is w but for what is recorded of its opponents.
Alike(v, w) ==
    /\ v.pc = w.pc /\ v.ask = w.ask /\ v.on = w.on /\ v.other = w.other /\ v.id = w.id /\ v.step = w.step
    /\ v.late = w.late /\ v.seen = w.seen /\ v.ids = w.ids

LEMMA Recorded ==
  ASSUME NEW w \in Calls, NEW x \in BOOLEAN
  PROVE  Alike([w EXCEPT !.contested = x], w) /\ [w EXCEPT !.contested = x].contested = x
BY DEF Alike, Calls

LEMMA AlikeUndoes ==
  ASSUME NEW v, NEW w, NEW p, NEW q, Alike(p, v), Alike(q, w)
  PROVE  (Undoes(p, q) <=> Undoes(v, w)) /\ (Underway(p) <=> Underway(v))
BY DEF Alike, Undoes, Underway

LEMMA AlikeStands ==
  ASSUME NEW s, NEW v, NEW w, Alike(v, w), w.contested => v.contested, Shape(s, w), Standing(s, w)
  PROVE  Shape(s, v) /\ Standing(s, v)
<1>1. Settled(v) <=> Settled(w)
  BY DEF Alike, Settled
<1>2. Shape(s, v)
  BY <1>1 DEF Alike, Shape, Gives
<1>3. \A d, e : Kept(s, w, d, e) => Kept(s, v, d, e)
  BY DEF Alike, Kept
<1>4. Standing(s, v)
  BY <1>1, <1>3 DEF Alike, Standing
<1> QED  BY <1>2, <1>4

LEMMA BeginStands ==
  ASSUME SInv, IInv', NEW c \in Call, NEW q \in Tools, NEW d \in Doc, NEW e \in Doc, NEW i \in 0 .. MaxIds,
         Begin(c, q, d, e, i), q \notin {"attach", "detach"} => e = d,
         q \in {"unversion", "relink", "revoke"} => i \in 1 .. svc.used
  PROVE  SInv'
<1> DEFINE w == [NewCall EXCEPT !.pc = "asked", !.ask = q, !.on = {d}, !.other = {e}, !.id = i, !.tries = 1]
           b == \E x \in Call : Underway(call[x]) /\ Undoes(call[x], w)
<1>1. /\ w \in Calls /\ w.pc = "asked" /\ w.ask = q /\ w.on = {d} /\ w.other = {e} /\ w.id = i
      /\ w.step = 1 /\ w.late = 0 /\ w.seen = {} /\ w.ids = {} /\ w.contested = FALSE
  <2>1. 1 \in 0 .. Retries /\ 0 \in 0 .. MaxIds
    BY RecordsAssumption
  <2>2. w \in Calls
    BY <2>1, NewCallGood DEF Calls
  <2>3. NewCall.late = 0 /\ NewCall.seen = {} /\ NewCall.ids = {} /\ NewCall.step = 1 /\ NewCall.contested = FALSE
    BY DEF NewCall
  <2>4. /\ w.pc = "asked" /\ w.ask = q /\ w.on = {d} /\ w.other = {e} /\ w.id = i /\ w.step = NewCall.step
        /\ w.late = NewCall.late /\ w.seen = NewCall.seen /\ w.ids = NewCall.ids
        /\ w.contested = NewCall.contested
    BY NewCallGood DEF Calls
  <2> QED  BY <2>2, <2>3, <2>4
<1>2. /\ svc' = svc
      /\ call' = [x \in Call |-> IF x = c THEN [w EXCEPT !.contested = b]
                                 ELSE [call[x] EXCEPT !.contested = @ \/ Undoes(w, call[x])]]
  BY DEF Begin
<1> HIDE DEF w
<1>3. \A x \in Call : call[x] \in Calls /\ call[x].contested \in BOOLEAN
  BY DEF SInv, IInv, TypeOK, Calls
<1>4. b \in BOOLEAN
  OBVIOUS
<1>5. Alike(call'[c], w) /\ call'[c].contested = b
  <2>1. call'[c] = [w EXCEPT !.contested = b]
    BY <1>2
  <2> HIDE DEF b
  <2> QED  BY <1>1, <1>4, <2>1, Recorded
<1>6. ASSUME NEW x \in Call \ {c}
      PROVE  Alike(call'[x], call[x]) /\ call'[x].contested = (call[x].contested \/ Undoes(w, call[x]))
  <2>1. call'[x] = [call[x] EXCEPT !.contested = call[x].contested \/ Undoes(w, call[x])]
    BY <1>2, Zenon
  <2>2. (call[x].contested \/ Undoes(w, call[x])) \in BOOLEAN
    OBVIOUS
  <2> QED  BY <1>3, <2>1, <2>2, Recorded
<1>7. Shape(svc, w) /\ Standing(svc, w)
  <2>1. ~Settled(w)
    BY <1>1 DEF Settled
  <2>2. Shape(svc, w)
    BY <1>1, <2>1 DEF Shape
  <2>3. Standing(svc, w)
    BY <1>1, <2>1 DEF Standing
  <2> QED  BY <2>2, <2>3
<1>8. ASSUME NEW x \in Call PROVE Shape(svc', call'[x]) /\ Standing(svc', call'[x])
  <2>1. CASE x = c
    BY <1>1, <1>2, <1>5, <1>7, <2>1, AlikeStands
  <2>2. CASE x # c
    <3>1. Shape(svc, call[x]) /\ Standing(svc, call[x])
      BY DEF SInv
    <3> QED  BY <1>2, <1>6, <2>2, <3>1, AlikeStands
  <2> QED  BY <2>1, <2>2
<1>9. ASSUME NEW x \in Call, NEW a \in Call, Underway(call'[a]), Undoes(call'[a], call'[x])
      PROVE  call'[x].contested
  <2>1. CASE a = x
    BY <1>9, <2>1, NoSelf
  <2>2. CASE a = c /\ x # c
    <3>1. Undoes(w, call[x])
      BY <1>5, <1>6, <1>9, <2>2, AlikeUndoes
    <3> QED  BY <1>6, <2>2, <3>1
  <2>3. CASE a # c /\ x = c
    <3>1. Underway(call[a]) /\ Undoes(call[a], w)
      BY <1>5, <1>6, <1>9, <2>3, AlikeUndoes
    <3> QED  BY <1>5, <2>3, <3>1
  <2>4. CASE a # c /\ x # c
    <3>1. Underway(call[a]) /\ Undoes(call[a], call[x])
      BY <1>6, <1>9, <2>4, AlikeUndoes
    <3>2. call[x].contested
      BY <3>1 DEF SInv, Contest
    <3> QED  BY <1>6, <2>4, <3>2
  <2> QED  BY <2>1, <2>2, <2>3, <2>4
<1>10. Bare(svc)'
  BY <1>2 DEF SInv, Bare
<1> QED  BY <1>8, <1>9, <1>10 DEF SInv, Contest

LEMMA BegunStands ==
  ASSUME SInv, NEW c \in Call, NEW d \in Doc, Changing(c, d) \/ Reading(c, d)
  PROVE  SInv'
<1>1. PICK q \in Tools, e \in Doc, i \in 0 .. MaxIds :
         /\ Begin(c, q, d, e, i)
         /\ q \notin {"attach", "detach"} => e = d
         /\ q \in {"unversion", "relink", "revoke"} => i \in 1 .. svc.used
  <2>1. \A v \in 1 .. svc.used : v \in 0 .. MaxIds
    BY RecordsAssumption DEF SInv, IInv, TypeOK, Services
  <2>2. 0 \in 0 .. MaxIds
    BY RecordsAssumption
  <2>3. CASE AddComment(c, d) \/ SetDocumentField(c, d) \/ AddReviewer(c, d) \/ RemoveReviewer(c, d)
    BY <2>2, <2>3 DEF AddComment, SetDocumentField, AddReviewer, RemoveReviewer, Tools
  <2>4. CASE UploadDocumentVersion(c, d) \/ DeleteDocumentVersion(c, d)
    BY <2>1, <2>2, <2>4 DEF UploadDocumentVersion, DeleteDocumentVersion, Tools
  <2>5. CASE AttachChildDocument(c, d) \/ DetachChildDocument(c, d)
    BY <2>2, <2>5 DEF AttachChildDocument, DetachChildDocument, Tools
  <2>6. CASE CreatePublicLink(c, d) \/ UpdatePublicLink(c, d) \/ RevokePublicLink(c, d)
    BY <2>1, <2>2, <2>6 DEF CreatePublicLink, UpdatePublicLink, RevokePublicLink, Tools
  <2>7. CASE ArchiveDocuments(c, d) \/ UnarchiveDocuments(c, d) \/ StartStructuredData(c, d)
             \/ ConfirmStructuredData(c, d) \/ DeleteDocument(c, d)
    BY <2>2, <2>7 DEF ArchiveDocuments, UnarchiveDocuments, StartStructuredData, ConfirmStructuredData,
                      DeleteDocument, Tools
  <2>8. CASE Reading(c, d)
    BY <2>2, <2>8 DEF Reading, GetReviewState, DownloadStructuredData, GetPublicLink, Tools, Reads
  <2> QED  BY <2>3, <2>4, <2>5, <2>6, <2>7, <2>8 DEF Changing
<1>2. IInv'
  BY BegunGood DEF SInv
<1> QED  BY <1>1, <1>2, BeginStands

-----------------------------------------------------------------------------

LEMMA InitStands ==
  ASSUME Init
  PROVE  SInv
<1>1. IInv /\ svc \in Services /\ svc.used = 0
  BY InitGood DEF IInv, TypeOK, Init, NewService
<1>2. \A c \in Call : call[c] = NewCall
  BY DEF Init
<1>3. /\ NewCall.pc = "new" /\ NewCall.ask = "delete" /\ NewCall.late = 0 /\ NewCall.step = 1
      /\ NewCall.seen = {} /\ NewCall.ids = {} /\ NewCall.on = {}
  BY DEF NewCall
<1>4. Shape(svc, NewCall) /\ ~Settled(NewCall)
  BY <1>1, <1>3 DEF Shape, Settled
<1>5. Standing(svc, NewCall) /\ Contest(NewCall, NewCall)
  BY <1>3 DEF Standing, Contest, Underway
<1>6. Bare(svc)
  BY DEF Init, NewService, Row, Bare
<1> QED  BY <1>1, <1>2, <1>4, <1>5, <1>6 DEF SInv

THEOREM StandingInductive == Spec => []SInv
<1>1. Init => SInv
  BY InitStands
<1>2. SInv /\ [Next]_vars => SInv'
  <2> SUFFICES ASSUME SInv, [Next]_vars
               PROVE  SInv'
    OBVIOUS
  <2>1. CASE UNCHANGED vars
    BY <2>1 DEF vars, SInv, IInv, TypeOK, Bare
  <2>2. ASSUME NEW c \in Call, NEW d \in Doc, Changing(c, d) \/ Reading(c, d)
        PROVE  SInv'
    BY <2>2, BegunStands
  <2>3. ASSUME NEW c \in Call,
               Answer(c) \/ Look(c) \/ Refuse(c) \/ Drop(c) \/ Delay(c) \/ Late(c)
        PROVE  SInv'
    BY <2>3, AnswerStands, LookStands, RefuseStands, DelayStands, LateStands
  <2> QED  BY <2>1, <2>2, <2>3 DEF Next
<1> QED  BY <1>1, <1>2, PTL DEF Spec

\* A call takes effect no more often than it had attempts without an answer, and
\* once more if it succeeded (Client.do, documentRoute, sharedRoute); one that is told of
\* success took effect, but for an upload that the service did not record, and of that
\* no version is reported.
THEOREM CountedOnceAlways == Spec => []CountedOnce
<1>1. SInv => CountedOnce
  <2> SUFFICES ASSUME SInv, NEW c \in Call
               PROVE  /\ call[c].made <= call[c].blind + (IF call[c].pc = "ok" \/ call[c].step > 1 THEN 1 ELSE 0)
                      /\ call[c].pc = "ok" /\ call[c].ask \notin Reads =>
                            call[c].made > 0 \/ (call[c].ask = "version" /\ "some" \notin call[c].seen)
    BY DEF CountedOnce
  <2>1. call[c].made \in Nat /\ call[c].late \in Nat /\ call[c].blind \in Nat /\ Counts(call[c])
    BY DEF SInv, IInv, TypeOK, Calls
  <2>2. Shape(svc, call[c])
    BY DEF SInv
  <2> QED  BY <2>1, <2>2 DEF Counts, Shape
<1> QED  BY <1>1, StandingInductive, PTL

\* What a tool has told its caller stands as long as no call that may take it back
\* was under way with it, a delayed attempt counting as under way, or has begun since;
\* and what it read in several requests is of one piece (internal/tools,
\* internal/mockvchasno).  What upload_document_version says of the versions it read back
\* agrees with what the service recorded.
THEOREM StandsAlways == Spec => []Stands
<1>1. SInv => Stands
  <2> SUFFICES ASSUME SInv, NEW c \in Call, call[c].pc = "ok", ~call[c].contested,
                      NEW d \in call[c].on, NEW e \in call[c].other
               PROVE  Holds(call[c], d, e)
    BY DEF Stands
  <2> DEFINE w == call[c]
  <2>1. /\ Kept(svc, w, d, e)
        /\ w.ask = "reviews" => \A x, y \in w.seen : x = y
    BY DEF SInv, Standing, Settled
  <2>2. w.ask = "reviews" => Cardinality(w.seen) <= 1
    <3>1. CASE w.seen = {}
      BY <3>1, FS_EmptySet
    <3>2. CASE w.seen # {}
      <4>1. PICK x : x \in w.seen
        BY <3>2
      <4>2. w.ask = "reviews" => w.seen = {x}
        BY <2>1, <4>1
      <4>3. w.ask = "reviews" => Cardinality(w.seen) = 1
        BY <4>2, FS_Singleton, Zenon
      <4> QED  BY <4>3
    <3> QED  BY <3>1, <3>2
  <2>8. CASE w.ask = "version"
    <3>1. d \in Doc /\ w.on = {d} /\ Shape(svc, w) /\ Bare(svc)
      BY DEF SInv, Shape
    <3>2. d \notin Versioned => svc.rows[d].versions = {} /\ "some" \notin w.seen
      BY <2>8, <3>1 DEF Shape, Bare
    <3> QED  BY <2>1, <2>8, <3>2 DEF Holds, Kept
  <2>3. CASE w.ask \in {"reviewer", "unreview", "unversion", "attach", "detach"}
    BY <2>1, <2>3 DEF Holds, Kept
  <2>4. CASE w.ask \in {"archive", "unarchive"}
    BY <2>1, <2>4 DEF Holds, Kept
  <2>5. CASE w.ask \in {"link", "revoke", "extract", "confirm", "delete"}
    BY <2>1, <2>5 DEF Holds, Kept
  <2>6. CASE w.ask = "reviews"
    BY <2>2, <2>6 DEF Holds
  <2>7. CASE w.ask \notin {"reviewer", "unreview", "version", "unversion", "attach", "detach", "archive",
                          "unarchive", "link", "revoke", "extract", "confirm", "delete", "reviews"}
    BY <2>7 DEF Holds
  <2> QED  BY <2>3, <2>4, <2>5, <2>6, <2>7, <2>8
<1> QED  BY <1>1, StandingInductive, PTL
=============================================================================
