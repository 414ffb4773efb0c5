--------------------------- MODULE DirectoryProofs --------------------------
(***************************************************************************)
(* Proofs about the names of a company that the tools go by (Directory):   *)
(* who hears of a change, what stays taken off, and which two entries may  *)
(* share a name, for any names, sessions, calls and attempts.              *)
(***************************************************************************)
EXTENDS Directory, FiniteSetTheorems, TLAPS

-----------------------------------------------------------------------------
(* The inductive invariant: types, and the shape of a call. *)

Asks  == {"none", "create", "rename", "delete", "update", "label", "assign", "unassign", "join", "expel", "use"}
Query0 == [kind : Kind \cup {"none"}, arg : Name \cup Ids]

Calls == [pc : {"new", "resolving", "reading", "fetched", "missing", "failing", "answered", "ok", "error"},
          sess : Sess \cup {None}, ask : Asks, kind : Kind \cup {"none"},
          need : Seq(Query0), got : Seq(Ids), to : Name \cup {None}, ids : SUBSET Ids, list : List,
          flaw : {"none", "cut", "stale"}, crossed : BOOLEAN, tries : 1 .. Retries,
          id : 0 .. MaxIds, saw : SUBSET Entry, blind : 0 .. Retries, knows : SUBSET Ids,
          contested : BOOLEAN]

\* The directory is a record; no two entries have the same id, and ids are given in turn.
Service(s) ==
    /\ s = [rows |-> s.rows, members |-> s.members, labels |-> s.labels, used |-> s.used]
    /\ s.rows \subseteq Entry /\ s.used \in 0 .. MaxIds
    /\ s.members \subseteq [id : Ids, group : Ids, role : Ids]
    /\ IsABag(s.labels) /\ DOMAIN s.labels \subseteq (Ids \cup {Doc}) \X Ids
    /\ \A e \in s.rows : e.id <= s.used
    /\ \A e, f \in s.rows : e.id = f.id => e = f
    /\ IsFiniteSet(s.rows)

Settled(w) == w.pc \in {"answered", "ok"}
Looking(w) == w.pc \in {"resolving", "reading", "fetched"}

\* How many names a tool is given at least.
Least(q) == CASE q \in {"rename", "delete", "update", "assign", "unassign", "use", "expel"} -> 1
              [] q = "join" -> 2 [] OTHER -> 0

Shape(w) ==
    /\ Underway(w) => w.sess \in Sess /\ w.kind \in Kind /\ w.ask # "none"
    /\ w.pc = "new" => w = NewCall
    /\ Looking(w) => w.blind = w.tries - 1
    /\ w.pc \in {"reading", "fetched", "missing"} => Len(w.got) < Len(w.need) /\ Query(w).kind \in Kind
    /\ Len(w.got) <= Len(w.need)
    /\ Settled(w) => Len(w.got) = Len(w.need)
    /\ w.pc \notin {"new", "error"} => Len(w.need) >= Least(w.ask)
    /\ w.ask \in {"create", "label", "rename"} <=> w.to \in Name
    /\ w.ask = "label" => w.kind = "tag"
    /\ \A j \in DOMAIN w.need : w.need[j].kind = "none" => w.need[j].arg \in Ids
    /\ ~Underway(w) => w.knows = {}
    /\ w.pc = "answered" /\ w.id # 0 => w.ask \in {"create", "rename", "delete", "label"}

\* A list that was read is of the entries of its kind.
Cell(w) == /\ w \in Calls /\ Shape(w)
           /\ w.pc = "fetched" => \A e \in w.list.rows : e.kind = Query(w).kind

Cells == call \in [Call -> Calls] /\ \A c \in Call : Cell(call[c])
Lists == /\ cache \in [Sess -> [Kind -> List]]
         /\ \A s \in Sess, k \in Kind : \A e \in cache[s][k].rows : e.kind = k

TInv == Service(svc) /\ Lists /\ Cells /\ told \in [Sess -> SUBSET Ids]

LEMMA TypeOKFromTInv == TInv => TypeOK
BY DEF TInv, Cells, Lists, Service, TypeOK, Calls, Asks, Query0

LEMMA Sizes ==
  /\ TagPage \in Nat /\ TagPage > 0 /\ Retries \in Nat /\ Retries > 0 /\ MaxIds \in Nat
  /\ Given \subseteq Ids /\ None \notin Name /\ Doc \notin Ids /\ Name \cap Ids = {}
  /\ Ids \subseteq Nat /\ \A i \in Ids : i > 0 /\ i <= MaxIds /\ i \in 0 .. MaxIds
BY DirectoryAssumption DEF Ids

-----------------------------------------------------------------------------
(* The routes. *)

LEMMA Fields ==
  ASSUME NEW s, Service(s), NEW x
  PROVE  LET a == [s EXCEPT !.rows = x]
             b == [s EXCEPT !.members = x]
             d == [s EXCEPT !.labels = x]
             u == [s EXCEPT !.used = x]
         IN  /\ a = [rows |-> x, members |-> s.members, labels |-> s.labels, used |-> s.used]
             /\ b = [rows |-> s.rows, members |-> x, labels |-> s.labels, used |-> s.used]
             /\ d = [rows |-> s.rows, members |-> s.members, labels |-> x, used |-> s.used]
             /\ u = [rows |-> s.rows, members |-> s.members, labels |-> s.labels, used |-> x]
<1> DEFINE r == s.rows
           m == s.members
           l == s.labels
           n == s.used
<1>1. s = [rows |-> r, members |-> m, labels |-> l, used |-> n]
  BY DEF Service
<1> HIDE DEF r, m, l, n
<1>2. /\ [s EXCEPT !.rows = x] = [rows |-> x, members |-> m, labels |-> l, used |-> n]
      /\ [s EXCEPT !.members = x] = [rows |-> r, members |-> x, labels |-> l, used |-> n]
      /\ [s EXCEPT !.labels = x] = [rows |-> r, members |-> m, labels |-> x, used |-> n]
      /\ [s EXCEPT !.used = x] = [rows |-> r, members |-> m, labels |-> l, used |-> x]
  BY <1>1
<1> QED  BY <1>2 DEF r, m, l, n

LEMMA TwoFields ==
  \A r, m, l, t, Q, u : LET s == [rows |-> r, members |-> m, labels |-> l, used |-> t] IN
     [s EXCEPT !.rows = Q, !.used = u] = [[s EXCEPT !.used = u] EXCEPT !.rows = Q]
OBVIOUS

LEMMA SameUsed ==
  \A r, m, l, t, Q : LET s == [rows |-> r, members |-> m, labels |-> l, used |-> t] IN
     [s EXCEPT !.rows = Q] = [s EXCEPT !.rows = Q, !.used = t]
<1> SUFFICES ASSUME NEW r, NEW m, NEW l, NEW t, NEW Q
             PROVE  LET s == [rows |-> r, members |-> m, labels |-> l, used |-> t] IN
                    [s EXCEPT !.rows = Q] = [s EXCEPT !.rows = Q, !.used = t]
  OBVIOUS
<1> DEFINE s == [rows |-> r, members |-> m, labels |-> l, used |-> t]
<1>1. [s EXCEPT !.used = t] = s
  OBVIOUS
<1>2. [s EXCEPT !.rows = Q, !.used = t] = [[s EXCEPT !.used = t] EXCEPT !.rows = Q]
  BY TwoFields, Zenon
<1> QED  BY <1>1, <1>2, Zenon

\* The directory with other entries, after an id was given.
Put(s, Q, u) == [s EXCEPT !.rows = Q, !.used = u]

LEMMA WithRows ==
  ASSUME NEW s, Service(s), NEW R, R \subseteq Entry, IsFiniteSet(R), \A e \in R : e.id <= s.used,
         \A e, f \in R : e.id = f.id => e = f
  PROVE  LET y == [s EXCEPT !.rows = R] IN
         Service(y) /\ y.rows = R /\ y.members = s.members /\ y.labels = s.labels /\ y.used = s.used
<1>1. [s EXCEPT !.rows = R] = [rows |-> R, members |-> s.members, labels |-> s.labels, used |-> s.used]
  BY Fields
<1> QED  BY <1>1 DEF Service

LEMMA FewerRows ==
  ASSUME NEW s, Service(s), NEW R, R \subseteq s.rows
  PROVE  LET y == [s EXCEPT !.rows = R] IN
         Service(y) /\ y.rows = R /\ y.members = s.members /\ y.labels = s.labels /\ y.used = s.used
<1>1. IsFiniteSet(s.rows) /\ R \in SUBSET s.rows
  BY DEF Service
<1>2. IsFiniteSet(R)
  BY <1>1, FS_Subset
<1>3. R \subseteq Entry /\ (\A e \in R : e.id <= s.used) /\ \A e, f \in R : e.id = f.id => e = f
  BY DEF Service
<1> QED  BY <1>2, <1>3, WithRows

LEMMA WithMembers ==
  ASSUME NEW s, Service(s), NEW M, M \subseteq [id : Ids, group : Ids, role : Ids]
  PROVE  LET y == [s EXCEPT !.members = M] IN
         Service(y) /\ y.rows = s.rows /\ y.members = M /\ y.labels = s.labels /\ y.used = s.used
<1>1. [s EXCEPT !.members = M] = [rows |-> s.rows, members |-> M, labels |-> s.labels, used |-> s.used]
  BY Fields
<1> QED  BY <1>1 DEF Service

LEMMA WithLabels ==
  ASSUME NEW s, Service(s), NEW L, IsABag(L), DOMAIN L \subseteq (Ids \cup {Doc}) \X Ids
  PROVE  LET y == [s EXCEPT !.labels = L] IN
         Service(y) /\ y.rows = s.rows /\ y.members = s.members /\ y.labels = L /\ y.used = s.used
<1>1. [s EXCEPT !.labels = L] = [rows |-> s.rows, members |-> s.members, labels |-> L, used |-> s.used]
  BY Fields
<1> QED  BY <1>1 DEF Service

LEMMA BagAdded ==
  ASSUME NEW B, IsABag(B), NEW x
  PROVE  IsABag(Bag!BagAdd(B, x)) /\ DOMAIN Bag!BagAdd(B, x) = DOMAIN B \cup {x}
<1>1. CASE x \in DOMAIN B
  <2>1. Bag!BagAdd(B, x) = [e \in DOMAIN B |-> IF e = x THEN B[e] + 1 ELSE B[e]]
    BY <1>1 DEF Bag!BagAdd
  <2>2. B \in [DOMAIN B -> {n \in Nat : n > 0}]
    BY DEF IsABag
  <2>3. \A e \in DOMAIN B : B[e] + 1 \in {n \in Nat : n > 0}
    BY <2>2
  <2> QED  BY <1>1, <2>1, <2>2, <2>3 DEF IsABag
<1>2. CASE x \notin DOMAIN B
  BY <1>2 DEF IsABag, Bag!BagAdd
<1> QED  BY <1>1, <1>2

LEMMA BagRemoved ==
  ASSUME NEW B, IsABag(B), NEW x
  PROVE  IsABag(Bag!BagRemoveAll(B, x)) /\ DOMAIN Bag!BagRemoveAll(B, x) = DOMAIN B \ {x}
BY DEF IsABag, Bag!BagRemoveAll

\* An entry takes its place among others.
With(R, i, k, n) == R \cup {Row(i, k, n)}

Fits(s, R, i, k, n, u) ==
    /\ i \in Ids /\ k \in Kind /\ n \in Name /\ u \in 0 .. MaxIds /\ i <= u /\ s.used <= u
    /\ R \subseteq s.rows /\ \A e \in R : e.id # i

LEMMA NewRow ==
  ASSUME NEW s, NEW R, NEW i, NEW k, NEW n, NEW u, NEW y,
         Service(s), Fits(s, R, i, k, n, u), y = Put(s, With(R, i, k, n), u)
  PROVE  /\ Service(y) /\ y.rows = With(R, i, k, n) /\ y.used = u
         /\ y.members = s.members /\ y.labels = s.labels
<1> USE DEF Fits, With
<1> DEFINE Q == R \cup {Row(i, k, n)}
           z == [s EXCEPT !.used = u]
<1>1. z = [rows |-> s.rows, members |-> s.members, labels |-> s.labels, used |-> u]
  BY Fields
<1>2. s.used \in Nat /\ u \in Nat /\ \A e \in s.rows : e.id \in Nat
  BY Sizes DEF Service, Entry
<1>3. Service(z)
  BY <1>1, <1>2 DEF Service
<1>4. IsFiniteSet(s.rows) /\ R \in SUBSET s.rows
  BY DEF Service
<1>5. IsFiniteSet(R)
  BY <1>4, FS_Subset
<1>6. IsFiniteSet(Q)
  BY <1>5, FS_AddElement
<1>7. Row(i, k, n) \in Entry /\ Row(i, k, n).id = i
  BY DEF Row, Entry
<1>8. /\ Q \subseteq Entry /\ \A e \in Q : e.id <= z.used
      /\ \A e, f \in Q : e.id = f.id => e = f
  BY <1>1, <1>2, <1>7 DEF Service
<1>9. Put(s, Q, u) = [z EXCEPT !.rows = Q]
  <2>1. s = [rows |-> s.rows, members |-> s.members, labels |-> s.labels, used |-> s.used]
    BY DEF Service
  <2> QED  BY <2>1, TwoFields, Zenon DEF z, Put
<1> HIDE DEF Q, z
<1>10. LET x == [z EXCEPT !.rows = Q] IN
         Service(x) /\ x.rows = Q /\ x.members = z.members /\ x.labels = z.labels /\ x.used = z.used
  BY <1>3, <1>6, <1>8, WithRows
<1>11. z.members = s.members /\ z.labels = s.labels /\ z.used = u
  BY <1>1
<1> QED  BY <1>9, <1>10, <1>11 DEF Q

LEMMA Created ==
  ASSUME NEW s, Service(s), NEW k \in Kind, NEW n \in Name, NEW y \in CreateRoute(s, k, n)
  PROVE  /\ Service(y) /\ y.used \in Ids /\ y.rows = s.rows \cup {Row(y.used, k, n)}
         /\ y.members = s.members /\ y.labels = s.labels
<1>1. s.used \in 0 .. MaxIds /\ \A e \in s.rows : e.id <= s.used /\ e.id \in Nat
  BY Sizes DEF Service, Entry
<1>2. s.used # MaxIds /\ y = [s EXCEPT !.rows = s.rows \cup {Row(s.used + 1, k, n)}, !.used = s.used + 1]
  BY DEF CreateRoute
<1>3. s.used + 1 \in Ids /\ s.used + 1 \in 0 .. MaxIds /\ s.used <= s.used + 1
  BY <1>1, <1>2, Sizes DEF Ids
<1>4. \A e \in s.rows : e.id # s.used + 1
  BY <1>1
<1>5. s.rows \subseteq s.rows /\ s.used + 1 <= s.used + 1
  BY <1>1
<1>6. Fits(s, s.rows, s.used + 1, k, n, s.used + 1) /\ y = Put(s, With(s.rows, s.used + 1, k, n), s.used + 1)
  BY <1>1, <1>2, <1>3, <1>4, <1>5 DEF Fits, Put, With
<1>7. /\ Service(y) /\ y.rows = With(s.rows, s.used + 1, k, n) /\ y.used = s.used + 1
      /\ y.members = s.members /\ y.labels = s.labels
  BY <1>6, NewRow
<1> QED  BY <1>3, <1>7 DEF With

LEMMA Renamed ==
  ASSUME NEW s, Service(s), NEW i \in Ids, NEW k \in Kind, NEW n \in Name, NEW y \in RenameRoute(s, i, k, n)
  PROVE  /\ Service(y) /\ y.rows = Without(s, i) \cup {Row(i, k, n)}
         /\ y.members = s.members /\ y.labels = s.labels
<1>1. /\ \E e \in s.rows : e.id = i
      /\ y = [s EXCEPT !.rows = Without(s, i) \cup {Row(i, k, n)}]
  BY DEF RenameRoute, IfThere
<1>2. s.used \in 0 .. MaxIds /\ i <= s.used /\ s.used <= s.used
  BY <1>1, Sizes DEF Service
<1>3. Without(s, i) \subseteq s.rows /\ \A e \in Without(s, i) : e.id # i
  BY DEF Without
<1>4. y = [s EXCEPT !.rows = Without(s, i) \cup {Row(i, k, n)}, !.used = s.used]
  <2>1. s = [rows |-> s.rows, members |-> s.members, labels |-> s.labels, used |-> s.used]
    BY DEF Service
  <2> QED  BY <1>1, <2>1, SameUsed, Zenon
<1>5. Fits(s, Without(s, i), i, k, n, s.used) /\ y = Put(s, With(Without(s, i), i, k, n), s.used)
  BY <1>2, <1>3, <1>4 DEF Fits, Put, With
<1>6. /\ Service(y) /\ y.rows = With(Without(s, i), i, k, n)
      /\ y.members = s.members /\ y.labels = s.labels
  BY <1>5, NewRow
<1> QED  BY <1>6 DEF With

LEMMA Deleted ==
  ASSUME NEW s, Service(s), NEW i, NEW k, NEW y \in DeleteRoute(s, i, k)
  PROVE  Service(y) /\ y.rows \subseteq s.rows /\ y.members = s.members /\ y.labels = s.labels
<1>1. y = [s EXCEPT !.rows = Without(s, i)] /\ Without(s, i) \subseteq s.rows
  BY DEF DeleteRoute, IfThere, Without
<1> QED  BY <1>1, FewerRows

\* What an outcome of a request may be.
Allowed(w, y) ==
    /\ Service(y)
    /\ w.ask \notin {"label", "assign"} => DOMAIN y.labels \subseteq DOMAIN svc.labels
    /\ w.ask # "join" => y.members \subseteq svc.members
    /\ w.ask = "unassign" => <<Holder(w), w.got[Len(w.got)]>> \notin DOMAIN y.labels
    /\ w.ask = "expel" => \A m \in y.members : m.id \in w.ids => m.group # w.got[1]
    /\ About(w, y) \in 0 .. MaxIds
    /\ About(w, y) # 0 => w.ask \in {"create", "rename", "delete", "label"}
    /\ \/ y.rows \subseteq svc.rows
       \/ w.to \in Name /\ \E a \in Ids : y.rows \subseteq With(svc.rows, a, w.kind, w.to)

\* A call that asks has found what it needs.
LEMMA Ready ==
  ASSUME NEW w \in Calls, Shape(w), Asking(w)
  PROVE  /\ w.kind \in Kind /\ w.ask # "none" /\ w.ask \in Asks /\ w.ids \subseteq Ids
         /\ w.ask \in {"create", "label", "rename"} => w.to \in Name
         /\ w.ask = "label" => w.kind = "tag"
         /\ w.ask \in {"rename", "delete", "update", "assign", "unassign", "use", "expel", "join"}
               => w.got[Len(w.got)] \in Ids /\ w.got[1] \in Ids
         /\ w.ask = "join" => w.got[2] \in Ids
         /\ Holder(w) \in Ids \cup {Doc}
<1>1. w.pc = "resolving" /\ Len(w.got) = Len(w.need)
  BY DEF Asking
<1>2. /\ w.kind \in Kind /\ w.ask # "none" /\ w.ask \in Asks /\ w.ids \subseteq Ids
      /\ w.got \in Seq(Ids) /\ w.need \in Seq(Query0)
  BY <1>1 DEF Shape, Underway, Calls
<1>3. /\ w.ask \in {"create", "label", "rename"} => w.to \in Name
      /\ w.ask = "label" => w.kind = "tag"
      /\ Len(w.need) >= Least(w.ask)
  BY <1>1 DEF Shape
<1>4. Len(w.got) \in Nat /\ Len(w.got) >= Least(w.ask) /\ \A j \in 1 .. Len(w.got) : w.got[j] \in Ids
  BY <1>1, <1>2, <1>3
<1>5. w.ask \in {"rename", "delete", "update", "assign", "unassign", "use", "expel", "join"}
               => Len(w.got) >= 1
  BY <1>4 DEF Least
<1>6. w.ask = "join" => Len(w.got) >= 2
  BY <1>4 DEF Least
<1>7. w.need # <<>> => Len(w.got) >= 1
  BY <1>1, <1>2
<1>8. Holder(w) \in Ids \cup {Doc}
  BY <1>4, <1>7 DEF Holder
<1> QED  BY <1>2, <1>3, <1>4, <1>5, <1>6, <1>8

LEMMA MayGoes ==
  ASSUME NEW s, Service(s), NEW t, NEW y \in MayGo(s, t)
  PROVE  Service(y) /\ y.rows \subseteq s.rows /\ y.members = s.members /\ y.labels = s.labels
<1>1. y = s \/ y \in DeleteRoute(s, t, "tag")
  BY DEF MayGo
<1> QED  BY <1>1, Deleted

LEMMA RowsOutcome ==
  ASSUME Service(svc), NEW w \in Calls, Shape(w), Asking(w), NEW y \in Outcomes(w),
         w.ask \in {"create", "rename", "delete", "update", "use"}
  PROVE  Allowed(w, y)
<1>1. CASE w.ask = "create"
  <2>1. y \in CreateRoute(svc, w.kind, w.to) /\ About(w, y) = y.used
    BY <1>1 DEF Outcomes, About
  <2>2. w.kind \in Kind /\ w.to \in Name
    BY <1>1, Ready
  <2>3. /\ Service(y) /\ y.used \in Ids /\ y.rows = svc.rows \cup {Row(y.used, w.kind, w.to)}
        /\ y.members = svc.members /\ y.labels = svc.labels
    BY <2>1, <2>2, Created
  <2>4. y.rows = With(svc.rows, y.used, w.kind, w.to) /\ y.used \in 0 .. MaxIds
    BY <2>3, Sizes DEF With
  <2> QED  BY <1>1, <2>1, <2>2, <2>3, <2>4 DEF Allowed
<1>2. CASE w.ask = "rename"
  <2> DEFINE i == w.got[Len(w.got)]
  <2>1. y \in RenameRoute(svc, i, w.kind, w.to) /\ About(w, y) = i
    BY <1>2 DEF Outcomes, About
  <2>2. w.kind \in Kind /\ w.to \in Name /\ i \in Ids
    BY <1>2, Ready
  <2> HIDE DEF i
  <2>3. /\ Service(y) /\ y.rows = Without(svc, i) \cup {Row(i, w.kind, w.to)}
        /\ y.members = svc.members /\ y.labels = svc.labels
    BY <2>1, <2>2, Renamed
  <2>4. y.rows \subseteq With(svc.rows, i, w.kind, w.to) /\ i \in 0 .. MaxIds
    BY <2>2, <2>3, Sizes DEF With, Without
  <2> QED  BY <1>2, <2>1, <2>2, <2>3, <2>4 DEF Allowed
<1>3. CASE w.ask = "delete"
  <2> DEFINE i == w.got[Len(w.got)]
  <2>1. y \in DeleteRoute(svc, i, w.kind) /\ About(w, y) = i
    BY <1>3 DEF Outcomes, About
  <2>2. i \in 0 .. MaxIds
    BY <1>3, Ready, Sizes
  <2> HIDE DEF i
  <2>3. Service(y) /\ y.rows \subseteq svc.rows /\ y.members = svc.members /\ y.labels = svc.labels
    BY <2>1, Deleted
  <2> QED  BY <1>3, <2>1, <2>2, <2>3 DEF Allowed
<1>4. CASE w.ask \in {"update", "use"}
  <2>1. y = svc
    BY <1>4 DEF Outcomes, UpdateRoute, IfThere
  <2>2. About(w, y) = 0 /\ 0 \in 0 .. MaxIds
    BY <1>4, Sizes DEF About
  <2> QED  BY <1>4, <2>1, <2>2 DEF Allowed
<1> QED  BY <1>1, <1>2, <1>3, <1>4

LEMMA LabelsOutcome ==
  ASSUME Service(svc), NEW w \in Calls, Shape(w), Asking(w), NEW y \in Outcomes(w),
         w.ask \in {"label", "assign", "unassign"}
  PROVE  Allowed(w, y)
<1> DEFINE h == Holder(w)
           t == w.got[Len(w.got)]
<1>0. h \in Ids \cup {Doc} /\ IsABag(svc.labels) /\ DOMAIN svc.labels \subseteq (Ids \cup {Doc}) \X Ids
  BY Ready DEF Service
<1>1. CASE w.ask = "label"
  <2>1. y \in LabelRoute(svc, h, w.to) /\ About(w, y) = y.used
    BY <1>1 DEF Outcomes, About
  <2> HIDE DEF h
  <2>2. "tag" \in Kind /\ w.kind = "tag" /\ w.to \in Name
    BY <1>1, Ready DEF Kind
  <2>3. PICK z \in CreateRoute(svc, "tag", w.to) : y = [z EXCEPT !.labels = Bag!BagAdd(z.labels, <<h, z.used>>)]
    BY <2>1 DEF LabelRoute
  <2>4. /\ Service(z) /\ z.used \in Ids /\ z.rows = svc.rows \cup {Row(z.used, "tag", w.to)}
        /\ z.members = svc.members /\ z.labels = svc.labels
    BY <2>2, <2>3, Created
  <2> DEFINE p == <<h, z.used>>
             L == Bag!BagAdd(z.labels, p)
  <2>p. p \in (Ids \cup {Doc}) \X Ids
    BY <1>0, <2>4
  <2> HIDE DEF p
  <2>5. IsABag(L) /\ DOMAIN L = DOMAIN svc.labels \cup {p}
    BY <1>0, <2>4, BagAdded
  <2>l. DOMAIN L \subseteq (Ids \cup {Doc}) \X Ids
    BY <1>0, <2>p, <2>5
  <2> HIDE DEF L
  <2>6. Service(y) /\ y.rows = z.rows /\ y.members = z.members /\ y.used = z.used
    BY <2>3, <2>4, <2>5, <2>l, WithLabels DEF L, p
  <2>7. y.rows = With(svc.rows, y.used, w.kind, w.to) /\ y.used \in Ids /\ y.used \in 0 .. MaxIds
    BY <2>2, <2>4, <2>6, Sizes DEF With
  <2> QED  BY <1>1, <2>1, <2>2, <2>4, <2>6, <2>7 DEF Allowed
<1>2. CASE w.ask = "assign"
  <2>1. y \in AssignRoute(svc, h, t) /\ About(w, y) = 0 /\ 0 \in 0 .. MaxIds /\ t \in Ids
    BY <1>2, Ready, Sizes DEF Outcomes, About
  <2> HIDE DEF h, t
  <2> DEFINE p == <<h, t>>
             L == Bag!BagAdd(svc.labels, p)
  <2>p. p \in (Ids \cup {Doc}) \X Ids
    BY <1>0, <2>1
  <2>3. y = [svc EXCEPT !.labels = L]
    BY <2>1 DEF AssignRoute
  <2> HIDE DEF p
  <2>2. IsABag(L) /\ DOMAIN L = DOMAIN svc.labels \cup {p}
    BY <1>0, BagAdded
  <2>l. DOMAIN L \subseteq (Ids \cup {Doc}) \X Ids
    BY <1>0, <2>p, <2>2
  <2> HIDE DEF L
  <2>4. Service(y) /\ y.rows = svc.rows /\ y.members = svc.members
    BY <2>2, <2>l, <2>3, WithLabels
  <2> QED  BY <1>2, <2>1, <2>4 DEF Allowed
<1>3. CASE w.ask = "unassign"
  <2>1. y \in UnassignRoute(svc, h, t) /\ About(w, y) = 0 /\ 0 \in 0 .. MaxIds
    BY <1>3, Sizes DEF Outcomes, About
  <2>0. h = Holder(w) /\ t = w.got[Len(w.got)]
    OBVIOUS
  <2> HIDE DEF h, t
  <2> DEFINE L == Bag!BagRemoveAll(svc.labels, <<h, t>>)
             z == [svc EXCEPT !.labels = L]
  <2>2. IsABag(L) /\ DOMAIN L \subseteq (Ids \cup {Doc}) \X Ids /\ DOMAIN L = DOMAIN svc.labels \ {<<h, t>>}
    BY <1>0, BagRemoved
  <2>3. y \in MayGo(z, t)
    BY <2>1 DEF UnassignRoute
  <2> HIDE DEF L
  <2>4. Service(z) /\ z.rows = svc.rows /\ z.members = svc.members /\ z.labels = L
    BY <2>2, WithLabels
  <2> HIDE DEF z
  <2>5. Service(y) /\ y.rows \subseteq z.rows /\ y.members = z.members /\ y.labels = z.labels
    BY <2>3, <2>4, MayGoes
  <2> QED  BY <1>3, <2>0, <2>1, <2>2, <2>4, <2>5 DEF Allowed
<1> QED  BY <1>1, <1>2, <1>3

LEMMA MembersOutcome ==
  ASSUME Service(svc), NEW w \in Calls, Shape(w), Asking(w), NEW y \in Outcomes(w),
         w.ask \in {"join", "expel"}
  PROVE  Allowed(w, y)
<1>0. svc.members \subseteq [id : Ids, group : Ids, role : Ids] /\ svc.used \in 0 .. MaxIds
  BY DEF Service
<1>1. CASE w.ask = "join"
  <2>1. y \in JoinRoute(svc, w.got[1], w.got[2]) /\ About(w, y) = 0 /\ 0 \in 0 .. MaxIds
    BY <1>1, Sizes DEF Outcomes, About
  <2>2. w.got[1] \in Ids /\ w.got[2] \in Ids
    BY <1>1, Ready
  <2> DEFINE m == [id |-> svc.used + 1, group |-> w.got[1], role |-> w.got[2]]
             u == svc.used + 1
             M == svc.members \cup {m}
  <2>3. svc.used # MaxIds /\ y = [svc EXCEPT !.members = M, !.used = u]
    BY <2>1 DEF JoinRoute
  <2>4. u \in Ids /\ u \in 0 .. MaxIds /\ svc.used <= u
    BY <1>0, <2>3, Sizes DEF Ids
  <2>5. M \subseteq [id : Ids, group : Ids, role : Ids]
    BY <1>0, <2>2, <2>4
  <2>6. y = [rows |-> svc.rows, members |-> M, labels |-> svc.labels, used |-> u]
    <3>1. svc = [rows |-> svc.rows, members |-> svc.members, labels |-> svc.labels, used |-> svc.used]
      BY DEF Service
    <3> HIDE DEF M, u
    <3>2. \A r, x, l, v : LET s == [rows |-> r, members |-> x, labels |-> l, used |-> v] IN
             [s EXCEPT !.members = M, !.used = u] = [[s EXCEPT !.used = u] EXCEPT !.members = M]
      OBVIOUS
    <3>3. y = [[svc EXCEPT !.used = u] EXCEPT !.members = M]
      BY <2>3, <3>1, <3>2, Zenon
    <3>4. [svc EXCEPT !.used = u] = [rows |-> svc.rows, members |-> svc.members, labels |-> svc.labels, used |-> u]
      BY Fields
    <3> QED  BY <3>3, <3>4
  <2> HIDE DEF M, u
  <2>7. \A e \in svc.rows : e.id <= u
    BY <1>0, <2>4, Sizes DEF Service, Entry
  <2>8. Service(y)
    BY <2>4, <2>5, <2>6, <2>7 DEF Service
  <2> QED  BY <1>1, <2>1, <2>6, <2>8 DEF Allowed
<1>2. CASE w.ask = "expel"
  <2> DEFINE M == {m \in svc.members : ~(m.group = w.got[1] /\ m.id \in w.ids)}
  <2>1. y = [svc EXCEPT !.members = M] /\ About(w, y) = 0 /\ 0 \in 0 .. MaxIds
    BY <1>2, Sizes DEF Outcomes, About, ExpelRoute
  <2>2. /\ M \subseteq svc.members /\ M \subseteq [id : Ids, group : Ids, role : Ids]
        /\ \A m \in M : m.id \in w.ids => m.group # w.got[1]
    BY <1>0
  <2> HIDE DEF M
  <2>3. Service(y) /\ y.rows = svc.rows /\ y.members = M /\ y.labels = svc.labels
    BY <2>1, <2>2, WithMembers
  <2> QED  BY <1>2, <2>1, <2>2, <2>3 DEF Allowed
<1> QED  BY <1>1, <1>2

LEMMA Outcome ==
  ASSUME Service(svc), NEW w \in Calls, Shape(w), Asking(w), NEW y \in Outcomes(w)
  PROVE  Allowed(w, y)
<1>1. w.ask \in Asks /\ w.ask # "none"
  BY Ready
<1> QED  BY <1>1, RowsOutcome, LabelsOutcome, MembersOutcome DEF Asks

-----------------------------------------------------------------------------
(* The calls. *)

\* A call that is as another but for its list and the histories.
Alike(v, w) ==
    /\ v.pc = w.pc /\ v.sess = w.sess /\ v.ask = w.ask /\ v.kind = w.kind /\ v.need = w.need /\ v.got = w.got
    /\ v.to = w.to /\ v.ids = w.ids /\ v.list = w.list /\ v.flaw = w.flaw /\ v.tries = w.tries
    /\ v.id = w.id /\ v.saw = w.saw /\ v.blind = w.blind

LEMMA AlikeCell ==
  ASSUME NEW w, NEW v, Cell(w), v \in Calls, Alike(v, w), v.knows \subseteq w.knows, w.pc # "new"
  PROVE  Cell(v)
BY DEF Cell, Shape, Alike, Underway, Looking, Settled, Query

LEMMA NewCallCell == Cell(NewCall)
BY Sizes DEF Cell, Calls, Shape, NewCall, NoList, List, Asks, Underway, Looking, Settled, Query, Query0, Least

\* What other calls do to a call.
Contest(w, b) == [w EXCEPT !.contested = b]
Cross(w, b)   == [w EXCEPT !.crossed = b]
Unlearn(w, X) == [w EXCEPT !.knows = @ \ X]

LEMMA Touch ==
  ASSUME NEW w \in Calls, NEW b \in BOOLEAN, NEW X
  PROVE  LET u == Contest(w, b)
             v == Cross(w, b)
             z == Unlearn(w, X)
         IN  /\ u \in Calls /\ Alike(u, w) /\ u.contested = b /\ u.crossed = w.crossed /\ u.knows = w.knows
             /\ v \in Calls /\ Alike(v, w) /\ v.contested = w.contested /\ v.crossed = b /\ v.knows = w.knows
             /\ z \in Calls /\ Alike(z, w) /\ z.contested = w.contested /\ z.crossed = w.crossed
             /\ z.knows = w.knows \ X
<1> DEFINE u == [w EXCEPT !.contested = b]
           v == [w EXCEPT !.crossed = b]
           z == [w EXCEPT !.knows = w.knows \ X]
<1>1. u \in Calls /\ v \in Calls /\ z \in Calls
  BY DEF Calls
<1>2. Alike(u, w) /\ u.contested = b /\ u.crossed = w.crossed /\ u.knows = w.knows
  BY DEF Calls, Alike
<1>3. Alike(v, w) /\ v.contested = w.contested /\ v.crossed = b /\ v.knows = w.knows
  BY DEF Calls, Alike
<1>4. Alike(z, w) /\ z.contested = w.contested /\ z.crossed = w.crossed /\ z.knows = w.knows \ X
  BY DEF Calls, Alike
<1> QED  BY <1>1, <1>2, <1>3, <1>4 DEF Contest, Cross, Unlearn

LEMMA NewTouched ==
  ASSUME NEW X
  PROVE  Contest(NewCall, FALSE) = NewCall /\ Cross(NewCall, FALSE) = NewCall /\ Unlearn(NewCall, X) = NewCall
<1> DEFINE u == [NewCall EXCEPT !.contested = FALSE]
           v == [NewCall EXCEPT !.crossed = FALSE]
           z == [NewCall EXCEPT !.knows = {}]
<1>1. NewCall.contested = FALSE /\ NewCall.crossed = FALSE /\ NewCall.knows = {} /\ NewCall \in Calls
  BY NewCallCell DEF NewCall, Cell
<1>2. \A w \in Calls : [w EXCEPT !.contested = w.contested] = w /\ [w EXCEPT !.crossed = w.crossed] = w
                       /\ [w EXCEPT !.knows = w.knows] = w
  BY DEF Calls
<1>3. NewCall.knows \ X = NewCall.knows
  BY <1>1
<1> QED  BY <1>1, <1>2, <1>3 DEF Contest, Cross, Unlearn

LEMMA Touched ==
  ASSUME NEW w, Cell(w), NEW b \in BOOLEAN, NEW X, w.pc = "new" => b = FALSE
  PROVE  Cell(Contest(w, b)) /\ Cell(Cross(w, b)) /\ Cell(Unlearn(w, X))
<1>1. w \in Calls
  BY DEF Cell
<1>2. CASE w.pc = "new"
  <2>1. w = NewCall /\ b = FALSE
    BY <1>2 DEF Cell, Shape
  <2> QED  BY <2>1, NewTouched, NewCallCell
<1>3. CASE w.pc # "new"
  <2>1. /\ Contest(w, b) \in Calls /\ Alike(Contest(w, b), w) /\ Contest(w, b).knows = w.knows
        /\ Cross(w, b) \in Calls /\ Alike(Cross(w, b), w) /\ Cross(w, b).knows = w.knows
        /\ Unlearn(w, X) \in Calls /\ Alike(Unlearn(w, X), w) /\ Unlearn(w, X).knows \subseteq w.knows
    BY <1>1, Touch
  <2> QED  BY <1>3, <2>1, AlikeCell
<1> QED  BY <1>2, <1>3

Asked(q, k, need, to, M) ==
    /\ q \in Asks \ {"none"} /\ k \in Kind /\ need \in Seq(Query0) /\ to \in Name \cup {None} /\ M \subseteq Ids
    /\ Len(need) >= Least(q) /\ (q \in {"create", "label", "rename"} <=> to \in Name) /\ (q = "label" => k = "tag")
    /\ \A j \in DOMAIN need : need[j].kind = "none" => need[j].arg \in Ids

Begun(s, q, k, need, to, M) ==
    [NewCall EXCEPT !.pc = "resolving", !.sess = s, !.ask = q, !.kind = k, !.need = need,
                    !.to = to, !.ids = M, !.knows = told[s]]

LEMMA BegunCell ==
  ASSUME NEW s \in Sess, NEW q, NEW k, NEW need, NEW to, NEW M, Asked(q, k, need, to, M),
         told \in [Sess -> SUBSET Ids], NEW b \in BOOLEAN
  PROVE  LET w == Begun(s, q, k, need, to, M) IN
         /\ Cell(w) /\ Cell(Contest(w, b)) /\ w.pc = "resolving" /\ w.sess = s /\ w.ask = q
         /\ w.got = <<>> /\ w.knows = told[s] /\ w.blind = 0 /\ w.to = to /\ w.kind = k
<1> DEFINE w == Begun(s, q, k, need, to, M)
<1>0. NewCall \in Calls
  BY NewCallCell DEF Cell
<1>1. /\ w.pc = "resolving" /\ w.sess = s /\ w.ask = q /\ w.kind = k /\ w.need = need /\ w.to = to
      /\ w.ids = M /\ w.knows = told[s]
  BY <1>0 DEF Begun, Calls
<1>2. /\ w.got = <<>> /\ w.list = NoList /\ w.flaw = "none" /\ w.crossed = FALSE /\ w.tries = 1 /\ w.id = 0
      /\ w.saw = {} /\ w.blind = 0 /\ w.contested = FALSE
  BY <1>0 DEF Begun, Calls, NewCall
<1>3. w \in Calls
  BY <1>0 DEF Begun, Calls, Asked
<1> HIDE DEF w
<1>4. Shape(w)
  BY <1>1, <1>2, Sizes DEF Asked, Shape, Underway, Looking, Settled
<1>5. Cell(w) /\ w.pc = "resolving"
  BY <1>1, <1>3, <1>4 DEF Cell
<1>6. Cell(Contest(w, b))
  BY <1>5, Touched
<1> QED  BY <1>1, <1>2, <1>5, <1>6 DEF w

LEMMA NamedQueries ==
  ASSUME NEW k \in Kind, NEW t \in Named(k)
  PROVE  t \in Query0 /\ t.kind = k /\ t.kind # "none"
<1>1. t.kind = k /\ t.arg \in Name \cup Ids /\ t = [kind |-> t.kind, arg |-> t.arg]
  BY Sizes DEF Named
<1>2. k # "none"
  BY DEF Kind
<1> QED  BY <1>1, <1>2 DEF Query0

\* One name, and two.
LEMMA Needs ==
  /\ <<>> \in Seq(Query0) /\ Len(<<>>) = 0 /\ \A j \in DOMAIN <<>> : FALSE
  /\ \A t \in Query0 : <<t>> \in Seq(Query0) /\ Len(<<t>>) = 1 /\ \A j \in DOMAIN <<t>> : <<t>>[j] = t
  /\ \A p, t \in Query0 : <<p, t>> \in Seq(Query0) /\ Len(<<p, t>>) = 2
                          /\ \A j \in DOMAIN <<p, t>> : <<p, t>>[j] \in {p, t}
BY DEF Query0

\* What a tool begins is a call with names to look up.
Begins(c, s) == \E q, k, need, to, M : Asked(q, k, need, to, M) /\ Begin(c, s, q, k, need, to, M)

LEMMA Creates ==
  ASSUME NEW c, NEW s, NEW k \in Kind, NEW n \in Name, NEW q \in {"create", "label"}, q = "label" => k = "tag",
         Begin(c, s, q, k, <<>>, n, {})
  PROVE  Begins(c, s)
<1>1. Asked(q, k, <<>>, n, {})
  BY Needs DEF Asked, Least, Asks
<1> QED  BY <1>1 DEF Begins

LEMMA Labels ==
  ASSUME NEW c, NEW s, NEW p \in Query0, p.kind # "none", NEW n \in Name, Begin(c, s, "label", "tag", <<p>>, n, {})
  PROVE  Begins(c, s)
<1>1. Asked("label", "tag", <<p>>, n, {})
  BY Needs DEF Asked, Least, Asks, Kind
<1> QED  BY <1>1 DEF Begins

LEMMA RenamesOne ==
  ASSUME NEW c, NEW s, NEW k \in Kind, NEW t \in Query0, t.kind = "none" => t.arg \in Ids, NEW n \in Name,
         Begin(c, s, "rename", k, <<t>>, n, {})
  PROVE  Begins(c, s)
<1>1. Asked("rename", k, <<t>>, n, {})
  BY Needs DEF Asked, Least, Asks
<1> QED  BY <1>1 DEF Begins

LEMMA AsksForOne ==
  ASSUME NEW c, NEW s, NEW k \in Kind, NEW t \in Query0, t.kind = "none" => t.arg \in Ids,
         NEW q \in {"delete", "update", "assign", "unassign", "use", "expel"}, NEW M \in SUBSET Ids,
         Begin(c, s, q, k, <<t>>, None, M)
  PROVE  Begins(c, s)
<1>1. Asked(q, k, <<t>>, None, M)
  BY Needs, Sizes DEF Asked, Least, Asks
<1> QED  BY <1>1 DEF Begins

LEMMA AsksForTwo ==
  ASSUME NEW c, NEW s, NEW k \in Kind, NEW p \in Query0, NEW t \in Query0, p.kind # "none", t.kind # "none",
         NEW q \in {"assign", "unassign", "join"}, Begin(c, s, q, k, <<p, t>>, None, {})
  PROVE  Begins(c, s)
<1>1. Asked(q, k, <<p, t>>, None, {})
  BY Needs, Sizes DEF Asked, Least, Asks
<1> QED  BY <1>1 DEF Begins

LEMMA NumberQuery ==
  ASSUME Service(svc), NEW i \in Alive("category")
  PROVE  [kind |-> "none", arg |-> i] \in Query0 /\ [kind |-> "none", arg |-> i].arg \in Ids
BY DEF Alive, Rows, Service, Entry, Query0

LEMMA ToolBegins ==
  ASSUME Service(svc), NEW c \in Call, NEW s \in Sess, Tool(c, s)
  PROVE  Begins(c, s)
<1>0. "role" \in Kind /\ "tag" \in Kind /\ "field" \in Kind /\ "group" \in Kind /\ "category" \in Kind
      /\ {} \in SUBSET Ids
  BY DEF Kind
<1>1. CASE TagDocuments(c, s)
  <2>1. ASSUME NEW n \in Name, Begin(c, s, "label", "tag", <<>>, n, {}) PROVE Begins(c, s)
    BY <1>0, <2>1, Creates
  <2>2. ASSUME NEW t \in Named("tag"), NEW q \in {"assign", "unassign"}, Begin(c, s, q, "tag", <<t>>, None, {})
        PROVE  Begins(c, s)
    BY <1>0, <2>2, NamedQueries, AsksForOne
  <2> QED  BY <1>1, <2>1, <2>2 DEF TagDocuments
<1>2. CASE TagEmployees(c, s)
  <2>1. ASSUME NEW p \in Named("role"), NEW n \in Name, Begin(c, s, "label", "tag", <<p>>, n, {})
        PROVE  Begins(c, s)
    BY <1>0, <2>1, NamedQueries, Labels
  <2>2. ASSUME NEW p \in Named("role"), NEW t \in Named("tag"), NEW q \in {"assign", "unassign"},
               Begin(c, s, q, "tag", <<p, t>>, None, {})
        PROVE  Begins(c, s)
    BY <1>0, <2>2, NamedQueries, AsksForTwo
  <2> QED  BY <1>2, <2>1, <2>2 DEF TagEmployees
<1>3. CASE CreateField(c, s) \/ CreateCategory(c, s) \/ CreateGroup(c, s) \/ CreateCoworker(c, s)
  BY <1>0, <1>3, Creates DEF CreateField, CreateCategory, CreateGroup, CreateCoworker
<1>4. CASE UpdateField(c, s) \/ RenameGroup(c, s)
  BY <1>0, <1>4, NamedQueries, RenamesOne DEF UpdateField, RenameGroup
<1>5. CASE SetDocumentField(c, s) \/ FromTemplate(c, s) \/ DeleteGroup(c, s) \/ UpdateRole(c, s) \/ DeleteRole(c, s)
  BY <1>0, <1>5, NamedQueries, AsksForOne DEF SetDocumentField, FromTemplate, DeleteGroup, UpdateRole, DeleteRole
<1>6. CASE RenameCategory(c, s)
  BY <1>0, <1>6, NumberQuery, RenamesOne DEF RenameCategory
<1>7. CASE DeleteCategory(c, s)
  BY <1>0, <1>7, NumberQuery, AsksForOne DEF DeleteCategory
<1>8. CASE GroupMembers(c, s)
  <2>1. PICK g \in Named("group") :
          \/ \E p \in Named("role") : Begin(c, s, "join", "group", <<g, p>>, None, {})
          \/ \E t \in Alive("group") : LET M == {m.id : m \in {x \in svc.members : x.group = t}} IN
                M # {} /\ Begin(c, s, "expel", "group", <<g>>, None, M)
    BY <1>8 DEF GroupMembers
  <2>2. g \in Query0 /\ g.kind # "none"
    BY <1>0, <2>1, NamedQueries
  <2>3. CASE \E p \in Named("role") : Begin(c, s, "join", "group", <<g, p>>, None, {})
    BY <1>0, <2>2, <2>3, NamedQueries, AsksForTwo
  <2>4. ASSUME NEW t \in Alive("group"),
               Begin(c, s, "expel", "group", <<g>>, None, {m.id : m \in {x \in svc.members : x.group = t}})
        PROVE  Begins(c, s)
    <3> DEFINE M == {m.id : m \in {x \in svc.members : x.group = t}}
    <3>1. M \in SUBSET Ids
      BY DEF Service
    <3> HIDE DEF M
    <3>2. Begin(c, s, "expel", "group", <<g>>, None, M)
      BY <2>4 DEF M
    <3> QED  BY <1>0, <2>2, <3>1, <3>2, AsksForOne
  <2> QED  BY <2>1, <2>3, <2>4
<1> QED  BY <1>1, <1>2, <1>3, <1>4, <1>5, <1>6, <1>7, <1>8 DEF Tool

\* What a call keeps while it looks names up.
Kept(v, w) ==
    /\ v.sess = w.sess /\ v.ask = w.ask /\ v.kind = w.kind /\ v.need = w.need /\ v.to = w.to /\ v.ids = w.ids
    /\ v.tries = w.tries /\ v.id = w.id /\ v.saw = w.saw /\ v.blind = w.blind /\ v.knows = w.knows
    /\ v.contested = w.contested

\* A name that was looked up in a list l is found, or missing.
Told(v, w, l) ==
    /\ v \in Calls /\ Kept(v, w) /\ v.flaw = Worse(w.flaw, l.flaw) /\ v.list = NoList /\ v.crossed = FALSE
    /\ \/ v.pc = "missing" /\ v.got = w.got /\ Fitting(l, Query(w)) = {}
       \/ v.pc = "resolving" /\ \E i \in Fitting(l, Query(w)) : i \in Ids /\ v.got = Append(w.got, i)

LEMMA FoundTold ==
  ASSUME NEW w \in Calls, NEW l \in List, NEW v \in Found(w, l)
  PROVE  Told(v, w, l)
<1> DEFINE u == [w EXCEPT !.flaw = Worse(@, l.flaw), !.list = NoList, !.crossed = FALSE]
<1>1. Worse(w.flaw, l.flaw) \in {"none", "cut", "stale"} /\ NoList \in List
  BY DEF Worse, NoList, List
<1>2. /\ u \in Calls /\ Kept(u, w) /\ u.flaw = Worse(w.flaw, l.flaw) /\ u.list = NoList /\ u.crossed = FALSE
      /\ u.got = w.got
  BY <1>1 DEF Calls, Kept
<1>3. Fitting(l, Query(w)) \subseteq Ids
  BY DEF Fitting, List, Entry
<1>4. IF Fitting(l, Query(w)) = {} THEN v = [u EXCEPT !.pc = "missing"]
      ELSE \E i \in Fitting(l, Query(w)) : v = [u EXCEPT !.pc = "resolving", !.got = Append(@, i)]
  BY DEF Found
<1> HIDE DEF u
<1>5. CASE Fitting(l, Query(w)) = {}
  <2>1. /\ v \in Calls /\ Kept(v, u) /\ v.flaw = u.flaw /\ v.list = u.list /\ v.crossed = u.crossed
        /\ v.got = u.got /\ v.pc = "missing"
    BY <1>2, <1>4, <1>5 DEF Calls, Kept
  <2> QED  BY <1>2, <1>5, <2>1 DEF Told, Kept
<1>6. CASE Fitting(l, Query(w)) # {}
  <2>1. PICK i \in Fitting(l, Query(w)) : v = [u EXCEPT !.pc = "resolving", !.got = Append(@, i)]
    BY <1>4, <1>6
  <2>2. i \in Ids /\ Append(u.got, i) \in Seq(Ids)
    BY <1>2, <1>3, <2>1 DEF Calls
  <2>3. /\ v \in Calls /\ Kept(v, u) /\ v.flaw = u.flaw /\ v.list = u.list /\ v.crossed = u.crossed
        /\ v.got = Append(u.got, i) /\ v.pc = "resolving"
    BY <1>2, <2>1, <2>2 DEF Calls, Kept
  <2> QED  BY <1>2, <2>1, <2>2, <2>3 DEF Told, Kept
<1> QED  BY <1>5, <1>6

\* A call whose next name is being looked up.
Seeking(w) == /\ Looking(w) /\ Len(w.got) < Len(w.need)
              /\ Query(w).arg \in Ids \/ Query(w).kind \in Kind

LEMMA ToldCell ==
  ASSUME NEW w, Cell(w), Seeking(w), NEW l, NEW v, Told(v, w, l)
  PROVE  Cell(v)
<1>1. /\ w.got \in Seq(Ids) /\ w.need \in Seq(Query0) /\ Len(w.got) < Len(w.need)
      /\ Underway(w) /\ w.pc # "new" /\ w.pc # "error" /\ ~Settled(w) /\ v \in Calls /\ Shape(w) /\ Looking(w)
  BY DEF Cell, Calls, Seeking, Looking, Underway, Settled, Told
<1>2. CASE v.pc = "missing"
  <2>1. v.got = w.got /\ Fitting(l, Query(w)) = {}
    BY <1>2 DEF Told
  <2>2. Query(w).arg \notin Ids
    BY <2>1 DEF Fitting
  <2>3. Query(v) = Query(w) /\ Query(w).kind \in Kind
    BY <2>1, <2>2 DEF Told, Kept, Query, Seeking
  <2> QED  BY <1>1, <1>2, <2>1, <2>3 DEF Told, Kept, Cell, Shape, Looking, Underway, Settled
<1>3. CASE v.pc = "resolving"
  <2>1. PICK i \in Ids : v.got = Append(w.got, i)
    BY <1>3 DEF Told
  <2>2. Len(v.got) = Len(w.got) + 1 /\ Len(v.got) <= Len(v.need)
    BY <1>1, <2>1 DEF Told, Kept
  <2> QED  BY <1>1, <1>3, <2>2 DEF Told, Kept, Cell, Shape, Looking, Underway, Settled
<1> QED  BY <1>2, <1>3 DEF Told

\* A call waits for a list, receives it, or gives up.
LEMMA Awaits ==
  ASSUME NEW w \in Calls, NEW v, v = [w EXCEPT !.pc = "reading"]
  PROVE  /\ v \in Calls /\ Kept(v, w) /\ v.pc = "reading" /\ v.got = w.got /\ v.flaw = w.flaw
         /\ v.list = w.list /\ v.crossed = w.crossed
<1>1. v \in Calls
  BY DEF Calls
<1> QED  BY <1>1 DEF Calls, Kept

Receiving(w, l) == [w EXCEPT !.pc = "fetched", !.list = l]

LEMMA Receives ==
  ASSUME NEW w \in Calls, NEW l \in List, NEW v, v = Receiving(w, l)
  PROVE  /\ v \in Calls /\ Kept(v, w) /\ v.pc = "fetched" /\ v.got = w.got /\ v.flaw = w.flaw
         /\ v.list = l /\ v.crossed = w.crossed
<1>1. v \in Calls
  BY DEF Calls, Receiving
<1> QED  BY <1>1 DEF Calls, Kept, Receiving

LEMMA GivesUp ==
  ASSUME NEW w \in Calls, NEW v, v = [w EXCEPT !.pc = "failing", !.crossed = FALSE]
  PROVE  /\ v \in Calls /\ Kept(v, w) /\ v.pc = "failing" /\ v.got = w.got /\ v.flaw = w.flaw
         /\ v.list = w.list /\ v.crossed = FALSE
<1>1. v \in Calls
  BY DEF Calls
<1> QED  BY <1>1 DEF Calls, Kept

LEMMA WaitsCell ==
  ASSUME NEW w, Cell(w), Seeking(w), NEW v \in Calls, Kept(v, w), v.got = w.got,
         \/ v.pc = "reading" /\ Query(w).kind \in Kind
         \/ v.pc = "fetched" /\ Query(w).kind \in Kind /\ \A e \in v.list.rows : e.kind = Query(w).kind
         \/ v.pc = "failing"
  PROVE  Cell(v)
<1>1. /\ Len(w.got) < Len(w.need) /\ Underway(w) /\ w.pc # "new" /\ w.pc # "error" /\ ~Settled(w)
      /\ Shape(w) /\ Looking(w) /\ Query(v) = Query(w)
  BY DEF Cell, Seeking, Looking, Underway, Settled, Kept, Query
<1> QED  BY <1>1 DEF Kept, Cell, Shape, Looking, Underway, Settled

LEMMA UnansweredCell ==
  ASSUME NEW w, Cell(w), Asking(w)
  PROVE  LET v == Unanswered(w) IN
         /\ Cell(v) /\ v.sess = w.sess /\ v.ask = w.ask /\ v.kind = w.kind /\ v.to = w.to /\ v.need = w.need
         /\ v.got = w.got /\ v.knows = w.knows /\ v.flaw = w.flaw /\ v.blind > 0 /\ v.contested = w.contested
         /\ v.pc \in {"resolving", "failing"} /\ v.crossed = w.crossed
<1> DEFINE v == Unanswered(w)
<1>1. w \in Calls /\ w.pc = "resolving" /\ w.blind = w.tries - 1 /\ Shape(w) /\ Len(w.got) = Len(w.need)
  BY DEF Cell, Asking, Shape, Looking
<1>2. w.tries \in 1 .. Retries /\ w.blind \in 0 .. Retries
  BY <1>1 DEF Calls
<1>3. /\ w.blind + 1 \in 0 .. Retries
      /\ (IF w.tries < Retries THEN w.tries + 1 ELSE w.tries) \in 1 .. Retries
  BY <1>1, <1>2, Sizes
<1>4. v \in Calls
  BY <1>1, <1>3 DEF Unanswered, Calls
<1>5. /\ v.sess = w.sess /\ v.ask = w.ask /\ v.kind = w.kind /\ v.to = w.to /\ v.need = w.need
      /\ v.got = w.got /\ v.knows = w.knows /\ v.flaw = w.flaw /\ v.contested = w.contested
      /\ v.id = w.id /\ v.crossed = w.crossed
  BY <1>1 DEF Unanswered, Calls
<1>6. /\ v.blind = w.blind + 1 /\ v.tries = (IF w.tries < Retries THEN w.tries + 1 ELSE w.tries)
      /\ v.pc = IF w.tries < Retries THEN "resolving" ELSE "failing"
  BY <1>1 DEF Unanswered, Calls
<1> HIDE DEF v
<1>7. v.blind > 0
  BY <1>2, <1>6
<1>8. Looking(v) => v.blind = v.tries - 1
  BY <1>1, <1>2, <1>6 DEF Looking
<1>9. v.pc \in {"resolving", "failing"}
  BY <1>6
<1>10. Shape(v)
  BY <1>1, <1>5, <1>8, <1>9 DEF Shape, Underway, Settled
<1>11. Cell(v)
  BY <1>4, <1>9, <1>10 DEF Cell
<1> QED  BY <1>5, <1>7, <1>9, <1>11 DEF v

LEMMA AnsweredCell ==
  ASSUME NEW w, Cell(w), Asking(w), NEW y, Allowed(w, y)
  PROVE  LET v == Answered(w, y) IN
         /\ Cell(v) /\ v.sess = w.sess /\ v.ask = w.ask /\ v.kind = w.kind /\ v.to = w.to /\ v.need = w.need
         /\ v.got = w.got /\ v.knows = w.knows /\ v.flaw = w.flaw /\ v.blind = w.blind /\ v.ids = w.ids
         /\ v.contested = w.contested /\ v.pc = "answered" /\ v.crossed = w.crossed
<1> DEFINE v == Answered(w, y)
<1>1. w \in Calls /\ w.pc = "resolving" /\ Shape(w) /\ Len(w.got) = Len(w.need)
  BY DEF Cell, Asking
<1>2. /\ {e \in y.rows : e.id = About(w, y)} \in SUBSET Entry /\ About(w, y) \in 0 .. MaxIds
      /\ About(w, y) # 0 => w.ask \in {"create", "rename", "delete", "label"}
  BY DEF Allowed, Service
<1>4. v \in Calls
  BY <1>1, <1>2 DEF Answered, Calls
<1>5. /\ v.sess = w.sess /\ v.ask = w.ask /\ v.kind = w.kind /\ v.to = w.to /\ v.need = w.need
      /\ v.got = w.got /\ v.knows = w.knows /\ v.flaw = w.flaw /\ v.contested = w.contested
      /\ v.blind = w.blind /\ v.ids = w.ids /\ v.crossed = w.crossed
  BY <1>1 DEF Answered, Calls
<1>6. v.pc = "answered" /\ v.id = About(w, y)
  BY <1>1 DEF Answered, Calls
<1> HIDE DEF v
<1>7. Shape(v)
  BY <1>1, <1>2, <1>5, <1>6 DEF Shape, Underway, Settled, Looking
<1>8. Cell(v)
  BY <1>4, <1>6, <1>7 DEF Cell
<1> QED  BY <1>5, <1>6, <1>8 DEF v

LEMMA FailingCell ==
  ASSUME NEW w, Cell(w), Asking(w)
  PROVE  LET v == [w EXCEPT !.pc = "failing"] IN
         Cell(v) /\ Kept(v, w) /\ v.got = w.got /\ v.flaw = w.flaw /\ v.crossed = w.crossed /\ v.pc = "failing"
<1> DEFINE v == [w EXCEPT !.pc = "failing"]
<1>1. w \in Calls /\ w.pc = "resolving" /\ Shape(w) /\ Len(w.got) = Len(w.need)
  BY DEF Cell, Asking
<1>2. v \in Calls /\ Kept(v, w) /\ v.got = w.got /\ v.pc = "failing" /\ v.flaw = w.flaw /\ v.crossed = w.crossed
  BY <1>1 DEF Calls, Kept
<1> HIDE DEF v
<1>3. Cell(v)
  BY <1>1, <1>2 DEF Cell, Kept, Shape, Underway, Settled, Looking
<1> QED  BY <1>2, <1>3 DEF v

LEMMA ResultCell ==
  ASSUME NEW w, Cell(w), w.pc \in {"answered", "missing", "failing"}
  PROVE  LET v == Result(w) IN
         /\ Cell(v) /\ v.ask = w.ask /\ v.kind = w.kind /\ v.to = w.to /\ v.blind = w.blind /\ v.knows = {}
         /\ v.pc = IF w.pc = "answered" THEN "ok" ELSE "error"
         /\ w.pc = "answered" => v.need = w.need /\ v.got = w.got /\ v.ids = w.ids /\ v.contested = w.contested
<1> DEFINE u == [NewCall EXCEPT !.ask = w.ask, !.kind = w.kind, !.to = w.to, !.blind = w.blind]
           v == Result(w)
<1>0. NewCall \in Calls /\ NewCall.knows = {} /\ NewCall.got = <<>> /\ NewCall.need = <<>>
  BY NewCallCell DEF Cell, NewCall
<1>1. w \in Calls /\ Shape(w)
  BY DEF Cell
<1>2. /\ u \in Calls /\ u.ask = w.ask /\ u.kind = w.kind /\ u.to = w.to /\ u.blind = w.blind /\ u.knows = {}
      /\ u.got = <<>> /\ u.need = <<>>
  BY <1>0, <1>1 DEF Calls
<1>3. v = IF w.pc = "answered"
          THEN [u EXCEPT !.pc = "ok", !.need = w.need, !.got = w.got, !.ids = w.ids, !.contested = w.contested]
          ELSE [u EXCEPT !.pc = "error"]
  BY DEF Result
<1> HIDE DEF u, v
<1>4. CASE w.pc = "answered"
  <2>1. /\ v \in Calls /\ v.ask = u.ask /\ v.kind = u.kind /\ v.to = u.to /\ v.blind = u.blind
        /\ v.knows = u.knows /\ v.pc = "ok" /\ v.need = w.need /\ v.got = w.got /\ v.ids = w.ids
        /\ v.contested = w.contested
    BY <1>1, <1>2, <1>3, <1>4 DEF Calls
  <2>2. Shape(v)
    BY <1>1, <1>2, <1>4, <2>1 DEF Shape, Underway, Settled, Looking
  <2>3. Cell(v)
    BY <2>1, <2>2 DEF Cell
  <2> QED  BY <1>2, <1>4, <2>1, <2>3 DEF v
<1>5. CASE w.pc # "answered"
  <2>1. /\ v \in Calls /\ v.ask = u.ask /\ v.kind = u.kind /\ v.to = u.to /\ v.blind = u.blind
        /\ v.knows = u.knows /\ v.pc = "error" /\ v.need = <<>> /\ v.got = <<>>
    BY <1>2, <1>3, <1>5 DEF Calls
  <2>2. Shape(v)
    BY <1>1, <1>2, <2>1 DEF Shape, Underway, Settled, Looking
  <2>3. Cell(v)
    BY <2>1, <2>2 DEF Cell
  <2> QED  BY <1>2, <1>5, <2>1, <2>3 DEF v
<1> QED  BY <1>4, <1>5

\* An id that is given stands for itself when no list comes.
LEMMA IdStands ==
  ASSUME NEW w, Cell(w), w.pc = "reading", Query(w).arg \in Ids
  PROVE  LET v == [w EXCEPT !.pc = "resolving", !.got = Append(@, Query(w).arg), !.crossed = FALSE] IN
         /\ Cell(v) /\ Kept(v, w) /\ v.pc = "resolving" /\ v.flaw = w.flaw /\ v.crossed = FALSE
         /\ v.got = Append(w.got, Query(w).arg)
<1> DEFINE a == Query(w).arg
           v == [w EXCEPT !.pc = "resolving", !.got = Append(@, a), !.crossed = FALSE]
<1>1. /\ w \in Calls /\ Shape(w) /\ w.got \in Seq(Ids) /\ w.need \in Seq(Query0) /\ Len(w.got) < Len(w.need)
      /\ a \in Ids
  BY DEF Cell, Calls, Shape
<1> HIDE DEF a
<1>2. Append(w.got, a) \in Seq(Ids) /\ Len(Append(w.got, a)) = Len(w.got) + 1
  BY <1>1
<1>3. /\ v \in Calls /\ Kept(v, w) /\ v.pc = "resolving" /\ v.flaw = w.flaw /\ v.crossed = FALSE
      /\ v.got = Append(w.got, a)
  BY <1>1, <1>2 DEF Calls, Kept
<1> HIDE DEF v
<1>4. Len(v.got) <= Len(v.need)
  BY <1>1, <1>2, <1>3 DEF Kept
<1>5. Shape(v)
  BY <1>1, <1>3, <1>4 DEF Kept, Shape, Looking, Underway, Settled
<1>6. Cell(v)
  BY <1>3, <1>5 DEF Cell
<1> QED  BY <1>3, <1>6 DEF v, a

\* What is read is there.
LEMMA Listed0 ==
  ASSUME Service(svc), NEW k \in Kind, NEW l \in Listings(k)
  PROVE  /\ l \in List /\ l.known = TRUE /\ l.rows \subseteq Rows(k) /\ \A e \in l.rows : e.kind = k
         /\ l.flaw = "none" => l.rows = Rows(k)
<1>1. PICK P \in Pages(k) : l = [rows |-> P, flaw |-> IF P = Rows(k) THEN "none" ELSE "cut", known |-> TRUE]
  BY DEF Listings
<1>2. P \subseteq Rows(k) /\ Rows(k) \subseteq svc.rows /\ \A e \in Rows(k) : e.kind = k
  BY <1>1 DEF Pages, Rows
<1>3. P \in SUBSET Entry
  BY <1>2 DEF Service
<1> QED  BY <1>1, <1>2, <1>3 DEF List

LEMMA Page ==
  ASSUME Service(svc), NEW k \in Kind
  PROVE  \E l \in Listings(k) : TRUE
<1> DEFINE R == Rows(k)
<1>1. IsFiniteSet(svc.rows) /\ R \in SUBSET svc.rows
  BY DEF Service, Rows
<1> HIDE DEF R
<1>2. IsFiniteSet(R) /\ Cardinality(R) \in Nat
  BY <1>1, FS_Subset, FS_CardinalityType
<1>3. \E P : P \in Pages(k)
  <2>1. CASE k = "tag" /\ Cardinality(R) > TagPage
    <3>1. PICK f : f \in Bijection(1 .. Cardinality(R), R)
      BY <1>2, FS_CardinalityType DEF ExistsBijection
    <3>2. TagPage \in Nat /\ TagPage > 0 /\ 1 .. TagPage \subseteq 1 .. Cardinality(R)
      BY <1>2, <2>1, Sizes
    <3>3. f \in [1 .. Cardinality(R) -> R] /\ \A i, j \in 1 .. Cardinality(R) : f[i] = f[j] => i = j
      BY <3>1 DEF Bijection, Injection, IsInjective
    <3> DEFINE P == {f[i] : i \in 1 .. TagPage}
               g == [i \in 1 .. TagPage |-> f[i]]
    <3>4. P \in SUBSET R
      BY <3>2, <3>3
    <3>5. g \in Bijection(1 .. TagPage, P)
      BY <3>2, <3>3 DEF Bijection, Injection, Surjection, IsInjective
    <3>6. IsFiniteSet(1 .. TagPage) /\ Cardinality(1 .. TagPage) = TagPage
      BY <3>2, FS_Interval
    <3>7. ExistsBijection(1 .. TagPage, P)
      BY <3>5 DEF ExistsBijection
    <3> HIDE DEF P
    <3>8. Cardinality(P) = TagPage
      BY <3>6, <3>7, FS_Bijection
    <3>9. P \in Pages(k)
      BY <2>1, <3>4, <3>8 DEF Pages, R
    <3> QED  BY <3>9
  <2>2. CASE ~(k = "tag" /\ Cardinality(R) > TagPage)
    BY <2>2 DEF Pages, R
  <2> QED  BY <2>1, <2>2
<1>4. PICK P : P \in Pages(k)
  BY <1>3
<1>5. [rows |-> P, flaw |-> IF P = Rows(k) THEN "none" ELSE "cut", known |-> TRUE] \in Listings(k)
  BY <1>4 DEF Listings
<1> QED  BY <1>5

LEMMA SeedFacts ==
  /\ Len(Seed) \in Nat /\ Len(Seed) <= MaxIds /\ DOMAIN Seed = 1 .. Len(Seed)
  /\ \A i \in DOMAIN Seed : Seed[i].kind \in Kind /\ Seed[i].name \in Name
<1> DEFINE X == [kind : Kind, name : Name]
<1>1. Seed \in Seq(X) /\ Len(Seed) <= MaxIds
  BY DirectoryAssumption
<1>2. \A x \in X : x.kind \in Kind /\ x.name \in Name
  OBVIOUS
<1> HIDE DEF X
<1>3. Len(Seed) \in Nat /\ DOMAIN Seed = 1 .. Len(Seed) /\ \A i \in DOMAIN Seed : Seed[i] \in X
  BY <1>1
<1> QED  BY <1>1, <1>2, <1>3

LEMMA InitTInv == Init => TInv
<1> SUFFICES ASSUME Init PROVE TInv
  OBVIOUS
<1>1. Service(svc)
  <2>1. svc = Seeded
    BY DEF Init
  <2> DEFINE R == {Row(i, Seed[i].kind, Seed[i].name) : i \in DOMAIN Seed}
  <2>2. svc.rows = R /\ svc.members = {} /\ svc.labels = EmptyBag /\ svc.used = Len(Seed)
        /\ svc = [rows |-> svc.rows, members |-> svc.members, labels |-> svc.labels, used |-> svc.used]
    BY <2>1 DEF Seeded
  <2>3. /\ Len(Seed) \in Nat /\ Len(Seed) <= MaxIds /\ DOMAIN Seed = 1 .. Len(Seed) /\ MaxIds \in Nat
        /\ \A i \in DOMAIN Seed : Seed[i].kind \in Kind /\ Seed[i].name \in Name
    BY Sizes, SeedFacts
  <2>4. \A i \in DOMAIN Seed : Row(i, Seed[i].kind, Seed[i].name) \in Entry
                               /\ Row(i, Seed[i].kind, Seed[i].name).id = i
    BY <2>3 DEF Row, Entry, Ids
  <2>5. R \subseteq Entry /\ (\A e \in R : e.id <= Len(Seed)) /\ \A e, f \in R : e.id = f.id => e = f
    BY <2>3, <2>4
  <2>6. IsFiniteSet(R)
    <3>1. IsFiniteSet(DOMAIN Seed)
      BY <2>3, FS_Interval
    <3> DEFINE g == [i \in DOMAIN Seed |-> Row(i, Seed[i].kind, Seed[i].name)]
    <3>2. g \in Surjection(DOMAIN Seed, R)
      BY DEF Surjection
    <3> HIDE DEF R, g
    <3> QED  BY <3>1, <3>2, FS_Surjection
  <2>7. IsABag(EmptyBag) /\ DOMAIN EmptyBag = {}
    BY DEF IsABag, EmptyBag, SetToBag
  <2> HIDE DEF R
  <2> QED  BY <2>2, <2>3, <2>5, <2>6, <2>7 DEF Service
<1>2. Lists
  <2>1. PICK S \in SUBSET Sess : cache = [s \in Sess |-> [k \in Kind |->
              IF s \in S THEN CHOOSE l \in Listings(k) : TRUE ELSE NoList]]
    BY DEF Init
  <2>2. \A k \in Kind : LET l == CHOOSE l \in Listings(k) : TRUE IN l \in List /\ \A e \in l.rows : e.kind = k
    BY <1>1, Page, Listed0
  <2>3. NoList \in List /\ NoList.rows = {}
    BY DEF NoList, List
  <2> QED  BY <2>1, <2>2, <2>3 DEF Lists
<1>3. Cells
  BY NewCallCell DEF Init, Cells, Cell
<1>4. told \in [Sess -> SUBSET Ids]
  BY DEF Init
<1> QED  BY <1>1, <1>2, <1>3, <1>4 DEF TInv

-----------------------------------------------------------------------------
(* The steps: what becomes of the calls, and the types. *)

LEMMA OneCall ==
  ASSUME Cells, NEW c \in Call, NEW v, Cell(v), call' = [call EXCEPT ![c] = v]
  PROVE  Cells' /\ call'[c] = v /\ \A x \in Call : x # c => call'[x] = call[x]
<1>1. call \in [Call -> Calls] /\ v \in Calls /\ \A x \in Call : Cell(call[x])
  BY DEF Cells, Cell
<1>2. call' \in [Call -> Calls] /\ call'[c] = v /\ \A x \in Call : x # c => call'[x] = call[x]
  BY <1>1
<1> QED  BY <1>1, <1>2 DEF Cells

\* A name that is looked up in a list is a name of an entry.
LEMMA Asked0 ==
  ASSUME NEW w, Cell(w), w.pc # "new", Len(w.got) < Len(w.need)
  PROVE  /\ Query(w) \in Query0 /\ Len(w.got) + 1 \in DOMAIN w.need /\ Query(w) = w.need[Len(w.got) + 1]
         /\ Query(w).kind = "none" => Query(w).arg \in Ids
         /\ Query(w).kind \in Kind \/ Query(w).arg \in Ids
         /\ ~(Query(w).arg \in Ids /\ Query(w).kind \notin Listed) => Query(w).kind \in Kind
<1>1. w.got \in Seq(Ids) /\ w.need \in Seq(Query0) /\ Shape(w)
  BY DEF Cell, Calls
<1>2. Query(w) \in Query0 /\ Len(w.got) + 1 \in DOMAIN w.need /\ Query(w) = w.need[Len(w.got) + 1]
  BY <1>1 DEF Query
<1>3. Query(w).kind = "none" => Query(w).arg \in Ids
  BY <1>1, <1>2 DEF Shape
<1>4. Query(w).kind \in Kind \cup {"none"}
  BY <1>2 DEF Query0
<1> QED  BY <1>2, <1>3, <1>4 DEF Listed

LEMMA StraightDoes ==
  ASSUME Cells, NEW c \in Call, Straight(c)
  PROVE  LET w == call[c] IN
         /\ Cell(w) /\ Seeking(w) /\ w.pc = "resolving" /\ Query(w).arg \in Ids
         /\ Told(call'[c], w, NoList) /\ Cell(call'[c])
         /\ Cells' /\ (\A x \in Call : x # c => call'[x] = call[x]) /\ UNCHANGED <<svc, cache, told>>
<1> DEFINE w == call[c]
<1>1. Cell(w) /\ Seeking(w) /\ w.pc = "resolving" /\ Query(w).arg \in Ids
  BY DEF Cells, Straight, Resolving, Seeking, Looking
<1>2. PICK v \in Found(w, NoList) : call' = [call EXCEPT ![c] = v]
  BY DEF Straight
<1> HIDE DEF w
<1>3. NoList \in List /\ w \in Calls
  BY <1>1 DEF NoList, List, Cell
<1>4. Told(v, w, NoList)
  BY <1>2, <1>3, FoundTold
<1>5. Cell(v)
  BY <1>1, <1>4, ToldCell
<1>6. Cells' /\ call'[c] = v /\ \A x \in Call : x # c => call'[x] = call[x]
  BY <1>2, <1>5, OneCall
<1>7. UNCHANGED <<svc, cache, told>>
  BY DEF Straight
<1> QED  BY <1>1, <1>4, <1>5, <1>6, <1>7 DEF w

\* The list of the session is used.
UsesList(c) == LET w == call[c] IN
    /\ cache[w.sess][Query(w).kind].known
    /\ Told(call'[c], w, cache[w.sess][Query(w).kind]) /\ UNCHANGED cache

\* ... or it is read, and there is none meanwhile.
AsksForList(c) == LET w == call[c] IN
    /\ Kept(call'[c], w) /\ call'[c].pc = "reading" /\ call'[c].got = w.got /\ call'[c].flaw = w.flaw
    /\ call'[c].crossed = w.crossed
    /\ cache' = [cache EXCEPT ![w.sess][Query(w).kind] = NoList]

LEMMA LookupDoes ==
  ASSUME Cells, Lists, NEW c \in Call, Lookup(c)
  PROVE  LET w == call[c] IN
         /\ Cell(w) /\ Seeking(w) /\ w.pc = "resolving" /\ Query(w).kind \in Kind /\ w.sess \in Sess
         /\ UsesList(c) \/ AsksForList(c)
         /\ Cell(call'[c])
         /\ Cells' /\ (\A x \in Call : x # c => call'[x] = call[x]) /\ UNCHANGED <<svc, told>>
<1> DEFINE w == call[c]
           l == cache[w.sess][Query(w).kind]
<1>1. Cell(w) /\ w.pc = "resolving" /\ w \in Calls /\ Len(w.got) < Len(w.need) /\ w.sess \in Sess
  BY DEF Cells, Lookup, Resolving, Cell, Shape, Underway
<1>2. ~(Query(w).arg \in Ids /\ Query(w).kind \notin Listed)
  BY DEF Lookup
<1>3. Query(w).kind \in Kind
  BY <1>1, <1>2, Asked0
<1>4. Seeking(w) /\ l \in List
  BY <1>1, <1>3 DEF Seeking, Looking, Lists
<1>5. UNCHANGED <<svc, told>>
  BY DEF Lookup
<1>6. CASE l.known /\ (\E v \in Found(w, l) : call' = [call EXCEPT ![c] = v]) /\ UNCHANGED cache
  <2>1. PICK v \in Found(w, l) : call' = [call EXCEPT ![c] = v]
    BY <1>6
  <2>0. l.known /\ UNCHANGED cache
    BY <1>6
  <2>a. UsesList(c) <=> l.known /\ Told(call'[c], w, l) /\ UNCHANGED cache
    BY DEF UsesList
  <2> HIDE DEF w, l
  <2>2. Told(v, w, l)
    BY <1>1, <1>4, <2>1, FoundTold
  <2>3. Cell(v)
    BY <1>1, <1>4, <2>2, ToldCell
  <2>4. Cells' /\ call'[c] = v /\ \A x \in Call : x # c => call'[x] = call[x]
    BY <2>1, <2>3, OneCall
  <2>5. UsesList(c)
    BY <2>0, <2>2, <2>4, <2>a
  <2> QED  BY <1>1, <1>3, <1>4, <1>5, <2>3, <2>4, <2>5 DEF w
<1>7. CASE call' = [call EXCEPT ![c].pc = "reading"] /\ cache' = [cache EXCEPT ![w.sess][Query(w).kind] = NoList]
  <2> DEFINE v == [w EXCEPT !.pc = "reading"]
  <2>1. call' = [call EXCEPT ![c] = v]
    BY <1>7
  <2>2. v \in Calls /\ Kept(v, w) /\ v.pc = "reading" /\ v.got = w.got /\ v.flaw = w.flaw /\ v.crossed = w.crossed
    BY <1>1, Awaits
  <2> HIDE DEF v
  <2>3. Cell(v)
    BY <1>1, <1>3, <1>4, <2>2, WaitsCell
  <2>4. Cells' /\ call'[c] = v /\ \A x \in Call : x # c => call'[x] = call[x]
    BY <2>1, <2>3, OneCall
  <2>5. AsksForList(c)
    BY <1>7, <2>2, <2>4 DEF AsksForList
  <2> QED  BY <1>1, <1>3, <1>4, <1>5, <2>3, <2>4, <2>5
<1> QED  BY <1>6, <1>7 DEF Lookup

LEMMA FetchDoes ==
  ASSUME Cells, Service(svc), NEW c \in Call, Fetch(c)
  PROVE  LET w == call[c] IN
         /\ Cell(w) /\ Seeking(w) /\ w.pc = "reading" /\ Query(w).kind \in Kind /\ w.sess \in Sess
         /\ call'[c].list \in Listings(Query(w).kind) /\ Kept(call'[c], w) /\ call'[c].got = w.got
         /\ call'[c].pc = "fetched" /\ call'[c].flaw = w.flaw /\ call'[c].crossed = w.crossed /\ Cell(call'[c])
         /\ Cells' /\ (\A x \in Call : x # c => call'[x] = call[x]) /\ UNCHANGED <<svc, cache, told>>
<1> DEFINE w == call[c]
<1>1. /\ Cell(w) /\ w.pc = "reading" /\ w \in Calls /\ Len(w.got) < Len(w.need) /\ w.sess \in Sess
      /\ Query(w).kind \in Kind /\ UNCHANGED <<svc, cache, told>>
  BY DEF Cells, Fetch, Cell, Shape, Underway
<1>2. PICK l \in Listings(Query(w).kind) : call' = [call EXCEPT ![c] = [w EXCEPT !.pc = "fetched", !.list = l]]
  BY DEF Fetch
<1> DEFINE v == [w EXCEPT !.pc = "fetched", !.list = l]
<1>3. l \in List /\ \A e \in l.rows : e.kind = Query(w).kind
  BY <1>1, <1>2, Listed0
<1>4. /\ v \in Calls /\ Kept(v, w) /\ v.pc = "fetched" /\ v.list = l /\ v.got = w.got /\ v.flaw = w.flaw
      /\ v.crossed = w.crossed
  <2>1. v = Receiving(w, l)
    BY DEF Receiving
  <2> HIDE DEF v, w
  <2> QED  BY <1>1, <1>3, <2>1, Receives
<1>5. Seeking(w)
  BY <1>1 DEF Seeking, Looking
<1> HIDE DEF v
<1>6. Cell(v)
  BY <1>1, <1>3, <1>4, <1>5, WaitsCell
<1>7. Cells' /\ call'[c] = v /\ \A x \in Call : x # c => call'[x] = call[x]
  BY <1>2, <1>6, OneCall DEF v
<1> QED  BY <1>1, <1>2, <1>4, <1>5, <1>6, <1>7

LEMMA FetchFailsDoes ==
  ASSUME Cells, NEW c \in Call, FetchFails(c)
  PROVE  LET w == call[c]
             v == call'[c] IN
         /\ Cell(w) /\ Seeking(w) /\ w.pc = "reading" /\ Query(w).kind \in Kind /\ w.sess \in Sess
         /\ Kept(v, w) /\ Cell(v) /\ v.flaw = w.flaw
         /\ \/ v.pc = "fetched" /\ v.got = w.got /\ v.list.flaw = "stale"
            \/ v.pc = "resolving" /\ Query(w).arg \in Ids /\ v.got = Append(w.got, Query(w).arg)
            \/ v.pc = "failing" /\ v.got = w.got
         /\ Cells' /\ (\A x \in Call : x # c => call'[x] = call[x]) /\ UNCHANGED <<svc, cache, told>>
<1> DEFINE w == call[c]
<1>1. /\ Cell(w) /\ w.pc = "reading" /\ w \in Calls /\ Len(w.got) < Len(w.need) /\ w.sess \in Sess
      /\ Query(w).kind \in Kind /\ UNCHANGED <<svc, cache, told>>
  BY DEF Cells, FetchFails, Cell, Shape, Underway
<1>2. Seeking(w)
  BY <1>1 DEF Seeking, Looking
<1>3. CASE Query(w).kind = "category"
  <2> DEFINE l == [NoList EXCEPT !.flaw = "stale", !.known = TRUE]
             v == [w EXCEPT !.pc = "fetched", !.list = l]
  <2>1. l \in List /\ l.rows = {} /\ l.flaw = "stale"
    BY DEF NoList, List
  <2>2. call' = [call EXCEPT ![c] = v]
    BY <1>3 DEF FetchFails
  <2> HIDE DEF l
  <2>3. v \in Calls /\ Kept(v, w) /\ v.pc = "fetched" /\ v.list = l /\ v.got = w.got /\ v.flaw = w.flaw
    <3>1. v = Receiving(w, l)
      BY DEF Receiving
    <3> HIDE DEF v, w
    <3> QED  BY <1>1, <2>1, <3>1, Receives
  <2> HIDE DEF v
  <2>4. Cell(v)
    BY <1>1, <1>2, <2>1, <2>3, WaitsCell
  <2>5. Cells' /\ call'[c] = v /\ \A x \in Call : x # c => call'[x] = call[x]
    BY <2>2, <2>4, OneCall
  <2> QED  BY <1>1, <1>2, <2>1, <2>3, <2>4, <2>5
<1>4. CASE Query(w).kind # "category" /\ Query(w).arg \in Ids
  <2> DEFINE v == [w EXCEPT !.pc = "resolving", !.got = Append(@, Query(w).arg), !.crossed = FALSE]
  <2>1. call' = [call EXCEPT ![c] = v]
    BY <1>4 DEF FetchFails
  <2>2. Cell(v) /\ Kept(v, w) /\ v.pc = "resolving" /\ v.flaw = w.flaw /\ v.got = Append(w.got, Query(w).arg)
    BY <1>1, <1>4, IdStands
  <2> HIDE DEF v
  <2>3. Cells' /\ call'[c] = v /\ \A x \in Call : x # c => call'[x] = call[x]
    BY <2>1, <2>2, OneCall
  <2> QED  BY <1>1, <1>2, <1>4, <2>2, <2>3
<1>5. CASE Query(w).kind # "category" /\ Query(w).arg \notin Ids
  <2> DEFINE v == [w EXCEPT !.pc = "failing", !.crossed = FALSE]
  <2>1. call' = [call EXCEPT ![c] = v]
    BY <1>5 DEF FetchFails
  <2>3. v \in Calls /\ Kept(v, w) /\ v.pc = "failing" /\ v.got = w.got /\ v.flaw = w.flaw
    BY <1>1, GivesUp
  <2> HIDE DEF v
  <2>4. Cell(v)
    BY <1>1, <1>2, <2>3, WaitsCell
  <2>5. Cells' /\ call'[c] = v /\ \A x \in Call : x # c => call'[x] = call[x]
    BY <2>1, <2>4, OneCall
  <2> QED  BY <1>1, <1>2, <2>3, <2>4, <2>5
<1> QED  BY <1>3, <1>4, <1>5

LEMMA StoreDoes ==
  ASSUME Cells, NEW c \in Call, Store(c)
  PROVE  LET w == call[c]
             l == [w.list EXCEPT !.flaw = IF w.crossed THEN "stale" ELSE @] IN
         /\ Cell(w) /\ Seeking(w) /\ w.pc = "fetched" /\ Query(w).kind \in Kind /\ w.sess \in Sess
         /\ w.list \in List /\ l \in List /\ l.rows = w.list.rows /\ l.known = w.list.known
         /\ l.flaw = IF w.crossed THEN "stale" ELSE w.list.flaw
         /\ cache' = [cache EXCEPT ![w.sess][Query(w).kind] = l]
         /\ Told(call'[c], w, w.list) /\ Cell(call'[c])
         /\ Cells' /\ (\A x \in Call : x # c => call'[x] = call[x]) /\ UNCHANGED <<svc, told>>
<1> DEFINE w == call[c]
           l == [w.list EXCEPT !.flaw = IF w.crossed THEN "stale" ELSE @]
<1>1. /\ Cell(w) /\ w.pc = "fetched" /\ w \in Calls /\ Len(w.got) < Len(w.need) /\ w.sess \in Sess
      /\ Query(w).kind \in Kind /\ UNCHANGED <<svc, told>>
  BY DEF Cells, Store, Cell, Shape, Underway
<1>2. Seeking(w) /\ w.list \in List
  BY <1>1 DEF Seeking, Looking, Calls
<1>3. /\ l \in List /\ l.rows = w.list.rows /\ l.known = w.list.known
      /\ l.flaw = IF w.crossed THEN "stale" ELSE w.list.flaw
  BY <1>2 DEF List
<1>4. cache' = [cache EXCEPT ![w.sess][Query(w).kind] = l]
  BY DEF Store
<1>5. PICK v \in Found(w, w.list) : call' = [call EXCEPT ![c] = v]
  BY DEF Store
<1>6. Told(v, w, w.list)
  BY <1>1, <1>2, <1>5, FoundTold
<1>7. Cell(v)
  BY <1>1, <1>2, <1>6, ToldCell
<1>8. Cells' /\ call'[c] = v /\ \A x \in Call : x # c => call'[x] = call[x]
  BY <1>5, <1>7, OneCall
<1> HIDE DEF w, l
<1>9. Told(call'[c], w, w.list) /\ Cell(call'[c])
  BY <1>6, <1>7, <1>8
<1> QED  BY <1>1, <1>2, <1>3, <1>4, <1>8, <1>9 DEF w, l

LEMMA RefuseDoes ==
  ASSUME Cells, NEW c \in Call, Refuse(c)
  PROVE  LET w == call[c]
             v == call'[c] IN
         /\ Cell(w) /\ Asking(w) /\ Cell(v) /\ Kept(v, w) /\ v.got = w.got /\ v.flaw = w.flaw /\ v.pc = "failing"
         /\ Cells' /\ (\A x \in Call : x # c => call'[x] = call[x]) /\ UNCHANGED <<svc, cache, told>>
<1> DEFINE w == call[c]
           v == [w EXCEPT !.pc = "failing"]
<1>1. Cell(w) /\ Asking(w) /\ UNCHANGED <<svc, cache, told>> /\ call' = [call EXCEPT ![c] = v]
  BY DEF Cells, Refuse
<1>2. Cell(v) /\ Kept(v, w) /\ v.got = w.got /\ v.flaw = w.flaw /\ v.pc = "failing"
  BY <1>1, FailingCell
<1> HIDE DEF v
<1>3. Cells' /\ call'[c] = v /\ \A x \in Call : x # c => call'[x] = call[x]
  BY <1>1, <1>2, OneCall
<1> QED  BY <1>1, <1>2, <1>3

\* What becomes of the other calls when w begins, and of c, which is w then.
Sees(x, w) ==
    /\ Alike(call'[x], call[x]) /\ call'[x].knows = call[x].knows /\ call'[x].crossed = call[x].crossed
    /\ call'[x].contested = (call[x].contested \/ Gives(w, call[x]))

Opens(c, s, w) ==
    /\ Cell(w) /\ w.pc = "resolving" /\ w.sess = s /\ w.got = <<>> /\ w.blind = 0 /\ w.knows = told[s]
    /\ Alike(call'[c], w) /\ call'[c].knows = w.knows
    /\ call'[c].contested = (\E b \in Call : Underway(call[b]) /\ Gives(call[b], w))
    /\ \A x \in Call : x # c => Sees(x, w)

LEMMA BeginDoes ==
  ASSUME TInv, NEW c \in Call, NEW s \in Sess, Tool(c, s)
  PROVE  /\ \E w : Opens(c, s, w)
         /\ Cells' /\ call[c].pc = "new" /\ UNCHANGED <<svc, cache, told>>
<1>0. Service(svc) /\ told \in [Sess -> SUBSET Ids] /\ Cells /\ call \in [Call -> Calls] /\ \A x \in Call : Cell(call[x])
  BY DEF TInv, Cells
<1>1. PICK q, k, need, to, M : Asked(q, k, need, to, M) /\ Begin(c, s, q, k, need, to, M)
  BY <1>0, ToolBegins DEF Begins
<1> DEFINE w == Begun(s, q, k, need, to, M)
           b == \E x \in Call : Underway(call[x]) /\ Gives(call[x], w)
<1>2. /\ call[c].pc = "new" /\ UNCHANGED <<svc, cache, told>>
      /\ call' = [x \in Call |-> IF x = c THEN Contest(w, b)
                                 ELSE Contest(call[x], call[x].contested \/ Gives(w, call[x]))]
  BY <1>1 DEF Begin, Begun, Contest
<1>3. b \in BOOLEAN
  OBVIOUS
<1> HIDE DEF b
<1>4. /\ Cell(w) /\ Cell(Contest(w, b)) /\ w.pc = "resolving" /\ w.sess = s /\ w.ask = q
      /\ w.got = <<>> /\ w.knows = told[s] /\ w.blind = 0 /\ w.to = to /\ w.kind = k
  BY <1>0, <1>1, <1>3, BegunCell
<1> HIDE DEF w
<1>5. ASSUME NEW x \in Call, NEW d, d = (call[x].contested \/ Gives(w, call[x]))
      PROVE  /\ Cell(Contest(call[x], d)) /\ Alike(Contest(call[x], d), call[x])
             /\ Contest(call[x], d).knows = call[x].knows /\ Contest(call[x], d).crossed = call[x].crossed
             /\ Contest(call[x], d).contested = d
  <2>1. call[x] \in Calls /\ Cell(call[x])
    BY <1>0
  <2>2. call[x].contested \in BOOLEAN
    BY <2>1 DEF Calls
  <2>3. d \in BOOLEAN
    BY <1>5, <2>2 DEF Gives
  <2>4. call[x].pc = "new" => d = FALSE
    <3>1. NewCall.ask = "none" /\ NewCall.contested = FALSE
      BY DEF NewCall
    <3> QED  BY <1>5, <2>1, <3>1 DEF Cell, Shape, Gives
  <2> HIDE DEF b
  <2>5. Cell(Contest(call[x], d))
    BY <2>1, <2>3, <2>4, Touched
  <2> QED  BY <2>1, <2>3, <2>5, Touch
<1>6. w \in Calls
  BY <1>4 DEF Cell
<1>7. Alike(Contest(w, b), w) /\ Contest(w, b).knows = w.knows /\ Contest(w, b).contested = b
  BY <1>3, <1>6, Touch
<1>8. call'[c] = Contest(w, b)
  BY <1>2
<1>9. \A x \in Call : x # c => call'[x] = Contest(call[x], call[x].contested \/ Gives(w, call[x]))
  BY <1>2
<1>10. \A x \in Call : Cell(call'[x])
  BY <1>4, <1>5, <1>8, <1>9
<1>11. Cells'
  <2>1. \A x \in Call : call'[x] \in Calls
    BY <1>10 DEF Cell
  <2>2. call' \in [Call -> Calls]
    BY <1>2, <2>1
  <2> QED  BY <1>10, <2>2 DEF Cells
<1>12. \A x \in Call : x # c => Sees(x, w)
  BY <1>5, <1>9 DEF Sees
<1>13. call'[c].contested = (\E x \in Call : Underway(call[x]) /\ Gives(call[x], w))
  BY <1>7, <1>8 DEF b
<1>14. Alike(call'[c], w) /\ call'[c].knows = w.knows
  BY <1>7, <1>8
<1>15. Opens(c, s, w)
  BY <1>4, <1>12, <1>13, <1>14, Zenon DEF Opens
<1> QED  BY <1>2, <1>11, <1>15

LEMMA ServeDoes ==
  ASSUME Cells, NEW c \in Call, NEW y, NEW v, Cell(v), v.pc # "new", Serve(c, y, v)
  PROVE  /\ Cells' /\ svc' = y /\ UNCHANGED cache /\ told' = [s \in Sess |-> told[s] \ Changed(y)]
         /\ Alike(call'[c], v) /\ call'[c].knows = v.knows \ Changed(y) /\ call'[c].crossed = v.crossed
         /\ call'[c].contested = v.contested
         /\ \A x \in Call : x # c => /\ Alike(call'[x], call[x]) /\ call'[x].knows = call[x].knows \ Changed(y)
                                     /\ call'[x].crossed = call[x].crossed
                                     /\ call'[x].contested = call[x].contested
<1> DEFINE X == Changed(y)
<1>1. /\ call' = [x \in Call |-> Unlearn(IF x = c THEN v ELSE call[x], X)]
      /\ svc' = y /\ UNCHANGED cache /\ told' = [s \in Sess |-> told[s] \ X]
  BY DEF Serve, Unlearn
<1> HIDE DEF X
<1>2. \A x \in Call : Cell(call[x]) /\ call[x] \in Calls
  BY DEF Cells, Cell
<1>3. v \in Calls
  BY DEF Cell
<1>4. \A w : Cell(w) => /\ Cell(Unlearn(w, X)) /\ Unlearn(w, X) \in Calls /\ Alike(Unlearn(w, X), w)
                        /\ Unlearn(w, X).knows = w.knows \ X /\ Unlearn(w, X).crossed = w.crossed
                        /\ Unlearn(w, X).contested = w.contested
  <2> TAKE w
  <2> HAVE Cell(w)
  <2>1. w \in Calls
    BY DEF Cell
  <2>2. ASSUME NEW b \in BOOLEAN, b = FALSE
        PROVE  /\ Cell(Unlearn(w, X)) /\ Unlearn(w, X) \in Calls /\ Alike(Unlearn(w, X), w)
               /\ Unlearn(w, X).knows = w.knows \ X /\ Unlearn(w, X).crossed = w.crossed
               /\ Unlearn(w, X).contested = w.contested
    <3>1. Cell(Unlearn(w, X))
      BY <2>2, Touched
    <3>2. /\ Unlearn(w, X) \in Calls /\ Alike(Unlearn(w, X), w) /\ Unlearn(w, X).knows = w.knows \ X
          /\ Unlearn(w, X).crossed = w.crossed /\ Unlearn(w, X).contested = w.contested
      BY <2>1, Touch
    <3> QED  BY <3>1, <3>2
  <2> QED  BY <2>2
<1>5. call'[c] = Unlearn(v, X) /\ \A x \in Call : x # c => call'[x] = Unlearn(call[x], X)
  BY <1>1
<1>6. call' \in [Call -> Calls] /\ \A x \in Call : Cell(call'[x])
  BY <1>1, <1>2, <1>3, <1>4
<1>7. Cells'
  BY <1>6 DEF Cells
<1> QED  BY <1>1, <1>2, <1>3, <1>4, <1>5, <1>7 DEF X

\* What becomes of the other calls when c returns, and of c.
Hears(c, x) ==
    /\ Alike(call'[x], call[x]) /\ call'[x].knows = call[x].knows /\ call'[x].contested = call[x].contested
    /\ call'[x].crossed = (call[x].crossed \/ (Forgets(call[c]) /\ call[x].pc \in {"reading", "fetched"}
                                                /\ call[x].sess = call[c].sess))

LEMMA AlikeItself ==
  ASSUME NEW c, NEW x, ~Forgets(call[c]), call'[x] = call[x], call[x].crossed \in BOOLEAN
  PROVE  Hears(c, x)
BY DEF Hears, Alike

LEMMA ReturnDoes ==
  ASSUME Cells, Lists, NEW c \in Call, Return(c)
  PROVE  LET w == call[c] IN
         /\ Cell(w) /\ w.pc \in {"answered", "missing", "failing"} /\ w.sess \in Sess
         /\ call'[c] = Result(w) /\ Cells' /\ \A x \in Call : x # c => Hears(c, x)
         /\ IF Forgets(w) THEN cache' = [cache EXCEPT ![w.sess] = [k \in Kind |-> NoList]] ELSE UNCHANGED cache
         /\ told' = IF w.pc = "answered" /\ w.id # 0 /\ {e \in svc.rows : e.id = w.id} = w.saw
                    THEN [told EXCEPT ![w.sess] = @ \cup {w.id}] ELSE told
         /\ UNCHANGED svc
<1> DEFINE w == call[c]
<1>1. /\ Cell(w) /\ w.pc \in {"answered", "missing", "failing"} /\ w.sess \in Sess
      /\ call \in [Call -> Calls] /\ \A x \in Call : Cell(call[x])
  BY DEF Cells, Return, Cell, Shape, Underway
<1>2. /\ UNCHANGED svc
      /\ told' = IF w.pc = "answered" /\ w.id # 0 /\ {e \in svc.rows : e.id = w.id} = w.saw
                 THEN [told EXCEPT ![w.sess] = @ \cup {w.id}] ELSE told
      /\ IF Forgets(w) THEN cache' = [cache EXCEPT ![w.sess] = [k \in Kind |-> NoList]] ELSE UNCHANGED cache
  BY DEF Return
<1>3. Cell(Result(w))
  BY <1>1, ResultCell
<1>4. CASE Forgets(w)
  <2> DEFINE d(x) == call[x].crossed \/ (call[x].pc \in {"reading", "fetched"} /\ call[x].sess = w.sess)
  <2>1. call' = [x \in Call |-> IF x = c THEN Result(w) ELSE Cross(call[x], d(x))]
    BY <1>4 DEF Return, Cross
  <2>2. ASSUME NEW x \in Call
        PROVE  /\ Cell(Cross(call[x], d(x))) /\ Alike(Cross(call[x], d(x)), call[x])
               /\ Cross(call[x], d(x)).knows = call[x].knows
               /\ Cross(call[x], d(x)).contested = call[x].contested
               /\ Cross(call[x], d(x)).crossed = d(x)
    <3>1. call[x] \in Calls /\ Cell(call[x])
      BY <1>1
    <3>2. d(x) \in BOOLEAN
      BY <3>1 DEF Calls
    <3>3. call[x].pc = "new" => d(x) = FALSE
      <4>1. NewCall.crossed = FALSE
        BY DEF NewCall
      <4> QED  BY <3>1, <4>1 DEF Cell, Shape
    <3> HIDE DEF d
    <3>4. Cell(Cross(call[x], d(x)))
      BY <3>1, <3>2, <3>3, Touched
    <3> QED  BY <3>1, <3>2, <3>4, Touch
  <2>3. call'[c] = Result(w) /\ \A x \in Call : x # c => call'[x] = Cross(call[x], d(x))
    BY <2>1
  <2>4. \A x \in Call : x # c => Hears(c, x)
    <3> SUFFICES ASSUME NEW x \in Call, x # c PROVE Hears(c, x)
      OBVIOUS
    <3>1. call'[x] = Cross(call[x], d(x))
      BY <2>3
    <3>2. call'[x].crossed = d(x)
      BY <2>2, <3>1
    <3>3. call'[x].crossed = (call[x].crossed \/ (Forgets(call[c]) /\ call[x].pc \in {"reading", "fetched"}
                                                   /\ call[x].sess = call[c].sess))
      BY <1>4, <3>2
    <3> QED  BY <2>2, <3>1, <3>3 DEF Hears
  <2> HIDE DEF d
  <2>5. call' \in [Call -> Calls] /\ \A x \in Call : Cell(call'[x])
    BY <1>3, <2>1, <2>2 DEF Cell
  <2>6. Cells'
    BY <2>5 DEF Cells
  <2> QED  BY <1>1, <1>2, <2>3, <2>4, <2>6
<1>5. CASE ~Forgets(w)
  <2>1. call' = [call EXCEPT ![c] = Result(w)]
    BY <1>5 DEF Return
  <2>2. Cells' /\ call'[c] = Result(w) /\ \A x \in Call : x # c => call'[x] = call[x]
    BY <1>3, <2>1, OneCall
  <2>3. \A x \in Call : call[x].crossed \in BOOLEAN
    BY <1>1 DEF Calls
  <2>4. \A x \in Call : x # c => Hears(c, x)
    BY <1>5, <2>2, <2>3, AlikeItself
  <2> QED  BY <1>1, <1>2, <2>2, <2>4
<1> QED  BY <1>4, <1>5

LEMMA ListsStored ==
  ASSUME Lists, NEW s \in Sess, NEW k \in Kind, NEW l \in List, \A e \in l.rows : e.kind = k,
         cache' = [cache EXCEPT ![s][k] = l]
  PROVE  Lists' /\ cache'[s][k] = l /\ \A r \in Sess, h \in Kind : ~(r = s /\ h = k) => cache'[r][h] = cache[r][h]
<1>1. cache \in [Sess -> [Kind -> List]]
  BY DEF Lists
<1>2. /\ cache' \in [Sess -> [Kind -> List]] /\ cache'[s][k] = l
      /\ \A r \in Sess, h \in Kind : ~(r = s /\ h = k) => cache'[r][h] = cache[r][h]
  BY <1>1
<1> QED  BY <1>2 DEF Lists

LEMMA ListsForgotten ==
  ASSUME Lists, NEW s \in Sess, cache' = [cache EXCEPT ![s] = [k \in Kind |-> NoList]]
  PROVE  /\ Lists' /\ \A k \in Kind : cache'[s][k] = NoList
         /\ \A r \in Sess : r # s => cache'[r] = cache[r]
<1>1. cache \in [Sess -> [Kind -> List]] /\ NoList \in List /\ NoList.rows = {}
  BY DEF Lists, NoList, List
<1>2. /\ cache' \in [Sess -> [Kind -> List]] /\ \A k \in Kind : cache'[s][k] = NoList
      /\ \A r \in Sess : r # s => cache'[r] = cache[r]
  BY <1>1
<1> QED  BY <1>1, <1>2 DEF Lists

LEMMA AnswerDoes ==
  ASSUME Service(svc), Cells, NEW c \in Call, Answer(c)
  PROVE  /\ Cell(call[c]) /\ Asking(call[c])
         /\ \E y \in Outcomes(call[c]) : Allowed(call[c], y) /\ Serve(c, y, Answered(call[c], y))
<1>1. Cell(call[c]) /\ call[c] \in Calls /\ Shape(call[c])
  BY DEF Cells, Cell
<1> QED  BY <1>1, Outcome DEF Answer

LEMMA LoseDoes ==
  ASSUME Service(svc), Cells, NEW c \in Call, Lose(c)
  PROVE  /\ Cell(call[c]) /\ Asking(call[c])
         /\ \E y : (y = svc \/ Allowed(call[c], y)) /\ Serve(c, y, Unanswered(call[c]))
<1>1. Cell(call[c]) /\ call[c] \in Calls /\ Shape(call[c])
  BY DEF Cells, Cell
<1>2. Asking(call[c]) /\ \E y \in {svc} \cup Outcomes(call[c]) : Serve(c, y, Unanswered(call[c]))
  BY DEF Lose
<1> QED  BY <1>1, <1>2, Outcome

LEMMA TInvStep == TInv /\ [Next]_vars => TInv'
<1> SUFFICES ASSUME TInv, [Next]_vars PROVE TInv'
  OBVIOUS
<1>0. Service(svc) /\ Lists /\ Cells /\ told \in [Sess -> SUBSET Ids]
  BY DEF TInv
<1>1. CASE UNCHANGED vars
  BY <1>0, <1>1 DEF vars, TInv, Lists, Cells
<1>2. ASSUME NEW c \in Call, NEW s \in Sess, Tool(c, s) PROVE TInv'
  <2>1. Cells' /\ UNCHANGED <<svc, cache, told>>
    BY <1>2, BeginDoes
  <2> QED  BY <1>0, <2>1 DEF TInv, Lists
<1>3. ASSUME NEW c \in Call, Straight(c) PROVE TInv'
  <2>1. Cells' /\ UNCHANGED <<svc, cache, told>>
    BY <1>0, <1>3, StraightDoes
  <2> QED  BY <1>0, <2>1 DEF TInv, Lists
<1>4. ASSUME NEW c \in Call, Lookup(c) PROVE TInv'
  <2>1. Cells' /\ UNCHANGED <<svc, told>> /\ (UsesList(c) \/ AsksForList(c)) /\ call[c].sess \in Sess
        /\ Query(call[c]).kind \in Kind
    BY <1>0, <1>4, LookupDoes
  <2>2. NoList \in List /\ NoList.rows = {}
    BY DEF NoList, List
  <2>3. Lists'
    <3>1. CASE UNCHANGED cache
      BY <1>0, <3>1 DEF Lists
    <3>2. CASE cache' = [cache EXCEPT ![call[c].sess][Query(call[c]).kind] = NoList]
      BY <1>0, <2>1, <2>2, <3>2, ListsStored
    <3> QED  BY <2>1, <3>1, <3>2 DEF UsesList, AsksForList
  <2> QED  BY <1>0, <2>1, <2>3 DEF TInv
<1>5. ASSUME NEW c \in Call, Fetch(c) PROVE TInv'
  <2>1. Cells' /\ UNCHANGED <<svc, cache, told>>
    BY <1>0, <1>5, FetchDoes
  <2> QED  BY <1>0, <2>1 DEF TInv, Lists
<1>6. ASSUME NEW c \in Call, FetchFails(c) PROVE TInv'
  <2>1. Cells' /\ UNCHANGED <<svc, cache, told>>
    BY <1>0, <1>6, FetchFailsDoes
  <2> QED  BY <1>0, <2>1 DEF TInv, Lists
<1>7. ASSUME NEW c \in Call, Store(c) PROVE TInv'
  <2> DEFINE w == call[c]
             l == [w.list EXCEPT !.flaw = IF w.crossed THEN "stale" ELSE @]
  <2>1. /\ Cells' /\ UNCHANGED <<svc, told>> /\ w.sess \in Sess /\ Query(w).kind \in Kind
        /\ l \in List /\ l.rows = w.list.rows /\ Cell(w) /\ w.pc = "fetched"
        /\ cache' = [cache EXCEPT ![w.sess][Query(w).kind] = l]
    BY <1>0, <1>7, StoreDoes
  <2> HIDE DEF w, l
  <2>2. \A e \in l.rows : e.kind = Query(w).kind
    BY <2>1 DEF Cell
  <2>3. Lists'
    BY <1>0, <2>1, <2>2, ListsStored
  <2> QED  BY <1>0, <2>1, <2>3 DEF TInv
<1>8. ASSUME NEW c \in Call, NEW y, NEW v, Cell(v), v.pc # "new", Serve(c, y, v), Service(y) PROVE TInv'
  <2>1. Cells' /\ svc' = y /\ UNCHANGED cache /\ told' = [s \in Sess |-> told[s] \ Changed(y)]
    BY <1>0, <1>8, ServeDoes
  <2>2. told' \in [Sess -> SUBSET Ids]
    BY <1>0, <2>1
  <2> QED  BY <1>0, <1>8, <2>1, <2>2 DEF TInv, Lists
<1>9. ASSUME NEW c \in Call, Answer(c) PROVE TInv'
  <2>1. PICK y : Allowed(call[c], y) /\ Serve(c, y, Answered(call[c], y)) /\ Cell(call[c]) /\ Asking(call[c])
    BY <1>0, <1>9, AnswerDoes
  <2>2. Cell(Answered(call[c], y)) /\ Answered(call[c], y).pc = "answered"
    BY <2>1, AnsweredCell
  <2> QED  BY <1>8, <2>1, <2>2 DEF Allowed
<1>10. ASSUME NEW c \in Call, Refuse(c) PROVE TInv'
  <2>1. Cells' /\ UNCHANGED <<svc, cache, told>>
    BY <1>0, <1>10, RefuseDoes
  <2> QED  BY <1>0, <2>1 DEF TInv, Lists
<1>11. ASSUME NEW c \in Call, Lose(c) PROVE TInv'
  <2>1. PICK y : /\ y = svc \/ Allowed(call[c], y)
                 /\ Serve(c, y, Unanswered(call[c])) /\ Cell(call[c]) /\ Asking(call[c])
    BY <1>0, <1>11, LoseDoes
  <2>2. Cell(Unanswered(call[c])) /\ Unanswered(call[c]).pc # "new"
    BY <2>1, UnansweredCell
  <2>3. Service(y)
    BY <1>0, <2>1 DEF Allowed
  <2> QED  BY <1>8, <2>1, <2>2, <2>3
<1>12. ASSUME NEW c \in Call, Return(c) PROVE TInv'
  <2> DEFINE w == call[c]
  <2>1. /\ Cells' /\ UNCHANGED svc /\ w.sess \in Sess /\ w \in Calls
        /\ IF Forgets(w) THEN cache' = [cache EXCEPT ![w.sess] = [k \in Kind |-> NoList]] ELSE UNCHANGED cache
        /\ told' = IF w.pc = "answered" /\ w.id # 0 /\ {e \in svc.rows : e.id = w.id} = w.saw
                   THEN [told EXCEPT ![w.sess] = @ \cup {w.id}] ELSE told
    BY <1>0, <1>12, ReturnDoes DEF Cell
  <2> HIDE DEF w
  <2>2. w.id # 0 => w.id \in Ids
    BY <2>1, Sizes DEF Calls, Ids
  <2>3. told' \in [Sess -> SUBSET Ids]
    BY <1>0, <2>1, <2>2
  <2>4. Lists'
    <3>1. CASE UNCHANGED cache
      BY <1>0, <3>1 DEF Lists
    <3> QED  BY <1>0, <2>1, <3>1, ListsForgotten
  <2> QED  BY <1>0, <2>1, <2>3, <2>4 DEF TInv
<1> QED  BY <1>1, <1>2, <1>3, <1>4, <1>5, <1>6, <1>7, <1>9, <1>10, <1>11, <1>12 DEF Next

\* The directory keeps its shape, and so does every call, whatever the others do.
THEOREM DirectoryInductive == Spec => []TInv
BY InitTInv, TInvStep, PTL DEF Spec

\* However tools, sessions and lost requests interleave, the directory, the lists of the
\* sessions and the calls are what they are declared to be.
THEOREM DirectoryTypes == Spec => []TypeOK
BY DirectoryInductive, TypeOKFromTInv, PTL

-----------------------------------------------------------------------------
(* What was taken off is gone. *)

\* Until its request a call only looks names up: nobody else sees anything of it.
Seeks(c) ==
    /\ Kept(call'[c], call[c]) /\ Underway(call[c]) /\ Underway(call'[c])
    /\ ~Settled(call[c]) /\ ~Settled(call'[c]) /\ UNCHANGED <<svc, told>>
    /\ \A x \in Call : x # c => call'[x] = call[x]

LEMMA SeekSteps ==
  ASSUME TInv, NEW c \in Call,
         Straight(c) \/ Lookup(c) \/ Fetch(c) \/ FetchFails(c) \/ Store(c) \/ Refuse(c)
  PROVE  Seeks(c)
<1>0. Cells /\ Lists /\ Service(svc)
  BY DEF TInv
<1>1. CASE Straight(c)
  BY <1>0, <1>1, StraightDoes DEF Seeks, Told, Underway, Settled
<1>2. CASE Lookup(c)
  <2>1. /\ call[c].pc = "resolving" /\ Kept(call'[c], call[c])
        /\ call'[c].pc \in {"missing", "resolving", "reading"}
    BY <1>0, <1>2, LookupDoes DEF UsesList, AsksForList, Told
  <2>2. UNCHANGED <<svc, told>> /\ \A x \in Call : x # c => call'[x] = call[x]
    BY <1>0, <1>2, LookupDoes
  <2> QED  BY <2>1, <2>2 DEF Seeks, Underway, Settled
<1>3. CASE Fetch(c)
  BY <1>0, <1>3, FetchDoes DEF Seeks, Underway, Settled
<1>4. CASE FetchFails(c)
  <2>1. /\ call[c].pc = "reading" /\ Kept(call'[c], call[c])
        /\ call'[c].pc \in {"fetched", "resolving", "failing"}
    BY <1>0, <1>4, FetchFailsDoes
  <2>2. UNCHANGED <<svc, told>> /\ \A x \in Call : x # c => call'[x] = call[x]
    BY <1>0, <1>4, FetchFailsDoes
  <2> QED  BY <2>1, <2>2 DEF Seeks, Underway, Settled
<1>5. CASE Store(c)
  <2>1. /\ call[c].pc = "fetched" /\ Kept(call'[c], call[c]) /\ call'[c].pc \in {"missing", "resolving"}
    BY <1>0, <1>5, StoreDoes DEF Told
  <2>2. UNCHANGED <<svc, told>> /\ \A x \in Call : x # c => call'[x] = call[x]
    BY <1>0, <1>5, StoreDoes
  <2> QED  BY <2>1, <2>2 DEF Seeks, Underway, Settled
<1>6. CASE Refuse(c)
  <2>1. call[c].pc = "resolving" /\ Kept(call'[c], call[c]) /\ call'[c].pc = "failing"
    BY <1>0, <1>6, RefuseDoes DEF Asking
  <2>2. UNCHANGED <<svc, told>> /\ \A x \in Call : x # c => call'[x] = call[x]
    BY <1>0, <1>6, RefuseDoes
  <2> QED  BY <2>1, <2>2 DEF Seeks, Underway, Settled
<1> QED  BY <1>1, <1>2, <1>3, <1>4, <1>5, <1>6

\* A request was served: the directory is y now, and nobody else has changed.
Served(c, y) ==
    /\ svc' = y /\ Service(y) /\ Asking(call[c]) /\ Cell(call[c])
    /\ call'[c].ask = call[c].ask /\ call'[c].kind = call[c].kind /\ call'[c].to = call[c].to
    /\ call'[c].need = call[c].need /\ call'[c].got = call[c].got
    /\ call'[c].contested = call[c].contested
    /\ \/ /\ Allowed(call[c], y) /\ call'[c].pc = "answered" /\ call'[c].ids = call[c].ids
          /\ call'[c].blind = call[c].blind
       \/ /\ y = svc \/ Allowed(call[c], y)
          /\ call'[c].pc \in {"resolving", "failing"} /\ call'[c].blind > 0
    /\ \A x \in Call : x # c => Alike(call'[x], call[x]) /\ call'[x].contested = call[x].contested

LEMMA ServeSteps ==
  ASSUME TInv, NEW c \in Call, Answer(c) \/ Lose(c)
  PROVE  \E y : Served(c, y)
<1>0. Cells /\ Service(svc)
  BY DEF TInv
<1>1. CASE Answer(c)
  <2>1. PICK y : Allowed(call[c], y) /\ Serve(c, y, Answered(call[c], y)) /\ Cell(call[c]) /\ Asking(call[c])
    BY <1>0, <1>1, AnswerDoes
  <2> DEFINE v == Answered(call[c], y)
             w == call[c]
  <2>2. /\ Cell(v) /\ v.ask = w.ask /\ v.kind = w.kind /\ v.to = w.to /\ v.need = w.need
        /\ v.got = w.got /\ v.blind = w.blind /\ v.ids = w.ids
        /\ v.contested = w.contested /\ v.pc = "answered"
    BY <2>1, AnsweredCell
  <2> HIDE DEF v
  <2>3. /\ svc' = y /\ Alike(call'[c], v) /\ call'[c].contested = v.contested
        /\ \A x \in Call : x # c => Alike(call'[x], call[x]) /\ call'[x].contested = call[x].contested
    BY <1>0, <2>1, <2>2, ServeDoes DEF v
  <2>4. Service(y)
    BY <2>1 DEF Allowed
  <2>5. Served(c, y)
    BY <2>1, <2>2, <2>3, <2>4 DEF Served, Alike
  <2> QED  BY <2>5
<1>2. CASE Lose(c)
  <2>1. PICK y : /\ y = svc \/ Allowed(call[c], y)
                 /\ Serve(c, y, Unanswered(call[c])) /\ Cell(call[c]) /\ Asking(call[c])
    BY <1>0, <1>2, LoseDoes
  <2> DEFINE v == Unanswered(call[c])
             w == call[c]
  <2>2. /\ Cell(v) /\ v.ask = w.ask /\ v.kind = w.kind /\ v.to = w.to /\ v.need = w.need
        /\ v.got = w.got /\ v.blind > 0 /\ v.contested = w.contested /\ v.pc \in {"resolving", "failing"}
    BY <2>1, UnansweredCell
  <2> HIDE DEF v
  <2>3. /\ svc' = y /\ Alike(call'[c], v) /\ call'[c].contested = v.contested
        /\ \A x \in Call : x # c => Alike(call'[x], call[x]) /\ call'[x].contested = call[x].contested
    BY <1>0, <2>1, <2>2, ServeDoes DEF v
  <2>4. Service(y)
    BY <1>0, <2>1 DEF Allowed
  <2>5. Served(c, y)
    BY <2>1, <2>2, <2>3, <2>4 DEF Served, Alike
  <2> QED  BY <2>5
<1> QED  BY <1>1, <1>2

\* A call returns: what it has done is kept.
Returns(c) ==
    /\ UNCHANGED svc /\ Cell(call[c]) /\ call[c].pc \in {"answered", "missing", "failing"}
    /\ call'[c].ask = call[c].ask /\ call'[c].kind = call[c].kind
    /\ call'[c].to = call[c].to /\ call'[c].blind = call[c].blind
    /\ call'[c].pc = IF call[c].pc = "answered" THEN "ok" ELSE "error"
    /\ call[c].pc = "answered" => /\ call'[c].need = call[c].need /\ call'[c].got = call[c].got
                                  /\ call'[c].ids = call[c].ids /\ call'[c].contested = call[c].contested
    /\ \A x \in Call : x # c => Alike(call'[x], call[x]) /\ call'[x].contested = call[x].contested

LEMMA ReturnSteps ==
  ASSUME TInv, NEW c \in Call, Return(c)
  PROVE  Returns(c)
<1>0. Cells /\ Lists
  BY DEF TInv
<1>1. /\ Cell(call[c]) /\ call[c].pc \in {"answered", "missing", "failing"} /\ call'[c] = Result(call[c])
      /\ UNCHANGED svc /\ \A x \in Call : x # c => Hears(c, x)
  BY <1>0, ReturnDoes
<1>2. \A x \in Call : x # c => Alike(call'[x], call[x]) /\ call'[x].contested = call[x].contested
  BY <1>1 DEF Hears
<1> QED  BY <1>1, <1>2, ResultCell DEF Returns

\* A tool begins.
LEMMA BeginSteps ==
  ASSUME TInv, NEW c \in Call, NEW s \in Sess, Tool(c, s)
  PROVE  call[c] = NewCall /\ UNCHANGED <<svc, cache, told>> /\ \E w : Opens(c, s, w)
<1>1. Cell(call[c])
  BY DEF TInv, Cells
<1> QED  BY <1>1, BeginDoes DEF Cell, Shape

\* The steps of the directory.
LEMMA Steps ==
  ASSUME TInv, [Next]_vars
  PROVE  \/ UNCHANGED vars
         \/ \E c \in Call : \/ \E s \in Sess : Tool(c, s)
                            \/ Seeks(c) \/ (\E y : Served(c, y)) \/ Returns(c)
BY SeekSteps, ServeSteps, ReturnSteps, Zenon DEF Next

\* The label, or the members, are not there.
Off(w, s) ==
    /\ w.ask = "unassign" => <<Holder(w), w.got[Len(w.got)]>> \notin DOMAIN s.labels
    /\ w.ask = "expel" => \A m \in s.members : m.id \in w.ids => m.group # w.got[1]

Contests == \A b, c \in Call : Underway(call[b]) /\ Gives(call[b], call[c]) /\ call[c].pc # "error"
                                  => call[c].contested
Gone     == \A c \in Call : Settled(call[c]) /\ ~call[c].contested => Off(call[c], svc)

LEMMA ContestsStep == TInv /\ Contests /\ [Next]_vars => Contests'
<1> SUFFICES ASSUME TInv, Contests, [Next]_vars,
                    NEW b \in Call, NEW x \in Call, Underway(call'[b]), Gives(call'[b], call'[x]),
                    call'[x].pc # "error"
             PROVE  call'[x].contested
  BY DEF Contests
<1>1. CASE UNCHANGED vars
  BY <1>1 DEF vars, Contests
<1>2. ASSUME NEW c \in Call, NEW s \in Sess, Tool(c, s) PROVE call'[x].contested
  <2>1. PICK w : Opens(c, s, w)
    BY <1>2, BeginSteps
  <2>2. CASE x = c
    BY <2>1, <2>2 DEF Opens, Sees, Alike, Gives, Underway
  <2>3. CASE x # c
    <3>1. /\ Alike(call'[x], call[x]) /\ call[x].pc # "error"
          /\ call'[x].contested = (call[x].contested \/ Gives(w, call[x]))
      BY <2>1, <2>3 DEF Opens, Sees, Alike
    <3>2. CASE b = c
      <4>1. Gives(w, call[x])
        BY <2>1, <3>1, <3>2 DEF Opens, Alike, Gives
      <4> QED  BY <3>1, <4>1
    <3>3. CASE b # c
      <4>1. Gives(call[b], call[x]) /\ Underway(call[b])
        BY <2>1, <3>1, <3>3 DEF Opens, Sees, Alike, Gives, Underway
      <4>2. call[x].contested
        BY <3>1, <4>1 DEF Contests
      <4> QED  BY <3>1, <4>2
    <3> QED  BY <3>2, <3>3
  <2> QED  BY <2>2, <2>3
<1>3. ASSUME NEW c \in Call, Seeks(c) PROVE call'[x].contested
  <2>1. Gives(call[b], call[x]) /\ Underway(call[b]) /\ call[x].pc # "error"
    BY <1>3 DEF Seeks, Kept, Gives, Underway
  <2> QED  BY <1>3, <2>1 DEF Contests, Seeks, Kept
<1>4. ASSUME NEW c \in Call, NEW y, Served(c, y) PROVE call'[x].contested
  <2>1. Gives(call[b], call[x]) /\ Underway(call[b]) /\ call[x].pc # "error"
    BY <1>4 DEF Served, Alike, Gives, Underway, Asking
  <2> QED  BY <1>4, <2>1 DEF Contests, Served
<1>5. ASSUME NEW c \in Call, Returns(c) PROVE call'[x].contested
  <2>1. b # c
    BY <1>5 DEF Returns, Underway
  <2>2. Gives(call[b], call[x]) /\ Underway(call[b]) /\ call[x].pc # "error"
    BY <1>5, <2>1 DEF Returns, Alike, Gives, Underway
  <2>3. x = c => call[x].pc = "answered"
    BY <1>5 DEF Returns
  <2> QED  BY <1>5, <2>2, <2>3 DEF Contests, Returns
<1> QED  BY <1>1, <1>2, <1>3, <1>4, <1>5, Steps

LEMMA OffAlike ==
  ASSUME NEW v, NEW w, NEW s, Off(w, s), v.ask = w.ask, v.need = w.need, v.got = w.got, v.ids = w.ids
  PROVE  Off(v, s)
BY DEF Off, Holder

LEMMA GoneStep == TInv /\ Contests /\ Gone /\ [Next]_vars => Gone'
<1> SUFFICES ASSUME TInv, Contests, Gone, [Next]_vars,
                    NEW x \in Call, Settled(call'[x]), ~call'[x].contested
             PROVE  Off(call'[x], svc')
  BY DEF Gone
<1>1. CASE UNCHANGED vars
  BY <1>1 DEF vars, Gone
<1>2. ASSUME NEW c \in Call, NEW s \in Sess, Tool(c, s) PROVE Off(call'[x], svc')
  <2>1. PICK w : Opens(c, s, w)
    BY <1>2, BeginSteps
  <2>2. x # c
    BY <2>1 DEF Opens, Alike, Settled
  <2>3. Alike(call'[x], call[x]) /\ Settled(call[x]) /\ ~call[x].contested
    BY <2>1, <2>2 DEF Opens, Sees, Alike, Settled
  <2>4. Off(call[x], svc) /\ svc' = svc
    BY <1>2, <2>3, BeginSteps DEF Gone
  <2> QED  BY <2>3, <2>4, OffAlike DEF Alike
<1>3. ASSUME NEW c \in Call, Seeks(c) PROVE Off(call'[x], svc')
  BY <1>3 DEF Seeks, Gone
<1>4. ASSUME NEW c \in Call, NEW y, Served(c, y) PROVE Off(call'[x], svc')
  <2>1. svc' = y /\ Asking(call[c]) /\ Underway(call[c])
    BY <1>4 DEF Served, Asking, Underway
  <2>2. CASE x = c
    <3>1. Allowed(call[c], y) /\ call'[c].ids = call[c].ids
      BY <1>4, <2>2 DEF Served, Settled
    <3>2. Off(call[c], y)
      BY <3>1 DEF Allowed, Off
    <3> QED  BY <1>4, <2>1, <2>2, <3>1, <3>2, OffAlike DEF Served
  <2>3. CASE x # c
    <3>1. Alike(call'[x], call[x]) /\ Settled(call[x]) /\ ~call[x].contested
      BY <1>4, <2>3 DEF Served, Alike, Settled
    <3>2. Off(call[x], svc) /\ ~Gives(call[c], call[x])
      BY <2>1, <3>1 DEF Gone, Contests, Settled
    <3>3. y = svc \/ Allowed(call[c], y)
      BY <1>4 DEF Served
    <3>4. Off(call[x], y)
      BY <3>2, <3>3 DEF Off, Gives, Allowed
    <3> QED  BY <2>1, <3>1, <3>4, OffAlike DEF Alike
  <2> QED  BY <2>2, <2>3
<1>5. ASSUME NEW c \in Call, Returns(c) PROVE Off(call'[x], svc')
  <2>1. CASE x = c
    <3>1. call[c].pc = "answered" /\ Settled(call[c]) /\ ~call[c].contested
      BY <1>5, <2>1 DEF Returns, Settled
    <3> QED  BY <1>5, <2>1, <3>1, OffAlike DEF Returns, Gone
  <2>2. CASE x # c
    <3>1. Alike(call'[x], call[x]) /\ Settled(call[x]) /\ ~call[x].contested
      BY <1>5, <2>2 DEF Returns, Alike, Settled
    <3> QED  BY <1>5, <3>1, OffAlike DEF Returns, Gone, Alike
  <2> QED  BY <2>1, <2>2
<1> QED  BY <1>1, <1>2, <1>3, <1>4, <1>5, Steps

LEMMA OffFromInit == Init => Contests /\ Gone
BY DEF Init, Contests, Gone, Gives, Settled, Underway, NewCall

LEMMA TakenOffFromGone == Gone => TakenOff
BY DEF Gone, TakenOff, Off, Settled, BagIn, BagToSet

\* A label that was taken off, and members that were removed, stay gone unless
\* somebody was giving them at that time or has begun to since: for any number of calls.
THEOREM TakenOffAlways == Spec => []TakenOff
<1>1. TInv /\ Contests /\ Gone /\ [Next]_vars => (Contests /\ Gone)'
  BY ContestsStep, GoneStep
<1> QED  BY <1>1, DirectoryInductive, OffFromInit, TakenOffFromGone, PTL DEF Spec

-----------------------------------------------------------------------------
(* Entries of one name. *)

\* The calls that want an entry of the kind and the name, those that have their answer,
\* and the entries there are.
Wants(k, n)   == {c \in Call : call[c].to = n /\ call[c].kind = k}
Had(k, n)     == {c \in Wants(k, n) : Settled(call[c])}
Bearing(k, n) == {e \in svc.rows : e.kind = k /\ e.name = n}
Before(k, n)  == {j \in DOMAIN Seed : Seed[j].kind = k /\ Seed[j].name = n}

\* Only so many calls have begun.
BegunCalls == {c \in Call : call[c].pc # "new"}

\* Unless a request went unanswered, there is no more than was there and was asked for.
Enough(k, n) == (\A c \in Wants(k, n) : call[c].blind = 0) =>
    Cardinality(Bearing(k, n)) <= Cardinality(Had(k, n)) + Cardinality(Before(k, n))

Counted == IsFiniteSet(BegunCalls) /\ \A k \in Kind, n \in Name : Enough(k, n)

LEMMA WantsFinite ==
  ASSUME TInv, IsFiniteSet(BegunCalls), NEW k, NEW n \in Name
  PROVE  /\ IsFiniteSet(Wants(k, n)) /\ Cardinality(Wants(k, n)) \in Nat
         /\ IsFiniteSet(Had(k, n)) /\ Cardinality(Had(k, n)) \in Nat
         /\ Cardinality(Had(k, n)) <= Cardinality(Wants(k, n))
         /\ \A c \in Wants(k, n) : call[c].pc # "new"
<1>1. ASSUME NEW c \in Wants(k, n) PROVE c \in BegunCalls
  <2>1. c \in Call /\ Cell(call[c]) /\ call[c].to = n
    BY DEF TInv, Cells, Wants
  <2>2. NewCall.to = None /\ None # n
    BY Sizes DEF NewCall
  <2> QED  BY <2>1, <2>2 DEF BegunCalls, Cell, Shape
<1>2. Wants(k, n) \in SUBSET BegunCalls /\ Had(k, n) \in SUBSET Wants(k, n)
  BY <1>1 DEF Had
<1>3. IsFiniteSet(Wants(k, n))
  BY <1>2, FS_Subset
<1>4. IsFiniteSet(Had(k, n)) /\ Cardinality(Had(k, n)) <= Cardinality(Wants(k, n))
  BY <1>2, <1>3, FS_Subset
<1> QED  BY <1>1, <1>3, <1>4, FS_CardinalityType DEF BegunCalls

LEMMA BeforeFinite ==
  ASSUME NEW k, NEW n
  PROVE  IsFiniteSet(Before(k, n)) /\ Cardinality(Before(k, n)) \in Nat
<1>1. IsFiniteSet(DOMAIN Seed)
  BY SeedFacts, FS_Interval
<1>2. Before(k, n) \in SUBSET DOMAIN Seed
  BY DEF Before
<1>3. IsFiniteSet(Before(k, n))
  BY <1>1, <1>2, FS_Subset
<1> QED  BY <1>3, FS_CardinalityType

LEMMA BearingFinite ==
  ASSUME Service(svc), NEW k, NEW n
  PROVE  IsFiniteSet(Bearing(k, n)) /\ Cardinality(Bearing(k, n)) \in Nat
<1>1. IsFiniteSet(svc.rows) /\ Bearing(k, n) \in SUBSET svc.rows
  BY DEF Service, Bearing
<1>2. IsFiniteSet(Bearing(k, n))
  BY <1>1, FS_Subset
<1> QED  BY <1>2, FS_CardinalityType

\* No call has got more, and there are no more entries.
LEMMA NoMore ==
  ASSUME TInv, TInv', IsFiniteSet(BegunCalls), NEW k \in Kind, NEW n \in Name, Enough(k, n),
         Had(k, n)' = Had(k, n), Bearing(k, n)' \subseteq Bearing(k, n),
         (\A c \in Wants(k, n)' : call'[c].blind = 0) => \A c \in Wants(k, n) : call[c].blind = 0
  PROVE  Enough(k, n)'
<1>1. IsFiniteSet(Bearing(k, n)) /\ Cardinality(Bearing(k, n)) \in Nat
  BY BearingFinite DEF TInv
<1> DEFINE A == Bearing(k, n)
           B == Bearing(k, n)'
<1>2. B \in SUBSET A
  OBVIOUS
<1> HIDE DEF A, B
<1>3. IsFiniteSet(A) /\ Cardinality(A) \in Nat
  BY <1>1 DEF A
<1>4. IsFiniteSet(B) /\ Cardinality(B) <= Cardinality(A)
  BY <1>2, <1>3, FS_Subset
<1>5. Cardinality(B) \in Nat
  BY <1>4, FS_CardinalityType
<1>6. Cardinality(Had(k, n)) \in Nat /\ Cardinality(Before(k, n)) \in Nat
  BY WantsFinite, BeforeFinite
<1>7. Before(k, n)' = Before(k, n)
  BY DEF Before
<1> SUFFICES ASSUME \A c \in Wants(k, n)' : call'[c].blind = 0
             PROVE  Cardinality(B) <= Cardinality(Had(k, n)') + Cardinality(Before(k, n)')
  BY DEF Enough, B
<1>8. Cardinality(A) <= Cardinality(Had(k, n)) + Cardinality(Before(k, n))
  BY DEF Enough, A
<1> QED  BY <1>3, <1>4, <1>5, <1>6, <1>7, <1>8

\* One call more has got what it wanted, and there is one entry more at most.
LEMMA OneMore ==
  ASSUME TInv, TInv', IsFiniteSet(BegunCalls), NEW k \in Kind, NEW n \in Name, Enough(k, n),
         NEW c, c \notin Had(k, n), Had(k, n)' = Had(k, n) \cup {c},
         NEW r, Bearing(k, n)' \subseteq Bearing(k, n) \cup {r},
         (\A x \in Wants(k, n)' : call'[x].blind = 0) => \A x \in Wants(k, n) : call[x].blind = 0
  PROVE  Enough(k, n)'
<1> DEFINE A == Bearing(k, n)
           B == Bearing(k, n)'
           H == Had(k, n)
           G == Had(k, n)'
           R == A \cup {r}
<1>1. IsFiniteSet(A) /\ Cardinality(A) \in Nat /\ IsFiniteSet(H) /\ Cardinality(H) \in Nat
      /\ Cardinality(Before(k, n)) \in Nat
  BY BearingFinite, WantsFinite, BeforeFinite DEF TInv
<1>2. B \in SUBSET R /\ c \notin H /\ G = H \cup {c}
  OBVIOUS
<1> HIDE DEF A, B, H, G
<1>3. Cardinality(G) = Cardinality(H) + 1
  BY <1>1, <1>2, FS_AddElement
<1>4. IsFiniteSet(R) /\ (Cardinality(R) = Cardinality(A) \/ Cardinality(R) = Cardinality(A) + 1)
  BY <1>1, FS_AddElement
<1> HIDE DEF R
<1>5. IsFiniteSet(B) /\ Cardinality(B) <= Cardinality(R)
  BY <1>2, <1>4, FS_Subset
<1>6. Cardinality(B) \in Nat
  BY <1>5, FS_CardinalityType
<1>7. Before(k, n)' = Before(k, n)
  BY DEF Before
<1> SUFFICES ASSUME \A x \in Wants(k, n)' : call'[x].blind = 0
             PROVE  Cardinality(B) <= Cardinality(G) + Cardinality(Before(k, n)')
  BY DEF Enough, B, G
<1>8. Cardinality(A) <= Cardinality(H) + Cardinality(Before(k, n))
  BY DEF Enough, A, H
<1> QED  BY <1>1, <1>3, <1>4, <1>5, <1>6, <1>7, <1>8

LEMMA EnoughStep ==
  ASSUME TInv, TInv', Counted, [Next]_vars, NEW k \in Kind, NEW n \in Name
  PROVE  Enough(k, n)'
<1>0. IsFiniteSet(BegunCalls) /\ Enough(k, n) /\ Cells /\ Cells'
  BY DEF Counted, TInv
<1>1. CASE UNCHANGED vars
  <2>1. Wants(k, n)' = Wants(k, n) /\ Had(k, n)' = Had(k, n) /\ Bearing(k, n)' = Bearing(k, n)
        /\ call' = call
    BY <1>1 DEF vars, Wants, Had, Bearing, Settled
  <2> QED  BY <1>0, <2>1, NoMore
<1>2. ASSUME NEW c \in Call, NEW s \in Sess, Tool(c, s) PROVE Enough(k, n)'
  <2>1. PICK w : Opens(c, s, w)
    BY <1>2, BeginSteps
  <2>2. call[c] = NewCall /\ svc' = svc
    BY <1>2, BeginSteps
  <2>3. c \notin Wants(k, n) /\ ~Settled(call[c]) /\ ~Settled(call'[c])
    BY <2>1, <2>2, Sizes DEF NewCall, Wants, Settled, Opens, Alike
  <2>4. \A x \in Call : x # c => Alike(call'[x], call[x])
    BY <2>1 DEF Opens, Sees
  <2>5. Had(k, n)' = Had(k, n) /\ Bearing(k, n)' = Bearing(k, n) /\ Wants(k, n) \subseteq Wants(k, n)'
    BY <2>2, <2>3, <2>4 DEF Had, Wants, Settled, Bearing, Alike
  <2>6. \A x \in Wants(k, n) : x \in Call /\ call'[x].blind = call[x].blind
    BY <2>3, <2>4 DEF Wants, Alike
  <2> QED  BY <1>0, <2>5, <2>6, NoMore
<1>3. ASSUME NEW c \in Call, Seeks(c) PROVE Enough(k, n)'
  <2>1. \A x \in Call : /\ call'[x].to = call[x].to /\ call'[x].kind = call[x].kind
                        /\ call'[x].blind = call[x].blind /\ (Settled(call'[x]) <=> Settled(call[x]))
    <3> TAKE x \in Call
    <3>1. CASE x = c
      BY <1>3, <3>1 DEF Seeks, Kept
    <3>2. CASE x # c
      BY <1>3, <3>2 DEF Seeks
    <3> QED  BY <3>1, <3>2
  <2>2. Wants(k, n)' = Wants(k, n) /\ Had(k, n)' = Had(k, n) /\ Bearing(k, n)' = Bearing(k, n)
    BY <1>3, <2>1 DEF Seeks, Wants, Had, Bearing, Settled
  <2>3. \A x \in Wants(k, n) : call'[x].blind = call[x].blind
    BY <2>1 DEF Wants
  <2> QED  BY <1>0, <2>2, <2>3, NoMore
<1>4. ASSUME NEW c \in Call, NEW y, Served(c, y) PROVE Enough(k, n)'
  <2> DEFINE w == call[c]
  <2>1. /\ svc' = y /\ ~Settled(w) /\ \A x \in Call : call'[x].to = call[x].to /\ call'[x].kind = call[x].kind
        /\ \A x \in Call : x # c => call'[x].blind = call[x].blind /\ (Settled(call'[x]) <=> Settled(call[x]))
    BY <1>4 DEF Served, Alike, Asking, Settled
  <2>2. Wants(k, n)' = Wants(k, n)
    BY <2>1 DEF Wants
  <2>3. \/ y.rows \subseteq svc.rows
        \/ \E a \in Ids : y.rows \subseteq With(svc.rows, a, w.kind, w.to)
    BY <1>4 DEF Served, Allowed
  <2>4. CASE c \notin Wants(k, n)
    <3>1. Had(k, n)' = Had(k, n)
      BY <2>1, <2>2, <2>4 DEF Had, Wants, Settled
    <3>2. ~(w.kind = k /\ w.to = n)
      BY <2>4 DEF Wants
    <3>3. Bearing(k, n)' \subseteq Bearing(k, n)
      BY <2>1, <2>3, <3>2 DEF Bearing, With, Row
    <3>4. \A x \in Wants(k, n) : call'[x].blind = call[x].blind
      BY <2>1, <2>4 DEF Wants
    <3> QED  BY <1>0, <2>2, <3>1, <3>3, <3>4, NoMore
  <2>5. CASE c \in Wants(k, n) /\ call'[c].pc = "answered"
    <3>1. Had(k, n)' = Had(k, n) \cup {c} /\ c \notin Had(k, n)
      BY <2>1, <2>2, <2>5 DEF Had, Wants, Settled
    <3>2. PICK r : Bearing(k, n)' \subseteq Bearing(k, n) \cup {r}
      BY <2>1, <2>3 DEF Bearing, With
    <3>3. \A x \in Wants(k, n) : call'[x].blind = call[x].blind
      BY <1>4, <2>1, <2>5 DEF Wants, Served
    <3> QED  BY <1>0, <2>2, <3>1, <3>2, <3>3, OneMore
  <2>6. CASE c \in Wants(k, n) /\ call'[c].pc # "answered"
    <3>1. call'[c].blind > 0
      BY <1>4, <2>6 DEF Served
    <3>2. call'[c].blind # 0
      <4>1. call'[c].blind \in Nat
        BY <1>0, Sizes DEF Cells, Calls
      <4> QED  BY <3>1, <4>1
    <3>3. c \in Wants(k, n)'
      BY <2>2, <2>6
    <3> QED  BY <3>2, <3>3 DEF Enough
  <2> QED  BY <2>4, <2>5, <2>6
<1>5. ASSUME NEW c \in Call, Returns(c) PROVE Enough(k, n)'
  <2>1. \A x \in Call : /\ call'[x].to = call[x].to /\ call'[x].kind = call[x].kind
                        /\ call'[x].blind = call[x].blind
    BY <1>5 DEF Returns, Alike
  <2>2. \A x \in Call : (Settled(call'[x]) <=> Settled(call[x]))
    BY <1>5 DEF Returns, Alike, Settled
  <2>3. Wants(k, n)' = Wants(k, n) /\ Had(k, n)' = Had(k, n) /\ Bearing(k, n)' = Bearing(k, n)
    BY <1>5, <2>1, <2>2 DEF Returns, Wants, Had, Bearing, Settled
  <2>4. \A x \in Wants(k, n) : call'[x].blind = call[x].blind
    BY <2>1 DEF Wants
  <2> QED  BY <1>0, <2>3, <2>4, NoMore
<1> QED  BY <1>1, <1>2, <1>3, <1>4, <1>5, Steps

LEMMA BegunFinite ==
  ASSUME TInv, IsFiniteSet(BegunCalls), [Next]_vars
  PROVE  IsFiniteSet(BegunCalls')
<1>1. \E c : BegunCalls' \subseteq BegunCalls \cup {c}
  <2>1. CASE UNCHANGED vars
    BY <2>1 DEF vars, BegunCalls
  <2>2. ASSUME NEW c \in Call, \A x \in Call : x # c => call'[x].pc = call[x].pc
        PROVE  \E b : BegunCalls' \subseteq BegunCalls \cup {b}
    BY <2>2 DEF BegunCalls
  <2>3. ASSUME NEW c \in Call, NEW s \in Sess, Tool(c, s)
        PROVE  \A x \in Call : x # c => call'[x].pc = call[x].pc
    BY <2>3, BeginSteps DEF Opens, Sees, Alike
  <2>4. ASSUME NEW c \in Call, Seeks(c) \/ (\E y : Served(c, y)) \/ Returns(c)
        PROVE  \A x \in Call : x # c => call'[x].pc = call[x].pc
    BY <2>4 DEF Seeks, Served, Returns, Alike
  <2> QED  BY <2>1, <2>2, <2>3, <2>4, Steps
<1>2. PICK c : BegunCalls' \subseteq BegunCalls \cup {c}
  BY <1>1
<1> DEFINE B == BegunCalls
           A == BegunCalls'
           R == B \cup {c}
<1>3. IsFiniteSet(B) /\ A \in SUBSET R
  BY <1>2
<1> HIDE DEF A, B
<1>4. IsFiniteSet(R)
  BY <1>3, FS_AddElement
<1> HIDE DEF R
<1>5. IsFiniteSet(A)
  BY <1>3, <1>4, FS_Subset
<1> QED  BY <1>5 DEF A

LEMMA CountedFromInit == Init => Counted
<1> SUFFICES ASSUME Init PROVE Counted
  OBVIOUS
<1>0. Service(svc) /\ svc = Seeded /\ \A c \in Call : call[c] = NewCall
  BY InitTInv DEF Init, TInv
<1>1. BegunCalls = {}
  BY <1>0 DEF BegunCalls, NewCall
<1>2. IsFiniteSet(BegunCalls)
  BY <1>1, FS_EmptySet
<1>3. ASSUME NEW k \in Kind, NEW n \in Name PROVE Enough(k, n)
  <2>1. Had(k, n) = {}
    BY <1>0 DEF Had, Wants, Settled, NewCall
  <2>2. IsFiniteSet(Before(k, n)) /\ Cardinality(Before(k, n)) \in Nat
    BY BeforeFinite
  <2> DEFINE A == Before(k, n)
             B == Bearing(k, n)
             g == [i \in A |-> Row(i, k, n)]
  <2>3. g \in Surjection(A, B)
    <3>1. \A i \in A : Row(i, k, n) \in B
      BY <1>0 DEF Before, Bearing, Seeded, Row
    <3>2. \A e \in B : \E i \in A : e = Row(i, k, n)
      BY <1>0 DEF Before, Bearing, Seeded, Row
    <3> HIDE DEF A, B
    <3> QED  BY <3>1, <3>2 DEF Surjection
  <2> HIDE DEF A, B, g
  <2>4. IsFiniteSet(A)
    BY <2>2 DEF A
  <2>5. Cardinality(B) <= Cardinality(A)
    BY <2>3, <2>4, FS_Surjection
  <2>6. Cardinality(Had(k, n)) = 0
    BY <2>1, FS_EmptySet
  <2> QED  BY <2>2, <2>5, <2>6 DEF Enough, A, B
<1> QED  BY <1>2, <1>3 DEF Counted

LEMMA NamesakesFromCounted == TInv /\ Counted => Namesakes
<1> SUFFICES ASSUME TInv, Counted, NEW e \in svc.rows, NEW f \in svc.rows,
                    e # f, e.kind = f.kind, e.name = f.name,
                    ~\E c \in Wanted(e) : call[c].blind > 0
             PROVE  Cardinality(Wanted(e)) + Cardinality(Was(e)) > 1
  BY DEF Namesakes
<1> DEFINE k == e.kind
           n == e.name
<1>1. k \in Kind /\ n \in Name /\ Service(svc)
  BY DEF TInv, Service, Entry
<1>2. Wanted(e) = Wants(k, n) /\ Was(e) = Before(k, n) /\ e \in Bearing(k, n) /\ f \in Bearing(k, n)
  BY DEF Wanted, Wants, Was, Before, Bearing
<1> HIDE DEF k, n
<1>3. IsFiniteSet(BegunCalls) /\ Enough(k, n)
  BY <1>1 DEF Counted
<1>4. \A c \in Wants(k, n) : call[c].blind = 0
  <2> TAKE c \in Wants(k, n)
  <2>1. call[c].blind \in Nat /\ ~(call[c].blind > 0)
    BY <1>2, Sizes DEF TInv, Cells, Calls, Wants
  <2> QED  BY <2>1
<1>5. Cardinality(Bearing(k, n)) <= Cardinality(Had(k, n)) + Cardinality(Before(k, n))
  BY <1>3, <1>4 DEF Enough
<1>6. Cardinality(Bearing(k, n)) >= 2
  <2> DEFINE E == {e}
             P == E \cup {f}
  <2>1. IsFiniteSet(E) /\ Cardinality(E) = 1 /\ f \notin E
    BY FS_Singleton
  <2> HIDE DEF E
  <2>2. Cardinality(P) = Cardinality(E) + 1
    BY <2>1, FS_AddElement
  <2>3. Cardinality(P) = 2
    BY <2>1, <2>2
  <2>4. P \in SUBSET Bearing(k, n)
    BY <1>2 DEF E
  <2>5. IsFiniteSet(Bearing(k, n)) /\ Cardinality(Bearing(k, n)) \in Nat
    BY <1>1, BearingFinite
  <2> HIDE DEF P
  <2>6. Cardinality(P) <= Cardinality(Bearing(k, n))
    BY <2>4, <2>5, FS_Subset
  <2> QED  BY <2>3, <2>5, <2>6
<1>7. /\ Cardinality(Had(k, n)) \in Nat /\ Cardinality(Wants(k, n)) \in Nat /\ Cardinality(Before(k, n)) \in Nat
      /\ Cardinality(Had(k, n)) <= Cardinality(Wants(k, n)) /\ Cardinality(Bearing(k, n)) \in Nat
  BY <1>1, <1>3, WantsFinite, BeforeFinite, BearingFinite
<1> QED  BY <1>2, <1>5, <1>6, <1>7

\* Vchasno has two entries of the same name only if it was asked for both, or had one,
\* or a request of whose answer nothing came was made again: for any number of calls.
THEOREM NamesakesAlways == Spec => []Namesakes
<1>1. TInv /\ TInv' /\ Counted /\ [Next]_vars => Counted'
  <2> SUFFICES ASSUME TInv, TInv', Counted, [Next]_vars PROVE Counted'
    OBVIOUS
  <2>1. IsFiniteSet(BegunCalls')
    BY BegunFinite DEF Counted
  <2>2. \A k \in Kind, n \in Name : Enough(k, n)'
    BY EnoughStep
  <2> QED  BY <2>1, <2>2 DEF Counted
<1> QED  BY <1>1, DirectoryInductive, CountedFromInit, NamesakesFromCounted, PTL DEF Spec

-----------------------------------------------------------------------------
(* What a session was told of. *)

\* A list says of an entry what there is, if it lacks nothing.
Says(R, l, k, i) == l.flaw = "none" => \A e \in Entry : e.id = i /\ e.kind = k => (e \in l.rows <=> e \in R)

Heeded(R, w, i) == \A j \in DOMAIN w.need : w.need[j].arg \in Name =>
    /\ j <= Len(w.got) /\ w.got[j] = i => Row(i, w.need[j].kind, w.need[j].arg) \in R
    /\ w.pc = "missing" /\ j = Len(w.got) + 1 => Row(i, w.need[j].kind, w.need[j].arg) \notin R

\* A call goes by what its session had been told, as does the list it has read, which
\* its session keeps unless it has forgotten its lists since.
Goes(w, R, T) ==
    /\ Underway(w) => w.knows \subseteq T[w.sess]
    /\ w.pc = "fetched" => /\ \A i \in w.knows : Says(R, w.list, Query(w).kind, i)
                           /\ ~w.crossed => \A i \in T[w.sess] : Says(R, w.list, Query(w).kind, i)
    /\ w.flaw = "none" => \A i \in w.knows : Heeded(R, w, i)

\* So do the lists of the sessions.
UpToDate(C, R, T) == \A s \in Sess, k \in Kind : C[s][k].known => \A i \in T[s] : Says(R, C[s][k], k, i)

Informed == UpToDate(cache, svc.rows, told) /\ \A c \in Call : Goes(call[c], svc.rows, told)

LEMMA HeardOfFromInformed == Informed => HeardOf
BY DEF Informed, Goes, HeardOf, Heeds, Heeded, Bears

LEMMA GoesAlike ==
  ASSUME NEW v, NEW w, NEW R, NEW T, Goes(w, R, T), Alike(v, w), v.knows = w.knows, w.crossed => v.crossed
  PROVE  Goes(v, R, T)
BY DEF Goes, Alike, Underway, Query, Heeded

\* A name was looked up in a list that says what there is, or it was an id.
LEMMA LooksUp ==
  ASSUME NEW w, Cell(w), Seeking(w), NEW R, R \subseteq Entry, NEW T, Goes(w, R, T),
         NEW l \in List, \A e \in l.rows : e.kind = Query(w).kind,
         NEW v, Told(v, w, l), Query(w).arg \in Ids \/ \A i \in w.knows : Says(R, l, Query(w).kind, i)
  PROVE  Goes(v, R, T)
<1> DEFINE q == Query(w)
           n == Len(w.got) + 1
<1>1. /\ w.got \in Seq(Ids) /\ Len(w.got) \in Nat /\ n \in DOMAIN w.need /\ q = w.need[n] /\ q \in Query0
      /\ Underway(w) /\ w.knows \subseteq T[w.sess]
  BY Asked0 DEF Cell, Calls, Seeking, Looking, Underway, Goes
<1>2. v.knows = w.knows /\ v.sess = w.sess /\ v.need = w.need /\ v.pc # "fetched" /\ v.flaw = Worse(w.flaw, l.flaw)
  BY DEF Told, Kept
<1> SUFFICES ASSUME v.flaw = "none", NEW i \in w.knows PROVE Heeded(R, v, i)
  BY <1>1, <1>2 DEF Goes
<1>3. w.flaw = "none" /\ l.flaw = "none"
  BY <1>2 DEF Worse, Cell, Calls, List
<1>4. Heeded(R, w, i)
  BY <1>3 DEF Goes
<1>5. i \in Ids /\ (q.arg \in Name => q.arg \notin Ids)
  BY Sizes DEF Cell, Calls
<1>6. q.arg \in Name => Says(R, l, q.kind, i)
  BY <1>5
<1> SUFFICES ASSUME NEW j \in DOMAIN v.need, v.need[j].arg \in Name
             PROVE  /\ j <= Len(v.got) /\ v.got[j] = i => Row(i, v.need[j].kind, v.need[j].arg) \in R
                    /\ v.pc = "missing" /\ j = Len(v.got) + 1 => Row(i, v.need[j].kind, v.need[j].arg) \notin R
  BY DEF Heeded
<1>7. j \in DOMAIN w.need /\ j \in Nat /\ w.need[j].arg \in Name
  BY <1>2 DEF Cell, Calls
<1>8. j <= Len(w.got) /\ w.got[j] = i => Row(i, w.need[j].kind, w.need[j].arg) \in R
  BY <1>4, <1>7 DEF Heeded
<1>9. CASE v.pc = "missing" /\ v.got = w.got /\ Fitting(l, q) = {}
  <2>1. ASSUME j = n, Row(i, q.kind, q.arg) \in R PROVE FALSE
    <3> DEFINE e == Row(i, q.kind, q.arg)
    <3>1. e \in Entry /\ e.id = i /\ e.kind = q.kind /\ e.name = q.arg
      BY <2>1 DEF Row
    <3>2. q.arg \in Name
      BY <1>1, <1>7, <2>1
    <3>3. e \in l.rows
      BY <1>3, <1>6, <2>1, <3>1, <3>2 DEF Says
    <3>4. i \in Fitting(l, q)
      BY <1>5, <3>1, <3>2, <3>3 DEF Fitting
    <3> QED  BY <1>9, <3>4
  <2> QED  BY <1>1, <1>2, <1>8, <1>9, <2>1
<1>10. CASE v.pc = "resolving" /\ \E a \in Fitting(l, q) : a \in Ids /\ v.got = Append(w.got, a)
  <2>1. PICK a \in Fitting(l, q) : a \in Ids /\ v.got = Append(w.got, a)
    BY <1>10
  <2>2. Len(v.got) = n /\ v.got[n] = a /\ \A x \in 1 .. Len(w.got) : v.got[x] = w.got[x]
    BY <1>1, <2>1
  <2>3. ASSUME j = n, a = i PROVE Row(i, q.kind, q.arg) \in R
    <3>1. q.arg \in Name
      BY <1>1, <1>7, <2>3
    <3>2. PICK e \in l.rows : e.id = i /\ e.name = q.arg
      BY <1>5, <2>1, <2>3, <3>1 DEF Fitting
    <3>3. e \in Entry /\ e.kind = q.kind
      BY <3>2 DEF List
    <3>4. e \in R
      BY <1>3, <1>6, <3>1, <3>2, <3>3 DEF Says
    <3>5. e = Row(i, q.kind, q.arg)
      BY <3>2, <3>3 DEF Entry, Row
    <3> QED  BY <3>4, <3>5
  <2>4. j \in 1 .. Len(w.got) \/ j = n \/ j > n
    BY <1>1, <1>7 DEF Cell, Calls
  <2> QED  BY <1>1, <1>2, <1>7, <1>8, <1>10, <2>2, <2>3, <2>4
<1> QED  BY <1>9, <1>10 DEF Told

\* Nothing was looked up, or what was given is an id.
LEMMA GoesOn ==
  ASSUME NEW w, Cell(w), Underway(w), w.pc # "missing", NEW R, NEW T, Goes(w, R, T), NEW v, Kept(v, w), v.flaw = w.flaw,
         v.pc # "missing", v.pc # "fetched",
         \/ v.got = w.got
         \/ Seeking(w) /\ Query(w).arg \in Ids /\ v.got = Append(w.got, Query(w).arg)
  PROVE  Goes(v, R, T)
<1>1. /\ v.knows = w.knows /\ v.sess = w.sess /\ v.need = w.need /\ w.knows \subseteq T[w.sess]
      /\ w.got \in Seq(Ids)
  BY DEF Kept, Goes, Cell, Calls
<1> SUFFICES ASSUME v.flaw = "none", NEW i \in w.knows PROVE Heeded(R, v, i)
  BY <1>1 DEF Goes
<1>2. Heeded(R, w, i)
  BY DEF Goes
<1>3. CASE v.got = w.got
  BY <1>1, <1>2, <1>3 DEF Heeded
<1>4. CASE Seeking(w) /\ Query(w).arg \in Ids /\ v.got = Append(w.got, Query(w).arg)
  <2> DEFINE n == Len(w.got) + 1
             a == Query(w).arg
  <2>1. a = w.need[n].arg /\ a \notin Name /\ Len(w.got) \in Nat
    BY <1>1, <1>4, Sizes DEF Query
  <2>2. v.got = Append(w.got, a) /\ a \in Ids
    BY <1>4
  <2> HIDE DEF a
  <2>3. Len(v.got) = n /\ \A x \in 1 .. Len(w.got) : v.got[x] = w.got[x]
    BY <1>1, <2>2
  <2> SUFFICES ASSUME NEW j \in DOMAIN v.need, v.need[j].arg \in Name, j <= Len(v.got), v.got[j] = i
               PROVE  Row(i, v.need[j].kind, v.need[j].arg) \in R
    BY DEF Heeded
  <2>4. j \in DOMAIN w.need /\ w.need[j].arg \in Name /\ j \in Nat /\ j >= 1 /\ j # n
    BY <1>1, <2>1 DEF Cell, Calls
  <2>5. j <= Len(w.got) /\ j \in 1 .. Len(w.got)
    BY <2>1, <2>3, <2>4
  <2>6. w.got[j] = i
    BY <2>3, <2>5
  <2>7. Row(i, w.need[j].kind, w.need[j].arg) \in R
    BY <1>2, <2>4, <2>5, <2>6 DEF Heeded
  <2> QED  BY <1>1, <2>7
<1> QED  BY <1>3, <1>4

\* One call went on, and nothing else has changed.
LEMMA InformedOne ==
  ASSUME Informed, NEW c \in Call, UNCHANGED <<svc, told>>, \A x \in Call : x # c => call'[x] = call[x],
         Goes(call'[c], svc.rows, told), UpToDate(cache', svc.rows, told)
  PROVE  Informed'
BY DEF Informed

LEMMA InformedLooks ==
  ASSUME TInv, Informed, NEW c \in Call,
         Straight(c) \/ Lookup(c) \/ Fetch(c) \/ FetchFails(c) \/ Store(c) \/ Refuse(c)
  PROVE  Informed'
<1> DEFINE w == call[c]
           v == call'[c]
           R == svc.rows
<1>0. /\ Cells /\ Lists /\ Service(svc) /\ R \subseteq Entry /\ Goes(w, R, told) /\ UpToDate(cache, R, told)
      /\ Seeks(c)
  BY SeekSteps DEF TInv, Service, Informed
<1>1. UNCHANGED <<svc, told>> /\ \A x \in Call : x # c => call'[x] = call[x]
  BY <1>0 DEF Seeks
<1>2. CASE Straight(c)
  <2>1. Cell(w) /\ Seeking(w) /\ Query(w).arg \in Ids /\ Told(v, w, NoList) /\ UNCHANGED cache
    BY <1>0, <1>2, StraightDoes
  <2>2. NoList \in List /\ NoList.rows = {}
    BY DEF NoList, List
  <2>3. Goes(v, R, told)
    BY <1>0, <2>1, <2>2, LooksUp
  <2> QED  BY <1>0, <1>1, <2>1, <2>3, InformedOne
<1>3. CASE Lookup(c)
  <2> DEFINE k == Query(w).kind
             l == cache[w.sess][k]
  <2>1. Cell(w) /\ Seeking(w) /\ w.pc = "resolving" /\ k \in Kind /\ w.sess \in Sess /\ Underway(w)
    BY <1>0, <1>3, LookupDoes DEF Underway
  <2>2. UsesList(c) \/ AsksForList(c)
    BY <1>0, <1>3, LookupDoes
  <2>3. CASE UsesList(c)
    <3>1. l.known /\ Told(v, w, l) /\ UNCHANGED cache
      BY <2>3 DEF UsesList
    <3>2. l \in List /\ \A e \in l.rows : e.kind = k
      BY <1>0, <2>1 DEF Lists
    <3>3. \A i \in w.knows : Says(R, l, k, i)
      BY <1>0, <2>1, <3>1 DEF Goes, UpToDate
    <3>4. Goes(v, R, told)
      BY <1>0, <2>1, <3>1, <3>2, <3>3, LooksUp
    <3> QED  BY <1>0, <1>1, <3>1, <3>4, InformedOne
  <2>4. CASE AsksForList(c)
    <3>1. Kept(v, w) /\ v.pc = "reading" /\ v.got = w.got /\ v.flaw = w.flaw
          /\ cache' = [cache EXCEPT ![w.sess][k] = NoList]
      BY <2>4 DEF AsksForList
    <3>2. Goes(v, R, told)
      BY <1>0, <2>1, <3>1, GoesOn
    <3>3. UpToDate(cache', R, told)
      BY <1>0, <2>1, <3>1 DEF UpToDate, Lists, NoList
    <3> QED  BY <1>1, <3>2, <3>3, InformedOne
  <2> QED  BY <2>2, <2>3, <2>4
<1>4. CASE Fetch(c)
  <2> DEFINE k == Query(w).kind
  <2>1. /\ Cell(w) /\ w.pc = "reading" /\ k \in Kind /\ v.list \in Listings(k) /\ Kept(v, w) /\ v.got = w.got
        /\ v.pc = "fetched" /\ v.flaw = w.flaw /\ UNCHANGED cache
    BY <1>0, <1>4, FetchDoes
  <2>2. v.list.flaw = "none" => v.list.rows = Rows(k)
    BY <1>0, <2>1, Listed0
  <2>3. \A i : Says(R, v.list, k, i)
    BY <2>2 DEF Says, Rows
  <2>4. Query(v) = Query(w)
    BY <2>1 DEF Kept, Query
  <2>5. Goes(v, R, told)
    BY <1>0, <2>1, <2>3, <2>4 DEF Goes, Kept, Underway, Heeded
  <2> QED  BY <1>0, <1>1, <2>1, <2>5, InformedOne
<1>5. CASE FetchFails(c)
  <2>1. /\ Cell(w) /\ Seeking(w) /\ w.pc = "reading" /\ Kept(v, w) /\ v.flaw = w.flaw /\ UNCHANGED cache
        /\ \/ v.pc = "fetched" /\ v.got = w.got /\ v.list.flaw = "stale"
           \/ v.pc = "resolving" /\ Query(w).arg \in Ids /\ v.got = Append(w.got, Query(w).arg)
           \/ v.pc = "failing" /\ v.got = w.got
    BY <1>0, <1>5, FetchFailsDoes
  <2>2. CASE v.pc = "fetched"
    <3>1. \A i, k : Says(R, v.list, k, i)
      BY <2>1, <2>2 DEF Says
    <3>2. Goes(v, R, told)
      BY <1>0, <2>1, <2>2, <3>1 DEF Goes, Kept, Underway, Heeded
    <3> QED  BY <1>0, <1>1, <2>1, <3>2, InformedOne
  <2>3. CASE v.pc # "fetched"
    <3>1. Goes(v, R, told)
      BY <1>0, <2>1, <2>3, GoesOn DEF Underway
    <3> QED  BY <1>0, <1>1, <2>1, <3>1, InformedOne
  <2> QED  BY <2>2, <2>3
<1>6. CASE Store(c)
  <2> DEFINE k == Query(w).kind
             l == [w.list EXCEPT !.flaw = IF w.crossed THEN "stale" ELSE @]
  <2>1. /\ Cell(w) /\ Seeking(w) /\ w.pc = "fetched" /\ k \in Kind /\ w.sess \in Sess
        /\ w.list \in List /\ l.rows = w.list.rows
        /\ l.flaw = IF w.crossed THEN "stale" ELSE w.list.flaw
        /\ cache' = [cache EXCEPT ![w.sess][k] = l]
        /\ Told(v, w, w.list)
    BY <1>0, <1>6, StoreDoes
  <2> HIDE DEF l
  <2>2. /\ \A e \in w.list.rows : e.kind = k
        /\ \A i \in w.knows : Says(R, w.list, k, i)
        /\ ~w.crossed => \A i \in told[w.sess] : Says(R, w.list, k, i)
    BY <1>0, <2>1 DEF Cell, Goes
  <2>3. Goes(v, R, told)
    BY <1>0, <2>1, <2>2, LooksUp
  <2>4. \A i \in told[w.sess] : Says(R, l, k, i)
    BY <2>1, <2>2 DEF Says
  <2>5. UpToDate(cache', R, told)
    BY <1>0, <2>1, <2>4 DEF UpToDate, Lists
  <2> QED  BY <1>1, <2>3, <2>5, InformedOne
<1>7. CASE Refuse(c)
  <2>1. /\ Cell(w) /\ w.pc = "resolving" /\ Kept(v, w) /\ v.got = w.got /\ v.flaw = w.flaw /\ v.pc = "failing"
        /\ UNCHANGED cache
    BY <1>0, <1>7, RefuseDoes DEF Asking
  <2>2. Goes(v, R, told)
    BY <1>0, <2>1, GoesOn DEF Underway
  <2> QED  BY <1>0, <1>1, <2>1, <2>2, InformedOne
<1> QED  BY <1>2, <1>3, <1>4, <1>5, <1>6, <1>7

LEMMA InformedBegin ==
  ASSUME TInv, Informed, NEW c \in Call, NEW s \in Sess, Tool(c, s)
  PROVE  Informed'
<1>1. PICK w : Opens(c, s, w) /\ UNCHANGED <<svc, cache, told>>
  BY BeginSteps
<1>2. ASSUME NEW x \in Call, x # c PROVE Goes(call'[x], svc.rows, told)
  <2>1. Alike(call'[x], call[x]) /\ call'[x].knows = call[x].knows /\ call'[x].crossed = call[x].crossed
    BY <1>1, <1>2 DEF Opens, Sees
  <2> QED  BY <2>1, GoesAlike DEF Informed
<1>3. Goes(call'[c], svc.rows, told)
  <2> DEFINE v == call'[c]
  <2>1. v.pc = "resolving" /\ v.knows = told[v.sess] /\ v.got = <<>>
    BY <1>1 DEF Opens, Alike
  <2>2. ASSUME NEW i PROVE Heeded(svc.rows, v, i)
    <3>1. v.need \in Seq(Query0)
      BY BeginDoes DEF Cells, Cell, Calls
    <3>2. \A j \in DOMAIN v.need : ~(j <= Len(v.got))
      BY <2>1, <3>1
    <3> QED  BY <2>1, <3>2 DEF Heeded
  <2> QED  BY <2>1, <2>2 DEF Goes
<1> QED  BY <1>1, <1>2, <1>3 DEF Informed

LEMMA InformedServe ==
  ASSUME TInv, Informed, NEW c \in Call, NEW y, NEW v, Cell(v), Serve(c, y, v), Underway(v),
         v.pc # "fetched", v.pc # "missing",
         v.sess = call[c].sess, v.need = call[c].need, v.got = call[c].got, v.knows = call[c].knows,
         v.flaw = call[c].flaw, Underway(call[c]), call[c].pc # "missing"
  PROVE  Informed'
<1> DEFINE X == Changed(y)
           T == [s \in Sess |-> told[s] \ X]
<1>1. v.pc # "new" /\ Cells
  BY DEF Underway, TInv
<1>2. /\ svc' = y /\ UNCHANGED cache /\ told' = T
      /\ Alike(call'[c], v) /\ call'[c].knows = v.knows \ X
      /\ \A x \in Call : x # c => /\ Alike(call'[x], call[x]) /\ call'[x].knows = call[x].knows \ X
                                  /\ call'[x].crossed = call[x].crossed
  BY <1>1, ServeDoes
<1>3. \A e : e.id \notin X => (e \in y.rows <=> e \in svc.rows)
  BY DEF Changed
<1>4. ASSUME NEW l, NEW k, NEW i, i \notin X, Says(svc.rows, l, k, i) PROVE Says(y.rows, l, k, i)
  BY <1>3, <1>4 DEF Says
<1>5. ASSUME NEW w, NEW u, NEW i, i \notin X, Heeded(svc.rows, w, i), u.need = w.need, u.got = w.got,
             u.pc = w.pc \/ u.pc # "missing"
      PROVE  Heeded(y.rows, u, i)
  <2>1. \A k, n : Row(i, k, n) \in y.rows <=> Row(i, k, n) \in svc.rows
    BY <1>3, <1>5 DEF Row
  <2> QED  BY <1>5, <2>1 DEF Heeded
<1>6. ASSUME NEW x \in Call PROVE call[x].sess \in Sess \/ ~Underway(call[x])
  BY DEF TInv, Cells, Cell, Shape
<1> HIDE DEF X
<1>7. \A s \in Sess : T[s] = told[s] \ X
  OBVIOUS
<1> HIDE DEF T
<1>8. UpToDate(cache', y.rows, T)
  BY <1>2, <1>4, <1>7 DEF UpToDate, Informed
<1>9. ASSUME NEW x \in Call, x # c PROVE Goes(call'[x], y.rows, T)
  <2> DEFINE w == call[x]
             u == call'[x]
  <2>1. Goes(w, svc.rows, told)
    BY DEF Informed
  <2>2. /\ u.pc = w.pc /\ u.sess = w.sess /\ u.need = w.need /\ u.got = w.got /\ u.list = w.list /\ u.flaw = w.flaw
        /\ u.knows = w.knows \ X /\ u.crossed = w.crossed /\ Query(u) = Query(w)
    BY <1>2, <1>9 DEF Alike, Query
  <2> HIDE DEF u, w
  <2>3. Underway(w) => u.knows \subseteq T[w.sess] /\ T[w.sess] = told[w.sess] \ X
    BY <1>6, <1>7, <2>1, <2>2 DEF Goes, w
  <2>4. u.flaw = "none" => \A i \in u.knows : Heeded(y.rows, u, i)
    BY <1>5, <2>1, <2>2 DEF Goes
  <2>5. u.pc = "fetched" => /\ \A i \in u.knows : Says(y.rows, u.list, Query(u).kind, i)
                            /\ ~u.crossed => \A i \in T[u.sess] : Says(y.rows, u.list, Query(u).kind, i)
    BY <1>4, <2>1, <2>2, <2>3 DEF Goes, Underway
  <2> QED  BY <2>2, <2>3, <2>4, <2>5 DEF Goes, Underway, u
<1>10. Goes(call'[c], y.rows, T)
  <2> DEFINE w == call[c]
             u == call'[c]
  <2>1. Goes(w, svc.rows, told)
    BY DEF Informed
  <2>2. /\ u.pc = v.pc /\ u.sess = w.sess /\ u.need = w.need /\ u.got = w.got /\ u.flaw = w.flaw
        /\ u.knows = w.knows \ X
    BY <1>2 DEF Alike
  <2> HIDE DEF u, w
  <2>3. u.knows \subseteq T[u.sess]
    BY <1>6, <1>7, <2>1, <2>2 DEF Goes, w
  <2>4. u.flaw = "none" => \A i \in u.knows : Heeded(y.rows, u, i)
    BY <1>5, <2>1, <2>2 DEF Goes
  <2> QED  BY <2>2, <2>3, <2>4 DEF Goes, u
<1> QED  BY <1>2, <1>8, <1>9, <1>10 DEF Informed

\* Whoever is told of an entry forgets its lists.
LEMMA ToldForgets ==
  ASSUME NEW w, Cell(w), w.pc = "answered", w.id # 0
  PROVE  Forgets(w)
<1>1. /\ w.ask \in {"create", "rename", "delete", "label"} /\ (w.ask = "label" => w.kind = "tag")
      /\ Len(w.got) = Len(w.need) /\ w.got \in Seq(Ids) /\ w.need \in Seq(Query0)
  BY DEF Cell, Shape, Settled, Calls
<1>2. w.need # <<>> => w.got # <<>>
  BY <1>1
<1> QED  BY <1>1, <1>2 DEF Forgets

LEMMA InformedReturn ==
  ASSUME TInv, Informed, NEW c \in Call, Return(c)
  PROVE  Informed'
<1> DEFINE w == call[c]
           R == svc.rows
<1>1. /\ Cell(w) /\ w.pc \in {"answered", "missing", "failing"} /\ w.sess \in Sess
      /\ call'[c] = Result(w) /\ \A x \in Call : x # c => Hears(c, x)
      /\ IF Forgets(w) THEN cache' = [cache EXCEPT ![w.sess] = [k \in Kind |-> NoList]] ELSE UNCHANGED cache
      /\ told' = IF w.pc = "answered" /\ w.id # 0 /\ {e \in svc.rows : e.id = w.id} = w.saw
                 THEN [told EXCEPT ![w.sess] = @ \cup {w.id}] ELSE told
      /\ UNCHANGED svc
  BY ReturnDoes DEF TInv
<1>2. told \in [Sess -> SUBSET Ids] /\ Lists /\ UpToDate(cache, R, told)
  BY DEF TInv, Informed
<1> HIDE DEF w
<1>3. \A s \in Sess : /\ told[s] \subseteq told'[s]
                      /\ told'[s] # told[s] => s = w.sess /\ Forgets(w)
  BY <1>1, <1>2, ToldForgets
<1>4. UpToDate(cache', R, told')
  <2>1. CASE Forgets(w)
    <3>1. \A k \in Kind : ~cache'[w.sess][k].known
      BY <1>1, <1>2, <2>1, ListsForgotten DEF NoList
    <3>2. \A s \in Sess : s # w.sess => cache'[s] = cache[s] /\ told'[s] = told[s]
      BY <1>1, <1>2, <1>3, <2>1, ListsForgotten
    <3> QED  BY <1>2, <3>1, <3>2 DEF UpToDate
  <2>2. CASE ~Forgets(w)
    BY <1>1, <1>2, <1>3, <2>2 DEF UpToDate
  <2> QED  BY <2>1, <2>2
<1>5. ASSUME NEW x \in Call, x # c PROVE Goes(call'[x], R, told')
  <2> DEFINE z == call[x]
             u == call'[x]
  <2>1. Goes(z, R, told) /\ (Underway(z) => z.sess \in Sess)
    BY DEF Informed, TInv, Cells, Cell, Shape
  <2>2. /\ Alike(u, z) /\ u.knows = z.knows
        /\ u.crossed = (z.crossed \/ (Forgets(w) /\ z.pc \in {"reading", "fetched"} /\ z.sess = w.sess))
    BY <1>1, <1>5 DEF Hears, w
  <2> HIDE DEF z, u
  <2>3. Goes(u, R, told)
    BY <2>1, <2>2, GoesAlike
  <2>4. Underway(u) => u.sess \in Sess
    BY <2>1, <2>2 DEF Alike, Underway
  <2>5. Underway(u) => u.knows \subseteq told'[u.sess]
    BY <1>3, <2>3, <2>4 DEF Goes
  <2>6. ASSUME u.pc = "fetched", ~u.crossed PROVE told'[u.sess] = told[u.sess]
    <3>1. u.sess \in Sess /\ ~(Forgets(w) /\ u.sess = w.sess)
      BY <2>2, <2>4, <2>6 DEF Alike, Underway
    <3> QED  BY <1>3, <3>1
  <2> QED  BY <2>3, <2>5, <2>6 DEF Goes, u
<1>6. Goes(call'[c], R, told')
  <2>1. Result(w).knows = {} /\ Result(w).pc \in {"ok", "error"}
    BY <1>1, ResultCell
  <2> QED  BY <1>1, <2>1 DEF Goes, Underway
<1> QED  BY <1>1, <1>4, <1>5, <1>6 DEF Informed

LEMMA InformedStep == TInv /\ Informed /\ [Next]_vars => Informed'
<1> SUFFICES ASSUME TInv, Informed, [Next]_vars PROVE Informed'
  OBVIOUS
<1>0. Cells /\ Service(svc)
  BY DEF TInv
<1>1. CASE UNCHANGED vars
  BY <1>1 DEF vars, Informed
<1>2. ASSUME NEW c \in Call, Answer(c) PROVE Informed'
  <2>1. PICK y : Allowed(call[c], y) /\ Serve(c, y, Answered(call[c], y)) /\ Cell(call[c]) /\ Asking(call[c])
    BY <1>0, <1>2, AnswerDoes
  <2> DEFINE v == Answered(call[c], y)
             w == call[c]
  <2>2. /\ Cell(v) /\ v.sess = w.sess /\ v.need = w.need /\ v.got = w.got /\ v.knows = w.knows
        /\ v.flaw = w.flaw /\ v.pc = "answered"
    BY <2>1, AnsweredCell
  <2>3. Underway(v) /\ Underway(w) /\ w.pc # "missing" /\ v.pc # "missing" /\ v.pc # "fetched"
    BY <2>1, <2>2 DEF Underway, Asking
  <2> QED  BY <2>1, <2>2, <2>3, InformedServe
<1>3. ASSUME NEW c \in Call, Lose(c) PROVE Informed'
  <2>1. PICK y : Serve(c, y, Unanswered(call[c])) /\ Cell(call[c]) /\ Asking(call[c])
    BY <1>0, <1>3, LoseDoes
  <2> DEFINE v == Unanswered(call[c])
             w == call[c]
  <2>2. /\ Cell(v) /\ v.sess = w.sess /\ v.need = w.need /\ v.got = w.got /\ v.knows = w.knows
        /\ v.flaw = w.flaw /\ v.pc \in {"resolving", "failing"}
    BY <2>1, UnansweredCell
  <2>3. Underway(v) /\ Underway(w) /\ w.pc # "missing" /\ v.pc # "missing" /\ v.pc # "fetched"
    BY <2>1, <2>2 DEF Underway, Asking
  <2> QED  BY <2>1, <2>2, <2>3, InformedServe
<1> QED  BY <1>1, <1>2, <1>3, InformedBegin, InformedLooks, InformedReturn DEF Next

LEMMA InformedFromInit == Init => Informed
<1> SUFFICES ASSUME Init PROVE Informed
  OBVIOUS
<1>1. \A c \in Call : call[c] = NewCall
  BY DEF Init
<1>2. \A s \in Sess : told[s] = {}
  BY DEF Init
<1>3. ~Underway(NewCall) /\ NewCall.pc # "fetched" /\ NewCall.knows = {}
  BY DEF NewCall, Underway
<1> QED  BY <1>1, <1>2, <1>3 DEF Informed, Goes, UpToDate

\* A session goes by what it was told of an entry for as long as it is so: for any
\* number of calls, sessions and entries, and however their reads and changes interleave.
THEOREM HeardOfAlways == Spec => []HeardOf
BY DirectoryInductive, InformedFromInit, InformedStep, HeardOfFromInformed, PTL DEF Spec

=============================================================================
