-------------------------- MODULE DocumentsProofs ---------------------------
(***************************************************************************)
(* Proofs about Documents, for any documents, callers and attempts.        *)
(*                                                                         *)
(* The inductive invariant says of a document that a signed one has left   *)
(* the statuses in which attributes can be edited, and of a call what it   *)
(* may still find when its request is made again.  What the calls rely on  *)
(* holds because the routes only ever move a document forward (Forward).   *)
(***************************************************************************)
EXTENDS Documents, TLAPS

Editable == {7000, 7001, 7002}

Sound(x) == /\ x.covers \subseteq {x.attrs}
            /\ x.covers # {} => x.status \notin Editable
            /\ x.sigs > 0 => x.status \notin Editable
            /\ x.state = "new" => x.status = 7000 /\ x.sigs = 0

\* What no request takes back.
Forward(x, y) == /\ x.status \notin OurSide => y.status \notin OurSide
                 /\ x.status \notin Editable => y.status \notin Editable
                 /\ x.status # 7000 => y.status # 7000
                 /\ x.sigs <= y.sigs
                 /\ x.state = "gone" => y.state = "gone"

\* A call under way.
Underway(w) ==
    /\ w.did > 0 /\ ~w.second => w.ask \in w.lost
    /\ w.second => w.ask = "send" /\ w.did > 0 /\ w.on \in Doc /\ (w.did > 1 => w.lost \ {"send"} # {})
    /\ w.send /\ ~w.second => w.ask = "sign"
    /\ w.ask # "send" => w.moved = 0
    /\ w.moved > 0 => "send" \in w.lost
    /\ w.moved > 1 => w.stirred
    /\ w.ask \notin Creating => w.on \in Doc

\* A call under way and its document: signed before it is sent, and not moved by
\* itself a second time.
Meets(w, x) ==
    /\ w.ask = "sign" => w.did <= x.sigs
    /\ w.second => w.did <= x.sigs
    /\ w.moved > 0 /\ ~w.stirred => x.status \in {7002, 7004, 7008} 

Ended(w) ==
    /\ w.pc = "send_error" => w.did > 0
    /\ w.pc = "error" /\ w.lost = {} => w.did = 0
    /\ w.did > 1 => w.lost \ (IF w.second THEN {"send"} ELSE {}) # {}
    /\ w.moved > 1 => "send" \in w.lost /\ w.stirred

Good(w, x) == /\ w.pc = "asked" => Meets(w, x)
              /\ w.pc = "ok" => Told(w, x)

CallOK(w) == /\ w.pc = "idle" => w = Idle
             /\ w.pc = "asked" => Underway(w)
             /\ w.pc \in {"ok", "error", "send_error"} => Ended(w)

IInv == /\ TypeOK
        /\ \A d \in Doc : Sound(doc[d])
        /\ \A c \in Caller : CallOK(call[c])
        /\ \A c \in Caller : call[c].on \in Doc => Good(call[c], doc[call[c].on])

-----------------------------------------------------------------------------
(* The routes. *)

LEMMA SignedFields ==
  ASSUME NEW x \in Entries
  PROVE  /\ Signed(x) \in Entries /\ Signed(x).state = x.state /\ Signed(x).status = x.status
         /\ Signed(x).attrs = x.attrs /\ Signed(x).sigs = x.sigs + 1
         /\ Signed(x).covers = x.covers \cup {x.attrs}
<1>1. /\ Signed(x).state = x.state /\ Signed(x).status = x.status /\ Signed(x).internal = x.internal
      /\ Signed(x).attrs = x.attrs /\ Signed(x).sigs = x.sigs + 1
      /\ Signed(x).covers = x.covers \cup {x.attrs} /\ Signed(x).asked = x.asked
  BY DEF Signed, Entries
<1>2. x.sigs + 1 \in Nat /\ x.covers \cup {x.attrs} \in SUBSET Nat
  BY DEF Entries
<1>3. Signed(x) \in Entries
  BY <1>2 DEF Signed, Entries
<1> QED  BY <1>1, <1>3

\* A request makes a document that is sound and further on its way.
LEMMA RoutesForward ==
  ASSUME NEW x \in Entries, Sound(x), x.state = "there", NEW q \in Requests \ Creating, NEW y \in Route(q, x)
  PROVE  y \in Entries /\ Sound(y) /\ Forward(x, y)
<1> USE DEF Entries, Sound, Forward, OurSide, Editable, Statuses, Requests, Creating
<1>1. CASE q = "info"
  BY <1>1 DEF Route, InfoRoute
<1>2. CASE q = "recipient"
  BY <1>2 DEF Route, RecipientRoute
<1>3. CASE q = "recipients"
  BY <1>3 DEF Route, RecipientsRoute
<1>4. CASE q = "flow"
  BY <1>4 DEF Route, FlowRoute
<1>5. CASE q = "sign"
  <2>1. /\ x.status \in Signable
        /\ y = [Signed(x) EXCEPT !.status = IF @ \in {7001, 7002} THEN 7003 ELSE @]
    BY <1>5 DEF Route, SignRoute
  <2> QED  BY <2>1, SignedFields DEF Signable
<1>6. CASE q = "send"
  BY <1>6 DEF Route, SendRoute
<1>7. CASE q = "reject"
  BY <1>7 DEF Route, RejectRoute
<1>8. CASE q = "cloud"
  <2>1. y = [Signed(x) EXCEPT !.status = 7004]
    BY <1>8 DEF Route, CloudRoute
  <2> QED  BY <2>1, SignedFields
<1>9. CASE q = "delete"
  BY <1>9 DEF Route, DeleteRoute
<1>10. CASE q = "ask"
  BY <1>10 DEF Route, AskRoute
<1>11. CASE q = "withdraw"
  BY <1>11 DEF Route, WithdrawRoute, All
<1>12. CASE q = "agree"
  <2>1. y = [All(x, "accepted") EXCEPT !.state = "gone"]
    BY <1>12 DEF Route, AgreeRoute
  <2>2. All(x, "accepted") \in Entries /\ Sound(All(x, "accepted")) /\ Forward(x, All(x, "accepted"))
    BY DEF All
  <2> QED  BY <2>1, <2>2
<1>13. CASE q = "decline"
  BY <1>13 DEF Route, DeclineRoute, All
<1> QED  BY <1>1, <1>2, <1>3, <1>4, <1>5, <1>6, <1>7, <1>8, <1>9, <1>10, <1>11, <1>12, <1>13

LEMMA OutcomesForward ==
  ASSUME TypeOK, NEW d \in Doc, Sound(doc[d]), NEW q \in Requests, NEW y \in Outcomes(q, d)
  PROVE  y \in Entries /\ Sound(y) /\ Forward(doc[d], y)
<1>x. doc[d] \in Entries
  BY DEF TypeOK
<1>1. CASE q \in Creating
  <2>1. doc[d].state = "new" /\ doc[d].status = 7000 /\ doc[d].sigs = 0 /\ y \in Created(q)
    BY <1>1 DEF Outcomes, Sound
  <2>2. y \in Entries /\ y.state = "there" /\ y.sigs = 0 /\ y.covers = {}
    <3>1. CASE q = "upload"
      <4>1. y \in UploadRoute
        BY <2>1, <3>1 DEF Created
      <4>2. PICK n \in {7000, 7001}, i \in BOOLEAN : y = Entry("there", n, i)
        BY <4>1 DEF UploadRoute
      <4> QED  BY <4>2 DEF Entry, Entries, Statuses
    <3>2. CASE q = "template"
      <4>1. y = External("there", 7000)
        BY <2>1, <3>2 DEF Created, TemplateRoute
      <4> QED  BY <4>1 DEF External, Entry, Entries, Statuses
    <3>4. CASE q = "scan"
      <4>1. y = External("there", 7000)
        BY <2>1, <3>4 DEF Created, ScanRoute
      <4> QED  BY <4>1 DEF External, Entry, Entries, Statuses
    <3>3. CASE q = "import"
      <4>1. y = External("there", 7008)
        BY <2>1, <3>3 DEF Created, ImportRoute
      <4> QED  BY <4>1 DEF External, Entry, Entries, Statuses
    <3> QED  BY <1>1, <3>1, <3>2, <3>3, <3>4 DEF Creating
  <2> QED  BY <1>x, <2>1, <2>2 DEF Sound, Forward, OurSide, Editable, Entries
<1>2. CASE q \notin Creating /\ doc[d].state = "there"
  <2>1. y \in Route(q, doc[d])
    BY <1>2 DEF Outcomes
  <2> QED  BY <1>x, <1>2, <2>1, RoutesForward
<1>3. CASE q \notin Creating /\ doc[d].state # "there"
  <2>1. y = doc[d]
    BY <1>3 DEF Outcomes
  <2> QED  BY <1>x, <2>1 DEF Forward, Entries
<1> QED  BY <1>1, <1>2, <1>3

\* What each request is made for.
Effect(q, x, y) ==
    /\ q = "sign" => y.sigs = x.sigs + 1 /\ y.status \notin Editable
    /\ q \in {"flow", "reject"} => y.status \notin OurSide
    /\ q = "recipient" => y.status # 7000
    /\ q \in {"delete", "agree"} => y.state = "gone"
    /\ q = "send" => /\ x.status \notin Editable => y.status \notin OurSide
                     /\ x.status \in {7002, 7004, 7008} => y.status = x.status
                     /\ y.status # x.status => y.status \in {7002, 7004, 7008}

LEMMA OutcomesEffect ==
  ASSUME TypeOK, NEW d \in Doc, NEW q \in Requests, NEW y \in Outcomes(q, d)
  PROVE  Effect(q, doc[d], y)
<1>x. doc[d] \in Entries
  BY DEF TypeOK
<1>1. CASE q \in {"sign", "flow", "reject", "recipient", "delete", "agree", "send"}
  <2> USE DEF Effect
  <2>1. y \in Route(q, doc[d])
    BY <1>1 DEF Outcomes, Creating
  <2>2. CASE q = "sign"
    <3>1. /\ doc[d].status \in Signable
          /\ y = [Signed(doc[d]) EXCEPT !.status = IF @ \in {7001, 7002} THEN 7003 ELSE @]
      BY <2>1, <2>2 DEF Route, SignRoute
    <3> QED  BY <1>x, <2>2, <3>1, SignedFields DEF Signable, Editable, Entries
  <2>3. CASE q \in {"flow", "reject"}
    BY <1>x, <2>1, <2>3 DEF Route, FlowRoute, RejectRoute, OurSide, Entries
  <2>4. CASE q = "recipient"
    BY <1>x, <2>1, <2>4 DEF Route, RecipientRoute, Entries
  <2>5. CASE q = "delete"
    BY <1>x, <2>1, <2>5 DEF Route, DeleteRoute, Entries
  <2>6. CASE q = "agree"
    <3>1. All(doc[d], "accepted") \in Entries
      BY <1>x DEF All, Entries
    <3> QED  BY <2>1, <2>6, <3>1 DEF Route, AgreeRoute, Entries
  <2>7. CASE q = "send"
    BY <1>x, <2>1, <2>7 DEF Route, SendRoute, Editable, OurSide, Entries, Statuses
  <2> QED  BY <1>1, <2>2, <2>3, <2>4, <2>5, <2>6, <2>7
<1>2. CASE q \notin {"sign", "flow", "reject", "recipient", "delete", "agree", "send"}
  BY <1>2 DEF Effect
<1> QED  BY <1>1, <1>2

-----------------------------------------------------------------------------
(* The calls. *)

\* What Mine, Passed and OneMore make of the fields of a call.
\* What a request that took effect leaves of its call.
Shape(v, w, x, y, d, told) ==
    /\ v \in Calls /\ v.pc = w.pc /\ v.on = d /\ v.ask = w.ask /\ v.send = w.send
    /\ v.second = w.second /\ v.tries = w.tries /\ v.stirred = w.stirred
    /\ v.did = IF w.second THEN w.did ELSE w.did + 1
    /\ v.moved = IF w.ask = "send" /\ y.status # x.status THEN w.moved + 1 ELSE w.moved
    /\ v.lost = IF told THEN w.lost ELSE w.lost \cup {w.ask}

LEMMA MineFields ==
  ASSUME NEW w \in Calls, NEW x \in Entries, NEW y \in Entries, NEW d \in Doc,
         NEW told \in BOOLEAN, NEW v, v = Mine(w, x, y, d, told)
  PROVE  Shape(v, w, x, y, d, told)
<1> DEFINE did == IF w.second THEN w.did ELSE w.did + 1
           moved == IF w.ask = "send" /\ y.status # x.status THEN w.moved + 1 ELSE w.moved
           lost == IF told THEN w.lost ELSE w.lost \cup {w.ask}
<1>1. did \in Nat /\ moved \in Nat
  BY DEF Calls
<1>2. lost \in SUBSET Requests
  BY DEF Calls
<1>3. v = [w EXCEPT !.on = d, !.did = did, !.moved = moved, !.lost = lost]
  BY DEF Mine, Calls
<1> HIDE DEF did, moved, lost
<1>4. v \in Calls
  BY <1>1, <1>2, <1>3 DEF Calls
<1>5. /\ v.pc = w.pc /\ v.on = d /\ v.ask = w.ask /\ v.send = w.send
      /\ v.second = w.second /\ v.tries = w.tries /\ v.stirred = w.stirred
      /\ v.did = did /\ v.moved = moved /\ v.lost = lost
  BY <1>3 DEF Calls
<1> QED  BY <1>4, <1>5 DEF Shape, did, moved, lost

Keeps(u, v) == /\ u.on = v.on /\ u.send = v.send /\ u.stirred = v.stirred
               /\ u.did = v.did /\ u.moved = v.moved /\ u.lost = v.lost

LEMMA NextFields ==
  ASSUME DocumentsAssumption, NEW v \in Calls,
         NEW u, u = [v EXCEPT !.ask = "send", !.second = TRUE, !.tries = 1]
  PROVE  u \in Calls /\ u.pc = v.pc /\ Keeps(u, v) /\ u.ask = "send" /\ u.second = TRUE
<1>1. 1 \in 0 .. Retries /\ "send" \in Requests
  BY DEF DocumentsAssumption, Requests
<1>2. u \in Calls
  BY <1>1 DEF Calls
<1> QED  BY <1>2 DEF Calls, Keeps

LEMMA AgainFields ==
  ASSUME DocumentsAssumption, NEW v \in Calls, v.tries < Retries,
         NEW u, u = [v EXCEPT !.tries = @ + 1]
  PROVE  u \in Calls /\ u.pc = v.pc /\ Keeps(u, v) /\ u.ask = v.ask /\ u.second = v.second
<1>1. v.tries + 1 \in 0 .. Retries
  BY DEF DocumentsAssumption, Calls
<1>2. u \in Calls
  BY <1>1 DEF Calls
<1> QED  BY <1>2 DEF Calls, Keeps

LEMMA EndFields ==
  ASSUME DocumentsAssumption, NEW v \in Calls, NEW r \in {"ok", "error", "send_error"},
         NEW u, u = End(v, r)
  PROVE  u \in Calls /\ u.pc = r /\ Keeps(u, v) /\ u.ask = v.ask /\ u.second = v.second
<1>1. 0 \in 0 .. Retries
  BY DEF DocumentsAssumption
<1>2. u \in Calls
  BY <1>1 DEF End, Calls
<1> QED  BY <1>2 DEF End, Calls, Keeps

\* The call whose request is served.
LEMMA ServedCall ==
  ASSUME DocumentsAssumption, NEW w \in Calls, NEW x \in Entries, NEW y \in Entries, NEW d \in Doc,
         w.pc = "asked", Underway(w), Meets(w, x), Sound(x), Forward(x, y), Effect(w.ask, x, y),
         NEW told \in BOOLEAN, NEW v, v = Mine(w, x, y, d, told),
         NEW quit \in BOOLEAN, NEW u, u = IF told THEN Passed(v) ELSE OneMore(v, quit)
  PROVE  u \in Calls /\ u.on = d /\ CallOK(u) /\ Good(u, y)
<1>t. /\ w.did \in Nat /\ w.moved \in Nat /\ x.sigs \in Nat /\ y.sigs \in Nat
      /\ w.second \in BOOLEAN /\ w.send \in BOOLEAN /\ w.stirred \in BOOLEAN
  BY DEF Calls, Entries
<1>v. /\ v \in Calls /\ v.pc = "asked" /\ v.on = d /\ v.ask = w.ask /\ v.send = w.send
      /\ v.second = w.second /\ v.tries = w.tries /\ v.stirred = w.stirred
      /\ v.did = IF w.second THEN w.did ELSE w.did + 1
      /\ v.moved = IF w.ask = "send" /\ y.status # x.status THEN w.moved + 1 ELSE w.moved
      /\ v.lost = IF told THEN w.lost ELSE w.lost \cup {w.ask}
  <2>1. Shape(v, w, x, y, d, told)
    BY MineFields
  <2> QED  BY <2>1 DEF Shape
<1>m. /\ w.moved > 0 => v.moved = w.moved \/ w.stirred
      /\ v.moved > 1 => w.stirred /\ "send" \in w.lost
      /\ w.ask = "send" /\ v.moved > 0 /\ ~w.stirred => y.status \in {7002, 7004, 7008}
      /\ w.ask # "send" => v.moved = 0
  <2>1. CASE w.ask # "send"
    <3>1. v.moved = 0 /\ w.moved = 0
      BY <1>v, <2>1 DEF Underway
    <3> QED  BY <2>1, <3>1
  <2>2. CASE w.ask = "send" /\ y.status = x.status
    <3>1. v.moved = w.moved
      BY <1>v, <2>2
    <3> QED  BY <1>t, <2>2, <3>1 DEF Meets, Underway, Effect
  <2>3. CASE w.ask = "send" /\ y.status # x.status
    <3>1. v.moved = w.moved + 1
      BY <1>v, <2>3
    <3> QED  BY <1>t, <2>3, <3>1 DEF Meets, Underway, Effect
  <2> QED  BY <2>1, <2>2, <2>3
<1>s. w.second => x.status \notin Editable /\ w.ask = "send" /\ x.sigs >= w.did /\ w.did > 0
  BY <1>t DEF Sound, Meets, Underway
<1>d. v.did > 1 => v.lost \ (IF v.second THEN {"send"} ELSE {}) # {}
  <2>1. CASE w.second
    BY <1>v, <2>1 DEF Underway
  <2>2. CASE ~w.second
    BY <1>t, <1>v, <2>2 DEF Underway
  <2> QED  BY <2>1, <2>2
<1>g. /\ w.ask = "sign" => v.did <= y.sigs
      /\ w.second => v.did <= y.sigs
  BY <1>t, <1>v, <1>s DEF Meets, Forward, Effect
<1> HIDE DEF Effect
<1>1. CASE told /\ w.send /\ ~w.second
  <2>1. u = [v EXCEPT !.ask = "send", !.second = TRUE, !.tries = 1]
    BY <1>1, <1>v DEF Passed
  <2>2. /\ u \in Calls /\ u.pc = "asked" /\ u.on = d /\ u.ask = "send" /\ u.second = TRUE
        /\ u.stirred = w.stirred /\ u.did = w.did + 1 /\ u.moved = v.moved /\ u.lost = w.lost
    <3>1. u \in Calls /\ u.pc = "asked" /\ Keeps(u, v) /\ u.ask = "send" /\ u.second = TRUE
      BY <1>v, <2>1, NextFields
    <3> QED  BY <1>1, <1>v, <3>1 DEF Keeps
  <2>3. w.ask = "sign" /\ v.moved = 0
    <3>1. w.ask = "sign"
      BY <1>1 DEF Underway
    <3> QED  BY <1>m, <3>1
  <2>4. w.did + 1 > 1 => "sign" \in w.lost
    BY <1>1, <1>t, <2>3 DEF Underway
  <2>5. Underway(u)
    BY <1>t, <2>2, <2>3, <2>4 DEF Underway
  <2>6. Meets(u, y)
    <3>1. u.did <= y.sigs /\ u.moved = 0
      BY <1>1, <1>v, <1>g, <2>2, <2>3
    <3> QED  BY <2>2, <3>1 DEF Meets
  <2> QED  BY <2>2, <2>5, <2>6 DEF CallOK, Good
<1>2. CASE told /\ ~(w.send /\ ~w.second)
  <2>1. u = End(v, "ok")
    BY <1>2, <1>v DEF Passed
  <2>e. u \in Calls /\ u.pc = "ok" /\ Keeps(u, v) /\ u.ask = v.ask /\ u.second = v.second
    BY <1>v, <2>1, EndFields
  <2>2. /\ u \in Calls /\ u.pc = "ok" /\ u.on = d /\ u.ask = w.ask /\ u.second = w.second
        /\ u.stirred = w.stirred /\ u.did = v.did /\ u.moved = v.moved /\ u.lost = w.lost
    BY <1>2, <1>v, <2>e DEF Keeps
  <2>3. Ended(u)
    <3>1. u.did > 1 => u.lost \ (IF u.second THEN {"send"} ELSE {}) # {}
      BY <1>d, <2>e DEF Keeps
    <3>2. u.moved > 1 => "send" \in u.lost /\ u.stirred
      BY <1>m, <2>2
    <3> QED  BY <2>2, <3>1, <3>2 DEF Ended
  <2>4. u.ask = "sign" \/ u.second => u.did > 0 /\ y.sigs >= u.did
    BY <1>t, <1>v, <1>s, <1>g, <2>2
  <2>5. u.second => y.status \notin OurSide
    BY <1>s, <2>2 DEF Effect
  <2>6. Told(u, y)
    BY <2>2, <2>4, <2>5 DEF Told, Effect
  <2> QED  BY <2>2, <2>3, <2>6 DEF CallOK, Good
<1>3. CASE ~told /\ w.tries < Retries /\ ~quit
  <2>1. u = [v EXCEPT !.tries = @ + 1]
    BY <1>3, <1>v DEF OneMore
  <2>2. /\ u \in Calls /\ u.pc = "asked" /\ u.on = d /\ u.ask = w.ask /\ u.second = w.second
        /\ u.send = w.send /\ u.stirred = w.stirred /\ u.did = v.did /\ u.moved = v.moved
        /\ u.lost = w.lost \cup {w.ask}
    <3>1. u \in Calls /\ u.pc = "asked" /\ Keeps(u, v) /\ u.ask = v.ask /\ u.second = v.second
      BY <1>3, <1>v, <2>1, AgainFields
    <3> QED  BY <1>3, <1>v, <3>1 DEF Keeps
  <2>3. /\ u.ask # "send" => u.moved = 0
        /\ u.moved > 0 => "send" \in u.lost
        /\ u.moved > 1 => u.stirred
    BY <1>t, <1>v, <1>m, <2>2 DEF Underway
  <2>4. u.second => u.ask = "send" /\ u.did > 0 /\ (u.did > 1 => u.lost \ {"send"} # {})
    BY <1>s, <1>v, <1>d, <1>3, <2>2
  <2>5. Underway(u)
    BY <1>v, <2>2, <2>3, <2>4 DEF Underway
  <2>6. u.moved > 0 /\ ~u.stirred => y.status \in {7002, 7004, 7008}
    BY <1>t, <1>m, <2>2, <2>3
  <2>7. Meets(u, y)
    BY <1>g, <2>2, <2>6 DEF Meets
  <2> QED  BY <2>2, <2>5, <2>7 DEF CallOK, Good
<1>4. CASE ~told /\ ~(w.tries < Retries /\ ~quit)
  <2>1. u = End(v, Failed(v)) /\ Failed(v) \in {"error", "send_error"} /\ (Failed(v) = "send_error" => w.second)
    BY <1>4, <1>v DEF OneMore, Failed
  <2>2. /\ u \in Calls /\ u.pc = Failed(v) /\ u.on = d /\ u.second = w.second
        /\ u.stirred = w.stirred /\ u.did = v.did /\ u.moved = v.moved /\ u.lost = w.lost \cup {w.ask}
    <3>1. u \in Calls /\ u.pc = Failed(v) /\ Keeps(u, v) /\ u.second = v.second
      BY <1>v, <2>1, EndFields
    <3> QED  BY <1>4, <1>v, <3>1 DEF Keeps
  <2>3. u.pc = "send_error" => u.did > 0
    BY <1>s, <1>v, <2>1, <2>2
  <2>4. u.did > 1 => u.lost \ (IF u.second THEN {"send"} ELSE {}) # {}
    BY <1>d, <1>v, <1>4, <2>2
  <2>5. u.moved > 1 => "send" \in u.lost /\ u.stirred
    BY <1>m, <2>2
  <2>6. Ended(u)
    BY <2>2, <2>3, <2>4, <2>5 DEF Ended
  <2> QED  BY <2>1, <2>2, <2>6 DEF CallOK, Good
<1> QED  BY <1>1, <1>2, <1>3, <1>4

\* A call, when a request of another one has made y of the document d.
LEMMA NotedCall ==
  ASSUME NEW w \in Calls, NEW d \in Doc, doc[d] \in Entries, NEW y \in Entries, CallOK(w),
         Forward(doc[d], y), NEW u, u = Noted(w, d, y)
  PROVE  /\ u \in Calls /\ u.on = w.on /\ CallOK(u)
         /\ \A x : w.on # d /\ Good(w, x) => Good(u, x)
         /\ w.on = d /\ Good(w, doc[d]) => Good(u, y)
<1>1. /\ u \in Calls /\ u.pc = w.pc /\ Keeps(u, [w EXCEPT !.stirred = u.stirred]) /\ u.ask = w.ask
      /\ u.second = w.second
      /\ u.stirred = (w.stirred \/ (/\ w.on = d /\ w.pc = "asked" /\ "send" \in w.lost
                                   /\ y.status # doc[d].status))
  BY DEF Noted, Calls, Keeps
<1>2. u.on = w.on /\ u.send = w.send /\ u.did = w.did /\ u.moved = w.moved /\ u.lost = w.lost
  BY <1>1 DEF Keeps, Calls
<1>3. CASE w.pc # "asked" \/ w.on # d
  <2>1. u = w
    BY <1>3 DEF Noted, Calls
  <2>2. w.pc # "asked" /\ w.on = d /\ Good(w, doc[d]) => Good(w, y)
    BY DEF Good, Told, Forward, Entries, Calls
  <2> QED  BY <1>3, <2>1, <2>2
<1>4. CASE w.pc = "asked" /\ w.on = d
  <2>1. Underway(u)
    BY <1>1, <1>2, <1>4 DEF CallOK, Underway
  <2>2. ASSUME Good(w, doc[d])
        PROVE  Meets(u, y)
    <3>1. /\ u.ask = "sign" => u.did <= y.sigs
          /\ u.second => u.did <= y.sigs
      BY <1>1, <1>2, <1>4, <2>2 DEF Good, Meets, Forward, Calls, Entries
    <3>2. u.moved > 0 /\ ~u.stirred => y.status \in {7002, 7004, 7008}
      <4>1. Meets(w, doc[d]) /\ Underway(w) /\ w.moved \in Nat
        BY <1>4, <2>2 DEF Good, CallOK, Calls
      <4>2. u.moved > 0 /\ ~u.stirred => "send" \in w.lost /\ ~w.stirred /\ y.status = doc[d].status
        BY <1>1, <1>2, <1>4, <4>1 DEF Underway
      <4> QED  BY <1>2, <4>1, <4>2 DEF Meets
    <3> QED  BY <3>1, <3>2 DEF Meets
  <2> QED  BY <1>1, <1>2, <1>4, <2>1, <2>2 DEF CallOK, Good
<1> QED  BY <1>3, <1>4

\* A call whose request was refused, or not answered.
LEMMA RefusedCall ==
  ASSUME DocumentsAssumption, NEW w \in Calls, w.pc = "asked", Underway(w), NEW u, u = End(w, Failed(w))
  PROVE  u \in Calls /\ u.on = w.on /\ CallOK(u) /\ \A x : Good(u, x)
<1>1. Failed(w) \in {"error", "send_error"} /\ (Failed(w) = "error" <=> ~w.second)
  BY DEF Failed, Calls
<1>2. u \in Calls /\ u.pc = Failed(w) /\ Keeps(u, w) /\ u.ask = w.ask /\ u.second = w.second
  BY <1>1, EndFields
<1>3. Ended(u)
  <2>1. u.on = w.on /\ u.did = w.did /\ u.moved = w.moved /\ u.lost = w.lost /\ u.stirred = w.stirred
    BY <1>2 DEF Keeps
  <2>2. w.did \in Nat /\ w.moved \in Nat /\ w.second \in BOOLEAN
    BY DEF Calls
  <2>3. w.did > 1 => w.lost \ (IF w.second THEN {"send"} ELSE {}) # {}
    BY <2>2 DEF Underway
  <2> QED  BY <1>1, <1>2, <2>1, <2>2, <2>3 DEF Ended, Underway
<1> QED  BY <1>1, <1>2, <1>3 DEF CallOK, Good, Keeps

LEMMA BusyCall ==
  ASSUME DocumentsAssumption, NEW w \in Calls, w.pc = "asked", Underway(w),
         NEW quit \in BOOLEAN, NEW u, u = OneMore(w, quit)
  PROVE  u \in Calls /\ u.on = w.on /\ CallOK(u) /\ \A x : Good(w, x) => Good(u, x)
<1>1. CASE w.tries < Retries /\ ~quit
  <2>1. u = [w EXCEPT !.tries = @ + 1]
    BY <1>1 DEF OneMore
  <2>2. u \in Calls /\ u.pc = "asked" /\ Keeps(u, w) /\ u.ask = w.ask /\ u.second = w.second
    BY <1>1, <2>1, AgainFields
  <2> QED  BY <2>2 DEF Keeps, CallOK, Underway, Good, Meets
<1>2. CASE ~(w.tries < Retries /\ ~quit)
  BY <1>2, RefusedCall DEF OneMore
<1> QED  BY <1>1, <1>2

-----------------------------------------------------------------------------
(* The steps. *)

\* A step that leaves the documents alone and changes one call.
LEMMA OneCall ==
  ASSUME DocumentsAssumption, IInv, UNCHANGED doc, NEW c \in Caller, NEW u \in Calls,
         call' = [call EXCEPT ![c] = u], CallOK(u), u.on \in Doc => Good(u, doc[u.on])
  PROVE  IInv'
<1>1. TypeOK'
  BY DEF IInv, TypeOK
<1>2. \A d \in Doc : Sound(doc[d])'
  BY DEF IInv
<1>3. ASSUME NEW b \in Caller
      PROVE  CallOK(call[b])' /\ (call[b].on \in Doc => Good(call[b], doc[call[b].on]))'
  BY <1>3 DEF IInv, TypeOK
<1> QED  BY <1>1, <1>2, <1>3 DEF IInv

LEMMA BeginStep ==
  ASSUME DocumentsAssumption, IInv, NEW c \in Caller, NEW q \in Requests, NEW d \in Doc \cup {0},
         NEW send \in BOOLEAN, send => q = "sign", q \notin Creating => d \in Doc, Begin(c, q, d, send)
  PROVE  IInv'
<1> DEFINE u == Call("asked", q, d, send, 1)
<1>2. 1 \in 0 .. Retries
  BY DEF DocumentsAssumption
<1>3. u \in Calls
  BY <1>2 DEF Call, Calls
<1>4. call' = [call EXCEPT ![c] = u] /\ UNCHANGED doc
  BY DEF Begin
<1>5. /\ u.pc = "asked" /\ u.ask = q /\ u.on = d /\ u.send = send /\ u.second = FALSE
      /\ u.did = 0 /\ u.moved = 0
  BY DEF Call
<1> HIDE DEF u
<1>6. CallOK(u)
  BY <1>5 DEF CallOK, Underway
<1>7. ASSUME u.on \in Doc
      PROVE  Good(u, doc[u.on])
  <2>1. doc[u.on].sigs \in Nat
    BY <1>7 DEF IInv, TypeOK, Entries
  <2> QED  BY <1>5, <2>1 DEF Good, Meets
<1> QED  BY <1>3, <1>4, <1>6, <1>7, OneCall

LEMMA ServeStep ==
  ASSUME DocumentsAssumption, IInv, NEW c \in Caller, Serve(c)
  PROVE  IInv'
<1> DEFINE w == call[c]
<1>1. w \in Calls /\ w.pc = "asked" /\ Underway(w) /\ w.ask \in Requests
  BY DEF IInv, TypeOK, Serve, CallOK, Calls
<1>2. PICK d \in Target(w) : \E y \in Outcomes(w.ask, d), told, quit \in BOOLEAN :
        /\ doc' = [doc EXCEPT ![d] = y]
        /\ call' = [x \in Caller |->
              IF x # c THEN Noted(call[x], d, y)
              ELSE LET v == Mine(w, doc[d], y, d, told)
                   IN  IF told THEN Passed(v) ELSE OneMore(v, quit)]
  BY DEF Serve
<1>2a. PICK y \in Outcomes(w.ask, d), told, quit \in BOOLEAN :
        /\ doc' = [doc EXCEPT ![d] = y]
        /\ call' = [x \in Caller |->
              IF x # c THEN Noted(call[x], d, y)
              ELSE LET v == Mine(w, doc[d], y, d, told)
                   IN  IF told THEN Passed(v) ELSE OneMore(v, quit)]
  BY <1>2
<1>3. d \in Doc /\ (w.ask \notin Creating => d = w.on)
  BY <1>1 DEF Target, Underway
<1>4. doc[d] \in Entries /\ Sound(doc[d]) /\ TypeOK
  BY <1>3 DEF IInv, TypeOK
<1>5. y \in Entries /\ Sound(y) /\ Forward(doc[d], y)
  BY <1>1, <1>3, <1>4, OutcomesForward
<1>6. Effect(w.ask, doc[d], y)
  BY <1>1, <1>3, <1>4, OutcomesEffect
<1>7. Meets(w, doc[d])
  <2>1. CASE w.ask \in Creating
    BY <1>1, <2>1 DEF Creating, Meets, Underway, Calls
  <2>2. CASE w.ask \notin Creating
    BY <1>1, <1>3, <2>2 DEF IInv, Good
  <2> QED  BY <2>1, <2>2
<1> DEFINE v == Mine(w, doc[d], y, d, told)
           u == IF told THEN Passed(v) ELSE OneMore(v, quit)
<1>8. u \in Calls /\ u.on = d /\ CallOK(u) /\ Good(u, y)
  <2> HIDE DEF w
  <2> QED  BY <1>1, <1>3, <1>4, <1>5, <1>6, <1>7, ServedCall
<1>9. call'[c] = u /\ \A b \in Caller \ {c} : call'[b] = Noted(call[b], d, y)
  BY <1>2a
<1>10. ASSUME NEW b \in Caller \ {c}
       PROVE  /\ call'[b] \in Calls /\ CallOK(call'[b])
              /\ call'[b].on \in Doc => Good(call'[b], doc'[call'[b].on])
  <2> DEFINE z == call[b]
             n == Noted(z, d, y)
  <2>1. z \in Calls /\ CallOK(z) /\ (z.on \in Doc => Good(z, doc[z.on]))
    BY DEF IInv, TypeOK
  <2>2. /\ n \in Calls /\ n.on = z.on /\ CallOK(n)
        /\ \A x : z.on # d /\ Good(z, x) => Good(n, x)
        /\ z.on = d /\ Good(z, doc[d]) => Good(n, y)
    <3> HIDE DEF z
    <3> QED  BY <1>3, <1>4, <1>5, <2>1, NotedCall
  <2>3. \A e \in Doc : doc'[e] = IF e = d THEN y ELSE doc[e]
    BY <1>2a, <1>4 DEF TypeOK
  <2>4. call'[b] = n
    BY <1>9
  <2> HIDE DEF n, z
  <2> QED  BY <1>3, <2>1, <2>2, <2>3, <2>4
<1> HIDE DEF u, v, w
<1>11. TypeOK'
  <2>1. doc' \in [Doc -> Entries]
    BY <1>2a, <1>4, <1>5 DEF TypeOK
  <2>2. call' = [x \in Caller |-> call'[x]]
    BY <1>2a
  <2>3. \A b \in Caller : call'[b] \in Calls
    BY <1>8, <1>9, <1>10
  <2> QED  BY <2>1, <2>2, <2>3 DEF TypeOK
<1>12. \A e \in Doc : Sound(doc[e])'
  BY <1>2a, <1>4, <1>5 DEF IInv, TypeOK
<1>13. doc'[d] = y
  BY <1>2a, <1>3, <1>4 DEF TypeOK
<1>14. CallOK(call'[c]) /\ (call'[c].on \in Doc => Good(call'[c], doc'[call'[c].on]))
  BY <1>8, <1>9, <1>13
<1> QED  BY <1>10, <1>11, <1>12, <1>14 DEF IInv

LEMMA RefuseStep ==
  ASSUME DocumentsAssumption, IInv, NEW c \in Caller, Refuse(c)
  PROVE  IInv'
<1>1. call[c] \in Calls /\ call[c].pc = "asked" /\ Underway(call[c])
  BY DEF IInv, TypeOK, Refuse, CallOK
<1>2. UNCHANGED doc /\ call' = [call EXCEPT ![c] = End(call[c], Failed(call[c]))]
  BY DEF Refuse
<1> QED  BY <1>1, <1>2, RefusedCall, OneCall

LEMMA BusyStep ==
  ASSUME DocumentsAssumption, IInv, NEW c \in Caller, Busy(c)
  PROVE  IInv'
<1> DEFINE w == call[c]
<1>1. w \in Calls /\ w.pc = "asked" /\ Underway(w)
  BY DEF IInv, TypeOK, Busy, CallOK
<1>2. w.on \in Doc => Good(w, doc[w.on])
  BY DEF IInv
<1>3. UNCHANGED doc
  BY DEF Busy
<1>5. PICK quit \in BOOLEAN : call' = [call EXCEPT ![c] = OneMore(w, quit)]
  BY DEF Busy
<1> DEFINE u == OneMore(w, quit)
<1>6. call' = [call EXCEPT ![c] = u]
  BY <1>5
<1> HIDE DEF w
<1>4. u \in Calls /\ u.on = w.on /\ CallOK(u) /\ \A x : Good(w, x) => Good(u, x)
  BY <1>1, BusyCall
<1> HIDE DEF u
<1> QED  BY <1>2, <1>3, <1>4, <1>6, OneCall

LEMMA IdleOK == ASSUME DocumentsAssumption
                PROVE  Idle \in Calls /\ CallOK(Idle) /\ \A x : Good(Idle, x)
<1>1. 0 \in 0 .. Retries
  BY DEF DocumentsAssumption
<1>2. Idle \in Calls
  BY <1>1 DEF Idle, Call, Calls, Requests
<1> QED  BY <1>2 DEF Idle, Call, CallOK, Good

LEMMA ReturnStep ==
  ASSUME DocumentsAssumption, IInv, NEW c \in Caller, Return(c)
  PROVE  IInv'
<1>1. UNCHANGED doc /\ call' = [call EXCEPT ![c] = Idle]
  BY DEF Return
<1> QED  BY <1>1, IdleOK, OneCall

\* Every tool begins with a request of its own.
LEMMA ToolStep ==
  ASSUME DocumentsAssumption, IInv, NEW c \in Caller,
         \/ UploadDocument(c) \/ CreateDocumentFromTemplate(c) \/ UploadScan(c)
         \/ ImportSignedDocument(c) \/ \E d \in Doc : Tool(c, d)
  PROVE  IInv'
<1>1. PICK q \in Requests, d \in Doc \cup {0}, send \in BOOLEAN :
        /\ send => q = "sign"
        /\ q \notin Creating => d \in Doc
        /\ Begin(c, q, d, send)
  <2>1. CASE \/ UploadDocument(c) \/ CreateDocumentFromTemplate(c) \/ UploadScan(c)
             \/ ImportSignedDocument(c)
    BY <2>1 DEF UploadDocument, CreateDocumentFromTemplate, UploadScan, ImportSignedDocument,
                Requests, Creating
  <2>2. CASE \E d \in Doc : Tool(c, d)
    <3>1. PICK d \in Doc : Tool(c, d)
      BY <2>2
    <3>2. CASE AddSignature(c, d)
      BY <3>2 DEF AddSignature, Requests
    <3>3. CASE ~AddSignature(c, d)
      BY <3>1, <3>3 DEF Tool, UpdateDocumentInfo, SetDocumentRecipient, SetDocumentRecipients,
         SetMultilateralRoute, SendDocument, RejectDocument, CloudSignDocument, DeleteDocument,
         CreateDeleteRequest, CancelDeleteRequest, AcceptDeleteRequest, RejectDeleteRequest, Requests
    <3> QED  BY <3>2, <3>3
  <2> QED  BY <2>1, <2>2
<1> QED  BY <1>1, BeginStep

LEMMA InitInv == ASSUME DocumentsAssumption, Init
                 PROVE  IInv
<1>1. ASSUME NEW x \in Seeds
      PROVE  x \in Entries /\ Sound(x)
  <2>1. CASE x = External("new", 7000)
    BY <2>1 DEF External, Entry, Entries, Statuses, Sound
  <2>2. ASSUME NEW n \in {7000, 7001, 7002, 7004, 7006, 7008}, x = External("there", n)
        PROVE  x \in Entries /\ Sound(x)
    <3>1. x \in Entries /\ x.state = "there" /\ x.sigs = 0 /\ x.covers = {}
      BY <2>2 DEF External, Entry, Entries, Statuses
    <3> QED  BY <3>1 DEF Sound
  <2>3. x = External("new", 7000) \/ x \in {External("there", n) : n \in {7000, 7001, 7002, 7004, 7006, 7008}}
    BY DEF Seeds
  <2> QED  BY <2>1, <2>2, <2>3
<1>2. doc \in [Doc -> Entries] /\ \A d \in Doc : Sound(doc[d])
  BY <1>1 DEF Init
<1>3. call \in [Caller -> Calls] /\ \A c \in Caller : CallOK(call[c]) /\ \A x : Good(call[c], x)
  BY IdleOK DEF Init
<1> QED  BY <1>2, <1>3 DEF IInv, TypeOK

LEMMA NextInv == ASSUME DocumentsAssumption, IInv, [Next]_vars
                 PROVE  IInv'
<1>1. CASE UNCHANGED vars
  BY <1>1 DEF vars, IInv, TypeOK, Sound, CallOK, Good, Underway, Meets, Ended, Told
<1>2. CASE Next
  <2>1. PICK c \in Caller :
          \/ \/ UploadDocument(c) \/ CreateDocumentFromTemplate(c) \/ UploadScan(c)
             \/ ImportSignedDocument(c) \/ \E d \in Doc : Tool(c, d)
          \/ Serve(c) \/ Refuse(c) \/ Busy(c) \/ Return(c)
    BY <1>2 DEF Next
  <2> QED  BY <2>1, ToolStep, ServeStep, RefuseStep, BusyStep, ReturnStep
<1> QED  BY <1>1, <1>2

\* The inductive invariant holds of every reachable state.
THEOREM Inductive == Spec => []IInv
BY DocumentsAssumption, InitInv, NextInv, PTL DEF Spec

\* Documents and calls stay what they are.
THEOREM TypeCorrect == Spec => []TypeOK
<1>1. IInv => TypeOK
  BY DEF IInv
<1> QED  BY <1>1, Inductive, PTL

\* Every signature of a document was made for the attributes it has: neither edits
\* that race with signing nor retries of either can separate the two.
THEOREM SignedAsIsAlways == Spec => []SignedAsIs
<1>1. IInv => SignedAsIs
  BY DEF IInv, Sound, SignedAsIs
<1> QED  BY <1>1, Inductive, PTL

\* A call sends a document on once, unless its answer was lost and somebody moved
\* the document in between.
THEOREM SendOnceAlways == Spec => []SendOnce
<1>1. IInv => SendOnce
  <2> SUFFICES ASSUME IInv, NEW c \in Caller, call[c].moved > 1
               PROVE  "send" \in call[c].lost /\ call[c].stirred
    BY DEF SendOnce
  <2>1. call[c] \in Calls /\ CallOK(call[c])
    BY DEF IInv, TypeOK
  <2>2. CASE call[c].pc = "idle"
    BY <2>1, <2>2 DEF CallOK, Idle, Call
  <2>3. CASE call[c].pc = "asked"
    BY <2>1, <2>3 DEF CallOK, Underway, Calls
  <2>4. CASE call[c].pc \in {"ok", "error", "send_error"}
    BY <2>1, <2>4 DEF CallOK, Ended
  <2> QED  BY <2>1, <2>2, <2>3, <2>4 DEF Calls
<1> QED  BY <1>1, Inductive, PTL

\* What a tool told its caller of a document stays so.
THEOREM ToldTrueAlways == Spec => []ToldTrue
<1>1. IInv => ToldTrue
  <2> SUFFICES ASSUME IInv, NEW c \in Caller
               PROVE  LET w == call[c] IN
                      /\ w.pc = "ok" /\ w.on \in Doc => Told(w, doc[w.on])
                      /\ w.pc = "send_error" => w.did > 0
                      /\ w.pc = "error" /\ w.lost = {} => w.did = 0
                      /\ w.did > 1 => w.lost \ (IF w.second THEN {"send"} ELSE {}) # {}
    BY DEF ToldTrue
  <2>1. /\ call[c] \in Calls /\ CallOK(call[c])
        /\ call[c].on \in Doc => Good(call[c], doc[call[c].on])
    BY DEF IInv, TypeOK
  <2>2. CASE call[c].pc = "idle"
    BY <2>1, <2>2 DEF CallOK, Idle, Call
  <2>3. CASE call[c].pc = "asked"
    BY <2>1, <2>3 DEF CallOK, Underway, Calls
  <2>4. CASE call[c].pc \in {"ok", "error", "send_error"}
    BY <2>1, <2>4 DEF CallOK, Ended, Good
  <2> QED  BY <2>1, <2>2, <2>3, <2>4 DEF Calls
<1> QED  BY <1>1, Inductive, PTL
=============================================================================
