----------------------------- MODULE Documents ------------------------------
(***************************************************************************)
(* The life of a document: the routes of the service that move it from     *)
(* status to status (internal/mockvchasno/documents.go, routes.go), and    *)
(* the tools that call them (internal/tools/workflow.go, lifecycle.go,     *)
(* files.go).                                                              *)
(*                                                                         *)
(* A tool makes its requests one after the other.  The service serves a    *)
(* request in one step, under its lock; the answer may be lost, and the    *)
(* client then makes the request again (ApiClient).  Calls that a tool     *)
(* refuses for their arguments make no request and are left out.           *)
(***************************************************************************)
EXTENDS Naturals, FiniteSets

CONSTANTS Doc,       \* ids of documents
          Caller,    \* tool calls under way at the same time
          Retries,   \* MCP_RETRY_ATTEMPTS
          MaxEdits, MaxSigs   \* bounds of the model on what is begun

ASSUME DocumentsAssumption ==
    /\ Doc \subseteq Nat /\ Retries \in Nat \ {0}
    /\ MaxEdits \in Nat /\ MaxSigs \in Nat

VARIABLES doc,     \* doc[d]: a document
          call     \* call[c]: a tool call

vars == <<doc, call>>

Creating == {"upload", "template", "scan", "import"}

Requests == Creating \cup {"info", "recipient", "recipients", "flow", "sign", "send", "reject", "cloud",
                          "delete", "ask", "withdraw", "agree", "decline"}

Statuses == {7000, 7001, 7002, 7003, 7004, 7006, 7007, 7008, 7010}

\* A document: sigs counts its signatures, covers has the states of its
\* attributes they were made for, asked is the state of its last delete request.
Entry(s, n, i) == [state |-> s, status |-> n, internal |-> i, attrs |-> 0,
                   sigs |-> 0, covers |-> {}, asked |-> "never"]

External(s, n) == Entry(s, n, FALSE)      \* between two companies

\* A call: ask is the request it is at, send whether another follows.  History:
\* did, how often its first request took effect; moved, how often it moved the
\* document on; lost, the requests of which an answer was lost; stirred, whether
\* somebody else moved the document after that.
Call(p, q, d, send, n) == [pc |-> p, ask |-> q, on |-> d, send |-> send, second |-> FALSE,
                           tries |-> n, did |-> 0, moved |-> 0, lost |-> {}, stirred |-> FALSE]

Idle == Call("idle", "send", 0, FALSE, 0)

\* New: the service begins with any documents of its own.
Seeds == {External("new", 7000)} \cup
         {External("there", n) : n \in {7000, 7001, 7002, 7004, 7006, 7008}}

Init == /\ doc \in [Doc -> Seeds]
        /\ call = [c \in Caller |-> Idle]

-----------------------------------------------------------------------------
(* The routes of the service: the documents a request can make of a          *)
(* document; none when it is refused.                                        *)

\* upload: "a counterparty email is what lifts a fresh upload to ready to send".
UploadRoute == {Entry("there", n, i) : n \in {7000, 7001}, i \in BOOLEAN}

\* Those that put a document on the register in other ways.
TemplateRoute == {External("there", 7000)}
ScanRoute     == {External("there", 7000)}
ImportRoute   == {External("there", 7008)}

InfoRouteLate(x) ==                     \* mutant: the attributes freeze too late
    IF x.status > 7003 THEN {} ELSE {[x EXCEPT !.attrs = @ + 1]}

InfoRoute(x) == IF x.status >= 7003 THEN {} ELSE {[x EXCEPT !.attrs = @ + 1]}

RecipientRoute(x) ==
    IF x.sigs > 0 /\ x.status >= 7004 THEN {}
    ELSE {[x EXCEPT !.status = IF @ = 7000 THEN 7001 ELSE @]}

\* Who the parties are is left out.
RecipientsRoute(x) == {x}

FlowRoute(x) == {[x EXCEPT !.status = 7010]}

Signable == {7001, 7002, 7003, 7004, 7007, 7010}

Signed(x) == [x EXCEPT !.sigs = @ + 1, !.covers = @ \cup {x.attrs}]

SignRoute(x) ==
    IF x.status \notin Signable THEN {}
    ELSE {[Signed(x) EXCEPT !.status = IF @ \in {7001, 7002} THEN 7003 ELSE @]}

\* A document that is nowhere on its way is sent without effect.
SendRouteAgain(x) ==                     \* mutant: what was sent for the first signature is forwarded
    IF x.status = 7000 THEN {}
    ELSE {[x EXCEPT !.status = CASE @ = 7001 -> 7002 [] @ = 7002 -> 7004 [] @ = 7003 -> 7004
                                 [] @ = 7007 -> 7008 [] OTHER -> @]}

SendRoute(x) ==
    IF x.status = 7000 THEN {}
    ELSE {[x EXCEPT !.status = CASE @ = 7001 -> 7002 [] @ = 7003 -> 7004
                                 [] @ = 7007 -> 7008 [] OTHER -> @]}

RejectRoute(x) == {[x EXCEPT !.status = 7006]}

\* cloud-signer/sessions/sign-document looks at no status.
CloudRoute(x) == {[Signed(x) EXCEPT !.status = 7004]}

DeleteRoute(x) == IF x.status = 7008 /\ ~x.internal THEN {} ELSE {[x EXCEPT !.state = "gone"]}

AskRoute(x) == {[x EXCEPT !.asked = "new"]}

\* The requests of a document change together, whatever state they are in.
All(x, s) == [x EXCEPT !.asked = IF @ = "never" THEN @ ELSE s]

WithdrawRoute(x) == {All(x, "canceled")}
DeclineRoute(x) == {All(x, "rejected")}
AgreeRoute(x) == {[All(x, "accepted") EXCEPT !.state = "gone"]}

Created(q) == CASE q = "upload" -> UploadRoute [] q = "template" -> TemplateRoute
                [] q = "scan" -> ScanRoute     [] q = "import" -> ImportRoute

Route(q, x) == CASE q = "info" -> InfoRoute(x)
                 [] q = "recipient" -> RecipientRoute(x) [] q = "recipients" -> RecipientsRoute(x)
                 [] q = "flow" -> FlowRoute(x)           [] q = "sign" -> SignRoute(x)
                 [] q = "send" -> SendRoute(x)           [] q = "reject" -> RejectRoute(x)
                 [] q = "cloud" -> CloudRoute(x)         [] q = "delete" -> DeleteRoute(x)
                 [] q = "ask" -> AskRoute(x)             [] q = "withdraw" -> WithdrawRoute(x)
                 [] q = "agree" -> AgreeRoute(x)         [] q = "decline" -> DeclineRoute(x)

\* documentRoute: 404 for a document that is not there; the cloud signer does not mind.
Outcomes(q, d) ==
    IF q \in Creating THEN
        IF doc[d].state = "new" THEN Created(q) ELSE {}
    ELSE IF doc[d].state = "there" THEN Route(q, doc[d])
    ELSE IF q = "cloud" THEN {doc[d]} ELSE {}

-----------------------------------------------------------------------------
(* The tools. *)

Begin(c, q, d, send) ==
    /\ call[c].pc = "idle"
    /\ call' = [call EXCEPT ![c] = Call("asked", q, d, send, 1)]
    /\ UNCHANGED doc

\* upload_document: the service chooses the id when it serves the request.
UploadDocument(c)             == Begin(c, "upload", 0, FALSE)
CreateDocumentFromTemplate(c) == Begin(c, "template", 0, FALSE)
UploadScan(c)                 == Begin(c, "scan", 0, FALSE)
ImportSignedDocument(c)       == Begin(c, "import", 0, FALSE)

UpdateDocumentInfo(c, d)    == doc[d].attrs < MaxEdits /\ Begin(c, "info", d, FALSE)
SetDocumentRecipient(c, d)  == Begin(c, "recipient", d, FALSE)
SetDocumentRecipients(c, d) == Begin(c, "recipients", d, FALSE)
SetMultilateralRoute(c, d)  == Begin(c, "flow", d, FALSE)
AddSignature(c, d)          == doc[d].sigs < MaxSigs /\ \E send \in BOOLEAN : Begin(c, "sign", d, send)
SendDocument(c, d)          == Begin(c, "send", d, FALSE)
RejectDocument(c, d)        == Begin(c, "reject", d, FALSE)
CloudSignDocument(c, d)     == doc[d].sigs < MaxSigs /\ Begin(c, "cloud", d, FALSE)
DeleteDocument(c, d)        == Begin(c, "delete", d, FALSE)
CreateDeleteRequest(c, d)   == Begin(c, "ask", d, FALSE)
CancelDeleteRequest(c, d)   == Begin(c, "withdraw", d, FALSE)
AcceptDeleteRequest(c, d)   == Begin(c, "agree", d, FALSE)
RejectDeleteRequest(c, d)   == Begin(c, "decline", d, FALSE)

Tool(c, d) == \/ UpdateDocumentInfo(c, d) \/ SetDocumentRecipient(c, d) \/ SetDocumentRecipients(c, d)
              \/ SetMultilateralRoute(c, d) \/ AddSignature(c, d) \/ SendDocument(c, d)
              \/ RejectDocument(c, d) \/ CloudSignDocument(c, d) \/ DeleteDocument(c, d)
              \/ CreateDeleteRequest(c, d) \/ CancelDeleteRequest(c, d)
              \/ AcceptDeleteRequest(c, d) \/ RejectDeleteRequest(c, d)

-----------------------------------------------------------------------------
(* What comes of a request. *)

\* A document d has become y: what that is to a call that is at it, and to the call
\* whose request it was.
Noted(w, d, y) ==
    [w EXCEPT !.stirred = @ \/ /\ w.on = d /\ w.pc = "asked" /\ "send" \in w.lost
                                /\ y.status # doc[d].status]

Mine(w, x, y, d, told) ==
    [w EXCEPT !.on    = d,
              !.did   = IF w.second THEN @ ELSE @ + 1,
              !.moved = IF w.ask = "send" /\ y.status # x.status THEN @ + 1 ELSE @,
              !.lost  = IF told THEN @ ELSE @ \cup {w.ask}]

End(w, r) == [w EXCEPT !.pc = r, !.tries = 0]

\* add_signature: "the signature was accepted but sending failed".
FailedPlainly(w) == "error"          \* mutant: the signature is not mentioned

Failed(w) == IF w.second THEN "send_error" ELSE "error"

\* The next attempt, or the end of the tool: there is none left, the caller has gone,
\* or the answer is there and makes no sense.
OneMore(w, quit) ==
    IF w.tries < Retries /\ ~quit THEN [w EXCEPT !.tries = @ + 1] ELSE End(w, Failed(w))

\* A tool that signs goes on to send; another one is done.
Passed(w) == IF w.send /\ ~w.second THEN [w EXCEPT !.ask = "send", !.second = TRUE, !.tries = 1]
             ELSE End(w, "ok")

\* A new document takes the next id.
Target(w) == IF w.ask \notin Creating THEN {w.on}
             ELSE {d \in Doc : doc[d].state = "new"
                               /\ \A e \in Doc : e < d => doc[e].state # "new"}

Serve(c) == LET w == call[c] IN
    /\ w.pc = "asked"
    /\ \E d \in Target(w) : \E y \in Outcomes(w.ask, d), told, quit \in BOOLEAN :
          /\ doc' = [doc EXCEPT ![d] = y]
          /\ call' = [x \in Caller |->
                IF x # c THEN Noted(call[x], d, y)
                ELSE LET v == Mine(w, doc[d], y, d, told)
                     IN  IF told THEN Passed(v) ELSE OneMore(v, quit)]

Refuse(c) == LET w == call[c] IN
    /\ w.pc = "asked" /\ Target(w) # {}
    /\ \A d \in Target(w) : Outcomes(w.ask, d) = {}
    /\ call' = [call EXCEPT ![c] = End(w, Failed(w))]
    /\ UNCHANGED doc

\* Too many requests, or no connection: nothing was done.
Busy(c) == LET w == call[c] IN
    /\ w.pc = "asked"
    /\ \E quit \in BOOLEAN : call' = [call EXCEPT ![c] = OneMore(w, quit)]
    /\ UNCHANGED doc

Return(c) ==
    /\ call[c].pc \in {"ok", "error", "send_error"}
    /\ call' = [call EXCEPT ![c] = Idle]
    /\ UNCHANGED doc

Next == \E c \in Caller : \/ UploadDocument(c) \/ CreateDocumentFromTemplate(c) \/ UploadScan(c)
                          \/ ImportSignedDocument(c)
                          \/ Serve(c) \/ Refuse(c) \/ Busy(c) \/ Return(c)
                          \/ \E d \in Doc : Tool(c, d)

Spec == Init /\ [][Next]_vars

-----------------------------------------------------------------------------
(* Properties *)

Entries == [state : {"new", "there", "gone"}, status : Statuses, internal : BOOLEAN, attrs : Nat,
            sigs : Nat, covers : SUBSET Nat, asked : {"never", "new", "canceled", "rejected", "accepted"}]

Calls == [pc : {"idle", "asked", "ok", "error", "send_error"}, ask : Requests, on : Doc \cup {0},
          send : BOOLEAN, second : BOOLEAN, tries : 0 .. Retries, did : Nat, moved : Nat,
          lost : SUBSET Requests, stirred : BOOLEAN]

TypeOK == doc \in [Doc -> Entries] /\ call \in [Caller -> Calls]

\* "after that the attributes are frozen" (update_document_info): every signature
\* of a document was made for the attributes that the document has.
SignedAsIs == \A d \in Doc : doc[d].covers \subseteq {doc[d].attrs}

\* A call of send_document, or the second half of add_signature, moves a document
\* on once, however often it is tried; unless its answer was lost and somebody
\* moved the document before it was tried again.
SendOnce == \A c \in Caller : LET w == call[c] IN w.moved > 1 => "send" \in w.lost /\ w.stirred

\* What a tool has told its caller is so and stays so, whatever others do in the
\* meantime: the document is signed, sent, has left our hands, has a party, is
\* gone.  Who is told of an error without a lost answer has changed nothing.
OurSide == {7000, 7001, 7002, 7003}

Told(w, x) ==
    /\ w.ask = "sign" \/ w.second => w.did > 0 /\ x.sigs >= w.did
    /\ w.second                    => x.status \notin OurSide
    /\ w.ask \in {"flow", "reject"} => x.status \notin OurSide
    /\ w.ask = "recipient"          => x.status # 7000
    /\ w.ask \in {"delete", "agree"} => x.state = "gone"

ToldTrue == \A c \in Caller : LET w == call[c] IN
    /\ w.pc = "ok" /\ w.on \in Doc => Told(w, doc[w.on])
    /\ w.pc = "send_error" => w.did > 0
    /\ w.pc = "error" /\ w.lost = {} => w.did = 0
    /\ w.did > 1 => w.lost \ (IF w.second THEN {"send"} ELSE {}) # {}
=============================================================================
