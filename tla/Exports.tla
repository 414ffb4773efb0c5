------------------------------ MODULE Exports -------------------------------
(***************************************************************************)
(* The tools that answer with a file (internal/tools/files.go, reports.go) *)
(* on top of the download store: they fetch it from Vchasno, Put it into   *)
(* the store and hand out the link.  A report of the action history is     *)
(* built while the tool waits for it: waitForReport asks for its status    *)
(* every Poll ticks until its deadline.                                    *)
(*                                                                         *)
(* The clock is that of FileStore.  It waits for no longer than Slow for   *)
(* an answer (the client's timeout and attempts) and not at all for a      *)
(* pause that is over.                                                     *)
(***************************************************************************)
EXTENDS FileStore

CONSTANTS Tool,      \* calls of the tools
          Report,    \* ids of reports
          Deadline,  \* how long waitForReport waits: 60 seconds
          Poll,      \* its pause between two questions: 3 seconds
          Slow,      \* the longest a request of the client takes
          LastCall   \* bound: the last tick in which a call begins

ASSUME ExportsAssumption == Poll \in Nat \ {0} /\ Deadline \in Nat \ {0} /\ Slow \in Nat \ {0}
                            /\ LastCall \in Nat /\ None \notin Report

VARIABLES tool,      \* tool[t]: a call
          report,    \* report[r]: what Vchasno says of it
          told       \* history: links handed out by a process that still runs

exports == <<tool, report, told>>
allVars == <<vars, exports>>

State == {"not_found", "pending", "ready"}

\* proc serves the call; rep is the report it asks for; said is the answer about it
\* that is under way, or "none"; by bounds its request or pause, until its wait; link
\* is the file it saves.  History: began, and whether the report was ready more than
\* a pause and a request before the deadline (ready).
NoTool == [pc |-> "idle", ask |-> "download", proc |-> None, rep |-> None, said |-> "none",
           until |-> 0, by |-> 0, link |-> None, ans |-> "none", began |-> 0, ready |-> FALSE]

Asking  == {"request", "render", "status", "download"}   \* a request is under way
Working == Asking \cup {"pause"}

InitE == /\ Init
         /\ tool = [t \in Tool |-> NoTool]
         /\ report = [r \in Report |-> "not_found"]
         /\ told = {}

-----------------------------------------------------------------------------
(* The call w from one request to the next. *)

Send(w, p)   == [w EXCEPT !.pc = p, !.said = "none", !.by = now + Slow]
Fetch(w)     == Send([NoTool EXCEPT !.ask = w.ask, !.proc = w.proc, !.began = w.began], "download")
Done(w, a)   == [NoTool EXCEPT !.pc = "done", !.ans = a, !.proc = w.proc, !.ready = w.ready]

\* What the tool says when a step of it fails.  Who waits for a report gets its id
\* and is told that it is still building, whatever went wrong.
Failed(w) == Done(w, IF w.ask = "wait" /\ w.pc # "request" THEN "building" ELSE "error")

Begin(t, p, q, first, r) ==
    /\ up[p] = "up" /\ tool[t] = NoTool /\ now <= LastCall
    /\ tool' = [tool EXCEPT ![t] =
           Send([NoTool EXCEPT !.ask = q, !.proc = p, !.rep = r, !.began = now], first)]
    /\ UNCHANGED <<code, report, told>>

\* A format that Vchasno has at hand, or the PDF of an XML document, which is
\* asked for first.  (download_structured_data saves its file the same way; what it
\* answers when there is none is in Records.)
DownloadDocument(t, p) == \E first \in {"download", "render"} : Begin(t, p, "download", first, None)

GetActionsReport(t, p) == \E r \in Report : Begin(t, p, "get", "status", r)

RequestActionsReport(t, p) == \E q \in {"queue", "wait"} : Begin(t, p, q, "request", None)

-----------------------------------------------------------------------------
(* waitForReport *)

PolledOnceLess(w) ==                 \* mutant: no question that the deadline could overtake
    IF now + Poll < w.until THEN Send(w, "status") ELSE Done(w, "late")

PolledForever(w) == Send(w, "status")                     \* mutant: no deadline

\* The head of the loop.
Polled(w) == IF now < w.until THEN Send(w, "status") ELSE Done(w, "late")

\* Vchasno queues a report under a new id.  The answer may get lost; then it is built
\* all the same and the request is made again.
Queue(t) == LET w == tool[t] IN
    /\ w.pc = "request" /\ w.said = "none"
    /\ \E r \in Report :
          /\ report[r] = "not_found"
          /\ report' = [report EXCEPT ![r] = "pending"]
          /\ \/ UNCHANGED tool
             \/ tool' = [tool EXCEPT ![t].rep = r, ![t].said = "pending"]
    /\ UNCHANGED <<code, told>>

\* The id has arrived: the wait, if there is one, begins.
Queued(t) == LET w == tool[t] IN
    /\ w.pc = "request" /\ w.said # "none"
    /\ tool' = [tool EXCEPT ![t] = IF w.ask = "queue" THEN Done(w, "queued")
                                   ELSE Polled([w EXCEPT !.until = now + Deadline])]
    /\ UNCHANGED <<code, report, told>>

\* A report is built.  For whoever has still to learn its id, that is soon enough.
Build(r) == /\ report[r] = "pending"
            /\ report' = [report EXCEPT ![r] = "ready"]
            /\ tool' = [t \in Tool |->
                   IF tool[t].ask = "wait" /\ tool[t].rep = r
                   THEN [tool[t] EXCEPT !.ready = @ \/ tool[t].pc = "request"
                                                  \/ now + Poll + Slow < tool[t].until]
                   ELSE tool[t]]
            /\ UNCHANGED <<code, told>>

\* Vchasno looks the report up, at some time of the request; what it has said may
\* have changed when it arrives.
ReadStatus(t) ==
    /\ tool[t].pc = "status" /\ tool[t].said = "none"
    /\ tool' = [tool EXCEPT ![t].said = report[tool[t].rep]]
    /\ UNCHANGED <<code, report, told>>

\* The status has arrived: get_actions_report passes on all but "ready", a wait goes
\* on when the report was pending.
StatusOf(t) == LET w == tool[t] IN
    /\ w.pc = "status" /\ w.said # "none"
    /\ tool' = [tool EXCEPT ![t] =
           CASE w.said = "ready" -> Fetch(w)
             [] w.said # "ready" /\ w.ask = "get" -> Done(w, "status")
             [] w.said = "pending" /\ w.ask = "wait" -> [w EXCEPT !.pc = "pause", !.by = now + Poll]
             [] w.said = "not_found" /\ w.ask = "wait" -> Failed(w)]
    /\ UNCHANGED <<code, report, told>>

Continue(t) ==
    /\ tool[t].pc = "pause" /\ now >= tool[t].by
    /\ tool' = [tool EXCEPT ![t] = Polled(tool[t])]
    /\ UNCHANGED <<code, report, told>>

-----------------------------------------------------------------------------
(* Files. *)

Rendered(t) ==
    /\ tool[t].pc = "render"
    /\ tool' = [tool EXCEPT ![t] = Fetch(tool[t])]
    /\ UNCHANGED <<code, report, told>>

SaveWithoutFile(t) == LET w == tool[t] IN   \* mutant: an error of Put is not looked at
    /\ w.pc = "download"
    /\ \E id \in Ids :
          /\ PutWrite(w.proc, id)
          /\ tool' = [tool EXCEPT ![t] = [NoTool EXCEPT !.pc = "save", !.proc = w.proc, !.link = id]]
    /\ UNCHANGED <<report, told>>

\* saveDownload: the bytes are here, Put writes them, computes the expiry and
\* registers the link; with that the tool answers.
SaveDownload(t) == LET w == tool[t] IN
    /\ w.pc = "download"
    /\ \E id \in Ids :
          /\ PutWrite(w.proc, id)
          /\ tool' = [tool EXCEPT ![t] =
                 IF phase'[id] = "written" THEN [NoTool EXCEPT !.pc = "save", !.proc = w.proc, !.link = id]
                 ELSE Failed(w)]
    /\ UNCHANGED <<report, told>>

Stamp(t) ==
    /\ tool[t].pc = "save" /\ PutStamp(tool[t].link)
    /\ UNCHANGED exports

HandOut(t) ==
    /\ tool[t].pc = "save" /\ PutRegister(tool[t].link)
    /\ tool' = [tool EXCEPT ![t] = Done(tool[t], "file")]
    /\ told' = told \cup {tool[t].link}
    /\ UNCHANGED report

-----------------------------------------------------------------------------
\* A request fails: it is refused, or its attempts are used up.
Fail(t) ==
    /\ tool[t].pc \in Asking
    /\ tool' = [tool EXCEPT ![t] = Failed(tool[t])]
    /\ UNCHANGED <<code, report, told>>

\* The caller goes away; its context ends requests and pauses.
Leave(t) ==
    /\ tool[t].pc \in Working
    /\ tool' = [tool EXCEPT ![t] = Done(tool[t], "left")]
    /\ UNCHANGED <<code, report, told>>

Return(t) ==
    /\ tool[t].pc = "done"
    /\ tool' = [tool EXCEPT ![t] = NoTool]
    /\ UNCHANGED <<code, report, told>>

\* The end of a process ends its calls and its links.
StopAll(p) ==
    /\ Stop(p)
    /\ tool' = [t \in Tool |-> IF tool[t].proc = p THEN NoTool ELSE tool[t]]
    /\ told' = {id \in told : owner[id] # p}
    /\ UNCHANGED report

\* No request outlives its bound, no pause is overslept.
Pass == /\ \A t \in Tool : tool[t].pc \in Working => now < tool[t].by
        /\ Tick
        /\ UNCHANGED exports

\* What the store does by itself, and the requests for its files.
Store == /\ \/ \E p \in Proc : \/ Start(p) \/ Ready(p) \/ SweepStart(p) \/ SweepCollect(p)
                               \/ \E n \in Ids \cup Foreign : ClearOne(p, n)
                               \/ \E c \in Caller, id \in Ids : OpenLookup(c, p, id)
            \/ \E id \in Ids : RemoveFile(id)
            \/ \E c \in Caller : OpenCheck(c) \/ OpenRead(c) \/ Respond(c)
         /\ UNCHANGED exports

ToolStep(t) == \/ \E p \in Proc : \/ DownloadDocument(t, p) \/ GetActionsReport(t, p)
                                 \/ RequestActionsReport(t, p)
               \/ Queue(t) \/ Queued(t) \/ ReadStatus(t) \/ StatusOf(t) \/ Continue(t) \/ Rendered(t)
               \/ SaveDownload(t) \/ Stamp(t) \/ HandOut(t)
               \/ Fail(t) \/ Leave(t) \/ Return(t)

NextE == /\ \/ \E t \in Tool : ToolStep(t)
            \/ \E r \in Report : Build(r)
            \/ \E p \in Proc : StopAll(p)
            \/ Store \/ Pass
         /\ Observe

SpecE == InitE /\ [][NextE]_allVars

-----------------------------------------------------------------------------
(* Properties *)

Tools == [pc : Working \cup {"idle", "save", "done"},
          ask : {"download", "get", "queue", "wait"}, proc : Proc \cup {None},
          rep : Report \cup {None}, said : State \cup {"none"}, until : Nat, by : Nat, link : Ids \cup {None},
          ans : {"none", "file", "status", "queued", "building", "late", "error", "left"}, began : Nat, ready : BOOLEAN]

\* Besides the types: a call that is served has a process that runs, and a file that
\* is being saved is not yet registered.
ExportsTypeOK ==
    /\ tool \in [Tool -> Tools]
    /\ report \in [Report -> State]
    /\ told \subseteq Ids
    /\ \A t \in Tool : tool[t] # NoTool => up[tool[t].proc] = "up"
    /\ \A t \in Tool : tool[t].pc = "save" => phase[tool[t].link] \in {"written", "stamped"}

\* The answer of a tool promises that its link works until expires_at.  So it does,
\* for as long as the process runs: the link is registered and the file is there,
\* whatever is swept, cleared or fails in between (one process on the directory).
ToldLinksWork == \A id \in told : ~Expired(id, now) => phase[id] = "held" /\ id \in disk

\* A wait is given up over its deadline only if the report was not ready one pause
\* and one request before it: the answer "pending" may be as old as its request, but
\* with more than that to go no further question is left out.
GivenUpLate == \A t \in Tool : tool[t].ans = "late" => ~tool[t].ready

\* A call ends in time: the deadline bounds the questions, and it comes from the
\* caller's request plus one request of the client; the last question, asked before
\* it, has an answer, and a download or a pause may follow.
Longest == IF Slow > Poll THEN Slow ELSE Poll
EndsInTime == \A t \in Tool :
    tool[t].pc \in Working => now < tool[t].began + Deadline + 2 * Slow + Longest
=============================================================================
