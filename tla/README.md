# Verification of vchasno-edo-mcp

TLA+ models of the server in this repository, model-checked with TLC and, for the parts that
matter most, proved with TLAPS for every value of the parameters. File names below are relative
to the repository root; the modules, their TLC configurations and `PROJECT.json` (which maps every
definition to the lines it stands for) are next to this file.

## The system

The program is an MCP server in Go for Vchasno.EDO, a Ukrainian service for electronic documents.
An assistant calls tools over HTTP; the tools call Vchasno with the token of a company.

| component | code | state | operations |
| --- | --- | --- | --- |
| download store | `internal/filestore`, `handleFile` of `internal/httpserver/server.go` | registry in memory (mutex), files in a directory | `New` (empties the directory), `Put`, `Open`, `Forget`, `Sweep` by a janitor every minute |
| session | `internal/session` | reference data with time stamps (mutex), `APIOpen` (no lock) | `Connect`, `Categories`/`Roles`/`Tags`/`Fields`/`Groups`, `Invalidate`, `Resolve*` |
| OAuth server | `internal/auth` | clients, codes, sessions in memory (mutex); RSA key in a file | register, log in, exchange a code, resolve a token, load or make the key |
| Vchasno client | `internal/vchasno/client.go` | a token bucket per session | `do`: wait, send, retry, give up |
| HTTP server | `internal/httpserver` | sessions by credentials, MCP server per session (mutex) | three authentication modes, files, REST bridge, readiness |
| process | `cmd`, `internal/config` | configuration, the session of its own token | start, pre-authenticated connection with retries, shutdown |
| workflow and lifecycle tools | `workflow.go`, `lifecycle.go` of `internal/tools` | none of their own; the documents at Vchasno | sign, send, reject, delete and ask to delete; comments, fields, reviewers, versions, children, links, archive |
| company tools | `internal/tools/company.go` | none of their own; the directory at Vchasno | labels, extra parameters, document types, teams, employees, trial |
| file and report tools | `files.go`, `reports.go`, `common.go` of `internal/tools` | none of their own; the store | upload, download, wait for a report |
| endpoints, dictionary | `internal/vchasno` | none | one function per endpoint, status tables, tolerant decoding |
| document register | `collect`, list and sync tools of `internal/tools/documents.go`; pages of `internal/mockvchasno` | documents, their marks; in the caller, a cursor | upload, change, process, delete; list, continue, sync |
| mock Vchasno | `internal/mockvchasno` | documents, signatures, reviews, tags, groups... | the service the tests run against |

How they interact: an HTTP request is authenticated (`resolveSession`), which gives a *session*;
every session has one *client* with one *limiter*, one *reference cache* and one MCP server.
Tools run concurrently, on one session or several; they read reference data through the cache,
change things through the client, then call `Invalidate`. Downloads go into the *store*, whose links
are served without authentication. The OAuth server keeps sessions by token; a token outlives the
process because it carries the encrypted credentials and the key is in a file.

What makes it hard: every critical section is short and every request to Vchasno happens outside
the locks, so that something checked before a request is stale after it (`session.go` 113-215,
`oauth.go` 133-159, `server.go` 80-98); registry and directory, or key and key file, are two pieces
of state with a crash between them; an answer may be lost after the change was made; the
clock runs all the time. `PROJECT.json` lists each such hazard at its line.

What makes each component correct, in a sentence: a link works until its time, which is the time its
caller was told, and its file leaves
the disk after it; a cache returns nothing that was replaced long ago, and nothing old after
`Invalidate`; an authorization code gives at most one token, to whoever meets its terms, and a
token has one session; so have the credentials of a header; a process comes up again and ends when told; a client keeps its pace, reports what
happened, and every call ends; a walk through the register misses nothing that stays in it, and a
sync, window after window, leaves no change out; signatures are of the document as it is, it is sent on once, and
what a tool has said is so; a name stands for the entry that bears it; a wait for a report ends in time and not too early.

## Modules

| module | models | abstract specification | proofs |
| --- | --- | --- | --- |
| `FileStore` | the download store | `LinkStore` | `FileStoreProofs` |
| `RefCache` | the reference cache and the tools that change the data | | `SessionProofs` |
| `OAuthServer` | the OAuth server, its key file, restarts | `AuthGrant` | `OAuthProofs` |
| `ApiClient` | limiter and request loop | | `SessionProofs` |
| `Register` | the register of documents, its pages, and the tools that walk through them | | `RegisterProofs` |
| `Documents` | the statuses of documents and the tools that move them | | `DocumentsProofs` |
| `Records` | what is kept beside a document, and the tools that add to it and take from it | | `RecordsProofs` |
| `Directory` | labels, teams, fields, types and employees; the tools that change them; names and cached lists | | `DirectoryProofs` |
| `Gateway` | the process, its start and end, the sessions of its requests | | `GatewayProofs` |
| `Exports` | the tools that answer with a file, on top of `FileStore` (which it extends) | | `FileStoreProofs` |

How they share the system: `Exports` composes the tools with the store, step by step. The others
meet in what they take from each other: `ApiClient` says what becomes of a request (made or not,
answered or not, tried again), and `Documents`, `Records` and `Directory` build on just that; `RefCache` says what is
in a cached list, by version, and `Directory` what comes of acting on one; `OAuthServer` has the sessions of bearer
tokens, `Gateway` those of headers and of the process. `Register`, `Documents` and `Records` look at one register of documents from
three sides: its pages, its statuses, its attachments.

`MC*.tla` instantiate them for TLC. A definition marked *mutant* is a wrong variant of the one that
follows it, used to show that a property notices the mistake; no run uses it.

### FileStore

The variables are the registry (`phase`, `expires`), the directory (`disk`), the process (`up`,
`todo` for the clearing under way, `sweepAt` for a `Sweep` that has read the clock), the requests
(`call`) and the clock. A step is what happens between two points where something else can run:
`Put` is write, compute the expiry, register; `Open` is look up, look at the clock, read; `Sweep` is
read the clock, collect under the lock, remove each file. `Start`, `ClearOne`, `Ready` are `New`;
`Stop` ends the process anywhere. `FsFaults` lets reading the directory, writing, reading and
removing fail. `seen` is a history variable: whether the link was live / dead at some moment of the
request.

`LinkStore` says what a user of links sees: a link comes to life once, dies once, and a request
is answered with something that was true at some moment between question and answer. It is
the linearizability of `Open`, stated without a linearization point. The refinement mapping makes a
link live while it is registered and not expired, and also counts an id that `Sweep` has taken
out as live *if it has not expired*, so that sweeping too early is not excused.

### RefCache

Vchasno's data is a version number per kind. A read is `Lookup` (under the lock), `Fetch` (the
value Vchasno had when it answered), `Store` (under the lock, later), `Return`. A change is `Apply` and then
`Invalidate` or, when the answer is lost, `Lose`; tools of the kinds in `Deferred` invalidate with
`defer` and therefore in any case (tags). `Merged` kinds (categories) come out as the built-in data when a fetch fails,
or when the session is closed. The tariff of the company is none, active or over: `ActivateTrial` and `OpenSession` are activate_integration_trial,
which sets `APIOpen` without the lock and invalidates after it; `TariffEnds` is the end of the tariff, of which no session is told, so that `APIOpen`
outlives it and every request fails from then on. An entry remembers the epoch its fetch began in and the one
it was stored in, and whether Vchasno was not asked because the session was closed (`shut`); `floor` is what Vchasno held at the last `Invalidate`.
Writers and readers look at `APIOpen` at their own moments, so a read that has seen the session closed may store its built-in
answer after it was opened: `OpenedAfresh` says that nothing else can. An empty list that decodes
to nil is fetched again on every read; the model has no such value, which only adds fetches.

### OAuthServer

Registration, `Submit`/`LoginFails`/`CreateAuthCode` (the login, with Vchasno asked in between),
`TakeCode`/`Refuse`/`CreateToken`/`HandOver` (the exchange: the code leaves the map before anything is
checked), `Resolve`/`ConnectFails`/`Restore` (`SessionByToken` with its second look), and
`LoadKey`/`SaveKey`/`Crash`. Keys are numbered by the start that made them; the key file holds a key
or nothing usable. PKCE is a relation: a challenge is the verifier it was made from, or none.
Encryption and signature of a token come down to "made with the key of this process".

`AuthGrant` is the promise: a code is offered on terms, redeemed at most once by a fitting claim for
a token with the credentials of the terms, or void, and never the one after the other.

### ApiClient

A clock tick is the interval of the bucket (`1/rps`). `Wait` is `limiter.wait` with the request that
follows at once: a token in the bucket is taken, otherwise the call queues (Go serves the
receivers of a channel in order). `Process` is Vchasno and the network: the change is made or not, and the answer is a success,
a success that cannot be decoded, a refusal, 429, a server error, or lost. `Finish`, `Pause`, `Retry` are
the rest of `do`. `Cancel` is the end of the context: `select` may still take the token, but the
HTTP client does not send. `effect` and `unsure` record how often the change was made and whether an
attempt left that open; `recent[i]`
counts the requests since the i-th of the last `Window + 1` ticks. A second that begins between two ticks has `Window` ticks in it and begins after the first of
these, so that its first count bounds the requests of any second, wherever it begins; the second count, of exactly the last second, is one that really occurs.

### Register

`reg` is the register: of a document it keeps whether it is there, when it changed last, what of that the search index
knows (`indexed`), its has_changed mark and its processed flag. Documents are numbered in the order of their ids, which is the order
of the list; an id that is given later may come earlier in it, as `doc-0001` of an upload comes before the
`doc-001` the mock begins with. A page is one step, because the service answers it under its lock, and a page of a has_changed list
unmarks its rows (`Unmark`). What documents contain and all other filters are left out: the processed flag stands for
every attribute by which a document may leave a list while it is read.

`walk[r]` is a list that a caller of the tools is reading, over one call or several: `List` and `Sync` begin a call,
`Fetch` is one round of the loop of `collect` (with `Last` and `Kept` its way out: limit, no next page, or pages used up), `Continue`
is the next call with the cursor, `Fail` and `LosePage` the page that cannot be had or is asked for twice, and `Leave` what
the reader does after it, which after a window is to go on from `next_window_start`, less the overlap that the tool and the prompt
advise (`Back`). After a window the cursor belongs to a list without one (documents.go 446), and so it is
modelled. Incoming documents have no window and the same pages: a list of another kind.

`want`, `got`, `shown`, `gap`, `owed` and `dropped` are history: the documents in the list all the time since the walk began; those the
reader was given; those it was given after their last change; readers that know they did not see a whole window; marked
documents, and those unmarked without being returned.

### Documents

`doc[d]` has the status, how often its attributes were changed, for which of these states it was signed, and its delete
request. A *route* is a handler of the service, which serves a request in one step; `Route` gives the handler of every request of a
tool. There is an action for every tool that moves a document (all of them through `Begin`; add_signature may have a send to follow); then come `Serve` (with or without
its answer arriving), `Refuse`, `Busy` (nothing was done) and `Return`. `Passed` makes the second request of add_signature, `OneMore` the next attempt. `did`, `moved`, `lost` and `stirred` are history:
how often the request took effect, how often it moved the document on, of which requests an answer was lost, and whether somebody else moved the
document since. A request is served before the client gives it up; `Records` has the other case.

What the model shows of the service without a property of its own: accepting a delete request needs no live request; reject, the
cloud signer and flow reopen a finished document, which can then be deleted; the cloud signer answers ok for
documents it does not know.

### Records

`svc.rows[d]` counts comments, fields and reviewers of a document and has its versions, children, parent, place in the archive, recognised
data and public link. A call makes one or two requests; an attempt can be answered, dropped, or *delayed* (`late`): the client gives it up and the service
serves it at any later time, when the tool may have returned. `made` and `blind` count what took effect and what was not answered. The service accepts new
versions of a document in any status, but records them only of some (`Versioned`, any set of documents, also none): the others are answered like them and keep nothing, as
`internal/tools/files.go:257` and 272 and item 5 of the findings in `README.md` of the repository (line 201) say. upload_document_version reads the
versions back after that (`Look` at step 2, `seen`); if it cannot, it tells of a success without `versions_now`. Every other route is the mock's: detaching leaves the child its parent; a second create_public_link leaves the first
link alive though nothing shows it any more; the route of public links does not look whether the document exists.

### Directory

`svc` has the entries of the five kinds, who carries which label (a bag: a repeated request attaches a label twice) and who is
in which team. A call (`Begin`) is given names or ids. `Lookup` finds one in the cached list of its session, or `Fetch` reads the list (`FetchFails`
if it cannot) and `Store` keeps it, later; `Straight` is an id that is passed on as it is. Then the change is asked for: `Answer`, `Refuse`, or `Lose`, where it was made or not. `Return`
forgets the lists (`Forgets`: which kinds, as the tools call `Invalidate`). Whether a cached list has expired is a choice. `knows` is what the call's session has been told of by then, `flaw` the
reason a list may be wrong: read while the session forgot its lists, cut after the first `TagPage` labels, or built in because the read failed.
The label that nobody carries any more may be deleted or not: the comment in `vchasno/company.go:141` says Vchasno does, the mock does not.
Deleting an employee's role leaves their labels, and a team that is gone can still be given members.

### Gateway

`proc` is the process: connecting (with its attempt), pausing, serving, closing, ended. `Connect` is one attempt of connectWithRetry: a
token that Vchasno refuses ends the process at once, as does the last failure; after another failure it pauses.
`Signal` ends a pause at once, and the context of an attempt; `Return` is the end of main, which does not wait for requests;
`Crash` and `Restart` complete the life. A request in header mode has the three parts of `resolveSession`
(look up under the lock, connect without it, look again), here `Arrive`, `OpenSession` (`Forbid` if Vchasno refuses) and `Register`; `Bind` is `mcpServerFor`. Vchasno (`api`, `world`) may be down, know
the token or not, and grant or refuse the API tariff; a company whose tariff is closed gets a session in which tools refuse to work,
except activate_integration_trial, which opens only the session it was called in. Sessions are closed or kept, never dropped: `MaxSess` bounds
them here, and nothing does in the program.

### Exports

Extends `FileStore` with the tools: `DownloadDocument`, `GetActionsReport` and `RequestActionsReport` begin a call, `Queue` and `Build` are the life of a report at
Vchasno. A request for a report or its status has two moments: Vchasno reads or changes what it has (`Queue`, `ReadStatus`), and what it said then (`said`) arrives at some time up to
`Slow` later (`Queued`, `StatusOf`), when the report may be further. `Polled` is the head of the loop of waitForReport, `Continue` the end of its pause, `Fetch` the request for the file, `SaveDownload`, `Stamp` and `HandOut` a `Put` by a tool, in the steps
of `FileStore`; `Fail` and `Leave` end a call, and `StopAll` all calls and links of a process. A clock tick is a pause of the loop (3 seconds), the wait is `Deadline` ticks and a request takes at most `Slow`; the
clock does not pass these limits (`Pass`), so that what must happen in time does. `GivenUpLate` has the premise that the code can meet: the report was ready more than a pause and
a request before the deadline. In that last stretch an answer "pending" may be read before and arrive after, and no further question follows. (With the 20 questions of the code these are its last seconds.) Any error of a wait, also of the download
of a report that is ready, is answered with "still building" (`reports.go:65-69`); a repeated request for a report builds
two. `Forget` is called only by tests and is left to `FileStore`. download_structured_data saves its file in the same way.

## Runs

| run | question | bounds | result |
| --- | --- | --- | --- |
| `filestore_one` | do links keep their promise, is nothing left behind, does the store implement `LinkStore`, does every expired file go? | one process, two ids, one caller, two process ends, three ticks with a TTL of one | holds |
| `exports` | does the link in an answer work as long as it says, when file operations may fail? does a wait end neither early nor late? | one tool, one report, two ids, one caller of the link, one process end, six ticks, calls begin in the first three, deadline 3, pause 1, request 1, TTL 1 | holds |
| `refcache` | what can be stale in the cache, and for how long? | two sessions, two kinds, one reader and one writer on either session, two ticks with a TTL and an answer of one each, a tariff that begins and ends | only what a read under way during `Invalidate` brings; less than TTL + Latency; an opened session keeps nothing of the time it was closed, but for the same race |
| `oauth_grants` | is a code single-use? has a token one session? do tokens survive restarts? | two codes, two requests (exchange or token), two deals and four claims, two ticks, two restarts, three sessions | holds; implements `AuthGrant` |
| `apiclient` | pace, truth of the result, silence after cancellation, does every call end? | two calls, bucket of one with two tokens a second, three attempts | holds |
| `apiclient_limit` | does the pace keep the limit of a company, 10 requests a second? | one session at the default of `MCP_MAX_RPS = 8`, bucket of 8, calls that follow each other | violated |
| `register` | do walks through a changing list miss or repeat documents, are marks lost, does a sync, window after window, leave a change out? | three documents (one uploaded, one changed and processed) on pages of two, limits of one and three rows, one or two pages a call (three are asked for), four ticks with minutes of two, an index one tick late | holds |
| `register_cut` | does next_cursor continue where the answer stopped? | three or four documents on pages of two | violated |
| `documents` | are signatures of the document as it is, is it sent once, is what a tool said so? | one document, two tools at a time, two attempts, one change of attributes, one signature at the start | holds |
| `records` | how often can a call take effect, and what stands of what it said? | two documents, one of which supports versions, two calls, three attempts, six ids | holds |
| `gateway` | one session per credentials, none lost, does it come up again, does it end? | two credentials, two requests, three attempts, three sessions and one signal or crash in all | holds |
| `directory` | does a name stand for its entry, is what was taken off gone, when are there two of one name? | two names, two sessions, two calls of two attempts, labels listed one at a time, seven ids | holds |

Why the bounds are enough: each hazard needs one or two actors in the wrong order, one expiry and
one restart. Two ids let one link be swept while another is put; two exchanges race for one code;
two requests of one token disagree about their session and, when they come back, meet the one that was kept; a TTL of one tick in three has before,
at and after the expiry; in `refcache` two ticks hold an answer that arrives late, its last moment in the cache and the one after it; six ticks hold a request, a whole wait that begins in any of the first three, and the life of its link; three documents on pages of two give a list of two pages
with an upload before, on or behind the cursor, and a limit that falls inside a page; four ticks with minutes of two are two windows one after the other. Only one document changes there, so that no marked row is cut
off in the run; `MarkKeptAlways` and `SyncCoversAlways` are proved for any number. Two
calls on one document are the tool and whoever interferes with it; two attempts are one lost answer and its repetition,
and the third in `records` lets one be delayed and another be lost. Two documents let one be the other's child. Three attempts of
`connectWithRetry` (8 in the code) are a first, a middle and the last one. One
label an answer (200 in the code, `session.go:163`; the mock ignores the limit) makes the second fall off the list. The `directory` run
has just two calls, so that a third one acting on a list that was stored too late is not seen there; `HeardOf` excepts it, and
`refcache` shows how such a list comes about.
`MaxTime`, `MaxStops`, `MaxVer`, `MaxStarts`, `MaxSess`, `MaxEnds`, `MaxIds`, `MaxEdits`, `MaxSigs`, `LastCall`, `Edited` and `Handled` stop the
model, not the system, and in `records` and `directory` every call is made once, so those configurations say `CHECK_DEADLOCK FALSE`. `ApiClient` is
checked for deadlock. Symmetry is used only for constants that the specification treats alike and never in a run with a liveness property.

Fairness: `FileStore` assumes that the janitor's ticker fires and its goroutine runs, and that a stopped
process starts again (`restart: unless-stopped` in `docker-compose.yml`). `ApiClient` assumes that the
ticker of the bucket runs, that a request is answered or times out (`http.Client.Timeout`), and that the
goroutine of a call goes on. `Gateway` assumes that attempts end (they have a timeout), that pauses end, that the goroutine behind a signal and
main run, and that the container starts again. Nothing assumes that a caller calls, a user logs in, a signal comes, or a fault occurs; `Recovers`
says so in its premise: Vchasno answers in the end and knows the token. `Exports` has no fairness: what ends in time does so by its clock.

### What the violated runs show

- `register_cut`: `collect` cuts the rows to `limit` but returns the cursor of the page after them; whoever passes it as documented, "to continue where
  it stopped" (`documents.go:54`), is never given the rows in between. The default limit of 25 meets pages of a size that Vchasno decides.
- `apiclient_limit`: `client.go:3-5` and `client.go:445-447` promise that the client keeps the 10 requests a second of a company. The bucket starts with `int(rps)` tokens and refills at
  `rps` besides, so that with the default of 8 a session that has been quiet sends up to 16 in a second; and every session of a company has a bucket of its own.

### What the properties had to leave out

Some properties have an exception, because the code does not promise more than they say. These are worth knowing:

- `StaleOnlyByRace`: `Invalidate` does not stick: an answer that was under way is stored after it and served for ten minutes.
- `TokensSurvive`, with `ReadFaults = FALSE`: any error of reading the key file, not only its absence, replaces the key; every token is lost.
- `Paced` is what the limiter does: a full bucket and the tokens of the second, `2 * rps` at most, 16 with the default of 8. What it is said to do is `WithinLimit`, which is violated.
- `OpenedAfresh`: a read that was under way while the trial was activated may put the answer of the closed session back, for ten minutes.
- `GivenUpLate`: a report that gets ready within a pause and a request of the deadline may be missed.
- `CountedOnce`: Vchasno does not recognise a repeated request. A comment, a version or a label whose answer was lost is there twice, or once though the tool reported an error. And an
  upload of a version may be a success that recorded nothing, which only `versions_now` tells, if the document can be read back.
- `SendOnce`: a repeated send moves a document on a second time if somebody moved it back in between.
- `Stands`: a call that was given up may take effect after the one that was to undo it.
- `TakenOff`: a label that somebody attaches at the same time may stay; `Namesakes`: an entry is made twice if its answer was lost.
- `HeardOf`: after a failed read of the document types the built-in ones are cached like the company's; and labels beyond the first 200 are not found by name.
- `EndsInTime`: the wait of 60 seconds is that of the questions; a request for the report before it and one or two requests after it add to it.

## Proofs

Proved by TLAPS, for every number of processes, links, callers, sessions, codes, tokens, calls and requests,
from the assumptions named in the modules:

- `FileStoreProofs`: `TypeCorrect`; `ServedWasLiveAlways` without further assumptions; `RefusedWasDeadAlways` and
  `NoOrphansAlways` under `Alone` (one process, no failing file operations: a second process on the directory would remove files that are being served, and a failed removal leaves a file).
  The invariant behind them relates the phase of an id, its file and its expiry to each request: a request that has found
  its id has seen it live or it has since expired; a held id has its file; a swept id has expired; what the clearing has not yet
  removed is dead; everything of an earlier process is either gone from the disk or still listed.
  Of the tools on top of the store (`SpecE`): `ExportsTypeCorrect`, `ExportsServeLive`, `GivenUpLateAlways` and `EndsInTimeAlways`, and
  `ToldLinksWorkAlways` under `OneProcess`, with failing file operations. Every step of the tools is a step of the store or leaves it alone (`StoreStep`), so that the
  store's invariants carry over. To them comes what is known of each call: its clock, its deadline, and that a question which is still to be asked, or is under way,
  leaves no room between a report that was ready in time and a wait that is given up (`CallOK`, `ReadyOK`); that it
  runs in a running process and saves a file of its own (`Hosted`); that a file under way or registered is on the disk (`Kept`); and that a link
  that was handed out leaves the registry only after its expiry, by `Sweep` (`ToldHeld`).
  `LinksImplemented` and `ExportsImplementLinks`: under `Alone`, every step of the store, and of the store with its tools, is a step of `LinkStore` or a stutter, with
  a link's state and a request's read off the store (`LinkState`, `RequestState`). One step of the store may be several things at once for the links (a tick that lets
  several expire, a stop that ends all of them), so there is a lemma for the links (`LinksStay`, `LinksStep`) and one for the requests under way (`WatchStep`, `AnswerStep`,
  `DoneStep`); a stop of a process without links is a stutter. It rests on the store's invariant and on one thing more, that whoever
  watches a link asked for it (`WatchedStep`).
- `SessionProofs` extends the two parts of a session, `ApiClient` and `RefCache` (whose `CacheSpec`, `CacheNext` ... are named so that it can); they share no variable.
- `SessionProofs`, of `ApiClient`: `TypeCorrect`, `ReliableAlways`, `QuietAlways` and `PacedAlways`. The invariant relates what is known of a call to the stage it
  is in: an attempt is counted before it can make the change, so that the change is made at most once per attempt; from the second attempt on a change that was
  made is marked as unsure; what is in a queue waits, once, in the queue of its session; and a call that was given up does not
  wait. The proof first shows that whatever any step does to a call is one of nine moves (`Moves`), and then argues on the moves alone.
  The pace (`Budget`): what was sent since the i-th of the last `Window + 1` ticks and what the bucket holds are together no more than a full bucket and the tokens of the ticks since, and a call
  waits only while the bucket is empty, so that a token it is handed does not come on top of others.
  `ApiAssumption` allows at most 35 attempts: the 36th pause would overflow a `time.Duration`.
- `SessionProofs`, of `RefCache`: `CacheTypeCorrect`, `StaleOnlyByRaceAlways`, `BoundedStalenessAlways` and `OpenedAfreshAlways`. The invariant of the second says of a read under way what the property says of an
  entry: it began in an epoch not after the present one, and if in the present one its value is not below the floor. For the third (`AgeInv`):
  what Vchasno holds was not replaced yet, so an answer under way was good when it was given, at most `Latency` ago; an entry was therefore good at most
  `Latency` before it was stored, and is served for less than `TTL` after that.
  For the fourth: while a session is open and its tool is past `Invalidate`, whatever was or will be stored of a time it was closed began in an earlier epoch. The tariff may end at any time; none of the four uses it.
- `DirectoryProofs`: `DirectoryTypes`, `HeardOfAlways`, `TakenOffAlways` and `NamesakesAlways`. First, for all of them: an id has one entry and is given once (`Service`),
  a call has found what its request needs (`Shape`, `Ready`), and what the outcome of a request may be (`Allowed`, `Outcome`): it changes labels, members and entries only as
  its name says. Every step is then a look-up, which nobody else sees (`Seeks`), a request that is served (`Served`), a return, or a beginning (`Steps`).
  `HeardOf` (`Informed`): of an entry a session was told of, its lists say what there is (`UpToDate`), and so does a list that one of its calls has read, unless the session forgot
  its lists since (`Goes`). That is so when the session is told, because whoever is told of an entry forgets the lists (`ToldForgets`); it stays so because a change of the entry ends
  what was known of it, and because a list that is read later is of what there is then. A call under way keeps to what was known when it began, as does the list it reads.
  `TakenOff` (`Gone`, `Contests`): what was taken off is gone from the moment Vchasno did it, and who may put it back and is under way is marked on it.
  `Namesakes` (`Counted`): for each kind and name, the entries are no more than there were and than calls have their answer; a request without an answer may add one that is not counted, and
  is excepted. Only finitely many calls have begun (`BegunFinite`), so that they can be counted.
- `OAuthProofs`: `TypeCorrect`; `OneSessionAlways`, whose invariant says that the session in the map is the only one its token
  was ever answered with, that a token being handed over has neither been given out nor served, and that the credentials of code, session and token agree
  with the terms of the login; `TokensSurviveAlways` under `~ReadFaults`, whose invariant says that a saved token's key is in the file and that the file
  cannot then be rewritten; `GrantsImplemented`, that every step of the server is a step of `AuthGrant` or a stutter, for which the
  invariant adds that codes in the map, codes being exchanged and codes redeemed are pairwise different.

- `RegisterProofs`: `TypeCorrect`, `NoneMissedAlways`, `SyncCoversAlways`, `NoneTwiceAlways` and `MarkKeptAlways`. The invariant of the first walk (`Whole`): what a walk wants and has not been given
  comes after its cursor, counted in the list as it is now. It survives uploads because a larger list has as many documents or more before each (`BeforeGrows`),
  the change from a window to the list of all documents for the same reason, and a page because a document that is not on it and not before it comes after the
  next cursor. For windows (`Synced`): a document whose last change lies in the window, less the overlap, is in the index by then, was therefore in the
  list from the beginning, has been given by the end, and has not changed since, because it would otherwise have changed after the window. `Delay <= Overlap` is the assumption it needs.
  `NoneTwice` is the mirror image of the first (`Once`): what a walk has been given comes before its cursor, which deletions keep true and uploads do not. `MarkKept`
  is inductive once it is known that only a call under way holds rows: a page takes marks only of the rows it hands over or drops.
- `DocumentsProofs`: `TypeCorrect`, `SignedAsIsAlways`, `SendOnceAlways` and `ToldTrueAlways`, from one invariant (`Inductive`): a document that has signatures is
  in a status in which its attributes cannot be changed; a call that has moved its document knows from its status where the document is, unless it
  is marked as stirred; what a call under way has already brought about is so.
- `RecordsProofs`: `TypeCorrect`, `CountedOnceAlways` and `StandsAlways`. The first property counts when a call has returned; the invariant (`Counts`) counts at every moment, and with
  what is still on its way: effects and delayed attempts together are at most the attempts without an answer and one more. That a success without effect is
  not told as a version that is there needs the second invariant, which knows what was read.
  For the second (`SInv`): what a call did stands from the moment the service did it, before it is told (`Standing`); whoever may undo it, and is under way, is marked on it (`Contest`); and
  a call names only ids that were given before it began, and has its own from the service where it gives one (`Gives`, `Shape`), so that nobody can undo what is given later;
  and documents that do not support versions have none (`Bare`), so that what is read back of them is none. Each route is shown to change what its name says
  and nothing else (`Effects`); `KeptStays` then says once, for any two calls, that what is not opposed stands, and `KeptNow` that what was just done does.
- `GatewayProofs`: `TypeCorrect`, `OneSessionAlways` and `NoneLostAlways`. The invariant says of every session opened which of the ways it is tracked by, and
  of a request that has yet to look again that its session is its own: opened, registered nowhere, and known to no other request.

The type invariants of `Documents`, `Records` and `Gateway` (`TypeCorrect`) and of `RefCache` (`CacheTypeCorrect`) are proved and not listed in the runs.

Only model-checked: the liveness properties (`ExpiredFilesGo`, `CallsEnd`, `Recovers`, `StopEnds`); liveness and induction over data are out of the prover's reach.

## Not modelled

- The texts of prompts, resources, pages and the OpenAPI document, the REST translation, the parsing of the environment,
  the cryptography of tokens, JSON shapes and endpoint paths, status tables and tolerant decoding: data without control.
- Tools that change what nothing in the code reads again: access settings, viewers, signers, sign sessions, delete locks,
  visualizations, invitations, tokens of employees. Their requests have the fate of any other (`ApiClient`), and `CountedOnce` of a comment says what it says of
  these. A cloud session has a token and a refresh token that replace each other; the answer that brings the new pair may be lost, which the tools leave to the caller.
- Tools that only read (get_document, statuses, company checks, archives, self_check): one request, one answer.
- The readiness answer (`server.go:155-168`), which reports `APIOpen` of the process's own session as it was set when it connected, or by the trial.
- The overflow of the pause from the 36th attempt on (`client.go:358`), which `ApiAssumption` leaves out.
- Vchasno itself: the mock stands for it, and a page, a status or a label that the real service treats differently is different in the model, too.

## Plan

What is left, the most useful first: an abstract life cycle that `Documents` refines; `Directory` with delayed requests and a third call, which needs a smaller state first.
