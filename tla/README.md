# TLA+ models of the invoice processor

A verification project kept beside the code: TLA+ modules for the parts of the
system whose correctness depends on interleaving, failure or order, the TLC
instances that check them, and theorems checked by TLAPS.

## 1. The system and its parts

| Part | State it keeps | Operations | Interacts with |
|---|---|---|---|
| Invoice graph (`invoice_agent/graph.py`) | per `thread_id`: `GraphState` in a SQLite checkpoint, with the pending node and its error or interrupt | `router`, `extractor`, `validator`, `human_review`, `output`, two conditional edges | the model provider, Supabase, the event bus |
| GraphService (`app/service.py`) | per-thread locks, one semaphore, `_last_derived` (one-shot status cache) | `reserve`, `start_run`, `resume_run`, `list_runs`, `_guarded_invoke`, `_publish_run_end` | the graph, its checkpointer, the event bus |
| Routes (`app/routes.py`) | none of its own; request-local variables held across blocking calls | reserve, upload, stream, read, resume, list, export | GraphService, event bus, database, owners, uploads |
| Event bus (`invoice_agent/events.py`) | `thread_id` -> channel (sequence number, bounded history, subscribers with bounded queues) | `open_channel`, `publish`, `subscribe`, `close_channel`, `sweep_stale` | worker threads on one side, the event loop on the other |
| Persistence (`invoice_agent/db.py`, `db/schema.sql`) | `invoices`, `line_items`, `invoice_exports` in Supabase, PDFs in storage | `is_duplicate`, `insert_invoice`, `insert_export_row`, `iter_export_rows`, `upload_pdf` | called by the validator, by `output` and by the export routes |
| Uploads (`app/uploads.py`) | files in the upload directory | `save_upload`, `sweep_old_uploads` | the extractor and `upload_pdf` read them later |
| Owners (`app/owners.py`) | `thread_id` -> user | `claim`, lookups | routes |
| Ingestion (`invoice_agent/ingest_mcp.py`, `mcp_servers/`) | inbox and processed directories, mailbox flags | list, download, run the graph, mark processed | the graph directly, without GraphService |
| Field streaming (`invoice_agent/extract.py`), validation rules (`validate.py`) | none | pure functions of their input | called by the nodes |
| Run view (`web/hooks/use-run.ts`) | the client's picture of one run | reducer over stream events, polls and responses | routes, over HTTP and SSE |
| Auth, health, tracing, evaluation, scripts, deployment | configuration, files | see `PROJECT.json` for why each is or is not modelled | |

Hard behaviours: request handlers run in a threadpool and interleave between any
two calls; `POST` and resume decide on a snapshot read before the run's lock is
taken; a node can raise before or after its write landed; no transaction spans the
requests that save an invoice, and runs of the same invoice write the same rows; an
export is read page by page while rows commit out of order; the process restarts
with runs in flight, the ingestion script and the evaluation harness are killed and
run again; clients resend requests; the event loop and worker threads share the bus;
an upload's file is read hours after it was written, and swept after a day.
`PROJECT.json` lists each hazard at its line, with the properties that watch it.

What makes each part correct:

* graph and service: one executor per run; only validated, approved invoices are
  saved; a finished run never changes; no run is abandoned; every request answered;
* bus: no event lost without a marker, a subscriber sees increasing sequence
  numbers, every subscriber is told of the end, the registry stays bounded;
* persistence: line items of one save and all of them, an overwrite of another run's
  invoice only for a reason, a link that leads to a PDF, an export that neither skips
  nor repeats, or says that it broke off;
* uploads: what is stored is what was extracted, whole; nothing refused stays;
* ingestion: an item marked has left nothing behind, one that can be processed ends
  up marked;
* evaluation: nothing is lost between the documents and the counts; a reported match
  is one; the cache pins a report to one set of predictions.

## 2. Plan

| Step | Modules | State |
|---|---|---|
| 1 | `InvoiceGraph`, `GraphService`: the run lifecycle | done |
| 2 | `RunContract`, `GraphServiceRefinement`: what a client may rely on | done |
| 3 | `GraphServiceProofs`, `GraphFinalityProofs` | every safety property of `GraphService` that holds, and the refinement, are proved |
| 4 | `EventBus`, `EventStream`: channels, subscribers, overflow, sweep, the SSE route; `EventStreamProofs`, `EventOrderProofs` | done; all its safety properties are proved |
| 5 | `InvoiceStore`, `ExportLedger`, composed in `Persistence`; `PersistenceProofs` | done; all its properties are proved |
| 6 | `Ingestion`: discover, download, run and mark, with restarts and replaced files; `IngestionProofs` | done; all its safety properties are proved |
| 7 | `Uploads`, `RunPages`, `Validation`, `Scoring`, `Evaluation`, instantiated together in `MCDocuments`; `DocumentProofs` | done; all their properties are proved |
| 8 | `Selection`, `SelectionFacts`: the operator on sequences they share, and the inductions the proofs need | done |
| open | the client's reducer (`use-run.ts`) fed by a stream, polls and answers | no module |

## 3. Modules

**`InvoiceGraph`** holds the pure part: a checkpoint is a record, and each operator
maps a checkpoint to the one after a node execution. `Checkpoint` keeps of
`GraphState` what the properties tell apart. `validated` is the one field the
code has no counterpart for: it remembers which invoice `state["validation"]` was
computed from. `file` is the invoice printed in the uploaded document.
`DeriveStatus` is `derive_status` branch by branch; its `None` is `"unknown"`.

**`GraphService`** runs it. State that survives a restart: checkpoints `ck`, the
tables `db` and `ledger`, the handed-out ids `minted`. State in memory: `lock`,
`permits`, `channel`, `cache`. Each request has a program counter and the handler's
local variables, so that whatever the code reads before it blocks is a value that
may be stale when used:

| Code | Actions |
|---|---|
| `reserve_invoice_run`, `GraphService.reserve` | `Reserve` |
| `create_invoice_run` | `PostFresh`, `PostReserved`, `Repost`, then `SaveUpload` |
| `get_invoice_run` | `View`: what a reviewer decides on |
| `resume_run` up to its lock | `ReadSnapshot`, `RejectPatch`, `OpenChannel` |
| `_guarded_invoke` | `TryLock`, `AcquirePermit`, `AcquireTimeout`, `ReleasePermit`, `Unlock` |
| `graph.invoke` | `Invoke`, then `Classify`, `Extract`, `Validate`, `AwaitReview`, `Raise` |
| `output` | `SaveInvoice`, `AppendLedger`, `Complete` |
| `_publish_run_end` | `PublishRunEnd`, `PublishSwallowed` |
| `_current_status`, `_translate_graph_exception` | `Answer` |
| redeploy, OOM kill (`lifespan` starts anew) | `Crash` |

`SaveInvoice` may raise after its row landed. `AppendLedger` may fail with or
without its row, and the failure is swallowed. The validator's verdict, the
classification and the document's contents are free. What LangGraph does with the
input of `invoke` (an initial state restarts a thread and keeps the channels it
does not name; a resume value is consumed by a paused `human_review` and by
nothing else; `None` re-executes the pending node) is marked external in the map.

A sweep may take any channel that nobody touched for half an hour: the channel of a run
no handler works on, and (`Silent`) a reservation whose `POST` has not published yet,
since `has_channel` looks at a channel without refreshing it.

`approval` is a history variable: the invoice the last applied approval was
applied to, and the invoice its sender vouched for. `crashes` and `unreadable`
count against their bounds.

**`RunContract`** is what a client and a bookkeeper may rely on, stated over
statuses and tables alone. **`GraphServiceRefinement`** instantiates it with
`status <- Status(t)`, `saved <- db[t].invoice`, `rows <- Len(ledger[t])`.

**`MCGraphService`** is the module TLC runs for these; the `MC*.cfg` files give the constants.

**`EventBus`** holds the data structures of `events.py`: what recording an event does
to a channel, what `_put_drop_oldest` and `_deliver` do to a queue, what a backlog is.

**`EventStream`** runs them. A publisher's turn is split where the code gives up the
registry's lock: `Publish` records the event and copies the subscribers into the
handler's `out`, `HandOver` passes the copies to the loop one by one, `RunCallback`
is `_deliver` on the loop. Events are reduced to number and type.

| Code | Actions |
|---|---|
| `reserve`, `POST /invoices`, `resume_run` up to its lock | `Reserve`, `Post`, `PostFresh`, `Resume`, `OpenChannel`, `Refuse` |
| a pass under the lock | `Enter`, `Progress`, `Settle`, `Unlock` |
| `publish`, `_publish_run_end`, `close_channel` | `Publish` (within `Progress` and `PublishRunEnd`), `PublishSwallowed`, `CloseChannel`, `HandOver` |
| `_deliver` | `RunCallback` |
| `stream_invoice_run`, `subscribe` | `Connect`, `Subscribe`, `Read`, `Leave` |

`GraphService` decides what a pass computes; here a pass is some progress events and
an outcome. Resent POSTs and restarts are left to `GraphService`: after a restart the
bus is empty and its connections are gone. What a sweep may take is as in `GraphService`
(`Stale`, `Ageing`). `seen`, `evicted` and `owed` are history variables: the last number a
connection read, whether its queue ever dropped something, and which of the events
recorded when it subscribed it has still to be sent.
The heartbeat of an idle stream changes nothing and is left out. A connection quotes
any id, so a client's memory over several connections is not part of the model.

**`InvoiceStore`** is `db.py`'s part of a save: tables `invoices` and `line_items` and
the bucket, written by runs whose extractions may have the same key. Each Supabase
request is one action, since no transaction spans them; each may fail before it
reached the database (`RequestLost`) or after (`Answered`). A row of `items` stands
for all rows of one INSERT, which either all land or none.

| Code | Actions |
|---|---|
| `validator` with `is_duplicate`, `human_review` | `Validate`, `Approve`, `EditKey` |
| `upload_pdf`, then `insert_invoice` request by request | `UploadPdf`, `UpsertHeader`, `InsertItems`, `DeleteOldItems` |
| resume of a failed run | `RetryOutput` |
| `get_invoice_run`'s fallback to the `invoices` row | `PdfLink` |

**`ExportLedger`** is `invoice_exports`. An INSERT draws its id (`DrawId`) before it
commits (`Conclude`), and a roll-back leaves a gap. `StartDownload`, `FetchPage`,
`SendPage` and `Truncate` are `GET /export.csv` over `iter_export_rows`, `CountRows` and
`NewestWritten` the two requests of `GET /export/status`. **`Persistence`** composes
the two: `AppendLedger` is the second half of `output()`, which completes the run
whatever becomes of the row. `raced`, `overlapped` and `saved` are history variables.
`GraphService` sees the same tables from further away: it has one run per key and
asks how a run's passes interleave, `Persistence` asks how the saves of runs do.

**`Ingestion`** is the script over one of its two sources, whose tools differ in where
a download goes (`PathOf`), whether a file can be gone (`Gone`) and how many PDFs an
item has.

| Code | Actions |
|---|---|
| `list_pending_invoices` | `List` |
| `download_invoice_pdfs` | `Download`, `DownloadNothing` |
| one PDF in `run_ingestion`, `_is_duplicate_only` | `RunSkipped`, `RunFlagged`, `RunSaved`, `RunRaised`, `SaveRaised` |
| `mark_processed` | `Mark`, `MarkRefused` |
| the process is killed | `Killed`, `KilledInSave` |
| a reviewer; the Inbox page (`app/inbox.py`); a file dropped into `data/inbox/` | `Resume`, `ResumeBroken`, `MarkByOwner`, `Replace` |

A run of the graph is seen from outside, by what it leaves behind; `kind` and `keyOf`
say what the model provider extracts from a document, the same on every run. A resume
may be an edit that gives the invoice another key, and its save may break off half-way
(`ResumeBroken`), after which the run waits for a retry.

**`Uploads`** follows one run's PDF: `Arrive` (sweep, check of the id), `Open`,
`CopyChunk`, `Refuse`, `BreakOff`, `Saved`, `StartRun` are `POST /invoices` and
`save_upload`; the nodes that read the file are `Route`, `CallModel`, `Output`, each of
which fails if it is gone (`NodeFails`); `Day` makes files old. `CallModel`, `Delta` and
`Extracted` are `extract_invoice_streaming`: a delta may begin several keys, in any
order, and an announcement records whether the value was complete. A file is a
sequence of chunks known by their writer, so that two POSTs writing one path can mix.

**`RunPages`** has two reads of the web pages: `list_runs`, which widens its window
over the checkpoint table while nodes write to it (`StartList`, `FetchWindow`,
`SummarizeWindow`), and the signed link, cached against a clock (`ServeCached`,
`AskForLink`, `GetLink`, `GetNoLink`).

**`Validation`** and **`Scoring`** are pure: `validate.py`'s six checks, and
`evals/scoring.py` from one field to the roll-up. Nothing makes the schema's floats whole
cents, so an amount is a number of units, `Cent` of which make a cent, and the sums are
rounded where the code rounds them (`Round`). The sums are binary floats: whether a
difference of exactly one cent is within the tolerance, and which way a midpoint rounds,
depends on the amounts; an invoice's `edge` says both (`RoundsUp` for a single amount).
`Scoring` compares what the normalisers make of a value (`Normalized`): an amount rounded
to cents, a text whatever its spelling, nothing for a date nobody can read. A number below
`Missing` is another spelling of a text: case, spacing, another format of a date, a
currency's symbol, the dates being ones that scoring reads and `validate.py` does not. How
`normalize.py` recognises a spelling character by character is left out, and so are its
separator rules for amounts that are text, because the schema has made them numbers.
Texts are numbers whose distance stands for their similarity.
**`Evaluation`** is `run_eval.py`: `StartHarness` with its flags, `PredictFromCache`,
`PredictFromTornCache`, `Predict`, `PredictFailed`, `KilledHarness`, `WriteReport`. The
results are computed by `Scoring` from the predictions.

**`Selection`** defines `Selected(s, S)`, what of a sequence lies in a set, in order: the
events of a backlog, the ledger rows past a cursor, the user's threads. Like `SumOf`,
`Greedily`, `Tallied` and `FieldCounts`, which are loops in the code, it is a recursive
function on the numbers up to a length, which TLC evaluates and the provers can unfold.

**`MCDocuments`** gives TLC these parts, which share no state: `part`, chosen in the
initial state, says which one a behaviour runs. **`MCIngestion`** gives the instances of
`Ingestion`; `Persistence` is run as it is.

Operators whose comment starts with "Mutant" are plausible wrong versions of the
definition below them. No specification uses them; they show that each property
can fail.

## 4. Runs

| Run | Instance | Shows |
|---|---|---|
| `service` | 1 run, 1 creator, 2 reviewers, 2 invoice contents | what is saved was validated and approved in that form; tables agree; the served status is current; ended runs are final; no orphan; `RunContract` is implemented |
| `faults` | 2 runs, 2 creators, 1 reviewer, resent POSTs, 1 permit, 1 channel, 1 restart, 1 unreadable checkpoint | types; lock discipline; permits conserved; ledger only after save |
| `liveness` | 2 runs, 2 creators, 1 reviewer, 1 permit | every accepted request is answered; every lock is given back |
| `stream` | 2 runs, 1 channel slot, 2 requests, 1 connection, 2 progress events a pass, history of 3, queue of 2 | a subscriber reads in order and nothing twice; the newest event is never the one lost; no gap without overflow; a stream the server ends was sent all it was owed when it subscribed; the end of a run reaches every stream |
| `stale_review` | as `service` | finding: an empty resume approves an edit its sender never saw |
| `double_post` | 1 run, 2 creators, 1 reviewer, resent POSTs | finding: a reserved id can be used twice, and the second pass inherits the approval of the first |
| `restart` | as `service`, 1 restart | finding: a redeploy leaves a run `processing` that nothing can finish |
| `store` | 2 runs, 2 keys, 2 attempts of `output`, invoices of no or two line items, pages of 1 row | failed and retried saves keep the line items of the last complete one and leave no others; an overwrite has a reason; the PDF link leads to a PDF; a finished export holds all it should, in order; a status with rows has a time |
| `ingest` | 2 items, 3 documents, 2 keys, `--limit 1`, a cap of 2 attachments, 2 kills or failures | a marked item is stored; an item that can be processed ends up marked |
| `documents` | see below | what was extracted is what is stored; files outlive the day, refused ones do not stay; fields announced once and whole; short lists complete, links alive; counts tally, matching stable, exact means equal, the cache pins, accepted invoices balance within three cents |
| `ingest_partial` | as `ingest` | finding: a save that broke off makes the item count as fully persisted |
| `ingest_relist` | as `ingest` | finding: an item whose flagged invoice was resolved as advised is never marked |

Two more promises of the documents are not kept, next to properties of passing runs that
say what the code keeps to instead:

* A duplicate can be overridden. `docs/api.md:102-109` says that a genuine duplicate
  "re-interrupts indefinitely rather than ever reaching `output()`" and that no override
  exists. `route_after_validation` (`graph.py:289-299`) says and does otherwise: an empty
  resume approves the invoice with whatever flags it has, a duplicate's included, and
  `insert_invoice` then overwrites the earlier run's row. `OverwriteHasAReason` therefore
  counts such an approval among the reasons for an overwrite.
* A check's tolerance is wider than a cent. `validate_invoice`'s docstring
  (`validate.py:173-174`) says that the sums agree "within $0.01". They are rounded to cents
  before they are compared (`validate.py:88-89`), and the schema takes any float, so each
  check lets a cent and a half pass. `AcceptedIsBalanced` bounds what an accepted invoice
  is off by from end to end at three cents, and not at two.

Bounds. Two reviewers are the least that can overtake each other, and with a
creator give three competing handlers; two invoice contents are the least that
tell an edit from the original. In `faults` and `liveness` one permit for two runs makes the limit
bind; `service` has two permits for one run, so only the lock serialises it. A request is used once, so a behaviour contains at most as many
passes over a run as there are requests; three allow a start, a resume and a
stale third. `service` excludes resent POSTs, restarts and unreadable checkpoints because
each breaks one of its properties: `double_post` and `restart` show the first two,
and with an unreadable checkpoint `ServedStatusIsCurrent` fails (section 6);
`faults` has them all and checks what holds in spite of them.
In `stream`, two passes of three events over one run exceed history and queue, so
eviction from either, the overflow marker and the sentinel in a full queue all occur;
two runs for one slot make the registry refuse and sweep. One connection is enough
because connections share nothing but the list they are copied from.
In `store`, an invoice with line items and one without meet on the same or another
key at every request, on both attempts of either; a run appends one ledger row, and
with pages of one row the second can commit before, while or after the cursor passes it.
The instance is symmetric only up to `Historic`, so no symmetry is declared.
In `ingest`, the first message carries one PDF, two of one name, or three against a
cap of two; of the documents one is clean and may be sent by both, the others are clean,
flawed or no invoice, not both flawed, and one of them has the first's key; a resume gives
an invoice any key; with `--limit 1` the first item can starve the second; two failures are a
kill and a failing request, or a failure of the run after the kill.
In `documents`, uploads: 2 POSTs with 2 names, files of 0 to 3 chunks against a cap of
2, 3 fields in three orders (one with a key that is no field), 2 failures; list: 3
threads, 2 of them the user's, a window of 1 that doubles to at most 3, 6 checkpoints;
links: 2 viewers, a lifetime of 3 ticks given up 1 early and a latency of 1, until tick
9, which is three lifetimes; evaluation: 2 dataset rows, 8 predictions, 2 runs of the
harness, ten units to a cent, with amounts at, next to and beyond the midpoint of two
cents, and a field spelled in another way. A window that grows past its cap, a cap that is passed by one chunk, a link
asked for twice at once and a report after a torn cache file all occur in these.
Every cfg turns deadlock checking off: requests are finite, so the system comes to rest.

Fairness. In `GraphService`, `WF_vars(Handler(q))` for each request: threads of the threadpool run,
and every call to the model provider and to Supabase has a timeout, so a handler
that can step eventually does. Nothing is assumed of clients or of restarts, and
no fairness between handlers: the lock is tried, not waited for, and the wait for
a permit ends in `ServerBusy` (`AcquireTimeout`). Weak fairness is enough because
the disjunction of a handler's steps stays enabled until it takes one. In
`EventStream`, `WF_vars(Pass(h))` for the same reason and `WF_vars(RunCallback)`: the
event loop runs what was scheduled. Reading a stream is not fair: a client may stall,
which is why liveness is stated about what waits in its queue. In `Ingestion`,
`WF_vars(Script)`: the script's operator runs it again as long as something is listed,
and a run that is not killed goes on; nobody owes a review, a click or a file, and
kills and failures are bounded. The other specifications state no fairness.

## 5. What is proved

Of `GraphService`, for every value of the constants satisfying its three `ASSUME`s
(requests are finitely many, the two roles are disjoint, bounds are naturals and there
is a permit), with resent POSTs, restarts and, but for the last, unreadable checkpoints:

* `TypeCorrect`. `TypeOK` is not inductive by itself, because the answer of a
  handler is read from the cache or checkpoint of its run and has a type only if it is about a run;
  `TypeInv` adds `RunKnown`.
* `LockSafety`: `LockDiscipline` is inductive over `TypeInv`. The lemmas
  `ClientShape` and `HandlerShape` say once what a step of a request can do to
  program counters, locks and permits; only `TryLock`, `AcquirePermit`,
  `AcquireTimeout`, `ReleasePermit` and `Unlock` remain to be looked at one by one.
* `PermitSafety`: the same lemmas, and cardinalities of the set of holders.
* `FinalFormSafety`: `Formed` strengthens `ValidatedOnFinalForm` to every pending
  node (each has the data it reads), which needs `Armed` of the requests: a start
  or an edit carries an invoice. The lock plays no part.
* `LedgerAfterSave`: `WriteInv` adds where a request stands between the two writes
  of `output`.
* `ServedStatusSafety`, for `MaxUnreadable = 0`: `CacheInv` says that the cached status
  of a run is current, or absent, unless some handler has written the checkpoint and not
  published yet. The assumption is needed: `PublishSwallowed` leaves an old entry.

With `Reposts = FALSE` (the violated run `double_post` breaks `FlaggedSaveWasApproved` without it):

* `EndedSafety`, an action property. `CoreInv` adds two facts to the lock and the form:
  a run has one creator, whose start meets an untouched thread (`OwnInv`), and a handler
  inside the graph stands at the node its thread has pending (`ExecInv`). The lock makes
  `ExecInv` inductive (`Exclusive`): no second handler moves the thread. A late command
  then meets neither a paused nor an untouched thread, and does nothing.
* `ApprovalSafety`: `Vetted` ties the approval flag to the invoice it was given for, over
  edits, failed nodes and restarts; a row is flagged only from the output node on.

With `Reposts = FALSE` and `MaxCrashes = 0` (the violated run `restart` shows what a
restart does to `NoOrphan`, and between the append and the checkpoint it lets `output`
append again):

* `OneLedgerRow`: until the thread ends, only the handler between the append and the
  checkpoint knows of a row (`OneRowInv`), so a handler before its append finds none.
* `NoOrphanSafety`: a pending node without error or interrupt has a handler inside the
  graph (`ExecutedInv`), which holds the lock.
* `ContractImplemented`: `Spec => ImplementsContract`, the refinement of `RunContract`.
  `SavedInv` says what a run may have saved before its output node; `StatusArrow`,
  `SaveArrow` and `RecordArrow` turn what a step does to one run into a contract step,
  and `HandlerImplements` has one case per action.

Of `Persistence`, for any number of runs, keys, attempts and line items
(`PersistenceProofs`; `NoRun` is no run, `MaxAttempt` and `PageSize` are positive).
`StepShape` reduces a step to what it does to the store:

* `TypeCorrect`: `Counted` keeps the attempts within their bound, because a run is
  validated only before its first one.
* `LinkSafety`: a path is written after its upload, and the key of a run whose path is
  in the table can no longer be edited (`LinkInv`).
* `FailedSaveSafety`, `SettledSafety`: from one invariant, `ItemsInv`. Two saves of one
  key at a time are on record (`OverlapsSeen`); the attempt in progress is newer than
  the last complete save (`SavedIsPast`), so while it is under way the header is not
  that save's (`HeaderIsNew`) and its own items are in before it deletes
  (`ItemsAreIn`).
* `OverwriteSafety`, an action property: a run past the check without a flag, on its
  first attempt, sees no row, its own, or that of a run it raced (`RaceInv`).
* `StatusSafety`: the committed rows only grow between the two requests.
* `DownloadSafety`, for any page size and any number of rows committed out of order:
  `ExportInv` says that the lines sent are those of whole rows in id order (`SentInv`,
  `Exported`), that a row committed before the start is among them or still ahead of the
  cursor, and that a fetched page goes on where the cursor is (`PageInv`), whatever
  was committed since.

Of `EventStream`, for any number of runs, requests and connections, any sizes of history
(at least 1), queues (at least 2) and registry:

* `TypeCorrect`, with the bounds of history, queues and registry.
* `NewestAlwaysComes` and `NothingIsMissed`: from `OrderInv` (`FeedsStayInOrder`). What is on its way to a connection is in four places at
  once, its backlog, its queue, the loop's callbacks and the publisher's hands. Read one
  after the other (`Feed`), their events are numbered in order, up to the newest, and
  without a gap unless the queue overflowed (`InFeedOrder`). The rest of `OrderInv` is what this
  depends on: only the holder of a run's lock has mail (`Locking`), a history ends
  with its newest event and holds each subscriber once (`ChannelOK`), mail is for who
  has subscribed (`Addressing`, `Fresh`), and no sentinel is on its way to a
  connection that is still registered (`Eventful`).
* `ReplayIsNotCut`: what a connection is owed is in its backlog until it is sent
  (`OwedInv`). A terminal event ends the stream only as the last of the backlog, or as a
  live item, and those are read when the backlog is empty.

Of `Ingestion`, for any inbox, order of the listing, limit, cap, kinds and keys of
documents, kills and failures:

* `TypeCorrect`: a type is kept only with where the script stands (`TypesInv`).
* `MarkSafety`: `MarkInv` says of the item in work what `MarkedIsStored` says of a processed
  one, less the documents still to be run (`Dealt`); a duplicate is taken for kept
  because a row without line items is on record (`RowsWhole`).

Of the parts of `MCDocuments` (`DocumentProofs`; `EachPart` says that a behaviour of
`MCDocuments` is one of each part, and `DocumentTypes` that they keep their types):

* `StoredSafety`, `FileSafety`, `RefusalSafety`, `AnnouncedSafety`, for any number of POSTs,
  names, sizes, fields and orders of keys. `IInv`: unless two POSTs passed the check at once
  (`shared`), one POST saves at a time (`Alone`), what it has read lies in its file (`Copied`),
  every file was accepted, is being written or broke off (`Kept`), and what the run read is a
  POST's whole file (`Origin`). `StreamInv` does not depend on the disk: every field is
  announced once, and all of them when the extractor has returned.
* `ListSafety`, for any threads, limit, window and widening: a window that was not
  filled holds all checkpoints of its time (`Whence`), and later ones are newer.
  `LinkSafety`, for any lifetime, margin and a latency of at most the margin (`LinkInv`).
* `PinnedSafety`: what is in the cache is what was first written there (`CachePinned`).
* `BalanceSafety`, for any number of line items, any amounts and any fraction of a cent:
  `RoundIsNear` bounds what each of the two roundings moves, half a cent, and each check adds
  its cent. That makes three cents from the line items to the total, and the bound is
  nearly reached: 10.0149 against a subtotal of 10.00, tax 0.0049 and a total of 9.99.
* `MatchingSafety`, for any line items, as the normalisers read them. Similarity and positions order the candidates one
  after the other (`BeforeRanks`, `InOrder`), so a candidate greed passes over shares a row
  with one that did not come later (`Greedy`).
* `ExactSafety`: if the predicted line items read like the gold ones in some order, greed finds
  such an order, though perhaps another one: as many rows of a kind are matched on either
  side, so none is left over (`Stable`, `NoneLeftOver`, `LikesFindEachOther`).
* `TallySafety`: the counts of a field, by any of five measures (`Measures`), are the sum of
  what the documents' outcomes weigh (`FieldCountsWeigh`); a document weighs one in a
  required field and as much as it has rows in a field of the line items, because every
  row is matched or left over (`RowsAreDealt`).

How loops are reasoned about. The provers cannot instantiate the library's induction
theorems, whose parameter is an operator. `SelectionFacts` has the principle in a form they
can: a set `T` of numbers that holds 0 and, with each number, the next is all of `Nat`
(`NatInduct`; `SeqInduct` for sequences), from the well-foundedness of `<`. On it rest
`Chains` (a table built step by step exists), what `Selected` keeps (`SelectedAppend`,
`SelectedConcat`, `SelectedRange`, ...) and what `FlattenSeq` yields (`FlattenUnfolds`,
`FlattenRange`, `FlattenAppend`).

The assumptions on constants are the modules' `ASSUME`s: bounds are naturals and sizes
positive, the values that stand for nobody are outside their sets, listings and orders
are sequences of what they list, and predictions and gold records have been through the
`Invoice` schema. Each run's constants satisfy them.

Only model-checked: `EveryRequestAnswered`, `LocksAreReleased`, `EndReachesEveryStream` and
`ProcessableIsMarked`. They hold under fairness, and a proof would have to reason about
`ENABLED`, which is out of the prover's reach. Every other property of a passing run is
a theorem. What the violated runs show is false, and is not claimed.

## 6. Not modelled

`PROJECT.json` gives each component's status and reason. In short:

* the run view of the web client (`use-run.ts`): how the page merges a stream, polls and
  answers is a reducer in another language over the state of a browser; what the
  server sends it is in `EventStream`;
* authentication, health and tracing, which hold no state the runs depend on, and
  ownership checks of routes other than the list, which nothing races with;
* of the evaluation, the rates, `token_f1`, the slices and the layout of the report;
* rendering in the web client, sample generators, fixtures, and the shell of the
  deployment, whose effect on runs is `Crash`.

Inside the modelled parts, message texts, logging, trace metadata, decoding of mail
headers and the contents of invoices beyond what the checks compare are left out.

Behaviours of the code that are known and have no run, because a property of a passing
run leaves exactly them out or the code makes no promise about them (each is a
hazard in `PROJECT.json`): a swept run's streams are told nothing (`events.py:264`);
a refused retry leaves its channel open (`service.py:358`); an old status-cache entry,
left by a pass that raised, answers a later request whose checkpoint cannot be read (`service.py:289`); two
PDFs of one name in one message share a path (`gmail_imap.py:222`); a file replaced in the
inbox after its download is marked with it (`Ingestion`'s `stale`); two POSTs past the check at once mix their chunks
or unlink each other's file (`uploads.py:109`); a torn cache file stops the harness until
it is deleted (`run_eval.py:85`); precision equals recall on a required field only when no
extraction failed (`scoring.py:9-11` says by construction); a due date nobody can
read counts as exact where there is none (`scoring.py:181`).
