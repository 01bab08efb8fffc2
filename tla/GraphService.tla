---------------------------- MODULE GraphService ----------------------------
(***************************************************************************)
(* The FastAPI backend's run lifecycle: the handlers of app/routes.py that *)
(* change a run (reserve, POST /invoices, resume), GraphService of         *)
(* app/service.py (per-run lock, global semaphore, one-shot status cache,  *)
(* run-end publishing) and the graph nodes they execute, interleaved.      *)
(*                                                                         *)
(* A request is one handler running in a threadpool thread.  Creators post *)
(* a document; reviewers look at a run and resume it.  Each is used once.  *)
(***************************************************************************)
EXTENDS InvoiceGraph, Naturals, Sequences, FiniteSets

CONSTANTS
  Run,             \* thread_ids
  Creator,         \* POST /invoices requests
  Reviewer,        \* POST /invoices/{thread_id}/resume requests
  NoRequest,       \* an unlocked run
  MaxConcurrency,  \* permits of the semaphore
  MaxChannels,     \* events.MAX_CHANNELS
  Reposts,         \* may a client post again to an id it already posted to
  MaxCrashes,      \* bound on process restarts
  MaxUnreadable    \* bound on get_state() failures inside _publish_run_end

Request == Creator \cup Reviewer

ASSUME RequestAssumption ==
  /\ Creator \cap Reviewer = {}
  /\ NoRequest \notin Request
ASSUME FiniteAssumption == IsFiniteSet(Request)
ASSUME BoundAssumption ==
  /\ MaxConcurrency \in Nat \ {0}
  /\ MaxChannels \in Nat
  /\ Reposts \in BOOLEAN
  /\ MaxCrashes \in Nat
  /\ MaxUnreadable \in Nat

VARIABLES
  \* durable: survives a restart
  ck,        \* run -> latest checkpoint
  db,        \* run -> its row in invoices
  ledger,    \* run -> its rows in invoice_exports, oldest first
  minted,    \* thread_ids ever handed out (owners.sqlite)
  \* in the process's memory
  lock,      \* run -> the request holding _thread_locks[run]
  permits,   \* value of _semaphore
  channel,   \* run -> is an event channel open
  cache,     \* run -> _last_derived[run], "none" when absent
  \* the requests
  pc,
  req,
  \* history and bounds
  approval,  \* run -> what the last applied approval was given for
  crashes, unreadable

durable == <<ck, db, ledger, minted>>
memory  == <<lock, permits, channel, cache>>
history == <<approval, crashes, unreadable>>
vars == <<durable, memory, pc, req, history>>

PC == {"idle", "reserved", "viewed", "upload", "open", "lock", "semaphore", "invoke", "node",
       "ledger", "commit", "publish", "release", "unlock", "respond", "done", "lost"}

\* Where a handler holds the per-run lock, and where it also holds a permit.
Locked    == {"semaphore", "invoke", "node", "ledger", "commit", "publish", "release", "unlock"}
Permitted == Locked \ {"semaphore", "unlock"}
\* Where graph.invoke() is running nodes.
InGraph   == {"node", "ledger", "commit"}

MaybeInvoice == Invoice \cup {NoInvoice}
MaybeRun == Run \cup {NoRequest}

\* run: the thread_id; shown: the invoice a reviewer's GET displayed; vouched:
\* the invoice the reviewer means by the body sent; command and invoice: what is
\* passed to graph.invoke(); resp: the answer.
Local ==
  [run     : MaybeRun,
   shown   : MaybeInvoice,
   vouched : MaybeInvoice,
   command : {"none", "start", "retry", "approve", "edit"},
   invoice : MaybeInvoice,
   ledger  : {"none", "written", "failed"},
   raised  : BOOLEAN,
   resp    : RunStatus \cup {"none", "404", "409", "422", "503", "error"}]

Approval == [invoice : MaybeInvoice, vouched : MaybeInvoice]

TypeOK ==
  /\ ck \in [Run -> Checkpoint]
  /\ db \in [Run -> [invoice : MaybeInvoice, flagged : BOOLEAN]]
  /\ ledger \in [Run -> Seq(MaybeInvoice)]
  /\ minted \in SUBSET Run
  /\ lock \in [Run -> Request \cup {NoRequest}]
  /\ permits \in Nat
  /\ channel \in [Run -> BOOLEAN]
  /\ cache \in [Run -> RunStatus \cup {"none"}]
  /\ pc \in [Request -> PC]
  /\ req \in [Request -> Local]
  /\ approval \in [Run -> Approval]
  /\ crashes \in 0..MaxCrashes
  /\ unreadable \in 0..MaxUnreadable

FreshLocal ==
  [run |-> NoRequest, shown |-> NoInvoice, vouched |-> NoInvoice, command |-> "none",
   invoice |-> NoInvoice, ledger |-> "none", raised |-> FALSE, resp |-> "none"]

Init ==
  /\ ck = [t \in Run |-> NoCheckpoint]
  /\ db = [t \in Run |-> [invoice |-> NoInvoice, flagged |-> FALSE]]
  /\ ledger = [t \in Run |-> <<>>]
  /\ minted = {}
  /\ lock = [t \in Run |-> NoRequest]
  /\ permits = MaxConcurrency
  /\ channel = [t \in Run |-> FALSE]
  /\ cache = [t \in Run |-> "none"]
  /\ pc = [q \in Request |-> "idle"]
  /\ req = [q \in Request |-> FreshLocal]
  /\ approval = [t \in Run |-> [invoice |-> NoInvoice, vouched |-> NoInvoice]]
  /\ crashes = 0
  /\ unreadable = 0

-----------------------------------------------------------------------------
(* Helpers *)

Status(t) == DeriveStatus(ck[t])
Goto(q, label) == pc' = [pc EXCEPT ![q] = label]

Respond(q, answer) ==
  /\ Goto(q, "done")
  /\ req' = [req EXCEPT ![q].resp = answer]

\* events.open_channel: a no-op when open, refused when the registry is full.
CanOpen(t, open) == open[t] \/ Cardinality({u \in Run : open[u]}) < MaxChannels

\* The holder of the run's lock was let in by its reservation (has_channel, which does
\* not touch the channel) and has not published anything: no node has run yet.
Silent(q) ==
  /\ q \in Creator
  /\ \/ pc[q] \in {"semaphore", "invoke"}
     \/ pc[q] = "node" /\ ck[req[q].run].next = "router"

\* sweep_stale reaps channels idle for CHANNEL_TTL_SECONDS.  A run whose nodes execute
\* publishes far more often than that, and a resume touches its channel just before it
\* takes the lock; a reservation ages until the first event of the run it is for.
Sweepable(t) == channel[t] /\ (lock[t] = NoRequest \/ Silent(lock[t]))
Swept(stale) == [u \in Run |-> channel[u] /\ u \notin stale]

-----------------------------------------------------------------------------
(* POST /invoices/reserve *)

\* reserve(): sweep, mint a uuid, open its channel or answer 503.
Reserve(q, t) ==
  /\ pc[q] = "idle"
  /\ t \notin minted
  /\ \E stale \in SUBSET {u \in Run : Sweepable(u)} :
       LET kept == Swept(stale)
       IN  IF CanOpen(t, kept)
           THEN /\ channel' = [kept EXCEPT ![t] = TRUE]
                /\ minted' = minted \cup {t}
                /\ Goto(q, "reserved")
                /\ req' = [req EXCEPT ![q].run = t]
           ELSE /\ channel' = kept
                /\ Respond(q, "503")
                /\ UNCHANGED minted
  /\ UNCHANGED <<ck, db, ledger, lock, permits, cache, history>>

-----------------------------------------------------------------------------
(* POST /invoices *)

\* Without a thread_id: a fresh uuid, claimed for the caller, no channel.
PostFresh(q, t) ==
  /\ pc[q] = "idle"
  /\ t \notin minted
  /\ minted' = minted \cup {t}
  /\ Goto(q, "upload")
  /\ req' = [req EXCEPT ![q].run = t]
  /\ UNCHANGED <<ck, db, ledger, memory, history>>

\* The "reserved and not used yet" check, read before the upload.
UsableReservation(t) == channel[t] /\ (Status(t) = "unknown")

PostTo(q, t) ==
  /\ IF UsableReservation(t)
     THEN /\ Goto(q, "upload")
          /\ req' = [req EXCEPT ![q].run = t]
     ELSE Respond(q, "422")
  /\ UNCHANGED <<durable, memory, history>>

PostReserved(q) == pc[q] = "reserved" /\ PostTo(q, req[q].run)

\* A second POST with the same thread_id (a client resending after a timeout).
Repost(q, t) == Reposts /\ pc[q] = "idle" /\ t \in minted /\ PostTo(q, t)

\* save_upload: a rejected file, or a document with some invoice printed on it.
SaveUpload(q) ==
  /\ pc[q] = "upload"
  /\ \/ Respond(q, "422")
     \/ \E i \in Invoice :
          /\ Goto(q, "lock")
          /\ req' = [req EXCEPT ![q] = [@ EXCEPT !.command = "start", !.invoice = i]]
  /\ UNCHANGED <<durable, memory, history>>

-----------------------------------------------------------------------------
(* POST /invoices/{thread_id}/resume *)

\* The GET a reviewer decides on.  Only a paused run shows an invoice to decide on.
View(q, t) ==
  /\ pc[q] = "idle"
  /\ t \in minted
  /\ Goto(q, "viewed")
  /\ LET shown == IF Status(t) = "needs_review" THEN ck[t].invoice ELSE NoInvoice
     IN  req' = [req EXCEPT ![q] = [@ EXCEPT !.run = t, !.shown = shown]]
  /\ UNCHANGED <<durable, memory, history>>

\* resume_run goes on with a command.  An empty body vouches for the invoice shown.
Resume(q, command, edited, body) ==
  /\ Goto(q, "open")
  /\ LET vouched == IF body = NoInvoice THEN req[q].shown ELSE body
     IN  req' = [req EXCEPT ![q] = [@ EXCEPT !.command = command, !.invoice = edited,
                                             !.vouched = vouched]]

\* resume_run up to the channel, with no lock held: snapshot, status and command.
\* body is NoInvoice for an empty patch, else the invoice the patch merges to; a
\* paused run takes an empty or unchanged one as approval, any other as an edit.
ReadSnapshot(q, body) ==
  LET t == req[q].run
      unchanged == body \in {NoInvoice, ck[t].invoice}
  IN  /\ pc[q] = "viewed"
      /\ \/ Status(t) = "unknown" /\ Respond(q, "404")
         \/ Status(t) \in {"processing", "completed", "skipped"} /\ Respond(q, "409")
         \/ Status(t) = "failed" /\ body # NoInvoice /\ Respond(q, "409")
         \/ Status(t) = "failed" /\ body = NoInvoice /\ Resume(q, "retry", NoInvoice, body)
         \/ Status(t) = "needs_review" /\ unchanged /\ Resume(q, "approve", NoInvoice, body)
         \/ Status(t) = "needs_review" /\ ~unchanged /\ Resume(q, "edit", body, body)
      /\ UNCHANGED <<durable, memory, history>>

\* A patch whose merge is not a valid Invoice.
RejectPatch(q) ==
  /\ pc[q] = "viewed"
  /\ Status(req[q].run) = "needs_review"
  /\ Respond(q, "422")
  /\ UNCHANGED <<durable, memory, history>>

\* events.open_channel before the guarded invoke: a full registry is swept first.
\* Its result is not looked at.
OpenChannel(q) ==
  LET t == req[q].run
  IN  /\ pc[q] = "open"
      /\ \E stale \in SUBSET {u \in Run : Sweepable(u)} :
           /\ CanOpen(t, channel) => stale = {}
           /\ channel' = [Swept(stale) EXCEPT ![t] = CanOpen(t, Swept(stale))]
      /\ Goto(q, "lock")
      /\ UNCHANGED <<durable, lock, permits, cache, req, history>>

-----------------------------------------------------------------------------
(* _guarded_invoke *)

\* Mutant: the lock is taken without looking whether it is held.
TryLockUnchecked(q) ==
  /\ pc[q] = "lock"
  /\ lock' = [lock EXCEPT ![req[q].run] = q]
  /\ Goto(q, "semaphore")
  /\ UNCHANGED <<durable, permits, channel, cache, req, history>>

TryLock(q) ==
  LET t == req[q].run
  IN  /\ pc[q] = "lock"
      /\ IF lock[t] = NoRequest
         THEN /\ lock' = [lock EXCEPT ![t] = q]
              /\ Goto(q, "semaphore")
              /\ UNCHANGED req
         ELSE /\ Respond(q, "409")
              /\ UNCHANGED lock
      /\ UNCHANGED <<durable, permits, channel, cache, history>>

\* Mutant: a semaphore that never refuses.
AcquirePermitUnbounded(q) ==
  /\ pc[q] = "semaphore"
  /\ permits' = permits - 1
  /\ Goto(q, "invoke")
  /\ UNCHANGED <<durable, lock, channel, cache, req, history>>

AcquirePermit(q) ==
  /\ pc[q] = "semaphore"
  /\ permits > 0
  /\ permits' = permits - 1
  /\ Goto(q, "invoke")
  /\ UNCHANGED <<durable, lock, channel, cache, req, history>>

\* Mutants: one finally for both, which gives back a permit never obtained; and a
\* ServerBusy raised outside the try, which keeps the lock.
AcquireTimeoutReleasing(q) ==
  /\ pc[q] = "semaphore"
  /\ permits = 0
  /\ permits' = permits + 1
  /\ lock' = [lock EXCEPT ![req[q].run] = NoRequest]
  /\ Respond(q, "503")
  /\ UNCHANGED <<durable, channel, cache, history>>

AcquireTimeoutHoldingLock(q) ==
  /\ pc[q] = "semaphore"
  /\ permits = 0
  /\ Respond(q, "503")
  /\ UNCHANGED <<durable, memory, history>>

\* SEMAPHORE_ACQUIRE_TIMEOUT passed: ServerBusy, and the finally frees the lock.
AcquireTimeout(q) ==
  /\ pc[q] = "semaphore"
  /\ permits = 0
  /\ lock' = [lock EXCEPT ![req[q].run] = NoRequest]
  /\ Respond(q, "503")
  /\ UNCHANGED <<durable, permits, channel, cache, history>>

\* The two finally blocks, inner one first: the permit is free before the lock is.
ReleasePermit(q) ==
  /\ pc[q] = "release"
  /\ permits' = permits + 1
  /\ Goto(q, "unlock")
  /\ UNCHANGED <<durable, lock, channel, cache, req, history>>

Unlock(q) ==
  /\ pc[q] = "unlock"
  /\ lock' = [lock EXCEPT ![req[q].run] = NoRequest]
  /\ Goto(q, "respond")
  /\ UNCHANGED <<durable, permits, channel, cache, req, history>>

-----------------------------------------------------------------------------
(* graph.invoke *)

\* What invoke(input) does to the checkpoint before any later node runs: an
\* initial state restarts the thread; Command(resume=...) is consumed by a paused
\* human_review and by nothing else; None re-executes the pending node.
Invoked(c, command, invoice) ==
  CASE command = "start" -> Started(c, invoice)
    [] command = "edit" /\ c.interrupted -> HumanReviewEdited(c, invoice)
    [] command = "approve" /\ c.interrupted -> HumanReviewApproved(c)
    [] OTHER -> c

\* A pending node other than a paused human_review executes next.
Runnable(c) == c.next \in Node /\ ~c.interrupted

Invoke(q) ==
  LET t == req[q].run
      after == Invoked(ck[t], req[q].command, req[q].invoice)
  IN  /\ pc[q] = "invoke"
      /\ ck' = [ck EXCEPT ![t] = after]
      /\ approval' = IF req[q].command = "approve" /\ ck[t].interrupted
                     THEN [approval EXCEPT ![t] = [invoice |-> ck[t].invoice,
                                                   vouched |-> req[q].vouched]]
                     ELSE approval
      /\ Goto(q, IF Runnable(after) THEN "node" ELSE "publish")
      /\ UNCHANGED <<db, ledger, minted, memory, req, crashes, unreadable>>

\* The graph loop commits a node's return and goes on, or stops at END.
Returned(q, c) ==
  /\ ck' = [ck EXCEPT ![req[q].run] = c]
  /\ Goto(q, IF Runnable(c) THEN "node" ELSE "publish")

Pending(q, node) == pc[q] = "node" /\ (ck[req[q].run].next = node)

Classify(q) ==
  /\ Pending(q, "router")
  /\ \E doc_type \in {"invoice", "other"} : Returned(q, RouterReturns(ck[req[q].run], doc_type))
  /\ UNCHANGED <<db, ledger, minted, memory, req, history>>

Extract(q) ==
  /\ Pending(q, "extractor")
  /\ Returned(q, ExtractorReturns(ck[req[q].run]))
  /\ UNCHANGED <<db, ledger, minted, memory, req, history>>

Validate(q) ==
  /\ Pending(q, "validator")
  /\ \E needs_review \in BOOLEAN :
       Returned(q, ValidatorReturns(ck[req[q].run], needs_review))
  /\ UNCHANGED <<db, ledger, minted, memory, req, history>>

AwaitReview(q) ==
  /\ Pending(q, "human_review")
  /\ Returned(q, HumanReviewInterrupts(ck[req[q].run]))
  /\ UNCHANGED <<db, ledger, minted, memory, req, history>>

\* An API error, an unreadable PDF, Supabase unreachable: the task keeps the error.
Raise(q) ==
  /\ pc[q] = "node"
  /\ ck[req[q].run].next # "human_review"
  /\ ck' = [ck EXCEPT ![req[q].run] = NodeRaised(ck[req[q].run])]
  /\ req' = [req EXCEPT ![q].raised = TRUE]
  /\ Goto(q, "publish")
  /\ UNCHANGED <<db, ledger, minted, memory, history>>

\* Mutant: the except clause logs instead of raising, and output() goes on.
SaveInvoiceSwallowed(q) ==
  /\ Pending(q, "output")
  /\ Goto(q, "ledger")
  /\ UNCHANGED <<durable, memory, req, history>>

\* output(): upload_pdf and insert_invoice.  The insert is several requests, so
\* it may raise after the row was already written.
SaveInvoice(q) ==
  LET t == req[q].run
  IN  /\ Pending(q, "output")
      /\ db' = [db EXCEPT ![t] = [invoice |-> ck[t].invoice,
                                  flagged |-> ck[t].needs_review]]
      /\ \/ /\ Goto(q, "ledger")
            /\ UNCHANGED <<ck, req>>
         \/ /\ ck' = [ck EXCEPT ![t] = NodeRaised(ck[t])]
            /\ req' = [req EXCEPT ![q].raised = TRUE]
            /\ Goto(q, "publish")
      /\ UNCHANGED <<ledger, minted, memory, history>>

\* Mutant: a failed append fails the run, as a failed save does.
AppendLedgerStrict(q) ==
  LET t == req[q].run
  IN  /\ pc[q] = "ledger"
      /\ \E landed \in BOOLEAN :
           ledger' = IF landed
                     THEN [ledger EXCEPT ![t] = Append(ledger[t], ck[t].invoice)]
                     ELSE ledger
      /\ \/ /\ req' = [req EXCEPT ![q].ledger = "written"]
            /\ Goto(q, "commit")
            /\ UNCHANGED ck
         \/ /\ req' = [req EXCEPT ![q].raised = TRUE]
            /\ ck' = [ck EXCEPT ![t] = NodeRaised(ck[t])]
            /\ Goto(q, "publish")
      /\ UNCHANGED <<db, minted, memory, history>>

\* output(): insert_export_row.  Its failure is swallowed, and an error can also
\* hide a row that did land.
AppendLedger(q) ==
  LET t == req[q].run
  IN  /\ pc[q] = "ledger"
      /\ \E landed \in BOOLEAN, outcome \in {"written", "failed"} :
           /\ outcome = "written" => landed
           /\ ledger' = IF landed
                        THEN [ledger EXCEPT ![t] = Append(ledger[t], ck[t].invoice)]
                        ELSE ledger
           /\ req' = [req EXCEPT ![q].ledger = outcome]
      /\ Goto(q, "commit")
      /\ UNCHANGED <<ck, db, minted, memory, history>>

\* output() returned; LangGraph writes the final checkpoint.
Complete(q) ==
  /\ pc[q] = "commit"
  /\ Returned(q, OutputReturns(ck[req[q].run], req[q].ledger))
  /\ UNCHANGED <<db, ledger, minted, memory, req, history>>

-----------------------------------------------------------------------------
(* After invoke *)

\* Mutant: only the end of a run refreshes the cache.
PublishRunEndTerminal(q) ==
  LET t == req[q].run
      ended == Status(t) \in EndedStatus
  IN  /\ pc[q] = "publish"
      /\ cache' = IF ended THEN [cache EXCEPT ![t] = Status(t)] ELSE cache
      /\ channel' = [channel EXCEPT ![t] = @ /\ ~ended]
      /\ Goto(q, "release")
      /\ UNCHANGED <<durable, lock, permits, req, history>>

\* _publish_run_end, still under the lock: cache the status for the response and
\* close the channel of a run that ended.
PublishRunEnd(q) ==
  LET t == req[q].run
  IN  /\ pc[q] = "publish"
      /\ cache' = [cache EXCEPT ![t] = Status(t)]
      /\ channel' = [channel EXCEPT ![t] = @ /\ Status(t) \notin EndedStatus]
      /\ Goto(q, "release")
      /\ UNCHANGED <<durable, lock, permits, req, history>>

\* get_state() or derive_status() raised: nothing cached, nothing published, and
\* an entry an earlier invoke left in the cache stays.
PublishSwallowed(q) ==
  /\ pc[q] = "publish"
  /\ unreadable < MaxUnreadable
  /\ unreadable' = unreadable + 1
  /\ Goto(q, "release")
  /\ UNCHANGED <<durable, memory, req, approval, crashes>>

\* The handler's last lines: a node's exception becomes an error body; otherwise
\* _current_status pops the cache, or reads the checkpoint on a miss.
Answer(q) ==
  LET t == req[q].run
  IN  /\ pc[q] = "respond"
      /\ IF req[q].raised
         THEN /\ Respond(q, "error")
              /\ UNCHANGED cache
         ELSE /\ Respond(q, IF cache[t] = "none" THEN Status(t) ELSE cache[t])
              /\ cache' = [cache EXCEPT ![t] = "none"]
      /\ UNCHANGED <<durable, lock, permits, channel, history>>

-----------------------------------------------------------------------------
(* Environment *)

\* The container is restarted (a redeploy, the OOM killer): memory is lost and
\* every request in flight loses its connection.
Crash ==
  /\ crashes < MaxCrashes
  /\ crashes' = crashes + 1
  /\ pc' = [q \in Request |-> IF pc[q] \in {"idle", "reserved", "viewed", "done"} THEN pc[q] ELSE "lost"]
  /\ lock' = [t \in Run |-> NoRequest]
  /\ permits' = MaxConcurrency
  /\ channel' = [t \in Run |-> FALSE]
  /\ cache' = [t \in Run |-> "none"]
  /\ UNCHANGED <<durable, req, approval, unreadable>>

Execute(q) ==
  \/ Classify(q) \/ Extract(q) \/ Validate(q) \/ AwaitReview(q) \/ Raise(q)
  \/ SaveInvoice(q) \/ AppendLedger(q) \/ Complete(q)

\* The steps a handler takes without waiting for its client.
Handler(q) ==
  \/ SaveUpload(q) \/ OpenChannel(q)
  \/ TryLock(q) \/ AcquirePermit(q) \/ AcquireTimeout(q)
  \/ Invoke(q) \/ Execute(q)
  \/ PublishRunEnd(q) \/ PublishSwallowed(q)
  \/ ReleasePermit(q) \/ Unlock(q) \/ Answer(q)

Client(q) ==
  \/ /\ q \in Creator
     /\ \/ \E t \in Run : Reserve(q, t) \/ PostFresh(q, t) \/ Repost(q, t)
        \/ PostReserved(q)
  \/ /\ q \in Reviewer
     /\ \/ \E t \in Run : View(q, t)
        \/ \E body \in MaybeInvoice : ReadSnapshot(q, body)
        \/ RejectPatch(q)

Next == (\E q \in Request : Client(q) \/ Handler(q)) \/ Crash

\* Threadpool threads run; every Anthropic and Supabase call has a timeout.
\* Clients and restarts are under no obligation.
Fairness == \A q \in Request : WF_vars(Handler(q))

Spec == Init /\ [][Next]_vars /\ Fairness

-----------------------------------------------------------------------------
(* Safety *)

\* A run's lock is held by exactly the request whose handler is inside
\* _guarded_invoke for that run: never two, and never one that already left.
LockDiscipline ==
  \A t \in Run, q \in Request :
    (lock[t] = q) <=> (pc[q] \in Locked /\ req[q].run = t)

\* The semaphore's permits and the requests inside graph.invoke() always add up
\* to max_concurrency: no path through the nested try/finally leaks a permit.
PermitsConserved ==
  permits + Cardinality({q \in Request : pc[q] \in Permitted}) = MaxConcurrency

\* output() only ever runs on the very invoice the validator last looked at
\* (REVIEW.md: validated on its final form).
ValidatedOnFinalForm ==
  \A t \in Run : ck[t].next = "output" =>
    ck[t].invoice \in Invoice /\ ck[t].validated = ck[t].invoice

\* A flagged invoice is saved only if an approval was applied to that very
\* invoice (graph.py: approved is TRUE "when the reviewer approved the invoice
\* unchanged").
FlaggedSaveWasApproved ==
  \A t \in Run : db[t].flagged => approval[t].invoice = db[t].invoice

\* A flagged invoice is never saved on the approval of a reviewer who was shown,
\* or who sent back, a different invoice ("merged over the invoice the human was
\* actually shown", docs/api.md).  A reviewer who was shown none is left out.
FlaggedSaveWasMeant ==
  \A t \in Run : db[t].flagged =>
    approval[t].vouched \in {NoInvoice, db[t].invoice}

\* A run has at most one ledger row, and it repeats the invoice that was saved:
\* retries of output() never append twice, even when an append reported an error
\* after landing.
LedgerAgreesWithDatabase ==
  \A t \in Run : ledger[t] = <<>> \/ ledger[t] = <<db[t].invoice>>

\* Whatever the interleaving, a ledger row exists only for a run whose invoice
\* write went through, and "written" is only reported for a row that exists.
LedgerOnlyAfterSave ==
  \A t \in Run :
    /\ ledger[t] # <<>> => db[t].invoice \in Invoice
    /\ ck[t].ledger_status = "written" => ledger[t] # <<>>

\* When a handler is about to build its answer and nobody is executing the run,
\* the one-shot cache holds the run's current status or nothing.
ServedStatusIsCurrent ==
  \A q \in Request :
    (pc[q] = "respond" /\ ~req[q].raised /\ lock[req[q].run] = NoRequest) =>
      cache[req[q].run] \in {"none", Status(req[q].run)}

\* A run the API reported as completed or skipped never changes again: every
\* stale resume, retry or start that still gets through is a no-op.
EndedIsFinal ==
  [][\A t \in Run : Status(t) \in {"completed", "skipped"} =>
       ck'[t] = ck[t] /\ db'[t] = db[t] /\ ledger'[t] = ledger[t]]_<<ck, db, ledger>>

\* A run that is "processing" is being executed by somebody: no run is left with
\* a pending node that nothing will ever execute.
NoOrphan ==
  \A t \in Run : Status(t) = "processing" => lock[t] # NoRequest

-----------------------------------------------------------------------------
(* Liveness *)

\* Every request the server started to handle is answered (or its connection
\* died with the process): nothing waits on a lock, and the wait on the semaphore
\* is bounded.
EveryRequestAnswered ==
  \A q \in Request : (pc[q] \notin {"idle", "reserved", "viewed"}) ~> (pc[q] \in {"done", "lost"})

\* A run never stays locked: the finally blocks give every lock back.
LocksAreReleased ==
  \A t \in Run : (lock[t] # NoRequest) ~> (lock[t] = NoRequest)
=============================================================================
