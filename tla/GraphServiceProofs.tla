------------------------- MODULE GraphServiceProofs -------------------------
(***************************************************************************)
(* Theorems about GraphService, for every number of runs, requests,        *)
(* invoices, permits, channels, restarts and unreadable checkpoints, and   *)
(* with resent POSTs allowed; the one about the status cache needs every   *)
(* checkpoint to be readable.  The last part is about what is written: the *)
(* form of the checkpoints, and the order of the two writes output()       *)
(* makes.  Neither needs the per-run lock.                                 *)
(***************************************************************************)
EXTENDS GraphService, FiniteSetTheorems, SequenceTheorems, TLAPS

-----------------------------------------------------------------------------
(* Lemmas about the graph *)

\* What the router and the validator assign to a checkpoint.
LEMMA ClassifiedType ==
  ASSUME NEW c \in Checkpoint
  PROVE  /\ [c EXCEPT !.doc_type = "invoice", !.status = "classified"] \in Checkpoint
         /\ [c EXCEPT !.doc_type = "other", !.status = "skipped"] \in Checkpoint
BY Zenon DEF Checkpoint

LEMMA ValidatedType ==
  ASSUME NEW c \in Checkpoint, NEW b \in BOOLEAN, NEW i \in Invoice \cup {NoInvoice},
         NEW s \in {"needs_review", "validated"}
  PROVE  [c EXCEPT !.needs_review = b, !.validated = i, !.status = s] \in Checkpoint
BY Zenon DEF Checkpoint

\* Every node result is a checkpoint again.
LEMMA NodesKeepType ==
  ASSUME NEW c \in Checkpoint
  PROVE  /\ \A i \in Invoice \cup {NoInvoice} : Started(c, i) \in Checkpoint
         /\ \A d \in {"invoice", "other"} : RouterReturns(c, d) \in Checkpoint
         /\ ExtractorReturns(c) \in Checkpoint
         /\ \A b \in BOOLEAN : ValidatorReturns(c, b) \in Checkpoint
         /\ HumanReviewInterrupts(c) \in Checkpoint
         /\ \A i \in Invoice \cup {NoInvoice} : HumanReviewEdited(c, i) \in Checkpoint
         /\ HumanReviewApproved(c) \in Checkpoint
         /\ \A l \in {"none", "written", "failed"} : OutputReturns(c, l) \in Checkpoint
         /\ NodeRaised(c) \in Checkpoint
<1> USE DEF Checkpoint, Node
<1>1. \A i \in Invoice \cup {NoInvoice} : Started(c, i) \in Checkpoint
  BY DEF Started, Advance
<1>2. \A d \in {"invoice", "other"} : RouterReturns(c, d) \in Checkpoint
  <2>1. Advance(c, "extractor") \in Checkpoint /\ Advance(c, "end") \in Checkpoint
    BY DEF Advance
  <2>2. /\ RouterReturns(c, "invoice") =
             [Advance(c, "extractor") EXCEPT !.doc_type = "invoice", !.status = "classified"]
        /\ RouterReturns(c, "other") =
             [Advance(c, "end") EXCEPT !.doc_type = "other", !.status = "skipped"]
    BY DEF RouterReturns, RouteAfterClassification
  <2> HIDE DEF Checkpoint, Node
  <2>3. RouterReturns(c, "invoice") \in Checkpoint /\ RouterReturns(c, "other") \in Checkpoint
    BY <2>1, <2>2, ClassifiedType, Zenon
  <2>4. QED
    BY <2>3
<1>3. ExtractorReturns(c) \in Checkpoint
  BY DEF ExtractorReturns, Advance
<1>4. \A b \in BOOLEAN : ValidatorReturns(c, b) \in Checkpoint
  <2> TAKE b \in BOOLEAN
  <2> DEFINE next == RouteAfterValidation(b, c.approved)
  <2>1. next \in {"human_review", "output"}
    BY DEF RouteAfterValidation
  <2> HIDE DEF next
  <2>2. Advance(c, next) \in Checkpoint /\ Advance(c, next).next \in Node
    BY <2>1 DEF Advance
  <2>3. QED
    <3>1. c.invoice \in Invoice \cup {NoInvoice}
      OBVIOUS
    <3> HIDE DEF Checkpoint, Node
    <3>2. QED
      BY <2>2, <3>1, ValidatedType DEF ValidatorReturns, next
<1>5. HumanReviewInterrupts(c) \in Checkpoint
  BY DEF HumanReviewInterrupts
<1>6. \A i \in Invoice \cup {NoInvoice} : HumanReviewEdited(c, i) \in Checkpoint
  BY DEF HumanReviewEdited, Advance
<1>7. HumanReviewApproved(c) \in Checkpoint
  BY DEF HumanReviewApproved, Advance
<1>8. \A l \in {"none", "written", "failed"} : OutputReturns(c, l) \in Checkpoint
  BY DEF OutputReturns, Advance
<1>9. NodeRaised(c) \in Checkpoint
  BY DEF NodeRaised
<1>10. QED
  BY <1>1, <1>2, <1>3, <1>4, <1>5, <1>6, <1>7, <1>8, <1>9

\* derive_status always finds one of its statuses.
LEMMA StatusType ==
  ASSUME NEW c \in Checkpoint
  PROVE  DeriveStatus(c) \in RunStatus
BY DEF Checkpoint, DeriveStatus, RunStatus

-----------------------------------------------------------------------------
(* Type correctness *)

\* Every request being handled is about a run.
RunKnown ==
  \A q \in Request : pc[q] \notin {"idle", "done", "lost"} => req[q].run \in Run

LEMMA InitType == Init => TypeOK
<1>1. NoCheckpoint \in Checkpoint
  BY DEF NoCheckpoint, Checkpoint, Node
<1>2. FreshLocal \in Local
  BY DEF FreshLocal, Local, MaybeRun, MaybeInvoice, RunStatus
<1>3. QED
  BY <1>1, <1>2, BoundAssumption
  DEF Init, TypeOK, MaybeInvoice, Approval, PC, RunStatus

\* What a handler assigns to its locals.
LEMMA LocalUpdate ==
  ASSUME NEW r \in Local
  PROVE  /\ \A t \in MaybeRun : [r EXCEPT !.run = t] \in Local
         /\ \A t \in MaybeRun, i \in MaybeInvoice : [r EXCEPT !.run = t, !.shown = i] \in Local
         /\ \A x \in {"start", "retry", "approve", "edit"}, i \in MaybeInvoice :
              [r EXCEPT !.command = x, !.invoice = i] \in Local
         /\ \A x \in {"start", "retry", "approve", "edit"}, i, v \in MaybeInvoice :
              [r EXCEPT !.command = x, !.invoice = i, !.vouched = v] \in Local
         /\ \A l \in {"none", "written", "failed"} : [r EXCEPT !.ledger = l] \in Local
         /\ [r EXCEPT !.raised = TRUE] \in Local
         /\ \A a \in RunStatus \cup {"none", "404", "409", "422", "503", "error"} :
              [r EXCEPT !.resp = a] \in Local
<1>1. \A t \in MaybeRun : [r EXCEPT !.run = t] \in Local
  BY Zenon DEF Local
<1>2. \A t \in MaybeRun, i \in MaybeInvoice : [r EXCEPT !.run = t, !.shown = i] \in Local
  BY Zenon DEF Local
<1>3. \A x \in {"start", "retry", "approve", "edit"}, i \in MaybeInvoice :
        [r EXCEPT !.command = x, !.invoice = i] \in Local
  BY Zenon DEF Local
<1>4. \A x \in {"start", "retry", "approve", "edit"}, i, v \in MaybeInvoice :
        [r EXCEPT !.command = x, !.invoice = i, !.vouched = v] \in Local
  BY Zenon DEF Local
<1>5. \A l \in {"none", "written", "failed"} : [r EXCEPT !.ledger = l] \in Local
  BY Zenon DEF Local
<1>6. [r EXCEPT !.raised = TRUE] \in Local
  BY Zenon DEF Local
<1>7. \A a \in RunStatus \cup {"none", "404", "409", "422", "503", "error"} :
        [r EXCEPT !.resp = a] \in Local
  BY Zenon DEF Local
<1>8. QED
  BY <1>1, <1>2, <1>3, <1>4, <1>5, <1>6, <1>7

\* A handler's answer keeps its locals well-typed.
LEMMA RespondType ==
  ASSUME TypeOK, NEW q \in Request,
         NEW a \in RunStatus \cup {"none", "404", "409", "422", "503", "error"},
         Respond(q, a)
  PROVE  pc' \in [Request -> PC] /\ req' \in [Request -> Local]
<1>1. pc' \in [Request -> PC]
  BY DEF TypeOK, Respond, Goto, PC
<1>2. req[q] \in Local
  BY DEF TypeOK
<1>3. [req[q] EXCEPT !.resp = a] \in Local
  BY <1>2, LocalUpdate
<1>4. req' \in [Request -> Local]
  BY <1>3 DEF TypeOK, Respond
<1>5. QED
  BY <1>1, <1>4

\* A handler that moves on, and the request record that remembers its run.
LEMMA GotoType ==
  ASSUME TypeOK, NEW q \in Request, NEW label \in PC, Goto(q, label)
  PROVE  pc' \in [Request -> PC]
BY DEF TypeOK, Goto

LEMMA ForRunType ==
  ASSUME TypeOK, NEW q \in Request, NEW t \in MaybeRun
  PROVE  [req EXCEPT ![q].run = t] \in [Request -> Local]
<1>1. [req[q] EXCEPT !.run = t] \in Local
  BY LocalUpdate DEF TypeOK
<1>2. QED
  BY <1>1 DEF TypeOK

LEMMA RequestsType ==
  ASSUME TypeOK, NEW q \in Request, NEW r \in Local
  PROVE  [req EXCEPT ![q] = r] \in [Request -> Local]
BY DEF TypeOK

\* What the client's requests do before the server executes anything.
LEMMA ClientType ==
  ASSUME TypeOK, NEW q \in Request, Client(q)
  PROVE  TypeOK'
<1>0. {"reserved", "upload", "viewed", "open"} \subseteq PC /\ Run \subseteq MaybeRun
  BY DEF PC, MaybeRun
<1>1. ASSUME NEW t \in Run, Reserve(q, t)
      PROVE  TypeOK'
  <2>1. PICK stale \in SUBSET {u \in Run : Sweepable(u)} :
          LET kept == Swept(stale)
          IN  IF CanOpen(t, kept)
              THEN /\ channel' = [kept EXCEPT ![t] = TRUE]
                   /\ minted' = minted \cup {t}
                   /\ Goto(q, "reserved")
                   /\ req' = [req EXCEPT ![q].run = t]
              ELSE /\ channel' = kept
                   /\ Respond(q, "503")
                   /\ UNCHANGED minted
    BY <1>1 DEF Reserve
  <2> DEFINE kept == Swept(stale)
  <2>2. kept \in [Run -> BOOLEAN]
    BY DEF TypeOK, Swept
  <2>3. pc' \in [Request -> PC] /\ req' \in [Request -> Local]
    <3>1. CASE CanOpen(t, kept)
      <4>1. Goto(q, "reserved") /\ req' = [req EXCEPT ![q].run = t]
        BY <2>1, <3>1
      <4>2. QED
        BY <1>0, <4>1, GotoType, ForRunType
    <3>2. CASE ~CanOpen(t, kept)
      BY <2>1, <3>2, RespondType
    <3>3. QED
      BY <3>1, <3>2
  <2> HIDE DEF kept
  <2>4. channel' \in [Run -> BOOLEAN] /\ minted' \in SUBSET Run
    BY <2>1, <2>2 DEF TypeOK, kept
  <2>5. QED
    BY <1>1, <2>3, <2>4 DEF Reserve, TypeOK, history
<1>2. ASSUME NEW t \in Run, PostFresh(q, t)
      PROVE  TypeOK'
  <2>1. pc' \in [Request -> PC] /\ req' \in [Request -> Local]
    BY <1>0, <1>2, GotoType, ForRunType DEF PostFresh
  <2>2. QED
    BY <1>2, <2>1 DEF PostFresh, TypeOK, memory, history
<1>3. ASSUME NEW t \in MaybeRun, PostTo(q, t)
      PROVE  TypeOK'
  <2>1. pc' \in [Request -> PC] /\ req' \in [Request -> Local]
    <3>1. CASE UsableReservation(t)
      <4>1. Goto(q, "upload") /\ req' = [req EXCEPT ![q].run = t]
        BY <1>3, <3>1 DEF PostTo
      <4>2. QED
        BY <1>0, <4>1, GotoType, ForRunType
    <3>2. CASE ~UsableReservation(t)
      BY <1>3, <3>2, RespondType DEF PostTo
    <3>3. QED
      BY <3>1, <3>2
  <2>2. QED
    BY <1>3, <2>1 DEF PostTo, TypeOK, durable, memory, history
<1>4. ASSUME PostReserved(q)
      PROVE  TypeOK'
  <2>1. req[q].run \in MaybeRun
    BY DEF TypeOK, Local
  <2>2. QED
    BY <1>3, <1>4, <2>1 DEF PostReserved
<1>5. ASSUME NEW t \in Run, View(q, t)
      PROVE  TypeOK'
  <2>1. (IF Status(t) = "needs_review" THEN ck[t].invoice ELSE NoInvoice) \in MaybeInvoice
    BY DEF TypeOK, Checkpoint, MaybeInvoice
  <2> DEFINE shown == IF Status(t) = "needs_review" THEN ck[t].invoice ELSE NoInvoice
             r == [req[q] EXCEPT !.run = t, !.shown = shown]
  <2>2. r \in Local
    <3> HIDE DEF shown
    <3>1. req[q] \in Local /\ t \in MaybeRun /\ shown \in MaybeInvoice
      BY <1>0, <2>1 DEF TypeOK, shown
    <3>2. QED
      BY <3>1, LocalUpdate
  <2>3. req' \in [Request -> Local]
    BY <1>5, <2>2, RequestsType DEF View
  <2>4. pc' \in [Request -> PC]
    BY <1>0, <1>5, GotoType DEF View
  <2>5. QED
    BY <1>5, <2>3, <2>4 DEF View, TypeOK, durable, memory, history
<1>6. ASSUME NEW body \in MaybeInvoice, ReadSnapshot(q, body)
      PROVE  TypeOK'
  <2>1. ASSUME NEW a \in {"404", "409"}, Respond(q, a)
        PROVE  TypeOK'
    BY <1>6, <2>1, RespondType DEF ReadSnapshot, TypeOK, durable, memory, history
  <2>2. ASSUME NEW command \in {"retry", "approve", "edit"}, NEW edited \in MaybeInvoice,
               Resume(q, command, edited, body)
        PROVE  TypeOK'
    <3> DEFINE vouched == IF body = NoInvoice THEN req[q].shown ELSE body
               r == [req[q] EXCEPT !.command = command, !.invoice = edited, !.vouched = vouched]
    <3>1. vouched \in MaybeInvoice
      BY DEF TypeOK, Local
    <3>2. r \in Local
      <4> HIDE DEF vouched
      <4>1. req[q] \in Local
        BY DEF TypeOK
      <4>2. QED
        BY <3>1, <4>1, LocalUpdate
    <3>3. req' \in [Request -> Local]
      BY <2>2, <3>2, RequestsType DEF Resume
    <3>4. pc' \in [Request -> PC]
      BY <1>0, <2>2, GotoType DEF Resume
    <3>5. QED
      BY <1>6, <3>3, <3>4 DEF ReadSnapshot, TypeOK, durable, memory, history
  <2>3. NoInvoice \in MaybeInvoice
    BY DEF MaybeInvoice
  <2>4. QED
    BY <1>6, <2>1, <2>2, <2>3 DEF ReadSnapshot
<1>7. ASSUME RejectPatch(q)
      PROVE  TypeOK'
  BY <1>7, RespondType DEF RejectPatch, TypeOK, durable, memory, history
<1>8. QED
  BY <1>0, <1>1, <1>2, <1>3, <1>4, <1>5, <1>6, <1>7 DEF Client, Repost

\* Replacing one run's checkpoint by the result of a node.
LEMMA CheckpointsType ==
  ASSUME TypeOK, NEW t, NEW c, t \in Run => c \in Checkpoint
  PROVE  [ck EXCEPT ![t] = c] \in [Run -> Checkpoint]
BY DEF TypeOK

\* What the server does before graph.invoke().
LEMMA EnterType ==
  ASSUME TypeOK, NEW q \in Request,
         SaveUpload(q) \/ OpenChannel(q) \/ TryLock(q) \/ AcquirePermit(q) \/ AcquireTimeout(q)
  PROVE  TypeOK'
<1>0. {"lock", "semaphore", "invoke"} \subseteq PC
  BY DEF PC
<1>1. CASE SaveUpload(q)
  <2>1. CASE Respond(q, "422")
    BY <1>1, <2>1, RespondType DEF SaveUpload, TypeOK, durable, memory, history
  <2>2. ASSUME NEW i \in Invoice, Goto(q, "lock"),
               req' = [req EXCEPT ![q] = [@ EXCEPT !.command = "start", !.invoice = i]]
        PROVE  TypeOK'
    <3>1. [req[q] EXCEPT !.command = "start", !.invoice = i] \in Local
      BY LocalUpdate DEF TypeOK, MaybeInvoice
    <3>2. req' \in [Request -> Local]
      BY <2>2, <3>1, RequestsType
    <3>3. pc' \in [Request -> PC]
      BY <1>0, <2>2, GotoType
    <3>4. QED
      BY <1>1, <3>2, <3>3 DEF SaveUpload, TypeOK, durable, memory, history
  <2>3. QED
    BY <1>1, <2>1, <2>2 DEF SaveUpload
<1>2. CASE OpenChannel(q)
  <2>1. channel' \in [Run -> BOOLEAN]
    <3>1. PICK stale \in SUBSET {u \in Run : Sweepable(u)} :
            channel' = [Swept(stale) EXCEPT ![req[q].run] = CanOpen(req[q].run, Swept(stale))]
      BY <1>2 DEF OpenChannel
    <3>2. Swept(stale) \in [Run -> BOOLEAN]
      BY DEF Swept, TypeOK
    <3>3. CanOpen(req[q].run, Swept(stale)) \in BOOLEAN
      BY <3>2 DEF CanOpen
    <3>4. QED
      BY <3>1, <3>2, <3>3
  <2>2. pc' \in [Request -> PC]
    BY <1>0, <1>2, GotoType DEF OpenChannel
  <2>3. QED
    BY <1>2, <2>1, <2>2 DEF OpenChannel, TypeOK, durable, history
<1>3. CASE TryLock(q)
  <2>1. CASE lock[req[q].run] = NoRequest
    <3>1. pc' \in [Request -> PC]
      BY <1>0, <1>3, <2>1, GotoType DEF TryLock
    <3>2. QED
      BY <1>3, <2>1, <3>1 DEF TryLock, TypeOK, durable, history
  <2>2. CASE lock[req[q].run] # NoRequest
    BY <1>3, <2>2, RespondType DEF TryLock, TypeOK, durable, history
  <2>3. QED
    BY <2>1, <2>2
<1>4. CASE AcquirePermit(q)
  <2>1. pc' \in [Request -> PC]
    BY <1>0, <1>4, GotoType DEF AcquirePermit
  <2>2. QED
    BY <1>4, <2>1 DEF AcquirePermit, TypeOK, durable, history
<1>5. CASE AcquireTimeout(q)
  BY <1>5, RespondType DEF AcquireTimeout, TypeOK, durable, history
<1>6. QED
  BY <1>1, <1>2, <1>3, <1>4, <1>5

\* invoke()'s first effect on the checkpoint.
LEMMA InvokedType ==
  ASSUME NEW c \in Checkpoint, NEW r \in Local
  PROVE  Invoked(c, r.command, r.invoice) \in Checkpoint
BY NodesKeepType DEF Invoked, Local, MaybeInvoice

\* A node's return, whatever the node.
LEMMA ReturnedType ==
  ASSUME TypeOK, NEW q \in Request, NEW c, req[q].run \in Run => c \in Checkpoint,
         Returned(q, c)
  PROVE  ck' \in [Run -> Checkpoint] /\ pc' \in [Request -> PC]
<1>1. ck' \in [Run -> Checkpoint]
  BY CheckpointsType DEF Returned
<1>2. (IF Runnable(c) THEN "node" ELSE "publish") \in PC
  BY DEF PC
<1>3. QED
  BY <1>1, <1>2, GotoType DEF Returned

\* One step of the graph.
LEMMA ExecuteType ==
  ASSUME TypeOK, NEW q \in Request, Execute(q)
  PROVE  TypeOK'
<1> DEFINE t == req[q].run
<1>0. {"publish", "ledger", "commit"} \subseteq PC
  BY DEF PC
<1>a. t \in Run => ck[t] \in Checkpoint
  BY DEF TypeOK
<1>b. [req[q] EXCEPT !.raised = TRUE] \in Local
  BY LocalUpdate DEF TypeOK
<1>c. req[q].ledger \in {"none", "written", "failed"}
  BY DEF TypeOK, Local
<1>1. CASE Classify(q)
  <2>1. PICK d \in {"invoice", "other"} : Returned(q, RouterReturns(ck[t], d))
    BY <1>1 DEF Classify
  <2>2. t \in Run => RouterReturns(ck[t], d) \in Checkpoint
    BY <1>a, NodesKeepType
  <2>3. ck' \in [Run -> Checkpoint] /\ pc' \in [Request -> PC]
    BY <2>1, <2>2, ReturnedType
  <2>4. QED
    BY <1>1, <2>3 DEF Classify, TypeOK, memory, history
<1>2. CASE Extract(q)
  <2>1. t \in Run => ExtractorReturns(ck[t]) \in Checkpoint
    BY <1>a, NodesKeepType
  <2>2. ck' \in [Run -> Checkpoint] /\ pc' \in [Request -> PC]
    BY <1>2, <2>1, ReturnedType DEF Extract
  <2>3. QED
    BY <1>2, <2>2 DEF Extract, TypeOK, memory, history
<1>3. CASE Validate(q)
  <2>1. PICK b \in BOOLEAN : Returned(q, ValidatorReturns(ck[t], b))
    BY <1>3 DEF Validate
  <2>2. t \in Run => ValidatorReturns(ck[t], b) \in Checkpoint
    BY <1>a, NodesKeepType
  <2>3. ck' \in [Run -> Checkpoint] /\ pc' \in [Request -> PC]
    BY <2>1, <2>2, ReturnedType
  <2>4. QED
    BY <1>3, <2>3 DEF Validate, TypeOK, memory, history
<1>4. CASE AwaitReview(q)
  <2>1. t \in Run => HumanReviewInterrupts(ck[t]) \in Checkpoint
    BY <1>a, NodesKeepType
  <2>2. ck' \in [Run -> Checkpoint] /\ pc' \in [Request -> PC]
    BY <1>4, <2>1, ReturnedType DEF AwaitReview
  <2>3. QED
    BY <1>4, <2>2 DEF AwaitReview, TypeOK, memory, history
<1>5. CASE Raise(q)
  <2>1. t \in Run => NodeRaised(ck[t]) \in Checkpoint
    BY <1>a, NodesKeepType
  <2>2. ck' \in [Run -> Checkpoint]
    BY <1>5, <2>1, CheckpointsType DEF Raise
  <2>3. req' \in [Request -> Local]
    BY <1>5, <1>b, RequestsType DEF Raise
  <2>4. pc' \in [Request -> PC]
    BY <1>0, <1>5, GotoType DEF Raise
  <2>5. QED
    BY <1>5, <2>2, <2>3, <2>4 DEF Raise, TypeOK, memory, history
<1>6. CASE SaveInvoice(q)
  <2>1. t \in Run => NodeRaised(ck[t]) \in Checkpoint
    BY <1>a, NodesKeepType
  <2>2. ck' \in [Run -> Checkpoint]
    <3>1. ck' = ck \/ ck' = [ck EXCEPT ![t] = NodeRaised(ck[t])]
      BY <1>6 DEF SaveInvoice
    <3>2. QED
      BY <2>1, <3>1, CheckpointsType DEF TypeOK
  <2>3. req' \in [Request -> Local]
    BY <1>6, <1>b, RequestsType DEF SaveInvoice, TypeOK
  <2>4. pc' \in [Request -> PC]
    BY <1>0, <1>6, GotoType DEF SaveInvoice
  <2>5. db' \in [Run -> [invoice : MaybeInvoice, flagged : BOOLEAN]]
    <3>1. t \in Run => [invoice |-> ck[t].invoice, flagged |-> ck[t].needs_review]
                         \in [invoice : MaybeInvoice, flagged : BOOLEAN]
      BY <1>a DEF Checkpoint, MaybeInvoice
    <3>2. QED
      BY <1>6, <3>1 DEF SaveInvoice, TypeOK
  <2>6. QED
    BY <1>6, <2>2, <2>3, <2>4, <2>5 DEF SaveInvoice, TypeOK, memory, history
<1>7. CASE AppendLedger(q)
  <2>1. PICK landed \in BOOLEAN, outcome \in {"written", "failed"} :
          /\ ledger' = IF landed
                       THEN [ledger EXCEPT ![t] = Append(ledger[t], ck[t].invoice)]
                       ELSE ledger
          /\ req' = [req EXCEPT ![q].ledger = outcome]
    BY <1>7 DEF AppendLedger
  <2>2. t \in Run => Append(ledger[t], ck[t].invoice) \in Seq(MaybeInvoice)
    BY <1>a DEF TypeOK, Checkpoint, MaybeInvoice
  <2>3. ledger' \in [Run -> Seq(MaybeInvoice)]
    BY <2>1, <2>2 DEF TypeOK
  <2>4. [req[q] EXCEPT !.ledger = outcome] \in Local
    BY LocalUpdate DEF TypeOK
  <2>5. req' \in [Request -> Local]
    BY <2>1, <2>4, RequestsType
  <2>6. pc' \in [Request -> PC]
    BY <1>0, <1>7, GotoType DEF AppendLedger
  <2>7. QED
    BY <1>7, <2>3, <2>5, <2>6 DEF AppendLedger, TypeOK, memory, history
<1>8. CASE Complete(q)
  <2>1. t \in Run => OutputReturns(ck[t], req[q].ledger) \in Checkpoint
    BY <1>a, <1>c, NodesKeepType
  <2>2. ck' \in [Run -> Checkpoint] /\ pc' \in [Request -> PC]
    BY <1>8, <2>1, ReturnedType DEF Complete
  <2>3. QED
    BY <1>8, <2>2 DEF Complete, TypeOK, memory, history
<1>9. QED
  BY <1>1, <1>2, <1>3, <1>4, <1>5, <1>6, <1>7, <1>8 DEF Execute

\* The lines around the graph: its first step, the run's end and the answer.
LEMMA AroundGraphType ==
  ASSUME TypeOK, RunKnown, NEW q \in Request,
         Invoke(q) \/ PublishRunEnd(q) \/ PublishSwallowed(q) \/ ReleasePermit(q) \/ Unlock(q) \/ Answer(q)
  PROVE  TypeOK'
<1> DEFINE t == req[q].run
<1>0. {"node", "publish", "release", "unlock", "respond"} \subseteq PC
  BY DEF PC
<1>a. t \in Run => ck[t] \in Checkpoint
  BY DEF TypeOK
<1>b. t \in Run => Status(t) \in RunStatus
  BY <1>a, StatusType DEF Status
<1>1. CASE Invoke(q)
  <2> DEFINE after == Invoked(ck[t], req[q].command, req[q].invoice)
  <2>1. req[q] \in Local
    BY DEF TypeOK
  <2>2. t \in Run => after \in Checkpoint
    BY <1>a, <2>1, InvokedType
  <2>3. ck' = [ck EXCEPT ![t] = after] /\ Goto(q, IF Runnable(after) THEN "node" ELSE "publish")
    BY <1>1 DEF Invoke
  <2> HIDE DEF after
  <2>4. ck' \in [Run -> Checkpoint]
    BY <2>2, <2>3, CheckpointsType
  <2>5. (IF Runnable(after) THEN "node" ELSE "publish") \in PC
    BY <1>0
  <2>6. pc' \in [Request -> PC]
    BY <2>3, <2>5, GotoType
  <2>7. t \in Run => [invoice |-> ck[t].invoice, vouched |-> req[q].vouched] \in Approval
    BY <1>a, <2>1 DEF Checkpoint, Local, Approval, MaybeInvoice
  <2>8. approval' \in [Run -> Approval]
    BY <1>1, <2>7 DEF Invoke, TypeOK
  <2>9. QED
    BY <1>1, <2>4, <2>6, <2>8 DEF Invoke, TypeOK, memory
<1>2. CASE PublishRunEnd(q)
  <2>1. pc' \in [Request -> PC]
    BY <1>0, <1>2, GotoType DEF PublishRunEnd
  <2>2. cache' \in [Run -> RunStatus \cup {"none"}]
    BY <1>2, <1>b DEF PublishRunEnd, TypeOK
  <2>3. channel' \in [Run -> BOOLEAN]
    BY <1>2 DEF PublishRunEnd, TypeOK
  <2>4. QED
    BY <1>2, <2>1, <2>2, <2>3 DEF PublishRunEnd, TypeOK, durable, history
<1>3. CASE PublishSwallowed(q)
  <2>1. pc' \in [Request -> PC]
    BY <1>0, <1>3, GotoType DEF PublishSwallowed
  <2>2. unreadable' \in 0..MaxUnreadable
    BY <1>3, BoundAssumption DEF PublishSwallowed, TypeOK
  <2>3. QED
    BY <1>3, <2>1, <2>2 DEF PublishSwallowed, TypeOK, durable, memory
<1>4. CASE ReleasePermit(q)
  <2>1. pc' \in [Request -> PC]
    BY <1>0, <1>4, GotoType DEF ReleasePermit
  <2>2. permits' \in Nat
    BY <1>4 DEF ReleasePermit, TypeOK
  <2>3. QED
    BY <1>4, <2>1, <2>2 DEF ReleasePermit, TypeOK, durable, history
<1>u. CASE Unlock(q)
  <2>1. pc' \in [Request -> PC]
    BY <1>0, <1>u, GotoType DEF Unlock
  <2>2. lock' \in [Run -> Request \cup {NoRequest}]
    BY <1>u DEF Unlock, TypeOK
  <2>3. QED
    BY <1>u, <2>1, <2>2 DEF Unlock, TypeOK, durable, history
<1>5. CASE Answer(q)
  <2>1. cache' \in [Run -> RunStatus \cup {"none"}]
    BY <1>5 DEF Answer, TypeOK
  <2>2. CASE req[q].raised
    BY <1>5, <2>1, <2>2, RespondType DEF Answer, TypeOK, durable, history
  <2>3. CASE ~req[q].raised
    <3> DEFINE a == IF cache[t] = "none" THEN Status(t) ELSE cache[t]
    <3>1. Respond(q, a)
      BY <1>5, <2>3 DEF Answer
    <3>2. t \in Run
      BY <1>5 DEF RunKnown, Answer
    <3>3. a \in RunStatus
      BY <1>b, <3>2 DEF TypeOK
    <3>4. QED
      BY <1>5, <2>1, <3>1, <3>3, RespondType DEF Answer, TypeOK, durable, history
  <2>4. QED
    BY <2>2, <2>3
<1>6. QED
  BY <1>1, <1>2, <1>3, <1>4, <1>u, <1>5

-----------------------------------------------------------------------------
(* The shape of a request's step *)

\* No step of q touches another request.
LocalStep(q) == \A p \in Request \ {q} : pc'[p] = pc[p] /\ req'[p] = req[p]

\* A step that neither takes nor gives back the lock or a permit.
KeepsPhase(q) ==
  /\ pc'[q] \in Locked <=> pc[q] \in Locked
  /\ pc'[q] \in Permitted <=> pc[q] \in Permitted
  /\ UNCHANGED <<lock, permits>>

KeepsRun(q) == req'[q].run = req[q].run

LEMMA RespondShape ==
  ASSUME TypeOK, NEW q \in Request, NEW a, Respond(q, a)
  PROVE  LocalStep(q) /\ KeepsRun(q) /\ (pc'[q] = "done")
BY DEF TypeOK, Respond, Goto, LocalStep, KeepsRun, Local

LEMMA MoveShape ==
  ASSUME TypeOK, NEW q \in Request, NEW label, Goto(q, label),
         NEW r, req' = [req EXCEPT ![q] = r]
  PROVE  LocalStep(q) /\ (pc'[q] = label) /\ (req'[q] = r)
BY DEF TypeOK, Goto, LocalStep

LEMMA ForRunShape ==
  ASSUME TypeOK, NEW q \in Request, NEW label, Goto(q, label),
         NEW t, req' = [req EXCEPT ![q].run = t]
  PROVE  LocalStep(q) /\ (pc'[q] = label) /\ (req'[q].run = t)
BY DEF TypeOK, Goto, LocalStep, Local

\* Before the server executes anything for q.
LEMMA ClientShape ==
  ASSUME TypeOK, NEW q \in Request, Client(q)
  PROVE  /\ LocalStep(q) /\ KeepsPhase(q)
         /\ pc[q] \notin Locked
         /\ pc'[q] # "done" => \/ req'[q].run \in Run
                               \/ KeepsRun(q) /\ pc[q] \in {"reserved", "viewed"}
<1> DEFINE Calm == pc[q] \notin Locked /\ (UNCHANGED <<lock, permits>>)
           Moves == /\ LocalStep(q) /\ pc'[q] \in {"reserved", "upload", "viewed", "open", "done"}
                    /\ pc'[q] # "done" => \/ req'[q].run \in Run
                                          \/ KeepsRun(q) /\ pc[q] \in {"reserved", "viewed"}
<1>0. Calm /\ Moves => /\ LocalStep(q) /\ KeepsPhase(q) /\ pc[q] \notin Locked
                       /\ pc'[q] # "done" => \/ req'[q].run \in Run
                                             \/ KeepsRun(q) /\ pc[q] \in {"reserved", "viewed"}
  BY DEF KeepsPhase, Locked, Permitted
<1>1. ASSUME NEW t \in Run, Reserve(q, t)
      PROVE  Calm /\ Moves
  <2>1. \/ Goto(q, "reserved") /\ (req' = [req EXCEPT ![q].run = t])
        \/ Respond(q, "503")
    BY <1>1 DEF Reserve
  <2>2. Moves
    BY <2>1, RespondShape, ForRunShape
  <2>3. QED
    BY <1>1, <2>2 DEF Reserve, Locked
<1>2. ASSUME NEW t \in Run, PostFresh(q, t)
      PROVE  Calm /\ Moves
  BY <1>2, ForRunShape DEF PostFresh, Locked, memory
<1>3. ASSUME NEW t, PostTo(q, t), t \in Run \/ (pc[q] = "reserved" /\ t = req[q].run)
      PROVE  Moves
  <2>1. \/ Goto(q, "upload") /\ (req' = [req EXCEPT ![q].run = t])
        \/ Respond(q, "422")
    BY <1>3 DEF PostTo
  <2>2. QED
    BY <1>3, <2>1, RespondShape, ForRunShape DEF KeepsRun
<1>4. ASSUME NEW t \in Run, Repost(q, t)
      PROVE  Calm /\ Moves
  BY <1>3, <1>4 DEF Repost, PostTo, Locked, memory
<1>5. ASSUME NEW t \in Run, View(q, t)
      PROVE  Calm /\ Moves
  <2> DEFINE shown == IF Status(t) = "needs_review" THEN ck[t].invoice ELSE NoInvoice
             r == [req[q] EXCEPT !.run = t, !.shown = shown]
  <2>1. LocalStep(q) /\ (pc'[q] = "viewed") /\ (req'[q] = r)
    BY <1>5, MoveShape DEF View
  <2>2. r.run = t
    BY DEF TypeOK, Local
  <2> HIDE DEF r
  <2>3. QED
    BY <1>5, <2>1, <2>2 DEF View, Locked, memory
<1>6. ASSUME NEW body \in MaybeInvoice, ReadSnapshot(q, body)
      PROVE  Calm /\ Moves
  <2>1. ASSUME NEW a, Respond(q, a)
        PROVE  Moves
    BY <2>1, RespondShape
  <2>2. ASSUME NEW command, NEW edited, Resume(q, command, edited, body)
        PROVE  Moves
    <3> DEFINE vouched == IF body = NoInvoice THEN req[q].shown ELSE body
               r == [req[q] EXCEPT !.command = command, !.invoice = edited, !.vouched = vouched]
    <3>1. LocalStep(q) /\ (pc'[q] = "open") /\ (req'[q] = r)
      BY <2>2, MoveShape DEF Resume
    <3>2. r.run = req[q].run
      BY DEF TypeOK, Local
    <3> HIDE DEF r
    <3>3. QED
      BY <1>6, <3>1, <3>2 DEF ReadSnapshot, KeepsRun
  <2> HIDE DEF Moves
  <2>3. Moves
    BY <1>6, <2>1, <2>2 DEF ReadSnapshot
  <2>4. QED
    BY <1>6, <2>3 DEF ReadSnapshot, Locked, memory
<1>7. ASSUME RejectPatch(q)
      PROVE  Calm /\ Moves
  <2>1. Moves
    BY <1>7, RespondShape DEF RejectPatch
  <2>2. QED
    BY <1>7, <2>1 DEF RejectPatch, Locked, memory
<1>8. QED
  <2> HIDE DEF Calm, Moves
  <2>1. ASSUME PostReserved(q) PROVE Calm /\ Moves
    <3>1. Calm
      BY <2>1 DEF Calm, PostReserved, PostTo, Locked, memory
    <3>2. QED
      BY <1>3, <2>1, <3>1 DEF PostReserved
  <2>2. Calm /\ Moves
    BY <1>1, <1>2, <1>4, <1>5, <1>6, <1>7, <2>1 DEF Client
  <2>3. QED
    BY <1>0, <2>2

\* While the server executes q.
LEMMA HandlerShape ==
  ASSUME TypeOK, NEW q \in Request, Handler(q)
  PROVE  /\ LocalStep(q) /\ KeepsRun(q)
         /\ pc[q] \notin {"idle", "reserved", "viewed", "done", "lost"}
         /\ TryLock(q) \/ AcquirePermit(q) \/ AcquireTimeout(q) \/ ReleasePermit(q) \/ Unlock(q) \/ KeepsPhase(q)
<1> USE DEF LocalStep, KeepsPhase, KeepsRun, Goto, Respond, TypeOK, memory, Locked, Permitted, Local
<1>1. CASE SaveUpload(q)
  <2>1. CASE Respond(q, "422")
    BY <1>1, <2>1, RespondShape DEF SaveUpload
  <2>2. ASSUME NEW i \in Invoice, Goto(q, "lock"),
               req' = [req EXCEPT ![q] = [@ EXCEPT !.command = "start", !.invoice = i]]
        PROVE  LocalStep(q) /\ KeepsRun(q) /\ KeepsPhase(q)
    <3> DEFINE r == [req[q] EXCEPT !.command = "start", !.invoice = i]
    <3>1. LocalStep(q) /\ (pc'[q] = "lock") /\ (req'[q] = r)
      BY <2>2, MoveShape
    <3>2. r.run = req[q].run
      BY DEF Local
    <3> HIDE DEF r
    <3>3. QED
      BY <1>1, <3>1, <3>2 DEF SaveUpload
  <2>3. QED
    BY <1>1, <2>1, <2>2 DEF SaveUpload
<1>2. CASE OpenChannel(q)
  BY <1>2 DEF OpenChannel
<1>3. CASE TryLock(q) \/ AcquirePermit(q) \/ AcquireTimeout(q) \/ ReleasePermit(q) \/ Unlock(q)
  BY <1>3 DEF TryLock, AcquirePermit, AcquireTimeout, ReleasePermit, Unlock
<1>4. CASE Invoke(q)
  BY <1>4 DEF Invoke
<1>5. CASE Classify(q) \/ Extract(q) \/ Validate(q) \/ AwaitReview(q) \/ Complete(q)
  BY <1>5 DEF Classify, Extract, Validate, AwaitReview, Complete, Pending, Returned
<1>6. CASE Raise(q)
  BY <1>6 DEF Raise
<1>7. CASE SaveInvoice(q)
  BY <1>7 DEF SaveInvoice, Pending
<1>8. CASE AppendLedger(q)
  BY <1>8 DEF AppendLedger
<1>9. CASE PublishRunEnd(q) \/ PublishSwallowed(q)
  BY <1>9 DEF PublishRunEnd, PublishSwallowed
<1>10. CASE Answer(q)
  BY <1>10 DEF Answer
<1>11. QED
  BY <1>1, <1>2, <1>3, <1>4, <1>5, <1>6, <1>7, <1>8, <1>9, <1>10 DEF Handler, Execute

-----------------------------------------------------------------------------
(* Invariance of the types *)

TypeInv == TypeOK /\ RunKnown

LEMMA RunKnownStep ==
  ASSUME TypeInv, [Next]_vars
  PROVE  RunKnown'
<1> USE DEF TypeInv
<1>1. ASSUME NEW q \in Request, Client(q)
      PROVE  RunKnown'
  <2>1. /\ LocalStep(q)
        /\ pc'[q] # "done" => \/ req'[q].run \in Run
                              \/ KeepsRun(q) /\ pc[q] \in {"reserved", "viewed"}
    BY <1>1, ClientShape
  <2>2. QED
    BY <2>1 DEF RunKnown, LocalStep, KeepsRun
<1>2. ASSUME NEW q \in Request, Handler(q)
      PROVE  RunKnown'
  <2>1. LocalStep(q) /\ KeepsRun(q) /\ pc[q] \notin {"idle", "done", "lost"}
    BY <1>2, HandlerShape
  <2>2. QED
    BY <2>1 DEF RunKnown, LocalStep, KeepsRun
<1>3. CASE Crash
  BY <1>3 DEF Crash, RunKnown
<1>4. CASE UNCHANGED vars
  BY <1>4 DEF vars, RunKnown
<1>5. QED
  BY <1>1, <1>2, <1>3, <1>4 DEF Next

LEMMA TypeStep ==
  ASSUME TypeInv, [Next]_vars
  PROVE  TypeOK'
<1> USE DEF TypeInv
<1>1. ASSUME NEW q \in Request, Client(q)
      PROVE  TypeOK'
  BY <1>1, ClientType
<1>2. ASSUME NEW q \in Request, Handler(q)
      PROVE  TypeOK'
  BY <1>2, EnterType, ExecuteType, AroundGraphType DEF Handler
<1>3. CASE Crash
  <2>1. pc' \in [Request -> PC]
    BY <1>3 DEF Crash, TypeOK, PC
  <2>2. /\ lock' \in [Run -> Request \cup {NoRequest}]
        /\ permits' \in Nat
        /\ channel' \in [Run -> BOOLEAN]
        /\ cache' \in [Run -> RunStatus \cup {"none"}]
    BY <1>3, BoundAssumption DEF Crash
  <2>3. crashes' \in 0..MaxCrashes
    BY <1>3, BoundAssumption DEF Crash, TypeOK
  <2>4. QED
    BY <1>3, <2>1, <2>2, <2>3 DEF Crash, TypeOK, durable
<1>4. CASE UNCHANGED vars
  BY <1>4 DEF vars, TypeOK, durable, memory, history
<1>5. QED
  BY <1>1, <1>2, <1>3, <1>4 DEF Next

LEMMA TypeInvariant == Spec => []TypeInv
<1>1. Init => TypeInv
  BY InitType DEF Init, TypeInv, RunKnown
<1>2. TypeInv /\ [Next]_vars => TypeInv'
  BY TypeStep, RunKnownStep DEF TypeInv
<1>3. QED
  BY <1>1, <1>2, PTL DEF Spec

\* Type correctness: in every reachable state the checkpoints, the tables, the
\* locks, the cache and every request's locals hold values of their types.
THEOREM TypeCorrect == Spec => []TypeOK
BY TypeInvariant, PTL DEF TypeInv

-----------------------------------------------------------------------------
(* The per-run lock *)

\* What LockDiscipline needs of a step of q that keeps its phase.
LEMMA PhaseKeepsLocks ==
  ASSUME LockDiscipline, NEW q \in Request, LocalStep(q), KeepsPhase(q),
         pc[q] \in Locked => KeepsRun(q)
  PROVE  LockDiscipline'
BY DEF LockDiscipline, LocalStep, KeepsPhase, KeepsRun

LEMMA LockStep ==
  ASSUME TypeInv, LockDiscipline, [Next]_vars
  PROVE  LockDiscipline'
<1> USE DEF TypeInv
<1>1. ASSUME NEW q \in Request, Client(q)
      PROVE  LockDiscipline'
  BY <1>1, ClientShape, PhaseKeepsLocks
<1>2. ASSUME NEW q \in Request, Handler(q)
      PROVE  LockDiscipline'
  <2> DEFINE t == req[q].run
  <2>0. LocalStep(q) /\ KeepsRun(q) /\ t \in Run /\ NoRequest \notin Request
    BY <1>2, HandlerShape, RequestAssumption DEF RunKnown
  <2>1. CASE TryLock(q)
    <3>1. CASE lock[t] = NoRequest
      <4>1. lock' = [lock EXCEPT ![t] = q] /\ (pc'[q] = "semaphore") /\ (pc[q] = "lock")
        BY <2>1, <3>1 DEF TryLock, Goto, TypeOK
      <4>2. \A p \in Request : ~(pc[p] \in Locked /\ req[p].run = t)
        BY <2>0, <3>1 DEF LockDiscipline
      <4>3. ASSUME NEW u \in Run, NEW p \in Request
            PROVE  (lock'[u] = p) <=> (pc'[p] \in Locked /\ req'[p].run = u)
        <5>1. lock'[u] = IF u = t THEN q ELSE lock[u]
          BY <4>1 DEF TypeOK
        <5>2. CASE p = q
          BY <2>0, <4>1, <5>1, <5>2 DEF LockDiscipline, KeepsRun, Locked
        <5>3. CASE p # q
          BY <2>0, <4>2, <5>1, <5>3 DEF LockDiscipline, LocalStep
        <5>4. QED
          BY <5>2, <5>3
      <4>4. QED
        BY <4>3 DEF LockDiscipline
    <3>2. CASE lock[t] # NoRequest
      <4>1. lock' = lock /\ (pc'[q] = "done") /\ (pc[q] = "lock")
        BY <2>1, <3>2, RespondShape DEF TryLock
      <4>2. QED
        BY <2>0, <4>1 DEF LockDiscipline, LocalStep, KeepsRun, Locked
    <3>3. QED
      BY <3>1, <3>2
  <2>2. CASE AcquirePermit(q)
    <3>1. lock' = lock /\ (pc'[q] = "invoke") /\ (pc[q] = "semaphore")
      BY <2>2 DEF AcquirePermit, Goto, TypeOK
    <3>2. QED
      BY <2>0, <3>1 DEF LockDiscipline, LocalStep, KeepsRun, Locked
  <2>6. CASE ReleasePermit(q)
    <3>1. lock' = lock /\ (pc'[q] = "unlock") /\ (pc[q] = "release")
      BY <2>6 DEF ReleasePermit, Goto, TypeOK
    <3>2. QED
      BY <2>0, <3>1 DEF LockDiscipline, LocalStep, KeepsRun, Locked
  <2>3. CASE AcquireTimeout(q) \/ Unlock(q)
    <3>1. /\ lock' = [lock EXCEPT ![t] = NoRequest]
          /\ pc[q] \in Locked /\ pc'[q] \notin Locked
      <4>1. CASE AcquireTimeout(q)
        BY <4>1, RespondShape DEF AcquireTimeout, Locked
      <4>2. CASE Unlock(q)
        BY <4>2 DEF Unlock, Goto, TypeOK, Locked
      <4>3. QED
        BY <2>3, <4>1, <4>2
    <3>2. lock[t] = q
      BY <2>0, <3>1 DEF LockDiscipline
    <3>3. ASSUME NEW u \in Run, NEW p \in Request
          PROVE  (lock'[u] = p) <=> (pc'[p] \in Locked /\ req'[p].run = u)
      <4>1. lock'[u] = IF u = t THEN NoRequest ELSE lock[u]
        BY <3>1 DEF TypeOK
      <4>2. CASE p = q
        BY <2>0, <3>1, <3>2, <4>1, <4>2 DEF LockDiscipline, KeepsRun
      <4>3. CASE p # q
        BY <2>0, <3>2, <4>1, <4>3 DEF LockDiscipline, LocalStep
      <4>4. QED
        BY <4>2, <4>3
    <3>4. QED
      BY <3>3 DEF LockDiscipline
  <2>4. CASE KeepsPhase(q)
    BY <2>0, <2>4, PhaseKeepsLocks
  <2>5. QED
    BY <1>2, <2>1, <2>2, <2>3, <2>4, <2>6, HandlerShape
<1>3. CASE Crash
  BY <1>3, RequestAssumption DEF Crash, LockDiscipline, Locked, TypeOK
<1>4. CASE UNCHANGED vars
  BY <1>4 DEF vars, memory, LockDiscipline
<1>5. QED
  BY <1>1, <1>2, <1>3, <1>4 DEF Next

\* Mutual exclusion per run: the lock of a run is held by exactly the one request
\* executing that run, on every path through _guarded_invoke and over restarts.
THEOREM LockSafety == Spec => []LockDiscipline
<1>1. Init => LockDiscipline
  BY RequestAssumption DEF Init, LockDiscipline, Locked
<1>2. TypeInv /\ LockDiscipline /\ [Next]_vars => LockDiscipline'
  BY LockStep
<1>3. QED
  BY <1>1, <1>2, TypeInvariant, PTL DEF Spec

-----------------------------------------------------------------------------
(* The global semaphore *)

\* The requests that hold a permit.
Holders == {q \in Request : pc[q] \in Permitted}

LEMMA HoldersFinite == IsFiniteSet(Holders) /\ (Cardinality(Holders) \in Nat)
<1>1. Holders \subseteq Request
  BY DEF Holders
<1>2. QED
  BY <1>1, FiniteAssumption, FS_Subset, FS_CardinalityType

\* A step of q that keeps its phase keeps the set of holders.
LEMMA PhaseKeepsPermits ==
  ASSUME PermitsConserved, NEW q \in Request, LocalStep(q),
         permits' = permits, pc'[q] \in Permitted <=> pc[q] \in Permitted
  PROVE  PermitsConserved'
<1>1. Holders' = Holders
  BY DEF Holders, LocalStep
<1>2. QED
  BY <1>1 DEF PermitsConserved, Holders

LEMMA PermitStep ==
  ASSUME TypeInv, PermitsConserved, [Next]_vars
  PROVE  PermitsConserved'
<1> USE DEF TypeInv
<1>1. ASSUME NEW q \in Request, Client(q)
      PROVE  PermitsConserved'
  BY <1>1, ClientShape, PhaseKeepsPermits DEF KeepsPhase
<1>2. ASSUME NEW q \in Request, Handler(q)
      PROVE  PermitsConserved'
  <2>0. LocalStep(q)
    BY <1>2, HandlerShape
  <2>1. CASE TryLock(q)
    <3>1. /\ pc[q] = "lock" /\ permits' = permits
          /\ \/ Goto(q, "semaphore")
             \/ Respond(q, "409")
      BY <2>1 DEF TryLock
    <3>2. pc'[q] \in {"semaphore", "done"}
      BY <3>1, RespondShape DEF Goto, TypeOK
    <3>3. QED
      BY <2>0, <3>1, <3>2, PhaseKeepsPermits DEF Permitted, Locked
  <2>2. CASE AcquirePermit(q)
    <3>1. permits' = permits - 1 /\ pc[q] \notin Permitted /\ pc'[q] \in Permitted
      BY <2>2 DEF AcquirePermit, Goto, TypeOK, Permitted, Locked
    <3>2. Holders' = Holders \cup {q} /\ q \notin Holders
      BY <2>0, <3>1 DEF Holders, LocalStep
    <3>3. Cardinality(Holders') = Cardinality(Holders) + 1
      BY <3>2, HoldersFinite, FS_AddElement
    <3>4. QED
      BY <3>1, <3>3, HoldersFinite DEF PermitsConserved, Holders, TypeOK
  <2>3. CASE AcquireTimeout(q)
    <3>1. permits' = permits /\ pc[q] \notin Permitted /\ pc'[q] \notin Permitted
      BY <2>3, RespondShape DEF AcquireTimeout, Permitted, Locked
    <3>2. QED
      BY <2>0, <3>1, PhaseKeepsPermits
  <2>7. CASE Unlock(q)
    <3>1. permits' = permits /\ pc[q] \notin Permitted /\ pc'[q] \notin Permitted
      BY <2>7 DEF Unlock, Goto, TypeOK, Permitted, Locked
    <3>2. QED
      BY <2>0, <3>1, PhaseKeepsPermits
  <2>4. CASE ReleasePermit(q)
    <3>1. permits' = permits + 1 /\ pc[q] \in Permitted /\ pc'[q] \notin Permitted
      BY <2>4 DEF ReleasePermit, Goto, TypeOK, Permitted, Locked
    <3>2. Holders' = Holders \ {q} /\ q \in Holders
      BY <2>0, <3>1 DEF Holders, LocalStep
    <3>3. Cardinality(Holders') = Cardinality(Holders) - 1
      BY <3>2, HoldersFinite, FS_RemoveElement
    <3>4. QED
      BY <3>1, <3>3, HoldersFinite DEF PermitsConserved, Holders, TypeOK
  <2>5. CASE KeepsPhase(q)
    BY <2>0, <2>5, PhaseKeepsPermits DEF KeepsPhase
  <2>6. QED
    BY <1>2, <2>1, <2>2, <2>3, <2>4, <2>5, <2>7, HandlerShape
<1>3. CASE Crash
  <2>1. Holders' = {} /\ permits' = MaxConcurrency
    BY <1>3 DEF Crash, Holders, Permitted, Locked
  <2>2. QED
    BY <2>1, FS_EmptySet, BoundAssumption DEF PermitsConserved, Holders
<1>4. CASE UNCHANGED vars
  BY <1>4 DEF vars, memory, PermitsConserved
<1>5. QED
  BY <1>1, <1>2, <1>3, <1>4 DEF Next

\* The semaphore never leaks or invents a permit: free permits and requests
\* inside graph.invoke() always add up to max_concurrency.
THEOREM PermitSafety == Spec => []PermitsConserved
<1>1. Init => PermitsConserved
  <2>1. ASSUME Init PROVE Holders = {} /\ permits = MaxConcurrency
    BY <2>1 DEF Init, Holders, Permitted, Locked
  <2>2. QED
    BY <2>1, FS_EmptySet, BoundAssumption DEF PermitsConserved, Holders
<1>2. TypeInv /\ PermitsConserved /\ [Next]_vars => PermitsConserved'
  BY PermitStep
<1>3. QED
  BY <1>1, <1>2, TypeInvariant, PTL DEF Spec

-----------------------------------------------------------------------------
(* The one-shot status cache *)

\* Where a handler's checkpoint writes may be newer than the cache.
Unpublished == InGraph \cup {"publish"}

\* A run's cached status is current unless some handler has yet to publish it.
CacheInv ==
  \A t \in Run : (\A q \in Request : pc[q] \in Unpublished => req[q].run # t) =>
    cache[t] \in {"none", Status(t)}

\* What CacheInv needs of a step of q that leaves the other runs alone.
LEMMA CacheFrame ==
  ASSUME TypeInv, CacheInv, NEW q \in Request, LocalStep(q),
         pc[q] \in Unpublished \/ pc'[q] \in Unpublished => KeepsRun(q) /\ req[q].run \in Run,
         \A u \in Run : \/ /\ ck'[u] = ck[u] /\ cache'[u] = cache[u]
                           /\ pc[q] \notin Unpublished \/ req[q].run # u
                        \/ pc'[q] \in Unpublished /\ req'[q].run = u
                        \/ cache'[u] \in {"none", DeriveStatus(ck'[u])}
  PROVE  CacheInv'
<1>1. ASSUME NEW u \in Run, \A p \in Request : pc'[p] \in Unpublished => req'[p].run # u
      PROVE  cache'[u] \in {"none", Status(u)'}
  <2>1. CASE /\ ck'[u] = ck[u] /\ cache'[u] = cache[u]
             /\ pc[q] \notin Unpublished \/ req[q].run # u
    <3>1. \A p \in Request : pc[p] \in Unpublished => req[p].run # u
      BY <1>1, <2>1 DEF LocalStep
    <3>2. Status(u)' = Status(u)
      BY <2>1 DEF Status
    <3>3. QED
      BY <2>1, <3>1, <3>2 DEF CacheInv
  <2>2. QED
    BY <1>1, <2>1 DEF Status
<1>2. QED
  BY <1>1 DEF CacheInv

LEMMA CacheStep ==
  ASSUME MaxUnreadable = 0, TypeInv, CacheInv, [Next]_vars
  PROVE  CacheInv'
<1> USE DEF TypeInv
<1>1. ASSUME NEW q \in Request, Client(q)
      PROVE  CacheInv'
  <2>1. UNCHANGED <<ck, cache>>
    BY <1>1 DEF Client, Reserve, PostFresh, Repost, PostReserved, PostTo, View, ReadSnapshot,
      RejectPatch, durable, memory
  <2>2. LocalStep(q) /\ pc[q] \notin Unpublished /\ pc'[q] \notin Unpublished
    BY <1>1, ClientShape DEF KeepsPhase, Locked, Unpublished, InGraph
  <2>3. QED
    BY <2>1, <2>2, CacheFrame
<1>2. ASSUME NEW q \in Request, Handler(q)
      PROVE  CacheInv'
  <2> DEFINE t == req[q].run
  <2>0. LocalStep(q) /\ KeepsRun(q) /\ t \in Run
    BY <1>2, HandlerShape DEF RunKnown
  <2>1. ASSUME UNCHANGED <<ck, cache>>, pc[q] \notin Unpublished
        PROVE  CacheInv'
    BY <2>0, <2>1, CacheFrame
  <2>2. ASSUME NEW a, Respond(q, a)
        PROVE  pc'[q] = "done"
    BY <2>2 DEF Respond, Goto, TypeOK
  <2>3. CASE \/ SaveUpload(q) \/ OpenChannel(q) \/ TryLock(q) \/ AcquirePermit(q)
             \/ AcquireTimeout(q) \/ ReleasePermit(q) \/ Unlock(q)
    BY <2>1, <2>3 DEF SaveUpload, OpenChannel, TryLock, AcquirePermit, AcquireTimeout, ReleasePermit, Unlock,
      durable, memory, Unpublished, InGraph
  <2>4. ASSUME \A u \in Run \ {t} : ck'[u] = ck[u], cache' = cache, pc'[q] \in Unpublished
        PROVE  CacheInv'
    BY <2>0, <2>4, CacheFrame DEF KeepsRun
  <2>5. CASE Invoke(q)
    BY <2>4, <2>5 DEF Invoke, Goto, TypeOK, memory, Unpublished, InGraph
  <2>6. CASE Execute(q)
    <3>1. \A u \in Run \ {t} : ck'[u] = ck[u]
      BY <2>6 DEF Execute, Classify, Extract, Validate, AwaitReview, Raise, SaveInvoice,
        AppendLedger, Complete, Returned, TypeOK
    <3>2. cache' = cache
      BY <2>6 DEF Execute, Classify, Extract, Validate, AwaitReview, Raise, SaveInvoice,
        AppendLedger, Complete, memory
    <3>3. pc'[q] \in {"node", "publish", "ledger", "commit"}
      BY <2>6 DEF Execute, Classify, Extract, Validate, AwaitReview, Raise, SaveInvoice,
        AppendLedger, Complete, Returned, Goto, TypeOK
    <3>4. QED
      BY <2>4, <3>1, <3>2, <3>3 DEF Unpublished, InGraph
  <2>7. CASE PublishRunEnd(q)
    <3>1. ck' = ck /\ cache' = [cache EXCEPT ![t] = Status(t)]
      BY <2>7 DEF PublishRunEnd, durable
    <3>2. cache'[t] = DeriveStatus(ck'[t]) /\ \A u \in Run \ {t} : cache'[u] = cache[u]
      BY <2>0, <3>1 DEF TypeOK, Status
    <3>3. QED
      BY <2>0, <3>1, <3>2, CacheFrame
  <2>8. CASE Answer(q)
    <3>1. /\ pc[q] \notin Unpublished /\ pc'[q] = "done" /\ ck' = ck
          /\ \A u \in Run : cache'[u] = cache[u] \/ cache'[u] = "none"
      BY <2>2, <2>8 DEF Answer, durable, TypeOK, Unpublished, InGraph
    <3>2. QED
      BY <2>0, <3>1, CacheFrame
  <2>9. ~PublishSwallowed(q)
    BY DEF PublishSwallowed, TypeOK
  <2>10. QED
    BY <1>2, <2>3, <2>5, <2>6, <2>7, <2>8, <2>9 DEF Handler
<1>3. CASE Crash
  BY <1>3 DEF Crash, CacheInv
<1>4. CASE UNCHANGED vars
  BY <1>4 DEF vars, durable, memory, CacheInv, Status
<1>5. QED
  BY <1>1, <1>2, <1>3, <1>4 DEF Next

\* The answer built from the one-shot cache is the run's current status whenever
\* no other handler has taken the run over (service.py, _current_status), as long
\* as no checkpoint read of _publish_run_end fails.
THEOREM ServedStatusSafety ==
  ASSUME MaxUnreadable = 0
  PROVE  Spec => []ServedStatusIsCurrent
<1>1. Init => CacheInv
  BY DEF Init, CacheInv
<1>2. TypeInv /\ CacheInv /\ [Next]_vars => CacheInv'
  BY CacheStep
<1>3. TypeInv /\ LockDiscipline /\ CacheInv => ServedStatusIsCurrent
  <2>1. SUFFICES ASSUME TypeInv, LockDiscipline, CacheInv, NEW q \in Request,
                        pc[q] = "respond", lock[req[q].run] = NoRequest
                 PROVE  cache[req[q].run] \in {"none", Status(req[q].run)}
    BY DEF ServedStatusIsCurrent
  <2>2. req[q].run \in Run
    BY <2>1 DEF TypeInv, RunKnown
  <2>3. \A p \in Request : pc[p] \in Unpublished => req[p].run # req[q].run
    BY <2>1, <2>2, RequestAssumption DEF LockDiscipline, Unpublished, InGraph, Locked
  <2>4. QED
    BY <2>1, <2>2, <2>3 DEF CacheInv
<1>4. QED
  BY <1>1, <1>2, <1>3, TypeInvariant, LockSafety, PTL DEF Spec

-----------------------------------------------------------------------------
(* The form of a checkpoint *)

\* A node only ever becomes pending together with the data it reads, and output
\* together with a verdict on that very data.
Formed(c) ==
  /\ c.next \in {"router", "extractor"} => c.file \in Invoice
  /\ c.next \in {"validator", "human_review", "output"} => c.invoice \in Invoice
  /\ c.next = "output" => c.validated = c.invoice
  /\ c.interrupted => c.next = "human_review"

\* A request that starts a run or edits an invoice carries an invoice.
Armed(r) == r.command \in {"start", "edit"} => r.invoice \in Invoice

FormInv ==
  /\ TypeInv
  /\ \A t \in Run : Formed(ck[t])
  /\ \A q \in Request : Armed(req[q])

LEMMA NodesKeepForm ==
  ASSUME NEW c \in Checkpoint, Formed(c)
  PROVE  /\ \A i \in Invoice : Formed(Started(c, i))
         /\ c.next = "router" => \A d \in {"invoice", "other"} : Formed(RouterReturns(c, d))
         /\ c.next = "extractor" => Formed(ExtractorReturns(c))
         /\ c.next = "validator" => \A b \in BOOLEAN : Formed(ValidatorReturns(c, b))
         /\ c.next = "human_review" => Formed(HumanReviewInterrupts(c))
         /\ \A i \in Invoice : Formed(HumanReviewEdited(c, i))
         /\ c.interrupted => Formed(HumanReviewApproved(c))
         /\ \A l \in {"none", "written", "failed"} : Formed(OutputReturns(c, l))
         /\ Formed(NodeRaised(c))
<1> USE DEF Checkpoint, Formed, Node
<1>1. \A i \in Invoice : Formed(Started(c, i))
  BY DEF Started, Advance
<1>2. c.next = "router" => \A d \in {"invoice", "other"} : Formed(RouterReturns(c, d))
  <2>1. Formed(RouterReturns(c, "other"))
    BY DEF RouterReturns, Advance, RouteAfterClassification
  <2>2. c.next = "router" => Formed(RouterReturns(c, "invoice"))
    BY DEF RouterReturns, Advance, RouteAfterClassification
  <2>3. QED
    BY <2>1, <2>2
<1>3. c.next = "extractor" => Formed(ExtractorReturns(c))
  BY DEF ExtractorReturns, Advance
<1>4. ASSUME c.next = "validator", NEW b \in BOOLEAN
      PROVE  Formed(ValidatorReturns(c, b))
  <2> DEFINE r == ValidatorReturns(c, b)
  <2>1. /\ r.next \in {"human_review", "output"} /\ ~r.interrupted
        /\ r.validated = c.invoice /\ r.invoice = c.invoice
    <3> DEFINE next == RouteAfterValidation(b, c.approved)
    <3>1. next \in {"human_review", "output"}
      BY DEF RouteAfterValidation
    <3> HIDE DEF next
    <3>2. /\ r.next = next /\ ~r.interrupted
          /\ r.validated = c.invoice /\ r.invoice = c.invoice
      BY DEF ValidatorReturns, Advance, next
    <3>3. QED
      BY <3>1, <3>2
  <2> HIDE DEF r
  <2>2. QED
    BY <1>4, <2>1 DEF r
<1>5. c.next = "human_review" => Formed(HumanReviewInterrupts(c))
  BY DEF HumanReviewInterrupts
<1>6. \A i \in Invoice : Formed(HumanReviewEdited(c, i))
  BY DEF HumanReviewEdited, Advance
<1>7. c.interrupted => Formed(HumanReviewApproved(c))
  BY DEF HumanReviewApproved, Advance
<1>8. \A l \in {"none", "written", "failed"} : Formed(OutputReturns(c, l))
  BY DEF OutputReturns, Advance
<1>9. Formed(NodeRaised(c))
  BY DEF NodeRaised
<1>10. QED
  BY <1>1, <1>2, <1>3, <1>4, <1>5, <1>6, <1>7, <1>8, <1>9

\* graph.invoke() called with what an armed request carries.
LEMMA InvokedKeepsForm ==
  ASSUME NEW c \in Checkpoint, Formed(c), NEW r \in Local, Armed(r)
  PROVE  Formed(Invoked(c, r.command, r.invoice))
<1>1. CASE r.command = "start"
  BY <1>1, NodesKeepForm DEF Invoked, Armed
<1>2. CASE r.command = "edit"
  BY <1>2, NodesKeepForm DEF Invoked, Armed
<1>3. CASE r.command = "approve"
  BY <1>3, NodesKeepForm DEF Invoked
<1>4. CASE r.command \notin {"start", "edit", "approve"}
  BY <1>4 DEF Invoked
<1>5. QED
  BY <1>1, <1>2, <1>3, <1>4

\* A client's step leaves every checkpoint alone and sends armed requests only.
LEMMA ClientKeepsForm ==
  ASSUME FormInv, NEW q \in Request, Client(q)
  PROVE  ck' = ck /\ Armed(req'[q])
<1> USE DEF FormInv, TypeInv
<1>0. Armed(req[q]) /\ req[q] \in Local
  BY DEF TypeOK
<1>1. ASSUME NEW t, \/ req' = [req EXCEPT ![q].run = t]
                    \/ \E a : Respond(q, a)
                    \/ req' = req
      PROVE  Armed(req'[q])
  <2>1. req'[q].command = req[q].command /\ req'[q].invoice = req[q].invoice
    <3>1. CASE req' = [req EXCEPT ![q].run = t]
      BY <1>0, <3>1 DEF TypeOK, Local
    <3>2. ASSUME NEW a, Respond(q, a)
          PROVE  req'[q].command = req[q].command /\ req'[q].invoice = req[q].invoice
      BY <1>0, <3>2 DEF Respond, TypeOK, Local
    <3>3. QED
      BY <1>1, <3>1, <3>2
  <2>2. QED
    BY <1>0, <2>1 DEF Armed
<1>2. ASSUME NEW t \in Run, Reserve(q, t) \/ PostFresh(q, t) \/ Repost(q, t)
      PROVE  ck' = ck /\ Armed(req'[q])
  BY <1>1, <1>2 DEF Reserve, PostFresh, Repost, PostTo, durable
<1>3. ASSUME PostReserved(q) \/ RejectPatch(q)
      PROVE  ck' = ck /\ Armed(req'[q])
  BY <1>1, <1>3 DEF PostReserved, PostTo, RejectPatch, durable
<1>4. ASSUME NEW t \in Run, View(q, t)
      PROVE  ck' = ck /\ Armed(req'[q])
  <2> DEFINE shown == IF Status(t) = "needs_review" THEN ck[t].invoice ELSE NoInvoice
             r == [req[q] EXCEPT !.run = t, !.shown = shown]
  <2>1. req'[q] = r
    BY <1>4, MoveShape DEF View
  <2>2. r.command = req[q].command /\ r.invoice = req[q].invoice
    BY <1>0 DEF Local
  <2> HIDE DEF r
  <2>3. QED
    BY <1>0, <1>4, <2>1, <2>2 DEF View, Armed, durable
<1>5. ASSUME NEW body \in MaybeInvoice, ReadSnapshot(q, body)
      PROVE  ck' = ck /\ Armed(req'[q])
  <2>1. ASSUME NEW a, Respond(q, a)
        PROVE  Armed(req'[q])
    BY <1>1, <2>1
  <2>2. ASSUME NEW command, NEW edited, Resume(q, command, edited, body),
               command # "start", command = "edit" => edited \in Invoice
        PROVE  Armed(req'[q])
    <3> DEFINE vouched == IF body = NoInvoice THEN req[q].shown ELSE body
               r == [req[q] EXCEPT !.command = command, !.invoice = edited, !.vouched = vouched]
    <3>1. req'[q] = r
      BY <2>2, MoveShape DEF Resume
    <3>2. r.command = command /\ r.invoice = edited
      BY <1>0 DEF Local
    <3> HIDE DEF r
    <3>3. QED
      BY <2>2, <3>1, <3>2 DEF Armed
  <2>3. body \notin {NoInvoice, ck[req[q].run].invoice} => body \in Invoice
    BY DEF MaybeInvoice
  <2>4. QED
    BY <1>5, <2>1, <2>2, <2>3 DEF ReadSnapshot, durable
<1>6. QED
  BY <1>2, <1>3, <1>4, <1>5 DEF Client

\* A handler's step replaces the checkpoint of its own run by a formed one, or
\* leaves all of them alone.
LEMMA HandlerKeepsForm ==
  ASSUME FormInv, NEW q \in Request, Handler(q)
  PROVE  /\ \A t \in Run : Formed(ck'[t])
         /\ Armed(req'[q])
<1> USE DEF FormInv, TypeInv
<1> DEFINE t == req[q].run
           c == ck[t]
<1>0. /\ Armed(req[q]) /\ req[q] \in Local
      /\ t \in Run /\ c \in Checkpoint /\ Formed(c)
  BY HandlerShape DEF RunKnown, TypeOK
<1>1. ASSUME NEW d, ck' = [ck EXCEPT ![t] = d], Formed(d)
      PROVE  \A u \in Run : Formed(ck'[u])
  BY <1>1 DEF TypeOK
<1>2. ASSUME req'[q].command = req[q].command, req'[q].invoice = req[q].invoice
      PROVE  Armed(req'[q])
  BY <1>0, <1>2 DEF Armed
<1>3. CASE SaveUpload(q)
  <2>1. CASE Respond(q, "422")
    BY <1>0, <1>3, <2>1 DEF SaveUpload, Respond, Armed, TypeOK, Local, durable
  <2>2. ASSUME NEW i \in Invoice, req' = [req EXCEPT ![q] = [@ EXCEPT !.command = "start", !.invoice = i]]
        PROVE  Armed(req'[q])
    <3>1. req'[q] = [req[q] EXCEPT !.command = "start", !.invoice = i]
      BY <2>2 DEF TypeOK
    <3>2. QED
      BY <1>0, <3>1 DEF Armed, Local
  <2>3. QED
    BY <1>3, <2>1, <2>2 DEF SaveUpload, durable
<1>4. CASE \/ OpenChannel(q) \/ TryLock(q) \/ AcquirePermit(q) \/ AcquireTimeout(q)
           \/ PublishRunEnd(q) \/ PublishSwallowed(q) \/ ReleasePermit(q) \/ Unlock(q) \/ Answer(q)
           \/ AppendLedger(q)
  <2>1. ck' = ck
    BY <1>4 DEF OpenChannel, TryLock, AcquirePermit, AcquireTimeout, PublishRunEnd,
      PublishSwallowed, ReleasePermit, Unlock, Answer, AppendLedger, durable
  <2>2. req'[q].command = req[q].command /\ req'[q].invoice = req[q].invoice
    BY <1>0, <1>4 DEF OpenChannel, TryLock, AcquirePermit, AcquireTimeout, PublishRunEnd,
      PublishSwallowed, ReleasePermit, Unlock, Answer, AppendLedger, Respond, TypeOK, Local
  <2>3. QED
    BY <1>2, <2>1, <2>2
<1>5. CASE Invoke(q)
  <2>1. Formed(Invoked(c, req[q].command, req[q].invoice))
    BY <1>0, InvokedKeepsForm
  <2>2. ck' = [ck EXCEPT ![t] = Invoked(c, req[q].command, req[q].invoice)] /\ req' = req
    BY <1>5 DEF Invoke
  <2>3. QED
    BY <1>0, <1>1, <2>1, <2>2
<1>6. CASE \/ Classify(q) \/ Extract(q) \/ Validate(q) \/ AwaitReview(q) \/ Complete(q)
  <2>1. PICK d : Returned(q, d) /\ Formed(d)
    <3>1. req[q].ledger \in {"none", "written", "failed"}
      BY <1>0 DEF Local
    <3>2. QED
      BY <1>0, <1>6, <3>1, NodesKeepForm
      DEF Classify, Extract, Validate, AwaitReview, Complete, Pending
  <2>2. req' = req
    BY <1>6 DEF Classify, Extract, Validate, AwaitReview, Complete
  <2>3. QED
    BY <1>0, <1>1, <2>1, <2>2 DEF Returned
<1>7. CASE Raise(q) \/ SaveInvoice(q)
  <2>1. Formed(NodeRaised(c))
    BY <1>0, NodesKeepForm
  <2>2. ck' = ck \/ ck' = [ck EXCEPT ![t] = NodeRaised(c)]
    BY <1>7 DEF Raise, SaveInvoice
  <2>3. req' = req \/ req' = [req EXCEPT ![q].raised = TRUE]
    BY <1>7 DEF Raise, SaveInvoice
  <2>4. req'[q].command = req[q].command /\ req'[q].invoice = req[q].invoice
    BY <1>0, <2>3 DEF TypeOK, Local
  <2>5. QED
    BY <1>1, <1>2, <2>1, <2>2, <2>4
<1>8. QED
  BY <1>3, <1>4, <1>5, <1>6, <1>7 DEF Handler, Execute

LEMMA FormStep ==
  ASSUME FormInv, [Next]_vars
  PROVE  FormInv'
<1>0. TypeInv'
  BY TypeStep, RunKnownStep DEF FormInv, TypeInv
<1>1. ASSUME NEW q \in Request, Client(q) \/ Handler(q)
      PROVE  /\ \A t \in Run : Formed(ck'[t])
             /\ \A p \in Request : Armed(req'[p])
  <2>1. LocalStep(q)
    BY <1>1, ClientShape, HandlerShape DEF FormInv, TypeInv
  <2>2. (\A t \in Run : Formed(ck'[t])) /\ Armed(req'[q])
    BY <1>1, ClientKeepsForm, HandlerKeepsForm DEF FormInv
  <2>3. QED
    BY <2>1, <2>2 DEF LocalStep, FormInv
<1>2. CASE Crash \/ UNCHANGED vars
  <2>1. ck' = ck /\ req' = req
    BY <1>2 DEF Crash, vars, durable
  <2>2. QED
    BY <1>0, <2>1 DEF FormInv
<1>3. QED
  BY <1>0, <1>1, <1>2 DEF Next, FormInv

LEMMA FormInvariant == Spec => []FormInv
<1>1. Init => TypeInv
  BY InitType DEF Init, TypeInv, RunKnown
<1>2. Init => FormInv
  BY <1>1 DEF Init, FormInv, Formed, Armed, NoCheckpoint, FreshLocal
<1>3. FormInv /\ [Next]_vars => FormInv'
  BY FormStep
<1>4. QED
  BY <1>2, <1>3, PTL DEF Spec

\* output() never runs on an invoice other than the one the validator last
\* checked: the edge human_review -> validator, the restart of a thread by a
\* second start and the retry of a failed node all preserve it.
THEOREM FinalFormSafety == Spec => []ValidatedOnFinalForm
<1>1. FormInv => ValidatedOnFinalForm
  BY DEF FormInv, Formed, ValidatedOnFinalForm
<1>2. QED
  BY <1>1, FormInvariant, PTL

-----------------------------------------------------------------------------
(* The order of output()'s writes *)

\* Where a request stands between the two writes, and what it must report.
WriteInv ==
  /\ LedgerOnlyAfterSave
  /\ \A q \in Request :
       /\ pc[q] \in {"ledger", "commit"} => db[req[q].run].invoice \in Invoice
       /\ pc[q] = "commit" /\ req[q].ledger = "written" => ledger[req[q].run] # <<>>

\* The tables only ever gain data.
TablesGrow ==
  \A t \in Run :
    /\ db[t].invoice \in Invoice => db'[t].invoice \in Invoice
    /\ ledger[t] # <<>> => ledger'[t] # <<>>

\* The graph's other nodes do not touch the outcome of the ledger write.
LEMMA NodesKeepLedgerStatus ==
  ASSUME NEW c \in Checkpoint
  PROVE  /\ \A d : RouterReturns(c, d).ledger_status = c.ledger_status
         /\ ExtractorReturns(c).ledger_status = c.ledger_status
         /\ \A b : ValidatorReturns(c, b).ledger_status = c.ledger_status
         /\ HumanReviewInterrupts(c).ledger_status = c.ledger_status
         /\ NodeRaised(c).ledger_status = c.ledger_status
         /\ \A command, i : Invoked(c, command, i).ledger_status = c.ledger_status
         /\ \A l : OutputReturns(c, l).ledger_status = l
<1> USE DEF Checkpoint, Advance
<1>1. \A d : RouterReturns(c, d).ledger_status = c.ledger_status
  BY DEF RouterReturns
<1>2. ExtractorReturns(c).ledger_status = c.ledger_status
  BY DEF ExtractorReturns
<1>3. \A b : ValidatorReturns(c, b).ledger_status = c.ledger_status
  BY DEF ValidatorReturns
<1>4. HumanReviewInterrupts(c).ledger_status = c.ledger_status
  BY DEF HumanReviewInterrupts
<1>5. NodeRaised(c).ledger_status = c.ledger_status
  BY DEF NodeRaised
<1>6. \A command, i : Invoked(c, command, i).ledger_status = c.ledger_status
  <2>1. \A i : /\ Started(c, i).ledger_status = c.ledger_status
               /\ HumanReviewEdited(c, i).ledger_status = c.ledger_status
               /\ HumanReviewApproved(c).ledger_status = c.ledger_status
    BY DEF Started, HumanReviewEdited, HumanReviewApproved
  <2>2. QED
    BY <2>1 DEF Invoked
<1>7. \A l : OutputReturns(c, l).ledger_status = l
  BY DEF OutputReturns
<1>8. QED
  BY <1>1, <1>2, <1>3, <1>4, <1>5, <1>6, <1>7

\* A step of q that writes neither table and does not enter the ledger phase.
LEMMA QuietStep ==
  ASSUME FormInv, WriteInv, NEW q \in Request, LocalStep(q),
         UNCHANGED <<db, ledger>>, pc'[q] \notin {"ledger", "commit"},
         \A t \in Run : ck'[t].ledger_status = "written" => ck[t].ledger_status = "written"
  PROVE  WriteInv'
BY DEF WriteInv, LedgerOnlyAfterSave, LocalStep

LEMMA HandlerKeepsWrites ==
  ASSUME FormInv, WriteInv, NEW q \in Request, Handler(q)
  PROVE  WriteInv'
<1> USE DEF FormInv, TypeInv
<1> DEFINE t == req[q].run
           c == ck[t]
<1>0. /\ LocalStep(q) /\ KeepsRun(q) /\ t \in Run /\ c \in Checkpoint /\ Formed(c)
      /\ req[q] \in Local
  BY HandlerShape DEF RunKnown, TypeOK
<1>1. ASSUME NEW d, ck' = [ck EXCEPT ![t] = d], d.ledger_status = c.ledger_status
      PROVE  \A u \in Run : ck'[u].ledger_status = "written" => ck[u].ledger_status = "written"
  BY <1>1 DEF TypeOK
<1>2. CASE \/ SaveUpload(q) \/ OpenChannel(q) \/ TryLock(q) \/ AcquirePermit(q)
           \/ AcquireTimeout(q) \/ PublishRunEnd(q) \/ PublishSwallowed(q) \/ ReleasePermit(q) \/ Unlock(q)
           \/ Answer(q)
  <2>1. UNCHANGED <<ck, db, ledger>>
    BY <1>2 DEF SaveUpload, OpenChannel, TryLock, AcquirePermit, AcquireTimeout,
      PublishRunEnd, PublishSwallowed, ReleasePermit, Unlock, Answer, durable
  <2>2. pc'[q] \notin {"ledger", "commit"}
    BY <1>2 DEF SaveUpload, OpenChannel, TryLock, AcquirePermit, AcquireTimeout,
      PublishRunEnd, PublishSwallowed, ReleasePermit, Unlock, Answer, Goto, Respond, TypeOK
  <2>3. QED
    BY <1>0, <2>1, <2>2, QuietStep
<1>3. CASE \/ Invoke(q) \/ Classify(q) \/ Extract(q) \/ Validate(q) \/ AwaitReview(q)
           \/ Raise(q)
  <2>1. UNCHANGED <<db, ledger>> /\ pc'[q] \notin {"ledger", "commit"}
    BY <1>3 DEF Invoke, Classify, Extract, Validate, AwaitReview, Raise, Returned, Goto, TypeOK
  <2>2. PICK d : ck' = [ck EXCEPT ![t] = d] /\ d.ledger_status = c.ledger_status
    BY <1>0, <1>3, NodesKeepLedgerStatus
    DEF Invoke, Classify, Extract, Validate, AwaitReview, Raise, Returned
  <2>3. QED
    BY <1>0, <1>1, <2>1, <2>2, QuietStep
<1>4. CASE SaveInvoice(q)
  <2>1. c.invoice \in Invoice
    BY <1>0, <1>4 DEF SaveInvoice, Pending, Formed
  <2>2. db'[t].invoice \in Invoice /\ TablesGrow /\ ledger' = ledger
    BY <1>0, <1>4, <2>1 DEF SaveInvoice, TablesGrow, TypeOK
  <2>3. pc'[q] \in {"ledger", "publish"}
    BY <1>4 DEF SaveInvoice, Goto, TypeOK
  <2>4. \A u \in Run : ck'[u].ledger_status = "written" => ck[u].ledger_status = "written"
    BY <1>0, <1>1, <1>4, NodesKeepLedgerStatus DEF SaveInvoice
  <2>5. LedgerOnlyAfterSave'
    BY <2>2, <2>4 DEF WriteInv, LedgerOnlyAfterSave, TablesGrow
  <2>6. ASSUME NEW p \in Request
        PROVE  /\ pc'[p] \in {"ledger", "commit"} => db'[req'[p].run].invoice \in Invoice
               /\ pc'[p] = "commit" /\ req'[p].ledger = "written" => ledger'[req'[p].run] # <<>>
    <3>1. CASE p = q
      BY <1>0, <2>2, <2>3, <3>1 DEF KeepsRun
    <3>2. CASE p # q
      <4>1. pc'[p] = pc[p] /\ req'[p] = req[p]
        BY <1>0, <3>2 DEF LocalStep
      <4>2. pc[p] \in {"ledger", "commit"} => req[p].run \in Run
        BY DEF RunKnown
      <4>3. QED
        BY <2>2, <4>1, <4>2 DEF WriteInv, TablesGrow
    <3>3. QED
      BY <3>1, <3>2
  <2>7. QED
    BY <2>5, <2>6 DEF WriteInv
<1>5. CASE AppendLedger(q)
  <2>1. PICK landed \in BOOLEAN, outcome \in {"written", "failed"} :
          /\ outcome = "written" => landed
          /\ ledger' = IF landed
                       THEN [ledger EXCEPT ![t] = Append(ledger[t], c.invoice)]
                       ELSE ledger
          /\ req' = [req EXCEPT ![q].ledger = outcome]
    BY <1>5 DEF AppendLedger
  <2>2. /\ db[t].invoice \in Invoice /\ ck' = ck /\ db' = db
        /\ pc[q] = "ledger" /\ pc'[q] = "commit"
    BY <1>5 DEF AppendLedger, WriteInv, Goto, TypeOK
  <2>3. Append(ledger[t], c.invoice) # <<>>
    <3>1. ledger[t] \in Seq(MaybeInvoice) /\ c.invoice \in MaybeInvoice
      BY <1>0 DEF TypeOK, Checkpoint, MaybeInvoice
    <3>2. QED
      BY <3>1, AppendProperties
  <2>4. TablesGrow /\ (req'[q].ledger = "written" => ledger'[t] # <<>>)
    BY <1>0, <2>1, <2>2, <2>3 DEF TablesGrow, TypeOK, Local
  <2>5. LedgerOnlyAfterSave'
    <3>1. \A u \in Run : u # t => ledger'[u] = ledger[u]
      BY <2>1 DEF TypeOK
    <3>2. QED
      BY <2>2, <2>4, <3>1 DEF WriteInv, LedgerOnlyAfterSave, TablesGrow
  <2>6. ASSUME NEW p \in Request
        PROVE  /\ pc'[p] \in {"ledger", "commit"} => db'[req'[p].run].invoice \in Invoice
               /\ pc'[p] = "commit" /\ req'[p].ledger = "written" => ledger'[req'[p].run] # <<>>
    <3>1. CASE p = q
      BY <1>0, <2>2, <2>4, <3>1 DEF KeepsRun
    <3>2. CASE p # q
      <4>1. pc'[p] = pc[p] /\ req'[p] = req[p]
        BY <1>0, <3>2 DEF LocalStep
      <4>2. pc[p] \in {"ledger", "commit"} => req[p].run \in Run
        BY DEF RunKnown
      <4>3. QED
        BY <2>2, <2>4, <4>1, <4>2 DEF WriteInv, TablesGrow
    <3>3. QED
      BY <3>1, <3>2
  <2>7. QED
    BY <2>5, <2>6 DEF WriteInv
<1>6. CASE Complete(q)
  <2>1. /\ UNCHANGED <<db, ledger, req>> /\ pc[q] = "commit"
        /\ Returned(q, OutputReturns(c, req[q].ledger))
    BY <1>6 DEF Complete
  <2>2. pc'[q] \notin {"ledger", "commit"}
    BY <2>1 DEF Returned, Goto, TypeOK
  <2>3. \A u \in Run : ck'[u].ledger_status = IF u = t THEN req[q].ledger ELSE ck[u].ledger_status
    BY <1>0, <2>1, NodesKeepLedgerStatus DEF Returned, TypeOK
  <2>4. LedgerOnlyAfterSave'
    BY <2>1, <2>3 DEF WriteInv, LedgerOnlyAfterSave
  <2>5. QED
    BY <1>0, <2>1, <2>2, <2>4 DEF WriteInv, LocalStep
<1>7. QED
  BY <1>2, <1>3, <1>4, <1>5, <1>6 DEF Handler, Execute

LEMMA WriteStep ==
  ASSUME FormInv, WriteInv, [Next]_vars
  PROVE  WriteInv'
<1>1. ASSUME NEW q \in Request, Client(q)
      PROVE  WriteInv'
  <2>1. LocalStep(q) /\ pc'[q] \notin {"ledger", "commit"} /\ ck' = ck
    BY <1>1, ClientShape, ClientKeepsForm DEF FormInv, TypeInv, KeepsPhase, Locked
  <2>2. UNCHANGED <<db, ledger>>
    BY <1>1 DEF Client, Reserve, PostFresh, Repost, PostReserved, PostTo, View, ReadSnapshot,
      RejectPatch, durable
  <2>3. QED
    BY <2>1, <2>2, QuietStep
<1>2. ASSUME NEW q \in Request, Handler(q)
      PROVE  WriteInv'
  BY <1>2, HandlerKeepsWrites
<1>3. CASE Crash
  <2>1. UNCHANGED <<ck, db, ledger, req>>
    BY <1>3 DEF Crash, durable
  <2>2. \A q \in Request : pc'[q] \notin {"ledger", "commit"}
    BY <1>3 DEF Crash
  <2>3. QED
    BY <2>1, <2>2 DEF WriteInv, LedgerOnlyAfterSave
<1>4. CASE UNCHANGED vars
  BY <1>4 DEF vars, durable, WriteInv, LedgerOnlyAfterSave
<1>5. QED
  BY <1>1, <1>2, <1>3, <1>4 DEF Next

\* A ledger row implies a saved invoice, and "written" implies a ledger row, with
\* failures between the two writes, restarts and resent POSTs.
THEOREM LedgerAfterSave == Spec => []LedgerOnlyAfterSave
<1>1. Init => WriteInv
  BY DEF Init, WriteInv, LedgerOnlyAfterSave, NoCheckpoint
<1>2. FormInv /\ WriteInv /\ [Next]_vars => WriteInv'
  BY WriteStep
<1>3. WriteInv => LedgerOnlyAfterSave
  BY DEF WriteInv
<1>4. QED
  BY <1>1, <1>2, <1>3, FormInvariant, PTL DEF Spec
=============================================================================
