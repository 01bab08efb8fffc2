------------------------ MODULE GraphFinalityProofs ------------------------
(***************************************************************************)
(* Theorems about GraphService when no client posts again to an id it has  *)
(* posted to: runs that ended stay as they are, and a flagged invoice is   *)
(* saved on its own approval; without restarts, a run has one ledger row   *)
(* and somebody executes every run that is processing, and the service     *)
(* keeps what RunContract promises.  Unlike the form of the data, all of   *)
(* these need the per-run lock.                                            *)
(***************************************************************************)
EXTENDS GraphServiceProofs, GraphServiceRefinement

-----------------------------------------------------------------------------
(* The fields that decide who may do what next *)

Same(c, d) == /\ d.next = c.next /\ d.approved = c.approved /\ d.invoice = c.invoice
              /\ d.needs_review = c.needs_review

LEMMA NodeFields ==
  ASSUME NEW c \in Checkpoint
  PROVE  /\ \A i : /\ Started(c, i).next = "router" /\ Started(c, i).approved = c.approved
                   /\ ~Started(c, i).interrupted
         /\ \A d : /\ RouterReturns(c, d).next \in {"extractor", "end"}
                   /\ RouterReturns(c, d).approved = c.approved
                   /\ ~RouterReturns(c, d).interrupted
         /\ ExtractorReturns(c).next = "validator" /\ ExtractorReturns(c).approved = c.approved
         /\ ~ExtractorReturns(c).interrupted
         /\ \A b \in BOOLEAN :
              LET r == ValidatorReturns(c, b)
              IN  /\ r.next = RouteAfterValidation(b, c.approved) /\ r.approved = c.approved
                  /\ r.invoice = c.invoice /\ r.needs_review = b /\ ~r.interrupted
         /\ Same(c, HumanReviewInterrupts(c)) /\ HumanReviewInterrupts(c).interrupted
         /\ \A i : /\ HumanReviewEdited(c, i).next = "validator"
                   /\ ~HumanReviewEdited(c, i).approved /\ ~HumanReviewEdited(c, i).interrupted
         /\ /\ HumanReviewApproved(c).next = "validator" /\ HumanReviewApproved(c).approved
            /\ HumanReviewApproved(c).invoice = c.invoice /\ ~HumanReviewApproved(c).interrupted
         /\ \A l : /\ OutputReturns(c, l).next = "end" /\ OutputReturns(c, l).approved = c.approved
                   /\ OutputReturns(c, l).invoice = c.invoice
                   /\ ~OutputReturns(c, l).interrupted
         /\ Same(c, NodeRaised(c)) /\ NodeRaised(c).error
         /\ NodeRaised(c).interrupted = c.interrupted
<1> USE DEF Checkpoint, Advance, Same
<1>1. \A i : /\ Started(c, i).next = "router" /\ Started(c, i).approved = c.approved
             /\ ~Started(c, i).interrupted
  BY DEF Started
<1>2. \A d : /\ RouterReturns(c, d).next \in {"extractor", "end"}
             /\ RouterReturns(c, d).approved = c.approved
             /\ ~RouterReturns(c, d).interrupted
  BY DEF RouterReturns, RouteAfterClassification
<1>3. /\ ExtractorReturns(c).next = "validator" /\ ExtractorReturns(c).approved = c.approved
      /\ ~ExtractorReturns(c).interrupted
  BY DEF ExtractorReturns
<1>4. ASSUME NEW b \in BOOLEAN
      PROVE  /\ ValidatorReturns(c, b).next = RouteAfterValidation(b, c.approved)
             /\ ValidatorReturns(c, b).approved = c.approved
             /\ ValidatorReturns(c, b).invoice = c.invoice
             /\ ValidatorReturns(c, b).needs_review = b /\ ~ValidatorReturns(c, b).interrupted
  BY DEF ValidatorReturns
<1>5. Same(c, HumanReviewInterrupts(c)) /\ HumanReviewInterrupts(c).interrupted
  BY DEF HumanReviewInterrupts
<1>6. \A i : /\ HumanReviewEdited(c, i).next = "validator"
             /\ ~HumanReviewEdited(c, i).approved /\ ~HumanReviewEdited(c, i).interrupted
  BY DEF HumanReviewEdited
<1>7. /\ HumanReviewApproved(c).next = "validator" /\ HumanReviewApproved(c).approved
      /\ HumanReviewApproved(c).invoice = c.invoice /\ ~HumanReviewApproved(c).interrupted
  BY DEF HumanReviewApproved
<1>8. \A l : /\ OutputReturns(c, l).next = "end" /\ OutputReturns(c, l).approved = c.approved
             /\ OutputReturns(c, l).invoice = c.invoice
             /\ ~OutputReturns(c, l).interrupted
  BY DEF OutputReturns
<1>9. /\ Same(c, NodeRaised(c)) /\ NodeRaised(c).error
      /\ NodeRaised(c).interrupted = c.interrupted
  BY DEF NodeRaised
<1>10. QED
  BY <1>1, <1>2, <1>3, <1>4, <1>5, <1>6, <1>7, <1>8, <1>9

-----------------------------------------------------------------------------
(* Who executes what *)

Active(q) == pc[q] \notin {"idle", "done", "lost"}

Fresh == {"reserved", "upload", "lock", "semaphore", "invoke"}

\* Every run has one creator, whose start meets an untouched thread.
OwnInv ==
  /\ \A q \in Request : pc[q] \in {"reserved", "upload"} \/ req[q].command = "start" => q \in Creator
  /\ \A q \in Request : pc[q] \in {"viewed", "open"} => q \in Reviewer
  /\ \A t \in Run : t \notin minted => ck[t] = NoCheckpoint
  /\ \A q \in Request : Active(q) => req[q].run \in minted
  /\ \A q, p \in Creator : q # p /\ Active(q) /\ Active(p) => req[q].run # req[p].run
  /\ \A q \in Creator : pc[q] \in Fresh => ck[req[q].run] = NoCheckpoint

\* A handler inside the graph stands at the node its thread has pending.
ExecInv ==
  \A q \in Request :
    /\ pc[q] = "node" => Runnable(ck[req[q].run])
    /\ pc[q] \in {"ledger", "commit"} => ck[req[q].run].next = "output"

CoreInv == FormInv /\ LockDiscipline /\ OwnInv /\ ExecInv

\* The steps of a handler outside of graph.invoke().
Quiet(q) ==
  /\ UNCHANGED <<ck, db, ledger, approval>>
  /\ pc[q] \notin InGraph \cup {"invoke"} /\ pc'[q] \notin InGraph

LEMMA HandlerEffect ==
  ASSUME CoreInv, NEW q \in Request, Handler(q)
  PROVE  /\ minted' = minted
         /\ Quiet(q) \/ Invoke(q) \/ Execute(q)
         /\ Invoke(q) \/ Execute(q) =>
              /\ pc[q] \in InGraph \cup {"invoke"} /\ req'[q].command = req[q].command
              /\ \A u \in Run \ {req[q].run} :
                   /\ ck'[u] = ck[u] /\ db'[u] = db[u] /\ ledger'[u] = ledger[u]
                   /\ approval'[u] = approval[u]
<1> USE DEF CoreInv, FormInv, TypeInv, TypeOK, Quiet, InGraph
<1>1. CASE \/ SaveUpload(q) \/ OpenChannel(q) \/ TryLock(q) \/ AcquirePermit(q)
           \/ AcquireTimeout(q) \/ PublishRunEnd(q) \/ PublishSwallowed(q) \/ ReleasePermit(q) \/ Unlock(q)
           \/ Answer(q)
  <2>1. Quiet(q) /\ minted' = minted
    BY <1>1 DEF SaveUpload, OpenChannel, TryLock, AcquirePermit, AcquireTimeout,
      PublishRunEnd, PublishSwallowed, ReleasePermit, Unlock, Answer, durable, history, Goto, Respond
  <2>2. ~Invoke(q) /\ ~Execute(q)
    BY <1>1 DEF SaveUpload, OpenChannel, TryLock, AcquirePermit, AcquireTimeout,
      PublishRunEnd, PublishSwallowed, ReleasePermit, Unlock, Answer, Invoke, Execute, Classify, Extract,
      Validate, AwaitReview, Raise, SaveInvoice, AppendLedger, Complete, Pending
  <2>3. QED
    BY <2>1, <2>2
<1>2. CASE Invoke(q)
  BY <1>2 DEF Invoke
<1>3. CASE Classify(q) \/ Extract(q) \/ Validate(q) \/ AwaitReview(q) \/ Complete(q)
  <2>1. /\ UNCHANGED <<db, ledger, minted, req, approval>> /\ pc[q] \in InGraph
        /\ \E d : Returned(q, d)
    BY <1>3 DEF Classify, Extract, Validate, AwaitReview, Complete, Pending, history
  <2>2. \A u \in Run \ {req[q].run} : ck'[u] = ck[u]
    BY <2>1 DEF Returned
  <2>3. QED
    BY <1>3, <2>1, <2>2 DEF Execute
<1>4. CASE Raise(q)
  BY <1>4 DEF Raise, Execute, history, Local
<1>5. CASE SaveInvoice(q)
  <2>1. req' = req \/ req' = [req EXCEPT ![q].raised = TRUE]
    BY <1>5 DEF SaveInvoice
  <2>2. req'[q].command = req[q].command
    BY <2>1 DEF Local
  <2>3. \A u \in Run \ {req[q].run} : ck'[u] = ck[u] /\ db'[u] = db[u]
    BY <1>5 DEF SaveInvoice
  <2>4. UNCHANGED <<ledger, minted, approval>> /\ pc[q] \in InGraph
    BY <1>5 DEF SaveInvoice, Pending, history
  <2>5. QED
    BY <1>5, <2>2, <2>3, <2>4 DEF Execute
<1>6. CASE AppendLedger(q)
  <2>1. \E outcome : req' = [req EXCEPT ![q].ledger = outcome]
    BY <1>6 DEF AppendLedger
  <2>2. req'[q].command = req[q].command
    BY <2>1 DEF Local
  <2>3. \A u \in Run \ {req[q].run} : ledger'[u] = ledger[u]
    BY <1>6 DEF AppendLedger
  <2>4. UNCHANGED <<ck, db, minted, approval>> /\ pc[q] \in InGraph
    BY <1>6 DEF AppendLedger, history
  <2>5. QED
    BY <1>6, <2>2, <2>3, <2>4 DEF Execute
<1>7. QED
  BY <1>1, <1>2, <1>3, <1>4, <1>5, <1>6 DEF Handler, Execute

\* Two handlers inside _guarded_invoke are in different runs.
LEMMA Exclusive ==
  ASSUME CoreInv, NEW q \in Request, NEW p \in Request, q # p,
         pc[q] \in Locked, pc[p] \in Locked
  PROVE  req[q].run # req[p].run
<1>1. req[q].run \in Run /\ req[p].run \in Run
  BY DEF CoreInv, FormInv, TypeInv, RunKnown, Locked
<1>2. QED
  BY <1>1 DEF CoreInv, LockDiscipline

\* A start meets an untouched thread, and any other command changes only a paused one.
LEMMA InvokeCases ==
  ASSUME CoreInv, NEW q \in Request, Invoke(q)
  PROVE  LET c == ck[req[q].run]
             d == ck'[req[q].run]
         IN  \/ req[q].command = "start" /\ c = NoCheckpoint /\ d = Started(c, req[q].invoice)
             \/ req[q].command = "edit" /\ c.interrupted /\ d = HumanReviewEdited(c, req[q].invoice)
             \/ req[q].command = "approve" /\ c.interrupted /\ d = HumanReviewApproved(c)
             \/ d = c /\ approval' = approval
<1> DEFINE c == ck[req[q].run]
<1>1. req[q].run \in Run /\ ck \in [Run -> Checkpoint] /\ pc[q] = "invoke"
  BY HandlerShape DEF Handler, CoreInv, FormInv, TypeInv, TypeOK, RunKnown, Invoke
<1>2. ck'[req[q].run] = Invoked(c, req[q].command, req[q].invoice)
  BY <1>1 DEF Invoke
<1>3. CASE req[q].command = "start"
  <2>1. q \in Creator /\ c = NoCheckpoint
    BY <1>1, <1>3 DEF CoreInv, OwnInv, Fresh
  <2>2. QED
    BY <1>2, <1>3, <2>1 DEF Invoked
<1>4. CASE req[q].command = "edit" /\ c.interrupted
  BY <1>2, <1>4 DEF Invoked
<1>5. CASE req[q].command = "approve" /\ c.interrupted
  BY <1>2, <1>5 DEF Invoked
<1>6. CASE /\ req[q].command # "start"
           /\ ~(req[q].command = "edit" /\ c.interrupted)
           /\ ~(req[q].command = "approve" /\ c.interrupted)
  BY <1>2, <1>6 DEF Invoked, Invoke
<1>7. QED
  BY <1>3, <1>4, <1>5, <1>6

\* An untouched thread is touched by a start only.
LEMMA BlankStays ==
  ASSUME CoreInv, NEW q \in Request, Handler(q), NEW u \in Run, ck[u] = NoCheckpoint
  PROVE  ck'[u] = NoCheckpoint \/ (Invoke(q) /\ req[q].command = "start" /\ req[q].run = u)
<1> DEFINE t == req[q].run
<1>1. CASE Quiet(q)
  BY <1>1 DEF Quiet
<1>2. CASE (Invoke(q) \/ Execute(q)) /\ t # u
  BY <1>2, HandlerEffect
<1>3. CASE Invoke(q) /\ t = u
  <2>1. ~ck[u].interrupted
    BY DEF NoCheckpoint
  <2>2. QED
    BY <1>3, <2>1, InvokeCases
<1>4. CASE Execute(q) /\ t = u
  <2>1. pc[q] \in InGraph
    BY <1>4 DEF Execute, Classify, Extract, Validate, AwaitReview, Raise, SaveInvoice,
      AppendLedger, Complete, Pending, InGraph
  <2>2. ck[t].next \in Node
    BY <2>1 DEF CoreInv, ExecInv, InGraph, Runnable, Node
  <2>3. QED
    BY <1>4, <2>2 DEF NoCheckpoint, Node
<1>5. QED
  BY <1>1, <1>2, <1>3, <1>4, HandlerEffect

\* Where a handler's step leads: an executed start is not fresh any more.
LEMMA HandlerMoves ==
  ASSUME CoreInv, NEW q \in Request, Handler(q)
  PROVE  /\ pc'[q] \notin {"idle", "reserved", "viewed", "upload", "open"}
         /\ req'[q].command = "start" => q \in Creator
         /\ q \in Creator /\ pc'[q] \in Fresh => pc[q] \in Fresh /\ Quiet(q)
<1> USE DEF CoreInv, FormInv, TypeInv, TypeOK
<1>1. ASSUME NEW a, Respond(q, a)
      PROVE  pc'[q] = "done" /\ req'[q].command = req[q].command
  BY <1>1 DEF Respond, Goto, Local
<1>2. CASE SaveUpload(q)
  <2>1. pc[q] = "upload" /\ q \in Creator
    BY <1>2 DEF SaveUpload, OwnInv
  <2>2. pc'[q] \in {"done", "lock"}
    BY <1>1, <1>2 DEF SaveUpload, Goto
  <2>3. UNCHANGED <<ck, db, ledger, approval>>
    BY <1>2 DEF SaveUpload, durable, history
  <2>4. QED
    BY <2>1, <2>2, <2>3 DEF Fresh, Quiet, InGraph
<1>3. CASE OpenChannel(q)
  BY <1>3, RequestAssumption DEF OpenChannel, Goto, OwnInv
<1>4. CASE TryLock(q) \/ AcquirePermit(q) \/ AcquireTimeout(q)
  <2>1. pc'[q] \in {"done", "semaphore", "invoke"} /\ req'[q].command = req[q].command
    BY <1>1, <1>4 DEF TryLock, AcquirePermit, AcquireTimeout, Goto
  <2>2. pc[q] \in {"lock", "semaphore"} /\ UNCHANGED <<ck, db, ledger, approval>>
    BY <1>4 DEF TryLock, AcquirePermit, AcquireTimeout, durable, history
  <2>3. QED
    BY <2>1, <2>2 DEF Fresh, Quiet, InGraph, OwnInv
<1>5. CASE Invoke(q)
  BY <1>5 DEF Invoke, Goto, Fresh, OwnInv
<1>6. CASE Execute(q)
  <2>1. req'[q].command = req[q].command
    BY <1>6, HandlerEffect
  <2>2. pc'[q] \in {"node", "publish", "ledger", "commit"}
    BY <1>6 DEF Execute, Classify, Extract, Validate, AwaitReview, Raise, SaveInvoice,
      AppendLedger, Complete, Returned, Goto
  <2>3. QED
    BY <2>1, <2>2 DEF Fresh, OwnInv
<1>7. CASE PublishRunEnd(q) \/ PublishSwallowed(q) \/ ReleasePermit(q) \/ Unlock(q) \/ Answer(q)
  <2>1. pc'[q] \in {"release", "unlock", "respond", "done"} /\ req'[q].command = req[q].command
    BY <1>1, <1>7 DEF PublishRunEnd, PublishSwallowed, ReleasePermit, Unlock, Answer, Goto
  <2>2. QED
    BY <2>1 DEF Fresh, OwnInv
<1>8. QED
  BY <1>2, <1>3, <1>4, <1>5, <1>6, <1>7 DEF Handler

\* What OwnInv needs of a step of one request.
LEMMA OwnFrame ==
  ASSUME CoreInv, NEW q \in Request, LocalStep(q), minted \subseteq minted',
         pc'[q] \in {"reserved", "upload"} \/ req'[q].command = "start" => q \in Creator,
         pc'[q] \in {"viewed", "open"} => q \in Reviewer,
         \A t \in Run : t \notin minted' => ck'[t] = NoCheckpoint,
         Active(q)' => req'[q].run \in minted',
         q \in Creator /\ Active(q)' =>
           \A p \in Creator \ {q} : Active(p) => req[p].run # req'[q].run,
         \A p \in Creator : pc'[p] \in Fresh => ck'[req'[p].run] = NoCheckpoint
  PROVE  OwnInv'
<1>0. Creator \subseteq Request
  BY DEF Request
<1>1. \A p \in Request : pc'[p] \in {"reserved", "upload"} \/ req'[p].command = "start" => p \in Creator
  BY DEF CoreInv, OwnInv, LocalStep
<1>2. \A p \in Request : pc'[p] \in {"viewed", "open"} => p \in Reviewer
  BY DEF CoreInv, OwnInv, LocalStep
<1>3. \A p \in Request : Active(p)' => req'[p].run \in minted'
  BY DEF CoreInv, OwnInv, LocalStep, Active
<1>4. ASSUME NEW p \in Creator, NEW r \in Creator, p # r, Active(p)', Active(r)'
      PROVE  req'[p].run # req'[r].run
  <2>1. CASE p = q
    BY <1>0, <1>4, <2>1 DEF LocalStep, Active
  <2>2. CASE r = q
    BY <1>0, <1>4, <2>2 DEF LocalStep, Active
  <2>3. CASE p # q /\ r # q
    BY <1>0, <1>4, <2>3 DEF CoreInv, OwnInv, LocalStep, Active
  <2>4. QED
    BY <2>1, <2>2, <2>3
<1>5. QED
  BY <1>1, <1>2, <1>3, <1>4 DEF OwnInv

\* The same for a step that is not a client's minting of a run.
LEMMA ClientOwns ==
  ASSUME CoreInv, NEW q \in Request, LocalStep(q), ck' = ck, minted' = minted,
         Active(q)' => req'[q].run \in minted,
         pc'[q] \in {"reserved", "upload"} \/ req'[q].command = "start" => q \in Creator,
         pc'[q] \in {"viewed", "open"} => q \in Reviewer,
         q \in Creator => /\ Active(q)' => Active(q) /\ KeepsRun(q)
                          /\ pc'[q] \in Fresh => pc[q] \in Fresh
  PROVE  OwnInv'
<1>0. Creator \subseteq Request
  BY DEF Request
<1>1. q \in Creator /\ Active(q)' =>
        \A p \in Creator \ {q} : Active(p) => req[p].run # req'[q].run
  BY DEF CoreInv, OwnInv, KeepsRun
<1>2. ASSUME NEW p \in Creator, pc'[p] \in Fresh
      PROVE  ck'[req'[p].run] = NoCheckpoint
  <2>1. CASE p = q
    BY <1>2, <2>1 DEF CoreInv, OwnInv, KeepsRun, Active, Fresh
  <2>2. CASE p # q
    BY <1>0, <1>2, <2>2 DEF CoreInv, OwnInv, LocalStep
  <2>3. QED
    BY <2>1, <2>2
<1>3. QED
  BY <1>1, <1>2, OwnFrame DEF CoreInv, OwnInv

LEMMA OwnStep ==
  ASSUME CoreInv, ~Reposts, [Next]_vars
  PROVE  OwnInv'
<1> USE DEF CoreInv, FormInv, TypeInv
<1>1. ASSUME NEW q \in Request, Client(q)
      PROVE  OwnInv'
  <2>0. LocalStep(q) /\ ck' = ck
    BY <1>1, ClientShape, ClientKeepsForm
  <2>a. ASSUME NEW a, Respond(q, a)
        PROVE  KeepsRun(q) /\ pc'[q] = "done" /\ req'[q].command = req[q].command
    BY <2>a DEF Respond, Goto, TypeOK, Local, KeepsRun
  <2>1. CASE q \in Creator
    <3>1. ASSUME NEW t \in Run, Reserve(q, t) \/ PostFresh(q, t), pc'[q] # "done"
          PROVE  OwnInv'
      <4>1. /\ minted' = minted \cup {t} /\ t \notin minted /\ req'[q].run = t
            /\ pc'[q] \in {"reserved", "upload"}
        BY <2>a, <3>1 DEF Reserve, PostFresh, Goto, TypeOK, Local
      <4>2. \A p \in Creator \ {q} : Active(p) => req[p].run # t
        BY <4>1 DEF OwnInv, Request
      <4>3. ASSUME NEW p \in Creator, pc'[p] \in Fresh
            PROVE  ck'[req'[p].run] = NoCheckpoint
        <5>1. CASE p = q
          BY <2>0, <4>1, <5>1 DEF OwnInv
        <5>2. CASE p # q
          BY <2>0, <4>3, <5>2 DEF OwnInv, LocalStep, Request
        <5>3. QED
          BY <5>1, <5>2
      <4>4. \A u \in Run : u \notin minted' => ck'[u] = NoCheckpoint
        BY <2>0, <4>1 DEF OwnInv
      <4>5. QED
        BY <2>0, <2>1, <4>1, <4>2, <4>3, <4>4, OwnFrame
    <3>2. CASE PostReserved(q) \/ pc'[q] = "done"
      <4>1. minted' = minted /\ req'[q].command = req[q].command
        BY <1>1, <2>1, <2>a, <3>2, RequestAssumption
        DEF Client, Reserve, PostFresh, Repost, PostReserved, PostTo, durable, Goto, TypeOK, Local
      <4>2. /\ PostReserved(q) => pc[q] = "reserved" /\ pc'[q] \in {"upload", "done"}
            /\ PostReserved(q) => KeepsRun(q)
        BY <2>a DEF PostReserved, PostTo, Goto, TypeOK, Local, KeepsRun
      <4>3. /\ pc'[q] = "done" \/ (pc'[q] = "upload" /\ pc[q] = "reserved" /\ KeepsRun(q))
        BY <3>2, <4>2
      <4>4. QED
        BY <2>0, <2>1, <4>1, <4>3, ClientOwns DEF Active, Fresh, OwnInv, KeepsRun
    <3>3. QED
      BY <1>1, <2>1, <3>1, <3>2, RequestAssumption DEF Client, Repost
  <2>2. CASE q \in Reviewer
    <3>0. q \notin Creator
      BY <2>2, RequestAssumption
    <3>1. minted' = minted /\ pc'[q] \in {"viewed", "open", "done"}
      BY <1>1, <3>0, <2>a DEF Client, View, ReadSnapshot, RejectPatch, durable, Goto, Resume, TypeOK
    <3>2. ASSUME NEW c, NEW e, NEW body, c # "start", Resume(q, c, e, body), pc[q] = "viewed"
          PROVE  req'[q].command # "start" /\ req'[q].run \in minted
      <4>1. req'[q].run = req[q].run /\ req'[q].command = c
        BY <3>2 DEF Resume, TypeOK, Local
      <4>2. QED
        BY <3>2, <4>1 DEF OwnInv, Active
    <3>3. ASSUME NEW t \in Run, View(q, t)
          PROVE  req'[q].command = req[q].command /\ req'[q].run \in minted
      BY <3>3 DEF View, TypeOK, Local
    <3>4. ASSUME NEW body \in MaybeInvoice, ReadSnapshot(q, body)
          PROVE  /\ req'[q].command = "start" => req[q].command = "start"
                 /\ Active(q)' => req'[q].run \in minted
      <4>1. CASE \E a : Respond(q, a)
        BY <2>a, <4>1 DEF Active
      <4>2. CASE \E c, e : c # "start" /\ Resume(q, c, e, body)
        BY <3>2, <3>4, <4>2 DEF ReadSnapshot
      <4>3. QED
        BY <3>4, <4>1, <4>2 DEF ReadSnapshot
    <3>5. /\ req'[q].command = "start" => req[q].command = "start"
          /\ Active(q)' => req'[q].run \in minted
      BY <1>1, <2>a, <3>0, <3>3, <3>4 DEF Client, RejectPatch, Active
    <3>6. req'[q].command # "start"
      BY <3>0, <3>5 DEF OwnInv
    <3>7. QED
      BY <2>0, <2>2, <3>0, <3>1, <3>5, <3>6, ClientOwns
  <2>3. QED
    BY <2>1, <2>2 DEF Request
<1>2. ASSUME NEW q \in Request, Handler(q)
      PROVE  OwnInv'
  <2> DEFINE t == req[q].run
  <2>0. /\ LocalStep(q) /\ KeepsRun(q) /\ Active(q) /\ minted' = minted
        /\ pc'[q] \notin {"idle", "reserved", "viewed", "upload", "open"}
        /\ req'[q].command = "start" => q \in Creator
        /\ q \in Creator /\ pc'[q] \in Fresh => pc[q] \in Fresh /\ Quiet(q)
    BY <1>2, HandlerShape, HandlerEffect, HandlerMoves DEF Active
  <2>1. ASSUME NEW u \in Run, u \notin minted
        PROVE  ck'[u] = NoCheckpoint
    BY <1>2, <2>0, <2>1, BlankStays DEF OwnInv
  <2>2. ASSUME NEW p \in Creator, pc'[p] \in Fresh
        PROVE  ck'[req'[p].run] = NoCheckpoint
    <3>1. CASE p = q
      BY <2>0, <2>2, <3>1 DEF OwnInv, KeepsRun, Quiet
    <3>2. CASE p # q
      <4>1. p \in Request /\ pc'[p] = pc[p] /\ req'[p] = req[p]
        BY <2>0, <3>2 DEF LocalStep, Request
      <4>2. Active(p) /\ ck[req[p].run] = NoCheckpoint /\ req[p].run \in Run
        BY <2>2, <4>1 DEF OwnInv, Active, Fresh, RunKnown
      <4>3. ~(req[q].command = "start" /\ req[q].run = req[p].run)
        BY <2>0, <3>2, <4>1, <4>2 DEF OwnInv
      <4>4. QED
        BY <1>2, <4>1, <4>2, <4>3, BlankStays
    <3>3. QED
      BY <3>1, <3>2
  <2>3. \A p \in Creator \ {q} : q \in Creator /\ Active(p) => req[p].run # req'[q].run
    BY <2>0 DEF OwnInv, KeepsRun
  <2>4. req'[q].run \in minted
    BY <2>0 DEF OwnInv, KeepsRun
  <2>5. QED
    BY <2>0, <2>1, <2>2, <2>3, <2>4, OwnFrame
<1>3. CASE Crash
  <2>1. UNCHANGED <<ck, minted, req>>
    BY <1>3 DEF Crash, durable
  <2>2. \A q \in Request : pc'[q] = pc[q] \/ pc'[q] = "lost"
    BY <1>3 DEF Crash
  <2>3. \A q \in Request : pc'[q] # "lost" => pc'[q] = pc[q]
    BY <2>2
  <2>4. Creator \subseteq Request
    BY DEF Request
  <2>5. \A q \in Request : Active(q)' => Active(q)
    BY <2>3 DEF Active
  <2>6. \A q \in Creator : pc'[q] \in Fresh => pc[q] \in Fresh
    BY <2>3, <2>4 DEF Fresh
  <2>7. \A q \in Request : pc'[q] \in {"reserved", "upload", "viewed", "open"} => pc'[q] = pc[q]
    BY <2>3
  <2>8. QED
    BY <2>1, <2>4, <2>5, <2>6, <2>7 DEF OwnInv
<1>4. CASE UNCHANGED vars
  BY <1>4 DEF vars, durable, OwnInv, Active
<1>5. QED
  BY <1>1, <1>2, <1>3, <1>4 DEF Next

\* What a handler's step writes for its run is where the handler goes.
LEMMA ExecSelf ==
  ASSUME CoreInv, NEW q \in Request, Handler(q)
  PROVE  LET d == ck'[req[q].run]
         IN  /\ pc'[q] = "node" => Runnable(d)
             /\ pc'[q] \in {"ledger", "commit"} => d.next = "output"
             /\ Invoke(q) \/ Execute(q) => pc'[q] \in InGraph \/ ~Runnable(d) \/ d.error
<1> USE DEF CoreInv, FormInv, TypeInv, TypeOK, InGraph
<1> DEFINE t == req[q].run
           d == ck'[t]
<1>0. t \in Run /\ ck[t] \in Checkpoint
  BY HandlerShape DEF RunKnown
<1>1. CASE Quiet(q)
  <2>1. ~Invoke(q) /\ ~Execute(q)
    BY <1>1 DEF Quiet, Invoke, Execute, Classify, Extract, Validate, AwaitReview, Raise,
      SaveInvoice, AppendLedger, Complete, Pending
  <2>2. QED
    BY <1>1, <2>1 DEF Quiet
<1>2. ASSUME NEW c, ck' = [ck EXCEPT ![t] = c], Goto(q, IF Runnable(c) THEN "node" ELSE "publish")
      PROVE  /\ pc'[q] = "node" => Runnable(d)
             /\ pc'[q] \notin {"ledger", "commit"}
             /\ pc'[q] \in InGraph \/ ~Runnable(d)
  <2>1. d = c
    BY <1>0, <1>2
  <2>2. pc'[q] = IF Runnable(c) THEN "node" ELSE "publish"
    BY <1>2 DEF Goto
  <2>3. QED
    BY <2>1, <2>2
<1>3. CASE Invoke(q)
  BY <1>2, <1>3 DEF Invoke
<1>4. CASE Classify(q) \/ Extract(q) \/ Validate(q) \/ AwaitReview(q) \/ Complete(q)
  BY <1>2, <1>4 DEF Classify, Extract, Validate, AwaitReview, Complete, Returned
<1>5. CASE Raise(q)
  <2>1. d = NodeRaised(ck[t]) /\ pc'[q] = "publish"
    BY <1>0, <1>5 DEF Raise, Goto
  <2>2. QED
    BY <1>0, <2>1, NodeFields
<1>6. CASE SaveInvoice(q)
  <2>1. CASE pc'[q] = "ledger"
    BY <1>0, <1>6, <2>1 DEF SaveInvoice, Pending, Goto
  <2>2. CASE pc'[q] = "publish" /\ d = NodeRaised(ck[t])
    BY <1>0, <2>2, NodeFields
  <2>3. QED
    BY <1>0, <1>6, <2>1, <2>2 DEF SaveInvoice, Goto
<1>7. CASE AppendLedger(q)
  <2>1. pc[q] = "ledger" /\ pc'[q] = "commit" /\ ck' = ck
    BY <1>7 DEF AppendLedger, Goto
  <2>2. QED
    BY <2>1 DEF ExecInv
<1>8. QED
  BY <1>1, <1>3, <1>4, <1>5, <1>6, <1>7, HandlerEffect DEF Execute

LEMMA ExecStep ==
  ASSUME CoreInv, [Next]_vars
  PROVE  ExecInv'
<1> USE DEF CoreInv, FormInv, TypeInv
<1>1. ASSUME NEW q \in Request, Client(q)
      PROVE  ExecInv'
  <2>1. LocalStep(q) /\ pc'[q] \notin InGraph /\ ck' = ck
    BY <1>1, ClientShape, ClientKeepsForm DEF KeepsPhase, Locked, InGraph
  <2>2. QED
    BY <2>1 DEF ExecInv, LocalStep, InGraph
<1>2. ASSUME NEW q \in Request, Handler(q)
      PROVE  ExecInv'
  <2>0. LocalStep(q) /\ KeepsRun(q)
    BY <1>2, HandlerShape
  <2>1. ASSUME NEW p \in Request \ {q}, pc[p] \in InGraph
        PROVE  ck'[req[p].run] = ck[req[p].run]
    <3>1. CASE Quiet(q)
      BY <3>1 DEF Quiet
    <3>2. CASE Invoke(q) \/ Execute(q)
      <4>1. pc[q] \in Locked /\ pc[p] \in Locked
        BY <1>2, <2>1, <3>2, HandlerEffect DEF Locked, InGraph
      <4>2. req[p].run \in Run
        BY <2>1 DEF RunKnown, InGraph
      <4>3. QED
        BY <1>2, <3>2, <4>1, <4>2, Exclusive, HandlerEffect
    <3>3. QED
      BY <1>2, <3>1, <3>2, HandlerEffect
  <2>2. ASSUME NEW p \in Request
        PROVE  /\ pc'[p] = "node" => Runnable(ck'[req'[p].run])
               /\ pc'[p] \in {"ledger", "commit"} => ck'[req'[p].run].next = "output"
    <3>1. CASE p = q
      BY <1>2, <2>0, <3>1, ExecSelf DEF KeepsRun
    <3>2. CASE p # q
      BY <2>0, <2>1, <3>2 DEF LocalStep, ExecInv, InGraph
    <3>3. QED
      BY <3>1, <3>2
  <2>3. \A p \in Request : /\ pc'[p] = "node" => Runnable(ck[req[p].run])'
                           /\ pc'[p] \in {"ledger", "commit"} => ck'[req'[p].run].next = "output"
    BY <2>2 DEF Runnable
  <2>4. QED
    BY <2>3 DEF ExecInv
<1>3. CASE Crash
  BY <1>3 DEF Crash, durable, ExecInv
<1>4. CASE UNCHANGED vars
  BY <1>4 DEF vars, durable, ExecInv
<1>5. QED
  BY <1>1, <1>2, <1>3, <1>4 DEF Next

LEMMA CoreInvariant ==
  ASSUME ~Reposts
  PROVE  Spec => []CoreInv
<1>1. Init => CoreInv
  <2>1. Init => TypeInv
    BY InitType DEF Init, TypeInv, RunKnown
  <2>2. Init => FormInv
    BY <2>1 DEF Init, FormInv, Formed, Armed, NoCheckpoint, FreshLocal
  <2>3. Init => LockDiscipline
    BY RequestAssumption DEF Init, LockDiscipline, Locked
  <2>4. Init => OwnInv
    BY DEF Init, OwnInv, Active, Fresh, Request, FreshLocal
  <2>5. Init => ExecInv
    BY DEF Init, ExecInv
  <2>6. QED
    BY <2>2, <2>3, <2>4, <2>5 DEF CoreInv
<1>2. CoreInv /\ [Next]_vars => CoreInv'
  BY FormStep, LockStep, OwnStep, ExecStep DEF CoreInv, FormInv
<1>3. QED
  BY <1>1, <1>2, PTL DEF Spec

-----------------------------------------------------------------------------
(* Runs that ended *)

\* A client's step touches none of the data.
LEMMA ClientEffect ==
  ASSUME CoreInv, NEW q \in Request, Client(q)
  PROVE  /\ UNCHANGED <<ck, db, ledger, approval, crashes>>
         /\ LocalStep(q) /\ pc[q] \notin Locked /\ pc'[q] \notin Locked
<1>1. ck' = ck /\ LocalStep(q) /\ pc[q] \notin Locked /\ pc'[q] \notin Locked
  BY ClientShape, ClientKeepsForm DEF CoreInv, FormInv, TypeInv, KeepsPhase
<1>2. UNCHANGED <<db, ledger, approval, crashes>>
  BY DEF Client, Reserve, PostFresh, Repost, PostReserved, PostTo, View, ReadSnapshot,
    RejectPatch, durable, history
<1>3. QED
  BY <1>1, <1>2

LEMMA EndedStep ==
  ASSUME CoreInv, [Next]_vars, NEW t \in Run, Status(t) \in {"completed", "skipped"}
  PROVE  ck'[t] = ck[t] /\ db'[t] = db[t] /\ ledger'[t] = ledger[t]
<1>0. ck[t].next = "end" /\ ~ck[t].interrupted /\ ck[t] # NoCheckpoint
  <2>1. ck[t] \in Checkpoint /\ Formed(ck[t])
    BY DEF CoreInv, FormInv, TypeInv, TypeOK
  <2>2. ck[t].next = "end"
    BY <2>1 DEF Status, DeriveStatus, Checkpoint
  <2>3. QED
    BY <2>1, <2>2 DEF Formed, NoCheckpoint
<1>1. ASSUME NEW q \in Request, Client(q)
      PROVE  ck'[t] = ck[t] /\ db'[t] = db[t] /\ ledger'[t] = ledger[t]
  BY <1>1, ClientEffect
<1>2. ASSUME NEW q \in Request, Handler(q)
      PROVE  ck'[t] = ck[t] /\ db'[t] = db[t] /\ ledger'[t] = ledger[t]
  <2>1. CASE Quiet(q)
    BY <2>1 DEF Quiet
  <2>2. CASE (Invoke(q) \/ Execute(q)) /\ req[q].run # t
    BY <1>2, <2>2, HandlerEffect
  <2>3. CASE Invoke(q) /\ req[q].run = t
    <3>1. ck'[t] = ck[t]
      BY <1>0, <2>3, InvokeCases
    <3>2. QED
      BY <2>3, <3>1 DEF Invoke
  <2>4. CASE Execute(q) /\ req[q].run = t
    <3>1. pc[q] \in InGraph
      BY <2>4 DEF Execute, Classify, Extract, Validate, AwaitReview, Raise, SaveInvoice,
        AppendLedger, Complete, Pending, InGraph
    <3>2. ck[t].next \in Node
      BY <2>4, <3>1 DEF CoreInv, ExecInv, InGraph, Runnable, Node
    <3>3. QED
      BY <1>0, <3>2 DEF Node
  <2>5. QED
    BY <1>2, <2>1, <2>2, <2>3, <2>4, HandlerEffect
<1>3. CASE Crash
  BY <1>3 DEF Crash, durable
<1>4. CASE UNCHANGED vars
  BY <1>4 DEF vars, durable
<1>5. QED
  BY <1>1, <1>2, <1>3, <1>4 DEF Next

\* Whatever is posted or resumed late, a run the API reported as completed or
\* skipped keeps its checkpoint, its row and its ledger rows, provided that no
\* client posts twice to the same id (service.py, _guarded_invoke).
THEOREM EndedSafety ==
  ASSUME ~Reposts
  PROVE  Spec => EndedIsFinal
<1>1. CoreInv /\ [Next]_vars =>
        [\A t \in Run : Status(t) \in {"completed", "skipped"} =>
           ck'[t] = ck[t] /\ db'[t] = db[t] /\ ledger'[t] = ledger[t]]_<<ck, db, ledger>>
  BY EndedStep
<1>2. QED
  BY <1>1, CoreInvariant, PTL DEF Spec, EndedIsFinal

-----------------------------------------------------------------------------
(* Flagged invoices *)

\* What is approved, needed and saved of a run, of a checkpoint, a row and an approval.
Vetted(c, row, given) ==
  /\ c.next \in {"start", "router", "extractor"} => ~c.approved
  /\ c.approved => given.invoice = c.invoice
  /\ c.next = "output" /\ c.needs_review => c.approved
  /\ row.flagged => given.invoice = row.invoice /\ c.next \in {"output", "end"}

ApprovalInv == \A t \in Run : Vetted(ck[t], db[t], approval[t])

LEMMA NodesKeepVetted ==
  ASSUME NEW c \in Checkpoint, NEW row, NEW given, Vetted(c, row, given)
  PROVE  /\ c = NoCheckpoint => \A i : Vetted(Started(c, i), row, given)
         /\ c.next = "router" => \A d : Vetted(RouterReturns(c, d), row, given)
         /\ c.next = "extractor" => Vetted(ExtractorReturns(c), row, given)
         /\ c.next = "validator" => \A b \in BOOLEAN : Vetted(ValidatorReturns(c, b), row, given)
         /\ c.next = "human_review" =>
              /\ Vetted(HumanReviewInterrupts(c), row, given)
              /\ \A i : Vetted(HumanReviewEdited(c, i), row, given)
              /\ \A v : Vetted(HumanReviewApproved(c), row, [invoice |-> c.invoice, vouched |-> v])
         /\ c.next = "output" => \A l : Vetted(OutputReturns(c, l), row, given)
         /\ Vetted(NodeRaised(c), row, given)
<1> USE NodeFields DEF Vetted
<1>1. c = NoCheckpoint => \A i : Vetted(Started(c, i), row, given)
  BY DEF NoCheckpoint
<1>2. c.next = "router" => \A d : Vetted(RouterReturns(c, d), row, given)
  OBVIOUS
<1>3. c.next = "extractor" => Vetted(ExtractorReturns(c), row, given)
  OBVIOUS
<1>4. c.next = "validator" => \A b \in BOOLEAN : Vetted(ValidatorReturns(c, b), row, given)
  BY DEF RouteAfterValidation
<1>5. c.next = "human_review" => Vetted(HumanReviewInterrupts(c), row, given)
  BY DEF Same
<1>6. c.next = "human_review" => \A i : Vetted(HumanReviewEdited(c, i), row, given)
  OBVIOUS
<1>7. c.next = "human_review" =>
        \A v : Vetted(HumanReviewApproved(c), row, [invoice |-> c.invoice, vouched |-> v])
  OBVIOUS
<1>8. c.next = "output" => \A l : Vetted(OutputReturns(c, l), row, given)
  OBVIOUS
<1>9. Vetted(NodeRaised(c), row, given)
  BY DEF Same
<1>10. QED
  BY <1>1, <1>2, <1>3, <1>4, <1>5, <1>6, <1>7, <1>8, <1>9

LEMMA HandlerKeepsVetted ==
  ASSUME CoreInv, ApprovalInv, NEW q \in Request, Handler(q)
  PROVE  ApprovalInv'
<1> USE DEF CoreInv, FormInv, TypeInv, TypeOK
<1> DEFINE t == req[q].run
           c == ck[t]
<1>0. t \in Run /\ c \in Checkpoint /\ Formed(c) /\ Vetted(c, db[t], approval[t])
  BY HandlerShape DEF RunKnown, ApprovalInv
<1>1. CASE Quiet(q)
  BY <1>1 DEF Quiet, ApprovalInv, Vetted
<1>2. CASE Invoke(q) \/ Execute(q)
  <2>1. ASSUME Vetted(ck'[t], db'[t], approval'[t])
        PROVE  ApprovalInv'
    <3>1. \A u \in Run : Vetted(ck'[u], db'[u], approval'[u])
      BY <1>2, <2>1, HandlerEffect DEF ApprovalInv
    <3>2. QED
      BY <3>1 DEF ApprovalInv, Vetted
  <2>2. CASE Invoke(q)
    <3>1. UNCHANGED db
      BY <2>2 DEF Invoke
    <3>2. CASE req[q].command = "approve" /\ c.interrupted
      <4>1. approval'[t] = [invoice |-> c.invoice, vouched |-> req[q].vouched]
        BY <1>0, <2>2, <3>2 DEF Invoke
      <4>2. ck'[t] = HumanReviewApproved(c)
        BY <1>0, <2>2, <3>2 DEF Invoke, Invoked
      <4>3. c.next = "human_review"
        BY <1>0, <3>2 DEF Formed
      <4>4. QED
        BY <1>0, <2>1, <3>1, <4>1, <4>2, <4>3, NodesKeepVetted
    <3>3. CASE ~(req[q].command = "approve" /\ c.interrupted)
      <4>1. approval' = approval
        BY <2>2, <3>3 DEF Invoke
      <4>2. \/ c = NoCheckpoint /\ ck'[t] = Started(c, req[q].invoice)
            \/ c.next = "human_review" /\ ck'[t] = HumanReviewEdited(c, req[q].invoice)
            \/ ck'[t] = c
        BY <1>0, <2>2, <3>3, InvokeCases DEF Formed
      <4>3. QED
        BY <1>0, <2>1, <3>1, <4>1, <4>2, NodesKeepVetted
    <3>4. QED
      BY <3>2, <3>3
  <2>3. ASSUME NEW d, ck' = [ck EXCEPT ![t] = d], UNCHANGED <<db, approval>>,
               Vetted(d, db[t], approval[t])
        PROVE  ApprovalInv'
    BY <1>0, <2>1, <2>3
  <2>4. CASE Classify(q)
    BY <1>0, <2>3, <2>4, NodesKeepVetted DEF Classify, Returned, Pending, history
  <2>5. CASE Extract(q)
    BY <1>0, <2>3, <2>5, NodesKeepVetted DEF Extract, Returned, Pending, history
  <2>6. CASE Validate(q)
    BY <1>0, <2>3, <2>6, NodesKeepVetted DEF Validate, Returned, Pending, history
  <2>7. CASE AwaitReview(q)
    BY <1>0, <2>3, <2>7, NodesKeepVetted DEF AwaitReview, Returned, Pending, history
  <2>8. CASE Raise(q)
    BY <1>0, <2>3, <2>8, NodesKeepVetted DEF Raise, history
  <2>9. CASE SaveInvoice(q)
    <3>1. c.next = "output" /\ approval' = approval
      BY <2>9 DEF SaveInvoice, Pending, history
    <3>2. db'[t] = [invoice |-> c.invoice, flagged |-> c.needs_review]
      BY <1>0, <2>9 DEF SaveInvoice
    <3>3. Vetted(c, db'[t], approval[t])
      BY <1>0, <3>1, <3>2 DEF Vetted
    <3>4. ck'[t] = c \/ ck'[t] = NodeRaised(c)
      BY <1>0, <2>9 DEF SaveInvoice
    <3>5. Vetted(NodeRaised(c), db'[t], approval[t])
      BY <1>0, <3>3, NodesKeepVetted
    <3>6. QED
      BY <2>1, <3>1, <3>3, <3>4, <3>5
  <2>10. CASE AppendLedger(q)
    BY <1>0, <2>1, <2>10 DEF AppendLedger, history
  <2>11. CASE Complete(q)
    <3>1. c.next = "output"
      BY <2>11 DEF Complete, ExecInv
    <3>2. QED
      BY <1>0, <2>3, <2>11, <3>1, NodesKeepVetted DEF Complete, Returned, history
  <2>12. QED
    BY <1>2, <2>2, <2>4, <2>5, <2>6, <2>7, <2>8, <2>9, <2>10, <2>11 DEF Execute
<1>3. QED
  BY <1>1, <1>2, HandlerEffect

LEMMA ApprovalStep ==
  ASSUME CoreInv, ApprovalInv, [Next]_vars
  PROVE  ApprovalInv'
<1>1. ASSUME NEW q \in Request, Client(q)
      PROVE  ApprovalInv'
  BY <1>1, ClientEffect DEF ApprovalInv, Vetted
<1>2. ASSUME NEW q \in Request, Handler(q)
      PROVE  ApprovalInv'
  BY <1>2, HandlerKeepsVetted
<1>3. CASE Crash
  BY <1>3 DEF Crash, durable, ApprovalInv, Vetted
<1>4. CASE UNCHANGED vars
  BY <1>4 DEF vars, durable, history, ApprovalInv, Vetted
<1>5. QED
  BY <1>1, <1>2, <1>3, <1>4 DEF Next

\* A flagged invoice is in the database only after an approval of that very
\* invoice was applied (graph.py, the approved flag of human_review and output),
\* across restarts and failed nodes, provided that no client posts twice to an id.
THEOREM ApprovalSafety ==
  ASSUME ~Reposts
  PROVE  Spec => []FlaggedSaveWasApproved
<1>1. Init => ApprovalInv
  BY DEF Init, ApprovalInv, Vetted, NoCheckpoint
<1>2. CoreInv /\ ApprovalInv /\ [Next]_vars => ApprovalInv'
  BY ApprovalStep
<1>3. ApprovalInv => FlaggedSaveWasApproved
  BY DEF ApprovalInv, Vetted, FlaggedSaveWasApproved
<1>4. QED
  BY <1>1, <1>2, <1>3, CoreInvariant, PTL DEF Spec

-----------------------------------------------------------------------------
(* Without restarts: one ledger row, and no orphans *)

\* Only the handler between the append and the checkpoint knows of a row before
\* the thread does.
OneRowInv ==
  /\ LedgerAgreesWithDatabase
  /\ \A t \in Run : ledger[t] # <<>> =>
       ck[t].next = "end" \/ \E q \in Request : pc[q] = "commit" /\ req[q].run = t
  /\ \A q \in Request : pc[q] \in {"ledger", "commit"} =>
       db[req[q].run].invoice = ck[req[q].run].invoice

\* A node that is pending without an error or an interrupt is being executed.
ExecutedInv ==
  \A t \in Run : Runnable(ck[t]) /\ ~ck[t].error =>
    \E q \in Request : pc[q] \in InGraph /\ req[q].run = t

\* A handler that is not past its append stands in a run without a row.
LEMMA NoRowYet ==
  ASSUME CoreInv, OneRowInv, NEW q \in Request, pc[q] \in Locked, pc[q] # "commit",
         ck[req[q].run].next # "end"
  PROVE  ledger[req[q].run] = <<>>
<1>1. req[q].run \in Run
  BY DEF CoreInv, FormInv, TypeInv, RunKnown, Locked
<1>2. \A p \in Request : pc[p] = "commit" => req[p].run # req[q].run
  BY Exclusive DEF Locked
<1>3. QED
  BY <1>1, <1>2 DEF OneRowInv

LEMMA HandlerKeepsOneRow ==
  ASSUME CoreInv, OneRowInv, NEW q \in Request, Handler(q)
  PROVE  OneRowInv'
<1> USE DEF CoreInv, FormInv, TypeInv, TypeOK
<1> DEFINE t == req[q].run
           c == ck[t]
<1>0. /\ t \in Run /\ c \in Checkpoint /\ Formed(c) /\ LocalStep(q) /\ KeepsRun(q)
      /\ Invoke(q) \/ Execute(q) => pc[q] \in Locked
  BY HandlerShape, HandlerEffect DEF RunKnown, InGraph, Locked
<1>1. CASE Quiet(q)
  <2>1. UNCHANGED <<ck, db, ledger>> /\ pc[q] # "commit" /\ pc'[q] \notin {"ledger", "commit"}
    BY <1>1 DEF Quiet, InGraph
  <2>2. \A p \in Request : /\ pc[p] = "commit" => pc'[p] = "commit" /\ req'[p].run = req[p].run
                           /\ pc'[p] \in {"ledger", "commit"} => pc'[p] = pc[p] /\ req'[p] = req[p]
    BY <1>0, <2>1 DEF LocalStep
  <2>3. LedgerAgreesWithDatabase'
    BY <2>1 DEF OneRowInv, LedgerAgreesWithDatabase
  <2>4. \A u \in Run : ledger'[u] # <<>> =>
          ck'[u].next = "end" \/ \E p \in Request : pc'[p] = "commit" /\ req'[p].run = u
    <3>1. \A u \in Run : (\E p \in Request : pc[p] = "commit" /\ req[p].run = u) =>
                           \E p \in Request : pc'[p] = "commit" /\ req'[p].run = u
      BY <2>2
    <3>2. QED
      BY <2>1, <3>1 DEF OneRowInv
  <2>5. \A p \in Request : pc'[p] \in {"ledger", "commit"} =>
          db'[req'[p].run].invoice = ck'[req'[p].run].invoice
    BY <2>1, <2>2 DEF OneRowInv
  <2>6. QED
    BY <2>3, <2>4, <2>5 DEF OneRowInv
<1>2. CASE Invoke(q) \/ Execute(q)
  <2>0. \A p \in Request \ {q} :
          /\ pc'[p] = pc[p] /\ req'[p] = req[p]
          /\ pc[p] \in {"ledger", "commit"} => req[p].run \in Run \ {t}
    BY <1>0, <1>2, Exclusive DEF LocalStep, Locked, RunKnown
  <2>1. ASSUME ledger'[t] = <<>> \/ ledger'[t] = <<db'[t].invoice>>,
               ledger'[t] # <<>> => ck'[t].next = "end" \/ pc'[q] = "commit",
               pc'[q] \in {"ledger", "commit"} => db'[t].invoice = ck'[t].invoice
        PROVE  OneRowInv'
    <3>1. LedgerAgreesWithDatabase'
      <4>1. \A u \in Run \ {t} : ledger'[u] = ledger[u] /\ db'[u] = db[u]
        BY <1>2, HandlerEffect
      <4>2. \A u \in Run \ {t} : ledger'[u] = <<>> \/ ledger'[u] = <<db'[u].invoice>>
        BY <4>1 DEF OneRowInv, LedgerAgreesWithDatabase
      <4>3. QED
        BY <2>1, <4>2 DEF LedgerAgreesWithDatabase
    <3>2. ASSUME NEW u \in Run, ledger'[u] # <<>>
          PROVE  ck'[u].next = "end" \/ \E p \in Request : pc'[p] = "commit" /\ req'[p].run = u
      <4>1. CASE u = t
        BY <1>0, <2>1, <3>2, <4>1 DEF KeepsRun
      <4>2. CASE u # t
        <5>1. ck'[u] = ck[u] /\ ledger'[u] = ledger[u]
          BY <1>2, <4>2, HandlerEffect
        <5>2. ck[u].next = "end" \/ \E p \in Request \ {q} : pc[p] = "commit" /\ req[p].run = u
          BY <3>2, <4>2, <5>1 DEF OneRowInv
        <5>3. QED
          BY <2>0, <5>1, <5>2
      <4>3. QED
        BY <4>1, <4>2
    <3>3. ASSUME NEW p \in Request, pc'[p] \in {"ledger", "commit"}
          PROVE  db'[req'[p].run].invoice = ck'[req'[p].run].invoice
      <4>1. CASE p = q
        BY <1>0, <2>1, <3>3, <4>1 DEF KeepsRun
      <4>2. CASE p # q
        BY <1>2, <2>0, <3>3, <4>2, HandlerEffect DEF OneRowInv
      <4>3. QED
        BY <4>1, <4>2
    <3>4. QED
      BY <3>1, <3>2, <3>3 DEF OneRowInv
  <2>2. pc[q] # "commit" /\ c.next # "end" => ledger[t] = <<>>
    BY <1>0, <1>2, NoRowYet
  <2>3. ASSUME UNCHANGED <<db, ledger>>, pc[q] # "commit", pc'[q] \notin {"ledger", "commit"},
               ck'[t].next = "end" \/ c.next # "end"
        PROVE  OneRowInv'
    BY <1>0, <2>1, <2>2, <2>3 DEF OneRowInv, LedgerAgreesWithDatabase
  <2>4. CASE Invoke(q)
    <3>1. c.next = "end" => ck'[t] = c
      <4>1. c.next = "end" => c # NoCheckpoint /\ ~c.interrupted
        BY <1>0 DEF Formed, NoCheckpoint
      <4>2. QED
        BY <2>4, <4>1, InvokeCases
    <3>2. UNCHANGED <<db, ledger>> /\ pc[q] = "invoke" /\ pc'[q] \in {"node", "publish"}
      BY <2>4 DEF Invoke, Goto
    <3>3. QED
      BY <2>3, <3>1, <3>2
  <2>5. CASE Classify(q) \/ Extract(q) \/ Validate(q) \/ AwaitReview(q) \/ Raise(q)
    <3>1. UNCHANGED <<db, ledger>> /\ pc[q] = "node" /\ pc'[q] \in {"node", "publish"}
      BY <2>5 DEF Classify, Extract, Validate, AwaitReview, Raise, Pending, Returned, Goto
    <3>2. c.next # "end"
      BY <3>1 DEF ExecInv, Runnable, Node
    <3>3. QED
      BY <2>3, <3>1, <3>2
  <2>6. CASE SaveInvoice(q)
    <3>1. c.next = "output" /\ pc[q] = "node" /\ pc'[q] \in {"ledger", "publish"}
      BY <2>6 DEF SaveInvoice, Pending, Goto
    <3>2. ledger'[t] = <<>>
      BY <2>2, <2>6, <3>1 DEF SaveInvoice
    <3>3. db'[t].invoice = c.invoice
      BY <1>0, <2>6 DEF SaveInvoice
    <3>4. pc'[q] = "ledger" => ck'[t] = c
      BY <2>6, <3>1 DEF SaveInvoice, Goto
    <3>5. QED
      BY <2>1, <3>1, <3>2, <3>3, <3>4
  <2>7. CASE AppendLedger(q)
    <3>1. c.next = "output" /\ pc[q] = "ledger" /\ pc'[q] = "commit" /\ UNCHANGED <<ck, db>>
      BY <2>7 DEF AppendLedger, Goto, ExecInv
    <3>2. ledger[t] = <<>> /\ db[t].invoice = c.invoice
      BY <2>2, <3>1 DEF OneRowInv
    <3>3. ledger'[t] \in {<<>>, Append(<<>>, c.invoice)}
      BY <1>0, <2>7, <3>2 DEF AppendLedger
    <3>4. Append(<<>>, c.invoice) = <<c.invoice>>
      OBVIOUS
    <3>5. QED
      BY <2>1, <3>1, <3>2, <3>3, <3>4
  <2>8. CASE Complete(q)
    <3>1. pc[q] = "commit" /\ UNCHANGED <<db, ledger>> /\ pc'[q] \in {"node", "publish"}
      BY <2>8 DEF Complete, Returned, Goto
    <3>2. ck'[t].next = "end"
      BY <1>0, <2>8, NodeFields DEF Complete, Returned
    <3>3. QED
      BY <1>0, <2>1, <3>1, <3>2 DEF OneRowInv, LedgerAgreesWithDatabase
  <2>9. QED
    BY <1>2, <2>4, <2>5, <2>6, <2>7, <2>8 DEF Execute
<1>3. QED
  BY <1>1, <1>2, HandlerEffect

LEMMA HandlerKeepsExecuted ==
  ASSUME CoreInv, ExecutedInv, NEW q \in Request, Handler(q)
  PROVE  ExecutedInv'
<1> USE DEF CoreInv, FormInv, TypeInv
<1> DEFINE t == req[q].run
<1>0. LocalStep(q) /\ KeepsRun(q)
  BY HandlerShape
<1>1. ASSUME NEW u \in Run, Runnable(ck'[u]), ~ck'[u].error
      PROVE  \E p \in Request : pc'[p] \in InGraph /\ req'[p].run = u
  <2>1. ASSUME ck'[u] = ck[u], pc[q] \in InGraph => u # t
        PROVE  \E p \in Request : pc'[p] \in InGraph /\ req'[p].run = u
    <3>1. PICK p \in Request : pc[p] \in InGraph /\ req[p].run = u
      BY <1>1, <2>1 DEF ExecutedInv
    <3>2. p # q
      BY <2>1, <3>1
    <3>3. QED
      BY <1>0, <3>1, <3>2 DEF LocalStep
  <2>2. CASE Quiet(q)
    BY <2>1, <2>2 DEF Quiet
  <2>3. CASE (Invoke(q) \/ Execute(q)) /\ u # t
    BY <2>1, <2>3, HandlerEffect
  <2>4. CASE (Invoke(q) \/ Execute(q)) /\ u = t
    <3>1. pc'[q] \in InGraph
      BY <1>1, <2>4, ExecSelf
    <3>2. QED
      BY <1>0, <2>4, <3>1 DEF KeepsRun
  <2>5. QED
    BY <2>2, <2>3, <2>4, HandlerEffect
<1>2. \A u \in Run : Runnable(ck[u])' /\ ~ck'[u].error =>
        \E p \in Request : pc'[p] \in InGraph /\ req'[p].run = u
  BY <1>1 DEF Runnable
<1>3. QED
  BY <1>2 DEF ExecutedInv

LEMMA NoRestartStep ==
  ASSUME MaxCrashes = 0, CoreInv, OneRowInv, ExecutedInv, [Next]_vars
  PROVE  OneRowInv' /\ ExecutedInv'
<1>1. ASSUME NEW q \in Request, Client(q)
      PROVE  OneRowInv' /\ ExecutedInv'
  <2>1. UNCHANGED <<ck, db, ledger>>
    BY <1>1, ClientEffect
  <2>2. \A p \in Request : /\ pc[p] \in InGraph => pc'[p] = pc[p] /\ req'[p] = req[p]
                           /\ pc'[p] \in InGraph => pc'[p] = pc[p] /\ req'[p] = req[p]
    BY <1>1, ClientEffect DEF LocalStep, Locked, InGraph
  <2>3. OneRowInv'
    BY <2>1, <2>2 DEF OneRowInv, LedgerAgreesWithDatabase, InGraph
  <2>4. ExecutedInv'
    <3>1. \A t \in Run : (\E p \in Request : pc[p] \in InGraph /\ req[p].run = t) =>
                          \E p \in Request : pc'[p] \in InGraph /\ req'[p].run = t
      BY <2>2
    <3>2. QED
      BY <2>1, <3>1 DEF ExecutedInv, Runnable
  <2>5. QED
    BY <2>3, <2>4
<1>2. ASSUME NEW q \in Request, Handler(q)
      PROVE  OneRowInv' /\ ExecutedInv'
  BY <1>2, HandlerKeepsOneRow, HandlerKeepsExecuted
<1>3. ~Crash
  BY DEF CoreInv, FormInv, TypeInv, TypeOK, Crash
<1>4. CASE UNCHANGED vars
  BY <1>4 DEF vars, durable, OneRowInv, LedgerAgreesWithDatabase, ExecutedInv, Runnable
<1>5. QED
  BY <1>1, <1>2, <1>3, <1>4 DEF Next

LEMMA NoRestartInvariant ==
  ASSUME ~Reposts, MaxCrashes = 0
  PROVE  Spec => [](CoreInv /\ OneRowInv /\ ExecutedInv)
<1>1. Init => OneRowInv /\ ExecutedInv
  BY DEF Init, OneRowInv, LedgerAgreesWithDatabase, ExecutedInv, Runnable, NoCheckpoint, Node
<1>2. CoreInv /\ OneRowInv /\ ExecutedInv /\ [Next]_vars => OneRowInv' /\ ExecutedInv'
  BY NoRestartStep
<1>3. QED
  BY <1>1, <1>2, CoreInvariant, PTL DEF Spec

\* In a process that is never restarted a run has at most one ledger row, and it
\* repeats the saved invoice (graph.py, output(): the append after the save).
THEOREM OneLedgerRow ==
  ASSUME ~Reposts, MaxCrashes = 0
  PROVE  Spec => []LedgerAgreesWithDatabase
<1>1. OneRowInv => LedgerAgreesWithDatabase
  BY DEF OneRowInv
<1>2. QED
  BY <1>1, NoRestartInvariant, PTL

\* In a process that is never restarted every run that is processing has a
\* handler executing it (service.py, _guarded_invoke).
THEOREM NoOrphanSafety ==
  ASSUME ~Reposts, MaxCrashes = 0
  PROVE  Spec => []NoOrphan
<1>1. CoreInv /\ ExecutedInv => NoOrphan
  <2>1. SUFFICES ASSUME CoreInv, ExecutedInv, NEW t \in Run, Status(t) = "processing"
                 PROVE  lock[t] # NoRequest
    BY DEF NoOrphan
  <2>2. Runnable(ck[t]) /\ ~ck[t].error
    BY <2>1 DEF CoreInv, FormInv, TypeInv, TypeOK, Checkpoint, Status, DeriveStatus, Runnable
  <2>3. PICK q \in Request : pc[q] \in InGraph /\ req[q].run = t
    BY <2>1, <2>2 DEF ExecutedInv
  <2>4. lock[t] = q
    BY <2>1, <2>3 DEF CoreInv, LockDiscipline, InGraph, Locked
  <2>5. QED
    BY <2>4, RequestAssumption
<1>2. QED
  BY <1>1, NoRestartInvariant, PTL

-----------------------------------------------------------------------------
(* What a run saves while it is executed *)

\* Until a run ends it has saved nothing, or what its output node is to save.
SavedInv ==
  \A t \in Run :
    /\ ck[t].next \notin {"output", "end"} => db[t].invoice = NoInvoice
    /\ ck[t].next = "output" => db[t].invoice \in {NoInvoice, ck[t].invoice}

\* Who executes what, what is saved, and what is in the ledger.
ServiceInv == CoreInv /\ OneRowInv /\ ExecutedInv /\ SavedInv

\* A node's result is for a node that saved nothing yet, or keeps the invoice.
LEMMA HandlerKeepsSaved ==
  ASSUME CoreInv, SavedInv, NEW q \in Request, Handler(q)
  PROVE  SavedInv'
<1> USE DEF CoreInv, FormInv, TypeInv, TypeOK
<1> DEFINE t == req[q].run
           c == ck[t]
<1>0. t \in Run /\ c \in Checkpoint /\ Formed(c)
  BY HandlerShape DEF RunKnown
<1>1. CASE Quiet(q)
  BY <1>1 DEF Quiet, SavedInv
<1>2. CASE Invoke(q) \/ Execute(q)
  <2>1. ASSUME ck'[t].next \notin {"output", "end"} => db'[t].invoice = NoInvoice,
               ck'[t].next = "output" => db'[t].invoice \in {NoInvoice, ck'[t].invoice}
        PROVE  SavedInv'
    <3>1. \A u \in Run \ {t} : ck'[u] = ck[u] /\ db'[u] = db[u]
      BY <1>2, HandlerEffect
    <3>2. QED
      BY <2>1, <3>1 DEF SavedInv
  <2>2. ASSUME db' = db, \/ ck'[t].next = c.next /\ ck'[t].invoice = c.invoice
                         \/ c.next \notin {"output", "end"}
                         \/ ck'[t].next = "end"
        PROVE  SavedInv'
    BY <1>0, <2>1, <2>2 DEF SavedInv
  <2>3. CASE Invoke(q)
    <3>1. ck'[t] = c \/ c = NoCheckpoint \/ c.interrupted
      BY <2>3, InvokeCases
    <3>2. c = NoCheckpoint \/ c.interrupted => c.next \notin {"output", "end"}
      BY <1>0 DEF NoCheckpoint, Formed
    <3>3. QED
      BY <2>2, <2>3, <3>1, <3>2 DEF Invoke
  <2>4. CASE Classify(q) \/ Extract(q) \/ Validate(q) \/ AwaitReview(q)
    BY <2>2, <2>4 DEF Classify, Extract, Validate, AwaitReview, Pending
  <2>5. CASE Raise(q)
    <3>1. ck'[t] = NodeRaised(c) /\ db' = db
      BY <1>0, <2>5 DEF Raise
    <3>2. QED
      BY <1>0, <2>2, <3>1, NodeFields DEF Same
  <2>6. CASE SaveInvoice(q)
    <3>1. db'[t].invoice = c.invoice /\ c.next = "output"
      BY <1>0, <2>6 DEF SaveInvoice, Pending
    <3>2. ck'[t] \in {c, NodeRaised(c)}
      BY <1>0, <2>6 DEF SaveInvoice
    <3>3. ck'[t].next = "output" /\ ck'[t].invoice = c.invoice
      BY <1>0, <3>1, <3>2, NodeFields DEF Same
    <3>4. QED
      BY <2>1, <3>1, <3>3
  <2>7. CASE AppendLedger(q)
    BY <2>2, <2>7 DEF AppendLedger
  <2>8. CASE Complete(q)
    <3>1. ck'[t].next = "end" /\ db' = db
      BY <1>0, <2>8, NodeFields DEF Complete, Returned
    <3>2. QED
      BY <2>2, <3>1
  <2>9. QED
    BY <1>2, <2>3, <2>4, <2>5, <2>6, <2>7, <2>8 DEF Execute
<1>3. QED
  BY <1>1, <1>2, HandlerEffect

LEMMA SavedStep ==
  ASSUME CoreInv, SavedInv, [Next]_vars
  PROVE  SavedInv'
<1>1. ASSUME NEW q \in Request, Client(q)
      PROVE  SavedInv'
  BY <1>1, ClientEffect DEF SavedInv
<1>2. ASSUME NEW q \in Request, Handler(q)
      PROVE  SavedInv'
  BY <1>2, HandlerKeepsSaved
<1>3. CASE Crash \/ UNCHANGED vars
  BY <1>3 DEF Crash, vars, durable, SavedInv
<1>4. QED
  BY <1>1, <1>2, <1>3 DEF Next

LEMMA ServiceInvariant ==
  ASSUME ~Reposts, MaxCrashes = 0
  PROVE  Spec => []ServiceInv
<1>1. Init => SavedInv
  BY DEF Init, SavedInv
<1>2. CoreInv /\ SavedInv /\ [Next]_vars => SavedInv'
  BY SavedStep
<1>3. QED
  BY <1>1, <1>2, NoRestartInvariant, PTL DEF Spec, ServiceInv

-----------------------------------------------------------------------------
(* From the service to the contract *)

AbsStatus == [t \in Run |-> Status(t)]
AbsSaved  == [t \in Run |-> db[t].invoice]
AbsRows   == [t \in Run |-> Len(ledger[t])]

\* A step that writes for one run only.
OnlyRun(t) ==
  \A u \in Run \ {t} : ck'[u] = ck[u] /\ db'[u] = db[u] /\ ledger'[u] = ledger[u]

KeepsTables(t) == db'[t].invoice = db[t].invoice /\ ledger'[t] = ledger[t]

LEMMA Lift ==
  ASSUME NEW t \in Run, OnlyRun(t)
  PROVE  /\ AbsStatus' = [AbsStatus EXCEPT ![t] = DeriveStatus(ck'[t])]
         /\ AbsSaved' = [AbsSaved EXCEPT ![t] = db'[t].invoice]
         /\ AbsRows' = [AbsRows EXCEPT ![t] = Len(ledger'[t])]
BY DEF OnlyRun, AbsStatus, AbsSaved, AbsRows, Status

\* Every arrow of the contract that moves one run's status and not its tables.
LEMMA StatusArrow ==
  ASSUME NEW t \in Run, OnlyRun(t), KeepsTables(t),
         LET s == DeriveStatus(ck[t])
             n == DeriveStatus(ck'[t])
         IN  \/ n = s
             \/ s = "unknown" /\ n = "processing"
             \/ s \in {"processing", "failed"} /\ n \in {"processing", "failed", "needs_review"}
             \/ s = "needs_review" /\ n = "processing"
             \/ s \in {"processing", "failed"} /\ n = "skipped" /\ db[t].invoice = NoInvoice
             \/ s \in {"processing", "failed"} /\ n = "completed" /\ db[t].invoice # NoInvoice
  PROVE  [Contract!Next]_(Contract!contractVars)
<1> DEFINE n == DeriveStatus(ck'[t])
<1>1. /\ AbsStatus' = [AbsStatus EXCEPT ![t] = n] /\ AbsSaved' = AbsSaved /\ AbsRows' = AbsRows
      /\ AbsStatus[t] = DeriveStatus(ck[t]) /\ AbsSaved[t] = db[t].invoice
      /\ AbsStatus = [AbsStatus EXCEPT ![t] = AbsStatus[t]]
  BY Lift DEF KeepsTables, AbsStatus, AbsSaved, AbsRows, Status
<1>2. CASE n = AbsStatus[t]
  BY <1>1, <1>2 DEF Contract!contractVars, AbsStatus, AbsSaved, AbsRows
<1>3. CASE AbsStatus[t] = "unknown" /\ n = "processing"
  <2>1. Contract!Accept(t)
    BY <1>1, <1>3 DEF Contract!Accept, Contract!Become, AbsStatus, AbsSaved, AbsRows
  <2>2. QED
    BY <2>1 DEF Contract!Next
<1>4. CASE \/ /\ AbsStatus[t] \in {"processing", "failed"}
              /\ n \in {"processing", "failed", "needs_review"}
           \/ AbsStatus[t] = "needs_review" /\ n = "processing"
  <2>1. Contract!Work(t)
    BY <1>1, <1>4 DEF Contract!Work, Contract!Become, Contract!Active, AbsStatus, AbsSaved, AbsRows
  <2>2. QED
    BY <2>1 DEF Contract!Next
<1>5. CASE AbsStatus[t] \in {"processing", "failed"} /\ n = "skipped" /\ AbsSaved[t] = NoInvoice
  <2>1. Contract!Skip(t)
    BY <1>1, <1>5 DEF Contract!Skip, Contract!Become, Contract!Active, AbsStatus, AbsSaved, AbsRows
  <2>2. QED
    BY <2>1 DEF Contract!Next
<1>6. CASE AbsStatus[t] \in {"processing", "failed"} /\ n = "completed" /\ AbsSaved[t] # NoInvoice
  <2>1. Contract!Complete(t)
    BY <1>1, <1>6
    DEF Contract!Complete, Contract!Become, Contract!Active, AbsStatus, AbsSaved, AbsRows
  <2>2. QED
    BY <2>1 DEF Contract!Next
<1>7. QED
  BY <1>1, <1>2, <1>3, <1>4, <1>5, <1>6

\* The two writes of output().
LEMMA SaveArrow ==
  ASSUME NEW t \in Run, OnlyRun(t), ledger'[t] = ledger[t],
         DeriveStatus(ck[t]) \in {"processing", "failed"},
         DeriveStatus(ck'[t]) \in {DeriveStatus(ck[t]), "failed"},
         db'[t].invoice \in Invoice, db[t].invoice \in {NoInvoice, db'[t].invoice}
  PROVE  Contract!Next
<1> DEFINE n == DeriveStatus(ck'[t])
           i == db'[t].invoice
<1>1. /\ AbsStatus' = [AbsStatus EXCEPT ![t] = n] /\ AbsSaved' = [AbsSaved EXCEPT ![t] = i]
      /\ AbsRows' = AbsRows /\ AbsStatus[t] = DeriveStatus(ck[t]) /\ AbsSaved[t] = db[t].invoice
  BY Lift DEF AbsStatus, AbsSaved, AbsRows, Status
<1>2. i \in Invoice /\ AbsSaved[t] \in {NoInvoice, i} /\ n \in {AbsStatus[t], "failed"}
  BY <1>1
<1> HIDE DEF n, i
<1>3. Contract!Save(t)
  BY <1>1, <1>2 DEF Contract!Save, Contract!Become, Contract!Active, AbsStatus, AbsSaved, AbsRows
<1>4. QED
  BY <1>3 DEF Contract!Next

LEMMA RecordArrow ==
  ASSUME NEW t \in Run, OnlyRun(t), ck'[t] = ck[t], db'[t] = db[t],
         DeriveStatus(ck[t]) \in {"processing", "failed"},
         db[t].invoice # NoInvoice, ledger[t] = <<>>, Len(ledger'[t]) = 1
  PROVE  Contract!Next
<1>1. /\ AbsStatus' = AbsStatus /\ AbsSaved' = AbsSaved /\ AbsRows' = [AbsRows EXCEPT ![t] = 1]
      /\ AbsStatus[t] = DeriveStatus(ck[t]) /\ AbsSaved[t] = db[t].invoice /\ AbsRows[t] = 0
  BY Lift DEF AbsStatus, AbsSaved, AbsRows, Status
<1>2. Contract!Record(t)
  BY <1>1 DEF Contract!Record, Contract!Active, AbsStatus, AbsSaved, AbsRows
<1>3. QED
  BY <1>2 DEF Contract!Next

-----------------------------------------------------------------------------
(* Every step is an arrow, or invisible *)

\* The status of a thread by what its checkpoint has pending.
LEMMA StatusByNode ==
  ASSUME NEW c \in Checkpoint
  PROVE  /\ c = NoCheckpoint => DeriveStatus(c) = "unknown"
         /\ c.next \in Node => DeriveStatus(c) \in {"processing", "failed", "needs_review"}
         /\ c.next \in Node /\ ~c.interrupted => DeriveStatus(c) \in {"processing", "failed"}
         /\ c.next \in Node /\ ~c.interrupted /\ ~c.error => DeriveStatus(c) = "processing"
         /\ c.next \in Node /\ c.interrupted => DeriveStatus(c) \in {"failed", "needs_review"}
         /\ c.next \in Node /\ c.error => DeriveStatus(c) = "failed"
BY DEF NoCheckpoint, Node, Checkpoint, DeriveStatus

\* What a node's return makes of the status.
LEMMA StatusOfReturn ==
  ASSUME NEW c \in Checkpoint, c.next \in Node
  PROVE  /\ \A i : DeriveStatus(Started(c, i)) = "processing"
         /\ DeriveStatus(RouterReturns(c, "invoice")) = "processing"
         /\ DeriveStatus(RouterReturns(c, "other")) = "skipped"
         /\ DeriveStatus(ExtractorReturns(c)) = "processing"
         /\ \A b \in BOOLEAN : DeriveStatus(ValidatorReturns(c, b)) = "processing"
         /\ DeriveStatus(HumanReviewInterrupts(c)) \in {"failed", "needs_review"}
         /\ \A i : DeriveStatus(HumanReviewEdited(c, i)) = "processing"
         /\ DeriveStatus(HumanReviewApproved(c)) = "processing"
         /\ \A l : DeriveStatus(OutputReturns(c, l)) = "completed"
         /\ DeriveStatus(NodeRaised(c)) = "failed"
<1> USE DEF DeriveStatus, Checkpoint, Node, Advance
<1>1. \A i : DeriveStatus(Started(c, i)) = "processing"
  BY DEF Started
<1>2. /\ DeriveStatus(RouterReturns(c, "invoice")) = "processing"
      /\ DeriveStatus(RouterReturns(c, "other")) = "skipped"
  BY DEF RouterReturns, RouteAfterClassification
<1>3. DeriveStatus(ExtractorReturns(c)) = "processing"
  BY DEF ExtractorReturns
<1>4. \A b \in BOOLEAN : DeriveStatus(ValidatorReturns(c, b)) = "processing"
  BY DEF ValidatorReturns, RouteAfterValidation
<1>5. DeriveStatus(HumanReviewInterrupts(c)) \in {"failed", "needs_review"}
  BY DEF HumanReviewInterrupts
<1>6. /\ \A i : DeriveStatus(HumanReviewEdited(c, i)) = "processing"
      /\ DeriveStatus(HumanReviewApproved(c)) = "processing"
  BY DEF HumanReviewEdited, HumanReviewApproved
<1>7. \A l : DeriveStatus(OutputReturns(c, l)) = "completed"
  BY DEF OutputReturns
<1>8. DeriveStatus(NodeRaised(c)) = "failed"
  BY DEF NodeRaised
<1>9. QED
  BY <1>1, <1>2, <1>3, <1>4, <1>5, <1>6, <1>7, <1>8

LEMMA StartedStatus == \A i : DeriveStatus(Started(NoCheckpoint, i)) = "processing"
BY DEF Started, NoCheckpoint, Advance, DeriveStatus

LEMMA HandlerImplements ==
  ASSUME ServiceInv, NEW q \in Request, Handler(q)
  PROVE  [Contract!Next]_(Contract!contractVars)
<1> USE DEF ServiceInv, CoreInv, FormInv, TypeInv, TypeOK
<1> DEFINE t == req[q].run
           c == ck[t]
           Underway == DeriveStatus(c) \in {"processing", "failed"}
<1>0. t \in Run /\ c \in Checkpoint /\ Formed(c)
  BY HandlerShape DEF RunKnown
<1>1. CASE Quiet(q)
  BY <1>1 DEF Quiet, Contract!contractVars, Status
<1>2. CASE Invoke(q) \/ Execute(q)
  <2>0. OnlyRun(t)
    BY <1>2, HandlerEffect DEF OnlyRun
  <2>1. CASE Invoke(q)
    <3>1. KeepsTables(t)
      BY <2>1 DEF Invoke, KeepsTables
    <3>2. CASE c = NoCheckpoint /\ ck'[t] = Started(c, req[q].invoice)
      BY <1>0, <2>0, <3>1, <3>2, StatusByNode, StartedStatus, StatusArrow
    <3>3. CASE c.interrupted /\ ck'[t] \in {HumanReviewEdited(c, req[q].invoice), HumanReviewApproved(c)}
      <4>1. c.next \in Node
        BY <1>0, <3>3 DEF Formed, Node
      <4>2. DeriveStatus(c) \in {"failed", "needs_review"} /\ DeriveStatus(ck'[t]) = "processing"
        BY <1>0, <3>3, <4>1, StatusByNode, StatusOfReturn
      <4>3. QED
        BY <1>0, <2>0, <3>1, <4>2, StatusArrow
    <3>4. CASE ck'[t] = c
      BY <1>0, <2>0, <3>1, <3>4, StatusArrow
    <3>5. QED
      BY <2>1, <3>2, <3>3, <3>4, InvokeCases
  <2>2. ASSUME Execute(q)
        PROVE  c.next \in Node /\ Underway
    <3>1. pc[q] \in InGraph
      BY <2>2 DEF Execute, Classify, Extract, Validate, AwaitReview, Raise, SaveInvoice,
        AppendLedger, Complete, Pending, InGraph
    <3>2. c.next \in Node /\ ~c.interrupted
      BY <1>0, <3>1 DEF ExecInv, InGraph, Runnable, Node, Formed
    <3>3. QED
      BY <1>0, <3>2, StatusByNode
  <2>3. ASSUME NEW d, ck' = [ck EXCEPT ![t] = d], UNCHANGED <<db, ledger>>
        PROVE  ck'[t] = d /\ KeepsTables(t)
    BY <1>0, <2>3 DEF KeepsTables
  <2>4. CASE Classify(q)
    <3>1. /\ ck'[t] \in {RouterReturns(c, "invoice"), RouterReturns(c, "other")}
          /\ KeepsTables(t) /\ c.next = "router"
      BY <2>3, <2>4 DEF Classify, Returned, Pending
    <3>2. DeriveStatus(ck'[t]) \in {"processing", "skipped"} /\ Underway
      BY <1>0, <2>2, <2>4, <3>1, StatusOfReturn DEF Execute
    <3>3. db[t].invoice = NoInvoice
      BY <1>0, <3>1 DEF SavedInv
    <3>4. QED
      BY <1>0, <2>0, <3>1, <3>2, <3>3, StatusArrow
  <2>5. CASE Extract(q) \/ Validate(q) \/ AwaitReview(q)
    <3>1. /\ KeepsTables(t)
          /\ \/ ck'[t] \in {ExtractorReturns(c), HumanReviewInterrupts(c)}
             \/ \E b \in BOOLEAN : ck'[t] = ValidatorReturns(c, b)
      BY <2>3, <2>5 DEF Extract, Validate, AwaitReview, Returned
    <3>2. DeriveStatus(ck'[t]) \in {"processing", "failed", "needs_review"} /\ Underway
      BY <1>0, <2>2, <2>5, <3>1, StatusOfReturn DEF Execute
    <3>3. QED
      BY <1>0, <2>0, <3>1, <3>2, StatusArrow
  <2>6. CASE Raise(q)
    <3>1. ck'[t] = NodeRaised(c) /\ KeepsTables(t)
      BY <2>3, <2>6 DEF Raise
    <3>2. DeriveStatus(ck'[t]) = "failed" /\ Underway
      BY <1>0, <2>2, <2>6, <3>1, StatusOfReturn DEF Execute
    <3>3. QED
      BY <1>0, <2>0, <3>1, <3>2, StatusArrow
  <2>7. CASE SaveInvoice(q)
    <3>1. /\ c.next = "output" /\ db'[t].invoice = c.invoice /\ ledger' = ledger
          /\ ck'[t] \in {c, NodeRaised(c)}
      BY <1>0, <2>7 DEF SaveInvoice, Pending
    <3>2. Underway /\ DeriveStatus(ck'[t]) \in {DeriveStatus(c), "failed"}
      BY <1>0, <2>2, <2>7, <3>1, StatusOfReturn DEF Execute
    <3>3. c.invoice \in Invoice /\ db[t].invoice \in {NoInvoice, c.invoice}
      BY <1>0, <3>1 DEF Formed, SavedInv
    <3>4. QED
      BY <1>0, <2>0, <3>1, <3>2, <3>3, SaveArrow
  <2>8. CASE AppendLedger(q)
    <3>1. /\ pc[q] = "ledger" /\ UNCHANGED <<ck, db>> /\ c.next = "output" /\ Underway
          /\ ledger' \in {ledger, [ledger EXCEPT ![t] = Append(ledger[t], c.invoice)]}
      BY <2>2, <2>8 DEF AppendLedger, Execute, ExecInv
    <3>2. ledger[t] = <<>>
      BY <3>1, NoRowYet DEF Locked
    <3>3. db[t].invoice # NoInvoice
      BY <1>0, <3>1, NoInvoiceAssumption DEF OneRowInv, Formed
    <3>4. CASE ledger' = ledger
      BY <3>1, <3>4 DEF Contract!contractVars, Status
    <3>5. CASE ledger' # ledger
      <4>1. ledger'[t] = Append(<<>>, c.invoice)
        BY <1>0, <3>1, <3>2, <3>5
      <4>2. Append(<<>>, c.invoice) = <<c.invoice>> /\ Len(<<c.invoice>>) = 1
        OBVIOUS
      <4>3. QED
        BY <1>0, <2>0, <3>1, <3>2, <3>3, <4>1, <4>2, RecordArrow
    <3>6. QED
      BY <3>4, <3>5
  <2>9. CASE Complete(q)
    <3>1. pc[q] = "commit" /\ KeepsTables(t) /\ \E l : ck'[t] = OutputReturns(c, l)
      BY <2>3, <2>9 DEF Complete, Returned
    <3>2. DeriveStatus(ck'[t]) = "completed" /\ Underway
      BY <1>0, <2>2, <2>9, <3>1, StatusOfReturn DEF Execute
    <3>3. db[t].invoice # NoInvoice
      BY <1>0, <3>1, NoInvoiceAssumption DEF OneRowInv, Formed, ExecInv
    <3>4. QED
      BY <1>0, <2>0, <3>1, <3>2, <3>3, StatusArrow
  <2>10. QED
    BY <1>2, <2>1, <2>4, <2>5, <2>6, <2>7, <2>8, <2>9 DEF Execute
<1>3. QED
  BY <1>1, <1>2, HandlerEffect

LEMMA StepImplements ==
  ASSUME MaxCrashes = 0, ServiceInv, [Next]_vars
  PROVE  [Contract!Next]_(Contract!contractVars)
<1>1. ASSUME NEW q \in Request, Client(q)
      PROVE  [Contract!Next]_(Contract!contractVars)
  <2>1. UNCHANGED <<ck, db, ledger>>
    BY <1>1, ClientEffect DEF ServiceInv
  <2>2. QED
    BY <2>1 DEF Contract!contractVars, Status
<1>2. ASSUME NEW q \in Request, Handler(q)
      PROVE  [Contract!Next]_(Contract!contractVars)
  BY <1>2, HandlerImplements
<1>3. ~Crash
  BY DEF ServiceInv, CoreInv, FormInv, TypeInv, TypeOK, Crash
<1>4. CASE UNCHANGED vars
  BY <1>4 DEF vars, durable, Contract!contractVars, Status
<1>5. QED
  BY <1>1, <1>2, <1>3, <1>4 DEF Next

\* The service keeps its contract: seen through the statuses and the tables, its
\* locks, retries, approvals and edits (service.py, graph.py) are a run that saves
\* and records one invoice at most, in that order, and completes only after saving.
THEOREM ContractImplemented ==
  ASSUME ~Reposts, MaxCrashes = 0
  PROVE  Spec => ImplementsContract
<1>1. Init => Contract!Init
  <2>1. ASSUME Init
        PROVE  \A t \in Run : /\ Status(t) = "unknown" /\ db[t].invoice = NoInvoice
                              /\ Len(ledger[t]) = 0
    BY <2>1 DEF Init, NoCheckpoint, Status, DeriveStatus
  <2>2. QED
    BY <2>1 DEF Contract!Init
<1>2. ServiceInv /\ [Next]_vars => [Contract!Next]_(Contract!contractVars)
  BY StepImplements
<1>3. QED
  BY <1>1, <1>2, ServiceInvariant, PTL DEF Spec, ImplementsContract, Contract!Spec
=============================================================================
