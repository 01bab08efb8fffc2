------------------------- MODULE PersistenceProofs -------------------------
(***************************************************************************)
(* Theorems about the tables the runs share: what an insert_invoice that   *)
(* fails half-way leaves, who can overwrite whom, where the link to a PDF  *)
(* leads, and what a download of the ledger holds.  For the first three    *)
(* the steps of a run are looked at one by one, and the ledger only moves  *)
(* a run's program counter; for the last, the ledger's.                    *)
(***************************************************************************)
EXTENDS Persistence, FiniteSetTheorems, SelectionFacts

\* A step of a run at the ledger or past it, as the store sees it.
After(r) ==
  /\ pc[r] \in {"ledger", "commit"}
  /\ \E next \in {"commit", "done"} : pc' = [pc EXCEPT ![r] = next]
  /\ UNCHANGED <<key, hasItems, flagged, attempt, header, items, bucket>>
  /\ UNCHANGED <<raced, overlapped, saved>>

\* Steps that leave the store alone.
Aside == UNCHANGED <<storeVars, raced, overlapped, saved>>

Complete(r) == DeleteOldItems(r) /\ saved' = [saved EXCEPT ![key[r]] = Batch(r)]

LEMMA StepShape ==
  ASSUME [Next]_vars
  PROVE  \/ Aside
         \/ \E r \in Run : After(r)
         \/ \E r \in Run : BeforeSaved(r) /\ UNCHANGED saved /\ Observe
         \/ \E r \in Run : Complete(r) /\ Observe
<1>1. CASE UNCHANGED vars
  BY <1>1 DEF vars, Aside
<1>2. CASE Read
  BY <1>2 DEF Read, Aside
<1>3. ASSUME NEW r \in Run, AppendLedger(r)
      PROVE  After(r)
  BY <1>3 DEF AppendLedger, After, Proceed
<1>4. ASSUME NEW r \in Run, Save(r)
      PROVE  (BeforeSaved(r) /\ UNCHANGED saved /\ Observe) \/ (Complete(r) /\ Observe)
  BY <1>4 DEF Save, Complete
<1>5. QED
  BY <1>1, <1>2, <1>3, <1>4 DEF Next

-----------------------------------------------------------------------------
(* Types *)

\* Executions of output() are counted from the first one, and a review is for a
\* flag: what keeps attempt within its bound.
Counted ==
  \A r \in Run :
    /\ pc[r] \in {"validate", "review"} <=> attempt[r] = 0
    /\ pc[r] = "review" => flagged[r]

TypeInv == TypeOK /\ Counted

Row == [writer : Run, lines : {0, MaxLines}, state : {"drawn", "committed", "lost"}]

LEMMA InitType == Init => TypeInv
<1> SUFFICES ASSUME Init PROVE TypeInv
  OBVIOUS
<1> USE DEF Init, StoreInit, LedgerInit
<1>1. ledger \in Seq(Row)
  OBVIOUS
<1>2. 0 \in Attempts
  BY StoreAssumption DEF Attempts
<1>3. header \in [Key -> {NoHeader} \cup [run : Run, attempt : Attempts, pdf : Run]]
  OBVIOUS
<1>4. saved \in [Key -> {NoSave} \cup [run : Run, attempt : Attempts, key : Key]]
  OBVIOUS
<1>5. QED
  BY <1>1, <1>2, <1>3, <1>4 DEF TypeInv, TypeOK, Counted, Row

LEMMA LedgerKeepsType ==
  ASSUME TypeInv, [Next]_vars
  PROVE  ledger' \in Seq(Row)
<1>0. ledger \in Seq(Row)
  BY DEF TypeInv, TypeOK, Row
<1>1. CASE UNCHANGED ledger
  BY <1>0, <1>1
<1>2. ASSUME NEW r \in Run, DrawId(r, IF hasItems[r] THEN MaxLines ELSE 0)
      PROVE  ledger' \in Seq(Row)
  <2> DEFINE row == [writer |-> r, lines |-> IF hasItems[r] THEN MaxLines ELSE 0, state |-> "drawn"]
  <2>1. row \in Row
    BY DEF Row
  <2>2. ledger' = Append(ledger, row)
    BY <1>2 DEF DrawId
  <2> HIDE DEF row
  <2>3. QED
    BY <1>0, <2>1, <2>2
<1>3. ASSUME NEW r \in Run, NEW state \in {"committed", "lost"}, Conclude(r, state)
      PROVE  ledger' \in Seq(Row)
  <2>1. PICK i \in DOMAIN ledger : ledger' = [ledger EXCEPT ![i].state = state]
    BY <1>3 DEF Conclude
  <2> DEFINE row == [ledger[i] EXCEPT !.state = state]
  <2>2. ledger[i] \in Row
    BY <1>0
  <2>3. row \in Row
    BY <2>2 DEF Row
  <2>4. ledger' = [ledger EXCEPT ![i] = row]
    BY <2>1
  <2> HIDE DEF row
  <2>5. QED
    BY <1>0, <2>3, <2>4, ExceptSeq
<1>4. CASE UNCHANGED vars
  BY <1>1, <1>4 DEF vars, ledgerVars
<1>5. CASE Read
  BY <1>1, <1>5 DEF Read, Download, ExportStatus, StartDownload, FetchPage, SendPage,
     Truncate, CountRows, NewestWritten
<1>6. ASSUME NEW r \in Run, Save(r)
      PROVE  UNCHANGED ledger
  BY <1>6 DEF Save, ledgerVars
<1>7. ASSUME NEW r \in Run, AppendLedger(r)
      PROVE  ledger' \in Seq(Row)
  BY <1>1, <1>2, <1>3, <1>7 DEF AppendLedger, ledgerVars
<1>8. QED
  BY <1>1, <1>4, <1>5, <1>6, <1>7 DEF Next

LEMMA StoreKeepsType ==
  ASSUME TypeInv, [Next]_vars
  PROVE  TypeInv'
<1> USE StoreAssumption DEF Attempts
<1>0. ledger' \in Seq(Row)
  BY LedgerKeepsType
<1>1. CASE Aside
  BY <1>0, <1>1 DEF Aside, storeVars, TypeInv, TypeOK, Counted, Row
<1>2. ASSUME NEW r \in Run, After(r)
      PROVE  TypeInv'
  BY <1>0, <1>2 DEF After, TypeInv, TypeOK, Counted, Row
<1>3. ASSUME NEW r \in Run, BeforeSaved(r), UNCHANGED saved
      PROVE  TypeInv'
  <2> USE <1>0, <1>3 DEF TypeInv, TypeOK, Counted, Row
  <2>1. CASE Validate(r)
    <3>1. flagged' \in [Run -> BOOLEAN]
      BY <2>1 DEF Validate, IsDuplicate
    <3>2. QED
      BY <2>1, <3>1 DEF Validate
  <2>2. CASE Approve(r)
    BY <2>2 DEF Approve
  <2>3. CASE \E k \in Key : EditKey(r, k)
    BY <2>3 DEF EditKey
  <2>4. CASE UploadPdf(r)
    BY <2>4 DEF UploadPdf, Answered
  <2>5. CASE UpsertHeader(r)
    BY <2>5 DEF UpsertHeader, Answered
  <2>6. CASE InsertItems(r)
    <3>1. Batch(r) \in [run : Run, attempt : 0..MaxAttempt, key : Key]
      BY DEF Batch
    <3>2. items' \subseteq [run : Run, attempt : 0..MaxAttempt, key : Key]
      BY <2>6, <3>1 DEF InsertItems
    <3>3. pc' = [pc EXCEPT ![r] = "delete"] \/ pc' = [pc EXCEPT ![r] = "failed"]
      BY <2>6 DEF InsertItems, Answered
    <3>4. QED
      BY <2>6, <3>2, <3>3 DEF InsertItems
  <2>7. CASE RequestLost(r)
    BY <2>7 DEF RequestLost, InSave
  <2>8. CASE RetryOutput(r)
    BY <2>8 DEF RetryOutput
  <2>9. QED
    BY <2>1, <2>2, <2>3, <2>4, <2>5, <2>6, <2>7, <2>8 DEF BeforeSaved
<1>4. ASSUME NEW r \in Run, Complete(r)
      PROVE  TypeInv'
  <2> USE DEF TypeInv, TypeOK, Counted, Row
  <2>1. Batch(r) \in [run : Run, attempt : 0..MaxAttempt, key : Key]
    BY DEF Batch
  <2>2. /\ saved' \in [Key -> {NoSave} \cup [run : Run, attempt : 0..MaxAttempt, key : Key]]
        /\ items' \subseteq items /\ UNCHANGED <<key, hasItems, flagged, attempt, header, bucket>>
    BY <1>4, <2>1 DEF Complete, DeleteOldItems
  <2>3. pc[r] = "delete" /\ (pc' = [pc EXCEPT ![r] = "ledger"] \/ pc' = [pc EXCEPT ![r] = "failed"])
    BY <1>4 DEF Complete, DeleteOldItems, Answered
  <2>4. QED
    BY <1>0, <2>2, <2>3
<1>5. QED
  BY <1>1, <1>2, <1>3, <1>4, StepShape

\* Every reachable state is well-typed: a run is executed at most MaxAttempt
\* times, and the tables hold rows of runs only.
THEOREM TypeCorrect == Spec => []TypeOK
<1>1. TypeInv => TypeOK
  BY DEF TypeInv
<1>2. TypeInv /\ [Next]_vars => TypeInv'
  BY StoreKeepsType
<1>3. QED
  BY <1>1, <1>2, InitType, PTL DEF Spec

-----------------------------------------------------------------------------
(* Where the link to the source PDF leads *)

Uploaded == {"upsert", "insert", "delete", "ledger", "commit", "done"}

\* The path is written after the upload, and the key of a run whose path is in
\* the table is not edited any more.
LinkInv ==
  /\ \A r \in Run : pc[r] \in Uploaded => r \in bucket
  /\ \A r \in Run : pc[r] \in Uploaded \ {"upsert"} => header[key[r]] # NoHeader
  /\ \A k \in Key : header[k] # NoHeader =>
       /\ header[k].pdf \in bucket
       /\ key[header[k].pdf] = k
       /\ pc[header[k].pdf] \notin {"validate", "review"}

LEMMA LinkStep ==
  ASSUME TypeInv, LinkInv, [Next]_vars
  PROVE  LinkInv'
<1> USE StoreAssumption DEF LinkInv, Uploaded, TypeInv, TypeOK, NoHeader
<1>1. CASE Aside
  BY <1>1 DEF Aside, storeVars
<1>2. ASSUME NEW r \in Run, After(r)
      PROVE  LinkInv'
  BY <1>2 DEF After
<1>3. ASSUME NEW r \in Run, BeforeSaved(r)
      PROVE  LinkInv'
  <2>1. CASE Validate(r)
    BY <2>1 DEF Validate
  <2>2. CASE Approve(r)
    BY <2>2 DEF Approve
  <2>3. CASE \E k \in Key : EditKey(r, k)
    BY <2>3 DEF EditKey
  <2>4. CASE UploadPdf(r)
    BY <2>4 DEF UploadPdf, Answered
  <2>5. CASE UpsertHeader(r)
    BY <2>5 DEF UpsertHeader, Answered
  <2>6. CASE InsertItems(r)
    BY <2>6 DEF InsertItems, Answered
  <2>7. CASE RequestLost(r)
    BY <2>7 DEF RequestLost, InSave
  <2>8. CASE RetryOutput(r)
    BY <2>8 DEF RetryOutput
  <2>9. QED
    BY <1>3, <2>1, <2>2, <2>3, <2>4, <2>5, <2>6, <2>7, <2>8 DEF BeforeSaved
<1>4. ASSUME NEW r \in Run, Complete(r)
      PROVE  LinkInv'
  BY <1>4 DEF Complete, DeleteOldItems, Answered
<1>5. QED
  BY <1>1, <1>2, <1>3, <1>4, StepShape

\* The source-PDF link of a completed run leads to a PDF that was uploaded, and to
\* another run's only for an old checkpoint and the same invoice key.
THEOREM LinkSafety == Spec => []LinkLeadsToThePdf
<1>1. Init => LinkInv
  BY DEF Init, StoreInit, LinkInv, Uploaded
<1>2. TypeInv /\ LinkInv => LinkLeadsToThePdf
  BY DEF TypeInv, TypeOK, LinkInv, Uploaded, LinkLeadsToThePdf, PdfLink
<1>3. TypeInv /\ LinkInv /\ [Next]_vars => TypeInv' /\ LinkInv'
  BY StoreKeepsType, LinkStep
<1>4. QED
  BY <1>1, <1>2, <1>3, InitType, PTL DEF Spec

-----------------------------------------------------------------------------
(* The line items of an invoice *)

\* Two saves of one key at once are on record.
OverlapsSeen ==
  \A k \in Key : \A r, s \in Run : r # s /\ Saving(r, k) /\ Saving(s, k) => k \in overlapped

\* A complete save is of its key, and older than the attempt in progress.
SavedIsPast ==
  \A k \in Key : saved[k] # NoSave =>
    /\ saved[k].key = k
    /\ saved[k].attempt <= attempt[saved[k].run]
    /\ pc[saved[k].run] \in {"upload", "upsert"} \cup InSave =>
         saved[k].attempt < attempt[saved[k].run]

\* While a save is under way, the header is not the one of the last complete save.
HeaderIsNew ==
  \A k \in Key : \A r \in Run : Saving(r, k) /\ k \notin overlapped =>
    ~(header[k].run = saved[k].run /\ header[k].attempt = saved[k].attempt)

\* What a run is about to keep when it deletes the others is there.
ItemsAreIn ==
  \A r \in Run : pc[r] = "delete" /\ hasItems[r] /\ key[r] \notin overlapped => Batch(r) \in items

ItemsAreReal == \A b \in items : hasItems[b.run]

ItemsInv ==
  /\ OverlapsSeen
  /\ SavedIsPast
  /\ HeaderIsNew
  /\ ItemsAreIn
  /\ ItemsAreReal
  /\ FailedSaveKeepsItems
  /\ SettledInvoiceIsWhole

LEMMA ItemsInit ==
  ASSUME Init
  PROVE  ItemsInv
BY DEF Init, StoreInit, ItemsInv, OverlapsSeen, SavedIsPast, HeaderIsNew, ItemsAreIn,
   ItemsAreReal, FailedSaveKeepsItems, SettledInvoiceIsWhole, Saving, InSave, Whole, ItemsOf,
   NoSave, NoHeader

LEMMA OverlapsStep ==
  ASSUME TypeInv, OverlapsSeen, [Next]_vars
  PROVE  OverlapsSeen' /\ overlapped \subseteq overlapped'
<1>1. CASE Aside
  BY <1>1 DEF Aside, storeVars, OverlapsSeen, Saving
<1>2. ASSUME NEW r \in Run, After(r)
      PROVE  OverlapsSeen' /\ overlapped \subseteq overlapped'
  BY <1>2 DEF After, OverlapsSeen, Saving, InSave, TypeInv, TypeOK
<1>3. CASE Observe
  BY <1>3 DEF Observe, OverlapsSeen
<1>4. QED
  BY <1>1, <1>2, <1>3, StepShape

LEMMA SavedStep ==
  ASSUME TypeInv, SavedIsPast, [Next]_vars
  PROVE  SavedIsPast'
<1> USE StoreAssumption DEF SavedIsPast, InSave, TypeInv, TypeOK, NoSave, Attempts
<1>1. CASE Aside
  BY <1>1 DEF Aside, storeVars
<1>2. ASSUME NEW r \in Run, After(r)
      PROVE  SavedIsPast'
  BY <1>2 DEF After
<1>3. ASSUME NEW r \in Run, BeforeSaved(r), UNCHANGED saved
      PROVE  SavedIsPast'
  <2> USE <1>3
  <2>1. CASE Validate(r)
    BY <2>1 DEF Validate
  <2>2. CASE Approve(r)
    BY <2>2 DEF Approve
  <2>3. CASE \E k \in Key : EditKey(r, k)
    BY <2>3 DEF EditKey
  <2>4. CASE UploadPdf(r)
    BY <2>4 DEF UploadPdf, Answered
  <2>5. CASE UpsertHeader(r)
    BY <2>5 DEF UpsertHeader, Answered
  <2>6. CASE InsertItems(r)
    BY <2>6 DEF InsertItems, Answered
  <2>7. CASE RequestLost(r)
    BY <2>7 DEF RequestLost
  <2>8. CASE RetryOutput(r)
    BY <2>8 DEF RetryOutput
  <2>9. QED
    BY <2>1, <2>2, <2>3, <2>4, <2>5, <2>6, <2>7, <2>8 DEF BeforeSaved
<1>4. ASSUME NEW r \in Run, Complete(r)
      PROVE  SavedIsPast'
  BY <1>4 DEF Complete, DeleteOldItems, Answered, Batch
<1>5. QED
  BY <1>1, <1>2, <1>3, <1>4, StepShape

LEMMA HeaderStep ==
  ASSUME TypeInv, ItemsInv, [Next]_vars
  PROVE  HeaderIsNew'
<1> USE StoreAssumption DEF ItemsInv, HeaderIsNew, Saving, InSave, TypeInv, TypeOK
<1>0. OverlapsSeen' /\ overlapped \subseteq overlapped'
  BY OverlapsStep
<1>1. CASE Aside
  BY <1>1 DEF Aside, storeVars
<1>2. ASSUME NEW r \in Run, After(r)
      PROVE  HeaderIsNew'
  BY <1>2 DEF After
<1>3. ASSUME NEW r \in Run, BeforeSaved(r), UNCHANGED saved
      PROVE  HeaderIsNew'
  <2> USE <1>0, <1>3
  <2>1. CASE Validate(r)
    BY <2>1 DEF Validate
  <2>2. CASE Approve(r)
    BY <2>2 DEF Approve
  <2>3. CASE \E k \in Key : EditKey(r, k)
    BY <2>3 DEF EditKey
  <2>4. CASE UploadPdf(r)
    BY <2>4 DEF UploadPdf, Answered
  <2>5. CASE UpsertHeader(r)
    <3> SUFFICES ASSUME NEW k \in Key, NEW s \in Run, Saving(s, k)', k \notin overlapped'
                 PROVE  ~(header'[k].run = saved[k].run /\ header'[k].attempt = saved[k].attempt)
      BY DEF HeaderIsNew
    <3>1. CASE k # key[r]
      BY <2>5, <3>1 DEF UpsertHeader, Answered
    <3>2. CASE k = key[r]
      <4>1. saved[k].run = r => saved[k].attempt < attempt[r]
        BY <2>5 DEF UpsertHeader, SavedIsPast, NoSave
      <4>2. header'[k].run = r /\ header'[k].attempt = attempt[r]
        BY <2>5, <3>2 DEF UpsertHeader
      <4>3. saved[k].run = r => saved[k].attempt \in Nat /\ attempt[r] \in Nat
        BY DEF NoSave, Attempts
      <4>4. QED
        BY <4>1, <4>2, <4>3
    <3>3. QED
      BY <3>1, <3>2
  <2>6. CASE InsertItems(r)
    BY <2>6 DEF InsertItems, Answered
  <2>7. CASE RequestLost(r)
    BY <2>7 DEF RequestLost
  <2>8. CASE RetryOutput(r)
    BY <2>8 DEF RetryOutput
  <2>9. QED
    BY <2>1, <2>2, <2>3, <2>4, <2>5, <2>6, <2>7, <2>8 DEF BeforeSaved
<1>4. ASSUME NEW r \in Run, Complete(r)
      PROVE  HeaderIsNew'
  BY <1>0, <1>4 DEF Complete, DeleteOldItems, Answered, OverlapsSeen
<1>5. QED
  BY <1>1, <1>2, <1>3, <1>4, StepShape

LEMMA ItemsAreInStep ==
  ASSUME TypeInv, ItemsInv, [Next]_vars
  PROVE  ItemsAreIn' /\ ItemsAreReal'
<1> USE DEF ItemsInv, ItemsAreIn, ItemsAreReal, Batch, TypeInv, TypeOK
<1>0. overlapped \subseteq overlapped'
  BY OverlapsStep
<1>1. CASE Aside
  BY <1>1 DEF Aside, storeVars
<1>2. ASSUME NEW r \in Run, After(r)
      PROVE  ItemsAreIn' /\ ItemsAreReal'
  BY <1>2 DEF After
<1>3. ASSUME NEW r \in Run, BeforeSaved(r)
      PROVE  ItemsAreIn' /\ ItemsAreReal'
  <2> USE <1>0, <1>3
  <2>1. CASE Validate(r)
    BY <2>1 DEF Validate
  <2>2. CASE Approve(r)
    BY <2>2 DEF Approve
  <2>3. CASE \E k \in Key : EditKey(r, k)
    BY <2>3 DEF EditKey
  <2>4. CASE UploadPdf(r)
    BY <2>4 DEF UploadPdf, Answered
  <2>5. CASE UpsertHeader(r)
    BY <2>5 DEF UpsertHeader, Answered
  <2>6. CASE InsertItems(r)
    BY <2>6 DEF InsertItems, Answered
  <2>7. CASE RequestLost(r)
    BY <2>7 DEF RequestLost
  <2>8. CASE RetryOutput(r)
    BY <2>8 DEF RetryOutput
  <2>9. QED
    BY <2>1, <2>2, <2>3, <2>4, <2>5, <2>6, <2>7, <2>8 DEF BeforeSaved
<1>4. ASSUME NEW r \in Run, Complete(r)
      PROVE  ItemsAreIn' /\ ItemsAreReal'
  <2> USE <1>4 DEF Complete, DeleteOldItems, Answered
  <2>1. ASSUME NEW s \in Run, pc'[s] = "delete", hasItems'[s], key'[s] \notin overlapped'
        PROVE  Batch(s)' \in items'
    <3>1. s # r /\ pc[s] = "delete" /\ key[s] \notin overlapped /\ Batch(s)' = Batch(s)
      BY <1>0, <2>1
    <3>2. Batch(s) \in items
      BY <2>1, <3>1
    <3>3. key[s] # key[r]
      BY <3>1 DEF OverlapsSeen, Saving, InSave
    <3>4. QED
      BY <3>1, <3>2, <3>3
  <2>2. ItemsAreReal'
    OBVIOUS
  <2>3. QED
    BY <2>1, <2>2
<1>5. QED
  BY <1>1, <1>2, <1>3, <1>4, StepShape

\* The line items of key[r] after r's save: its own batch, if it has one.
LEMMA CompleteSave ==
  ASSUME TypeInv, ItemsInv, NEW r \in Run, Complete(r), key[r] \notin overlapped
  PROVE  {b \in items' : b.key = key[r]} = Whole(Batch(r))
<1>1. Batch(r) # NoSave /\ Batch(r).run = r /\ Batch(r).key = key[r]
  BY StoreAssumption DEF Batch, NoSave
<1>2. items' = {b \in items : b.key = key[r] => b = Batch(r)}
  BY DEF Complete, DeleteOldItems
<1>3. hasItems[r] <=> Batch(r) \in items
  BY <1>1 DEF Complete, DeleteOldItems, ItemsInv, ItemsAreIn, ItemsAreReal
<1>4. QED
  BY <1>1, <1>2, <1>3 DEF Whole

LEMMA FailedSaveStep ==
  ASSUME TypeInv, ItemsInv, [Next]_vars
  PROVE  FailedSaveKeepsItems'
<1> USE DEF ItemsInv, FailedSaveKeepsItems
<1>0. overlapped \subseteq overlapped'
  BY OverlapsStep
<1>1. hasItems' = hasItems
  BY StepShape DEF Aside, storeVars, After, BeforeSaved, Complete, Validate, Approve, EditKey, UploadPdf,
     UpsertHeader, InsertItems, RequestLost, RetryOutput, DeleteOldItems
<1>2. CASE saved' = saved /\ items \subseteq items'
  BY <1>0, <1>1, <1>2 DEF Whole
<1>3. ASSUME NEW r \in Run, Complete(r)
      PROVE  FailedSaveKeepsItems'
  <2> SUFFICES ASSUME NEW k \in Key, k \notin overlapped'
               PROVE  Whole(saved[k])' \subseteq items'
    OBVIOUS
  <2>1. Whole(saved[k])' = Whole(saved'[k])
    BY <1>1 DEF Whole
  <2>2. CASE k = key[r]
    <3>1. saved'[k] = Batch(r)
      BY <1>3, <2>2 DEF Complete, TypeInv, TypeOK
    <3>2. QED
      BY <1>0, <1>3, <2>1, <2>2, <3>1, CompleteSave
  <2>3. CASE k # key[r]
    <3>1. saved'[k] = saved[k] /\ items' = {b \in items : b.key = key[r] => b = Batch(r)}
      BY <1>3, <2>3 DEF Complete, DeleteOldItems, TypeInv, TypeOK
    <3>2. \A b \in Whole(saved[k]) : b \in items /\ b.key = k
      BY <1>0 DEF Whole, SavedIsPast
    <3>3. QED
      BY <2>1, <2>3, <3>1, <3>2
  <2>4. QED
    BY <2>2, <2>3
<1>4. ASSUME NEW r \in Run, BeforeSaved(r)
      PROVE  items \subseteq items'
  BY <1>4 DEF BeforeSaved, Validate, Approve, EditKey, UploadPdf, UpsertHeader, InsertItems,
     RequestLost, RetryOutput
<1>5. QED
  BY <1>2, <1>3, <1>4, StepShape DEF Aside, storeVars, After

Settled(k) == header[k].run = saved[k].run /\ header[k].attempt = saved[k].attempt

LEMMA SettledStep ==
  ASSUME TypeInv, ItemsInv, [Next]_vars
  PROVE  SettledInvoiceIsWhole'
<1> USE DEF ItemsInv, SettledInvoiceIsWhole
<1>0. overlapped \subseteq overlapped' /\ OverlapsSeen' /\ HeaderIsNew'
  BY OverlapsStep, HeaderStep
<1>1. hasItems' = hasItems
  BY StepShape DEF Aside, storeVars, After, BeforeSaved, Complete, Validate, Approve, EditKey, UploadPdf,
     UpsertHeader, InsertItems, RequestLost, RetryOutput, DeleteOldItems
<1>2. CASE saved' = saved /\ items' = items /\ header' = header
  BY <1>0, <1>1, <1>2 DEF Whole, ItemsOf
<1>3. ASSUME NEW r \in Run, InsertItems(r), UNCHANGED saved
      PROVE  SettledInvoiceIsWhole'
  <2> SUFFICES ASSUME NEW k \in Key, k \notin overlapped', Settled(k)'
               PROVE  ItemsOf(k)' = Whole(saved[k])'
    BY DEF Settled
  <2>1. Settled(k) /\ k \notin overlapped
    BY <1>0, <1>3 DEF Settled, InsertItems
  <2>2. k # key[r]
    BY <1>3, <2>1 DEF HeaderIsNew, Saving, InSave, InsertItems, Settled
  <2>3. ItemsOf(k)' = ItemsOf(k)
    BY <1>3, <2>2 DEF InsertItems, ItemsOf, Batch
  <2>4. QED
    BY <1>1, <1>3, <2>1, <2>3 DEF Settled, Whole
<1>4. ASSUME NEW r \in Run, UpsertHeader(r), UNCHANGED saved
      PROVE  SettledInvoiceIsWhole'
  <2> SUFFICES ASSUME NEW k \in Key, k \notin overlapped', Settled(k)'
               PROVE  ItemsOf(k)' = Whole(saved[k])'
    BY DEF Settled
  <2>1. k # key[r]
    <3> SUFFICES ASSUME k = key[r] PROVE FALSE
      OBVIOUS
    <3>1. header'[k].run = r /\ header'[k].attempt = attempt[r]
      BY <1>4 DEF UpsertHeader, TypeInv, TypeOK
    <3>2. saved[k].run = r /\ saved[k].attempt = attempt[r]
      BY <1>4, <3>1 DEF Settled
    <3>3. saved[k] # NoSave /\ pc[r] = "upsert"
      BY <1>4, <3>2, StoreAssumption DEF NoSave, UpsertHeader
    <3>4. saved[k].attempt < attempt[r]
      BY <3>2, <3>3 DEF SavedIsPast
    <3>5. attempt[r] \in Nat
      BY DEF TypeInv, TypeOK, Attempts
    <3>6. QED
      BY <3>2, <3>4, <3>5
  <2>2. Settled(k) /\ k \notin overlapped /\ ItemsOf(k)' = ItemsOf(k)
    BY <1>0, <1>4, <2>1 DEF Settled, UpsertHeader, ItemsOf, TypeInv, TypeOK
  <2>3. QED
    BY <1>1, <1>4, <2>2 DEF Settled, Whole
<1>5. ASSUME NEW r \in Run, Complete(r)
      PROVE  SettledInvoiceIsWhole'
  <2> SUFFICES ASSUME NEW k \in Key, k \notin overlapped', Settled(k)'
               PROVE  ItemsOf(k)' = Whole(saved[k])'
    BY DEF Settled
  <2>1. Whole(saved[k])' = Whole(saved'[k])
    BY <1>1 DEF Whole
  <2>2. CASE k = key[r]
    <3>1. saved'[k] = Batch(r)
      BY <1>5, <2>2 DEF Complete, TypeInv, TypeOK
    <3>2. QED
      BY <1>0, <1>5, <2>1, <2>2, <3>1, CompleteSave DEF ItemsOf
  <2>3. CASE k # key[r]
    <3>1. saved'[k] = saved[k] /\ header' = header /\ ItemsOf(k)' = ItemsOf(k)
      BY <1>5, <2>3 DEF Complete, DeleteOldItems, ItemsOf, TypeInv, TypeOK
    <3>2. QED
      BY <1>0, <2>1, <3>1 DEF Settled
  <2>4. QED
    BY <2>2, <2>3
<1>6. ASSUME NEW r \in Run, BeforeSaved(r)
      PROVE  (items' = items /\ header' = header) \/ InsertItems(r) \/ UpsertHeader(r)
  BY <1>6 DEF BeforeSaved, Validate, Approve, EditKey, UploadPdf, RequestLost, RetryOutput
<1>7. QED
  BY <1>2, <1>3, <1>4, <1>5, <1>6, StepShape DEF Aside, storeVars, After

LEMMA ItemsStep ==
  ASSUME TypeInv, ItemsInv, [Next]_vars
  PROVE  ItemsInv'
BY OverlapsStep, SavedStep, HeaderStep, ItemsAreInStep, FailedSaveStep, SettledStep DEF ItemsInv

\* A save that fails, at any request and before or after the request landed, takes
\* away no line item of the last complete save, unless two saves overlapped.
THEOREM FailedSaveSafety == Spec => []FailedSaveKeepsItems
<1>1. ItemsInv => FailedSaveKeepsItems
  BY DEF ItemsInv
<1>2. TypeInv /\ ItemsInv /\ [Next]_vars => TypeInv' /\ ItemsInv'
  BY StoreKeepsType, ItemsStep
<1>3. QED
  BY <1>1, <1>2, InitType, ItemsInit, PTL DEF Spec

\* An invoice whose header is of the last complete save has that save's line
\* items and no others, whatever failed and was retried before.
THEOREM SettledSafety == Spec => []SettledInvoiceIsWhole
<1>1. ItemsInv => SettledInvoiceIsWhole
  BY DEF ItemsInv
<1>2. TypeInv /\ ItemsInv /\ [Next]_vars => TypeInv' /\ ItemsInv'
  BY StoreKeepsType, ItemsStep
<1>3. QED
  BY <1>1, <1>2, InitType, ItemsInit, PTL DEF Spec

-----------------------------------------------------------------------------
(* Who overwrites whom *)

\* Runs past the check together are on record; one that passed it unflagged and
\* did not fail since finds no row but its own or a raced run's.
RaceInv ==
  /\ \A r, s \in Run : Checked(r) /\ Checked(s) => {r, s} \in raced
  /\ \A r \in Run : Checked(r) /\ ~flagged[r] /\ attempt[r] <= 1 =>
       \/ header[key[r]].run \in {NoRun, r}
       \/ {header[key[r]].run, r} \in raced

LEMMA RaceStep ==
  ASSUME TypeInv, RaceInv, [Next]_vars
  PROVE  RaceInv'
<1> DEFINE Mutual == \A r, s \in Run : Checked(r) /\ Checked(s) => {r, s} \in raced
<1> DEFINE Free(r) == Checked(r) /\ ~flagged[r] /\ attempt[r] <= 1 =>
                        \/ header[key[r]].run \in {NoRun, r}
                        \/ {header[key[r]].run, r} \in raced
<1>0. RaceInv <=> Mutual /\ \A r \in Run : Free(r)
  BY DEF RaceInv
<1>1. CASE Aside
  BY <1>1 DEF Aside, storeVars, RaceInv, Checked
<1>2. ASSUME NEW r \in Run, After(r)
      PROVE  RaceInv'
  BY <1>2 DEF After, RaceInv, Checked, TypeInv, TypeOK
<1>3. ASSUME Observe
      PROVE  raced \subseteq raced' /\ Mutual'
  BY <1>3 DEF Observe, Pairs
<1>4. ASSUME NEW r \in Run, BeforeSaved(r), Observe
      PROVE  \A s \in Run : Free(s)'
  <2> USE <1>0, <1>3, <1>4 DEF RaceInv, Checked, TypeInv, TypeOK
  <2>1. CASE Validate(r)
    BY <2>1 DEF Validate, IsDuplicate
  <2>2. CASE Approve(r)
    BY <2>2 DEF Approve, Counted
  <2>3. CASE \E k \in Key : EditKey(r, k)
    BY <2>3 DEF EditKey
  <2>4. CASE UploadPdf(r)
    BY <2>4 DEF UploadPdf, Answered
  <2>5. CASE UpsertHeader(r)
    BY <2>5 DEF UpsertHeader, Answered
  <2>6. CASE InsertItems(r)
    BY <2>6 DEF InsertItems, Answered
  <2>7. CASE RequestLost(r)
    BY <2>7 DEF RequestLost
  <2>8. CASE RetryOutput(r)
    BY <2>8 DEF RetryOutput, Counted, Attempts
  <2>9. QED
    BY <2>1, <2>2, <2>3, <2>4, <2>5, <2>6, <2>7, <2>8 DEF BeforeSaved
<1>5. ASSUME NEW r \in Run, Complete(r), Observe
      PROVE  \A s \in Run : Free(s)'
  BY <1>0, <1>3, <1>5 DEF RaceInv, Checked, TypeInv, TypeOK, Complete, DeleteOldItems, Answered
<1>6. RaceInv' <=> Mutual' /\ \A r \in Run : Free(r)'
  BY DEF RaceInv
<1> HIDE DEF Mutual, Free
<1>7. QED
  BY <1>1, <1>2, <1>3, <1>4, <1>5, <1>6, StepShape

\* A run that overwrites another run's invoice was flagged and approved, raced it
\* from check to row, or retried a failed save.
THEOREM OverwriteSafety == Spec => OverwriteHasAReason
<1> DEFINE Reasoned ==
      \A k \in Key :
        LET old == header[k].run
            new == header'[k].run
        IN  old \notin {NoRun, new} =>
              flagged[new] \/ {old, new} \in raced \/ attempt[new] > 1
<1>1. Init => RaceInv
  BY DEF Init, StoreInit, RaceInv, Checked
<1>2. TypeInv /\ RaceInv /\ [Next]_vars => [Reasoned]_vars
  <2> SUFFICES ASSUME TypeInv, RaceInv, [Next]_vars
               PROVE  Reasoned
    OBVIOUS
  <2>1. CASE header' = header
    BY <2>1
  <2>2. ASSUME NEW r \in Run, UpsertHeader(r)
        PROVE  Reasoned
    <3> SUFFICES ASSUME NEW k \in Key, header[k].run \notin {NoRun, header'[k].run}
                 PROVE  LET old == header[k].run
                            new == header'[k].run
                        IN  flagged[new] \/ {old, new} \in raced \/ attempt[new] > 1
      OBVIOUS
    <3>1. k = key[r] /\ header'[k].run = r /\ Checked(r)
      BY <2>2 DEF UpsertHeader, TypeInv, TypeOK, Checked
    <3>2. attempt[r] \in Nat
      BY DEF TypeInv, TypeOK, Attempts
    <3>3. flagged[r] \/ {header[k].run, r} \in raced \/ attempt[r] > 1
      BY <3>1, <3>2 DEF RaceInv
    <3>4. QED
      BY <3>1, <3>3
  <2>3. ASSUME NEW r \in Run, BeforeSaved(r)
        PROVE  header' = header \/ UpsertHeader(r)
    BY <2>3 DEF BeforeSaved, Validate, Approve, EditKey, UploadPdf, InsertItems, RequestLost, RetryOutput
  <2>4. QED
    BY <2>1, <2>2, <2>3, StepShape DEF Aside, storeVars, After, Complete, DeleteOldItems
<1>3. TypeInv /\ RaceInv /\ [Next]_vars => TypeInv' /\ RaceInv'
  BY StoreKeepsType, RaceStep
<1>4. Spec => [][Reasoned]_vars
  BY <1>1, <1>2, <1>3, InitType, PTL DEF Spec
<1>5. QED
  BY <1>4 DEF OverwriteHasAReason

-----------------------------------------------------------------------------
(* GET /export/status *)

BarInv ==
  /\ bar \in [phase : {"idle", "counted", "done"}, row_count : Nat, written : BOOLEAN]
  /\ bar.phase = "counted" /\ bar.row_count > 0 => Committed # {}
  /\ StatusHasATime

LEMMA CommittedGrows ==
  ASSUME TypeInv, [Next]_vars
  PROVE  Committed \subseteq Committed'
<1>0. ledger \in Seq(Row)
  BY DEF TypeInv, TypeOK, Row
<1>1. CASE UNCHANGED ledger
  BY <1>1 DEF Committed
<1>2. ASSUME NEW writer, NEW lines, DrawId(writer, lines)
      PROVE  Committed \subseteq Committed'
  BY <1>0, <1>2 DEF DrawId, Committed
<1>3. ASSUME NEW writer, NEW state, Conclude(writer, state)
      PROVE  Committed \subseteq Committed'
  BY <1>0, <1>3 DEF Conclude, Committed, Row
<1>4. QED
  BY <1>1, <1>2, <1>3 DEF Next, vars, ledgerVars, Read, Download, ExportStatus, StartDownload, FetchPage,
     SendPage, Truncate, CountRows, NewestWritten, Save, AppendLedger

LEMMA BarStep ==
  ASSUME TypeInv, BarInv, [Next]_vars
  PROVE  BarInv'
<1>0. Committed \subseteq Committed'
  BY CommittedGrows
<1>1. CASE UNCHANGED bar
  BY <1>0, <1>1 DEF BarInv, StatusHasATime
<1>2. CASE CountRows
  <2>1. IsFiniteSet(Committed)
    <3>1. ledger \in Seq(Row)
      BY DEF TypeInv, TypeOK, Row
    <3>2. IsFiniteSet(DOMAIN ledger)
      BY <3>1, FS_Interval
    <3>3. QED
      BY <3>2, FS_Subset DEF Committed
  <2>2. Cardinality(Committed) \in Nat /\ (Committed = {} => Cardinality(Committed) = 0)
    BY <2>1, FS_CardinalityType, FS_EmptySet
  <2>3. Committed' = Committed
    BY <1>2 DEF CountRows, Committed
  <2>4. bar' = [bar EXCEPT !.phase = "counted", !.row_count = Cardinality(Committed)]
    BY <1>2 DEF CountRows
  <2> DEFINE n == Cardinality(Committed)
  <2>5. n \in Nat /\ (n > 0 => Committed' # {})
    BY <2>2, <2>3
  <2>6. bar' = [bar EXCEPT !.phase = "counted", !.row_count = n]
    BY <2>4
  <2> HIDE DEF n
  <2>7. QED
    BY <2>5, <2>6 DEF BarInv, StatusHasATime
<1>3. CASE NewestWritten
  BY <1>3 DEF NewestWritten, BarInv, StatusHasATime
<1>4. QED
  BY <1>1, <1>2, <1>3 DEF Next, vars, ledgerVars, Read, Download, ExportStatus, StartDownload, FetchPage,
     SendPage, Truncate, Save, AppendLedger, DrawId, Conclude

\* A status that counted rows has found the newest row's time as well.
THEOREM StatusSafety == Spec => []StatusHasATime
<1>1. Init => BarInv
  BY DEF Init, LedgerInit, BarInv, StatusHasATime
<1>2. BarInv => StatusHasATime
  BY DEF BarInv
<1>3. TypeInv /\ BarInv /\ [Next]_vars => TypeInv' /\ BarInv'
  BY StoreKeepsType, BarStep
<1>4. QED
  BY <1>1, <1>2, <1>3, InitType, PTL DEF Spec

-----------------------------------------------------------------------------
(* The export *)

\* How many CSV lines each row of the ledger has.
Widths == [i \in DOMAIN ledger |-> CsvLines(i)]

\* CSV lines in id order, with all lines of every row that is there, one after the
\* other: width says how many a row has.
Exported(c, width) ==
  /\ c \in Seq(Nat)
  /\ \A m, n \in 1..Len(c) : m < n => c[m] <= c[n]
  /\ \A i \in Range(c) : \E a \in Nat :
       /\ a + width[i] <= Len(c)
       /\ \A n \in 1..Len(c) : c[n] = i <=> (a < n /\ n <= a + width[i])

\* Lines of rows before row i, of none after it, and of row i alone.
Below(c, i) == \A n \in 1..Len(c) : c[n] < i
AtMost(c, i) == \A n \in 1..Len(c) : c[n] <= i
Block(b, i, width) ==
  b \in Seq(Nat) /\ Len(b) = width[i] /\ \A k \in 1..Len(b) : b[k] = i

\* The lines of one more row, with a larger id.
LEMMA OneMoreRow ==
  ASSUME NEW D, D \subseteq Nat, NEW width \in [D -> Nat \ {0}],
         NEW c, Exported(c, width), Range(c) \subseteq D,
         NEW i \in D, Below(c, i), NEW b, Block(b, i, width), NEW d, d = c \o b
  PROVE  Exported(d, width) /\ Range(d) = Range(c) \cup {i} /\ AtMost(d, i)
<1> DEFINE len == Len(c)
           w == width[i]
<1>1. c \in Seq(Nat) /\ len \in Nat /\ DOMAIN c = 1..len /\ w \in Nat \ {0} /\ i \in Nat
  BY LenProperties DEF Exported
<1>2. b \in Seq(Nat) /\ Len(b) = w /\ \A k \in 1..w : b[k] = i
  BY DEF Block
<1>3. Joins(Nat, c, b, c \o b)
  BY <1>1, <1>2, TwoParts
<1>4. /\ d \in Seq(Nat) /\ Len(d) = len + w /\ DOMAIN d = 1..(len + w)
      /\ \A n \in 1..len : d[n] = c[n]
      /\ \A k \in 1..w : d[len + k] = i
  BY <1>1, <1>2, <1>3, LenProperties DEF Joins
<1> HIDE DEF w
<1>5. \A n \in 1..len : c[n] < i /\ c[n] \in Nat
  BY <1>1, ElementOfSeq DEF Below
<1>6. \A m, n \in 1..len : m < n => c[m] <= c[n]
  BY DEF Exported
<1>7. \A j \in Range(c) : \E a \in Nat :
        /\ a + width[j] <= len
        /\ \A n \in 1..len : c[n] = j <=> (a < n /\ n <= a + width[j])
  BY DEF Exported
<1> HIDE DEF len
<1>8. \A n \in 1..(len + w) : n \in 1..len \/ (n - len \in 1..w /\ n = len + (n - len))
  BY <1>1
<1>9. \A n \in 1..(len + w) : ~(n \in 1..len) => d[n] = i
  <2> SUFFICES ASSUME NEW n \in 1..(len + w), ~(n \in 1..len) PROVE d[n] = i
    OBVIOUS
  <2> DEFINE k == n - len
  <2>1. k \in 1..w /\ n = len + k
    BY <1>8
  <2> HIDE DEF k
  <2>2. QED
    BY <2>1, <1>4
<1>10. \A n \in 1..(len + w) : d[n] <= i
  BY <1>1, <1>4, <1>5, <1>9
<1>11. \A m, n \in 1..(len + w) : m < n => d[m] <= d[n]
  <2> SUFFICES ASSUME NEW m \in 1..(len + w), NEW n \in 1..(len + w), m < n
               PROVE  d[m] <= d[n]
    OBVIOUS
  <2>1. CASE n \in 1..len
    <3>1. m \in 1..len
      BY <2>1, <1>1
    <3>2. QED
      BY <2>1, <3>1, <1>4, <1>6
  <2>2. CASE ~(n \in 1..len)
    BY <2>2, <1>9, <1>10
  <2>3. QED
    BY <2>1, <2>2
<1>12. Range(d) = Range(c) \cup {i}
  <2>1. len + 1 \in 1..(len + w) /\ ~(len + 1 \in 1..len) /\ \A n \in 1..len : n \in 1..(len + w)
    BY <1>1
  <2>2. d[len + 1] = i
    BY <2>1, <1>9
  <2>3. \A n \in 1..(len + w) : d[n] = i \/ (n \in 1..len /\ d[n] = c[n])
    BY <1>4, <1>9
  <2>4. Range(c) = {c[n] : n \in 1..len} /\ Range(d) = {d[n] : n \in 1..(len + w)}
    BY <1>1, <1>4 DEF Range
  <2>5. i \in Range(d)
    BY <2>1, <2>2, <2>4
  <2>6. Range(c) \subseteq Range(d)
    <3>1. \A n \in 1..len : c[n] = d[n] /\ n \in 1..(len + w)
      BY <2>1, <1>4
    <3>2. QED
      BY Zenon, <2>4, <3>1
  <2>7. Range(d) \subseteq Range(c) \cup {i}
    BY Zenon, <2>3, <2>4
  <2>8. QED
    BY <2>5, <2>6, <2>7
<1>13. ASSUME NEW j \in Range(d)
       PROVE  \E a \in Nat : /\ a + width[j] <= len + w
                             /\ \A n \in 1..(len + w) : d[n] = j <=> (a < n /\ n <= a + width[j])
  <2>1. CASE j = i
    <3>1. \A n \in 1..(len + w) : d[n] = i <=> (len < n /\ n <= len + w)
      BY <1>1, <1>4, <1>5, <1>9
    <3>2. width[j] = w /\ len \in Nat /\ len + w <= len + w
      BY <2>1, <1>1 DEF w
    <3>3. QED
      BY <2>1, <3>1, <3>2
  <2>2. CASE j # i
    <3>1. j \in Range(c)
      BY <2>2, <1>12
    <3>2. PICK a \in Nat : /\ a + width[j] <= len
                           /\ \A n \in 1..len : c[n] = j <=> (a < n /\ n <= a + width[j])
      BY <3>1, <1>7
    <3> DEFINE v == width[j]
    <3>3. v \in Nat
      BY <3>1
    <3> HIDE DEF v
    <3>4. \A n \in 1..(len + w) : d[n] = j <=> (a < n /\ n <= a + v)
      <4> SUFFICES ASSUME NEW n \in 1..(len + w)
                   PROVE  d[n] = j <=> (a < n /\ n <= a + v)
        OBVIOUS
      <4>1. CASE n \in 1..len
        BY <4>1, <3>2, <1>4 DEF v
      <4>2. CASE ~(n \in 1..len)
        <5>1. d[n] # j
          BY <4>2, <1>9, <2>2
        <5>2. ~(n <= a + v)
          BY <4>2, <3>2, <3>3, <1>1 DEF v
        <5>3. QED
          BY <5>1, <5>2
      <4>3. QED
        BY <4>1, <4>2
    <3>5. a + v <= len + w
      BY <3>2, <3>3, <1>1 DEF v
    <3>6. QED
      BY <3>4, <3>5 DEF v
  <2>3. QED
    BY <2>1, <2>2
<1> DEFINE all == len + w
<1>14. /\ d \in Seq(Nat) /\ Len(d) = all
       /\ \A m, n \in 1..all : m < n => d[m] <= d[n]
       /\ \A n \in 1..all : d[n] <= i
       /\ \A j \in Range(d) : \E a \in Nat :
            /\ a + width[j] <= all
            /\ \A n \in 1..all : d[n] = j <=> (a < n /\ n <= a + width[j])
  BY <1>4, <1>10, <1>11, <1>13
<1> HIDE DEF all
<1>15. Exported(d, width)
  BY <1>14 DEF Exported
<1>16. QED
  BY <1>12, <1>14, <1>15 DEF AtMost

\* The same, as one implication.
Extends(D, width, c, i, b, d) ==
  /\ D \subseteq Nat /\ width \in [D -> Nat \ {0}] /\ Exported(c, width) /\ Range(c) \subseteq D
  /\ i \in D /\ Below(c, i) /\ Block(b, i, width) /\ d = c \o b

LEMMA RowByRow ==
  \A D, width, c, i, b, d :
    Extends(D, width, c, i, b, d) => Exported(d, width) /\ Range(d) = Range(c) \cup {i} /\ AtMost(d, i)
  BY OneMoreRow DEF Extends

\* Concatenation is associative.
LEMMA ThreeParts == \A S : \A s, t, u \in Seq(S) : (s \o t) \o u = s \o (t \o u)
  BY ConcatAssociative

\* rows holds the lines of each row of a page, which has larger ids.
ExtendsByPage(D, width, c, page, rows, d) ==
  /\ D \subseteq Nat /\ width \in [D -> Nat \ {0}] /\ Exported(c, width) /\ Range(c) \subseteq D
  /\ page \in Seq(D) /\ page # <<>> /\ Rising(page)
  /\ \A m \in 1..Len(page) : Below(c, page[m])
  /\ rows \in Seq(Seq(Nat)) /\ Len(rows) = Len(page)
  /\ \A m \in 1..Len(page) : Block(rows[m], page[m], width)
  /\ d = c \o FlattenSeq(rows)

\* The lines of a whole page of rows, with larger ids.
LEMMA PageByPage ==
  ASSUME NEW D, NEW width, NEW c, NEW page, NEW rows, NEW d,
         ExtendsByPage(D, width, c, page, rows, d)
  PROVE  /\ Exported(d, width) /\ Range(d) = Range(c) \cup Range(page)
         /\ AtMost(d, page[Len(page)])
<1>0. /\ D \subseteq Nat /\ width \in [D -> Nat \ {0}] /\ Exported(c, width) /\ Range(c) \subseteq D
      /\ page \in Seq(D) /\ page # <<>> /\ Rising(page)
      /\ \A m \in 1..Len(page) : Below(c, page[m])
      /\ rows \in Seq(Seq(Nat)) /\ Len(rows) = Len(page)
      /\ \A m \in 1..Len(page) : Block(rows[m], page[m], width)
      /\ d = c \o FlattenSeq(rows)
  BY DEF ExtendsByPage
<1> USE <1>0
<1> DEFINE len == Len(page)
<1>1. /\ len \in Nat \ {0} /\ DOMAIN page = 1..len /\ Range(page) = {page[m] : m \in 1..len}
      /\ \A m \in 1..len : page[m] \in D
  BY LenProperties, EmptySeq, ElementOfSeq DEF Range
<1>2. Len(rows) = len /\ \A m \in 1..len : Block(rows[m], page[m], width)
  OBVIOUS
<1>3. \A m, n \in 1..len : m < n => page[m] < page[n]
  BY <1>1 DEF Rising
<1>4. \A m \in 1..len : Below(c, page[m])
  OBVIOUS
<1>7. rows # <<>>
  BY <1>1, <1>2
<1> DEFINE N == Nat
<1>5. rows \in Seq(Seq(N))
  OBVIOUS
<1> HIDE DEF N
<1>6. \E f \in [1..Len(rows) -> Seq(N)] :
        /\ \A m \in 1..Len(rows) : f[m] = IF m = 1 THEN rows[1] ELSE f[m - 1] \o rows[m]
        /\ FlattenSeq(rows) = f[Len(rows)]
  BY <1>5, <1>7, FlattenUnfolds
<1>8. PICK f \in [1..len -> Seq(Nat)] :
        /\ \A m \in 1..len : f[m] = IF m = 1 THEN rows[1] ELSE f[m - 1] \o rows[m]
        /\ FlattenSeq(rows) = f[len]
  BY <1>2, <1>6 DEF N
<1>9. c \in Seq(Nat)
  BY DEF Exported
<1> DEFINE Good(e, m) == /\ Exported(e, width) /\ Range(e) = Range(c) \cup {page[j] : j \in 1..m}
                         /\ AtMost(e, page[m])
           T == {n \in Nat : n + 1 \in 1..len => Good(c \o f[n + 1], n + 1)}
<1> HIDE DEF len
<1>10. 0 \in T
  <2> SUFFICES ASSUME 1 \in 1..len PROVE Good(c \o f[1], 1)
    OBVIOUS
  <2> DEFINE i == page[1]
             b == rows[1]
             e == c \o b
  <2>1. i \in D /\ Below(c, i)
    BY <1>1, <1>4
  <2>2. Block(b, i, width)
    BY <1>1, <1>2
  <2>3. c \o f[1] = e
    BY <1>8
  <2>7. e = c \o b
    OBVIOUS
  <2> HIDE DEF i, b, e
  <2>4. Exported(e, width) /\ Range(e) = Range(c) \cup {i} /\ AtMost(e, i)
    <3>1. Extends(D, width, c, i, b, e)
      BY <2>1, <2>2, <2>7 DEF Extends
    <3>2. QED
      BY <3>1, RowByRow
  <2>5. {page[j] : j \in 1..1} = {i}
    BY DEF i
  <2>6. QED
    BY <2>3, <2>4, <2>5 DEF i
<1>11. ASSUME NEW n \in Nat, n \in T
       PROVE  n + 1 \in T
  <2> HIDE DEF Good
  <2> SUFFICES ASSUME (n + 1) + 1 \in 1..len PROVE Good(c \o f[(n + 1) + 1], (n + 1) + 1)
    OBVIOUS
  <2> USE DEF Good
  <2> DEFINE m == n + 1
             i == page[m + 1]
             e == c \o f[m]
             b == rows[m + 1]
             h == f[m]
             g == e \o b
  <2>1. m \in 1..len /\ m + 1 \in 1..len /\ m + 1 # 1 /\ (m + 1) - 1 = m /\ m \in Nat
    BY <1>1
  <2>2. Good(e, m)
    BY <1>11, <2>1
  <2> HIDE DEF m
  <2>3. f[m + 1] = h \o b
    BY <1>8, <2>1
  <2>15. Block(b, i, width)
    BY <1>2, <2>1
  <2>4. i \in D /\ h \in Seq(Nat) /\ b \in Seq(Nat)
    BY <1>1, <1>8, <2>1, <2>15 DEF Block
  <2>16. e = c \o h /\ g = e \o b
    OBVIOUS
  <2>7. page[m] < i /\ page[m] \in Nat /\ i \in Nat
    <3>1. m < m + 1
      BY <2>1
    <3>2. page[m] \in D /\ page[m] < page[m + 1]
      BY <1>1, <1>3, <2>1, <3>1
    <3>3. QED
      BY <2>4, <3>2
  <2> HIDE DEF i, b, h, e, g
  <2>6. c \o f[m + 1] = g
    <3>1. c \in Seq(N) /\ h \in Seq(N) /\ b \in Seq(N)
      BY <1>9, <2>4 DEF N
    <3>3. (c \o h) \o b = c \o (h \o b)
      <4> HIDE <1>0
      <4>1. QED
        BY <3>1, ThreeParts
    <3>2. QED
      BY <2>3, <2>16, <3>3
  <2>8. Below(e, i)
    <3>1. e \in Seq(Nat) /\ \A k \in 1..Len(e) : e[k] <= page[m]
      BY <2>2 DEF Exported, AtMost
    <3>2. \A k \in 1..Len(e) : e[k] \in Nat
      BY <3>1, ElementOfSeq
    <3>3. QED
      BY <3>1, <3>2, <2>7 DEF Below
  <2>9. Exported(e, width) /\ Range(e) = Range(c) \cup {page[j] : j \in 1..m}
    BY <2>2
  <2>10. Range(e) \subseteq D
    BY <2>9, <1>1, <2>1
  <2>11. Exported(g, width) /\ Range(g) = Range(e) \cup {i} /\ AtMost(g, i)
    <3>1. Extends(D, width, e, i, b, g)
      BY <2>4, <2>15, <2>16, <2>8, <2>9, <2>10 DEF Extends
    <3>2. QED
      BY <3>1, RowByRow
  <2>12. {page[j] : j \in 1..m + 1} = {page[j] : j \in 1..m} \cup {i}
    BY <2>1 DEF i
  <2>13. Good(g, m + 1)
    BY <2>9, <2>11, <2>12 DEF i
  <2>14. QED
    BY <2>6, <2>13 DEF m
<1> HIDE DEF T
<1>12. \A n \in Nat : n \in T
  BY <1>10, <1>11, NatInduct
<1> DEFINE last == len - 1
<1>13. last \in T /\ last + 1 = len /\ len \in 1..len
  BY <1>1, <1>12
<1>14. Good(c \o f[len], len)
  BY <1>13 DEF T
<1>15. Good(d, len)
  BY <1>8, <1>14
<1>16. QED
  BY <1>1, <1>15 DEF len

\* Rows that are in the export already stay as long as they are.
LEMMA ExportedStays ==
  ASSUME NEW c, NEW width, Exported(c, width), NEW wide, \A i \in Range(c) : wide[i] = width[i]
  PROVE  Exported(c, wide)
<1>1. ASSUME NEW i \in Range(c)
      PROVE  \E a \in Nat : /\ a + wide[i] <= Len(c)
                            /\ \A n \in 1..Len(c) : c[n] = i <=> (a < n /\ n <= a + wide[i])
  <2>1. \E a \in Nat : /\ a + width[i] <= Len(c)
                       /\ \A n \in 1..Len(c) : c[n] = i <=> (a < n /\ n <= a + width[i])
    BY DEF Exported
  <2>2. wide[i] = width[i]
    OBVIOUS
  <2>3. QED
    BY <2>1, <2>2
<1>2. QED
  BY <1>1 DEF Exported

\* A row that is drawn keeps its place and its line items.
LEMMA RowsStay ==
  ASSUME TypeInv, [Next]_vars
  PROVE  \A i \in DOMAIN ledger : i \in DOMAIN ledger' /\ ledger'[i].lines = ledger[i].lines
<1>0. ledger \in Seq(Row)
  BY DEF TypeInv, TypeOK, Row
<1>1. CASE UNCHANGED ledger
  BY <1>1
<1>2. ASSUME NEW writer, NEW lines, DrawId(writer, lines)
      PROVE  \A i \in DOMAIN ledger : i \in DOMAIN ledger' /\ ledger'[i].lines = ledger[i].lines
  BY <1>0, <1>2 DEF DrawId
<1>3. ASSUME NEW writer, NEW state, Conclude(writer, state)
      PROVE  \A i \in DOMAIN ledger : i \in DOMAIN ledger' /\ ledger'[i].lines = ledger[i].lines
  BY <1>0, <1>3 DEF Conclude, Row
<1>4. QED
  BY <1>1, <1>2, <1>3 DEF Next, vars, ledgerVars, Read, Download, ExportStatus, StartDownload, FetchPage,
     SendPage, Truncate, CountRows, NewestWritten, Save, AppendLedger

\* What a page holds: the next committed rows, and all of them unless it is full.
Follows(page, last_id) ==
  /\ page \in Seq(DOMAIN ledger) /\ Rising(page) /\ Len(page) <= PageSize
  /\ Range(page) \subseteq Committed
  /\ \A m \in 1..Len(page) : last_id < page[m]
  /\ \A i \in Committed : i > last_id =>
       i \in Range(page) \/ (page # <<>> /\ Len(page) = PageSize /\ page[Len(page)] < i)

LEMMA PageFacts ==
  ASSUME TypeInv, NEW last_id \in Nat
  PROVE  Follows(Page(last_id), last_id)
<1> DEFINE at == [i \in DOMAIN ledger |-> i]
           S == {i \in Committed : i > last_id}
           D == DOMAIN ledger
           ids == Selected(at, S)
           len == Len(ids)
           k == IF len < PageSize THEN len ELSE PageSize
           page == SubSeq(ids, 1, k)
<1>1. page = Page(last_id)
  BY DEF Page
<1>2. D = 1..Len(ledger) /\ Len(ledger) \in Nat /\ PageSize \in Nat \ {0} /\ S \subseteq D
  <2>1. ledger \in Seq(Row)
    BY DEF TypeInv, TypeOK, Row
  <2>2. QED
    BY <2>1, LenProperties, PageAssumption DEF Committed
<1>3. at \in Seq(D) /\ Rising(at) /\ Range(at) = D /\ D \subseteq Nat
  <2>1. DOMAIN at = D /\ \A i \in D : at[i] = i
    OBVIOUS
  <2>2. at \in Seq(D)
    BY <1>2, <2>1
  <2>3. Range(at) = D
    BY <2>1 DEF Range
  <2>4. QED
    BY <2>1, <2>2, <2>3, <1>2 DEF Rising
<1> HIDE DEF at, S, D
<1>4. ids \in Seq(D \cap S) /\ Rising(ids) /\ Range(ids) = D \cap S
  BY <1>3, SelectedType, SelectedRising, SelectedRange
<1> HIDE DEF ids
<1> DEFINE X == D \cap S
<1>5. X = S
  BY <1>2
<1>6. /\ ids \in Seq(S) /\ len \in Nat /\ DOMAIN ids = 1..len
      /\ \A n \in 1..len : ids[n] \in S
      /\ S = {ids[n] : n \in 1..len}
      /\ \A m, n \in 1..len : m < n => ids[m] < ids[n]
  <2>1. ids \in Seq(S)
    BY <1>4, <1>5
  <2>2. len \in Nat /\ DOMAIN ids = 1..len /\ \A n \in 1..len : ids[n] \in S
    BY <2>1, LenProperties, ElementOfSeq
  <2>3. QED
    BY <2>1, <2>2, <1>4, <1>5 DEF Range, Rising
<1> HIDE DEF len
<1>7. k \in Nat /\ k <= len /\ k <= PageSize /\ (k = len \/ k = PageSize)
  BY <1>2, <1>6
<1> HIDE DEF k
<1>8. page \in Seq(S) /\ Len(page) = k /\ \A n \in 1..k : page[n] = ids[n]
  BY <1>6, <1>7, FirstOnes DEF len
<1> HIDE DEF page
<1>9. DOMAIN page = 1..k /\ \A n \in 1..k : page[n] \in S /\ n \in 1..len
  BY <1>6, <1>7, <1>8, LenProperties
<1>10. Rising(page)
  BY <1>6, <1>8, <1>9 DEF Rising
<1>11. ASSUME NEW i \in Committed, i > last_id
       PROVE  i \in Range(page) \/ (page # <<>> /\ Len(page) = PageSize /\ page[Len(page)] < i)
  <2>1. PICK n \in 1..len : ids[n] = i
    BY <1>6, <1>11 DEF S
  <2>2. CASE n \in 1..k
    BY <2>1, <2>2, <1>8, <1>9 DEF Range
  <2>3. CASE ~(n \in 1..k)
    <3>0. n \in Nat /\ 1 <= n /\ n <= len /\ k < n
      BY <2>3, <1>6, <1>7
    <3>5. k = PageSize /\ PageSize \in Nat \ {0}
      BY <3>0, <1>2, <1>6, <1>7
    <3>1. k = PageSize /\ k < n /\ k \in 1..k /\ k \in 1..len
      BY <3>0, <3>5, <1>6, <1>7
    <3>2. page[k] = ids[k] /\ ids[k] < ids[n]
      BY <3>1, <1>6, <1>8
    <3>3. page # <<>>
      BY <3>1, <1>8
    <3>4. QED
      BY <2>1, <3>1, <3>2, <3>3, <1>8
  <2>4. QED
    BY <2>2, <2>3
<1>12. page \in Seq(DOMAIN ledger)
  BY <1>2, <1>8 DEF D
<1>13. Range(page) \subseteq Committed /\ \A m \in 1..Len(page) : last_id < page[m]
  BY <1>8, <1>9 DEF S, Range
<1>14. QED
  BY <1>1, <1>7, <1>8, <1>10, <1>11, <1>12, <1>13 DEF Follows

DownloadRec ==
  [phase : {"idle", "fetch", "send", "done"}, last_id : Nat, page : Seq(Nat), lines : Seq(Nat),
   before : SUBSET Nat]

\* What an export that did not break off has sent: whole rows up to the cursor, of
\* those that were there at its beginning all up to the cursor, in the end all.
SentInv ==
  /\ Exported(download.lines, Widths)
  /\ Range(download.lines) \subseteq Committed
  /\ AtMost(download.lines, download.last_id)
  /\ \A i \in download.before :
       i \in Range(download.lines) \/ (download.phase # "done" /\ i > download.last_id)

\* The fetched page goes on where the cursor is, whatever has been committed since.
PageInv ==
  LET page == download.page
  IN  /\ page \in Seq(DOMAIN ledger) /\ page # <<>> /\ Rising(page) /\ Len(page) <= PageSize
      /\ Range(page) \subseteq Committed
      /\ \A m \in 1..Len(page) : download.last_id < page[m]
      /\ \A i \in download.before : i > download.last_id =>
           i \in Range(page) \/ (Len(page) = PageSize /\ page[Len(page)] < i)

ExportInv ==
  /\ download \in DownloadRec
  /\ download.before \subseteq Committed
  /\ download.phase = "idle" => download.last_id = 0
  /\ download.phase = "send" => PageInv
  /\ download.phase # "done" => ErrorRow \notin Range(download.lines)
  /\ ErrorRow \notin Range(download.lines) => SentInv

\* The rows of the ledger are numbered from 1, and have a CSV line at least.
LEMMA WidthsAre ==
  ASSUME TypeInv
  PROVE  /\ DOMAIN ledger \subseteq Nat \ {0} /\ Committed \subseteq DOMAIN ledger
         /\ Widths \in [DOMAIN ledger -> Nat \ {0}]
<1>1. ledger \in Seq(Row)
  BY DEF TypeInv, TypeOK, Row
<1>2. DOMAIN ledger = 1..Len(ledger) /\ Len(ledger) \in Nat
  BY <1>1, LenProperties
<1>3. \A i \in DOMAIN ledger : ledger[i].lines \in {0, MaxLines}
  <2>1. \A i \in DOMAIN ledger : ledger[i] \in Row
    BY <1>1, <1>2, ElementOfSeq
  <2>2. QED
    BY <2>1 DEF Row
<1>4. \A i \in DOMAIN ledger : CsvLines(i) \in Nat \ {0}
  BY <1>3, PageAssumption DEF CsvLines
<1>5. QED
  BY <1>2, <1>4 DEF Widths, Committed

\* The ledger grows; the export does not move.
LEMMA OthersKeepExport ==
  ASSUME TypeInv, ExportInv, [Next]_vars, UNCHANGED download
  PROVE  ExportInv'
<1>1. Committed \subseteq Committed'
  BY CommittedGrows
<1>2. \A i \in DOMAIN ledger : i \in DOMAIN ledger' /\ ledger'[i].lines = ledger[i].lines
  BY RowsStay
<1> DEFINE wide == Widths'
<1>3. \A i \in DOMAIN ledger : wide[i] = Widths[i]
  BY <1>2 DEF Widths, CsvLines
<1> HIDE DEF wide
<1>4. Committed \subseteq DOMAIN ledger
  BY DEF Committed
<1>5. SentInv => Exported(download.lines, wide)
  <2>1. SUFFICES ASSUME SentInv PROVE Exported(download.lines, wide)
    OBVIOUS
  <2>2. Exported(download.lines, Widths) /\ \A i \in Range(download.lines) : wide[i] = Widths[i]
    BY <2>1, <1>3, <1>4 DEF SentInv
  <2>3. QED
    BY <2>2, ExportedStays
<1>6. SentInv => SentInv'
  BY <1>1, <1>5 DEF SentInv, wide
<1>7. download.page \in Seq(DOMAIN ledger) => download.page \in Seq(DOMAIN ledger')
  <2>1. DOMAIN ledger \subseteq DOMAIN ledger'
    BY <1>2
  <2> DEFINE D == DOMAIN ledger
             E == DOMAIN ledger'
  <2>2. D \subseteq E
    BY <2>1
  <2> HIDE DEF D, E
  <2>3. ASSUME NEW s \in Seq(D) PROVE s \in Seq(E)
    <3>1. s \in [1..Len(s) -> E] /\ Len(s) \in Nat
      BY <2>2, LenProperties, ElementOfSeq
    <3>2. QED
      BY <3>1
  <2>4. QED
    BY <2>3 DEF D, E
<1>8. PageInv => PageInv'
  BY <1>1, <1>7 DEF PageInv
<1>9. QED
  BY <1>1, <1>6, <1>8 DEF ExportInv

LEMMA DownloadFields ==
  ASSUME ExportInv
  PROVE  /\ download.phase \in {"idle", "fetch", "send", "done"} /\ download.last_id \in Nat
         /\ download.page \in Seq(Nat) /\ download.lines \in Seq(Nat)
         /\ Len(download.lines) \in Nat /\ DOMAIN download.lines = 1..Len(download.lines)
         /\ \A n \in 1..Len(download.lines) : download.lines[n] \in Nat
<1>1. download.lines \in Seq(Nat) /\ download \in DownloadRec
  BY DEF ExportInv, DownloadRec
<1>2. QED
  BY <1>1, LenProperties, ElementOfSeq DEF DownloadRec

LEMMA StartKeepsExport ==
  ASSUME TypeInv, ExportInv, StartDownload
  PROVE  ExportInv'
<1>1. download' = [download EXCEPT !.phase = "fetch", !.before = Committed]
  BY DEF StartDownload
<1>2. download \in DownloadRec /\ Committed \subseteq Nat /\ \A i \in Committed : i > 0
  BY WidthsAre DEF ExportInv
<1>3. download' \in DownloadRec
  BY <1>1, <1>2 DEF DownloadRec
<1>4. /\ download'.phase = "fetch" /\ download'.before = Committed
      /\ download'.lines = download.lines /\ download'.last_id = download.last_id
  BY <1>1, <1>2 DEF DownloadRec
<1>5. download.phase = "idle" /\ download.last_id = 0
  BY DEF StartDownload, ExportInv
<1>6. ErrorRow \notin Range(download.lines) /\ SentInv
  BY <1>5 DEF ExportInv
<1>7. Committed' = Committed /\ Widths' = Widths
  BY DEF StartDownload, Committed, Widths, CsvLines
<1>8. SentInv'
  BY <1>2, <1>4, <1>5, <1>6, <1>7 DEF SentInv
<1>9. QED
  BY <1>3, <1>4, <1>6, <1>7, <1>8 DEF ExportInv

LEMMA FetchKeepsExport ==
  ASSUME TypeInv, ExportInv, FetchPage
  PROVE  ExportInv'
<1> DEFINE rows == Page(download.last_id)
<1>1. download' = [download EXCEPT !.page = rows, !.phase = IF rows = <<>> THEN "done" ELSE "send"]
  BY DEF FetchPage
<1>2. download \in DownloadRec /\ download.last_id \in Nat /\ download.phase = "fetch"
  BY DownloadFields DEF ExportInv, FetchPage
<1>3. Follows(rows, download.last_id)
  BY <1>2, PageFacts
<1> HIDE DEF rows
<1>4. rows \in Seq(Nat)
  <2> DEFINE D == DOMAIN ledger
  <2>1. rows \in Seq(D) /\ D \subseteq Nat
    BY <1>3, WidthsAre DEF Follows
  <2> HIDE DEF D
  <2>2. rows \in [1..Len(rows) -> Nat] /\ Len(rows) \in Nat
    BY <2>1, LenProperties, ElementOfSeq
  <2>3. QED
    BY <2>2
<1>5. download' \in DownloadRec
  BY <1>1, <1>2, <1>4 DEF DownloadRec
<1>6. /\ download'.phase = (IF rows = <<>> THEN "done" ELSE "send") /\ download'.page = rows
      /\ download'.lines = download.lines /\ download'.last_id = download.last_id
      /\ download'.before = download.before
  BY <1>1, <1>2 DEF DownloadRec
<1>7. Committed' = Committed /\ Widths' = Widths /\ ledger' = ledger
  BY DEF FetchPage, Committed, Widths, CsvLines
<1>8. ErrorRow \notin Range(download.lines) /\ SentInv /\ download.before \subseteq Committed
  BY <1>2 DEF ExportInv
<1>9. rows = <<>> => \A i \in download.before : i \in Range(download.lines)
  <2> SUFFICES ASSUME rows = <<>>, NEW i \in download.before PROVE i \in Range(download.lines)
    OBVIOUS
  <2>1. Range(rows) = {}
    BY DEF Range
  <2>2. ~(i > download.last_id)
    BY <1>3, <1>8, <2>1 DEF Follows
  <2>3. QED
    BY <1>8, <2>2 DEF SentInv
<1>10. SentInv'
  <2>1. CASE rows = <<>>
    BY <2>1, <1>6, <1>7, <1>8, <1>9 DEF SentInv
  <2>2. CASE rows # <<>>
    BY <2>2, <1>6, <1>7, <1>8 DEF SentInv
  <2>3. QED
    BY <2>1, <2>2
<1>11. rows # <<>> => PageInv'
  BY <1>3, <1>6, <1>7, <1>8 DEF Follows, PageInv
<1>12. QED
  BY <1>5, <1>6, <1>7, <1>8, <1>10, <1>11 DEF ExportInv

LEMMA SendKeepsExport ==
  ASSUME TypeInv, ExportInv, SendPage
  PROVE  ExportInv'
<1> DEFINE page == download.page
           c == download.lines
           blocks == [n \in DOMAIN page |-> CsvRows(page[n])]
           d == c \o FlattenSeq(blocks)
           D == DOMAIN ledger
           len == Len(page)
           end == page[len]
<1>1. download' = [download EXCEPT !.lines = d, !.last_id = end, !.page = <<>>,
                                   !.phase = IF len < PageSize THEN "done" ELSE "fetch"]
  BY DEF SendPage, Last
<1>2. /\ download \in DownloadRec /\ download.phase = "send" /\ download.last_id \in Nat
      /\ ErrorRow \notin Range(c) /\ SentInv /\ PageInv /\ download.before \subseteq Committed
  BY DownloadFields DEF ExportInv, SendPage
<1>3. /\ page \in Seq(D) /\ page # <<>> /\ Rising(page) /\ len <= PageSize
      /\ Range(page) \subseteq Committed /\ \A m \in 1..len : download.last_id < page[m]
  BY <1>2 DEF PageInv
<1>4. /\ D \subseteq Nat \ {0} /\ Committed \subseteq D /\ Widths \in [D -> Nat \ {0}]
      /\ PageSize \in Nat \ {0}
  BY WidthsAre, PageAssumption
<1>5. /\ len \in Nat \ {0} /\ DOMAIN page = 1..len /\ \A m \in 1..len : page[m] \in D
      /\ end \in D /\ end \in Range(page)
  <2>1. len \in Nat \ {0} /\ DOMAIN page = 1..len /\ \A m \in 1..len : page[m] \in D
    BY <1>3, LenProperties, EmptySeq, ElementOfSeq
  <2>2. len \in 1..len
    BY <2>1
  <2>3. QED
    BY <2>1, <2>2 DEF Range
<1>6. /\ Exported(c, Widths) /\ Range(c) \subseteq D /\ AtMost(c, download.last_id)
      /\ c \in Seq(Nat) /\ Len(c) \in Nat /\ \A n \in 1..Len(c) : c[n] \in Nat
  BY <1>2, <1>4, DownloadFields DEF SentInv
<1>7. \A m \in 1..len : Below(c, page[m])
  <2> SUFFICES ASSUME NEW m \in 1..len, NEW n \in 1..Len(c) PROVE c[n] < page[m]
    BY DEF Below
  <2>1. c[n] \in Nat /\ c[n] <= download.last_id
    BY <1>6 DEF AtMost
  <2>2. page[m] \in Nat /\ download.last_id < page[m]
    BY <1>3, <1>4, <1>5
  <2> HIDE DEF c, page
  <2>3. QED
    BY <2>1, <2>2, <1>2
<1>8. \A i \in D : Block(CsvRows(i), i, Widths)
  <2> SUFFICES ASSUME NEW i \in D PROVE Block(CsvRows(i), i, Widths)
    OBVIOUS
  <2> DEFINE w == CsvLines(i)
  <2>1. Widths[i] = w /\ w \in Nat \ {0}
    BY <1>4 DEF Widths
  <2> HIDE DEF w
  <2>2. CsvRows(i) = [n \in 1..w |-> i]
    BY DEF CsvRows, w
  <2>3. QED
    BY <2>1, <2>2, <1>4 DEF Block
<1>9. /\ blocks \in Seq(Seq(Nat)) /\ Len(blocks) = len
      /\ \A m \in 1..len : Block(blocks[m], page[m], Widths)
  <2>1. DOMAIN blocks = 1..len /\ \A m \in 1..len : blocks[m] = CsvRows(page[m])
    BY <1>5
  <2>2. \A m \in 1..len : Block(CsvRows(page[m]), page[m], Widths)
    BY <1>5, <1>8
  <2> HIDE DEF blocks, page
  <2>3. \A m \in 1..len : Block(blocks[m], page[m], Widths) /\ blocks[m] \in Seq(Nat)
    BY <2>1, <2>2 DEF Block
  <2>4. blocks \in [1..len -> Seq(Nat)]
    <3>1. blocks = [m \in 1..len |-> blocks[m]]
      BY <2>1 DEF blocks
    <3>2. QED
      BY <2>3, <3>1
  <2>5. QED
    BY <2>3, <2>4, <1>5
<1>10. d = c \o FlattenSeq(blocks)
  OBVIOUS
<1>11. \A n \in DOMAIN page : n \in 1..len
  BY <1>5
<1> DEFINE W == Widths
<1>12. /\ D \subseteq Nat /\ W \in [D -> Nat \ {0}] /\ Exported(c, W)
       /\ \A m \in 1..len : Block(blocks[m], page[m], W)
  BY <1>4, <1>6, <1>9
<1> HIDE DEF page, c, blocks, d, D, W
<1>13. Exported(d, W) /\ Range(d) = Range(c) \cup Range(page) /\ AtMost(d, page[Len(page)])
  <2>1. ExtendsByPage(D, W, c, page, blocks, d)
    BY <1>3, <1>6, <1>7, <1>9, <1>10, <1>12 DEF ExtendsByPage, len
  <2>2. QED
    BY <2>1, PageByPage
<1> HIDE DEF len, end
<1>14. d \in Seq(Nat) /\ end \in Nat
  BY <1>4, <1>5, <1>13 DEF Exported
<1>15. download' \in DownloadRec
  <2> DEFINE phase == IF len < PageSize THEN "done" ELSE "fetch"
  <2>1. phase \in {"idle", "fetch", "send", "done"} /\ <<>> \in Seq(Nat)
    OBVIOUS
  <2> HIDE DEF phase
  <2>2. QED
    BY <2>1, <1>1, <1>2, <1>14 DEF DownloadRec, phase
<1>16. /\ download'.phase = (IF len < PageSize THEN "done" ELSE "fetch") /\ download'.lines = d
       /\ download'.last_id = end /\ download'.before = download.before
  BY <1>1, <1>2 DEF DownloadRec
<1>17. Committed' = Committed /\ Widths' = Widths
  BY DEF SendPage, Committed, Widths, CsvLines
<1>18. Range(d) \subseteq Committed
  BY <1>2, <1>3, <1>13 DEF SentInv, c
<1>19. ErrorRow \notin Range(d)
  BY <1>4, <1>18 DEF ErrorRow
<1>20. ASSUME NEW i \in download.before
       PROVE  i \in Range(d) \/ (download'.phase # "done" /\ i > end)
  <2>1. CASE i \in Range(c)
    BY <2>1, <1>13
  <2>2. CASE i \notin Range(c)
    <3>1. i > download.last_id
      BY <2>2, <1>2 DEF SentInv, c
    <3>2. i \in Range(page) \/ (len = PageSize /\ end < i)
      BY <3>1, <1>2 DEF PageInv, page, len, end
    <3>3. CASE i \in Range(page)
      BY <3>3, <1>13
    <3>4. CASE len = PageSize /\ end < i
      <4>1. download'.phase = "fetch"
        BY <3>4, <1>4, <1>16
      <4>2. i \in Nat
        BY <1>2, <1>4
      <4>3. QED
        BY <3>4, <4>1, <4>2, <1>14
    <3>5. QED
      BY <3>2, <3>3, <3>4
  <2>3. QED
    BY <2>1, <2>2
<1>21. SentInv'
  <2>1. AtMost(d, end) /\ Exported(d, Widths)
    BY <1>13 DEF end, len, W
  <2>2. QED
    BY <2>1, <1>16, <1>17, <1>18, <1>20 DEF SentInv
<1>22. download'.before \subseteq Committed' /\ download'.phase \notin {"idle", "send"}
  BY <1>2, <1>16, <1>17
<1>23. QED
  BY <1>15, <1>16, <1>19, <1>21, <1>22 DEF ExportInv

LEMMA TruncateKeepsExport ==
  ASSUME TypeInv, ExportInv, Truncate
  PROVE  ExportInv'
<1> DEFINE c == download.lines
           d == Append(c, ErrorRow)
<1>1. download' = [download EXCEPT !.lines = d, !.phase = "done"]
  BY DEF Truncate
<1>2. /\ download \in DownloadRec /\ c \in Seq(Nat) /\ ErrorRow \in Nat
      /\ download.before \subseteq Committed
  BY DownloadFields DEF ExportInv, ErrorRow
<1>3. d \in Seq(Nat) /\ ErrorRow \in Range(d)
  <2>1. /\ d \in Seq(Nat) /\ Len(d) = Len(c) + 1 /\ d[Len(c) + 1] = ErrorRow
        /\ DOMAIN d = 1..(Len(c) + 1) /\ Len(c) \in Nat
    BY <1>2, AppendProperties, LenProperties
  <2> HIDE DEF d
  <2>2. QED
    BY <2>1 DEF Range
<1> HIDE DEF d
<1>4. download' \in DownloadRec
  BY <1>1, <1>2, <1>3 DEF DownloadRec
<1>5. download'.phase = "done" /\ download'.lines = d /\ download'.before = download.before
  BY <1>1, <1>2 DEF DownloadRec
<1>6. Committed' = Committed
  BY DEF Truncate, Committed
<1>7. QED
  BY <1>2, <1>3, <1>4, <1>5, <1>6 DEF ExportInv

LEMMA ExportInitially ==
  ASSUME Init
  PROVE  ExportInv
<1>1. download = [phase |-> "idle", last_id |-> 0, page |-> <<>>, lines |-> <<>>, before |-> {}]
  BY DEF Init, LedgerInit
<1>2. /\ <<>> \in Seq(Nat) /\ Len(<<>>) = 0 /\ Range(<<>>) = {}
      /\ download.lines = <<>> /\ download.before = {}
  BY <1>1 DEF Range
<1>3. download \in DownloadRec
  BY <1>1, <1>2 DEF DownloadRec
<1>4. SentInv
  BY <1>2 DEF SentInv, Exported, AtMost
<1>5. QED
  BY <1>1, <1>2, <1>3, <1>4 DEF ExportInv

LEMMA ExportStep ==
  ASSUME TypeInv, ExportInv, [Next]_vars
  PROVE  ExportInv'
<1>1. CASE UNCHANGED download
  BY <1>1, OthersKeepExport
<1>2. CASE Download
  BY <1>2, StartKeepsExport, FetchKeepsExport, SendKeepsExport, TruncateKeepsExport DEF Download
<1>3. UNCHANGED download \/ Download
  BY DEF Next, vars, ledgerVars, Read, ExportStatus, CountRows, NewestWritten, Save, AppendLedger,
     DrawId, Conclude
<1>4. QED
  BY <1>1, <1>2, <1>3

\* A download without the error row is complete: all rows that were committed when it
\* began, whatever commits while it pages, in id order, whole and once.
THEOREM DownloadSafety == Spec => []DownloadIsComplete
<1>1. TypeInv /\ ExportInv => DownloadIsComplete
  <2>1. SUFFICES ASSUME TypeInv, ExportInv, download.phase = "done",
                        ErrorRow \notin Range(download.lines)
                 PROVE  DownloadIsComplete
    BY DEF DownloadIsComplete
  <2> DEFINE csv == download.lines
             len == Len(csv)
  <2>2. SentInv
    BY <2>1 DEF ExportInv
  <2>3. DOMAIN csv = 1..len /\ len \in Nat /\ Range(csv) \subseteq DOMAIN ledger
    BY <2>1, <2>2, DownloadFields, WidthsAre DEF SentInv
  <2>4. download.before \subseteq Range(csv) /\ Range(csv) \subseteq Committed
    BY <2>1, <2>2 DEF SentInv
  <2>5. \A m, n \in DOMAIN csv : m < n => csv[m] <= csv[n]
    BY <2>2, <2>3 DEF SentInv, Exported
  <2>6. ASSUME NEW i \in Range(csv)
        PROVE  Cardinality({n \in DOMAIN csv : csv[n] = i}) = CsvLines(i)
    <3> DEFINE w == CsvLines(i)
    <3>1. i \in DOMAIN ledger
      BY <2>3
    <3>2. Widths[i] = w /\ w \in Nat \ {0}
      BY <2>1, <3>1, WidthsAre DEF Widths
    <3>3. PICK a \in Nat : /\ a + w <= len
                           /\ \A n \in 1..len : csv[n] = i <=> (a < n /\ n <= a + w)
      BY <2>2, <3>2 DEF SentInv, Exported
    <3> HIDE DEF csv, len, w
    <3>4. {n \in DOMAIN csv : csv[n] = i} = (a + 1)..(a + w)
      BY <2>3, <3>2, <3>3
    <3> DEFINE from == a + 1
               to == a + w
    <3>5. from \in Int /\ to \in Int /\ ~(from > to) /\ to - from + 1 = w
      BY <3>2, <3>3
    <3> HIDE DEF from, to
    <3>6. Cardinality(from..to) = w
      BY <3>5, FS_Interval
    <3>7. QED
      BY <3>4, <3>6 DEF from, to, w
  <2>7. QED
    BY <2>4, <2>5, <2>6 DEF DownloadIsComplete
<1>2. TypeInv /\ ExportInv /\ [Next]_vars => TypeInv' /\ ExportInv'
  BY StoreKeepsType, ExportStep
<1>3. Init => TypeInv /\ ExportInv
  BY InitType, ExportInitially
<1>4. QED
  BY <1>1, <1>2, <1>3, PTL DEF Spec
=============================================================================
