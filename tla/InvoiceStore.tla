---------------------------- MODULE InvoiceStore ----------------------------
(***************************************************************************)
(* The tables invoices and line_items and the PDF bucket (invoice_agent/   *)
(* db.py), written by runs that may extract the same (vendor_name,         *)
(* invoice_number).                                                        *)
(*                                                                         *)
(* Each Supabase request is one step: no transaction spans the requests of *)
(* insert_invoice.  A request may fail before or after it landed.  A row   *)
(* of line_items stands for the rows one INSERT request wrote, identified  *)
(* by the run and the attempt that wrote them.                             *)
(***************************************************************************)
EXTENDS Naturals, FiniteSets

CONSTANTS
  Run,         \* runs of the graph, one document each
  Key,         \* (vendor_name, invoice_number) pairs
  NoRun,       \* no row with this key
  MaxAttempt   \* bound: executions of output() per run

ASSUME StoreAssumption == NoRun \notin Run /\ MaxAttempt \in Nat \ {0}

VARIABLES
  pc,         \* the request a run issues next
  key,        \* state["invoice"]'s key
  hasItems,   \* whether the run's invoice has line items
  flagged,    \* the validator's not_duplicate check failed
  attempt,    \* executions of output() begun
  header,     \* table invoices: the writer of each key's row and its pdf_storage_path
  items,      \* table line_items
  bucket      \* PDF_BUCKET: the documents uploaded

storeVars == <<pc, key, hasItems, flagged, attempt, header, items, bucket>>

\* Requests of output() that come after another one of the same save.
InSave == {"insert", "delete"}

Batch(r) == [run |-> r, attempt |-> attempt[r], key |-> key[r]]

NoHeader == [run |-> NoRun, attempt |-> 0, pdf |-> NoRun]

StoreInit ==
  /\ pc = [r \in Run |-> "validate"]
  /\ key \in [Run -> Key]
  /\ hasItems \in [Run -> BOOLEAN]
  /\ flagged = [r \in Run |-> FALSE]
  /\ attempt = [r \in Run |-> 0]
  /\ header = [k \in Key |-> NoHeader]
  /\ items = {}
  /\ bucket = {}

-----------------------------------------------------------------------------
(* The validator and the review *)

\* Mutant: the lookup never finds a row.
IsDuplicateBlind(k) == header[k].run \notin {NoRun} \cup Run

IsDuplicate(k) == header[k].run # NoRun

\* validator(): the only check of the database; a flag parks the run for review.
Validate(r) ==
  /\ pc[r] = "validate"
  /\ flagged' = [flagged EXCEPT ![r] = IsDuplicate(key[r])]
  /\ pc' = [pc EXCEPT ![r] = IF flagged'[r] THEN "review" ELSE "upload"]
  /\ attempt' = [attempt EXCEPT ![r] = IF flagged'[r] THEN @ ELSE @ + 1]
  /\ UNCHANGED <<key, hasItems, header, items, bucket>>

\* human_review: an approval overrides the flag; an edit is validated again.
Approve(r) ==
  /\ pc[r] = "review"
  /\ pc' = [pc EXCEPT ![r] = "upload"]
  /\ attempt' = [attempt EXCEPT ![r] = @ + 1]
  /\ UNCHANGED <<key, hasItems, flagged, header, items, bucket>>

EditKey(r, k) ==
  /\ pc[r] = "review"
  /\ k # key[r]
  /\ key' = [key EXCEPT ![r] = k]
  /\ pc' = [pc EXCEPT ![r] = "validate"]
  /\ UNCHANGED <<hasItems, flagged, attempt, header, items, bucket>>

-----------------------------------------------------------------------------
(* output(): upload_pdf, insert_invoice *)

\* A request that succeeded goes on; one that raised fails the run, whether or
\* not the database had carried it out.
Answered(r, next) ==
  \/ pc' = [pc EXCEPT ![r] = next]
  \/ pc' = [pc EXCEPT ![r] = "failed"]

\* A request that never reached Supabase, an unreadable PDF, no row returned.
RequestLost(r) ==
  /\ pc[r] \in {"upload", "upsert"} \cup InSave
  /\ pc' = [pc EXCEPT ![r] = "failed"]
  /\ UNCHANGED <<key, hasItems, flagged, attempt, header, items, bucket>>

\* Mutant: a failed upload is logged, and the save goes on.
UploadPdfTolerant(r) ==
  /\ pc[r] = "upload"
  /\ bucket' \in {bucket, bucket \cup {r}}
  /\ pc' = [pc EXCEPT ![r] = "upsert"]
  /\ UNCHANGED <<key, hasItems, flagged, attempt, header, items>>

UploadPdf(r) ==
  /\ pc[r] = "upload"
  /\ bucket' = bucket \cup {r}
  /\ Answered(r, "upsert")
  /\ UNCHANGED <<key, hasItems, flagged, attempt, header, items>>

\* Mutant: old items go before the new ones are in.
UpsertHeaderClearing(r) ==
  /\ pc[r] = "upsert"
  /\ header' = [header EXCEPT ![key[r]] = [run |-> r, attempt |-> attempt[r], pdf |-> r]]
  /\ items' = {b \in items : b.key # key[r]}
  /\ Answered(r, "insert")
  /\ UNCHANGED <<key, hasItems, flagged, attempt, bucket>>

\* Mutant: the row is written without the pdf_storage_path.
UpsertHeaderWithoutPath(r) ==
  /\ pc[r] = "upsert"
  /\ header' = [header EXCEPT ![key[r]] = [run |-> r, attempt |-> attempt[r], pdf |-> NoRun]]
  /\ Answered(r, "insert")
  /\ UNCHANGED <<key, hasItems, flagged, attempt, items, bucket>>

\* The upsert on (vendor_name, invoice_number) overwrites whoever wrote the row.
UpsertHeader(r) ==
  /\ pc[r] = "upsert"
  /\ header' = [header EXCEPT ![key[r]] = [run |-> r, attempt |-> attempt[r], pdf |-> r]]
  /\ Answered(r, "insert")
  /\ UNCHANGED <<key, hasItems, flagged, attempt, items, bucket>>

InsertItems(r) ==
  /\ pc[r] = "insert"
  /\ items' = IF hasItems[r] THEN items \cup {Batch(r)} ELSE items
  /\ Answered(r, "delete")
  /\ UNCHANGED <<key, hasItems, flagged, attempt, header, bucket>>

\* Mutant: an invoice without line items deletes nothing.
DeleteOldItemsIfAny(r) ==
  /\ pc[r] = "delete"
  /\ items' = IF hasItems[r] THEN {b \in items : b.key = key[r] => b = Batch(r)} ELSE items
  /\ Answered(r, "ledger")
  /\ UNCHANGED <<key, hasItems, flagged, attempt, header, bucket>>

\* Every row of the invoice whose id the INSERT did not return.
DeleteOldItems(r) ==
  /\ pc[r] = "delete"
  /\ items' = {b \in items : b.key = key[r] => b = Batch(r)}
  /\ Answered(r, "ledger")
  /\ UNCHANGED <<key, hasItems, flagged, attempt, header, bucket>>

\* An empty-body resume re-executes the failed output() from the top.
RetryOutput(r) ==
  /\ pc[r] = "failed"
  /\ attempt[r] < MaxAttempt
  /\ attempt' = [attempt EXCEPT ![r] = @ + 1]
  /\ pc' = [pc EXCEPT ![r] = "upload"]
  /\ UNCHANGED <<key, hasItems, flagged, header, items, bucket>>

\* Every step of a run except the request that completes its save.
BeforeSaved(r) ==
  \/ Validate(r) \/ Approve(r) \/ (\E k \in Key : EditKey(r, k))
  \/ UploadPdf(r) \/ UpsertHeader(r) \/ InsertItems(r)
  \/ RequestLost(r) \/ RetryOutput(r)

-----------------------------------------------------------------------------
(* The source PDF of a completed run (GET /invoices/{thread_id}) *)

\* A checkpoint that predates pdf_storage_path falls back to the invoices row.
PdfLink(r, historic) == IF historic THEN header[key[r]].pdf ELSE r
=============================================================================
