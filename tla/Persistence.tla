---------------------------- MODULE Persistence ----------------------------
(***************************************************************************)
(* output() end to end: runs save their invoices into the shared tables    *)
(* and append to the ledger, while somebody downloads the export and asks  *)
(* for its status.                                                         *)
(***************************************************************************)
EXTENDS InvoiceStore, ExportLedger

CONSTANT Historic   \* runs whose checkpoint has no pdf_storage_path

ASSUME HistoricAssumption == Historic \subseteq Run

VARIABLES
  raced,      \* history: pairs of runs both between duplicate check and header row
  overlapped, \* history: keys two saves wrote at the same time
  saved       \* history: per key, the last save whose every request landed

vars == <<storeVars, ledgerVars, raced, overlapped, saved>>

NoSave == [run |-> NoRun, attempt |-> 0, key |-> NoRun]

Init ==
  /\ StoreInit
  /\ LedgerInit
  /\ raced = {}
  /\ overlapped = {}
  /\ saved = [k \in Key |-> NoSave]

\* A run past the duplicate check that has not written the row it looks for.
Checked(r) == pc[r] \in {"upload", "upsert"}

Saving(r, k) == pc[r] \in InSave /\ key[r] = k

Pairs(S) == {{r, s} : r \in S, s \in S}

Observe ==
  /\ raced' = raced \cup Pairs({r \in Run : Checked(r)'})
  /\ overlapped' = overlapped \cup
       {k \in Key : \E r, s \in Run : r # s /\ Saving(r, k)' /\ Saving(s, k)'}

-----------------------------------------------------------------------------
(* Steps *)

Save(r) ==
  /\ \/ BeforeSaved(r) /\ UNCHANGED saved
     \/ DeleteOldItems(r) /\ saved' = [saved EXCEPT ![key[r]] = Batch(r)]
  /\ Observe
  /\ UNCHANGED ledgerVars

Proceed(r, next) ==
  /\ pc' = [pc EXCEPT ![r] = next]
  /\ UNCHANGED <<key, hasItems, flagged, attempt, header, items, bucket>>
  /\ UNCHANGED <<raced, overlapped, saved>>

\* output()'s second try block: whatever becomes of the append, the run completes.
AppendLedger(r) ==
  \/ /\ pc[r] = "ledger"
     /\ DrawId(r, IF hasItems[r] THEN MaxLines ELSE 0)
     /\ Proceed(r, "commit")
  \/ /\ pc[r] = "ledger"
     /\ Proceed(r, "done")
     /\ UNCHANGED ledgerVars
  \/ /\ pc[r] = "commit"
     /\ \E state \in {"committed", "lost"} : Conclude(r, state)
     /\ Proceed(r, "done")

Read ==
  /\ Download \/ ExportStatus
  /\ UNCHANGED <<storeVars, raced, overlapped, saved>>

Next == Read \/ (\E r \in Run : Save(r) \/ AppendLedger(r))

Spec == Init /\ [][Next]_vars

-----------------------------------------------------------------------------
(* Properties *)

Attempts == 0..MaxAttempt

TypeOK ==
  /\ pc \in [Run -> {"validate", "review", "upload", "upsert", "insert", "delete",
                     "failed", "ledger", "commit", "done"}]
  /\ key \in [Run -> Key]
  /\ hasItems \in [Run -> BOOLEAN]
  /\ flagged \in [Run -> BOOLEAN]
  /\ attempt \in [Run -> Attempts]
  /\ header \in [Key -> {NoHeader} \cup [run : Run, attempt : Attempts, pdf : Run]]
  /\ items \subseteq [run : Run, attempt : Attempts, key : Key]
  /\ bucket \subseteq Run
  /\ ledger \in Seq([writer : Run, lines : {0, MaxLines},
                     state : {"drawn", "committed", "lost"}])
  /\ saved \in [Key -> {NoSave} \cup [run : Run, attempt : Attempts, key : Key]]

ItemsOf(k) == {b \in items : b.key = k}

\* The line items a completed save put there.
Whole(save) == IF save # NoSave /\ hasItems[save.run] THEN {save} ELSE {}

\* While saves of one invoice do not overlap, no failure of any request, before
\* or after it landed, takes away the line items of the last complete save
\* (insert_invoice: new rows go in before the old ones are deleted).
FailedSaveKeepsItems ==
  \A k \in Key : k \notin overlapped => Whole(saved[k]) \subseteq items

\* Once the save that wrote an invoice's header is complete, and none overlapped
\* it, the invoice has that save's line items and no others, until another save
\* writes the header: retries and earlier failed saves leave no duplicates behind.
SettledInvoiceIsWhole ==
  \A k \in Key :
    (/\ k \notin overlapped
     /\ header[k].run = saved[k].run /\ header[k].attempt = saved[k].attempt)
    => ItemsOf(k) = Whole(saved[k])

\* An invoice is overwritten by another run's only after an approval overrode that
\* run's duplicate flag (route_after_validation lets an approved invoice through
\* with its flags, the duplicate one included), while both were between check and
\* row, or by the retry of a failed save, which does not pass the validator again.
\* docs/api.md:102-105 leaves no room for the first of these: a genuine duplicate
\* "re-interrupts indefinitely rather than ever reaching output()".  The code has it.
OverwriteHasAReason ==
  [][\A k \in Key :
       LET old == header[k].run
           new == header'[k].run
       IN  old \notin {NoRun, new} =>
             flagged[new] \/ {old, new} \in raced \/ attempt[new] > 1]_vars

\* The source-PDF link of a completed run leads to a stored PDF, and to that
\* run's own unless the link is the table's and another run saved the same key.
LinkLeadsToThePdf ==
  \A r \in Run : pc[r] = "done" =>
    LET link == PdfLink(r, r \in Historic)
    IN  link \in bucket /\ (link # r => r \in Historic /\ key[link] = key[r])

\* A download without the error row holds every row that was committed when it
\* began, and no row that never was; rows come in id order, each with all its lines,
\* and none twice.
DownloadIsComplete ==
  (download.phase = "done" /\ ErrorRow \notin Range(download.lines)) =>
    LET csv == download.lines
        sent == Range(csv)
    IN  /\ download.before \subseteq sent
        /\ sent \subseteq Committed
        /\ \A m, n \in DOMAIN csv : m < n => csv[m] <= csv[n]
        /\ \A i \in sent : Cardinality({n \in DOMAIN csv : csv[n] = i}) = CsvLines(i)

\* A status with a row count above zero names the time of the newest row: the two
\* requests see an append-only table in this order.
StatusHasATime ==
  (bar.phase = "done" /\ bar.row_count > 0) => bar.written
=============================================================================
