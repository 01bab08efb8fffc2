---------------------------- MODULE ExportLedger ----------------------------
(***************************************************************************)
(* The append-only table invoice_exports, GET /export.csv and              *)
(* GET /export/status (invoice_agent/db.py, app/routes.py).                *)
(*                                                                         *)
(* A row's identity column is drawn when the INSERT executes; the row is   *)
(* seen by others when it commits.  An INSERT that rolls back leaves a gap *)
(* in the ids.  The id of a row is its position in the sequence.           *)
(***************************************************************************)
EXTENDS Naturals, Sequences, SequencesExt, Selection

CONSTANTS
  PageSize,   \* rows per page of iter_export_rows
  MaxLines    \* bound: line items of an invoice

ASSUME PageAssumption == PageSize \in Nat \ {0} /\ MaxLines \in Nat

VARIABLES
  ledger,    \* invoice_exports: [writer, lines, state]
  download,  \* the export in progress: phase, last_id, the CSV lines sent
  bar        \* GET /export/status in progress: phase, row_count, last_written_at known

ledgerVars == <<ledger, download, bar>>

\* The row in-band of a download that broke off; no ledger row has id 0.
ErrorRow == 0

LedgerInit ==
  /\ ledger = <<>>
  /\ download = [phase |-> "idle", last_id |-> 0, page |-> <<>>, lines |-> <<>>, before |-> {}]
  /\ bar = [phase |-> "idle", row_count |-> 0, written |-> FALSE]

Committed == {i \in DOMAIN ledger : ledger[i].state = "committed"}

-----------------------------------------------------------------------------
(* insert_export_row *)

\* The INSERT executes: id and written_at are assigned, nobody sees the row.
DrawId(writer, lines) ==
  /\ ledger' = Append(ledger, [writer |-> writer, lines |-> lines, state |-> "drawn"])
  /\ UNCHANGED <<download, bar>>

\* It commits, or it is rolled back and its id is never used.
Conclude(writer, state) ==
  /\ \E i \in DOMAIN ledger :
       /\ ledger[i].writer = writer /\ ledger[i].state = "drawn"
       /\ ledger' = [ledger EXCEPT ![i].state = state]
  /\ UNCHANGED <<download, bar>>

-----------------------------------------------------------------------------
(* GET /export.csv *)

\* One CSV line per line item, and one line for an invoice without any.
CsvLines(id) == IF ledger[id].lines = 0 THEN 1 ELSE ledger[id].lines
CsvRows(id) == [n \in 1..CsvLines(id) |-> id]

\* .gt("id", last_id).order("id").limit(page_size)
Page(last_id) ==
  LET ids == Selected([i \in DOMAIN ledger |-> i], {i \in Committed : i > last_id})
  IN  SubSeq(ids, 1, IF Len(ids) < PageSize THEN Len(ids) ELSE PageSize)

StartDownload ==
  /\ download.phase = "idle"
  /\ download' = [download EXCEPT !.phase = "fetch", !.before = Committed]
  /\ UNCHANGED <<ledger, bar>>

\* One request of iter_export_rows: an empty page ends the export.
FetchPage ==
  /\ download.phase = "fetch"
  /\ LET rows == Page(download.last_id)
     IN  download' = [download EXCEPT !.page = rows,
                                      !.phase = IF rows = <<>> THEN "done" ELSE "send"]
  /\ UNCHANGED <<ledger, bar>>

\* The page's rows are written as CSV; a short page is the last one.
SendPage ==
  /\ download.phase = "send"
  /\ download' = [download EXCEPT
       !.lines = @ \o FlattenSeq([n \in DOMAIN download.page |-> CsvRows(download.page[n])]),
       !.last_id = Last(download.page),
       !.page = <<>>,
       !.phase = IF Len(download.page) < PageSize THEN "done" ELSE "fetch"]
  /\ UNCHANGED <<ledger, bar>>

\* Mutant: a failure in the middle just ends the stream.
TruncateSilently ==
  /\ download.phase = "fetch"
  /\ download' = [download EXCEPT !.phase = "done"]
  /\ UNCHANGED <<ledger, bar>>

\* A request fails after the 200 and the header are sent: one row says so.
Truncate ==
  /\ download.phase = "fetch"
  /\ download' = [download EXCEPT !.lines = Append(@, ErrorRow), !.phase = "done"]
  /\ UNCHANGED <<ledger, bar>>

Download == StartDownload \/ FetchPage \/ SendPage \/ Truncate

-----------------------------------------------------------------------------
(* GET /export/status: two requests *)

\* Mutant: the newest id is taken for the count.
CountRowsById ==
  /\ bar.phase = "idle"
  /\ bar' = [bar EXCEPT !.phase = "counted", !.row_count = Len(ledger)]
  /\ UNCHANGED <<ledger, download>>

CountRows ==
  /\ bar.phase = "idle"
  /\ bar' = [bar EXCEPT !.phase = "counted", !.row_count = Cardinality(Committed)]
  /\ UNCHANGED <<ledger, download>>

NewestWritten ==
  /\ bar.phase = "counted"
  /\ bar' = [bar EXCEPT !.phase = "done", !.written = Committed # {}]
  /\ UNCHANGED <<ledger, download>>

ExportStatus == CountRows \/ NewestWritten
=============================================================================
