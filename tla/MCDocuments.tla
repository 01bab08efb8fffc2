---------------------------- MODULE MCDocuments ----------------------------
(***************************************************************************)
(* TLC instance of parts that share no state: the upload of one run, the   *)
(* list of runs, the signed links, and the evaluation harness.  A          *)
(* behaviour runs one; their product would add no reachable state of any.  *)
(***************************************************************************)
EXTENDS Uploads, RunPages, Evaluation

VARIABLE part

vars == <<part, uploadVars, pageVars, evalVars>>

Init ==
  /\ part \in {"uploads", "list", "links", "evaluation"}
  /\ UploadInit /\ PagesInit /\ EvalInit
  \* The uploads differ only where they are looked at.
  /\ part # "uploads" => \A p, q \in Post : post[p].upload = post[q].upload /\ post[p].upload.size = 0

Next ==
  /\ UNCHANGED part
  /\ \/ part = "uploads" /\ UploadNext /\ UNCHANGED <<pageVars, evalVars>>
     \/ part = "list" /\ ListNext /\ UNCHANGED <<uploadVars, evalVars>>
     \/ part = "links" /\ LinkNext /\ UNCHANGED <<uploadVars, evalVars>>
     \/ part = "evaluation" /\ EvalNext /\ UNCHANGED <<uploadVars, pageVars>>

Spec == Init /\ [][Next]_vars

TypeOK ==
  /\ UploadTypeOK
  /\ PagesTypeOK
  /\ harness.phase \in {"idle", "running", "reported", "aborted"}
  /\ Len(harness.predictions) <= harness.limit
  /\ runs \in 0..MaxRuns

-----------------------------------------------------------------------------
(* Uploads *)

CONSTANTS u1, u2

\* A PDF of one chunk, one of two, one too large, one that is no PDF, an empty one.
Uploaded ==
  {[name |-> u1, size |-> 1, magic |-> TRUE], [name |-> u1, size |-> 2, magic |-> TRUE],
   [name |-> u1, size |-> 3, magic |-> TRUE], [name |-> u1, size |-> 1, magic |-> FALSE],
   [name |-> u1, size |-> 0, magic |-> FALSE], [name |-> u2, size |-> 1, magic |-> TRUE]}

\* The schema's order, another one, and one with a key that is no field.
ResponseOrders == {<<"vendor", "items", "total">>, <<"total", "vendor", "items">>,
                   <<"vendor", "note", "total", "items">>}

-----------------------------------------------------------------------------
(* Evaluation *)

\* Ten units make a cent.
Line(description, amount) ==
  [description |-> description, quantity |-> 10, unit_price |-> amount, amount |-> amount]

GoldOf(lines, due) ==
  [invoice_number |-> 1, invoice_date |-> 5, vendor_name |-> 1, bill_to |-> 1, subtotal |-> 300,
   tax |-> 30, total |-> 330, currency |-> 1, due_date |-> due, line_items |-> lines]

TwoLines == <<Line(1, 100), Line(2, 200)>>

\* An invoice with a due date, and one without whose second line is unlike the
\* others' lines.
TwoRows ==
  <<[pdf |-> "dated", gold |-> GoldOf(TwoLines, 9)],
    [pdf |-> "open", gold |-> GoldOf(<<Line(1, 100), Line(4, 200)>>, Missing)]>>

Right ==
  GoldOf(TwoLines, 9) @@
    [edge |-> [items |-> TRUE, totals |-> TRUE, items_up |-> TRUE, totals_up |-> TRUE]]

\* The floats of some amounts that end in half a cent.
HalfCents == {95}

\* Rows merged, alike, repeated or missing; sums off by a cent, on either side of the
\* tolerance, and others that round to within it or not; dates that are missing,
\* unreadable or out of order; a wrong vendor; what the first PDF says, spelled
\* otherwise and with the rows swapped; and what the second says, nearly.
Returned ==
  {Right,
   [Right EXCEPT !.line_items = <<Line(2, 100), Line(1, 100), Line(2, 200)>>],
   [Right EXCEPT !.line_items = <<Line(1, 310)>>, !.edge.items = FALSE, !.due_date = 4],
   [Right EXCEPT !.line_items[2].amount = 204, !.subtotal = 290, !.tax = 34, !.total = 310],
   [Right EXCEPT !.line_items[2].amount = 209, !.subtotal = 290, !.tax = 39, !.total = 310],
   [Right EXCEPT !.line_items = <<>>, !.subtotal = 0, !.total = 30, !.vendor_name = 2,
          !.due_date = Missing, !.invoice_date = Garbled],
   [Right EXCEPT !.line_items = <<Line(-3, 204), Line(1, 95)>>, !.vendor_name = -2, !.due_date = -10],
   [Right EXCEPT !.line_items = <<Line(4, 200), Line(1, 100)>>, !.due_date = Garbled]}
=============================================================================
