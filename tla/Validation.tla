----------------------------- MODULE Validation -----------------------------
(***************************************************************************)
(* The business rules of invoice_agent/validate.py, as operators on an     *)
(* invoice.  An amount is a number of units, Cent of which make a cent:    *)
(* the schema's floats need not be whole cents.  A date is a day number    *)
(* >= 1, NoDate (None) or, below 1, text date.fromisoformat refuses.       *)
(*                                                                         *)
(* The sums are binary floats: whether a difference of exactly one cent is *)
(* within TOLERANCE, and which way a sum midway between two cents rounds,  *)
(* depends on the amounts, which the invoice's edge tells for its line     *)
(* items and for its total.                                                *)
(***************************************************************************)
EXTENDS Integers, Sequences, Functions

CONSTANT Cent   \* units to a cent

ASSUME CentAssumption == Cent \in Nat \ {0}

NoDate == -1
BadDate == 0

\* TOLERANCE, one cent.
Tolerance == Cent

Distance(a, b) == IF a < b THEN b - a ELSE a - b

\* Mutant: amounts are cut off at whole cents.
RoundDown(a, up) == a - (a % Cent)

\* round(a, 2); up tells what becomes of an amount midway between two cents.
Round(a, up) ==
  LET rest == a % Cent
  IN  IF 2 * rest < Cent \/ (2 * rest = Cent /\ ~up) THEN a - rest ELSE a - rest + Cent

\* abs(a - b) <= TOLERANCE
Within(a, b, edge) == Distance(a, b) < Tolerance \/ (Distance(a, b) = Tolerance /\ edge)

\* sum(), from left to right.
SumOf(amounts) ==
  LET sum[n \in 0..Len(amounts)] == IF n = 0 THEN 0 ELSE sum[n - 1] + amounts[n]
  IN  sum[Len(amounts)]

\* parse_iso_date: None for a missing value and for an unparseable one alike.
ParseIsoDate(value) == IF value >= 1 THEN value ELSE NoDate

\* The six rows of run_checks: whether each passed, and whether it was skipped
\* as not applicable.  duplicate is the duplicate_checker's answer, or "unchecked".
\* due_date_valid applies to any due date, the ordering to two parsed ones.
RunChecks(inv, duplicate) ==
  LET invoiceDate == ParseIsoDate(inv.invoice_date)
      dueDate == ParseIsoDate(inv.due_date)
      ordered == invoiceDate # NoDate /\ dueDate # NoDate
      Row(applies, holds) == [passed |-> applies => holds, skipped |-> ~applies]
  IN  [line_items_sum |-> Row(TRUE, Within(Round(SumOf(inv.amounts), inv.edge.items_up),
                                           inv.subtotal, inv.edge.items)),
       totals_match |-> Row(TRUE, Within(Round(inv.subtotal + inv.tax, inv.edge.totals_up),
                                         inv.total, inv.edge.totals)),
       invoice_date_valid |-> Row(TRUE, invoiceDate # NoDate),
       due_date_valid |-> Row(inv.due_date # NoDate, dueDate # NoDate),
       due_date_after_invoice_date |-> Row(ordered, dueDate >= invoiceDate),
       not_duplicate |-> Row(duplicate # "unchecked", duplicate # "yes")]

\* validate_invoice: the flags are the details of the checks that did not pass;
\* needs_review is that there are any.
Flags(checks) == {id \in DOMAIN checks : ~checks[id].passed}

\* scoring.totals_consistent, which computes totals_match a second time.
TotalsConsistent(inv) ==
  Within(Round(inv.subtotal + inv.tax, inv.edge.totals_up), inv.total, inv.edge.totals)
=============================================================================
