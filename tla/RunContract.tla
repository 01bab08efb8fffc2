----------------------------- MODULE RunContract -----------------------------
(***************************************************************************)
(* What the backend promises of a run, to a client that sees only statuses *)
(* and to the bookkeeper who sees only the two tables: the status moves    *)
(* along the arrows below, a run saves one invoice at most, records it in  *)
(* the ledger once at most and after saving, and completes only when it    *)
(* saved.  Locks, requests, retries and checkpoints are not mentioned.     *)
(***************************************************************************)
EXTENDS Naturals

CONSTANTS Run, Invoice, NoInvoice

VARIABLES
  status,   \* what GET /invoices/{thread_id} reports
  saved,    \* the invoice the run wrote to invoices, or NoInvoice
  rows      \* number of rows the run appended to invoice_exports

contractVars == <<status, saved, rows>>

Init ==
  /\ status = [t \in Run |-> "unknown"]
  /\ saved = [t \in Run |-> NoInvoice]
  /\ rows = [t \in Run |-> 0]

\* A run being executed, or one that failed and is being retried.
Active(t) == status[t] \in {"processing", "failed"}

Become(t, s) == status' = [status EXCEPT ![t] = s]

Accept(t) ==
  /\ status[t] = "unknown"
  /\ Become(t, "processing")
  /\ UNCHANGED <<saved, rows>>

\* Between two statuses of an unfinished run; a human gets a run back to work.
Work(t) ==
  /\ \/ Active(t) /\ \E s \in {"processing", "failed", "needs_review"} : Become(t, s)
     \/ status[t] = "needs_review" /\ Become(t, "processing")
  /\ UNCHANGED <<saved, rows>>

Skip(t) ==
  /\ Active(t)
  /\ saved[t] = NoInvoice
  /\ Become(t, "skipped")
  /\ UNCHANGED <<saved, rows>>

\* The write may raise after it landed; a retry writes the same invoice again.
Save(t) ==
  /\ Active(t)
  /\ \E i \in Invoice :
       /\ saved[t] \in {NoInvoice, i}
       /\ saved' = [saved EXCEPT ![t] = i]
  /\ Become(t, status[t]) \/ Become(t, "failed")
  /\ UNCHANGED rows

Record(t) ==
  /\ Active(t)
  /\ saved[t] # NoInvoice
  /\ rows[t] = 0
  /\ rows' = [rows EXCEPT ![t] = 1]
  /\ UNCHANGED <<status, saved>>

Complete(t) ==
  /\ Active(t)
  /\ saved[t] # NoInvoice
  /\ Become(t, "completed")
  /\ UNCHANGED <<saved, rows>>

Next == \E t \in Run :
  Accept(t) \/ Work(t) \/ Skip(t) \/ Save(t) \/ Record(t) \/ Complete(t)

Spec == Init /\ [][Next]_contractVars
=============================================================================
