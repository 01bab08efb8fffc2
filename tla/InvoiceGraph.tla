---------------------------- MODULE InvoiceGraph ----------------------------
(***************************************************************************)
(* The LangGraph state machine of one run (invoice_agent/graph.py) and the *)
(* reading of its checkpoints (derive_status, app/service.py).             *)
(*                                                                         *)
(* A checkpoint is what SqliteSaver holds for a thread_id: the state       *)
(* channels, the node that runs next, and whether that node's pending task *)
(* recorded an error or an interrupt.  Every operator maps a checkpoint to *)
(* the checkpoint after one node execution; modules that run the graph     *)
(* turn them into actions.                                                 *)
(***************************************************************************)

CONSTANTS
  Invoice,     \* contents an invoice can have
  NoInvoice    \* state["invoice"] = None

ASSUME NoInvoiceAssumption == NoInvoice \notin Invoice

Node == {"router", "extractor", "validator", "human_review", "output"}

\* GraphState and the task bookkeeping of a checkpoint.  "start" is a thread
\* the checkpointer has never heard of.  validated is the invoice state
\* ["validation"] was computed from (the code keeps only the result), and file
\* stands for the invoice printed in the document at state["file_path"].
Checkpoint ==
  [next          : Node \cup {"start", "end"},
   error         : BOOLEAN,
   interrupted   : BOOLEAN,
   status        : {"pending", "classified", "skipped", "extracted", "needs_review",
                    "validated", "reviewed", "completed"},
   doc_type      : {"none", "invoice", "other"},
   file          : Invoice \cup {NoInvoice},
   invoice       : Invoice \cup {NoInvoice},
   validated     : Invoice \cup {NoInvoice},
   needs_review  : BOOLEAN,
   approved      : BOOLEAN,
   ledger_status : {"none", "written", "failed"}]

NoCheckpoint ==
  [next |-> "start", error |-> FALSE, interrupted |-> FALSE, status |-> "pending",
   doc_type |-> "none", file |-> NoInvoice, invoice |-> NoInvoice,
   validated |-> NoInvoice, needs_review |-> FALSE, approved |-> FALSE, ledger_status |-> "none"]

-----------------------------------------------------------------------------
(* Edges *)

RouteAfterClassification(doc_type) ==
  IF doc_type = "invoice" THEN "extractor" ELSE "end"

RouteAfterValidation(needs_review, approved) ==
  IF needs_review /\ ~approved THEN "human_review" ELSE "output"

\* A node that returned: its task is no longer pending.
Advance(c, next) == [c EXCEPT !.next = next, !.error = FALSE, !.interrupted = FALSE]

-----------------------------------------------------------------------------
(* Nodes *)

\* invoke(initial_state): the keys of initial_state overwrite their channels,
\* the other channels (approved, ledger_status) keep what an earlier pass left.
Started(c, file) ==
  [Advance(c, "router") EXCEPT !.file = file, !.status = "pending",
                               !.doc_type = "none", !.invoice = NoInvoice, !.validated = NoInvoice,
                               !.needs_review = FALSE]

RouterReturns(c, doc_type) ==
  [Advance(c, RouteAfterClassification(doc_type)) EXCEPT
     !.doc_type = doc_type,
     !.status = IF doc_type = "invoice" THEN "classified" ELSE "skipped"]

ExtractorReturns(c) ==
  [Advance(c, "validator") EXCEPT !.invoice = c.file, !.status = "extracted"]

ValidatorReturns(c, needs_review) ==
  [Advance(c, RouteAfterValidation(needs_review, c.approved)) EXCEPT
     !.needs_review = needs_review,
     !.validated = c.invoice,
     !.status = IF needs_review THEN "needs_review" ELSE "validated"]

\* Mutant: interrupt()'s exception is caught inside the node, which returns.
HumanReviewSwallowsInterrupt(c) == [Advance(c, "validator") EXCEPT !.status = "reviewed"]

\* interrupt() unwinds the node; the payload is (state["invoice"], flags).
HumanReviewInterrupts(c) == [c EXCEPT !.interrupted = TRUE]

\* Mutants: the edge human_review -> output the graph once had, and an edit that
\* counts as an approval.
HumanReviewStraightToOutput(c, edited) ==
  [Advance(c, "output") EXCEPT !.invoice = edited, !.status = "reviewed",
                               !.approved = FALSE]

HumanReviewApprovesEdit(c, edited) ==
  [Advance(c, "validator") EXCEPT !.invoice = edited, !.status = "reviewed",
                                  !.approved = TRUE]

HumanReviewEdited(c, edited) ==
  [Advance(c, "validator") EXCEPT !.invoice = edited, !.status = "reviewed",
                                  !.approved = FALSE]

HumanReviewApproved(c) ==
  [Advance(c, "validator") EXCEPT !.status = "reviewed", !.approved = TRUE]

OutputReturns(c, ledger_status) ==
  [Advance(c, "end") EXCEPT !.status = "completed", !.ledger_status = ledger_status]

\* A node that raised leaves its task pending with .error set; the error stays
\* readable until a re-execution of the node returns.
NodeRaised(c) == [c EXCEPT !.error = TRUE]

-----------------------------------------------------------------------------
(* derive_status, branch by branch; "unknown" is its None. *)

RunStatus == {"unknown", "failed", "needs_review", "processing", "completed", "skipped"}

\* Mutant: errors recorded in the pending task are not looked at.
DeriveStatusWithoutErrors(c) ==
  IF c.next = "start" THEN "unknown"
  ELSE IF c.interrupted THEN "needs_review"
  ELSE IF c.next # "end" THEN "processing"
  ELSE IF c.status \in {"completed", "skipped"} THEN c.status
  ELSE "failed"

DeriveStatus(c) ==
  IF c.next = "start" THEN "unknown"
  ELSE IF c.error THEN "failed"
  ELSE IF c.interrupted THEN "needs_review"
  ELSE IF c.next # "end" THEN "processing"
  ELSE IF c.status \in {"completed", "skipped"} THEN c.status
  ELSE "failed"

\* The statuses whose run_end event closes the channel.
EndedStatus == {"completed", "skipped", "failed"}
=============================================================================
