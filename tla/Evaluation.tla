----------------------------- MODULE Evaluation -----------------------------
(***************************************************************************)
(* python evals/run_eval.py: predict every row of the dataset, from the    *)
(* cache where it has one, score it, and write the report.  The harness is *)
(* run again and again; it may be killed while it writes a cache file.     *)
(***************************************************************************)
EXTENDS Scoring

CONSTANTS
  Dataset,      \* sequence of [pdf, gold]; rows may name the same PDF
  Predictions,  \* what extract_invoice may return
  MaxRuns       \* bound: runs of the harness

LineItem ==
  [description : Int \ {Missing}, quantity : Int, unit_price : Int, amount : Int]

\* A prediction has been through the Invoice schema: amounts are numbers, dates are
\* days, Missing or Garbled. So has what a gold record was made from, whose due date
\* is one that can be read.
ASSUME EvaluationAssumption ==
  /\ Dataset \in Seq(Range(Dataset)) /\ MaxRuns \in Nat
  /\ \A row \in Range(Dataset) :
       row.gold.line_items \in Seq(LineItem) /\ row.gold.due_date \in Int \ {Garbled}
  /\ \A p \in Predictions :
       /\ p.line_items \in Seq(LineItem)
       /\ {p.subtotal, p.tax, p.total, p.invoice_date, p.due_date} \subseteq Int

Pdf == {Dataset[n].pdf : n \in DOMAIN Dataset}

VARIABLES
  cache,    \* evals/.cache: per PDF "none", "torn" or a prediction
  harness,  \* the run in progress: its flags and the predictions so far
  runs,
  pinned    \* history: per PDF the first prediction written to the cache

evalVars == <<cache, harness, runs, pinned>>

\* Tagged, so that a prediction is comparable with what is none.
None == [tag |-> "none"]
Torn == [tag |-> "torn"]
Predicted(p) == [tag |-> "predicted", invoice |-> p]

Resting == [phase |-> "idle", use_cache |-> TRUE, fail_fast |-> FALSE, limit |-> 0,
            predictions |-> <<>>]

EvalInit ==
  /\ cache = [d \in Pdf |-> None]
  /\ harness = Resting
  /\ runs = 0
  /\ pinned = [d \in Pdf |-> None]

-----------------------------------------------------------------------------
(* Steps *)

StartHarness(use_cache, fail_fast, limit) ==
  /\ harness.phase # "running"
  /\ runs < MaxRuns
  /\ runs' = runs + 1
  /\ harness' = [Resting EXCEPT !.phase = "running", !.use_cache = use_cache,
                                !.fail_fast = fail_fast, !.limit = limit]
  /\ UNCHANGED <<cache, pinned>>

Row == Dataset[Len(harness.predictions) + 1]
Working == harness.phase = "running" /\ Len(harness.predictions) < harness.limit

\* run()'s loop body for one row: what _predict returned is scored.
Record(prediction) == harness' = [harness EXCEPT !.predictions = Append(@, prediction)]

\* The results of the rows so far (score_document looks at nothing else).
Results ==
  [n \in DOMAIN harness.predictions |->
     LET prediction == harness.predictions[n]
     IN  ScoreDocument(Dataset[n].gold, IF prediction = None THEN <<>> ELSE prediction.invoice,
                       prediction = None)]

\* use_cache and cache_path.exists()
Hit == harness.use_cache /\ cache[Row.pdf] # None

PredictFromCache ==
  /\ Working /\ Hit
  /\ cache[Row.pdf] # Torn
  /\ Record(cache[Row.pdf])
  /\ UNCHANGED <<cache, runs, pinned>>

\* json.loads refuses half a file, outside the try: the harness is over.
PredictFromTornCache ==
  /\ Working /\ Hit
  /\ cache[Row.pdf] = Torn
  /\ harness' = [harness EXCEPT !.phase = "aborted"]
  /\ UNCHANGED <<cache, runs, pinned>>

\* Mutant: a prediction made in spite of --no-cache is kept as well.
StoreAlways(p) ==
  /\ cache' = [cache EXCEPT ![Row.pdf] = Predicted(p)]
  /\ pinned' = IF pinned[Row.pdf] = None /\ harness.use_cache
               THEN [pinned EXCEPT ![Row.pdf] = Predicted(p)] ELSE pinned

\* cache_path.write_text, if the cache is in use.
Store(p) ==
  IF harness.use_cache
  THEN /\ cache' = [cache EXCEPT ![Row.pdf] = Predicted(p)]
       /\ pinned' = IF pinned[Row.pdf] = None THEN [pinned EXCEPT ![Row.pdf] = Predicted(p)] ELSE pinned
  ELSE UNCHANGED <<cache, pinned>>

\* extract_invoice returned: the file is written before the row is scored.
Predict ==
  /\ Working /\ ~Hit
  /\ \E p \in Predictions : Record(Predicted(p)) /\ Store(p)
  /\ UNCHANGED runs

\* It raised: nothing is cached, and --fail-fast gives up.
PredictFailed ==
  /\ Working /\ ~Hit
  /\ IF harness.fail_fast
     THEN harness' = [harness EXCEPT !.phase = "aborted"]
     ELSE Record(None)
  /\ UNCHANGED <<cache, runs, pinned>>

\* Killed: in the middle of write_text, just after it, or anywhere else.
KilledHarness ==
  /\ Working
  /\ harness' = [harness EXCEPT !.phase = "aborted"]
  /\ \/ UNCHANGED <<cache, pinned>>
     \/ ~Hit /\ harness.use_cache /\ cache' = [cache EXCEPT ![Row.pdf] = Torn] /\ UNCHANGED pinned
     \/ ~Hit /\ \E p \in Predictions : Store(p)
  /\ UNCHANGED runs

WriteReport ==
  /\ harness.phase = "running"
  /\ Len(harness.predictions) = harness.limit
  /\ harness' = [harness EXCEPT !.phase = "reported"]
  /\ UNCHANGED <<cache, runs, pinned>>

EvalNext ==
  \/ \E use_cache, fail_fast \in BOOLEAN : StartHarness(use_cache, fail_fast, Len(Dataset))
  \/ \E limit \in 0..(Len(Dataset) - 1) : StartHarness(TRUE, FALSE, limit)
  \/ PredictFromCache \/ PredictFromTornCache \/ Predict \/ PredictFailed
  \/ KilledHarness \/ WriteReport

EvalSpec == EvalInit /\ [][EvalNext]_evalVars

-----------------------------------------------------------------------------
(* Properties *)

Reported == harness.phase = "reported"
Rows == DOMAIN harness.predictions
Failed(n) == harness.predictions[n] = None
Gold(n) == Dataset[n].gold
Prediction(n) == harness.predictions[n].invoice
Items(n) == IF Failed(n) THEN <<>> ELSE Prediction(n).line_items

\* What the counts of a roll-up must be, from gold and predictions alone.
Tallies(agg) ==
  LET counts == agg.field_counts
      extracted == {n \in Rows : ~Failed(n)}
      due == counts["due_date"]
  IN  /\ \A f \in ScalarFields :
           /\ counts[f].tp + counts[f].fn = Len(harness.predictions)
           /\ counts[f].tp + counts[f].fp = Cardinality(extracted)
           /\ counts[f].exact_matches = counts[f].tp
      /\ \A f \in {ItemRow(field) : field \in ItemFields} :
           /\ counts[f].tp + counts[f].fn = SumOf([n \in Rows |-> Len(Gold(n).line_items)])
           /\ counts[f].tp + counts[f].fp = SumOf([n \in Rows |-> Len(Items(n))])
      /\ due.tp + due.fn = Cardinality({n \in Rows : Gold(n).due_date # Missing})
      /\ due.tp + due.tn = due.exact_matches
      /\ due.total = Len(harness.predictions)
      /\ agg.extraction_success = Cardinality(extracted)
      /\ agg.document_exact <= agg.extraction_success
      /\ agg.validation_pass <= agg.consistency_pass

\* The roll-up, counted a second way.  A required field has one instance to find per
\* document and, since a failed extraction asserts nothing, one assertion per document
\* that was extracted: its precision and recall agree only when no extraction failed.
\* A line-item field has as many to find, and as many asserted, as there are rows on
\* either side.
CountsTally == Reported => Tallies(Aggregate(Results))

\* The pairing of line items leaves no better one standing: no two rows that are
\* alike enough are both left out, and no two rows are more alike than each is to
\* the row it was paired with.  No row is paired twice.
MatchingIsStable ==
  Reported => \A n \in Rows :
    LET pred == Readings(Items(n))
        gold == Readings(Gold(n).line_items)
        matched == Range(Matches(pred, gold))
        sim(m) == ItemSimilarity(pred[m[1]], gold[m[2]])
    IN  /\ \A m, o \in matched : (m[1] = o[1] \/ m[2] = o[2]) => m = o
        /\ \A x \in (DOMAIN pred) \X (DOMAIN gold) :
             sim(x) >= Threshold =>
               \E m \in matched : (m[1] = x[1] \/ m[2] = x[2]) /\ sim(m) >= sim(x)

\* A document counts as an exact match when, and only when, the extraction
\* succeeded, every required field and the due date read the same, and the line
\* items read like the gold ones in some order.  A due date nobody can read, where
\* there is none to find, reads like none.
ExactIsEqual ==
  Reported => \A n \in Rows :
    Results[n].exact <=>
      /\ ~Failed(n)
      /\ \A f \in ScalarFields : Agrees(f, Prediction(n)[f], Gold(n)[f])
      /\ Normalized("due_date", Prediction(n).due_date) = Normalized("due_date", Gold(n).due_date)
      /\ \E perm \in Bijection(DOMAIN Items(n), DOMAIN Gold(n).line_items) :
           \A i \in DOMAIN Items(n) : Reading(Items(n)[i]) = Reading(Gold(n).line_items[perm[i]])

\* "The cache also pins evals/report.md to one specific run": whatever runs in
\* between, with or without the cache, failing or killed, every cached run that
\* gets a prediction for a PDF gets the one first written to the cache.
ReportIsPinned ==
  harness.use_cache =>
    \A n \in Rows : Failed(n) \/ harness.predictions[n] = pinned[Dataset[n].pdf]

\* An invoice that passes validation is off by at most three cents from end to end:
\* its two sums are checked one after the other, each rounded and then compared to
\* a cent.  validate_invoice's docstring says that each sum agrees "within $0.01", which
\* the rounding before the comparison makes a cent and a half.
AcceptedIsBalanced ==
  Reported => \A n \in Rows :
    Results[n].validated =>
      LET inv == AsInvoice(Prediction(n))
      IN  /\ Distance(SumOf(inv.amounts) + inv.tax, inv.total) <= 2 * Tolerance + Cent
          /\ inv.due_date = NoDate \/ (inv.due_date >= inv.invoice_date /\ inv.invoice_date # BadDate)
=============================================================================
