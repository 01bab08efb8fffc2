------------------------------- MODULE Scoring -------------------------------
(***************************************************************************)
(* evals/scoring.py: one document's prediction against its gold record,    *)
(* and the roll-up of a list of documents.                                 *)
(*                                                                         *)
(* A value is a number: an amount in units, a date, a text.  Missing is    *)
(* None, Garbled is text the field's normaliser cannot read, and a number  *)
(* below Missing is another spelling of the text Missing minus it: another *)
(* case or spacing, a date in another format, a currency's symbol.  The    *)
(* schema has made numbers of the amounts.  The similarity of two          *)
(* descriptions is a number of halves: texts are numbers and those next to *)
(* each other are half alike.  token_f1 is left out.                       *)
(***************************************************************************)
EXTENDS Validation, Selection, SequencesExt

CONSTANT RoundsUp   \* amounts midway between two cents whose float is above it

Missing == NoDate
Garbled == BadDate

SCALAR_FIELDS == <<"invoice_number", "invoice_date", "vendor_name", "bill_to",
                   "subtotal", "tax", "total", "currency">>

LINE_ITEM_FIELDS == <<"description", "quantity", "unit_price", "amount">>

ScalarFields == Range(SCALAR_FIELDS)
ItemFields == Range(LINE_ITEM_FIELDS)

MoneyFields == {"subtotal", "tax", "total", "quantity", "unit_price", "amount"}

\* f"line_items.{f.name}"
ItemRow(f) ==
  [description |-> "line_items.description", quantity |-> "line_items.quantity",
   unit_price |-> "line_items.unit_price", amount |-> "line_items.amount"][f]

FieldRows == ScalarFields \cup {"due_date"} \cup {ItemRow(f) : f \in ItemFields}

-----------------------------------------------------------------------------
(* evals/normalize.py *)

\* The field's normaliser: an amount is rounded, a text read whatever its spelling.
\* normalize_string keeps any text; a date or a currency nobody can read becomes None.
Normalized(field, value) ==
  CASE field \in MoneyFields -> Round(value, value \in RoundsUp)
    [] field \notin MoneyFields /\ value < Missing -> Missing - value
    [] value = Garbled /\ field \in {"invoice_date", "due_date", "currency"} -> Missing
    [] OTHER -> value

\* values_equal: two Nones are not equal, two amounts differ by less than half a cent.
Agrees(field, pred, gold) ==
  /\ Normalized(field, pred) = Normalized(field, gold)
  /\ field \in MoneyFields \/ Normalized(field, pred) # Missing

\* What is compared of a line item: an amount is a number, a description not None.
Reading(item) ==
  [description |-> Normalized("description", item.description),
   quantity |-> Normalized("quantity", item.quantity),
   unit_price |-> Normalized("unit_price", item.unit_price),
   amount |-> Normalized("amount", item.amount)]

Readings(items) == [n \in DOMAIN items |-> Reading(items[n])]

-----------------------------------------------------------------------------
(* match_line_items, on readings *)

DescriptionSimilarity(p, g) == IF Distance(p, g) > 2 THEN 0 ELSE 2 - Distance(p, g)

\* In twelfths: half the description's, half the share of the three amounts.
ItemSimilarity(p, g) ==
  3 * DescriptionSimilarity(p.description, g.description)
  + 2 * Cardinality({f \in ItemFields \ {"description"} : p[f] = g[f]})

Threshold == 6

\* Mutant: candidates in the order they were found.
BeforeByPosition(pred, gold, x, y) ==
  x[1] < y[1] \/ (x[1] = y[1] /\ x[2] < y[2])

\* Highest similarity first; the positions break ties.
Before(pred, gold, x, y) ==
  LET s == ItemSimilarity(pred[x[1]], gold[x[2]])
      t == ItemSimilarity(pred[y[1]], gold[y[2]])
  IN  s > t \/ (s = t /\ (x[1] < y[1] \/ (x[1] = y[1] /\ x[2] < y[2])))

Alike(pred, gold) ==
  {x \in (DOMAIN pred) \X (DOMAIN gold) : ItemSimilarity(pred[x[1]], gold[x[2]]) >= Threshold}

\* The place of a candidate among them all.
Place(pred, gold, x) == 1 + Cardinality({y \in Alike(pred, gold) : Before(pred, gold, y, x)})

\* candidates.sort()
Candidates(pred, gold) ==
  [n \in 1..Cardinality(Alike(pred, gold)) |-> CHOOSE x \in Alike(pred, gold) : Place(pred, gold, x) = n]

\* Greedily, each row once: the pairs <<index in pred, index in gold>>.
Greedily(candidates) ==
  LET upTo[n \in 0..Len(candidates)] ==
        IF n = 0 THEN <<>>
        ELSE LET found == upTo[n - 1]
                 x == candidates[n]
             IN  IF \E m \in Range(found) : m[1] = x[1] \/ m[2] = x[2] THEN found ELSE Append(found, x)
  IN  upTo[Len(candidates)]

Matches(pred, gold) == Greedily(Candidates(pred, gold))

-----------------------------------------------------------------------------
(* Outcomes of the fields of one document *)

Outcome(field, tp, fp, fn, tn) ==
  [field |-> field, tp |-> tp, fp |-> fp, fn |-> fn, tn |-> tn, exact |-> fp = 0 /\ fn = 0]

\* A required field: a wrong value is asserted (fp) and the right one missed (fn).
ScoreScalar(f, gold, pred, failed) ==
  IF failed THEN Outcome(f, 0, 0, 1, 0)
  ELSE IF Agrees(f, pred[f], gold[f]) THEN Outcome(f, 1, 0, 0, 0)
  ELSE Outcome(f, 0, 1, 1, 0)

\* The optional field: two absences agree; a text that is no date is an assertion
\* if there was a date to find.
ScoreDueDate(gold, pred, failed) ==
  LET g == Normalized("due_date", gold.due_date)
      p == IF failed THEN Missing ELSE Normalized("due_date", pred.due_date)
      asserted == ~failed /\ pred.due_date # Missing
  IN  IF g = Missing THEN IF p = Missing THEN Outcome("due_date", 0, 0, 0, 1)
                                         ELSE Outcome("due_date", 0, 1, 0, 0)
      ELSE IF p = Missing THEN Outcome("due_date", 0, IF asserted THEN 1 ELSE 0, 1, 0)
      ELSE IF p = g THEN Outcome("due_date", 1, 0, 0, 0)
      ELSE Outcome("due_date", 0, 1, 1, 0)

\* Mutant: predicted rows that match nothing are passed over.
UnmatchedPredNone(pred, matches) == <<>>

\* The rows only the prediction has, and those only the gold record has.
UnmatchedPred(pred, matches) ==
  Selected([i \in DOMAIN pred |-> i], {i \in DOMAIN pred : \A m \in Range(matches) : m[1] # i})

UnmatchedGold(gold, matches) ==
  Selected([j \in DOMAIN gold |-> j], {j \in DOMAIN gold : \A m \in Range(matches) : m[2] # j})

\* Matched rows field by field; a row only one side has counts in all its fields.
PairedRow(p, g) ==
  [k \in DOMAIN LINE_ITEM_FIELDS |->
     LET f == LINE_ITEM_FIELDS[k]
     IN  IF p[f] = g[f] THEN Outcome(ItemRow(f), 1, 0, 0, 0) ELSE Outcome(ItemRow(f), 0, 1, 1, 0)]

LoneRow(fp, fn) ==
  [k \in DOMAIN LINE_ITEM_FIELDS |-> Outcome(ItemRow(LINE_ITEM_FIELDS[k]), 0, fp, fn, 0)]

RowOutcomes(gold, pred, matches) ==
  [n \in DOMAIN matches |-> PairedRow(pred[matches[n][1]], gold[matches[n][2]])]
    \o [n \in DOMAIN UnmatchedPred(pred, matches) |-> LoneRow(1, 0)]
    \o [n \in DOMAIN UnmatchedGold(gold, matches) |-> LoneRow(0, 1)]

\* score_line_items, on readings. A failed extraction has no rows (score_document),
\* so that nothing matches.
ScoreLineItems(gold, pred) == FlattenSeq(RowOutcomes(gold, pred, Matches(pred, gold)))

-----------------------------------------------------------------------------
(* Documents and their roll-up *)

\* What validate_invoice sees of a prediction.
AsInvoice(pred) ==
  [amounts |-> [n \in DOMAIN pred.line_items |-> pred.line_items[n].amount],
   subtotal |-> pred.subtotal, tax |-> pred.tax, total |-> pred.total,
   invoice_date |-> pred.invoice_date, due_date |-> pred.due_date, edge |-> pred.edge]

Outcomes(gold, pred, items, failed) ==
  [n \in DOMAIN SCALAR_FIELDS |-> ScoreScalar(SCALAR_FIELDS[n], gold, pred, failed)]
    \o <<ScoreDueDate(gold, pred, failed)>>
    \o ScoreLineItems(Readings(gold.line_items), Readings(items))

\* score_document: a failed extraction (pred is not looked at) misses everything
\* there was to find and passes no check.
ScoreDocument(gold, pred, failed) ==
  LET items == IF failed THEN <<>> ELSE pred.line_items
      outcomes == Outcomes(gold, pred, items, failed)
  IN  [outcomes |-> outcomes,
       failed |-> failed,
       count_match |-> Len(items) = Len(gold.line_items),
       consistent |-> ~failed /\ TotalsConsistent(AsInvoice(pred)),
       validated |-> ~failed /\ Flags(RunChecks(AsInvoice(pred), "unchecked")) = {},
       exact |-> \A n \in DOMAIN outcomes : outcomes[n].exact]

NoCounts == [tp |-> 0, fp |-> 0, fn |-> 0, tn |-> 0, exact_matches |-> 0, total |-> 0]

Counted(counts, o) ==
  [tp |-> counts.tp + o.tp, fp |-> counts.fp + o.fp, fn |-> counts.fn + o.fn,
   tn |-> counts.tn + o.tn, total |-> counts.total + 1,
   exact_matches |-> counts.exact_matches + (IF o.exact THEN 1 ELSE 0)]

\* One document's outcomes, added to the counts of their fields.
Tallied(counts, outcomes) ==
  LET upTo[n \in 0..Len(outcomes)] ==
        IF n = 0 THEN counts
        ELSE [upTo[n - 1] EXCEPT ![outcomes[n].field] = Counted(@, outcomes[n])]
  IN  upTo[Len(outcomes)]

\* aggregate: field_counts, and how many documents came out how.
FieldCounts(results) ==
  LET upTo[n \in 0..Len(results)] ==
        IF n = 0 THEN [f \in FieldRows |-> NoCounts]
        ELSE Tallied(upTo[n - 1], results[n].outcomes)
  IN  upTo[Len(results)]

Aggregate(results) ==
  [field_counts |-> FieldCounts(results),
   n_documents |-> Len(results),
   document_exact |-> Cardinality({n \in DOMAIN results : results[n].exact}),
   extraction_success |-> Cardinality({n \in DOMAIN results : ~results[n].failed}),
   consistency_pass |-> Cardinality({n \in DOMAIN results : results[n].consistent}),
   validation_pass |-> Cardinality({n \in DOMAIN results : results[n].validated}),
   count_match |-> Cardinality({n \in DOMAIN results : results[n].count_match})]
=============================================================================
