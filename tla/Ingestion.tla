----------------------------- MODULE Ingestion -----------------------------
(***************************************************************************)
(* python -m invoice_agent.ingest_mcp against one of its two sources: the  *)
(* filesystem server (data/inbox/) or the Gmail server (unread mail).      *)
(*                                                                         *)
(* A run of the script lists pending items, and for each downloads its     *)
(* PDFs, runs each through the graph, and marks the item if all went well. *)
(* It may be killed between any two steps, every request of it may fail,   *)
(* and its operator runs it again.  The graph is seen from outside: a run  *)
(* saves, is skipped, is parked for review, or raises, and a save that     *)
(* raises may have written the header row without the line items           *)
(* (InvoiceStore has the requests).                                        *)
(***************************************************************************)
EXTENDS Naturals, Sequences, SequencesExt, Selection

CONSTANTS
  Item,            \* files in data/inbox/, or messages
  ItemOrder,       \* the order the source lists them in
  Doc,             \* PDF contents
  Name,            \* file names of attachments
  Key,             \* (vendor_name, invoice_number) pairs
  NoDoc,
  Inboxes,         \* what may lie in the inbox at first: [Item -> attachments]
  Kinds, Keyings,  \* what documents may be: [Doc -> kind], [Doc -> Key]
  Limit,           \* --limit, capped by MAX_LIST
  MaxAttachments,  \* MAX_ATTACHMENTS_PER_MESSAGE
  MaxFailures      \* bound: kills and failed requests

ASSUME IngestionAssumption ==
  /\ NoDoc \notin Doc
  /\ ItemOrder \in Seq(Item) /\ ToSet(ItemOrder) = Item
  /\ Inboxes \subseteq [Item -> Seq([name : Name, doc : Doc])]
  /\ Kinds \subseteq [Doc -> {"clean", "flawed", "other"}] /\ Keyings \subseteq [Doc -> Key]
  /\ Limit \in Nat \ {0} /\ MaxAttachments \in Nat \ {0} /\ MaxFailures \in Nat

VARIABLES
  source,    \* --source
  kind,      \* what the router and the checks other than not_duplicate say of a document
  keyOf,     \* the key extracted from a document
  inbox,     \* per item: whether it is pending, and its attachments
  stored,    \* table invoices: per key the document saved, and whether with its line items
  parked,    \* documents whose run waits for a review
  script,    \* the script's locals
  failures,
  stale,     \* history: items replaced in the inbox after their last download
  torn       \* history: keys of which a save broke off half-way

world == <<source, kind, keyOf>>
vars == <<world, inbox, stored, parked, script, failures, stale, torn>>

Docs(i) == {inbox[i].atts[n].doc : n \in DOMAIN inbox[i].atts}

Idle == [phase |-> "idle", queue |-> <<>>, docs |-> <<>>, done |-> FALSE]

Init ==
  /\ source \in {"filesystem", "gmail"}
  /\ kind \in Kinds
  /\ keyOf \in Keyings
  /\ \E atts \in Inboxes :
       /\ source = "filesystem" => \A i \in Item : Len(atts[i]) = 1
       /\ inbox = [i \in Item |-> [state |-> "pending", atts |-> atts[i]]]
  /\ stored = [k \in Key |-> [doc |-> NoDoc, whole |-> FALSE]]
  /\ parked = {}
  /\ script = Idle
  /\ failures = 0
  /\ stale = {}
  /\ torn = {}

-----------------------------------------------------------------------------
(* The source's tools *)

\* Mutant: no cap.
PdfAttachmentsUncapped(i) == inbox[i].atts

\* _pdf_attachments: what both Gmail tools take for the message's PDFs.
PdfAttachments(i) ==
  LET atts == inbox[i].atts
  IN  SubSeq(atts, 1, IF Len(atts) < MaxAttachments THEN Len(atts) ELSE MaxAttachments)

\* list_pending_invoices: the first Limit pending items that have a PDF.
Pending ==
  LET listed == Selected(ItemOrder, {i \in Item : inbox[i].state = "pending" /\ PdfAttachments(i) # <<>>})
  IN  SubSeq(listed, 1, IF Len(listed) < Limit THEN Len(listed) ELSE Limit)

\* Where a download writes an attachment: {uid}_{name}, or {content hash}_{name}.
PathOf(i, att) == IF source = "gmail" THEN <<i, att.name>> ELSE <<att.doc, att.name>>

\* The attachments are written in order: of two with one path the last stays, and
\* it is read once for each of them.
Written(i) ==
  LET atts == PdfAttachments(i)
      LastAt(n) == CHOOSE m \in DOMAIN atts :
                     /\ PathOf(i, atts[m]) = PathOf(i, atts[n])
                     /\ \A l \in m + 1 .. Len(atts) : PathOf(i, atts[l]) # PathOf(i, atts[n])
  IN  [n \in DOMAIN atts |-> atts[LastAt(n)].doc]

-----------------------------------------------------------------------------
(* The script *)

Current == Head(script.queue)

\* Whatever goes wrong costs one of the failures the bound allows.
Fail == failures < MaxFailures /\ failures' = failures + 1

NextItem == [Idle EXCEPT !.phase = IF Len(script.queue) > 1 THEN "download" ELSE "idle",
                         !.queue = Tail(script.queue)]

List ==
  /\ script.phase = "idle"
  /\ Pending # <<>>
  /\ script' = [Idle EXCEPT !.phase = "download", !.queue = Pending]
  /\ UNCHANGED <<world, inbox, stored, parked, failures, stale, torn>>

\* A file that is no longer in data/inbox/ yields no paths; mail stays fetchable.
Gone(i) == source = "filesystem" /\ inbox[i].state # "pending"

Download ==
  /\ script.phase = "download"
  /\ ~Gone(Current)
  /\ script' = [script EXCEPT !.phase = "run", !.docs = Written(Current), !.done = TRUE]
  /\ stale' = stale \ {Current}
  /\ UNCHANGED <<world, inbox, stored, parked, failures, torn>>

\* download raised, or returned no paths: the item is left for the next run.
DownloadNothing ==
  /\ script.phase = "download"
  /\ (Gone(Current) /\ UNCHANGED failures) \/ Fail
  /\ script' = NextItem
  /\ UNCHANGED <<world, inbox, stored, parked, stale, torn>>

\* The flags of the document's run: not_duplicate is the only check of the store.
Flags(d) ==
  (IF kind[d] = "flawed" THEN {"totals_match"} ELSE {}) \cup
  (IF stored[keyOf[d]].doc # NoDoc THEN {"not_duplicate"} ELSE {})

\* Mutant: every flag is left to the review.
IsDuplicateNever(flags) == flags = {}

IsDuplicateOnly(flags) == flags = {"not_duplicate"}

Document == Head(script.docs)

\* One file is dealt with; after the last the item is marked if all were done.
RanPdf(ok) ==
  LET done == script.done /\ ok
  IN  script' = IF Len(script.docs) > 1
                THEN [script EXCEPT !.docs = Tail(@), !.done = done]
                ELSE IF done THEN [script EXCEPT !.docs = <<>>, !.phase = "mark"]
                ELSE NextItem

Running == script.phase = "run"

\* The router classified it as something else: status skipped.
RunSkipped ==
  /\ Running /\ kind[Document] = "other"
  /\ RanPdf(TRUE)
  /\ UNCHANGED <<world, inbox, stored, parked, failures, stale, torn>>

\* The run was interrupted for review.
RunFlagged ==
  /\ Running /\ kind[Document] # "other" /\ Flags(Document) # {}
  /\ RanPdf(IsDuplicateOnly(Flags(Document)))
  /\ parked' = parked \cup {Document}
  /\ UNCHANGED <<world, inbox, stored, failures, stale, torn>>

RunSaved ==
  /\ Running /\ kind[Document] # "other" /\ Flags(Document) = {}
  /\ stored' = [stored EXCEPT ![keyOf[Document]] = [doc |-> Document, whole |-> TRUE]]
  /\ RanPdf(TRUE)
  /\ UNCHANGED <<world, inbox, parked, failures, stale, torn>>

\* Mutant: a failed run is reported and forgotten.
RunRaisedForgotten ==
  /\ Running
  /\ Fail
  /\ RanPdf(TRUE)
  /\ UNCHANGED <<world, inbox, stored, parked, stale, torn>>

\* graph.invoke raised before anything was saved.
RunRaised ==
  /\ Running
  /\ Fail
  /\ RanPdf(FALSE)
  /\ UNCHANGED <<world, inbox, stored, parked, stale, torn>>

\* output() raised, or the script was killed inside it: the header row is there,
\* with or without the line items.
BreakInSave(after) ==
  /\ Running /\ kind[Document] # "other" /\ Flags(Document) = {}
  /\ Fail
  /\ \E whole \in BOOLEAN :
       /\ stored' = [stored EXCEPT ![keyOf[Document]] = [doc |-> Document, whole |-> whole]]
       /\ torn' = IF whole THEN torn ELSE torn \cup {keyOf[Document]}
  /\ after
  /\ UNCHANGED <<world, inbox, parked, stale>>

SaveRaised == BreakInSave(RanPdf(FALSE))

KilledInSave == BreakInSave(script' = Idle)

\* mark_processed: the message gets \Seen, the file by that name is moved.
Mark ==
  /\ script.phase = "mark"
  /\ ~Gone(Current)
  /\ inbox' = [inbox EXCEPT ![Current].state = "processed"]
  /\ script' = NextItem
  /\ UNCHANGED <<world, stored, parked, failures, stale, torn>>

\* It raised or returned False: the item may be listed again.
MarkRefused ==
  /\ script.phase = "mark"
  /\ (Gone(Current) /\ UNCHANGED failures) \/ Fail
  /\ script' = NextItem
  /\ UNCHANGED <<world, inbox, stored, parked, stale, torn>>

Killed ==
  /\ script.phase # "idle"
  /\ Fail
  /\ script' = Idle
  /\ UNCHANGED <<world, inbox, stored, parked, stale, torn>>

RunPdf == RunSkipped \/ RunFlagged \/ RunSaved \/ RunRaised \/ SaveRaised

Script == List \/ Download \/ DownloadNothing \/ RunPdf \/ Mark \/ MarkRefused

-----------------------------------------------------------------------------
(* Everybody else *)

\* Somebody resumes a parked run, as it is or with an edit that gives the invoice
\* another key, and it saves.
Resume(d, k) ==
  /\ d \in parked
  /\ stored' = [stored EXCEPT ![k] = [doc |-> d, whole |-> TRUE]]
  /\ parked' = parked \ {d}
  /\ UNCHANGED <<world, inbox, script, failures, stale, torn>>

\* Or its output() raises on the way; the run keeps waiting, for a retry.
ResumeBroken(d, k) ==
  /\ d \in parked
  /\ Fail
  /\ \E whole \in BOOLEAN :
       /\ stored' = [stored EXCEPT ![k] = [doc |-> d, whole |-> whole]]
       /\ torn' = IF whole THEN torn ELSE torn \cup {k}
  /\ UNCHANGED <<world, inbox, parked, script, stale>>

\* The owner presses "Mark processed" on the Inbox page.
MarkByOwner(i) ==
  /\ inbox[i].state = "pending"
  /\ inbox' = [inbox EXCEPT ![i].state = "dismissed"]
  /\ UNCHANGED <<world, stored, parked, script, failures, stale, torn>>

\* Another PDF is dropped into data/inbox/ under the name of a pending one.
Replace(i, d) ==
  /\ source = "filesystem"
  /\ inbox[i].state = "pending"
  /\ \A j \in Item : d \notin Docs(j)
  /\ inbox' = [inbox EXCEPT ![i].atts = <<[@[1] EXCEPT !.doc = d]>>]
  /\ stale' = stale \cup {i}
  /\ UNCHANGED <<world, stored, parked, script, failures, torn>>

Next ==
  \/ Script \/ Killed \/ KilledInSave
  \/ \E d \in Doc, k \in Key : Resume(d, k) \/ ResumeBroken(d, k)
  \/ \E i \in Item : MarkByOwner(i) \/ (\E d \in Doc : Replace(i, d))

\* The operator keeps running the script and a run of it goes on to its end;
\* nobody owes a review, a click or a file.
Spec == Init /\ [][Next]_vars /\ WF_vars(Script)

-----------------------------------------------------------------------------
(* Properties *)

TypeOK ==
  /\ inbox \in [Item -> [state : {"pending", "processed", "dismissed"},
                         atts : Seq([name : Name, doc : Doc])]]
  /\ stored \in [Key -> [doc : Doc \cup {NoDoc}, whole : BOOLEAN]]
  /\ script.phase \in {"idle", "download", "run", "mark"}
  /\ ToSet(script.queue) \subseteq Item /\ Len(script.queue) <= Limit
  /\ ToSet(script.docs) \subseteq Doc /\ Len(script.docs) <= MaxAttachments
  /\ parked \subseteq Doc /\ stale \subseteq Item /\ torn \subseteq Key
  /\ failures \in 0..MaxFailures

\* The invoices of an item as the script downloads them: not those past the cap,
\* not one whose file a later attachment of the same name replaced.
Downloaded(i) == {d \in ToSet(Written(i)) : kind[d] # "other"}

\* An item the script has marked left nothing behind: each of its downloaded
\* invoices has a row in the store, and one with its line items unless some save
\* of that invoice broke off half-way.
MarkedIsStored ==
  \A i \in Item \ stale : inbox[i].state = "processed" =>
    \A d \in Downloaded(i) :
      LET row == stored[keyOf[d]]
      IN  row.doc # NoDoc /\ (row.whole \/ keyOf[d] \in torn)

\* The module docstring's reading of a duplicate-only flag: the invoice "was
\* already fully persisted by an earlier run".
MarkedIsFullyPersisted ==
  \A i \in Item \ stale : inbox[i].state = "processed" =>
    \A d \in Downloaded(i) : stored[keyOf[d]].whole

\* Every PDF of an item can be dealt with by the script itself, and fewer than
\* Limit items that cannot are listed before it.
Processable(i) == \A d \in Docs(i) : kind[d] # "flawed"

Reachable(i) ==
  LET before == {ItemOrder[m] : m \in {m \in DOMAIN ItemOrder : \E n \in DOMAIN ItemOrder : m < n /\ ItemOrder[n] = i}}
  IN  Cardinality({j \in before : ~Processable(j)}) < Limit

\* Killed and failing runs notwithstanding, an item the script can process ends up
\* marked: what a broken run left half done does not stop a later one.
ProcessableIsMarked ==
  \A i \in Item :
    <>[](Docs(i) # {} /\ Processable(i) /\ Reachable(i)) => <>(inbox[i].state # "pending")

\* The script's advice for a flagged invoice: resume its thread, "then re-run
\* ingestion to mark it processed".
ResolvedIsMarked ==
  \A i \in Item :
    <>[](Reachable(i) /\ \A d \in Docs(i) : kind[d] # "other" /\ stored[keyOf[d]].doc = d /\ stored[keyOf[d]].whole)
      => <>(inbox[i].state # "pending")
=============================================================================
