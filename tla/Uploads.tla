------------------------------ MODULE Uploads ------------------------------
(***************************************************************************)
(* The PDF of one run on the server's disk: POST /invoices saves it        *)
(* (app/uploads.py), the run's nodes read it again and again (router,      *)
(* extractor, output), and the sweep at the top of every POST removes it   *)
(* after 24 hours.  While the extractor runs, it announces the fields of   *)
(* the streamed response (invoice_agent/extract.py).                       *)
(*                                                                         *)
(* A file is the sequence of its 1 MiB chunks, each known by the POST that *)
(* wrote it; a chunk skipped over is a hole.  Several POSTs may carry the  *)
(* thread_id and name the same file.                                       *)
(***************************************************************************)
EXTENDS Naturals, Sequences, SequencesExt, Selection

CONSTANTS
  Post,         \* POST /invoices requests with the run's thread_id
  NoPost,
  Name,         \* sanitized file names
  Upload,       \* what a POST may carry: [name, size, magic]
  Cap,          \* max_upload_bytes, in chunks
  Field,        \* Invoice.model_fields
  Orders,       \* the orders a response may list its keys in
  MaxFailures   \* bound: disk errors, failed calls, days

ASSUME UploadsAssumption ==
  /\ NoPost \notin Post /\ Name # {} /\ IsFiniteSet(Field)
  /\ Cap \in Nat \ {0} /\ MaxFailures \in Nat
  /\ Upload \subseteq [name : Name, size : 0..(Cap + 1), magic : BOOLEAN]
  /\ \A o \in Orders : o \in Seq(Range(o)) /\ Field \subseteq Range(o) /\ IsInjective(o)

VARIABLES
  disk,      \* upload_dir: per {thread_id}_{name} its chunks and age
  post,      \* the POSTs: phase, upload, chunks read, whether their open file is still linked
  run,       \* the graph's thread: phase, file_path, the content extracted
  stream,    \* the extractor's call: order of the keys, keys begun, fields announced
  bucket,    \* the content output() uploaded
  failures,
  shared,    \* history: two POSTs of the thread were past the check at once
  aged       \* history: names whose last file was swept a day after it was written

uploadVars == <<disk, post, run, stream, bucket, failures, shared, aged>>

NoFile == [there |-> FALSE, chunks |-> <<>>, old |-> FALSE]
Created == [there |-> TRUE, chunks |-> <<>>, old |-> FALSE]

NoStream == [order |-> <<>>, begun |-> 0, announced |-> <<>>]

\* Content no file has.
Unread == <<NoPost>>

UploadInit ==
  /\ disk = [n \in Name |-> NoFile]
  /\ post \in [Post -> {[phase |-> "arrive", upload |-> u, read |-> 0, linked |-> FALSE] : u \in Upload}]
  /\ run = [phase |-> "none", name |-> CHOOSE n \in Name : TRUE, content |-> Unread]
  /\ stream = NoStream
  /\ bucket = Unread
  /\ failures = 0
  /\ shared = FALSE
  /\ aged = {}

NameOf(p) == post[p].upload.name
SizeOf(p) == post[p].upload.size

\* The document p carries, as a whole.
Whole(p) == [n \in 1..SizeOf(p) |-> p]

Goto(p, phase) == post' = [post EXCEPT ![p].phase = phase]
Fail == failures < MaxFailures /\ failures' = failures + 1

\* Past the check, and its run not started yet.
Saving(p) == post[p].phase \in {"open", "copy", "start"}

\* Graph nodes that execute, under the run's lock.
Executing == run.phase \in {"router", "extractor", "validator", "output"}

-----------------------------------------------------------------------------
(* POST /invoices *)

\* Mutant: the age is compared the wrong way round.
SweptFresh == {n \in Name : disk[n].there /\ ~disk[n].old}

\* sweep_old_uploads: every file last written more than 24 hours ago.
Swept == {n \in Name : disk[n].there /\ disk[n].old}

\* The POST sweeps before anything else, then checks that the id was reserved and
\* never used.
Arrive(p) ==
  /\ post[p].phase = "arrive"
  /\ disk' = [n \in Name |-> IF n \in Swept THEN NoFile ELSE disk[n]]
  /\ aged' = aged \cup {n \in Name : disk[n].old /\ ~disk'[n].there}
  /\ Goto(p, IF run.phase = "none" THEN "open" ELSE "refused")
  /\ shared' = (shared \/ (run.phase = "none" /\ \E q \in Post \ {p} : Saving(q)))
  /\ UNCHANGED <<run, stream, bucket, failures>>

\* Mutant: open(out_path, "ab").
OpenedAppending(n) == [there |-> TRUE, chunks |-> disk[n].chunks, old |-> FALSE]

\* open(out_path, "wb") empties a file that is there.
Opened(n) == Created

Open(p) ==
  /\ post[p].phase = "open"
  /\ disk' = [disk EXCEPT ![NameOf(p)] = Opened(NameOf(p))]
  /\ post' = [post EXCEPT ![p].phase = "copy", ![p].linked = TRUE]
  /\ aged' = aged \ {NameOf(p)}
  /\ UNCHANGED <<run, stream, bucket, failures, shared>>

\* The chunk lands at p's own position in the file, whatever is there.
Landed(chunks, p) ==
  [n \in 1..(IF Len(chunks) > post[p].read THEN Len(chunks) ELSE post[p].read + 1) |->
     IF n = post[p].read + 1 THEN p ELSE IF n <= Len(chunks) THEN chunks[n] ELSE NoPost]

\* Mutant: the size is looked at after the chunk is written.
RefusedLate(p) ==
  \/ post[p].read = 0 /\ SizeOf(p) > 0 /\ ~post[p].upload.magic
  \/ post[p].read > Cap

\* No header in the first chunk, or one chunk more than the cap.
Refused(p) ==
  \/ post[p].read = 0 /\ SizeOf(p) > 0 /\ ~post[p].upload.magic
  \/ post[p].read = Cap /\ SizeOf(p) > Cap

CopyChunk(p) ==
  /\ post[p].phase = "copy" /\ post[p].read < SizeOf(p) /\ ~Refused(p)
  /\ disk' = IF post[p].linked
             THEN [disk EXCEPT ![NameOf(p)].chunks = Landed(@, p), ![NameOf(p)].old = FALSE]
             ELSE disk
  /\ post' = [post EXCEPT ![p].read = @ + 1]
  /\ UNCHANGED <<run, stream, bucket, failures, shared, aged>>

\* Mutant: the cleanup is for an empty file only.
UnlinkedIfEmpty(p) == IF SizeOf(p) = 0 THEN NoFile ELSE disk[NameOf(p)]

Unlinked(p) == NoFile

\* Not a PDF, too large, or empty: the path is unlinked, for every POST that has
\* it open.
Refuse(p) ==
  /\ post[p].phase = "copy"
  /\ Refused(p) \/ SizeOf(p) = 0
  /\ disk' = [disk EXCEPT ![NameOf(p)] = Unlinked(p)]
  /\ post' = [q \in Post |-> [post[q] EXCEPT !.linked = @ /\ NameOf(q) # NameOf(p),
                                             !.phase = IF q = p THEN "refused" ELSE @]]
  /\ UNCHANGED <<run, stream, bucket, failures, shared, aged>>

\* The disk is full: no ApiError, so the part that was written stays.
BreakOff(p) ==
  /\ post[p].phase = "copy"
  /\ Fail
  /\ Goto(p, "broken")
  /\ UNCHANGED <<disk, run, stream, bucket, shared, aged>>

Saved(p) ==
  /\ post[p].phase = "copy" /\ post[p].read = SizeOf(p) /\ SizeOf(p) > 0
  /\ Goto(p, "start")
  /\ UNCHANGED <<disk, run, stream, bucket, failures, shared, aged>>

\* start_run: refused while the run executes; else the graph starts with this
\* file, even on a thread that has run before.
StartRun(p) ==
  /\ post[p].phase = "start"
  /\ IF Executing THEN Goto(p, "refused") /\ UNCHANGED <<run, stream>>
     ELSE /\ Goto(p, "accepted")
          /\ run' = [phase |-> "router", name |-> NameOf(p), content |-> Unread]
          /\ stream' = NoStream
  /\ UNCHANGED <<disk, bucket, failures, shared, aged>>

PostStep(p) ==
  Arrive(p) \/ Open(p) \/ CopyChunk(p) \/ Refuse(p) \/ BreakOff(p) \/ Saved(p) \/ StartRun(p)

-----------------------------------------------------------------------------
(* The run *)

File == disk[run.name]
GotoNode(phase) == run' = [run EXCEPT !.phase = phase]

FailedAt(node) ==
  IF node = "router" THEN "failed at router"
  ELSE IF node = "extractor" THEN "failed at extractor" ELSE "failed at output"

\* The model's call fails, or the file is not there any more.
NodeFails(node) ==
  /\ run.phase = node
  /\ Fail \/ (~File.there /\ UNCHANGED failures)
  /\ GotoNode(FailedAt(node))
  /\ UNCHANGED <<disk, post, stream, bucket, shared, aged>>

Route ==
  /\ run.phase = "router" /\ File.there
  /\ GotoNode("extractor")
  /\ stream' = NoStream
  /\ UNCHANGED <<disk, post, bucket, failures, shared, aged>>

\* extract_invoice_streaming reads the file and opens the stream.
CallModel ==
  /\ run.phase = "extractor" /\ stream.order = <<>> /\ File.there
  /\ run' = [run EXCEPT !.content = File.chunks]
  /\ \E o \in Orders : stream' = [order |-> o, begun |-> 0, announced |-> <<>>]
  /\ UNCHANGED <<disk, post, bucket, failures, shared, aged>>

\* Mutant: for name in keys.
DoneKeysAll(order, begun) == SubSeq(order, 1, begun)

\* keys[:-1]: the last key of a partial parse may still be growing.
DoneKeys(order, begun) == SubSeq(order, 1, IF begun = 0 THEN 0 ELSE begun - 1)

Names(announced) == {announced[n].name : n \in DOMAIN announced}

\* The fields among the keys taken for done that were not announced yet; of the
\* key begun last the value is not known to be whole.
Announcements(order, begun) ==
  LET fresh == Selected(DoneKeys(order, begun), Field \ Names(stream.announced))
  IN  [n \in DOMAIN fresh |-> [name |-> fresh[n], whole |-> fresh[n] # order[begun]]]

\* One text event.  With every field but one announced it is not parsed any more.
Delta ==
  /\ run.phase = "extractor"
  /\ \E begun \in (stream.begun + 1)..Len(stream.order) :
       stream' = [stream EXCEPT
         !.begun = begun,
         !.announced = IF Len(@) >= Cardinality(Field) - 1 THEN @
                       ELSE @ \o Announcements(stream.order, begun)]
  /\ UNCHANGED <<disk, post, run, bucket, failures, shared, aged>>

\* The final message: what is left is announced from the parsed invoice.
Extracted ==
  /\ run.phase = "extractor" /\ stream.order # <<>> /\ stream.begun = Len(stream.order)
  /\ LET left == SetToSeq(Field \ Names(stream.announced))
     IN  stream' = [stream EXCEPT !.announced = @ \o [n \in DOMAIN left |-> [name |-> left[n], whole |-> TRUE]]]
  /\ GotoNode("validator")
  /\ UNCHANGED <<disk, post, bucket, failures, shared, aged>>

Validate ==
  /\ run.phase = "validator"
  /\ GotoNode("review") \/ GotoNode("output")
  /\ UNCHANGED <<disk, post, stream, bucket, failures, shared, aged>>

\* output(): upload_pdf reads the file once more.
Output ==
  /\ run.phase = "output" /\ File.there
  /\ bucket' = File.chunks
  /\ GotoNode("completed")
  /\ UNCHANGED <<disk, post, stream, failures, shared, aged>>

Approve ==
  /\ run.phase = "review"
  /\ GotoNode("output")
  /\ UNCHANGED <<disk, post, stream, bucket, failures, shared, aged>>

\* An empty-body resume re-executes the node that failed.
Retry(node) ==
  /\ run.phase = FailedAt(node)
  /\ GotoNode(node)
  /\ stream' = IF node = "extractor" THEN NoStream ELSE stream
  /\ UNCHANGED <<disk, post, bucket, failures, shared, aged>>

RunStep ==
  \/ Route \/ CallModel \/ Delta \/ Extracted \/ Validate \/ Output \/ Approve
  \/ \E node \in {"router", "extractor", "output"} : NodeFails(node) \/ Retry(node)

\* 24 hours pass; no request and no run takes that long.
Day ==
  /\ \A p \in Post : post[p].phase \notin {"open", "copy", "start"}
  /\ ~Executing
  /\ \E n \in Name : disk[n].there /\ ~disk[n].old
  /\ disk' = [n \in Name |-> [disk[n] EXCEPT !.old = disk[n].there]]
  /\ UNCHANGED <<post, run, stream, bucket, failures, shared, aged>>

UploadNext == (\E p \in Post : PostStep(p)) \/ RunStep \/ Day

UploadSpec == UploadInit /\ [][UploadNext]_uploadVars

-----------------------------------------------------------------------------
(* Properties *)

UploadTypeOK ==
  /\ disk \in [Name -> [there : BOOLEAN, chunks : Seq(Post \cup {NoPost}), old : BOOLEAN]]
  /\ post \in [Post -> [phase : {"arrive", "open", "copy", "start", "accepted", "refused", "broken"},
                        upload : Upload, read : 0..Cap, linked : BOOLEAN]]
  /\ run.phase \in {"none", "router", "extractor", "validator", "review", "output", "completed",
                    "failed at router", "failed at extractor", "failed at output"}
  /\ run.name \in Name
  /\ Names(stream.announced) \subseteq Field
  /\ failures \in 0..MaxFailures

\* What was uploaded to the bucket is the document the fields were extracted from,
\* and one POST's whole document: no refused upload, broken-off upload, retry or
\* sweep mixes it up, unless two POSTs were saving under the thread_id at once.
StoredIsExtracted ==
  (run.phase = "completed" /\ ~shared) =>
    bucket = run.content /\ \E p \in Post : bucket = Whole(p)

\* A run that has started finds its file until the sweep of a later POST took it,
\* a day after it was written.  A concurrent POST with the same id and name breaks
\* this: refusing that one removes the accepted one's file.
FileOutlivesTheDay ==
  (run.phase # "none" /\ ~shared) => File.there \/ run.name \in aged

\* A refused upload leaves no file behind: what lies in upload_dir was accepted, is
\* being written, or broke off with an error that is no refusal.
RefusedLeavesNothing ==
  ~shared => \A n \in Name :
    disk[n].there => \E p \in Post : NameOf(p) = n /\ post[p].phase \in {"copy", "start", "accepted", "broken"}

\* While the extractor runs, no field is announced twice or before the response
\* has moved past it; when it has returned, every field has been announced once.
AnnouncedOnceAndWhole ==
  /\ \A m, n \in DOMAIN stream.announced :
       /\ stream.announced[n].whole
       /\ stream.announced[m].name = stream.announced[n].name => m = n
  /\ run.phase \in {"validator", "review", "output", "completed"} => Names(stream.announced) = Field
=============================================================================
