------------------------------ MODULE RunPages ------------------------------
(***************************************************************************)
(* What the pages of the web client read: the list of a user's runs, found *)
(* in a window of the checkpoint table (GraphService.list_runs), and the   *)
(* signed link to a run's PDF, cached by the server (db.get_pdf_signed_url)*)
(***************************************************************************)
EXTENDS Naturals, Sequences, SequencesExt, Selection

CONSTANTS
  Thread,          \* thread_ids
  Mine,            \* those the asking user can access
  Limit,           \* rows asked for
  Window,          \* overfetch of the first request
  Widening,        \* factor of the next one
  MaxWindow,       \* MAX_LIST_OVERFETCH
  MaxCheckpoints,  \* bound: checkpoints written
  Viewer,          \* requests for the link
  Lifetime,        \* expires_in
  Margin,          \* the 60 s by which the cache gives a link up early
  MaxLatency,      \* how long create_signed_url may take
  MaxTime          \* bound: the clock

ASSUME PagesAssumption ==
  /\ Mine \subseteq Thread
  /\ Limit \in Nat \ {0} /\ Window \in Nat \ {0} /\ MaxWindow \in Nat /\ MaxCheckpoints \in Nat
  /\ Widening \in Nat \ {0, 1}
  /\ {Lifetime, Margin, MaxLatency, MaxTime} \subseteq Nat
  /\ MaxLatency <= Margin /\ Margin < Lifetime

VARIABLES
  checkpoints,  \* thread_id of each checkpoint, newest first
  list,         \* the GET /invoices in progress
  clock,
  signed,       \* _signed_url_cache: expiry of the link, deadline of the entry
  viewer        \* the GETs of the detail page in progress

pageVars == <<checkpoints, list, clock, signed, viewer>>

NoLink == [expiry |-> 0, deadline |-> 0]

PagesInit ==
  /\ checkpoints = <<>>
  /\ list = [phase |-> "idle", overfetch |-> 0, fetched |-> <<>>, rows |-> <<>>, asked |-> 0]
  /\ clock = 0
  /\ signed = NoLink
  /\ viewer = [v \in Viewer |-> [phase |-> "idle", since |-> 0, link |-> 0]]

-----------------------------------------------------------------------------
(* GET /invoices *)

\* A node of a run returns, in any thread.
WriteCheckpoint ==
  /\ Len(checkpoints) < MaxCheckpoints
  /\ \E t \in Thread : checkpoints' = <<t>> \o checkpoints
  /\ UNCHANGED <<list, clock, signed, viewer>>

StartList ==
  /\ list.phase = "idle"
  /\ list' = [list EXCEPT !.phase = "fetch", !.overfetch = Window, !.asked = Len(checkpoints)]
  /\ UNCHANGED <<checkpoints, clock, signed, viewer>>

\* checkpointer.list(None, limit=overfetch), into a list at once.
FetchWindow ==
  /\ list.phase = "fetch"
  /\ list' = [list EXCEPT !.phase = "summarize",
                          !.fetched = SubSeq(checkpoints, 1, IF Len(checkpoints) < list.overfetch
                                                             THEN Len(checkpoints) ELSE list.overfetch)]
  /\ UNCHANGED <<checkpoints, clock, signed, viewer>>

\* Mutant: a thread is remembered only if it is another user's.
SummarizeRepeating(fetched) ==
  LET visible == Selected(fetched, Mine)
  IN  SubSeq(visible, 1, IF Len(visible) < Limit THEN Len(visible) ELSE Limit)

\* _summarize: the visible threads, each at its newest checkpoint, up to the limit.
Summarize(fetched) ==
  LET first == {n \in DOMAIN fetched : fetched[n] \in Mine /\ \A m \in 1..(n - 1) : fetched[m] # fetched[n]}
      shown == Selected([n \in DOMAIN fetched |-> n], first)
      rows == [n \in DOMAIN shown |-> fetched[shown[n]]]
  IN  SubSeq(rows, 1, IF Len(rows) < Limit THEN Len(rows) ELSE Limit)

Enough(rows, fetched, overfetch) ==
  Len(rows) >= Limit \/ Len(fetched) < overfetch \/ overfetch >= MaxWindow

SummarizeWindow ==
  /\ list.phase = "summarize"
  /\ LET rows == Summarize(list.fetched)
     IN  list' = IF Enough(rows, list.fetched, list.overfetch)
                 THEN [list EXCEPT !.phase = "done", !.rows = rows]
                 ELSE [list EXCEPT !.phase = "fetch", !.overfetch = @ * Widening]
  /\ UNCHANGED <<checkpoints, clock, signed, viewer>>

-----------------------------------------------------------------------------
(* The signed link of GET /invoices/{thread_id} *)

\* A request to Supabase takes at most MaxLatency.
Tick ==
  /\ clock < MaxTime
  /\ \A v \in Viewer : viewer[v].phase = "sign" => clock < viewer[v].since + MaxLatency
  /\ clock' = clock + 1
  /\ UNCHANGED <<checkpoints, list, signed, viewer>>

Answer(v, link) == viewer' = [viewer EXCEPT ![v].phase = "done", ![v].link = link]

ServeCached(v) ==
  /\ viewer[v].phase = "idle" /\ clock < signed.deadline
  /\ Answer(v, signed.expiry)
  /\ UNCHANGED <<checkpoints, list, clock, signed>>

\* Supabase signs the link as it receives the request: it expires Lifetime later.
AskForLink(v) ==
  /\ viewer[v].phase = "idle" /\ clock >= signed.deadline
  /\ viewer' = [viewer EXCEPT ![v].phase = "sign", ![v].since = clock]
  /\ UNCHANGED <<checkpoints, list, clock, signed>>

\* Mutant: the entry is kept for the whole lifetime.
CachedToTheEnd(expiry) == [expiry |-> expiry, deadline |-> clock + Lifetime]

Cached(expiry) == [expiry |-> expiry, deadline |-> clock + Lifetime - Margin]

\* The deadline counts from when the answer is back; of two the later one stays.
GetLink(v) ==
  /\ viewer[v].phase = "sign"
  /\ signed' = Cached(viewer[v].since + Lifetime)
  /\ Answer(v, viewer[v].since + Lifetime)
  /\ UNCHANGED <<checkpoints, list, clock>>

\* The request failed: the page has no link, and nothing is cached.
GetNoLink(v) ==
  /\ viewer[v].phase = "sign"
  /\ viewer' = [viewer EXCEPT ![v].phase = "idle"]
  /\ UNCHANGED <<checkpoints, list, clock, signed>>

\* The page is opened again.
Revisit(v) ==
  /\ viewer[v].phase = "done"
  /\ viewer' = [viewer EXCEPT ![v].phase = "idle"]
  /\ UNCHANGED <<checkpoints, list, clock, signed>>

ListNext == WriteCheckpoint \/ StartList \/ FetchWindow \/ SummarizeWindow

LinkNext ==
  \/ Tick
  \/ \E v \in Viewer : ServeCached(v) \/ AskForLink(v) \/ GetLink(v) \/ GetNoLink(v) \/ Revisit(v)

PagesSpec == PagesInit /\ [][ListNext \/ LinkNext]_pageVars

-----------------------------------------------------------------------------
(* Properties *)

PagesTypeOK ==
  /\ checkpoints \in Seq(Thread)
  /\ list.phase \in {"idle", "fetch", "summarize", "done"}
  /\ ToSet(list.rows) \subseteq Thread
  /\ clock \in 0..MaxTime
  /\ viewer \in [Viewer -> [phase : {"idle", "sign", "done"}, since : Nat, link : Nat]]

\* A list that is shorter than asked for is missing none of the user's runs: each
\* that had a checkpoint when the request came in is there, unless the window grew
\* to its cap and was full of other checkpoints.  No run is there twice.
ShortListIsComplete ==
  list.phase = "done" =>
    /\ IsInjective(list.rows)
    /\ Len(list.rows) < Limit =>
         LET before == {checkpoints[n] : n \in (Len(checkpoints) - list.asked + 1)..Len(checkpoints)}
         IN  \/ before \cap Mine \subseteq ToSet(list.rows)
             \/ list.overfetch >= MaxWindow /\ Len(list.fetched) = list.overfetch

\* A page never shows a link that is dead on arrival, however long the link lay in
\* the cache and however long the request for it took: when the page gets it, it
\* is good for another moment.
LinkIsAlive ==
  [][\A v \in Viewer : (viewer[v].phase # "done" /\ viewer'[v].phase = "done") =>
       viewer'[v].link > clock]_pageVars
=============================================================================
