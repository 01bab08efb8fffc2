------------------------------ MODULE EventBus ------------------------------
(***************************************************************************)
(* The data structures of invoice_agent/events.py: a run's channel (its    *)
(* sequence counter and bounded history) and a subscriber's bounded queue. *)
(* Every operator maps a value to the value after one call; EventStream    *)
(* runs them as the steps of worker threads and of the event loop.         *)
(*                                                                         *)
(* An event keeps its type and sequence number; payloads and time stamps   *)
(* are left out, as are the types that no code of the bus or of the stream *)
(* route looks at, which are all "progress".                               *)
(***************************************************************************)
EXTENDS Integers, Sequences, SequencesExt, Selection

CONSTANTS
  MaxHistory,   \* MAX_HISTORY
  MaxQueue      \* MAX_SUBSCRIBER_QUEUE

ASSUME SizesAssumption == MaxHistory \in Nat \ {0} /\ MaxQueue \in Nat \ {0, 1}

TerminalTypes == {"interrupted", "run_end"}
EventType == {"progress"} \cup TerminalTypes

Event == [type : EventType, seq : Nat]
Overflow == [type : {"overflow"}, seq : Nat]
Done == [type |-> "done", seq |-> 0]     \* the _DONE sentinel, which carries nothing
Item == Event \cup Overflow \cup {Done}

IsEvent(item) == item.type \in EventType

-----------------------------------------------------------------------------
(* Channels *)

NewChannel == [open |-> TRUE, seq |-> 0, history |-> <<>>, subscribers |-> <<>>]

\* No entry in the registry.
NoChannel == [NewChannel EXCEPT !.open = FALSE]

\* Mutant: a history without a maximum length.
AppendUnbounded(s, e, n) == Append(s, e)

\* deque(maxlen=n).append: the oldest entry makes room.
AppendBounded(s, e, n) == IF Len(s) < n THEN Append(s, e) ELSE Append(Tail(s), e)

\* The event publish() builds, and the channel once it is recorded.
NextEvent(ch, type) == [type |-> type, seq |-> ch.seq]

Recorded(ch, type) ==
  [ch EXCEPT !.seq = @ + 1, !.history = AppendBounded(@, NextEvent(ch, type), MaxHistory)]

\* Mutant: the event whose id the client quoted is sent again.
BacklogInclusive(ch, last_event_id) ==
  Selected(ch.history, {e \in Event : e.seq >= last_event_id})

\* What a subscriber is sent first.  A client that quotes no id is id -1.
Backlog(ch, last_event_id) == Selected(ch.history, {e \in Event : e.seq > last_event_id})

-----------------------------------------------------------------------------
(* Subscriber queues *)

Full(queue) == Len(queue) >= MaxQueue

\* Mutant: a full queue refuses the newcomer instead of evicting its oldest item.
PutDropNewest(queue, item) == IF Full(queue) THEN queue ELSE Append(queue, item)

\* _put_drop_oldest.
PutDropOldest(queue, item) ==
  IF Full(queue) THEN Append(Tail(queue), item) ELSE Append(queue, item)

\* _deliver: a full queue starts an overflow episode with a marker, then takes the event.
StartsEpisode(queue, dropped) == Full(queue) /\ ~dropped

Delivered(queue, dropped, event) ==
  LET marker == [type |-> "overflow", seq |-> event.seq]
  IN  PutDropOldest(IF StartsEpisode(queue, dropped) THEN PutDropOldest(queue, marker) ELSE queue,
                    event)
=============================================================================
