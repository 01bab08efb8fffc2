----------------------------- MODULE EventStream -----------------------------
(***************************************************************************)
(* The event bus at work: requests that execute passes over runs publish   *)
(* from worker threads (app/service.py, invoice_agent/events.py), and      *)
(* connections of GET /invoices/{thread_id}/stream subscribe and read on   *)
(* the event loop (app/routes.py).                                         *)
(*                                                                         *)
(* publish() and close_channel() hold the registry's lock only while they  *)
(* change the channel and copy its subscribers; each copy is handed to the *)
(* loop afterwards, one call_soon_threadsafe at a time.  The loop runs its *)
(* callbacks in order, between the steps of the stream generators.         *)
(*                                                                         *)
(* What a pass computes is GraphService's subject; here it is a number of  *)
(* progress events and an outcome.                                         *)
(***************************************************************************)
EXTENDS EventBus, FiniteSets

CONSTANTS
  Run,
  Handler,       \* requests that may execute one pass over a run each
  NoHandler,
  Connection,    \* stream connections, each opened once
  MaxChannels,   \* MAX_CHANNELS
  MaxProgress,   \* bound on the progress events of one pass
  SnapshotFails  \* whether get_state() may raise after a pass

ASSUME StreamAssumption ==
  /\ NoHandler \notin Handler
  /\ MaxChannels \in Nat \ {0}
  /\ MaxProgress \in Nat
  /\ SnapshotFails \in BOOLEAN

VARIABLES
  phase,      \* the status a checkpoint of the run would be read as
  holder,     \* the handler that has the run's lock
  handler,    \* per handler: pc, run, whether it is the POST of a reservation,
              \* progress events left, items to hand to the loop
  channel,    \* _channels
  callbacks,  \* the loop's queue of <<connection, item>> scheduled by call_soon_threadsafe
  conn,       \* per connection: the generator's state and its subscriber
  seen,       \* history: per connection, the number of the last event read
  evicted,    \* history: per connection, whether its queue ever dropped an event
  owed        \* history: per connection, the numbers of the events that were recorded
              \* when it subscribed, and newer than its id, that it has not read

service == <<phase, holder>>
history == <<seen, evicted, owed>>
vars == <<phase, holder, handler, channel, callbacks, conn, seen, evicted, owed>>

Phase == {"unknown", "processing", "needs_review", "failed", "finished"}

NoConn == [state |-> "idle", run |-> "none", last_event_id |-> -1,
           backlog |-> <<>>, queue |-> <<>>, dropped |-> FALSE]

Init ==
  /\ phase = [t \in Run |-> "unknown"]
  /\ holder = [t \in Run |-> NoHandler]
  /\ handler = [h \in Handler |-> [pc |-> "idle", run |-> "none", posted |-> FALSE,
                                  left |-> 0, out |-> <<>>]]
  /\ channel = [t \in Run |-> NoChannel]
  /\ callbacks = <<>>
  /\ conn = [s \in Connection |-> NoConn]
  /\ seen = [s \in Connection |-> -1]
  /\ evicted = [s \in Connection |-> FALSE]
  /\ owed = [s \in Connection |-> {}]

-----------------------------------------------------------------------------
(* Helpers *)

RunOf(h) == handler[h].run
GoTo(h, label) == handler' = [handler EXCEPT ![h].pc = label]
WorkOn(h, t, label) == handler' = [handler EXCEPT ![h] = [@ EXCEPT !.run = t, !.pc = label]]

OpenRuns(registry) == {t \in Run : registry[t].open}

\* The POST of a reserved id looks at the channel without touching it, so that the
\* reservation goes on ageing until the run's first event.
Ageing(h) == handler[h].posted /\ handler[h].pc \in {"lock", "running"} /\ channel[RunOf(h)].seq = 0

\* A channel nobody touched for CHANNEL_TTL_SECONDS.  A pass touches its channel with
\* every event, and from a resume's open_channel to the lock there are a few statements.
Stale(t) ==
  /\ channel[t].open
  /\ \/ holder[t] = NoHandler /\ \A h \in Handler : ~(handler[h].pc = "lock" /\ RunOf(h) = t)
     \/ \E h \in Handler : RunOf(h) = t /\ Ageing(h)

Swept(stale) == [t \in Run |-> IF t \in stale THEN NoChannel ELSE channel[t]]

\* open_channel: idempotent, refused when the registry is full.
HasRoom(registry, t) == registry[t].open \/ Cardinality(OpenRuns(registry)) < MaxChannels

Opened(registry, t) ==
  IF registry[t].open \/ ~HasRoom(registry, t) THEN registry
  ELSE [registry EXCEPT ![t] = NewChannel]

-----------------------------------------------------------------------------
(* Requests up to the run's lock *)

\* POST /invoices/reserve: sweep_stale, then open_channel or 503.
Reserve(h, t) ==
  /\ handler[h].pc = "idle"
  /\ phase[t] = "unknown"
  /\ \A g \in Handler : RunOf(g) # t
  /\ \E stale \in SUBSET {u \in Run : Stale(u)} :
       /\ channel' = Opened(Swept(stale), t)
       /\ WorkOn(h, t, IF HasRoom(Swept(stale), t) THEN "reserved" ELSE "done")
  /\ UNCHANGED <<service, callbacks, conn, history>>

\* POST /invoices: with the reserved id, if it is still open; or with an id of its
\* own and no channel.
Post(h) ==
  /\ handler[h].pc = "reserved"
  /\ handler' = [handler EXCEPT ![h] = [@ EXCEPT
                   !.posted = TRUE, !.pc = IF channel[RunOf(h)].open THEN "lock" ELSE "done"]]
  /\ UNCHANGED <<service, channel, callbacks, conn, history>>

PostFresh(h, t) ==
  /\ handler[h].pc = "idle"
  /\ phase[t] = "unknown"
  /\ \A g \in Handler : RunOf(g) # t
  /\ WorkOn(h, t, "lock")
  /\ UNCHANGED <<service, channel, callbacks, conn, history>>

\* resume_run up to its snapshot.
Resume(h, t) ==
  /\ handler[h].pc = "idle"
  /\ phase[t] \in {"needs_review", "failed"}
  /\ WorkOn(h, t, "open")
  /\ UNCHANGED <<service, channel, callbacks, conn, history>>

\* open_channel sweeps a full registry once more; its result is not looked at.
OpenChannel(h) ==
  /\ handler[h].pc = "open"
  /\ \E stale \in SUBSET {u \in Run : Stale(u)} :
       /\ HasRoom(channel, RunOf(h)) => stale = {}
       /\ channel' = Opened(Swept(stale), RunOf(h))
  /\ GoTo(h, "lock")
  /\ UNCHANGED <<service, callbacks, conn, history>>

\* The upload is rejected, the lock is held (409), or no permit came (503).
Refuse(h) ==
  /\ handler[h].pc \in {"reserved", "lock"}
  /\ GoTo(h, "done")
  /\ UNCHANGED <<service, channel, callbacks, conn, history>>

-----------------------------------------------------------------------------
(* A pass, under the run's lock *)

\* graph.invoke() finds work, unless a command comes too late for the run.
Enter(h) ==
  LET t == RunOf(h)
  IN  /\ handler[h].pc = "lock"
      /\ holder[t] = NoHandler
      /\ holder' = [holder EXCEPT ![t] = h]
      /\ \/ phase[t] # "finished" /\ phase' = [phase EXCEPT ![t] = "processing"]
         \/ phase[t] \in {"needs_review", "finished"} /\ UNCHANGED phase
      /\ handler' = [handler EXCEPT ![h] = [@ EXCEPT !.pc = "running", !.left = MaxProgress]]
      /\ UNCHANGED <<channel, callbacks, conn, history>>

\* publish() up to its unlock: record the event and copy the list of subscribers.
Announced(ch, type) ==
  IF ch.open
  THEN [i \in DOMAIN ch.subscribers |-> <<ch.subscribers[i], NextEvent(ch, type)>>]
  ELSE <<>>

Publish(h, type, updated) ==
  LET t == RunOf(h)
  IN  /\ handler[h].out = <<>>
      /\ channel' = [channel EXCEPT ![t] = IF @.open THEN Recorded(@, type) ELSE @]
      /\ handler' = [handler EXCEPT ![h] = [updated EXCEPT !.out = Announced(channel[t], type)]]
      /\ UNCHANGED <<service, callbacks, conn, history>>

\* publish() and close_channel() after the unlock: one call_soon_threadsafe.
HandOver(h) ==
  /\ handler[h].out # <<>>
  /\ callbacks' = Append(callbacks, Head(handler[h].out))
  /\ handler' = [handler EXCEPT ![h].out = Tail(@)]
  /\ UNCHANGED <<service, channel, conn, history>>

\* A node publishes a stage, a field or a check.
Progress(h) ==
  /\ handler[h].pc = "running"
  /\ phase[RunOf(h)] = "processing"
  /\ handler[h].left > 0
  /\ Publish(h, "progress", [handler[h] EXCEPT !.left = @ - 1])

\* graph.invoke() returns or raises.
Settle(h) ==
  LET t == RunOf(h)
  IN  /\ handler[h].pc = "running"
      /\ handler[h].out = <<>>
      /\ IF phase[t] = "processing"
         THEN \E outcome \in {"needs_review", "failed", "finished"} :
                phase' = [phase EXCEPT ![t] = outcome]
         ELSE UNCHANGED phase
      /\ GoTo(h, "settled")
      /\ UNCHANGED <<holder, channel, callbacks, conn, history>>

\* _publish_run_end.
PublishRunEnd(h) ==
  /\ handler[h].pc = "settled"
  /\ IF phase[RunOf(h)] = "needs_review"
     THEN Publish(h, "interrupted", [handler[h] EXCEPT !.pc = "unlock"])
     ELSE Publish(h, "run_end", [handler[h] EXCEPT !.pc = "close"])

\* get_state() raised: nothing is published, and the channel stays.
PublishSwallowed(h) ==
  /\ SnapshotFails
  /\ handler[h].pc = "settled"
  /\ GoTo(h, "unlock")
  /\ UNCHANGED <<service, channel, callbacks, conn, history>>

\* Mutant: the subscribers are looked up after the entry is gone.
FarewellTooLate(ch) == <<>>

\* close_channel: what is handed to the loop for every subscriber.
Farewell(ch) == [i \in DOMAIN ch.subscribers |-> <<ch.subscribers[i], Done>>]

CloseChannel(h) ==
  LET t == RunOf(h)
  IN  /\ handler[h].pc = "close"
      /\ handler[h].out = <<>>
      /\ channel' = [channel EXCEPT ![t] = NoChannel]
      /\ handler' = [handler EXCEPT ![h] = [@ EXCEPT !.pc = "unlock",
                                                     !.out = Farewell(channel[t])]]
      /\ UNCHANGED <<service, callbacks, conn, history>>

Unlock(h) ==
  /\ handler[h].pc = "unlock"
  /\ handler[h].out = <<>>
  /\ holder' = [holder EXCEPT ![RunOf(h)] = NoHandler]
  /\ GoTo(h, "done")
  /\ UNCHANGED <<phase, channel, callbacks, conn, history>>

Pass(h) ==
  \/ Enter(h) \/ Progress(h) \/ Settle(h) \/ HandOver(h)
  \/ PublishRunEnd(h) \/ PublishSwallowed(h) \/ CloseChannel(h) \/ Unlock(h)

-----------------------------------------------------------------------------
(* The event loop *)

\* _deliver, or the sentinel's _put_drop_oldest.  What is left in the queue of a
\* connection that ended is nobody's.
RunCallback ==
  /\ callbacks # <<>>
  /\ callbacks' = Tail(callbacks)
  /\ LET s == Head(callbacks)[1]
         item == Head(callbacks)[2]
         c == conn[s]
     IN  IF c.state = "attached"
         THEN /\ conn' = [conn EXCEPT ![s] =
                            IF item = Done
                            THEN [c EXCEPT !.queue = PutDropOldest(c.queue, Done)]
                            ELSE [c EXCEPT !.queue = Delivered(c.queue, c.dropped, item),
                                           !.dropped = Full(c.queue)]]
              /\ evicted' = [evicted EXCEPT ![s] = @ \/ Full(c.queue)]
         ELSE UNCHANGED <<conn, evicted>>
  /\ UNCHANGED <<service, handler, channel, seen, owed>>

\* stream_invoke_run up to its response: has_channel decides between the feed and
\* a one-shot snapshot (or 404), with any id the client may quote.
Connect(s, t) ==
  /\ conn[s].state = "idle"
  /\ \E id \in -1..channel[t].seq :
       conn' = [conn EXCEPT ![s] = [@ EXCEPT
                 !.run = t, !.last_event_id = IF channel[t].open THEN id ELSE -1,
                 !.state = IF channel[t].open THEN "connecting" ELSE "answered"]]
  /\ UNCHANGED <<service, handler, channel, callbacks, history>>

\* The number before the first event the connection is due.
StartingPoint(ch, last_event_id) ==
  LET oldest == ch.seq - Len(ch.history)
  IN  IF last_event_id >= ch.seq THEN ch.seq - 1
      ELSE IF last_event_id >= oldest THEN last_event_id ELSE oldest - 1

\* The numbers of the events a subscriber that quotes an id has yet to be sent.
Recent(ch, last_event_id) == {n \in {e.seq : e \in Range(ch.history)} : n > last_event_id}

\* subscribe up to its first yield: attach and copy the backlog, under one lock; or
\* ChannelClosed, answered with a snapshot.
Subscribe(s) ==
  LET t == conn[s].run
      id == conn[s].last_event_id
  IN  /\ conn[s].state = "connecting"
      /\ IF channel[t].open
         THEN /\ conn' = [conn EXCEPT ![s] = [@ EXCEPT !.state = "attached",
                                                       !.backlog = Backlog(channel[t], id)]]
              /\ channel' = [channel EXCEPT ![t].subscribers = Append(@, s)]
              /\ seen' = [seen EXCEPT ![s] = StartingPoint(channel[t], id)]
              /\ owed' = [owed EXCEPT ![s] = Recent(channel[t], id)]
         ELSE /\ conn' = [conn EXCEPT ![s].state = "answered"]
              /\ UNCHANGED <<channel, seen, owed>>
      /\ UNCHANGED <<service, handler, callbacks, evicted>>

\* subscribe's finally, which leaves a channel opened since alone.
Detach(s, state) ==
  /\ conn' = [conn EXCEPT ![s] = [NoConn EXCEPT !.state = state, !.run = conn[s].run]]
  /\ channel' = [channel EXCEPT ![conn[s].run].subscribers = Selected(@, Connection \ {s})]

\* Mutant: every terminal event ends the stream, a superseded one included.
IsCurrentAlways(c) == TRUE

\* is_current: the last backlog item and everything live.
IsCurrent(c) == Len(c.backlog) <= 1

\* The generator yields the next item; the route returns on a current terminal event.
Read(s) ==
  LET c == conn[s]
      item == Head(c.backlog \o c.queue)
      ends == item = Done \/ (item.type \in TerminalTypes /\ IsCurrent(c))
  IN  /\ c.state = "attached"
      /\ c.backlog \o c.queue # <<>>
      /\ IF ends
         THEN Detach(s, "finished")
         ELSE /\ conn' = [conn EXCEPT ![s] = IF c.backlog # <<>>
                                             THEN [c EXCEPT !.backlog = Tail(@)]
                                             ELSE [c EXCEPT !.queue = Tail(@)]]
              /\ UNCHANGED channel
      /\ seen' = [seen EXCEPT ![s] = IF IsEvent(item) THEN item.seq ELSE @]
      /\ owed' = [owed EXCEPT ![s] = IF IsEvent(item) THEN @ \ {item.seq} ELSE @]
      /\ UNCHANGED <<service, handler, callbacks, evicted>>

\* The client goes away.
Leave(s) ==
  /\ conn[s].state \in {"connecting", "attached"}
  /\ Detach(s, "left")
  /\ UNCHANGED <<service, handler, callbacks, history>>

-----------------------------------------------------------------------------
(* Specification *)

Next ==
  \/ \E h \in Handler :
       \/ \E t \in Run : Reserve(h, t) \/ PostFresh(h, t) \/ Resume(h, t)
       \/ Post(h) \/ OpenChannel(h) \/ Refuse(h) \/ Pass(h)
  \/ \E s \in Connection : (\E t \in Run : Connect(s, t)) \/ Subscribe(s) \/ Read(s) \/ Leave(s)
  \/ RunCallback

\* Threads and the loop run; clients, readers included, may do nothing.
Fairness == WF_vars(RunCallback) /\ \A h \in Handler : WF_vars(Pass(h))

Spec == Init /\ [][Next]_vars /\ Fairness

-----------------------------------------------------------------------------
(* Properties *)

HandlerPC == {"idle", "reserved", "open", "lock", "running", "settled", "close", "unlock", "done"}

\* What the variables range over; the bus's containers keep their bounds.
TypeOK ==
  /\ phase \in [Run -> Phase]
  /\ holder \in [Run -> Handler \cup {NoHandler}]
  /\ \A h \in Handler :
       /\ handler[h].pc \in HandlerPC
       /\ handler[h].run \in Run \cup {"none"}
       /\ handler[h].posted \in BOOLEAN
       /\ handler[h].left \in 0..MaxProgress
       /\ handler[h].out \in Seq(Connection \X Item)
  /\ \A t \in Run :
       /\ channel[t].open \in BOOLEAN
       /\ channel[t].seq \in Nat
       /\ channel[t].history \in Seq(Event) /\ Len(channel[t].history) <= MaxHistory
       /\ channel[t].subscribers \in Seq(Connection)
  /\ Cardinality(OpenRuns(channel)) <= MaxChannels
  /\ callbacks \in Seq(Connection \X Item)
  /\ \A s \in Connection :
       /\ conn[s].state \in {"idle", "connecting", "attached", "answered", "finished", "left"}
       /\ conn[s].run \in Run \cup {"none"}
       /\ conn[s].last_event_id \in Int
       /\ conn[s].backlog \in Seq(Event) /\ Len(conn[s].backlog) <= MaxHistory
       /\ conn[s].queue \in Seq(Item) /\ Len(conn[s].queue) <= MaxQueue
       /\ conn[s].dropped \in BOOLEAN
  /\ seen \in [Connection -> Int]
  /\ evicted \in [Connection -> BOOLEAN]
  /\ owed \in [Connection -> SUBSET Nat]

Attached(s) == conn[s].state = "attached"
Registered(s) ==
  /\ Attached(s)
  /\ Contains(channel[conn[s].run].subscribers, s)

\* What is on its way to s among the items waiting in a list of <<connection, item>>.
Addressed(s, list) ==
  LET mine == Selected(list, {s} \X Item) IN [i \in DOMAIN mine |-> mine[i][2]]

\* The numbers s has still to read, in order, after the last one it read: from its
\* backlog, its queue, the loop's callbacks, and the publisher's hand-over.
Due(s) ==
  LET publisher == holder[conn[s].run]
      unsent == IF publisher = NoHandler THEN <<>> ELSE Addressed(s, handler[publisher].out)
      events == Selected(conn[s].backlog \o conn[s].queue \o Addressed(s, callbacks) \o unsent, Event)
  IN  <<seen[s]>> \o [i \in DOMAIN events |-> events[i].seq]

\* A subscriber reads a run's events in order and none twice, and the newest one is
\* always read or on its way, however far the subscriber falls behind (subscribe's
\* single lock acquisition, and drop-oldest in _deliver).
NewestIsOnItsWay ==
  \A s \in Connection : Registered(s) =>
    /\ Last(Due(s)) = channel[conn[s].run].seq - 1
    /\ \A i \in 1..Len(Due(s)) - 1 : Due(s)[i] < Due(s)[i + 1]

\* Attaching while a pass publishes loses no event and repeats none: unless its queue
\* overflowed, a subscriber is due every number from the id it quoted to the newest.
NoGapWithoutOverflow ==
  \A s \in Connection : Registered(s) /\ ~evicted[s] =>
    \A i \in 1..Len(Due(s)) - 1 : Due(s)[i + 1] = Due(s)[i] + 1

\* A superseded interrupt in the backlog does not cut the replay short: a stream that
\* the server ends was sent every event that was recorded when it subscribed and that is
\* newer than the id it quoted (the backlog and is_current of subscribe, the route's
\* return on a terminal event).
ReplayReachesTheEnd == \A s \in Connection : conn[s].state = "finished" => owed[s] = {}

\* A connection still attached when its run ends has the end waiting for it, even one
\* that quoted the last id and has nothing to replay (close_channel's sentinel).
Told(s) ==
  \E i \in DOMAIN (conn[s].backlog \o conn[s].queue) :
    (conn[s].backlog \o conn[s].queue)[i].type \in {"run_end", "done"}

RunEnds(t) == channel[t].history # <<>> /\ Last(channel[t].history).type = "run_end"

EndReachesEveryStream ==
  \A s \in Connection :
    (Registered(s) /\ RunEnds(conn[s].run)) ~> (~Attached(s) \/ Told(s))
=============================================================================
