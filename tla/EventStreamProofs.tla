-------------------------- MODULE EventStreamProofs --------------------------
(***************************************************************************)
(* Types of the event bus: what the registry, the queues and the loop      *)
(* hold, and that a channel's history, a subscriber's queue and the        *)
(* registry stay within their bounds through every step of requests,       *)
(* passes, callbacks and connections. EventOrderProofs builds on it.       *)
(***************************************************************************)
EXTENDS EventStream, FiniteSetTheorems, SelectionFacts

\* What call_soon_threadsafe is handed: whom to deliver to, and what.
Mail == Connection \X Item

ConnState == {"idle", "connecting", "attached", "answered", "finished", "left"}

HandlerRec == [pc : HandlerPC, run : Run \cup {"none"}, posted : BOOLEAN, left : 0..MaxProgress,
               out : Seq(Mail)]

ChannelRec == [open : BOOLEAN, seq : Nat, history : Seq(Event), subscribers : Seq(Connection)]

ConnRec == [state : ConnState, run : Run \cup {"none"}, last_event_id : Int,
            backlog : Seq(Event), queue : Seq(Item), dropped : BOOLEAN]

\* A handler that has left its start works on a run.
HandlersTyped ==
  /\ handler \in [Handler -> HandlerRec]
  /\ \A h \in Handler : handler[h].pc # "idle" => handler[h].run \in Run

\* What the registry is: typed channels, at most MaxChannels of them open.
RegistryTyped(registry) ==
  /\ registry \in [Run -> ChannelRec]
  /\ \A t \in Run : Len(registry[t].history) <= MaxHistory
  /\ IsFiniteSet(OpenRuns(registry)) /\ Cardinality(OpenRuns(registry)) <= MaxChannels

\* A connection past its start follows a run, and its containers keep their bounds.
ConnOK(c) ==
  /\ c \in ConnRec
  /\ c.state # "idle" => c.run \in Run
  /\ Len(c.backlog) <= MaxHistory
  /\ Len(c.queue) <= MaxQueue

ConnsTyped == conn = [s \in Connection |-> conn[s]] /\ \A s \in Connection : ConnOK(conn[s])

\* The inductive form of TypeOK: as records, with finite registries and runs that exist.
TypeInv ==
  /\ phase \in [Run -> Phase]
  /\ holder \in [Run -> Handler \cup {NoHandler}]
  /\ HandlersTyped
  /\ RegistryTyped(channel)
  /\ callbacks \in Seq(Mail)
  /\ ConnsTyped
  /\ seen \in [Connection -> Int]
  /\ evicted \in [Connection -> BOOLEAN]
  /\ owed \in [Connection -> SUBSET Nat]

\* The inductive form implies the type invariant the runs check.
LEMMA TypeInvIsTypeOK == TypeInv => TypeOK
<1> SUFFICES ASSUME TypeInv PROVE TypeOK
  OBVIOUS
<1>1. \A h \in Handler : /\ handler[h].pc \in HandlerPC
                         /\ handler[h].run \in Run \cup {"none"}
                         /\ handler[h].posted \in BOOLEAN
                         /\ handler[h].left \in 0..MaxProgress
                         /\ handler[h].out \in Seq(Connection \X Item)
  BY DEF TypeInv, HandlersTyped, HandlerRec, Mail
<1>2. \A t \in Run : /\ channel[t].open \in BOOLEAN
                     /\ channel[t].seq \in Nat
                     /\ channel[t].history \in Seq(Event) /\ Len(channel[t].history) <= MaxHistory
                     /\ channel[t].subscribers \in Seq(Connection)
  BY DEF TypeInv, RegistryTyped, ChannelRec
<1>3. \A s \in Connection :
       /\ conn[s].state \in {"idle", "connecting", "attached", "answered", "finished", "left"}
       /\ conn[s].run \in Run \cup {"none"}
       /\ conn[s].last_event_id \in Int
       /\ conn[s].backlog \in Seq(Event) /\ Len(conn[s].backlog) <= MaxHistory
       /\ conn[s].queue \in Seq(Item) /\ Len(conn[s].queue) <= MaxQueue
       /\ conn[s].dropped \in BOOLEAN
  BY DEF TypeInv, ConnsTyped, ConnOK, ConnRec, ConnState
<1>4. QED
  BY <1>1, <1>2, <1>3 DEF TypeInv, RegistryTyped, TypeOK, Mail

-----------------------------------------------------------------------------
(* The containers of the bus *)

\* Events, overflow markers and the sentinel are told apart by their type.
LEMMA ItemKinds ==
  /\ Event \subseteq Item /\ Done \in Item /\ Done \notin Event
  /\ \A n \in Nat : [type |-> "overflow", seq |-> n] \in Item \ Event
  /\ \A e \in Event : e.seq \in Nat /\ e.type \in EventType /\ e # Done
  /\ \A x \in Item : x \in Event <=> IsEvent(x)
BY DEF Event, Overflow, Done, Item, IsEvent, EventType, TerminalTypes

\* Recording an event keeps a channel a channel, and its history within bounds.
LEMMA RecordedType ==
  ASSUME NEW ch \in ChannelRec, Len(ch.history) <= MaxHistory, NEW type \in EventType
  PROVE  /\ NextEvent(ch, type) \in Event
         /\ Recorded(ch, type) \in ChannelRec
         /\ Len(Recorded(ch, type).history) <= MaxHistory
         /\ Recorded(ch, type).open = ch.open
         /\ Recorded(ch, type).seq = ch.seq + 1
         /\ Recorded(ch, type).subscribers = ch.subscribers
         /\ Recorded(ch, type).history = AppendBounded(ch.history, NextEvent(ch, type), MaxHistory)
<1> DEFINE e == NextEvent(ch, type)
           r == Recorded(ch, type)
           h == AppendBounded(ch.history, e, MaxHistory)
<1>1. /\ ch.seq \in Nat /\ ch.history \in Seq(Event)
      /\ ch.open \in BOOLEAN /\ ch.subscribers \in Seq(Connection)
  BY DEF ChannelRec
<1>2. e \in Event
  BY <1>1 DEF NextEvent, Event
<1>3. h \in Seq(Event) /\ Len(h) <= MaxHistory
  <2> HIDE DEF e
  <2>1. MaxHistory \in Nat \ {0}
    BY SizesAssumption
  <2>2. CASE Len(ch.history) < MaxHistory
    BY <1>1, <1>2, <2>1, <2>2, AppendProperties DEF AppendBounded
  <2>3. CASE ~(Len(ch.history) < MaxHistory)
    <3>1. ch.history # <<>>
      BY <1>1, <2>1, <2>3
    <3>2. Tail(ch.history) \in Seq(Event) /\ Len(Tail(ch.history)) = Len(ch.history) - 1
      BY <1>1, <3>1, HeadTailProperties
    <3>3. QED
      BY <1>1, <1>2, <2>1, <2>3, <3>2, AppendProperties DEF AppendBounded
  <2>4. QED
    BY <2>2, <2>3
<1>4. r = [ch EXCEPT !.seq = ch.seq + 1, !.history = h]
  BY DEF Recorded
<1> HIDE DEF h, r, e
<1>5. /\ r = [open |-> ch.open, seq |-> ch.seq + 1, history |-> h, subscribers |-> ch.subscribers]
  BY <1>4 DEF ChannelRec
<1>6. r.open = ch.open /\ r.seq = ch.seq + 1 /\ r.history = h /\ r.subscribers = ch.subscribers
  BY <1>5
<1>7. ch.seq + 1 \in Nat
  BY <1>1
<1>8. r \in ChannelRec
  BY <1>1, <1>3, <1>5, <1>7 DEF ChannelRec
<1>9. QED
  BY <1>2, <1>3, <1>6, <1>8 DEF h, r, e

\* _put_drop_oldest keeps a queue within its bound.
LEMMA PutDropOldestType ==
  ASSUME NEW q \in Seq(Item), Len(q) <= MaxQueue, NEW item \in Item
  PROVE  PutDropOldest(q, item) \in Seq(Item) /\ Len(PutDropOldest(q, item)) <= MaxQueue
<1>1. MaxQueue \in Nat \ {0}
  BY SizesAssumption
<1>2. CASE Full(q)
  <2>1. q # <<>>
    BY <1>1, <1>2 DEF Full
  <2>2. Tail(q) \in Seq(Item) /\ Len(Tail(q)) = Len(q) - 1
    BY <2>1, HeadTailProperties
  <2>3. QED
    BY <1>1, <1>2, <2>2, AppendProperties DEF PutDropOldest
<1>3. CASE ~Full(q)
  BY <1>1, <1>3, AppendProperties DEF PutDropOldest, Full
<1>4. QED
  BY <1>2, <1>3

\* So does _deliver, marker included.
LEMMA DeliveredType ==
  ASSUME NEW q \in Seq(Item), Len(q) <= MaxQueue, NEW dropped \in BOOLEAN, NEW item \in Item,
         item.seq \in Nat
  PROVE  Delivered(q, dropped, item) \in Seq(Item) /\ Len(Delivered(q, dropped, item)) <= MaxQueue
<1> DEFINE marker == [type |-> "overflow", seq |-> item.seq]
           q1 == IF StartsEpisode(q, dropped) THEN PutDropOldest(q, marker) ELSE q
<1>1. marker \in Item
  BY ItemKinds
<1>2. Delivered(q, dropped, item) = PutDropOldest(q1, item)
  BY DEF Delivered
<1> HIDE DEF marker
<1>3. q1 \in Seq(Item) /\ Len(q1) <= MaxQueue
  BY <1>1, PutDropOldestType
<1> HIDE DEF q1
<1>4. QED
  BY <1>2, <1>3, PutDropOldestType

\* Every item has a number, the sentinel one that nobody reads.
LEMMA ItemSeq == \A item \in Item : item.seq \in Nat
BY DEF Item, Event, Overflow, Done

\* A backlog is a part of the history.
LEMMA BacklogType ==
  ASSUME NEW ch \in ChannelRec, NEW id \in Int
  PROVE  Backlog(ch, id) \in Seq(Event) /\ Len(Backlog(ch, id)) <= Len(ch.history)
<1> DEFINE S == {e \in Event : e.seq > id}
<1>1. ch.history \in Seq(Event)
  BY DEF ChannelRec
<1>2. Selected(ch.history, S) \in Seq(Event \cap S) /\ Len(Selected(ch.history, S)) <= Len(ch.history)
  BY <1>1, SelectedType
<1>3. Event \cap S = S /\ S \subseteq Event
  OBVIOUS
<1> HIDE DEF S
<1>4. Selected(ch.history, S) \in Seq(Event)
  BY <1>2, <1>3, SeqMonotonic
<1>5. QED
  BY <1>2, <1>4 DEF Backlog, S

-----------------------------------------------------------------------------
(* The registry *)

\* The entries of a registry that are no channel, or a new one.
LEMMA NoChannelType ==
  /\ NewChannel \in ChannelRec /\ NoChannel \in ChannelRec
  /\ NewChannel.open /\ ~NoChannel.open
  /\ NewChannel.history = <<>> /\ NoChannel.history = <<>>
  /\ NewChannel.subscribers = <<>> /\ NoChannel.subscribers = <<>>
  /\ NewChannel.seq = 0 /\ NoChannel.seq = 0
<1>1. NewChannel = [open |-> TRUE, seq |-> 0, history |-> <<>>, subscribers |-> <<>>]
  BY DEF NewChannel
<1>2. <<>> \in Seq(Event) /\ <<>> \in Seq(Connection) /\ 0 \in Nat
  OBVIOUS
<1>3. NewChannel \in ChannelRec
  BY <1>1, <1>2 DEF ChannelRec
<1>4. \A ch \in ChannelRec : [ch EXCEPT !.open = FALSE] \in ChannelRec
  BY Zenon DEF ChannelRec
<1>5. NoChannel \in ChannelRec
  BY <1>3, <1>4 DEF NoChannel
<1>6. /\ ~NoChannel.open /\ NoChannel.seq = NewChannel.seq /\ NoChannel.history = NewChannel.history
      /\ NoChannel.subscribers = NewChannel.subscribers
  <2> HIDE DEF NewChannel
  <2>1. QED
    BY <1>3, <1>5 DEF NoChannel, ChannelRec
<1>7. QED
  BY <1>1, <1>3, <1>5, <1>6

\* Changing one channel without opening or lengthening it.
LEMMA ChangedRegistry ==
  ASSUME NEW registry, RegistryTyped(registry), NEW t \in Run, NEW ch \in ChannelRec,
         Len(ch.history) <= MaxHistory, ch.open => registry[t].open
  PROVE  RegistryTyped([registry EXCEPT ![t] = ch])
<1> DEFINE new == [registry EXCEPT ![t] = ch]
<1>1. new \in [Run -> ChannelRec] /\ \A u \in Run : new[u] = IF u = t THEN ch ELSE registry[u]
  BY DEF RegistryTyped
<1> HIDE DEF new
<1>2. \A u \in Run : Len(new[u].history) <= MaxHistory
  BY <1>1 DEF RegistryTyped
<1>3. OpenRuns(new) \subseteq OpenRuns(registry)
  BY <1>1 DEF OpenRuns
<1>4. IsFiniteSet(OpenRuns(new)) /\ Cardinality(OpenRuns(new)) <= Cardinality(OpenRuns(registry))
  BY <1>3, FS_Subset DEF RegistryTyped
<1>5. /\ Cardinality(OpenRuns(new)) \in Nat /\ Cardinality(OpenRuns(registry)) \in Nat
      /\ MaxChannels \in Nat
  BY <1>4, FS_CardinalityType, StreamAssumption DEF RegistryTyped
<1>6. Cardinality(OpenRuns(new)) <= MaxChannels
  BY <1>4, <1>5 DEF RegistryTyped
<1>7. QED
  BY <1>1, <1>2, <1>4, <1>6 DEF RegistryTyped, new

\* sweep_stale only closes channels.
LEMMA SweptRegistry ==
  ASSUME RegistryTyped(channel), NEW stale \in SUBSET Run
  PROVE  RegistryTyped(Swept(stale))
<1>1. /\ Swept(stale) \in [Run -> ChannelRec]
      /\ \A u \in Run : Swept(stale)[u] = IF u \in stale THEN NoChannel ELSE channel[u]
  BY NoChannelType DEF RegistryTyped, Swept
<1>2. \A u \in Run : Len(Swept(stale)[u].history) <= MaxHistory
  <2>1. Len(<<>>) <= MaxHistory
    BY SizesAssumption
  <2>2. QED
    BY <1>1, <2>1, NoChannelType DEF RegistryTyped
<1>3. OpenRuns(Swept(stale)) \subseteq OpenRuns(channel)
  BY <1>1, NoChannelType DEF OpenRuns
<1>4. IsFiniteSet(OpenRuns(Swept(stale)))
      /\ Cardinality(OpenRuns(Swept(stale))) <= Cardinality(OpenRuns(channel))
  BY <1>3, FS_Subset DEF RegistryTyped
<1>5. Cardinality(OpenRuns(Swept(stale))) \in Nat /\ Cardinality(OpenRuns(channel)) \in Nat
      /\ MaxChannels \in Nat
  BY <1>4, FS_CardinalityType, StreamAssumption DEF RegistryTyped
<1>6. Cardinality(OpenRuns(Swept(stale))) <= MaxChannels
  BY <1>4, <1>5 DEF RegistryTyped
<1>7. QED
  BY <1>1, <1>2, <1>4, <1>6 DEF RegistryTyped

\* open_channel keeps the registry within MaxChannels.
LEMMA OpenedRegistry ==
  ASSUME NEW registry, RegistryTyped(registry), NEW t \in Run
  PROVE  RegistryTyped(Opened(registry, t))
<1>1. CASE registry[t].open \/ ~HasRoom(registry, t)
  BY <1>1 DEF Opened
<1>2. CASE ~registry[t].open /\ HasRoom(registry, t)
  <2> DEFINE new == [registry EXCEPT ![t] = NewChannel]
  <2>1. Opened(registry, t) = new
    BY <1>2 DEF Opened
  <2>2. /\ new \in [Run -> ChannelRec]
        /\ \A u \in Run : new[u] = IF u = t THEN NewChannel ELSE registry[u]
    BY NoChannelType DEF RegistryTyped
  <2> HIDE DEF new
  <2>3. \A u \in Run : Len(new[u].history) <= MaxHistory
    <3>1. Len(<<>>) <= MaxHistory
      BY SizesAssumption
    <3>2. QED
      BY <2>2, <3>1, NoChannelType DEF RegistryTyped
  <2>4. OpenRuns(new) = OpenRuns(registry) \cup {t} /\ t \notin OpenRuns(registry)
    BY <1>2, <2>2, NoChannelType DEF OpenRuns
  <2>5. /\ IsFiniteSet(OpenRuns(new))
        /\ Cardinality(OpenRuns(new)) = Cardinality(OpenRuns(registry)) + 1
    BY <2>4, FS_AddElement DEF RegistryTyped
  <2>6. Cardinality(OpenRuns(registry)) \in Nat /\ MaxChannels \in Nat
    BY FS_CardinalityType, StreamAssumption DEF RegistryTyped
  <2>7. Cardinality(OpenRuns(registry)) < MaxChannels
    BY <1>2 DEF HasRoom
  <2>8. QED
    BY <2>1, <2>2, <2>3, <2>5, <2>6, <2>7 DEF RegistryTyped
<1>3. QED
  BY <1>1, <1>2

\* What a registry holds for one run.
LEMMA RegistryOf ==
  ASSUME RegistryTyped(channel), NEW t \in Run
  PROVE  /\ channel[t] \in ChannelRec /\ Len(channel[t].history) <= MaxHistory
         /\ channel[t].seq \in Nat /\ channel[t].open \in BOOLEAN
         /\ channel[t].history \in Seq(Event) /\ channel[t].subscribers \in Seq(Connection)
BY DEF RegistryTyped, ChannelRec

\* Changing the list of subscribers alone.
LEMMA SubscribersType ==
  ASSUME NEW ch \in ChannelRec, NEW subs \in Seq(Connection)
  PROVE  /\ [ch EXCEPT !.subscribers = subs] \in ChannelRec
         /\ [ch EXCEPT !.subscribers = subs].open = ch.open
         /\ [ch EXCEPT !.subscribers = subs].seq = ch.seq
         /\ [ch EXCEPT !.subscribers = subs].history = ch.history
         /\ [ch EXCEPT !.subscribers = subs].subscribers = subs
<1>1. [ch EXCEPT !.subscribers = subs] \in ChannelRec
  BY Zenon DEF ChannelRec
<1>2. QED
  BY <1>1 DEF ChannelRec

-----------------------------------------------------------------------------
(* Handlers and connections *)

\* Changing the fields of a handler.
LEMMA HandlerUpdates ==
  ASSUME NEW r \in HandlerRec
  PROVE  /\ \A pc \in HandlerPC : [r EXCEPT !.pc = pc] \in HandlerRec
         /\ \A t \in Run, pc \in HandlerPC : [r EXCEPT !.run = t, !.pc = pc] \in HandlerRec
         /\ \A p \in BOOLEAN, pc \in HandlerPC : [r EXCEPT !.posted = p, !.pc = pc] \in HandlerRec
         /\ \A pc \in HandlerPC, n \in 0..MaxProgress : [r EXCEPT !.pc = pc, !.left = n] \in HandlerRec
         /\ \A n \in 0..MaxProgress : [r EXCEPT !.left = n] \in HandlerRec
         /\ \A out \in Seq(Mail) : [r EXCEPT !.out = out] \in HandlerRec
         /\ \A pc \in HandlerPC, out \in Seq(Mail) : [r EXCEPT !.pc = pc, !.out = out] \in HandlerRec
<1>1. \A pc \in HandlerPC : [r EXCEPT !.pc = pc] \in HandlerRec
  BY Zenon DEF HandlerRec
<1>2. \A t \in Run : [r EXCEPT !.run = t] \in HandlerRec
  BY Zenon DEF HandlerRec
<1>3. \A n \in 0..MaxProgress : [r EXCEPT !.left = n] \in HandlerRec
  BY Zenon DEF HandlerRec
<1>4. \A out \in Seq(Mail) : [r EXCEPT !.out = out] \in HandlerRec
  BY Zenon DEF HandlerRec
<1>5. \A t \in Run, pc \in HandlerPC : [r EXCEPT !.run = t, !.pc = pc] \in HandlerRec
  BY Zenon DEF HandlerRec
<1>6. \A pc \in HandlerPC, n \in 0..MaxProgress : [r EXCEPT !.pc = pc, !.left = n] \in HandlerRec
  BY Zenon DEF HandlerRec
<1>7. \A pc \in HandlerPC, out \in Seq(Mail) : [r EXCEPT !.pc = pc, !.out = out] \in HandlerRec
  BY Zenon DEF HandlerRec
<1>8. \A p \in BOOLEAN, pc \in HandlerPC : [r EXCEPT !.posted = p, !.pc = pc] \in HandlerRec
  BY Zenon DEF HandlerRec
<1>9. QED
  BY <1>1, <1>3, <1>4, <1>5, <1>6, <1>7, <1>8

\* A handler that is replaced by a typed one.
LEMMA HandlerSet ==
  ASSUME HandlersTyped, NEW h \in Handler, NEW r \in HandlerRec,
         r.pc # "idle" => r.run \in Run, handler' = [handler EXCEPT ![h] = r]
  PROVE  HandlersTyped'
BY DEF HandlersTyped

\* A handler that goes to another label.
LEMMA HandlerGoes ==
  ASSUME HandlersTyped, NEW h \in Handler, NEW label \in HandlerPC, handler[h].pc # "idle",
         GoTo(h, label)
  PROVE  HandlersTyped'
<1> DEFINE r == [handler[h] EXCEPT !.pc = label]
<1>1. handler[h] \in HandlerRec /\ handler[h].run \in Run
  BY DEF HandlersTyped
<1>2. r \in HandlerRec /\ r.run \in Run
  BY <1>1, HandlerUpdates DEF HandlerRec
<1>3. handler' = [handler EXCEPT ![h] = r]
  BY DEF GoTo
<1> HIDE DEF r
<1>4. QED
  BY <1>2, <1>3, HandlerSet

\* A handler that starts to work on a run.
LEMMA HandlerStarts ==
  ASSUME HandlersTyped, NEW h \in Handler, NEW t \in Run, NEW label \in HandlerPC,
         WorkOn(h, t, label)
  PROVE  HandlersTyped'
<1> DEFINE r == [handler[h] EXCEPT !.run = t, !.pc = label]
<1>1. handler[h] \in HandlerRec
  BY DEF HandlersTyped
<1>2. r \in HandlerRec /\ r.run = t
  BY <1>1, HandlerUpdates DEF HandlerRec
<1>3. handler' = [handler EXCEPT ![h] = r]
  BY DEF WorkOn
<1> HIDE DEF r
<1>4. QED
  BY <1>2, <1>3, HandlerSet

\* A connection that is replaced by a typed one.
LEMMA ConnSet ==
  ASSUME ConnsTyped, NEW s \in Connection, NEW c, ConnOK(c), conn' = [conn EXCEPT ![s] = c]
  PROVE  ConnsTyped'
<1>1. \A r \in Connection : conn'[r] = IF r = s THEN c ELSE conn[r]
  BY DEF ConnsTyped
<1>2. conn' = [r \in Connection |-> conn'[r]]
  BY DEF ConnsTyped
<1>3. QED
  BY <1>1, <1>2 DEF ConnsTyped

\* publish() and close_channel() hand over mail.
LEMMA AnnouncedType ==
  ASSUME NEW ch \in ChannelRec, NEW type \in EventType
  PROVE  Announced(ch, type) \in Seq(Mail) /\ Farewell(ch) \in Seq(Mail)
<1>1. NextEvent(ch, type) \in Item /\ Done \in Item
  BY ItemKinds DEF NextEvent, Event, ChannelRec
<1>2. ch.subscribers \in Seq(Connection)
  BY DEF ChannelRec
<1> DEFINE e == NextEvent(ch, type)
           subs == ch.subscribers
<1> HIDE DEF e, subs
<1>3. \A x \in Item : [i \in DOMAIN subs |-> <<subs[i], x>>] \in Seq(Mail)
  BY <1>2 DEF Mail, subs
<1>4. QED
  BY <1>1, <1>3 DEF Announced, Farewell, e, subs

\* publish() keeps the types.
LEMMA PublishTyped ==
  ASSUME TypeInv, NEW h \in Handler, handler[h].pc # "idle", NEW type \in EventType,
         NEW updated \in HandlerRec, updated.pc # "idle", updated.run \in Run,
         Publish(h, type, updated)
  PROVE  TypeInv'
<1> DEFINE t == RunOf(h)
           r == [updated EXCEPT !.out = Announced(channel[t], type)]
           ch == IF channel[t].open THEN Recorded(channel[t], type) ELSE channel[t]
<1>1. t \in Run
  BY DEF TypeInv, HandlersTyped, RunOf
<1>2. channel[t] \in ChannelRec /\ Len(channel[t].history) <= MaxHistory
  BY <1>1, RegistryOf DEF TypeInv
<1>3. ch \in ChannelRec /\ Len(ch.history) <= MaxHistory /\ ch.open = channel[t].open
  BY <1>2, RecordedType
<1>4. r \in HandlerRec /\ r.pc = updated.pc /\ r.run = updated.run
  BY <1>2, AnnouncedType, HandlerUpdates DEF HandlerRec
<1>5. channel' = [channel EXCEPT ![t] = ch] /\ handler' = [handler EXCEPT ![h] = r]
  BY <1>1 DEF Publish, TypeInv, RegistryTyped
<1> HIDE DEF t, r, ch
<1>6. HandlersTyped'
  BY <1>4, <1>5, HandlerSet DEF TypeInv
<1>7. RegistryTyped(channel)'
  BY <1>1, <1>3, <1>5, ChangedRegistry DEF TypeInv
<1>8. UNCHANGED <<phase, holder, callbacks, conn, seen, evicted, owed>>
  BY DEF Publish, service, history
<1>9. QED
  BY <1>6, <1>7, <1>8 DEF TypeInv, ConnsTyped

-----------------------------------------------------------------------------
(* Types *)

\* The steps of a request up to the lock keep the types,
LEMMA RequestTyped ==
  ASSUME TypeInv, NEW h \in Handler, NEW t \in Run,
         Reserve(h, t) \/ PostFresh(h, t) \/ Resume(h, t) \/ Post(h) \/ OpenChannel(h) \/ Refuse(h)
  PROVE  TypeInv'
<1> USE DEF service, history
<1>0. \A label \in {"reserved", "lock", "done", "open"} : label \in HandlerPC
  BY DEF HandlerPC
<1>1. CASE Reserve(h, t)
  <2>1. PICK stale \in SUBSET {u \in Run : Stale(u)} :
          /\ channel' = Opened(Swept(stale), t)
          /\ WorkOn(h, t, IF HasRoom(Swept(stale), t) THEN "reserved" ELSE "done")
    BY <1>1 DEF Reserve
  <2>2. RegistryTyped(channel)'
    BY <2>1, SweptRegistry, OpenedRegistry DEF TypeInv
  <2>3. HandlersTyped'
    BY <1>0, <2>1, HandlerStarts DEF TypeInv
  <2>4. QED
    BY <1>1, <2>2, <2>3 DEF Reserve, TypeInv, ConnsTyped
<1>2. CASE PostFresh(h, t)
  <2>1. HandlersTyped'
    BY <1>0, <1>2, HandlerStarts DEF TypeInv, PostFresh
  <2>2. QED
    BY <1>2, <2>1 DEF PostFresh, TypeInv, ConnsTyped, RegistryTyped, OpenRuns
<1>3. CASE Resume(h, t)
  <2>1. HandlersTyped'
    BY <1>0, <1>3, HandlerStarts DEF TypeInv, Resume
  <2>2. QED
    BY <1>3, <2>1 DEF Resume, TypeInv, ConnsTyped, RegistryTyped, OpenRuns
<1>4. CASE Post(h)
  <2> DEFINE pc == IF channel[RunOf(h)].open THEN "lock" ELSE "done"
             r == [handler[h] EXCEPT !.posted = TRUE, !.pc = pc]
  <2>1. handler[h] \in HandlerRec /\ handler[h].run \in Run /\ pc \in HandlerPC
    BY <1>0, <1>4 DEF Post, TypeInv, HandlersTyped
  <2>2. handler' = [handler EXCEPT ![h] = r]
    BY <1>4 DEF Post
  <2> HIDE DEF pc
  <2>3. r \in HandlerRec
    BY <2>1, HandlerUpdates
  <2>4. r.run = handler[h].run
    BY <2>1, <2>3 DEF HandlerRec
  <2> HIDE DEF r
  <2>5. HandlersTyped'
    BY <2>1, <2>2, <2>3, <2>4, HandlerSet DEF TypeInv
  <2>6. QED
    BY <1>4, <2>5 DEF Post, TypeInv, ConnsTyped, RegistryTyped, OpenRuns
<1>5. CASE OpenChannel(h)
  <2>1. PICK stale \in SUBSET {u \in Run : Stale(u)} : channel' = Opened(Swept(stale), RunOf(h))
    BY <1>5 DEF OpenChannel
  <2>2. RunOf(h) \in Run
    BY <1>5 DEF OpenChannel, TypeInv, HandlersTyped, RunOf
  <2>3. RegistryTyped(channel)'
    BY <2>1, <2>2, SweptRegistry, OpenedRegistry DEF TypeInv
  <2>4. HandlersTyped'
    BY <1>0, <1>5, HandlerGoes DEF TypeInv, OpenChannel
  <2>5. QED
    BY <1>5, <2>3, <2>4 DEF OpenChannel, TypeInv, ConnsTyped
<1>6. CASE Refuse(h)
  <2>1. HandlersTyped'
    BY <1>0, <1>6, HandlerGoes DEF TypeInv, Refuse
  <2>2. QED
    BY <1>6, <2>1 DEF Refuse, TypeInv, ConnsTyped, RegistryTyped, OpenRuns
<1>7. QED
  BY <1>1, <1>2, <1>3, <1>4, <1>5, <1>6

\* those of a pass do,
LEMMA PassTyped ==
  ASSUME TypeInv, NEW h \in Handler, Pass(h)
  PROVE  TypeInv'
<1> USE DEF service, history
<1>0. \A label \in {"running", "settled", "close", "unlock", "done"} : label \in HandlerPC
  BY DEF HandlerPC
<1>h. handler[h] \in HandlerRec /\ handler[h].out \in Seq(Mail) /\ handler[h].left \in 0..MaxProgress
  BY DEF TypeInv, HandlersTyped, HandlerRec
<1>r. handler[h].pc # "idle" => handler[h].run \in Run
  BY DEF TypeInv, HandlersTyped
<1>1. CASE Enter(h)
  <2> DEFINE r == [handler[h] EXCEPT !.pc = "running", !.left = MaxProgress]
  <2>1. MaxProgress \in 0..MaxProgress
    BY StreamAssumption
  <2>2. r \in HandlerRec /\ r.run = handler[h].run
    BY <1>0, <1>h, <2>1, HandlerUpdates DEF HandlerRec
  <2>3. handler' = [handler EXCEPT ![h] = r]
    BY <1>1 DEF Enter
  <2> HIDE DEF r
  <2>4. HandlersTyped'
    BY <1>1, <1>r, <2>2, <2>3, HandlerSet DEF TypeInv, Enter
  <2>5. phase' \in [Run -> Phase] /\ holder' \in [Run -> Handler \cup {NoHandler}]
    BY <1>1 DEF Enter, TypeInv, Phase
  <2>6. QED
    BY <1>1, <2>4, <2>5 DEF Enter, TypeInv, ConnsTyped, RegistryTyped, OpenRuns
<1>2. CASE Progress(h)
  <2> DEFINE r == [handler[h] EXCEPT !.left = handler[h].left - 1]
  <2>1. handler[h].left - 1 \in 0..MaxProgress
    BY <1>2, <1>h, StreamAssumption DEF Progress
  <2>2. r \in HandlerRec /\ r.pc = handler[h].pc /\ r.run = handler[h].run
    BY <1>h, <2>1, HandlerUpdates DEF HandlerRec
  <2>3. Publish(h, "progress", r) /\ "progress" \in EventType
    BY <1>2 DEF Progress, EventType
  <2> HIDE DEF r
  <2>4. QED
    BY <1>2, <1>r, <2>2, <2>3, PublishTyped DEF Progress
<1>3. CASE Settle(h)
  <2>1. HandlersTyped'
    BY <1>0, <1>3, HandlerGoes DEF TypeInv, Settle
  <2>2. phase' \in [Run -> Phase]
    BY <1>3 DEF Settle, TypeInv, Phase
  <2>3. QED
    BY <1>3, <2>1, <2>2 DEF Settle, TypeInv, ConnsTyped, RegistryTyped, OpenRuns
<1>4. CASE HandOver(h)
  <2> DEFINE r == [handler[h] EXCEPT !.out = Tail(handler[h].out)]
  <2>1. Tail(handler[h].out) \in Seq(Mail) /\ Head(handler[h].out) \in Mail
    BY <1>4, <1>h, HeadTailProperties DEF HandOver
  <2>2. r \in HandlerRec /\ r.pc = handler[h].pc /\ r.run = handler[h].run
    BY <1>h, <2>1, HandlerUpdates DEF HandlerRec
  <2>3. handler' = [handler EXCEPT ![h] = r]
    BY <1>4 DEF HandOver
  <2> HIDE DEF r
  <2>4. HandlersTyped'
    BY <1>r, <2>2, <2>3, HandlerSet DEF TypeInv
  <2>5. callbacks' \in Seq(Mail)
    BY <1>4, <2>1, AppendProperties DEF HandOver, TypeInv
  <2>6. QED
    BY <1>4, <2>4, <2>5 DEF HandOver, TypeInv, ConnsTyped, RegistryTyped, OpenRuns
<1>5. CASE PublishRunEnd(h)
  <2>1. PICK type \in {"interrupted", "run_end"}, pc \in {"unlock", "close"} :
          Publish(h, type, [handler[h] EXCEPT !.pc = pc])
    <3>1. CASE phase[RunOf(h)] = "needs_review"
      <4>1. Publish(h, "interrupted", [handler[h] EXCEPT !.pc = "unlock"])
        BY <1>5, <3>1 DEF PublishRunEnd
      <4>2. QED
        BY <4>1
    <3>2. CASE phase[RunOf(h)] # "needs_review"
      <4>1. Publish(h, "run_end", [handler[h] EXCEPT !.pc = "close"])
        BY <1>5, <3>2 DEF PublishRunEnd
      <4>2. QED
        BY <4>1
    <3>3. QED
      BY <3>1, <3>2
  <2> DEFINE r == [handler[h] EXCEPT !.pc = pc]
  <2>2. r \in HandlerRec /\ r.pc = pc /\ r.run = handler[h].run
    <3>1. pc \in HandlerPC
      BY <1>0
    <3>2. r \in HandlerRec
      BY <1>h, <3>1, HandlerUpdates
    <3>3. QED
      BY <1>h, <3>2 DEF HandlerRec
  <2>3. Publish(h, type, r) /\ type \in EventType /\ pc # "idle"
    BY <2>1 DEF EventType, TerminalTypes
  <2> HIDE DEF r
  <2>4. QED
    BY <1>5, <1>r, <2>2, <2>3, PublishTyped DEF PublishRunEnd
<1>6. CASE PublishSwallowed(h)
  <2>1. HandlersTyped'
    BY <1>0, <1>6, HandlerGoes DEF TypeInv, PublishSwallowed
  <2>2. QED
    BY <1>6, <2>1 DEF PublishSwallowed, TypeInv, ConnsTyped, RegistryTyped, OpenRuns
<1>7. CASE CloseChannel(h)
  <2> DEFINE t == RunOf(h)
             r == [handler[h] EXCEPT !.pc = "unlock", !.out = Farewell(channel[t])]
  <2>1. t \in Run
    BY <1>7, <1>r DEF CloseChannel, RunOf
  <2>2. Farewell(channel[t]) \in Seq(Mail)
    BY <2>1, RegistryOf, AnnouncedType DEF TypeInv, EventType
  <2>3. r \in HandlerRec /\ r.run = handler[h].run
    BY <1>0, <1>h, <2>2, HandlerUpdates DEF HandlerRec
  <2>4. handler' = [handler EXCEPT ![h] = r] /\ channel' = [channel EXCEPT ![t] = NoChannel]
    BY <1>7 DEF CloseChannel
  <2> HIDE DEF r, t
  <2>5. HandlersTyped'
    BY <1>7, <1>r, <2>3, <2>4, HandlerSet DEF TypeInv, CloseChannel
  <2>6. Len(<<>>) <= MaxHistory
    BY SizesAssumption
  <2>7. RegistryTyped(channel)'
    BY <2>1, <2>4, <2>6, NoChannelType, ChangedRegistry DEF TypeInv
  <2>8. QED
    BY <1>7, <2>5, <2>7 DEF CloseChannel, TypeInv, ConnsTyped
<1>8. CASE Unlock(h)
  <2>1. HandlersTyped'
    BY <1>0, <1>8, HandlerGoes DEF TypeInv, Unlock
  <2>2. holder' \in [Run -> Handler \cup {NoHandler}]
    BY <1>8 DEF Unlock, TypeInv
  <2>3. QED
    BY <1>8, <2>1, <2>2 DEF Unlock, TypeInv, ConnsTyped, RegistryTyped, OpenRuns
<1>9. QED
  BY <1>1, <1>2, <1>3, <1>4, <1>5, <1>6, <1>7, <1>8 DEF Pass

\* Changing the fields of a connection.
LEMMA ConnUpdates ==
  ASSUME NEW c \in ConnRec
  PROVE  /\ \A state \in ConnState : [c EXCEPT !.state = state] \in ConnRec
         /\ \A t \in Run, id \in Int, state \in ConnState :
              [c EXCEPT !.run = t, !.last_event_id = id, !.state = state] \in ConnRec
         /\ \A state \in ConnState, backlog \in Seq(Event) :
              [c EXCEPT !.state = state, !.backlog = backlog] \in ConnRec
         /\ \A backlog \in Seq(Event) : [c EXCEPT !.backlog = backlog] \in ConnRec
         /\ \A queue \in Seq(Item) : [c EXCEPT !.queue = queue] \in ConnRec
         /\ \A queue \in Seq(Item), dropped \in BOOLEAN :
              [c EXCEPT !.queue = queue, !.dropped = dropped] \in ConnRec
         /\ \A state \in ConnState, t \in Run \cup {"none"} :
              [c EXCEPT !.state = state, !.run = t] \in ConnRec
<1>1. \A state \in ConnState : [c EXCEPT !.state = state] \in ConnRec
  BY Zenon DEF ConnRec
<1>2. \A t \in Run, id \in Int, state \in ConnState :
        [c EXCEPT !.run = t, !.last_event_id = id, !.state = state] \in ConnRec
  BY Zenon DEF ConnRec
<1>3. \A state \in ConnState, backlog \in Seq(Event) :
        [c EXCEPT !.state = state, !.backlog = backlog] \in ConnRec
  BY Zenon DEF ConnRec
<1>4. \A backlog \in Seq(Event) : [c EXCEPT !.backlog = backlog] \in ConnRec
  BY Zenon DEF ConnRec
<1>5. \A queue \in Seq(Item) : [c EXCEPT !.queue = queue] \in ConnRec
  BY Zenon DEF ConnRec
<1>6. \A queue \in Seq(Item), dropped \in BOOLEAN :
        [c EXCEPT !.queue = queue, !.dropped = dropped] \in ConnRec
  BY Zenon DEF ConnRec
<1>7. \A state \in ConnState, t \in Run \cup {"none"} :
        [c EXCEPT !.state = state, !.run = t] \in ConnRec
  BY Zenon DEF ConnRec
<1>8. QED
  BY <1>1, <1>2, <1>3, <1>4, <1>5, <1>6, <1>7

\* What is left of a connection that is over.
LEMMA NoConnType ==
  /\ NoConn \in ConnRec /\ NoConn.state = "idle" /\ NoConn.run = "none" /\ NoConn.queue = <<>>
  /\ NoConn.backlog = <<>>
BY DEF NoConn, ConnRec, ConnState

\* subscribe's finally keeps the types, and gives the connection its last state.
LEMMA DetachType ==
  ASSUME TypeInv, NEW s \in Connection, conn[s].state # "idle", NEW state \in ConnState,
         Detach(s, state)
  PROVE  /\ ConnsTyped' /\ RegistryTyped(channel)'
         /\ conn'[s].state = state /\ conn'[s].run = conn[s].run
         /\ \A r \in Connection : r # s => conn'[r] = conn[r]
<1> DEFINE c == [NoConn EXCEPT !.state = state, !.run = conn[s].run]
           t == conn[s].run
           subs == Selected(channel[t].subscribers, Connection \ {s})
           ch == [channel[t] EXCEPT !.subscribers = subs]
<1>1. t \in Run
  BY DEF TypeInv, ConnsTyped, ConnOK
<1>2. c \in ConnRec /\ c.state = state /\ c.run = t /\ c.queue = <<>> /\ c.backlog = <<>>
  BY <1>1, NoConnType, ConnUpdates DEF ConnRec
<1>3. Len(<<>>) <= MaxHistory /\ Len(<<>>) <= MaxQueue
  BY SizesAssumption
<1>4. ConnOK(c)
  BY <1>1, <1>2, <1>3 DEF ConnOK
<1>5. channel[t] \in ChannelRec /\ Len(channel[t].history) <= MaxHistory
  BY <1>1, RegistryOf DEF TypeInv
<1>6. subs \in Seq(Connection \cap (Connection \ {s}))
  BY <1>1, RegistryOf, SelectedType DEF TypeInv
<1>7. subs \in Seq(Connection)
  BY <1>6, SeqMonotonic
<1>8. ch \in ChannelRec /\ ch.open = channel[t].open /\ ch.history = channel[t].history
  <2> HIDE DEF t, subs
  <2>1. QED
    BY <1>5, <1>7, SubscribersType
<1>9. conn' = [conn EXCEPT ![s] = c] /\ channel' = [channel EXCEPT ![t] = ch]
  BY <1>1 DEF Detach, TypeInv, RegistryTyped
<1> HIDE DEF c, ch, subs
<1>10. ConnsTyped'
  BY <1>4, <1>9, ConnSet DEF TypeInv
<1>11. RegistryTyped(channel)'
  BY <1>1, <1>5, <1>8, <1>9, ChangedRegistry DEF TypeInv
<1>12. \A r \in Connection : conn'[r] = IF r = s THEN c ELSE conn[r]
  BY <1>9 DEF TypeInv, ConnsTyped
<1>13. QED
  BY <1>2, <1>10, <1>11, <1>12

\* A callback of the loop keeps the types,
LEMMA LoopTyped ==
  ASSUME TypeInv, RunCallback
  PROVE  TypeInv'
<1> DEFINE s == Head(callbacks)[1]
           item == Head(callbacks)[2]
           c == conn[s]
           new == IF item = Done
                  THEN [c EXCEPT !.queue = PutDropOldest(c.queue, Done)]
                  ELSE [c EXCEPT !.queue = Delivered(c.queue, c.dropped, item),
                                 !.dropped = Full(c.queue)]
<1>1. Head(callbacks) \in Mail /\ Tail(callbacks) \in Seq(Mail)
  BY HeadTailProperties DEF TypeInv, RunCallback
<1>2. s \in Connection /\ item \in Item /\ item.seq \in Nat
  BY <1>1, ItemSeq DEF Mail
<1>3. ConnOK(c) /\ c \in ConnRec
  BY <1>2 DEF TypeInv, ConnsTyped, ConnOK
<1>4. c.queue \in Seq(Item) /\ Len(c.queue) <= MaxQueue /\ c.dropped \in BOOLEAN
  BY <1>3 DEF ConnOK, ConnRec
<1>5. callbacks' = Tail(callbacks) /\ UNCHANGED <<service, handler, channel, seen, owed>>
  BY DEF RunCallback
<1>6. CASE c.state = "attached"
  <2>1. conn' = [conn EXCEPT ![s] = new] /\ evicted' = [evicted EXCEPT ![s] = @ \/ Full(c.queue)]
    BY <1>6 DEF RunCallback
  <2>2. PutDropOldest(c.queue, Done) \in Seq(Item) /\ Len(PutDropOldest(c.queue, Done)) <= MaxQueue
    BY <1>4, ItemKinds, PutDropOldestType
  <2>3. /\ Delivered(c.queue, c.dropped, item) \in Seq(Item)
        /\ Len(Delivered(c.queue, c.dropped, item)) <= MaxQueue
    BY <1>2, <1>4, DeliveredType
  <2>4. Full(c.queue) \in BOOLEAN
    BY DEF Full
  <2>5. new \in ConnRec
    <3> HIDE DEF item, s
    <3>1. \A queue \in Seq(Item), dropped \in BOOLEAN :
             [c EXCEPT !.queue = queue, !.dropped = dropped] \in ConnRec
      BY <1>3, ConnUpdates
    <3>2. \A queue \in Seq(Item) : [c EXCEPT !.queue = queue] \in ConnRec
      BY <1>3, ConnUpdates
    <3>3. QED
      BY <2>2, <2>3, <2>4, <3>1, <3>2
  <2>6. Len(new.queue) <= MaxQueue /\ new.backlog = c.backlog /\ new.state = c.state /\ new.run = c.run
    <3> HIDE DEF item, s
    <3>1. CASE item = Done
      <4>1. new = [c EXCEPT !.queue = PutDropOldest(c.queue, Done)]
        BY <3>1
      <4>2. QED
        BY <1>3, <2>2, <2>5, <4>1 DEF ConnRec
    <3>2. CASE item # Done
      <4>1. new = [c EXCEPT !.queue = Delivered(c.queue, c.dropped, item), !.dropped = Full(c.queue)]
        BY <3>2
      <4>2. QED
        BY <1>3, <2>3, <2>5, <4>1 DEF ConnRec
    <3>3. QED
      BY <3>1, <3>2
  <2>7. ConnOK(new)
    <3> HIDE DEF new
    <3>1. QED
      BY <1>3, <2>5, <2>6 DEF ConnOK
  <2> HIDE DEF new, s
  <2>8. ConnsTyped'
    BY <1>2, <2>1, <2>7, ConnSet DEF TypeInv
  <2>9. evicted' \in [Connection -> BOOLEAN]
    BY <1>2, <2>1, <2>4 DEF TypeInv
  <2>10. QED
    BY <1>1, <1>5, <2>8, <2>9 DEF TypeInv, HandlersTyped, RegistryTyped, OpenRuns, service
<1>7. CASE c.state # "attached"
  <2>1. UNCHANGED <<conn, evicted>>
    BY <1>7 DEF RunCallback
  <2> HIDE DEF s, item, c
  <2>2. QED
    BY <1>1, <1>5, <2>1 DEF TypeInv, ConnsTyped, HandlersTyped, RegistryTyped, OpenRuns, service
<1>8. QED
  BY <1>6, <1>7

\* Where a connection starts is a number.
LEMMA StartingPointType ==
  ASSUME NEW ch \in ChannelRec, NEW id \in Int
  PROVE  StartingPoint(ch, id) \in Int
<1>1. ch.seq \in Nat /\ Len(ch.history) \in Nat
  BY DEF ChannelRec
<1>2. QED
  BY <1>1 DEF StartingPoint

\* What a subscriber is owed are event numbers.
LEMMA RecentType ==
  ASSUME NEW ch \in ChannelRec, NEW id \in Int
  PROVE  Recent(ch, id) \in SUBSET Nat
<1>1. ch.history \in Seq(Event)
  BY DEF ChannelRec
<1>2. \A i \in DOMAIN ch.history : ch.history[i] \in Event
  BY <1>1
<1>3. \A e \in Event : e.seq \in Nat
  BY DEF Event
<1>4. QED
  BY <1>2, <1>3 DEF Recent, Range

\* and so do the steps of a connection.
LEMMA ConnectionTyped ==
  ASSUME TypeInv, NEW s \in Connection, NEW t \in Run,
         Connect(s, t) \/ Subscribe(s) \/ Read(s) \/ Leave(s)
  PROVE  TypeInv'
<1> USE DEF service, history
<1>c. ConnOK(conn[s]) /\ conn[s] \in ConnRec
  BY DEF TypeInv, ConnsTyped, ConnOK
<1>0. \A label \in {"connecting", "attached", "answered", "finished", "left"} : label \in ConnState
  BY DEF ConnState
<1>1. CASE Connect(s, t)
  <2>1. PICK id \in -1..channel[t].seq :
          conn' = [conn EXCEPT ![s] = [@ EXCEPT
                     !.run = t, !.last_event_id = IF channel[t].open THEN id ELSE -1,
                     !.state = IF channel[t].open THEN "connecting" ELSE "answered"]]
    BY <1>1 DEF Connect
  <2> DEFINE m == IF channel[t].open THEN id ELSE -1
             state == IF channel[t].open THEN "connecting" ELSE "answered"
             c == [conn[s] EXCEPT !.run = t, !.last_event_id = m, !.state = state]
  <2>2. m \in Int /\ state \in ConnState
    BY <1>0
  <2>3. conn' = [conn EXCEPT ![s] = c]
    BY <2>1
  <2> HIDE DEF m, state
  <2>4. c \in ConnRec
    BY <1>c, <2>2, ConnUpdates
  <2>5. c.run = t /\ c.backlog = conn[s].backlog /\ c.queue = conn[s].queue
    BY <1>c, <2>4 DEF ConnRec
  <2> HIDE DEF c
  <2>6. ConnOK(c)
    BY <1>c, <2>4, <2>5 DEF ConnOK
  <2>7. ConnsTyped'
    BY <2>3, <2>6, ConnSet DEF TypeInv
  <2>8. QED
    BY <1>1, <2>7 DEF Connect, TypeInv, HandlersTyped, RegistryTyped, OpenRuns
<1>2. CASE Subscribe(s)
  <2> DEFINE u == conn[s].run
             id == conn[s].last_event_id
             backlog == Backlog(channel[u], id)
             c == [conn[s] EXCEPT !.state = "attached", !.backlog = backlog]
             subs == Append(channel[u].subscribers, s)
             ch == [channel[u] EXCEPT !.subscribers = subs]
  <2>1. u \in Run /\ id \in Int
    BY <1>c, <1>2 DEF Subscribe, ConnOK, ConnRec
  <2>2. /\ channel[u] \in ChannelRec /\ Len(channel[u].history) <= MaxHistory
        /\ channel[u].history \in Seq(Event) /\ channel[u].subscribers \in Seq(Connection)
    BY <2>1, RegistryOf DEF TypeInv
  <2>3. CASE channel[u].open
    <3>1. /\ conn' = [conn EXCEPT ![s] = c] /\ channel' = [channel EXCEPT ![u] = ch]
          /\ seen' = [seen EXCEPT ![s] = StartingPoint(channel[u], id)]
          /\ owed' = [owed EXCEPT ![s] = Recent(channel[u], id)]
      BY <1>2, <2>1, <2>3 DEF Subscribe, TypeInv, RegistryTyped
    <3>2. UNCHANGED <<service, handler, callbacks, evicted>>
      BY <1>2 DEF Subscribe
    <3>3. backlog \in Seq(Event) /\ Len(backlog) <= Len(channel[u].history)
      <4> HIDE DEF u, id
      <4>1. QED
        BY <2>1, <2>2, BacklogType
    <3> HIDE DEF backlog
    <3>4. c \in ConnRec
      BY <1>0, <1>c, <3>3, ConnUpdates
    <3>5. c.backlog = backlog /\ c.queue = conn[s].queue /\ c.run = conn[s].run
      BY <1>c, <3>4 DEF ConnRec
    <3>a. Len(backlog) <= MaxHistory
      <4>1. Len(backlog) \in Nat /\ Len(channel[u].history) \in Nat /\ MaxHistory \in Nat
        BY <2>2, <3>3, SizesAssumption, LenProperties
      <4> HIDE DEF u
      <4>2. QED
        BY <2>2, <3>3, <4>1
    <3> HIDE DEF c
    <3>6. ConnOK(c)
      BY <1>c, <2>1, <3>a, <3>4, <3>5 DEF ConnOK
    <3>7. ConnsTyped'
      BY <3>1, <3>6, ConnSet DEF TypeInv
    <3>8. subs \in Seq(Connection)
      BY <2>2, AppendProperties
    <3>9. ch \in ChannelRec /\ ch.open = channel[u].open /\ ch.history = channel[u].history
      <4> HIDE DEF u, subs
      <4>1. QED
        BY <2>2, <3>8, SubscribersType
    <3>10. StartingPoint(channel[u], id) \in Int
      <4> HIDE DEF u, id
      <4>1. QED
        BY <2>1, <2>2, StartingPointType
    <3>11. seen' \in [Connection -> Int]
      BY <3>1, <3>10 DEF TypeInv
    <3>o. owed' \in [Connection -> SUBSET Nat]
      <4>1. Recent(channel[u], id) \in SUBSET Nat
        <5> HIDE DEF u, id
        <5>1. QED
          BY <2>1, <2>2, RecentType
      <4>2. QED
        BY <3>1, <4>1 DEF TypeInv
    <3> HIDE DEF u, id, ch
    <3>12. RegistryTyped(channel)'
      BY <2>1, <2>2, <3>1, <3>9, ChangedRegistry DEF TypeInv
    <3>13. QED
      BY <3>2, <3>7, <3>11, <3>o, <3>12 DEF TypeInv, HandlersTyped
  <2>4. CASE ~channel[u].open
    <3> DEFINE d == [conn[s] EXCEPT !.state = "answered"]
    <3>1. conn' = [conn EXCEPT ![s] = d] /\ UNCHANGED <<channel, seen, owed>>
      BY <1>2, <2>4 DEF Subscribe
    <3>2. d \in ConnRec
      BY <1>0, <1>c, ConnUpdates
    <3>3. d.run = conn[s].run /\ d.backlog = conn[s].backlog /\ d.queue = conn[s].queue
      BY <1>c, <3>2 DEF ConnRec
    <3> HIDE DEF d
    <3>4. ConnOK(d)
      BY <1>c, <2>1, <3>2, <3>3 DEF ConnOK
    <3>5. ConnsTyped'
      BY <3>1, <3>4, ConnSet DEF TypeInv
    <3>6. QED
      BY <1>2, <3>1, <3>5 DEF Subscribe, TypeInv, HandlersTyped, RegistryTyped, OpenRuns
  <2>5. QED
    BY <2>3, <2>4
<1>3. CASE Read(s)
  <2> DEFINE c == conn[s]
             item == Head(c.backlog \o c.queue)
             ends == item = Done \/ (item.type \in TerminalTypes /\ IsCurrent(c))
  <2>1. c.backlog \in Seq(Event) /\ c.queue \in Seq(Item) /\ c.backlog \o c.queue # <<>>
        /\ Len(c.backlog) <= MaxHistory /\ Len(c.queue) <= MaxQueue
    BY <1>c, <1>3 DEF Read, ConnOK, ConnRec
  <2>2. item \in Item
    <3>1. c.backlog \in Seq(Item)
      BY <2>1, ItemKinds, SeqMonotonic
    <3>2. c.backlog \o c.queue \in Seq(Item)
      BY <2>1, <3>1, ConcatProperties
    <3>3. QED
      BY <2>1, <3>2, HeadTailProperties
  <2>3. seen' = [seen EXCEPT ![s] = IF IsEvent(item) THEN item.seq ELSE @]
    BY <1>3 DEF Read
  <2>4. seen' \in [Connection -> Int]
    <3>1. item.seq \in Int
      <4> HIDE DEF item
      <4>1. item.seq \in Nat
        BY <2>2, ItemSeq
      <4>2. QED
        BY <4>1
    <3> DEFINE n == IF IsEvent(item) THEN item.seq ELSE seen[s]
    <3>2. n \in Int /\ seen' = [seen EXCEPT ![s] = n]
      BY <2>3, <3>1 DEF TypeInv
    <3> HIDE DEF n
    <3>3. QED
      BY <3>2 DEF TypeInv
  <2>o. owed' \in [Connection -> SUBSET Nat]
    <3> DEFINE o == IF IsEvent(item) THEN owed[s] \ {item.seq} ELSE owed[s]
    <3>1. owed' = [owed EXCEPT ![s] = o]
      BY <1>3 DEF Read, TypeInv
    <3>2. o \in SUBSET Nat
      BY DEF TypeInv
    <3> HIDE DEF o
    <3>3. QED
      BY <3>1, <3>2 DEF TypeInv
  <2>5. UNCHANGED <<service, handler, callbacks, evicted>>
    BY <1>3 DEF Read
  <2>6. CASE ends
    <3>1. Detach(s, "finished") /\ conn[s].state # "idle"
      BY <1>3, <2>6 DEF Read
    <3>2. ConnsTyped' /\ RegistryTyped(channel)'
      BY <1>0, <3>1, DetachType
    <3>3. QED
      BY <2>4, <2>o, <2>5, <3>2 DEF TypeInv, HandlersTyped
  <2>7. CASE ~ends
    <3> DEFINE d == IF c.backlog # <<>> THEN [c EXCEPT !.backlog = Tail(c.backlog)]
                                        ELSE [c EXCEPT !.queue = Tail(c.queue)]
    <3>1. conn' = [conn EXCEPT ![s] = d] /\ UNCHANGED channel
      BY <1>3, <2>7 DEF Read
    <3>2. /\ c.backlog # <<>> => /\ Tail(c.backlog) \in Seq(Event)
                                 /\ Len(Tail(c.backlog)) = Len(c.backlog) - 1
          /\ c.backlog = <<>> => /\ Tail(c.queue) \in Seq(Item)
                                 /\ Len(Tail(c.queue)) = Len(c.queue) - 1
      BY <2>1, HeadTailProperties
    <3>3. \A backlog \in Seq(Event) : [c EXCEPT !.backlog = backlog] \in ConnRec
      BY <1>c, ConnUpdates
    <3>4. \A queue \in Seq(Item) : [c EXCEPT !.queue = queue] \in ConnRec
      BY <1>c, ConnUpdates
    <3>5. d \in ConnRec
      BY <3>2, <3>3, <3>4
    <3>6. MaxHistory \in Nat /\ MaxQueue \in Nat /\ Len(c.backlog) \in Nat /\ Len(c.queue) \in Nat
      BY <2>1, SizesAssumption
    <3>7. CASE c.backlog # <<>>
      <4>1. d = [c EXCEPT !.backlog = Tail(c.backlog)]
        BY <3>7
      <4>2. d.run = c.run /\ d.backlog = Tail(c.backlog) /\ d.queue = c.queue /\ d.state = c.state
        BY <1>c, <3>5, <4>1 DEF ConnRec
      <4>3. Len(d.backlog) <= MaxHistory
        BY <2>1, <3>2, <3>6, <3>7, <4>2
      <4>4. ConnOK(d)
        <5> HIDE DEF d
        <5>1. QED
          BY <1>c, <2>1, <3>5, <4>2, <4>3 DEF ConnOK
      <4> HIDE DEF d
      <4>5. QED
        BY <2>4, <2>o, <2>5, <3>1, <4>4, ConnSet DEF TypeInv, HandlersTyped, RegistryTyped, OpenRuns
    <3>8. CASE c.backlog = <<>>
      <4>1. d = [c EXCEPT !.queue = Tail(c.queue)]
        BY <3>8
      <4>2. d.run = c.run /\ d.backlog = c.backlog /\ d.queue = Tail(c.queue) /\ d.state = c.state
        BY <1>c, <3>5, <4>1 DEF ConnRec
      <4>3. Len(d.queue) <= MaxQueue
        BY <2>1, <3>2, <3>6, <3>8, <4>2
      <4>4. ConnOK(d)
        <5> HIDE DEF d
        <5>1. QED
          BY <1>c, <2>1, <3>5, <4>2, <4>3 DEF ConnOK
      <4> HIDE DEF d
      <4>5. QED
        BY <2>4, <2>o, <2>5, <3>1, <4>4, ConnSet DEF TypeInv, HandlersTyped, RegistryTyped, OpenRuns
    <3>9. QED
      BY <3>7, <3>8
  <2>8. QED
    BY <2>6, <2>7
<1>4. CASE Leave(s)
  <2>1. ConnsTyped' /\ RegistryTyped(channel)'
    BY <1>0, <1>4, DetachType DEF Leave
  <2>2. QED
    BY <1>4, <2>1 DEF Leave, TypeInv, HandlersTyped
<1>5. QED
  BY <1>1, <1>2, <1>3, <1>4

\* The types hold initially,
LEMMA InitTyped == Init => TypeInv
<1> SUFFICES ASSUME Init PROVE TypeInv
  OBVIOUS
<1>1. HandlersTyped
  <2>1. [pc |-> "idle", run |-> "none", posted |-> FALSE, left |-> 0, out |-> <<>>]
          \in HandlerRec
    BY StreamAssumption DEF HandlerRec, HandlerPC
  <2>2. QED
    BY <2>1 DEF Init, HandlersTyped
<1>2. RegistryTyped(channel)
  <2>1. OpenRuns(channel) = {}
    BY NoChannelType DEF Init, OpenRuns
  <2>2. Len(<<>>) <= MaxHistory
    BY SizesAssumption
  <2>3. channel \in [Run -> ChannelRec] /\ \A t \in Run : channel[t].history = <<>>
    BY NoChannelType DEF Init
  <2>4. IsFiniteSet(OpenRuns(channel)) /\ Cardinality(OpenRuns(channel)) <= MaxChannels
    BY <2>1, FS_EmptySet, StreamAssumption
  <2>5. QED
    BY <2>2, <2>3, <2>4 DEF RegistryTyped
<1>3. ConnsTyped
  <2>1. Len(<<>>) <= MaxHistory /\ Len(<<>>) <= MaxQueue
    BY SizesAssumption
  <2>2. QED
    BY <2>1, NoConnType DEF Init, ConnsTyped, ConnOK
<1>4. QED
  BY <1>1, <1>2, <1>3 DEF Init, TypeInv, Phase

\* every step keeps them,
LEMMA StepTyped == TypeInv /\ [Next]_vars => TypeInv'
<1> SUFFICES ASSUME TypeInv, [Next]_vars PROVE TypeInv'
  OBVIOUS
<1>1. CASE UNCHANGED vars
  BY <1>1 DEF vars, TypeInv, ConnsTyped, HandlersTyped, RegistryTyped, OpenRuns
<1>2. CASE Next
  <2>1. ASSUME NEW h \in Handler, NEW t \in Run,
               Reserve(h, t) \/ PostFresh(h, t) \/ Resume(h, t)
        PROVE  TypeInv'
    BY <2>1, RequestTyped
  <2>2. ASSUME NEW h \in Handler, Post(h) \/ OpenChannel(h) \/ Refuse(h)
        PROVE  TypeInv'
    <3>1. RunOf(h) \in Run
      BY <2>2 DEF Post, OpenChannel, Refuse, TypeInv, HandlersTyped, RunOf
    <3>2. QED
      BY <2>2, <3>1, RequestTyped
  <2>3. ASSUME NEW h \in Handler, Pass(h) PROVE TypeInv'
    BY <2>3, PassTyped
  <2>4. ASSUME NEW s \in Connection, NEW t \in Run, Connect(s, t) PROVE TypeInv'
    BY <2>4, ConnectionTyped
  <2>5. ASSUME NEW s \in Connection, Subscribe(s) \/ Read(s) \/ Leave(s) PROVE TypeInv'
    <3>1. conn[s].run \in Run
      BY <2>5 DEF Subscribe, Read, Leave, TypeInv, ConnsTyped, ConnOK
    <3>2. QED
      BY <2>5, <3>1, ConnectionTyped
  <2>6. CASE RunCallback
    BY <2>6, LoopTyped
  <2>7. QED
    BY <1>2, <2>1, <2>2, <2>3, <2>4, <2>5, <2>6 DEF Next
<1>3. QED
  BY <1>1, <1>2

\* and so they always hold.
LEMMA Typed == Spec => []TypeInv
BY InitTyped, StepTyped, PTL DEF Spec

\* Whatever requests, worker threads, the loop and clients do, the variables range over
\* what they should, no history outgrows MAX_HISTORY, no queue MAX_SUBSCRIBER_QUEUE and
\* no registry MAX_CHANNELS.
THEOREM TypeCorrect == Spec => []TypeOK
BY Typed, TypeInvIsTypeOK, PTL
=============================================================================
