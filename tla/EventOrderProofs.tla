--------------------------- MODULE EventOrderProofs ---------------------------
(***************************************************************************)
(* The order of what a stream connection reads. What is on its way to a    *)
(* connection is in four places at once: its backlog, its queue, the       *)
(* loop's callbacks, and what the publisher has not handed over yet. Read  *)
(* one after the other (Feed), their events are numbered in order up to    *)
(* the newest one, and without a gap as long as the queue never            *)
(* overflowed.                                                             *)
(*                                                                         *)
(* The inductive invariant OrderInv says that, and what it depends on:     *)
(* only the holder of a run's lock has mail to hand over (Locking), a      *)
(* channel's history ends with its newest event and its subscribers are    *)
(* attached to it once each (ChannelOK), mail goes to connections that     *)
(* have subscribed (Addressing), so that one that attaches starts with     *)
(* nothing but its backlog (Fresh), and the sentinel is not on its way to  *)
(* a connection that is still registered (Eventful).                       *)
(*                                                                         *)
(* OwedInv is a second invariant, about the replay alone: what a stream is *)
(* owed from the time it subscribed is in its backlog until it is read.    *)
(***************************************************************************)
EXTENDS EventStreamProofs

\* The event numbers of a feed, with the number before its first one and the number
\* after its last one: increasing, and up to the newest.
InOrder(n, es, top) ==
  /\ \A i \in 1..Len(es) : n < es[i].seq
  /\ \A i, j \in 1..Len(es) : i < j => es[i].seq < es[j].seq
  /\ es = <<>> => n = top - 1
  /\ es # <<>> => es[Len(es)].seq = top - 1

\* Numbered one by one from n + 1.
Gapless(n, es) == \A i \in 1..Len(es) : es[i].seq = n + i

-----------------------------------------------------------------------------
(* Numbers in order *)

\* A sequence of events has numbers throughout.
LEMMA EventSeq == \A es \in Seq(Event) : \A i \in 1..Len(es) : es[i] \in Event /\ es[i].seq \in Nat
<1>1. TAKE es \in Seq(Event)
<1>2. TAKE i \in 1..Len(es)
<1>3. es[i] \in Event
  BY ElementOfSeq
<1>4. QED
  BY <1>3 DEF Event

\* The next number goes to the end of an ordered feed,
LEMMA OrderAppend ==
  ASSUME NEW n \in Int, NEW es \in Seq(Event), NEW top \in Int, NEW e \in Event,
         e.seq = top, InOrder(n, es, top)
  PROVE  /\ InOrder(n, Append(es, e), top + 1)
         /\ Gapless(n, es) => Gapless(n, Append(es, e))
<1> DEFINE fs == Append(es, e)
<1>1. /\ fs \in Seq(Event) /\ Len(fs) = Len(es) + 1 /\ Len(es) \in Nat /\ fs # <<>>
      /\ \A i \in 1..Len(es) : fs[i] = es[i]
      /\ fs[Len(es) + 1] = e
  BY AppendProperties
<1> HIDE DEF fs
<1>2. \A i \in 1..Len(es) : es[i].seq \in Int /\ es[i].seq < top
  <2>1. TAKE i \in 1..Len(es)
  <2>2. es # <<>> /\ es[Len(es)].seq = top - 1 /\ es[i].seq \in Int
    BY <1>1, EventSeq DEF InOrder
  <2>3. i < Len(es) => es[i].seq < es[Len(es)].seq
    BY <1>1 DEF InOrder
  <2>4. QED
    BY <1>1, <2>2, <2>3
<1>3. n < top
  <2>1. CASE es = <<>>
    BY <2>1 DEF InOrder
  <2>2. CASE es # <<>>
    <3>1. Len(es) \in 1..Len(es)
      BY <1>1, <2>2, EmptySeq
    <3>2. QED
      BY <1>2, <3>1 DEF InOrder
  <2>3. QED
    BY <2>1, <2>2
<1>4. InOrder(n, fs, top + 1)
  <2>1. \A i \in 1..Len(fs) : i \in 1..Len(es) \/ i = Len(es) + 1
    BY <1>1
  <2>2. \A i \in 1..Len(fs) : n < fs[i].seq
    BY <1>1, <1>3, <2>1 DEF InOrder
  <2>3. ASSUME NEW i \in 1..Len(fs), NEW j \in 1..Len(fs), i < j
        PROVE  fs[i].seq < fs[j].seq
    <3>1. i \in 1..Len(es)
      BY <1>1, <2>1, <2>3
    <3>2. CASE j \in 1..Len(es)
      BY <1>1, <2>3, <3>1, <3>2 DEF InOrder
    <3>3. CASE j = Len(es) + 1
      BY <1>1, <1>2, <3>1, <3>3
    <3>4. QED
      BY <2>1, <3>2, <3>3
  <2>4. fs[Len(fs)].seq = (top + 1) - 1
    BY <1>1
  <2>5. QED
    BY <1>1, <2>2, <2>3, <2>4 DEF InOrder
<1>5. ASSUME Gapless(n, es) PROVE Gapless(n, fs)
  <2>1. top = n + Len(es) + 1
    <3>1. CASE es = <<>>
      BY <3>1 DEF InOrder
    <3>2. CASE es # <<>>
      <4>1. Len(es) \in 1..Len(es)
        BY <1>1, <3>2, EmptySeq
      <4>2. es[Len(es)].seq = n + Len(es) /\ es[Len(es)].seq = top - 1
        BY <1>5, <3>2, <4>1 DEF Gapless, InOrder
      <4>3. QED
        BY <1>1, <4>2
    <3>3. QED
      BY <3>1, <3>2
  <2>2. ASSUME NEW i \in 1..Len(fs) PROVE fs[i].seq = n + i
    <3>1. CASE i \in 1..Len(es)
      BY <1>1, <1>5, <3>1 DEF Gapless
    <3>2. CASE i = Len(es) + 1
      BY <1>1, <2>1, <3>2
    <3>3. QED
      BY <1>1, <3>1, <3>2
  <2>3. QED
    BY <2>2 DEF Gapless
<1>6. QED
  BY <1>4, <1>5 DEF fs

\* reading the first one leaves it ordered,
LEMMA OrderTail ==
  ASSUME NEW n \in Int, NEW e \in Event, NEW es \in Seq(Event), NEW top \in Int,
         InOrder(n, <<e>> \o es, top)
  PROVE  /\ InOrder(e.seq, es, top)
         /\ Gapless(n, <<e>> \o es) => Gapless(e.seq, es)
<1> DEFINE fs == <<e>> \o es
<1>1. /\ fs \in Seq(Event) /\ Len(fs) = Len(es) + 1 /\ Len(es) \in Nat /\ fs # <<>> /\ fs[1] = e
      /\ \A i \in 1..Len(es) : fs[i + 1] = es[i]
  BY ConcatProperties
<1> HIDE DEF fs
<1>2. e.seq \in Nat /\ \A i \in 1..Len(es) : es[i].seq \in Nat
  BY EventSeq DEF Event
<1>3. InOrder(n, fs, top)
  BY DEF fs
<1>4. \A i \in 1..Len(es) : e.seq < es[i].seq
  <2>1. TAKE i \in 1..Len(es)
  <2>2. 1 \in 1..Len(fs) /\ i + 1 \in 1..Len(fs) /\ 1 < i + 1
    BY <1>1
  <2>3. fs[1].seq < fs[i + 1].seq
    BY <1>3, <2>2 DEF InOrder
  <2>4. QED
    BY <1>1, <2>3
<1>5. \A i, j \in 1..Len(es) : i < j => es[i].seq < es[j].seq
  <2>1. TAKE i, j \in 1..Len(es)
  <2>2. i + 1 \in 1..Len(fs) /\ j + 1 \in 1..Len(fs) /\ (i < j => i + 1 < j + 1)
    BY <1>1
  <2>3. QED
    BY <1>1, <1>3, <2>2 DEF InOrder
<1>6. es = <<>> => e.seq = top - 1
  BY <1>1, <1>3 DEF InOrder
<1>7. es # <<>> => es[Len(es)].seq = top - 1
  <2>1. ASSUME es # <<>> PROVE Len(es) \in 1..Len(es)
    BY <1>1, <2>1, EmptySeq
  <2>2. QED
    BY <1>1, <1>3, <2>1 DEF InOrder
<1>8. ASSUME Gapless(n, fs) PROVE Gapless(e.seq, es)
  <2>1. ASSUME NEW i \in 1..Len(es) PROVE es[i].seq = e.seq + i
    <3>1. 1 \in 1..Len(fs) /\ i + 1 \in 1..Len(fs)
      BY <1>1
    <3>2. fs[1].seq = n + 1 /\ fs[i + 1].seq = n + (i + 1)
      BY <1>8, <3>1 DEF Gapless
    <3>3. QED
      BY <1>1, <3>2
  <2>2. QED
    BY <2>1 DEF Gapless
<1>9. QED
  BY <1>4, <1>5, <1>6, <1>7, <1>8 DEF InOrder, fs

\* and so does losing events anywhere before the last one.
LEMMA OrderDrop ==
  ASSUME NEW n \in Int, NEW as \in Seq(Event), NEW gone \in Seq(Event), NEW bs \in Seq(Event),
         bs # <<>>, NEW top \in Int, InOrder(n, as \o (gone \o bs), top)
  PROVE  InOrder(n, as \o bs, top)
<1> DEFINE tl == gone \o bs
           old == as \o tl
           new == as \o bs
           p == Len(as)
           g == Len(gone)
           q == Len(bs)
           At(i) == IF i <= p THEN i ELSE i + g
<1>1. InOrder(n, old, top)
  OBVIOUS
<1>a. tl = gone \o bs /\ old = as \o tl /\ new = as \o bs
  OBVIOUS
<1> HIDE DEF tl, old, new, p, g, q
<1>2. /\ tl \in Seq(Event) /\ Len(tl) = g + q /\ p \in Nat /\ g \in Nat /\ q \in Nat /\ q # 0
      /\ \A j \in 1..q : tl[g + j] = bs[j]
  <2>1. /\ tl \in Seq(Event) /\ Len(tl) = Len(gone) + Len(bs) /\ Len(gone) \in Nat
        /\ \A j \in 1..Len(bs) : tl[Len(gone) + j] = bs[j]
    <3>1. Joins(Event, gone, bs, tl)
      BY <1>a, TwoParts
    <3>2. QED
      BY <3>1 DEF Joins
  <2>2. Len(as) \in Nat /\ Len(bs) \in Nat /\ Len(bs) # 0
    BY NonEmpty
  <2>3. QED
    BY <2>1, <2>2 DEF p, g, q
<1>3. /\ new \in Seq(Event) /\ Len(new) = p + q
      /\ \A i \in 1..p : new[i] = as[i]
      /\ \A j \in 1..q : new[p + j] = bs[j]
  <2>1. /\ new \in Seq(Event) /\ Len(new) = Len(as) + Len(bs)
        /\ \A i \in 1..Len(as) : new[i] = as[i]
        /\ \A j \in 1..Len(bs) : new[Len(as) + j] = bs[j]
    <3>1. Joins(Event, as, bs, new)
      BY <1>a, TwoParts
    <3>2. QED
      BY <3>1 DEF Joins
  <2>2. QED
    BY <2>1 DEF p, q
<1>4. /\ old \in Seq(Event) /\ Len(old) = p + Len(tl)
      /\ \A i \in 1..p : old[i] = as[i]
      /\ \A k \in 1..Len(tl) : old[p + k] = tl[k]
  <2>1. /\ old \in Seq(Event) /\ Len(old) = Len(as) + Len(tl)
        /\ \A i \in 1..Len(as) : old[i] = as[i]
        /\ \A j \in 1..Len(tl) : old[Len(as) + j] = tl[j]
    <3>1. Joins(Event, as, tl, old)
      BY <1>a, <1>2, TwoParts
    <3>2. QED
      BY <3>1 DEF Joins
  <2>2. QED
    BY <2>1 DEF p
<1>5. \A j \in 1..q : p + j + g \in 1..Len(old) /\ old[p + j + g] = bs[j]
  <2>1. TAKE j \in 1..q
  <2>2. g + j \in 1..Len(tl) /\ p + (g + j) = p + j + g
    BY <1>2
  <2>3. old[p + (g + j)] = bs[j]
    BY <1>2, <1>4, <2>2
  <2>4. QED
    BY <1>2, <1>4, <2>2, <2>3
<1>6. \A i \in 1..Len(new) : At(i) \in 1..Len(old) /\ new[i] = old[At(i)]
  <2>1. TAKE i \in 1..Len(new)
  <2>2. CASE i <= p
    <3>1. At(i) = i /\ i \in 1..p /\ i \in 1..Len(old)
      BY <1>2, <1>3, <1>4, <2>2
    <3> HIDE DEF At
    <3>2. QED
      BY <1>3, <1>4, <3>1
  <2>3. CASE ~(i <= p)
    <3>1. PICK j \in 1..q : i = p + j
      <4>1. i - p \in 1..q /\ i = p + (i - p)
        BY <1>2, <1>3, <2>3
      <4>2. QED
        BY <4>1
    <3>2. QED
      BY <1>3, <1>5, <2>3, <3>1
  <2>4. QED
    BY <2>2, <2>3
<1>7. \A i, j \in 1..Len(new) : i < j => At(i) < At(j)
  BY <1>2, <1>3
<1>8. new # <<>> /\ old # <<>> /\ Len(new) \in 1..Len(new) /\ At(Len(new)) = Len(old)
  <2>1. Len(new) # 0 /\ Len(old) # 0 /\ Len(new) \in 1..Len(new)
    BY <1>2, <1>3, <1>4
  <2>2. At(Len(new)) = Len(old)
    BY <1>2, <1>3, <1>4
  <2>3. QED
    BY <1>3, <1>4, <2>1, <2>2, NonEmpty
<1> HIDE DEF At
<1>9. QED
  BY <1>1, <1>6, <1>7, <1>8 DEF InOrder, new

-----------------------------------------------------------------------------
(* What a list of mail holds for one connection *)

\* What is addressed to s are the items of its mail.
LEMMA AddressedFacts ==
  ASSUME NEW s \in Connection, NEW list \in Seq(Mail)
  PROVE  /\ Addressed(s, list) \in Seq(Item)
         /\ Len(Addressed(s, list)) = Len(Selected(list, {s} \X Item))
         /\ \A i \in 1..Len(Addressed(s, list)) :
              Addressed(s, list)[i] = Selected(list, {s} \X Item)[i][2]
<1> DEFINE mine == Selected(list, {s} \X Item)
<1>1. mine \in Seq(Mail \cap ({s} \X Item))
  BY SelectedType
<1>2. Addressed(s, list) = [i \in DOMAIN mine |-> mine[i][2]]
  BY DEF Addressed
<1> HIDE DEF mine
<1>3. \A i \in 1..Len(mine) : mine[i][2] \in Item
  BY <1>1 DEF Mail
<1>4. DOMAIN mine = 1..Len(mine) /\ Len(mine) \in Nat
  BY <1>1
<1> DEFINE items == [i \in 1..Len(mine) |-> mine[i][2]]
<1>5. items \in Seq(Item) /\ Len(items) = Len(mine) /\ \A i \in 1..Len(items) : items[i] = mine[i][2]
  BY <1>3, <1>4
<1>6. Addressed(s, list) = items
  BY <1>2, <1>4
<1> HIDE DEF items
<1>7. QED
  BY <1>5, <1>6 DEF mine

\* Addressed is determined by its length and elements.
LEMMA AddressedEqual ==
  ASSUME NEW s \in Connection, NEW list \in Seq(Mail), NEW items \in Seq(Item),
         Len(items) = Len(Selected(list, {s} \X Item)),
         \A i \in 1..Len(items) : items[i] = Selected(list, {s} \X Item)[i][2]
  PROVE  Addressed(s, list) = items
<1>1. Addressed(s, list) \in Seq(Item) /\ Len(Addressed(s, list)) = Len(items)
      /\ \A i \in 1..Len(Addressed(s, list)) : Addressed(s, list)[i] = items[i]
  BY AddressedFacts
<1>2. QED
  BY <1>1, SeqEqual

\* Mail that is all for others.
LEMMA AddressedNone ==
  ASSUME NEW s \in Connection, NEW list \in Seq(Mail), \A i \in 1..Len(list) : list[i][1] # s
  PROVE  Addressed(s, list) = <<>>
<1>1. \A i \in 1..Len(list) : list[i] \notin {s} \X Item
  OBVIOUS
<1>2. Selected(list, {s} \X Item) = <<>>
  BY <1>1, SelectedNone
<1>3. <<>> \in Seq(Item) /\ Len(<<>>) = 0
  OBVIOUS
<1>4. Len(Selected(list, {s} \X Item)) = 0 /\ \A i \in 1..0 : FALSE
  BY <1>2
<1>5. \A i \in 1..Len(<<>>) : <<>>[i] = Selected(list, {s} \X Item)[i][2]
  BY <1>3, <1>4
<1> HIDE DEF Addressed
<1>6. Addressed(s, list) \in Seq(Item) /\ Len(Addressed(s, list)) = 0
  BY <1>4, AddressedFacts
<1>7. QED
  BY <1>6, EmptySeq

\* One more piece of mail.
LEMMA AddressedAppend ==
  ASSUME NEW s \in Connection, NEW list \in Seq(Mail), NEW m \in Mail
  PROVE  Addressed(s, Append(list, m)) = IF m[1] = s THEN Append(Addressed(s, list), m[2])
                                                     ELSE Addressed(s, list)
<1> DEFINE S == {s} \X Item
           mine == Selected(list, S)
           items == Addressed(s, list)
<1>1. Append(list, m) \in Seq(Mail) /\ mine \in Seq(Mail) /\ m[2] \in Item /\ m[1] \in Connection
  <2>1. mine \in Seq(Mail \cap S)
    BY SelectedType
  <2>2. mine \in Seq(Mail)
    BY <2>1, SeqMonotonic
  <2>3. QED
    BY <2>2, AppendProperties DEF Mail
<1>2. m \in S <=> m[1] = s
  BY DEF Mail
<1>3. Selected(Append(list, m), S) = IF m[1] = s THEN Append(mine, m) ELSE mine
  BY <1>2, SelectedAppend
<1>4. items \in Seq(Item) /\ Len(items) = Len(mine) /\ \A i \in 1..Len(items) : items[i] = mine[i][2]
  BY AddressedFacts
<1> HIDE DEF S, mine, items
<1>5. CASE m[1] = s
  <2>1. /\ Append(items, m[2]) \in Seq(Item)
        /\ Len(Append(items, m[2])) = Len(Append(mine, m))
        /\ \A i \in 1..Len(Append(items, m[2])) : Append(items, m[2])[i] = Append(mine, m)[i][2]
    BY <1>1, <1>4, AppendProperties
  <2>2. Addressed(s, Append(list, m)) = Append(items, m[2])
    BY <1>1, <1>3, <1>5, <2>1, AddressedEqual DEF S
  <2>3. QED
    BY <1>5, <2>2 DEF items
<1>6. CASE m[1] # s
  <2>1. Addressed(s, Append(list, m)) = items
    BY <1>1, <1>3, <1>4, <1>6, AddressedEqual DEF S
  <2>2. QED
    BY <1>6, <2>1 DEF items
<1>7. QED
  BY <1>5, <1>6

\* One piece of mail less, from the front.
LEMMA AddressedTail ==
  ASSUME NEW s \in Connection, NEW list \in Seq(Mail), list # <<>>
  PROVE  Addressed(s, list) = IF Head(list)[1] = s THEN <<Head(list)[2]>> \o Addressed(s, Tail(list))
                                                   ELSE Addressed(s, Tail(list))
<1> DEFINE S == {s} \X Item
           m == Head(list)
           mine == Selected(Tail(list), S)
           items == Addressed(s, Tail(list))
<1>1. m \in Mail /\ Tail(list) \in Seq(Mail)
  BY HeadTailProperties
<1>2. m[2] \in Item /\ (m \in S <=> m[1] = s)
  BY <1>1 DEF Mail
<1>3. mine \in Seq(Mail)
  <2>1. mine \in Seq(Mail \cap S)
    BY <1>1, SelectedType
  <2>2. QED
    BY <2>1, SeqMonotonic
<1>4. Selected(list, S) = (IF m[1] = s THEN <<m>> ELSE <<>>) \o mine
  BY <1>2, SelectedTail
<1>5. items \in Seq(Item) /\ Len(items) = Len(mine) /\ \A i \in 1..Len(items) : items[i] = mine[i][2]
  BY <1>1, AddressedFacts
<1> HIDE DEF S, mine, items, m
<1>6. CASE m[1] = s
  <2> DEFINE xs == <<m[2]>> \o items
             ms == <<m>> \o mine
  <2>1. /\ xs \in Seq(Item) /\ Len(xs) = 1 + Len(items) /\ xs[1] = m[2] /\ Len(items) \in Nat
        /\ \A j \in 1..Len(items) : xs[1 + j] = items[j]
    <3>1. <<m[2]>> \in Seq(Item) /\ Len(<<m[2]>>) = 1 /\ <<m[2]>>[1] = m[2]
      BY <1>2
    <3>2. Joins(Item, <<m[2]>>, items, xs)
      BY <1>5, <3>1, TwoParts
    <3> HIDE DEF xs
    <3>3. QED
      BY <3>1, <3>2 DEF Joins
  <2>2. Len(ms) = 1 + Len(mine) /\ ms[1] = m /\ \A j \in 1..Len(mine) : ms[1 + j] = mine[j]
    <3>1. <<m>> \in Seq(Mail) /\ Len(<<m>>) = 1 /\ <<m>>[1] = m
      BY <1>1
    <3>2. Joins(Mail, <<m>>, mine, ms)
      BY <1>3, <3>1, TwoParts
    <3> HIDE DEF ms
    <3>3. QED
      BY <3>1, <3>2 DEF Joins
  <2> HIDE DEF xs, ms
  <2>3. ASSUME NEW i \in 1..Len(xs) PROVE xs[i] = ms[i][2]
    <3>1. CASE i = 1
      BY <2>1, <2>2, <3>1
    <3>2. CASE i # 1
      <4>1. i - 1 \in 1..Len(items) /\ i = 1 + (i - 1)
        BY <2>1, <3>2
      <4>2. xs[1 + (i - 1)] = items[i - 1] /\ ms[1 + (i - 1)] = mine[i - 1]
        BY <1>5, <2>1, <2>2, <4>1
      <4>3. QED
        BY <1>5, <4>1, <4>2
    <3>3. QED
      BY <3>1, <3>2
  <2>4. Selected(list, S) = ms
    BY <1>4, <1>6 DEF ms
  <2>5. Addressed(s, list) = xs
    BY <1>5, <2>1, <2>2, <2>3, <2>4, AddressedEqual DEF S
  <2>6. QED
    BY <1>6, <2>5 DEF items, m, xs
<1>7. CASE m[1] # s
  <2>1. Selected(list, S) = mine
    <3>1. <<>> \o mine = mine
      BY <1>3, ConcatEmptySeq
    <3>2. QED
      BY <1>4, <1>7, <3>1
  <2>2. Addressed(s, list) = items
    BY <1>5, <2>1, AddressedEqual DEF S
  <2>3. QED
    BY <1>7, <2>2 DEF items, m
<1>8. QED
  BY <1>6, <1>7

\* An item handed to every subscriber of a list reaches each of them once.
LEMMA AddressedOnce ==
  ASSUME NEW s \in Connection, NEW subs \in Seq(Connection), NEW x \in Item, NEW k \in 1..Len(subs),
         subs[k] = s, \A i \in 1..Len(subs) : subs[i] = s => i = k
  PROVE  Addressed(s, [i \in DOMAIN subs |-> <<subs[i], x>>]) = <<x>>
<1> DEFINE S == {s} \X Item
           list == [i \in DOMAIN subs |-> <<subs[i], x>>]
           before == SubSeq(list, 1, k - 1)
           after == SubSeq(list, k + 1, Len(list))
<1>1. /\ list \in Seq(Mail) /\ Len(list) = Len(subs) /\ Len(subs) \in Nat
      /\ \A i \in 1..Len(list) : list[i] = <<subs[i], x>>
  BY DEF Mail
<1> HIDE DEF list
<1>2. before \in Seq(Mail) /\ Len(before) = k - 1 /\ \A i \in 1..Len(before) : before[i] = list[i]
  <2>1. k - 1 \in Int /\ \A i \in 1..(k - 1) : list[i] \in Mail
    BY <1>1
  <2>2. QED
    BY <1>1, <2>1, SubSeqProperties
<1>3. /\ after \in Seq(Mail) /\ Len(after) = Len(list) - k
      /\ \A i \in 1..Len(after) : after[i] = list[k + i]
  <2>1. k + 1 \in Int /\ Len(list) \in Int /\ \A i \in (k + 1)..Len(list) : list[i] \in Mail
    BY <1>1
  <2>2. QED
    BY <1>1, <2>1, SubSeqProperties
<1> HIDE DEF before, after
<1> DEFINE one == <<list[k]>>
           rest == one \o after
<1>4. /\ one \in Seq(Mail) /\ Len(one) = 1 /\ one[1] = list[k]
      /\ list[k][1] = s /\ list[k][2] = x
  <2>1. list[k] \in Mail
    BY <1>1
  <2>2. QED
    BY <1>1, <2>1, OnePart
<1> HIDE DEF one
<1>r. rest = one \o after
  OBVIOUS
<1> HIDE DEF rest
<1>5. /\ rest \in Seq(Mail) /\ Len(rest) = 1 + Len(after) /\ rest[1] = list[k]
      /\ Len(after) \in Nat /\ \A j \in 1..Len(after) : rest[1 + j] = after[j]
  <2>1. /\ rest \in Seq(Mail) /\ Len(rest) = Len(one) + Len(after) /\ Len(after) \in Nat
        /\ \A i \in 1..Len(one) : rest[i] = one[i]
        /\ \A j \in 1..Len(after) : rest[Len(one) + j] = after[j]
    <3>1. Joins(Mail, one, after, rest)
      BY <1>3, <1>4, <1>r, TwoParts
    <3>2. QED
      BY <3>1 DEF Joins
  <2>2. QED
    BY <1>4, <2>1
<1>6. list = before \o rest
  <2> DEFINE all == before \o rest
  <2>1. /\ all \in Seq(Mail) /\ Len(all) = Len(list)
        /\ \A i \in 1..Len(before) : all[i] = before[i]
        /\ \A j \in 1..Len(rest) : all[Len(before) + j] = rest[j]
    <3>1. Joins(Mail, before, rest, all)
      BY <1>2, <1>5, TwoParts
    <3> HIDE DEF all
    <3>2. QED
      BY <1>1, <1>2, <1>3, <1>5, <3>1 DEF Joins
  <2> HIDE DEF all
  <2>2. ASSUME NEW i \in 1..Len(list) PROVE list[i] = all[i]
    <3>1. CASE i < k
      BY <1>1, <1>2, <2>1, <3>1
    <3>2. CASE i = k
      <4>1. 1 \in 1..Len(rest) /\ Len(before) + 1 = k
        BY <1>1, <1>2, <1>5
      <4>2. QED
        BY <1>5, <2>1, <3>2, <4>1
    <3>3. CASE i > k
      <4>1. /\ i - k \in 1..Len(after) /\ 1 + (i - k) \in 1..Len(rest)
            /\ Len(before) + (1 + (i - k)) = i /\ k + (i - k) = i
        BY <1>1, <1>2, <1>3, <1>5, <3>3
      <4>2. all[Len(before) + (1 + (i - k))] = list[k + (i - k)]
        BY <1>3, <1>5, <2>1, <4>1
      <4>3. QED
        BY <4>1, <4>2
    <3>4. QED
      BY <1>1, <3>1, <3>2, <3>3
  <2>3. list = all
    BY <1>1, <2>1, <2>2, SeqEqual
  <2>4. QED
    BY <2>3 DEF all
<1>7. Selected(before, S) = <<>> /\ Selected(after, S) = <<>> /\ Selected(one, S) = one
  <2>1. \A i \in 1..Len(before) : before[i] \notin S
    <3>1. TAKE i \in 1..Len(before)
    <3>2. i \in 1..Len(subs) /\ i # k /\ before[i] = list[i] /\ i \in 1..Len(list)
      BY <1>1, <1>2
    <3>3. before[i] = <<subs[i], x>> /\ subs[i] # s
      BY <1>1, <3>2
    <3>4. QED
      BY <3>3
  <2>2. \A i \in 1..Len(after) : after[i] \notin S
    <3>1. TAKE i \in 1..Len(after)
    <3>2. k + i \in 1..Len(subs) /\ k + i # k /\ after[i] = list[k + i] /\ k + i \in 1..Len(list)
      BY <1>1, <1>3
    <3>3. after[i] = <<subs[k + i], x>> /\ subs[k + i] # s
      BY <1>1, <3>2
    <3>4. QED
      BY <3>3
  <2>3. \A i \in 1..Len(one) : one[i] \in S
    <3>1. list[k] = <<s, x>>
      BY <1>1
    <3>2. one[1] \in S
      BY <1>4, <3>1
    <3>3. QED
      BY <1>4, <3>2
  <2> HIDE DEF S
  <2>4. Selected(before, S) = <<>>
    BY <1>2, <2>1, SelectedNone
  <2>5. Selected(after, S) = <<>>
    BY <1>3, <2>2, SelectedNone
  <2>6. Selected(one, S) = one
    BY <1>4, <2>3, SelectedAll
  <2>7. QED
    BY <2>4, <2>5, <2>6
<1> HIDE DEF S
<1>8. Selected(list, S) = one
  <2>1. Selected(one \o after, S) = Selected(one, S) \o Selected(after, S)
    BY <1>3, <1>4, SelectedConcat
  <2>2. Selected(before \o rest, S) = Selected(before, S) \o Selected(rest, S)
    BY <1>2, <1>5, SelectedConcat
  <2>3. one \o <<>> = one /\ <<>> \o one = one
    BY <1>4, ConcatEmptySeq
  <2>4. QED
    BY <1>6, <1>7, <1>r, <2>1, <2>2, <2>3
<1>9. Addressed(s, list) = <<x>>
  <2>1. <<x>> \in Seq(Item) /\ Len(<<x>>) = 1 /\ <<x>>[1] = x
    BY OnePart
  <2>2. Len(Selected(list, {s} \X Item)) = 1 /\ Selected(list, {s} \X Item)[1][2] = x
    BY <1>4, <1>8 DEF S
  <2>3. \A i \in 1..1 : <<x>>[i] = Selected(list, {s} \X Item)[i][2]
    BY <2>1, <2>2
  <2>4. QED
    BY <1>1, <2>1, <2>2, <2>3, AddressedEqual
<1>10. QED
  BY <1>9 DEF list

-----------------------------------------------------------------------------
(* The backlog of a subscriber *)

\* A channel's history is numbered up to its newest event.
Numbered(ch) ==
  /\ Len(ch.history) <= ch.seq
  /\ \A i \in 1..Len(ch.history) : ch.history[i].seq = ch.seq - Len(ch.history) + i - 1

\* publish() numbers the next event and may forget the oldest one.
LEMMA RecordedNumbered ==
  ASSUME NEW ch \in ChannelRec, Numbered(ch), NEW type \in EventType
  PROVE  Numbered(Recorded(ch, type))
<1> DEFINE e == NextEvent(ch, type)
           h == AppendBounded(ch.history, e, MaxHistory)
           r == Recorded(ch, type)
<1>1. ch.seq \in Nat /\ ch.history \in Seq(Event) /\ e \in Event /\ e.seq = ch.seq
      /\ Len(ch.history) \in Nat
  BY DEF ChannelRec, NextEvent, Event
<1>2. r.seq = ch.seq + 1 /\ r.history = h
  <2>1. r = [ch EXCEPT !.seq = ch.seq + 1, !.history = h]
    BY DEF Recorded
  <2> HIDE DEF r, h
  <2>2. r = [open |-> ch.open, seq |-> ch.seq + 1, history |-> h, subscribers |-> ch.subscribers]
    BY <2>1 DEF ChannelRec
  <2>3. QED
    BY <2>2
<1> HIDE DEF e, r
<1>3. MaxHistory \in Nat \ {0}
  BY SizesAssumption
<1>4. CASE Len(ch.history) < MaxHistory
  <2>1. h = Append(ch.history, e)
    BY <1>4 DEF AppendBounded
  <2>2. Len(h) = Len(ch.history) + 1 /\ h[Len(ch.history) + 1] = e
        /\ \A i \in 1..Len(ch.history) : h[i] = ch.history[i]
    BY <1>1, <2>1, AppendProperties
  <2> HIDE DEF h
  <2>3. ASSUME NEW i \in 1..Len(h) PROVE h[i].seq = (ch.seq + 1) - Len(h) + i - 1
    <3>1. CASE i = Len(ch.history) + 1
      <4>1. h[i].seq = ch.seq
        BY <1>1, <2>2, <3>1
      <4>2. (ch.seq + 1) - Len(h) + i - 1 = ch.seq
        BY <1>1, <2>2, <3>1
      <4>3. QED
        BY <4>1, <4>2
    <3>2. CASE i \in 1..Len(ch.history)
      <4>1. ch.history[i].seq = ch.seq - Len(ch.history) + i - 1
        BY <3>2 DEF Numbered
      <4>2. QED
        BY <1>1, <2>2, <3>2, <4>1
    <3>3. QED
      BY <1>1, <2>2, <3>1, <3>2
  <2>4. QED
    BY <1>1, <1>2, <2>2, <2>3 DEF Numbered, r
<1>5. CASE ~(Len(ch.history) < MaxHistory)
  <2> DEFINE tl == Tail(ch.history)
  <2>1. h = Append(tl, e)
    BY <1>5 DEF AppendBounded
  <2>2. ch.history # <<>>
    BY <1>1, <1>3, <1>5
  <2>3. /\ tl \in Seq(Event) /\ Len(tl) = Len(ch.history) - 1
        /\ \A i \in 1..Len(tl) : tl[i] = ch.history[i + 1]
    BY <1>1, <2>2, HeadTailProperties
  <2> HIDE DEF tl, h
  <2>4. Len(h) = Len(ch.history) /\ h[Len(ch.history)] = e
        /\ \A i \in 1..(Len(ch.history) - 1) : h[i] = ch.history[i + 1]
    BY <1>1, <2>1, <2>3, AppendProperties
  <2>5. ASSUME NEW i \in 1..Len(h) PROVE h[i].seq = (ch.seq + 1) - Len(h) + i - 1
    <3>1. CASE i = Len(ch.history)
      BY <1>1, <2>4, <3>1
    <3>2. CASE i \in 1..(Len(ch.history) - 1)
      <4>1. i + 1 \in 1..Len(ch.history)
        BY <1>1, <3>2
      <4>2. ch.history[i + 1].seq = ch.seq - Len(ch.history) + (i + 1) - 1
        BY <4>1 DEF Numbered
      <4>3. (ch.seq + 1) - Len(h) + i - 1 = ch.seq - Len(ch.history) + (i + 1) - 1
        BY <1>1, <2>4
      <4>4. QED
        BY <2>4, <3>2, <4>2, <4>3
    <3>3. QED
      BY <1>1, <2>4, <3>1, <3>2
  <2>6. QED
    BY <1>1, <1>2, <2>4, <2>5 DEF Numbered, r
<1>6. QED
  BY <1>4, <1>5

\* What a new subscriber is due first starts after its starting point and is complete.
LEMMA BacklogInOrder ==
  ASSUME NEW ch \in ChannelRec, Numbered(ch), NEW id \in Int, -1 <= id
  PROVE  /\ InOrder(StartingPoint(ch, id), Backlog(ch, id), ch.seq)
         /\ Gapless(StartingPoint(ch, id), Backlog(ch, id))
<1> DEFINE hist == ch.history
           len == Len(hist)
           oldest == ch.seq - len
           S == {e \in Event : e.seq > id}
           n == StartingPoint(ch, id)
           k == n + 1 - oldest
           before == SubSeq(hist, 1, k)
           after == SubSeq(hist, k + 1, len)
<1>1. ch.seq \in Nat /\ hist \in Seq(Event) /\ len \in Nat /\ oldest \in Nat
  BY DEF ChannelRec, Numbered
<1>2. \A i \in 1..len : hist[i] \in Event /\ hist[i].seq = oldest + i - 1
  BY <1>1 DEF Numbered
<1>3. Backlog(ch, id) = Selected(hist, S)
  BY DEF Backlog
<1>4. n = IF id >= ch.seq THEN ch.seq - 1 ELSE IF id >= oldest THEN id ELSE oldest - 1
  BY DEF StartingPoint
<1> HIDE DEF hist, n, oldest
<1>5. oldest + len = ch.seq
  BY <1>1 DEF oldest, hist
<1> HIDE DEF len
<1>6. n \in Int /\ k \in 0..len
  BY <1>1, <1>4, <1>5
<1>7. \A i \in 1..len : hist[i] \in S <=> i > k
  BY <1>1, <1>2, <1>4, <1>5
<1> HIDE DEF S
<1>8. before \in Seq(Event) /\ Len(before) = k /\ \A i \in 1..Len(before) : before[i] = hist[i]
  <2>1. \A i \in 1..k : hist[i] \in Event
    BY <1>1, <1>2, <1>6
  <2>2. QED
    BY <1>6, <2>1, SubSeqProperties
<1>9. /\ after \in Seq(Event) /\ Len(after) = len - k
      /\ \A i \in 1..Len(after) : after[i] = hist[k + i]
  <2>1. \A i \in (k + 1)..len : hist[i] \in Event
    BY <1>1, <1>2, <1>6
  <2>2. k + 1 \in Int /\ len \in Int
    BY <1>1, <1>6
  <2>3. QED
    BY <1>1, <1>6, <2>1, <2>2, SubSeqProperties
<1>10. hist = before \o after
  <2>1. before \o after \in Seq(Event) /\ Len(before \o after) = len
    BY <1>1, <1>6, <1>8, <1>9, ConcatProperties
  <2>2. ASSUME NEW i \in 1..len PROVE hist[i] = (before \o after)[i]
    <3>1. (before \o after)[i] = IF i <= k THEN before[i] ELSE after[i - k]
      BY <1>1, <1>6, <1>8, <1>9, ConcatProperties
    <3>2. i > k => i - k \in 1..Len(after) /\ k + (i - k) = i
      BY <1>1, <1>6, <1>9
    <3>3. QED
      BY <1>1, <1>6, <1>8, <1>9, <3>1, <3>2
  <2>3. QED
    BY <1>1, <2>1, <2>2, SeqEqual DEF len
<1> HIDE DEF before, after, k
<1>11. Selected(before, S) = <<>>
  <2>1. \A i \in 1..Len(before) : before[i] \notin S
    <3>1. TAKE i \in 1..Len(before)
    <3>2. i \in 1..len /\ ~(i > k) /\ before[i] = hist[i]
      BY <1>1, <1>6, <1>8
    <3>3. QED
      BY <1>7, <3>2
  <2>2. QED
    BY <1>8, <2>1, SelectedNone
<1>12. Selected(after, S) = after
  <2>1. \A i \in 1..Len(after) : after[i] \in S
    BY <1>1, <1>6, <1>7, <1>9
  <2>2. QED
    BY <1>9, <2>1, SelectedAll
<1>13. Backlog(ch, id) = after
  <2>1. Selected(before \o after, S) = Selected(before, S) \o Selected(after, S)
    BY <1>8, <1>9, SelectedConcat
  <2>2. <<>> \o after = after
    BY <1>9, ConcatEmptySeq
  <2>3. QED
    BY <1>3, <1>10, <1>11, <1>12, <2>1, <2>2
<1>14. ASSUME NEW i \in 1..Len(after) PROVE after[i].seq = n + i
  <2>1. k + i \in 1..len
    BY <1>1, <1>6, <1>9
  <2>2. after[i].seq = oldest + (k + i) - 1
    BY <1>2, <1>9, <2>1
  <2>3. QED
    BY <1>1, <1>6, <2>2 DEF k
<1>15. n + Len(after) = ch.seq - 1
  BY <1>1, <1>5, <1>6, <1>9 DEF k
<1>16. Len(after) \in Nat /\ (after = <<>> <=> Len(after) = 0)
  BY <1>9, EmptySeq
<1>17. InOrder(n, after, ch.seq) /\ Gapless(n, after)
  BY <1>6, <1>14, <1>15, <1>16 DEF InOrder, Gapless
<1>18. QED
  BY <1>13, <1>17 DEF n

-----------------------------------------------------------------------------
(* The inductive invariant *)

\* Where a request is while it has the lock of its run.
PassPC == {"running", "settled", "close", "unlock"}
\* A connection that has not subscribed.
Early == {"idle", "connecting"}

\* The run's lock: held by the one request that is in its pass, and only such a
\* request has anything to hand to the loop.
Locking ==
  /\ \A h \in Handler : handler[h].pc \in PassPC => holder[handler[h].run] = h
  /\ \A t \in Run : holder[t] # NoHandler =>
       handler[holder[t]].pc \in PassPC /\ handler[holder[t]].run = t
  /\ \A h \in Handler : handler[h].pc \notin PassPC => handler[h].out = <<>>

\* A channel's history ends with its newest event, and its subscribers are attached to
\* it, each once.
ChannelOK(t) ==
  /\ Numbered(channel[t])
  /\ ~channel[t].open => channel[t].subscribers = <<>>
  /\ \A i \in 1..Len(channel[t].subscribers) :
       LET s == channel[t].subscribers[i] IN conn[s].state = "attached" /\ conn[s].run = t
  /\ \A i, j \in 1..Len(channel[t].subscribers) :
       channel[t].subscribers[i] = channel[t].subscribers[j] => i = j

\* Mail is for connections that have subscribed, a publisher's to its own run.
Addressing ==
  /\ \A i \in 1..Len(callbacks) : conn[callbacks[i][1]].state \notin Early
  /\ \A h \in Handler : \A i \in 1..Len(handler[h].out) :
       /\ conn[handler[h].out[i][1]].state \notin Early
       /\ conn[handler[h].out[i][1]].run = handler[h].run

\* What has not subscribed has nothing to read; clients quote ids from -1 on.
Fresh ==
  \A s \in Connection :
    /\ conn[s].state \in Early => conn[s].queue = <<>> /\ conn[s].backlog = <<>>
    /\ -1 <= conn[s].last_event_id

\* A list of mail has no sentinel and no marker for s.
OnlyEvents(s, list) == \A i \in 1..Len(list) : list[i][1] = s => list[i][2] \in Event

\* Nobody is told of the end of a run it is still registered with.
Eventful(s) ==
  Registered(s) => OnlyEvents(s, callbacks) /\ \A h \in Handler : OnlyEvents(s, handler[h].out)

\* What the run's publisher has still to hand over to s.
Unsent(s) ==
  IF holder[conn[s].run] = NoHandler THEN <<>> ELSE Addressed(s, handler[holder[conn[s].run]].out)

\* Everything on its way to s, first come first.
Feed(s) == conn[s].backlog \o conn[s].queue \o Addressed(s, callbacks) \o Unsent(s)

\* The events among it.
Coming(s) == Selected(Feed(s), Event)

\* What is coming to a registered connection continues what it read, up to the newest.
InFeedOrder(s) ==
  Registered(s) =>
    /\ InOrder(seen[s], Coming(s), channel[conn[s].run].seq)
    /\ ~evicted[s] => Gapless(seen[s], Coming(s))

\* The inductive invariant.
OrderInv ==
  /\ TypeInv
  /\ Locking
  /\ \A t \in Run : ChannelOK(t)
  /\ Addressing
  /\ Fresh
  /\ \A s \in Connection : Eventful(s)
  /\ \A s \in Connection : InFeedOrder(s)

-----------------------------------------------------------------------------
(* Feeds *)

\* What the types say of one connection.
LEMMA ConnFacts ==
  ASSUME TypeInv, NEW s \in Connection
  PROVE  /\ conn[s] \in ConnRec /\ conn[s].backlog \in Seq(Event) /\ conn[s].backlog \in Seq(Item)
         /\ conn[s].queue \in Seq(Item) /\ Len(conn[s].queue) <= MaxQueue
         /\ conn[s].last_event_id \in Int
         /\ conn[s].state # "idle" => conn[s].run \in Run
         /\ seen[s] \in Int /\ evicted[s] \in BOOLEAN /\ conn[s].dropped \in BOOLEAN
<1>1. conn[s] \in ConnRec /\ Len(conn[s].queue) <= MaxQueue
      /\ (conn[s].state # "idle" => conn[s].run \in Run)
  BY DEF TypeInv, ConnsTyped, ConnOK
<1>2. conn[s].backlog \in Seq(Event) /\ conn[s].queue \in Seq(Item) /\ conn[s].last_event_id \in Int
      /\ conn[s].dropped \in BOOLEAN
  BY <1>1 DEF ConnRec
<1>3. conn[s].backlog \in Seq(Item)
  BY <1>2, ItemKinds, SeqMonotonic
<1>4. seen[s] \in Int /\ evicted[s] \in BOOLEAN
  BY DEF TypeInv
<1>5. QED
  BY <1>1, <1>2, <1>3, <1>4

\* What the types say of one handler.
LEMMA HandlerFacts ==
  ASSUME TypeInv, NEW h \in Handler
  PROVE  /\ handler[h] \in HandlerRec /\ handler[h].out \in Seq(Mail)
         /\ handler[h].pc # "idle" => handler[h].run \in Run
         /\ handler[h].pc \in PassPC => handler[h].run \in Run
BY DEF TypeInv, HandlersTyped, HandlerRec, PassPC

\* The parts of a feed are sequences of items.
LEMMA UnsentType ==
  ASSUME TypeInv, NEW s \in Connection, conn[s].run \in Run
  PROVE  Unsent(s) \in Seq(Item)
<1>1. holder[conn[s].run] \in Handler \cup {NoHandler}
  BY DEF TypeInv
<1>2. CASE holder[conn[s].run] = NoHandler
  BY <1>2 DEF Unsent
<1>3. CASE holder[conn[s].run] # NoHandler
  <2>1. handler[holder[conn[s].run]].out \in Seq(Mail)
    BY <1>1, <1>3, HandlerFacts
  <2>2. QED
    BY <1>3, <2>1, AddressedFacts DEF Unsent
<1>4. QED
  BY <1>2, <1>3

LEMMA MailType ==
  ASSUME TypeInv, NEW s \in Connection
  PROVE  Addressed(s, callbacks) \in Seq(Item)
BY AddressedFacts DEF TypeInv

\* A feed is a sequence of items, and what is coming of events.
LEMMA ComingType ==
  ASSUME TypeInv, NEW s \in Connection, conn[s].run \in Run
  PROVE  Feed(s) \in Seq(Item) /\ Coming(s) \in Seq(Event)
<1>1. /\ conn[s].backlog \in Seq(Item) /\ conn[s].queue \in Seq(Item)
      /\ Addressed(s, callbacks) \in Seq(Item) /\ Unsent(s) \in Seq(Item)
  BY ConnFacts, MailType, UnsentType
<1>2. Feed(s) \in Seq(Item)
  BY <1>1, ConcatProperties DEF Feed
<1>3. Coming(s) \in Seq(Item \cap Event)
  BY <1>2, SelectedType DEF Coming
<1>4. Item \cap Event \subseteq Event
  OBVIOUS
<1> HIDE DEF Coming
<1>5. QED
  BY <1>2, <1>3, <1>4, SeqMonotonic

\* A registered connection is once among the subscribers of an open channel.
LEMMA RegisteredFacts ==
  ASSUME OrderInv, NEW s \in Connection, Registered(s)
  PROVE  /\ conn[s].state = "attached" /\ conn[s].run \in Run
         /\ channel[conn[s].run].open /\ channel[conn[s].run].subscribers # <<>>
         /\ \E k \in 1..Len(channel[conn[s].run].subscribers) :
              /\ channel[conn[s].run].subscribers[k] = s
              /\ \A i \in 1..Len(channel[conn[s].run].subscribers) :
                   channel[conn[s].run].subscribers[i] = s => i = k
<1>1. conn[s].state = "attached" /\ conn[s].run \in Run
  BY ConnFacts DEF OrderInv, Registered, Attached
<1> DEFINE subs == channel[conn[s].run].subscribers
<1>2. PICK k \in 1..Len(subs) : subs[k] = s
  BY DEF Registered, Contains
<1>3. subs # <<>>
  BY <1>2
<1>4. ChannelOK(conn[s].run)
  BY <1>1 DEF OrderInv
<1>5. channel[conn[s].run].open
  BY <1>3, <1>4 DEF ChannelOK
<1>6. \A i \in 1..Len(subs) : subs[i] = s => i = k
  BY <1>2, <1>4 DEF ChannelOK
<1>7. QED
  BY <1>1, <1>2, <1>3, <1>5, <1>6

\* A step that touches nothing of a connection's feed leaves it in order.
LEMMA FeedSame ==
  ASSUME NEW s \in Connection, InFeedOrder(s),
         conn'[s] = conn[s], seen'[s] = seen[s], evicted'[s] = evicted[s],
         Addressed(s, callbacks') = Addressed(s, callbacks), Unsent(s)' = Unsent(s),
         Registered(s)' => Registered(s) /\ channel'[conn[s].run].seq = channel[conn[s].run].seq
  PROVE  InFeedOrder(s)'
<1>1. Feed(s)' = Feed(s)
  BY DEF Feed
<1>2. Coming(s)' = Coming(s)
  BY <1>1 DEF Coming
<1> HIDE DEF Coming, Registered, InOrder, Gapless
<1>3. QED
  BY <1>2 DEF InFeedOrder

-----------------------------------------------------------------------------
(* Handlers *)

\* Handler h gets this label, run and mail, and the others stay as they are.
Becomes(h, pc, run, out) ==
  /\ \A g \in Handler : g # h => handler'[g] = handler[g]
  /\ handler'[h].pc = pc /\ handler'[h].run = run /\ handler'[h].out = out

\* The ways the actions change a handler, as Becomes.
LEMMA BecomesSet ==
  ASSUME TypeInv, NEW h \in Handler, NEW r, handler' = [handler EXCEPT ![h] = r]
  PROVE  Becomes(h, r.pc, r.run, r.out)
BY DEF Becomes, TypeInv, HandlersTyped

LEMMA BecomesGoTo ==
  ASSUME TypeInv, NEW h \in Handler, NEW label \in HandlerPC, GoTo(h, label)
  PROVE  Becomes(h, label, handler[h].run, handler[h].out)
<1> DEFINE r == [handler[h] EXCEPT !.pc = label]
<1>1. handler[h] \in HandlerRec
  BY HandlerFacts
<1>2. r \in HandlerRec
  BY <1>1, HandlerUpdates
<1>3. r.pc = label /\ r.run = handler[h].run /\ r.out = handler[h].out
  BY <1>1, <1>2 DEF HandlerRec
<1>4. handler' = [handler EXCEPT ![h] = r]
  BY DEF GoTo
<1> HIDE DEF r
<1>5. Becomes(h, r.pc, r.run, r.out)
  BY <1>4, BecomesSet
<1>6. QED
  BY <1>3, <1>5

LEMMA BecomesWorkOn ==
  ASSUME TypeInv, NEW h \in Handler, NEW t \in Run, NEW label \in HandlerPC, WorkOn(h, t, label)
  PROVE  Becomes(h, label, t, handler[h].out)
<1> DEFINE r == [handler[h] EXCEPT !.run = t, !.pc = label]
<1>1. handler[h] \in HandlerRec
  BY HandlerFacts
<1>2. r \in HandlerRec
  BY <1>1, HandlerUpdates
<1>3. r.pc = label /\ r.run = t /\ r.out = handler[h].out
  BY <1>1, <1>2 DEF HandlerRec
<1>4. handler' = [handler EXCEPT ![h] = r]
  BY DEF WorkOn
<1> HIDE DEF r
<1>5. Becomes(h, r.pc, r.run, r.out)
  BY <1>4, BecomesSet
<1>6. QED
  BY <1>3, <1>5

LEMMA BecomesOut ==
  ASSUME TypeInv, NEW h \in Handler, NEW updated \in HandlerRec, NEW out \in Seq(Mail),
         handler' = [handler EXCEPT ![h] = [updated EXCEPT !.out = out]]
  PROVE  Becomes(h, updated.pc, updated.run, out)
<1> DEFINE r == [updated EXCEPT !.out = out]
<1>1. r \in HandlerRec
  BY HandlerUpdates
<1>2. r.pc = updated.pc /\ r.run = updated.run /\ r.out = out
  BY <1>1 DEF HandlerRec
<1> HIDE DEF r
<1>3. Becomes(h, r.pc, r.run, r.out)
  BY BecomesSet DEF r
<1>4. QED
  BY <1>2, <1>3

\* A request that stays outside the run's lock, or inside it.
LEMMA LockingKept ==
  ASSUME TypeInv, Locking, NEW h \in Handler, NEW pc, NEW run, NEW out, Becomes(h, pc, run, out),
         UNCHANGED holder,
         \/ handler[h].pc \notin PassPC /\ pc \notin PassPC /\ out = <<>>
         \/ handler[h].pc \in PassPC /\ pc \in PassPC /\ run = handler[h].run
  PROVE  Locking'
<1> USE DEF Becomes
<1>1. ASSUME NEW g \in Handler, handler'[g].pc \in PassPC PROVE holder'[handler'[g].run] = g
  BY <1>1 DEF Locking
<1>2. ASSUME NEW t \in Run, holder'[t] # NoHandler
      PROVE  handler'[holder'[t]].pc \in PassPC /\ handler'[holder'[t]].run = t
  <2>1. holder[t] \in Handler /\ handler[holder[t]].pc \in PassPC /\ handler[holder[t]].run = t
    BY <1>2 DEF Locking, TypeInv
  <2>2. QED
    BY <2>1
<1>3. ASSUME NEW g \in Handler, handler'[g].pc \notin PassPC PROVE handler'[g].out = <<>>
  BY <1>3 DEF Locking
<1>4. QED
  BY <1>1, <1>2, <1>3 DEF Locking

\* A pass on the run of s is where the unsent mail of s is.
LEMMA UnsentOf ==
  ASSUME TypeInv, Locking, NEW h \in Handler, handler[h].pc \in PassPC, NEW s \in Connection,
         conn[s].run = handler[h].run
  PROVE  Unsent(s) = Addressed(s, handler[h].out)
<1>1. holder[conn[s].run] = h /\ h # NoHandler
  BY StreamAssumption DEF Locking
<1>2. QED
  BY <1>1 DEF Unsent

\* Other passes have none for it.
LEMMA UnsentOfOthers ==
  ASSUME TypeInv, NEW h \in Handler, NEW s \in Connection, conn[s].run \in Run,
         holder[conn[s].run] # h, UNCHANGED <<holder, conn>>,
         \A g \in Handler : g # h => handler'[g] = handler[g]
  PROVE  Unsent(s)' = Unsent(s)
<1>1. holder[conn[s].run] = NoHandler \/ holder[conn[s].run] \in Handler \ {h}
  BY DEF TypeInv
<1>2. QED
  BY <1>1 DEF Unsent

-----------------------------------------------------------------------------
(* Requests up to the run's lock *)

\* What a request does before it has the lock: its own bookkeeping, and channels that
\* it sweeps or opens, which have no subscriber then.
Preparing(h) ==
  /\ \E pc \in HandlerPC \ PassPC, run \in Run : Becomes(h, pc, run, <<>>)
  /\ handler[h].pc \notin PassPC /\ handler[h].out = <<>>
  /\ \A t \in Run : channel'[t] = channel[t] \/ channel'[t] = NoChannel \/ channel'[t] = NewChannel
  /\ UNCHANGED <<holder, callbacks, conn, history>>

\* Sweeping and opening leaves a channel as it is, closed or new.
LEMMA SweptThenOpened ==
  ASSUME TypeInv, NEW stale \in SUBSET Run, NEW u \in Run, channel' = Opened(Swept(stale), u)
  PROVE  \A t \in Run : channel'[t] = channel[t] \/ channel'[t] = NoChannel \/ channel'[t] = NewChannel
<1> DEFINE w == Swept(stale)
<1>1. w \in [Run -> ChannelRec] /\ \A t \in Run : w[t] = channel[t] \/ w[t] = NoChannel
  BY SweptRegistry DEF TypeInv, RegistryTyped, Swept
<1> HIDE DEF w
<1>2. channel' = w \/ channel' = [w EXCEPT ![u] = NewChannel]
  BY DEF Opened, w
<1>3. QED
  BY <1>1, <1>2

\* Every step of a request up to the lock is of this form,
LEMMA RequestPrepares ==
  ASSUME OrderInv, NEW h \in Handler, NEW t \in Run,
         Reserve(h, t) \/ PostFresh(h, t) \/ Resume(h, t) \/ Post(h) \/ OpenChannel(h) \/ Refuse(h)
  PROVE  Preparing(h)
<1> USE DEF service, history
<1>1. handler[h].pc \notin PassPC
  BY DEF Reserve, PostFresh, Resume, Post, OpenChannel, Refuse, PassPC
<1>2. handler[h].out = <<>> /\ TypeInv
  BY <1>1 DEF OrderInv, Locking
<1>3. \A label \in {"reserved", "lock", "done", "open"} : label \in HandlerPC \ PassPC
  BY DEF HandlerPC, PassPC
<1>4. handler[h].pc # "idle" => handler[h].run \in Run
  BY <1>2, HandlerFacts
<1>5. CASE Reserve(h, t)
  <2>1. PICK stale \in SUBSET {u \in Run : Stale(u)} :
          /\ channel' = Opened(Swept(stale), t)
          /\ WorkOn(h, t, IF HasRoom(Swept(stale), t) THEN "reserved" ELSE "done")
    BY <1>5 DEF Reserve
  <2>2. \E pc \in HandlerPC \ PassPC : Becomes(h, pc, t, <<>>)
    <3> DEFINE label == IF HasRoom(Swept(stale), t) THEN "reserved" ELSE "done"
    <3>1. label \in HandlerPC \ PassPC /\ WorkOn(h, t, label)
      BY <1>3, <2>1
    <3> HIDE DEF label
    <3>2. QED
      BY <1>2, <3>1, BecomesWorkOn
  <2>3. \A u \in Run : channel'[u] = channel[u] \/ channel'[u] = NoChannel \/ channel'[u] = NewChannel
    BY <1>2, <2>1, SweptThenOpened
  <2>4. QED
    BY <1>1, <1>2, <1>5, <2>2, <2>3 DEF Preparing, Reserve
<1>6. CASE PostFresh(h, t)
  <2>1. Becomes(h, "lock", t, <<>>)
    BY <1>2, <1>3, <1>6, BecomesWorkOn DEF PostFresh
  <2>2. QED
    BY <1>1, <1>2, <1>3, <1>6, <2>1 DEF Preparing, PostFresh
<1>7. CASE Resume(h, t)
  <2>1. Becomes(h, "open", t, <<>>)
    BY <1>2, <1>3, <1>7, BecomesWorkOn DEF Resume
  <2>2. QED
    BY <1>1, <1>2, <1>3, <1>7, <2>1 DEF Preparing, Resume
<1>8. CASE Post(h)
  <2> DEFINE label == IF channel[RunOf(h)].open THEN "lock" ELSE "done"
             r == [handler[h] EXCEPT !.posted = TRUE, !.pc = label]
  <2>1. handler' = [handler EXCEPT ![h] = r]
    BY <1>8 DEF Post
  <2>2. label \in HandlerPC \ PassPC /\ handler[h].run \in Run
    BY <1>3, <1>4, <1>8 DEF Post
  <2> HIDE DEF label
  <2>a. handler[h] \in HandlerRec /\ r \in HandlerRec
    BY <1>2, <2>2, HandlerFacts, HandlerUpdates
  <2>b. r.pc = label /\ r.run = handler[h].run /\ r.out = handler[h].out
    BY <2>a DEF HandlerRec
  <2> HIDE DEF r
  <2>3. Becomes(h, label, handler[h].run, <<>>)
    <3>1. Becomes(h, r.pc, r.run, r.out)
      BY <1>2, <2>1, BecomesSet
    <3>2. QED
      BY <1>2, <2>b, <3>1
  <2>4. QED
    BY <1>1, <1>2, <1>8, <2>2, <2>3 DEF Preparing, Post
<1>9. CASE OpenChannel(h)
  <2>1. PICK stale \in SUBSET {u \in Run : Stale(u)} : channel' = Opened(Swept(stale), RunOf(h))
    BY <1>9 DEF OpenChannel
  <2>2. RunOf(h) \in Run /\ handler[h].run \in Run
    BY <1>4, <1>9 DEF OpenChannel, RunOf
  <2>3. \A u \in Run : channel'[u] = channel[u] \/ channel'[u] = NoChannel \/ channel'[u] = NewChannel
    BY <1>2, <2>1, <2>2, SweptThenOpened
  <2>4. Becomes(h, "lock", handler[h].run, <<>>)
    BY <1>2, <1>3, <1>9, BecomesGoTo DEF OpenChannel
  <2>5. QED
    BY <1>1, <1>2, <1>3, <1>9, <2>2, <2>3, <2>4 DEF Preparing, OpenChannel
<1>10. CASE Refuse(h)
  <2>1. Becomes(h, "done", handler[h].run, <<>>) /\ handler[h].run \in Run
    BY <1>2, <1>3, <1>4, <1>10, BecomesGoTo DEF Refuse
  <2>2. QED
    BY <1>1, <1>2, <1>3, <1>10, <2>1 DEF Preparing, Refuse
<1>11. QED
  BY <1>5, <1>6, <1>7, <1>8, <1>9, <1>10

\* Channels without history or subscribers are in order.
LEMMA EmptyChannelOK ==
  /\ Numbered(NoChannel) /\ Numbered(NewChannel)
  /\ Len(NoChannel.subscribers) = 0 /\ Len(NewChannel.subscribers) = 0
BY NoChannelType DEF Numbered

\* and keeps the order: a channel that is swept or opened takes its subscribers'
\* registration with it.
LEMMA PreparingKeepsOrder ==
  ASSUME OrderInv, NEW h \in Handler, Preparing(h), TypeInv'
  PROVE  OrderInv'
<1> USE DEF history
<1>1. TypeInv /\ Locking /\ Addressing /\ Fresh
  BY DEF OrderInv
<1>2. PICK pc \in HandlerPC \ PassPC, run \in Run : Becomes(h, pc, run, <<>>)
  BY DEF Preparing
<1>3. UNCHANGED <<holder, callbacks, conn, seen, evicted>>
  BY DEF Preparing
<1>4. Locking'
  BY <1>1, <1>2, <1>3, LockingKept DEF Preparing
<1>5. \A g \in Handler : handler'[g].out = handler[g].out /\ (g # h => handler'[g] = handler[g])
  BY <1>2 DEF Becomes, Preparing
<1>6. ASSUME NEW t \in Run PROVE ChannelOK(t)'
  <2>1. ChannelOK(t)
    BY DEF OrderInv
  <2>2. CASE channel'[t] = channel[t]
    BY <1>3, <2>1, <2>2 DEF ChannelOK
  <2>3. CASE channel'[t] = NoChannel \/ channel'[t] = NewChannel
    BY <2>3, EmptyChannelOK, NoChannelType DEF ChannelOK
  <2>4. QED
    BY <2>2, <2>3 DEF Preparing
<1>7. Addressing'
  <2>1. ASSUME NEW g \in Handler, NEW i \in 1..Len(handler'[g].out)
        PROVE  /\ conn'[handler'[g].out[i][1]].state \notin Early
               /\ conn'[handler'[g].out[i][1]].run = handler'[g].run
    <3>1. CASE g = h
      <4>1. handler'[g].out = <<>>
        BY <1>2, <3>1 DEF Becomes
      <4>2. QED
        BY <2>1, <4>1
    <3>2. CASE g # h
      BY <1>1, <1>3, <1>5, <2>1, <3>2 DEF Addressing
    <3>3. QED
      BY <3>1, <3>2
  <2>2. \A i \in 1..Len(callbacks') : conn'[callbacks'[i][1]].state \notin Early
    BY <1>1, <1>3 DEF Addressing
  <2>3. QED
    BY <2>1, <2>2 DEF Addressing
<1>8. Fresh'
  BY <1>1, <1>3 DEF Fresh
<1>9. ASSUME NEW s \in Connection, Registered(s)'
      PROVE  Registered(s) /\ channel'[conn[s].run].seq = channel[conn[s].run].seq
  <2>1. conn'[s] = conn[s] /\ conn[s].state = "attached" /\ conn[s].run \in Run
    BY <1>1, <1>3, <1>9, ConnFacts DEF Registered, Attached
  <2>2. PICK k \in 1..Len(channel'[conn[s].run].subscribers) : channel'[conn[s].run].subscribers[k] = s
    BY <1>9, <2>1 DEF Registered, Contains
  <2>3. channel'[conn[s].run] # NoChannel /\ channel'[conn[s].run] # NewChannel
    BY <2>2, EmptyChannelOK
  <2>4. channel'[conn[s].run] = channel[conn[s].run]
    BY <2>1, <2>3 DEF Preparing
  <2>5. QED
    BY <2>1, <2>2, <2>4 DEF Registered, Attached, Contains
<1>10. ASSUME NEW s \in Connection PROVE Eventful(s)' /\ InFeedOrder(s)'
  <2>1. Eventful(s) /\ InFeedOrder(s)
    BY DEF OrderInv
  <2>2. Eventful(s)'
    BY <1>3, <1>5, <1>9, <2>1 DEF Eventful, OnlyEvents
  <2>3. Unsent(s)' = Unsent(s) \/ ~Registered(s)'
    <3>1. CASE Registered(s)'
      <4>1. conn[s].run \in Run
        BY <1>1, <1>9, <3>1, ConnFacts DEF Registered, Attached
      <4>2. holder[conn[s].run] # h
        BY <1>1, <4>1, StreamAssumption DEF Locking, Preparing
      <4>3. QED
        BY <1>1, <1>3, <1>5, <4>1, <4>2, UnsentOfOthers
    <3>2. QED
      BY <3>1
  <2>4. InFeedOrder(s)'
    <3>1. CASE Registered(s)'
      BY <1>3, <1>9, <2>1, <2>3, <3>1, FeedSame
    <3>2. CASE ~Registered(s)'
      BY <3>2 DEF InFeedOrder
    <3>3. QED
      BY <3>1, <3>2
  <2>5. QED
    BY <2>2, <2>4
<1>11. QED
  BY <1>4, <1>6, <1>7, <1>8, <1>10 DEF OrderInv

-----------------------------------------------------------------------------
(* A pass, under the run's lock *)

\* A step that hands nothing over and leaves every connection and channel alone.
LEMMA QuietKeepsOrder ==
  ASSUME OrderInv, TypeInv', Locking', NEW h \in Handler, NEW pc,
         Becomes(h, pc, handler[h].run, handler[h].out),
         UNCHANGED <<channel, callbacks, conn, history>>,
         \A s \in Connection : conn[s].run \in Run => Unsent(s)' = Unsent(s)
  PROVE  OrderInv'
<1> USE DEF history
<1>1. TypeInv /\ Addressing /\ Fresh
  BY DEF OrderInv
<1>2. \A g \in Handler : handler'[g].out = handler[g].out /\ handler'[g].run = handler[g].run
  BY DEF Becomes
<1>3. \A t \in Run : ChannelOK(t)'
  BY DEF OrderInv, ChannelOK
<1>4. Addressing' /\ Fresh'
  BY <1>1, <1>2 DEF Addressing, Fresh
<1>5. ASSUME NEW s \in Connection PROVE Eventful(s)' /\ InFeedOrder(s)'
  <2>1. Eventful(s) /\ InFeedOrder(s)
    BY DEF OrderInv
  <2>2. Registered(s)' => Registered(s)
    BY DEF Registered, Attached
  <2>3. Eventful(s)'
    BY <1>2, <2>1, <2>2 DEF Eventful, OnlyEvents
  <2>4. CASE Registered(s)'
    <3>1. conn[s].run \in Run
      BY <1>1, <2>2, <2>4, ConnFacts DEF Registered, Attached
    <3>2. InFeedOrder(s)'
      BY <2>1, <2>2, <3>1, FeedSame
    <3>3. QED
      BY <2>3, <3>2
  <2>5. CASE ~Registered(s)'
    BY <2>3, <2>5 DEF InFeedOrder
  <2>6. QED
    BY <2>4, <2>5
<1>6. QED
  BY <1>3, <1>4, <1>5 DEF OrderInv

\* What is unsent stays so while a request keeps its lock and its mail.
LEMMA QuietKeepsUnsent ==
  ASSUME TypeInv, Locking, NEW h \in Handler, NEW pc \in PassPC, handler[h].pc \in PassPC,
         Becomes(h, pc, handler[h].run, handler[h].out), UNCHANGED <<holder, conn>>
  PROVE  Locking' /\ \A s \in Connection : conn[s].run \in Run => Unsent(s)' = Unsent(s)
<1>1. Locking'
  BY LockingKept
<1>2. ASSUME NEW s \in Connection, conn[s].run \in Run PROVE Unsent(s)' = Unsent(s)
  <2>1. CASE holder[conn[s].run] = h
    <3>1. h # NoHandler /\ handler'[h].out = handler[h].out
      BY StreamAssumption DEF Becomes
    <3>2. QED
      BY <2>1, <3>1 DEF Unsent
  <2>2. CASE holder[conn[s].run] # h
    BY <1>2, <2>2, UnsentOfOthers DEF Becomes
  <2>3. QED
    BY <2>1, <2>2
<1>3. QED
  BY <1>1, <1>2

\* No mail, nothing for anybody.
LEMMA EmptyMail == \A s \in Connection : Addressed(s, <<>>) = <<>>
<1>1. <<>> \in Seq(Mail) /\ \A i \in 1..Len(<<>>) : FALSE
  OBVIOUS
<1>2. QED
  BY <1>1, AddressedNone

\* A pass takes the lock with nothing to hand over,
LEMMA EnterKeepsOrder ==
  ASSUME OrderInv, TypeInv', NEW h \in Handler, Enter(h)
  PROVE  OrderInv'
<1> DEFINE t == handler[h].run
           r == [handler[h] EXCEPT !.pc = "running", !.left = MaxProgress]
<1>1. TypeInv /\ Locking /\ handler[h].pc = "lock" /\ holder[t] = NoHandler
      /\ holder' = [holder EXCEPT ![t] = h] /\ UNCHANGED <<channel, callbacks, conn, history>>
  BY DEF OrderInv, Enter, RunOf
<1>2. handler[h].out = <<>> /\ t \in Run
  BY <1>1, HandlerFacts DEF Locking, PassPC
<1>3. Becomes(h, "running", t, handler[h].out)
  <2>1. MaxProgress \in 0..MaxProgress /\ "running" \in HandlerPC
    BY StreamAssumption DEF HandlerPC
  <2>2. handler[h] \in HandlerRec
    BY <1>1, HandlerFacts
  <2>3. r \in HandlerRec
    BY <2>1, <2>2, HandlerUpdates
  <2>4. r.pc = "running" /\ r.run = t /\ r.out = handler[h].out
    BY <2>2, <2>3 DEF HandlerRec
  <2>5. handler' = [handler EXCEPT ![h] = r]
    BY DEF Enter
  <2> HIDE DEF r
  <2>6. Becomes(h, r.pc, r.run, r.out)
    BY <1>1, <2>5, BecomesSet
  <2>7. QED
    BY <2>4, <2>6
<1> HIDE DEF r
<1>4. \A u \in Run : holder'[u] = IF u = t THEN h ELSE holder[u]
  BY <1>1 DEF TypeInv
<1>5. Locking'
  <2>1. ASSUME NEW g \in Handler, handler'[g].pc \in PassPC PROVE holder'[handler'[g].run] = g
    <3>1. CASE g = h
      BY <1>2, <1>3, <1>4, <3>1 DEF Becomes
    <3>2. CASE g # h
      <4>1. handler'[g] = handler[g] /\ holder[handler[g].run] = g /\ g # NoHandler
        BY <1>1, <1>3, <2>1, <3>2, StreamAssumption DEF Becomes, Locking
      <4>2. handler[g].run \in Run /\ handler[g].run # t
        BY <1>1, <2>1, <4>1, HandlerFacts
      <4>3. QED
        BY <1>4, <4>1, <4>2
    <3>3. QED
      BY <3>1, <3>2
  <2>2. ASSUME NEW u \in Run, holder'[u] # NoHandler
        PROVE  handler'[holder'[u]].pc \in PassPC /\ handler'[holder'[u]].run = u
    <3>1. CASE u = t
      BY <1>3, <1>4, <3>1 DEF Becomes, PassPC
    <3>2. CASE u # t
      <4>1. /\ holder'[u] = holder[u] /\ holder[u] \in Handler
            /\ handler[holder[u]].pc \in PassPC /\ handler[holder[u]].run = u
        BY <1>1, <1>4, <2>2, <3>2 DEF Locking, TypeInv
      <4>2. holder[u] # h
        BY <1>1, <4>1 DEF PassPC
      <4>3. QED
        BY <1>3, <4>1, <4>2 DEF Becomes
    <3>3. QED
      BY <3>1, <3>2
  <2>3. \A g \in Handler : handler'[g].pc \notin PassPC => handler'[g].out = <<>>
    BY <1>1, <1>2, <1>3 DEF Becomes, Locking
  <2>4. QED
    BY <2>1, <2>2, <2>3 DEF Locking
<1>6. ASSUME NEW s \in Connection, conn[s].run \in Run PROVE Unsent(s)' = Unsent(s)
  <2>1. CASE conn[s].run = t
    <3>1. Unsent(s) = <<>>
      BY <1>1, <2>1 DEF Unsent
    <3>2. h # NoHandler /\ holder'[conn[s].run] = h /\ handler'[h].out = <<>>
      BY <1>2, <1>3, <1>4, <2>1, StreamAssumption DEF Becomes
    <3>3. Unsent(s)' = Addressed(s, <<>>)
      BY <1>1, <3>2 DEF Unsent
    <3>4. QED
      BY <3>1, <3>3, EmptyMail
  <2>2. CASE conn[s].run # t
    <3>1. holder'[conn[s].run] = holder[conn[s].run]
      BY <1>4, <1>6, <2>2
    <3>2. holder[conn[s].run] # NoHandler => handler'[holder[conn[s].run]] = handler[holder[conn[s].run]]
      <4>1. holder[conn[s].run] # NoHandler =>
              holder[conn[s].run] \in Handler /\ handler[holder[conn[s].run]].pc \in PassPC
        BY <1>1, <1>6 DEF TypeInv, Locking
      <4>2. handler[h].pc \notin PassPC
        BY <1>1 DEF PassPC
      <4>3. QED
        BY <1>3, <4>1, <4>2 DEF Becomes
    <3>3. QED
      BY <1>1, <3>1, <3>2 DEF Unsent
  <2>3. QED
    BY <2>1, <2>2
<1>7. QED
  BY <1>1, <1>3, <1>5, <1>6, QuietKeepsOrder

\* and gives it back with nothing left to hand over.
LEMMA UnlockKeepsOrder ==
  ASSUME OrderInv, TypeInv', NEW h \in Handler, Unlock(h)
  PROVE  OrderInv'
<1> DEFINE t == handler[h].run
<1>1. /\ TypeInv /\ Locking /\ handler[h].pc = "unlock" /\ handler[h].out = <<>>
      /\ holder' = [holder EXCEPT ![t] = NoHandler]
      /\ GoTo(h, "done") /\ UNCHANGED <<channel, callbacks, conn, history>>
  BY DEF OrderInv, Unlock, RunOf
<1>2. t \in Run /\ holder[t] = h
  BY <1>1, HandlerFacts DEF Locking, PassPC
<1>3. Becomes(h, "done", t, handler[h].out)
  BY <1>1, BecomesGoTo DEF HandlerPC
<1>4. \A u \in Run : holder'[u] = IF u = t THEN NoHandler ELSE holder[u]
  BY <1>1 DEF TypeInv
<1>5. Locking'
  <2>1. ASSUME NEW g \in Handler, handler'[g].pc \in PassPC PROVE holder'[handler'[g].run] = g
    <3>1. g # h
      BY <1>3, <2>1 DEF Becomes, PassPC
    <3>2. handler'[g] = handler[g] /\ holder[handler[g].run] = g /\ handler[g].run \in Run
      BY <1>1, <1>3, <2>1, <3>1, HandlerFacts DEF Becomes, Locking
    <3>3. QED
      BY <1>2, <1>4, <3>1, <3>2
  <2>2. ASSUME NEW u \in Run, holder'[u] # NoHandler
        PROVE  handler'[holder'[u]].pc \in PassPC /\ handler'[holder'[u]].run = u
    <3>1. u # t /\ holder'[u] = holder[u]
      BY <1>4, <2>2
    <3>2. holder[u] \in Handler /\ handler[holder[u]].pc \in PassPC /\ handler[holder[u]].run = u
      BY <1>1, <2>2, <3>1 DEF Locking, TypeInv
    <3>3. QED
      BY <1>3, <3>1, <3>2 DEF Becomes
  <2>3. \A g \in Handler : handler'[g].pc \notin PassPC => handler'[g].out = <<>>
    BY <1>1, <1>3 DEF Becomes, Locking
  <2>4. QED
    BY <2>1, <2>2, <2>3 DEF Locking
<1>6. ASSUME NEW s \in Connection, conn[s].run \in Run PROVE Unsent(s)' = Unsent(s)
  <2>1. CASE conn[s].run = t
    <3>1. Unsent(s) = <<>>
      BY <1>1, <1>2, <2>1, UnsentOf, EmptyMail DEF PassPC
    <3>2. Unsent(s)' = <<>>
      BY <1>1, <1>2, <1>4, <2>1 DEF Unsent
    <3>3. QED
      BY <3>1, <3>2
  <2>2. CASE conn[s].run # t
    <3>1. holder'[conn[s].run] = holder[conn[s].run]
      BY <1>4, <1>6, <2>2
    <3>2. holder[conn[s].run] # NoHandler => handler'[holder[conn[s].run]] = handler[holder[conn[s].run]]
      <4>1. holder[conn[s].run] # NoHandler =>
              holder[conn[s].run] \in Handler /\ handler[holder[conn[s].run]].run = conn[s].run
        BY <1>1, <1>6 DEF TypeInv, Locking
      <4>2. QED
        BY <1>3, <2>2, <4>1 DEF Becomes
    <3>3. QED
      BY <1>1, <3>1, <3>2 DEF Unsent
  <2>3. QED
    BY <2>1, <2>2
<1>7. QED
  BY <1>1, <1>3, <1>5, <1>6, QuietKeepsOrder

\* publish() has the new event for every subscriber once, and for nobody else.
LEMMA AnnouncedFacts ==
  ASSUME NEW ch \in ChannelRec, NEW type \in EventType
  PROVE  /\ Announced(ch, type) \in Seq(Mail) /\ Farewell(ch) \in Seq(Mail)
         /\ ch.open => Announced(ch, type) = [i \in DOMAIN ch.subscribers |->
                                                <<ch.subscribers[i], NextEvent(ch, type)>>]
         /\ ~ch.open => Announced(ch, type) = <<>>
         /\ \A i \in 1..Len(Announced(ch, type)) :
              /\ i \in 1..Len(ch.subscribers)
              /\ Announced(ch, type)[i][1] = ch.subscribers[i]
              /\ Announced(ch, type)[i][2] = NextEvent(ch, type)
         /\ \A i \in 1..Len(Farewell(ch)) :
              i \in 1..Len(ch.subscribers) /\ Farewell(ch)[i][1] = ch.subscribers[i]
<1>1. ch.subscribers \in Seq(Connection)
  BY DEF ChannelRec
<1> DEFINE subs == ch.subscribers
           e == NextEvent(ch, type)
<1>2. \A x : LET list == [i \in DOMAIN subs |-> <<subs[i], x>>]
             IN  \A i \in 1..Len(list) : /\ i \in 1..Len(subs)
                                         /\ list[i][1] = subs[i] /\ list[i][2] = x
  <2> HIDE DEF subs
  <2>1. subs \in Seq(Connection)
    BY <1>1 DEF subs
  <2>2. QED
    BY <2>1
<1>3. Announced(ch, type) \in Seq(Mail) /\ Farewell(ch) \in Seq(Mail)
  BY AnnouncedType
<1>4. ch.open => Announced(ch, type) = [i \in DOMAIN subs |-> <<subs[i], e>>]
  BY DEF Announced
<1>5. ~ch.open => Announced(ch, type) = <<>>
  BY DEF Announced
<1>6. Farewell(ch) = [i \in DOMAIN subs |-> <<subs[i], Done>>]
  BY DEF Farewell
<1> HIDE DEF subs, e
<1>7. \A i \in 1..Len(Announced(ch, type)) :
        i \in 1..Len(subs) /\ Announced(ch, type)[i][1] = subs[i] /\ Announced(ch, type)[i][2] = e
  <2>1. CASE ch.open
    BY <1>2, <1>4, <2>1
  <2>2. CASE ~ch.open
    BY <1>5, <2>2
  <2>3. QED
    BY <2>1, <2>2
<1>8. \A i \in 1..Len(Farewell(ch)) : i \in 1..Len(subs) /\ Farewell(ch)[i][1] = subs[i]
  BY <1>2, <1>6
<1>9. QED
  BY <1>3, <1>4, <1>5, <1>7, <1>8 DEF subs, e

\* One more item at the end of a feed.
LEMMA FeedGrows ==
  ASSUME NEW base \in Seq(Item), NEW e \in Event, NEW n \in Int, NEW top \in Int, e.seq = top,
         InOrder(n, Selected(base \o <<>>, Event), top)
  PROVE  /\ InOrder(n, Selected(base \o <<e>>, Event), top + 1)
         /\ Gapless(n, Selected(base \o <<>>, Event)) => Gapless(n, Selected(base \o <<e>>, Event))
<1> DEFINE es == Selected(base, Event)
<1>1. base \o <<>> = base
  BY ConcatEmptySeq
<1>2. e \in Item
  BY ItemKinds
<1>3. base \o <<e>> = Append(base, e)
  BY <1>2
<1>4. Selected(Append(base, e), Event) = Append(es, e)
  BY <1>2, SelectedAppend
<1>5. es \in Seq(Event)
  <2>1. es \in Seq(Item \cap Event)
    BY SelectedType
  <2> HIDE DEF es
  <2>2. QED
    BY <2>1, SeqMonotonic
<1> HIDE DEF es
<1>6. InOrder(n, es, top)
  BY <1>1 DEF es
<1>7. InOrder(n, Append(es, e), top + 1) /\ (Gapless(n, es) => Gapless(n, Append(es, e)))
  BY <1>5, <1>6, OrderAppend
<1>8. Selected(base \o <<>>, Event) = es /\ Selected(base \o <<e>>, Event) = Append(es, e)
  BY <1>1, <1>3, <1>4 DEF es
<1> HIDE DEF InOrder, Gapless
<1>9. QED
  BY <1>7, <1>8

\* publish() records an event and copies the subscribers in one step, so the feed of
\* each gets the next number at its end.
LEMMA PublishKeepsOrder ==
  ASSUME OrderInv, TypeInv', NEW h \in Handler, handler[h].pc \in PassPC, NEW type \in EventType,
         NEW updated \in HandlerRec, updated.pc \in PassPC, updated.run = handler[h].run,
         Publish(h, type, updated)
  PROVE  OrderInv'
<1> USE DEF history
<1> DEFINE t == handler[h].run
           ch == channel[t]
           out == Announced(ch, type)
           e == NextEvent(ch, type)
<1>1. TypeInv /\ Locking /\ Addressing /\ Fresh /\ \A u \in Run : ChannelOK(u)
  BY DEF OrderInv
<1>2. t \in Run /\ ch \in ChannelRec /\ Len(ch.history) <= MaxHistory
  <2>1. t \in Run
    BY <1>1, HandlerFacts
  <2>2. QED
    BY <1>1, <2>1, RegistryOf DEF TypeInv
<1>3. /\ handler[h].out = <<>>
      /\ handler' = [handler EXCEPT ![h] = [updated EXCEPT !.out = out]]
      /\ UNCHANGED <<phase, holder, callbacks, conn, seen, evicted>>
  BY DEF Publish, RunOf, service
<1>4. \A u \in Run : channel'[u] = IF u = t /\ ch.open THEN Recorded(ch, type) ELSE channel[u]
  BY <1>1, <1>2 DEF Publish, RunOf, TypeInv, RegistryTyped
<1>5. Becomes(h, updated.pc, t, out)
  BY <1>1, <1>2, <1>3, AnnouncedFacts, BecomesOut
<1>6. Locking'
  BY <1>1, <1>3, <1>5, LockingKept
<1>7. /\ Recorded(ch, type).open = ch.open /\ Recorded(ch, type).seq = ch.seq + 1
      /\ Recorded(ch, type).subscribers = ch.subscribers /\ e \in Event /\ e.seq = ch.seq
      /\ ch.seq \in Nat
  <2>1. e.seq = ch.seq
    BY DEF NextEvent
  <2>2. ch.seq \in Nat
    BY <1>2 DEF ChannelRec
  <2> HIDE DEF ch, t, e
  <2>3. QED
    BY <1>2, <2>1, <2>2, RecordedType DEF e
<1>8. ChannelOK(t) /\ Numbered(Recorded(ch, type))
  BY <1>1, <1>2, RecordedNumbered DEF ChannelOK
<1>9. /\ \A i \in 1..Len(out) :
           i \in 1..Len(ch.subscribers) /\ out[i][1] = ch.subscribers[i] /\ out[i][2] = e
      /\ ch.open => out = [i \in DOMAIN ch.subscribers |-> <<ch.subscribers[i], e>>]
  BY <1>2, AnnouncedFacts
<1> HIDE DEF out, e, ch, t
<1>10. ASSUME NEW u \in Run PROVE ChannelOK(u)'
  <2>1. CASE u = t /\ ch.open
    <3>1. channel'[u] = Recorded(ch, type) /\ channel[u] = ch
      BY <1>4, <2>1 DEF ch
    <3>2. channel'[u].subscribers = channel[u].subscribers /\ channel'[u].open = channel[u].open
      BY <1>7, <3>1
    <3>3. Numbered(channel'[u])
      BY <1>8, <3>1
    <3>4. ChannelOK(u)
      BY <1>8, <2>1
    <3> HIDE DEF Numbered
    <3>5. QED
      BY <1>3, <3>2, <3>3, <3>4 DEF ChannelOK
  <2>2. CASE ~(u = t /\ ch.open)
    <3>1. channel'[u] = channel[u] /\ ChannelOK(u)
      BY <1>1, <1>4, <2>2
    <3>2. QED
      BY <1>3, <3>1 DEF ChannelOK
  <2>3. QED
    BY <2>1, <2>2
<1>11. Addressing'
  <2>1. ASSUME NEW g \in Handler, NEW i \in 1..Len(handler'[g].out)
        PROVE  /\ conn'[handler'[g].out[i][1]].state \notin Early
               /\ conn'[handler'[g].out[i][1]].run = handler'[g].run
    <3>1. CASE g = h
      <4>1. handler'[g].out = out /\ handler'[g].run = t
        BY <1>5, <3>1 DEF Becomes
      <4>2. i \in 1..Len(ch.subscribers) /\ out[i][1] = ch.subscribers[i]
        BY <1>9, <2>1, <4>1
      <4>3. conn[ch.subscribers[i]].state = "attached" /\ conn[ch.subscribers[i]].run = t
        BY <1>8, <4>2 DEF ChannelOK, ch
      <4>4. QED
        BY <1>3, <4>1, <4>2, <4>3 DEF Early
    <3>2. CASE g # h
      BY <1>1, <1>3, <1>5, <2>1, <3>2 DEF Addressing, Becomes
    <3>3. QED
      BY <3>1, <3>2
  <2>2. \A i \in 1..Len(callbacks') : conn'[callbacks'[i][1]].state \notin Early
    BY <1>1, <1>3 DEF Addressing
  <2>3. QED
    BY <2>1, <2>2 DEF Addressing
<1>12. Fresh'
  BY <1>1, <1>3 DEF Fresh
<1>13. ASSUME NEW s \in Connection, Registered(s)' PROVE Registered(s) /\ conn[s].run \in Run
  <2>1. conn'[s] = conn[s] /\ conn[s].state = "attached" /\ conn[s].run \in Run
    BY <1>1, <1>3, <1>13, ConnFacts DEF Registered, Attached
  <2>2. channel'[conn[s].run].subscribers = channel[conn[s].run].subscribers
    BY <1>4, <1>7, <2>1 DEF ch
  <2>3. QED
    BY <1>13, <2>1, <2>2 DEF Registered, Attached
<1>14. ASSUME NEW s \in Connection PROVE Eventful(s)'
  <2>1. Eventful(s)
    BY DEF OrderInv
  <2>2. ASSUME Registered(s)', NEW g \in Handler PROVE OnlyEvents(s, handler'[g].out)
    <3>1. CASE g = h
      <4>1. handler'[g].out = out
        BY <1>5, <3>1 DEF Becomes
      <4>2. QED
        BY <1>7, <1>9, <4>1 DEF OnlyEvents
    <3>2. CASE g # h
      BY <1>5, <1>13, <2>1, <2>2, <3>2 DEF Eventful, Becomes
    <3>3. QED
      BY <3>1, <3>2
  <2>3. Registered(s)' => OnlyEvents(s, callbacks')
    BY <1>3, <1>13, <2>1 DEF Eventful
  <2>4. QED
    BY <2>2, <2>3 DEF Eventful
<1>15. ASSUME NEW s \in Connection PROVE InFeedOrder(s)'
  <2>1. InFeedOrder(s)
    BY DEF OrderInv
  <2>2. CASE ~Registered(s)'
    BY <2>2 DEF InFeedOrder
  <2>3. CASE Registered(s)' /\ conn[s].run # t
    <3>1. Registered(s) /\ conn[s].run \in Run /\ channel'[conn[s].run] = channel[conn[s].run]
      BY <1>4, <1>13, <2>3
    <3>2. holder[conn[s].run] # h
      BY <1>1, <2>3, <3>1, StreamAssumption DEF Locking, t
    <3>3. Unsent(s)' = Unsent(s)
      BY <1>1, <1>3, <1>5, <3>1, <3>2, UnsentOfOthers DEF Becomes
    <3>4. QED
      BY <1>3, <2>1, <2>3, <3>1, <3>3, FeedSame
  <2>4. CASE Registered(s)' /\ conn[s].run = t
    <3>1. Registered(s) /\ channel[conn[s].run] = ch /\ ch.open
      BY <1>13, <2>4, RegisteredFacts DEF ch
    <3>2. channel'[conn[s].run].seq = ch.seq + 1
      BY <1>2, <1>4, <1>7, <2>4, <3>1
    <3> DEFINE base == conn[s].backlog \o conn[s].queue \o Addressed(s, callbacks)
    <3>3. base \in Seq(Item)
      BY <1>1, ConnFacts, MailType, ConcatProperties
    <3>4. Unsent(s) = <<>>
      BY <1>1, <1>3, <2>4, UnsentOf, EmptyMail DEF t
    <3>5. Addressed(s, out) = <<e>>
      <4>1. PICK k \in 1..Len(ch.subscribers) :
               ch.subscribers[k] = s /\ \A i \in 1..Len(ch.subscribers) : ch.subscribers[i] = s => i = k
        BY <3>1, RegisteredFacts
      <4>2. ch.subscribers \in Seq(Connection) /\ e \in Item
        BY <1>2, <1>7, ItemKinds DEF ChannelRec
      <4>3. Addressed(s, [i \in DOMAIN ch.subscribers |-> <<ch.subscribers[i], e>>]) = <<e>>
        BY <4>1, <4>2, AddressedOnce
      <4>4. QED
        BY <1>9, <3>1, <4>3
    <3>6. Unsent(s)' = <<e>>
      <4>1. holder[conn[s].run] = h /\ h # NoHandler
        BY <1>1, <2>4, StreamAssumption DEF Locking, t
      <4>2. handler'[h].out = out
        BY <1>5 DEF Becomes
      <4>3. Unsent(s)' = Addressed(s, out)
        BY <1>3, <4>1, <4>2 DEF Unsent
      <4>4. QED
        BY <3>5, <4>3
    <3>7. Feed(s) = base \o <<>> /\ Feed(s)' = base \o <<e>>
      BY <1>3, <3>4, <3>6 DEF Feed
    <3> HIDE DEF base
    <3>8. /\ InOrder(seen[s], Selected(base \o <<>>, Event), ch.seq)
          /\ ~evicted[s] => Gapless(seen[s], Selected(base \o <<>>, Event))
      BY <2>1, <3>1, <3>7 DEF InFeedOrder, Coming
    <3>9. seen[s] \in Int /\ ch.seq \in Int
      BY <1>1, <1>7, ConnFacts
    <3>10. /\ InOrder(seen[s], Selected(base \o <<e>>, Event), ch.seq + 1)
           /\ ~evicted[s] => Gapless(seen[s], Selected(base \o <<e>>, Event))
      BY <1>7, <3>3, <3>8, <3>9, FeedGrows
    <3> HIDE DEF InOrder, Gapless
    <3>11. QED
      BY <1>3, <3>2, <3>7, <3>10 DEF InFeedOrder, Coming
  <2>5. QED
    BY <2>2, <2>3, <2>4
<1>16. QED
  BY <1>6, <1>10, <1>11, <1>12, <1>14, <1>15 DEF OrderInv

\* call_soon_threadsafe moves the front of the unsent mail to the end of the callbacks:
\* no feed changes.
LEMMA HandOverKeepsOrder ==
  ASSUME OrderInv, TypeInv', NEW h \in Handler, HandOver(h)
  PROVE  OrderInv'
<1> USE DEF history
<1> DEFINE t == handler[h].run
           out == handler[h].out
           m == Head(out)
<1>1. TypeInv /\ Locking /\ Addressing /\ Fresh /\ \A u \in Run : ChannelOK(u)
  BY DEF OrderInv
<1>2. /\ out # <<>> /\ callbacks' = Append(callbacks, m)
      /\ UNCHANGED <<phase, holder, channel, conn, seen, evicted>>
      /\ handler' = [handler EXCEPT ![h].out = Tail(out)]
  BY DEF HandOver, service
<1>3. /\ handler[h] \in HandlerRec /\ out \in Seq(Mail) /\ handler[h].pc \in PassPC /\ t \in Run
      /\ callbacks \in Seq(Mail)
  BY <1>1, <1>2, HandlerFacts DEF Locking, TypeInv
<1>4. /\ m \in Mail /\ Tail(out) \in Seq(Mail) /\ Len(out) \in Nat /\ Len(Tail(out)) = Len(out) - 1
      /\ \A i \in 1..Len(Tail(out)) : Tail(out)[i] = out[i + 1]
      /\ m = out[1] /\ 1 \in 1..Len(out)
  <2>1. Len(out) \in 1..Len(out) /\ Len(out) \in Nat
    BY <1>2, <1>3, NonEmpty
  <2>2. m = out[1] /\ 1 \in 1..Len(out)
    BY <1>2, <1>3, <2>1
  <2> HIDE DEF out
  <2>3. QED
    BY <1>2, <1>3, <2>1, <2>2, HeadTailProperties
<1>5. Becomes(h, handler[h].pc, t, Tail(out))
  <2>1. handler' = [handler EXCEPT ![h] = [handler[h] EXCEPT !.out = Tail(out)]]
    BY <1>2
  <2>2. QED
    BY <1>1, <1>3, <1>4, <2>1, BecomesOut
<1> HIDE DEF m, out, t
<1>6. Locking'
  <2>1. handler[h].run = t
    BY DEF t
  <2>2. QED
    BY <1>1, <1>2, <1>3, <1>5, <2>1, LockingKept
<1>7. \A u \in Run : ChannelOK(u)'
  BY <1>1, <1>2 DEF ChannelOK
<1>8. conn[m[1]].state \notin Early /\ conn[m[1]].run = t /\ m[1] \in Connection /\ m[2] \in Item
  BY <1>1, <1>3, <1>4 DEF Addressing, out, t, Mail
<1>9. Addressing'
  <2>1. ASSUME NEW g \in Handler, NEW i \in 1..Len(handler'[g].out)
        PROVE  /\ conn'[handler'[g].out[i][1]].state \notin Early
               /\ conn'[handler'[g].out[i][1]].run = handler'[g].run
    <3>1. CASE g = h
      <4>1. handler'[g].out = Tail(out) /\ handler'[g].run = t
        BY <1>5, <3>1 DEF Becomes
      <4>2. i + 1 \in 1..Len(out) /\ Tail(out)[i] = out[i + 1]
        BY <1>4, <2>1, <4>1
      <4>3. conn[out[i + 1][1]].state \notin Early /\ conn[out[i + 1][1]].run = t
        BY <1>1, <4>2 DEF Addressing, out, t
      <4>4. QED
        BY <1>2, <4>1, <4>2, <4>3
    <3>2. CASE g # h
      BY <1>1, <1>2, <1>5, <2>1, <3>2 DEF Addressing, Becomes
    <3>3. QED
      BY <3>1, <3>2
  <2>2. ASSUME NEW i \in 1..Len(callbacks') PROVE conn'[callbacks'[i][1]].state \notin Early
    <3>1. CASE i = Len(callbacks) + 1
      <4>1. callbacks'[i] = m
        BY <1>2, <1>3, <1>4, <3>1, AppendProperties
      <4>2. QED
        BY <1>2, <1>8, <4>1
    <3>2. CASE i # Len(callbacks) + 1
      <4>1. i \in 1..Len(callbacks) /\ callbacks'[i] = callbacks[i]
        BY <1>2, <1>3, <1>4, <2>2, <3>2, AppendProperties
      <4>2. QED
        BY <1>1, <1>2, <4>1 DEF Addressing
    <3>3. QED
      BY <3>1, <3>2
  <2>3. QED
    BY <2>1, <2>2 DEF Addressing
<1>10. Fresh'
  BY <1>1, <1>2 DEF Fresh
<1>11. ASSUME NEW s \in Connection, Registered(s)' PROVE Registered(s) /\ conn[s].run \in Run
  <2>1. Registered(s)
    BY <1>2, <1>11 DEF Registered, Attached
  <2>2. QED
    BY <2>1, RegisteredFacts
<1>12. ASSUME NEW s \in Connection PROVE Eventful(s)'
  <2>1. Eventful(s)
    BY DEF OrderInv
  <2>2. ASSUME Registered(s)', NEW g \in Handler PROVE OnlyEvents(s, handler'[g].out)
    <3>1. CASE g = h
      <4>1. handler'[g].out = Tail(out) /\ OnlyEvents(s, out)
        BY <1>5, <1>11, <2>1, <2>2, <3>1 DEF Becomes, Eventful, out
      <4>2. ASSUME NEW i \in 1..Len(Tail(out)), Tail(out)[i][1] = s PROVE Tail(out)[i][2] \in Event
        <5>1. i + 1 \in 1..Len(out) /\ Tail(out)[i] = out[i + 1]
          BY <1>4, <4>2
        <5>2. QED
          BY <4>1, <4>2, <5>1 DEF OnlyEvents
      <4>3. QED
        BY <4>1, <4>2 DEF OnlyEvents
    <3>2. CASE g # h
      BY <1>5, <1>11, <2>1, <2>2, <3>2 DEF Eventful, Becomes
    <3>3. QED
      BY <3>1, <3>2
  <2>3. ASSUME Registered(s)' PROVE OnlyEvents(s, callbacks')
    <3>1. OnlyEvents(s, callbacks) /\ OnlyEvents(s, out)
      BY <1>11, <2>1, <2>3 DEF Eventful, out
    <3>2. ASSUME NEW i \in 1..Len(callbacks'), callbacks'[i][1] = s PROVE callbacks'[i][2] \in Event
      <4>1. CASE i = Len(callbacks) + 1
        <5>1. callbacks'[i] = m
          BY <1>2, <1>3, <1>4, <4>1, AppendProperties
        <5>2. QED
          BY <1>4, <3>1, <3>2, <5>1 DEF OnlyEvents
      <4>2. CASE i # Len(callbacks) + 1
        <5>1. i \in 1..Len(callbacks) /\ callbacks'[i] = callbacks[i]
          BY <1>2, <1>3, <1>4, <3>2, <4>2, AppendProperties
        <5>2. QED
          BY <3>1, <3>2, <5>1 DEF OnlyEvents
      <4>3. QED
        BY <4>1, <4>2
    <3>3. QED
      BY <3>2 DEF OnlyEvents
  <2>4. QED
    BY <2>2, <2>3 DEF Eventful
<1>13. ASSUME NEW s \in Connection PROVE InFeedOrder(s)'
  <2>1. InFeedOrder(s)
    BY DEF OrderInv
  <2>2. CASE ~Registered(s)'
    BY <2>2 DEF InFeedOrder
  <2>3. CASE Registered(s)'
    <3>1. Registered(s) /\ conn[s].run \in Run
      BY <1>11, <2>3
    <3>2. Addressed(s, callbacks') = IF m[1] = s THEN Append(Addressed(s, callbacks), m[2])
                                                 ELSE Addressed(s, callbacks)
      BY <1>2, <1>3, <1>4, AddressedAppend
    <3>3. CASE conn[s].run # t
      <4>1. m[1] # s /\ holder[conn[s].run] # h
        BY <1>1, <1>8, <3>1, <3>3, StreamAssumption DEF Locking, t
      <4>2. Unsent(s)' = Unsent(s)
        BY <1>1, <1>2, <1>5, <3>1, <4>1, UnsentOfOthers DEF Becomes
      <4>3. QED
        BY <1>2, <2>1, <3>1, <3>2, <4>1, <4>2, FeedSame
    <3>4. CASE conn[s].run = t
      <4>1. Unsent(s) = Addressed(s, out)
        BY <1>1, <1>3, <3>4, UnsentOf DEF out, t
      <4>2. Unsent(s)' = Addressed(s, Tail(out))
        <5>1. holder[conn[s].run] = h /\ h # NoHandler
          BY <1>1, <1>3, <3>4, StreamAssumption DEF Locking, t
        <5>2. handler'[h].out = Tail(out)
          BY <1>5 DEF Becomes
        <5>3. QED
          BY <1>2, <5>1, <5>2 DEF Unsent
      <4>3. Addressed(s, out) = IF m[1] = s THEN <<m[2]>> \o Addressed(s, Tail(out))
                                            ELSE Addressed(s, Tail(out))
        BY <1>2, <1>3, AddressedTail DEF m
      <4>4. CASE m[1] # s
        BY <1>2, <2>1, <3>1, <3>2, <4>1, <4>2, <4>3, <4>4, FeedSame
      <4>5. CASE m[1] = s
        <5> DEFINE a == Addressed(s, callbacks)
                   u == Addressed(s, Tail(out))
                   bq == conn[s].backlog \o conn[s].queue
        <5>1. a \in Seq(Item) /\ u \in Seq(Item) /\ bq \in Seq(Item)
          BY <1>1, <1>4, AddressedFacts, ConnFacts, MailType, ConcatProperties
        <5>2. Feed(s) = (bq \o a) \o (<<m[2]>> \o u)
          BY <4>1, <4>3, <4>5 DEF Feed
        <5>3. Feed(s)' = (bq \o Append(a, m[2])) \o u
          BY <1>2, <3>2, <4>2, <4>5 DEF Feed
        <5> HIDE DEF a, u, bq
        <5>4. (bq \o Append(a, m[2])) \o u = (bq \o a) \o (<<m[2]>> \o u)
          <6>1. <<m[2]>> \in Seq(Item)
            BY <1>8
          <6>2. Append(a, m[2]) = a \o <<m[2]>>
            BY <1>8, <5>1
          <6>3. bq \o (a \o <<m[2]>>) = (bq \o a) \o <<m[2]>> /\ bq \o a \in Seq(Item)
            BY <5>1, <6>1, ConcatAssociative, ConcatProperties
          <6>4. ((bq \o a) \o <<m[2]>>) \o u = (bq \o a) \o (<<m[2]>> \o u)
            BY <5>1, <6>1, <6>3, ConcatAssociative
          <6>5. QED
            BY <6>2, <6>3, <6>4
        <5>5. Coming(s)' = Coming(s)
          BY <5>2, <5>3, <5>4 DEF Coming
        <5> HIDE DEF Coming, InOrder, Gapless
        <5>6. QED
          BY <1>2, <2>1, <3>1, <5>5 DEF InFeedOrder
      <4>6. QED
        BY <4>4, <4>5
    <3>5. QED
      BY <3>3, <3>4
  <2>4. QED
    BY <2>2, <2>3
<1>14. QED
  BY <1>6, <1>7, <1>9, <1>10, <1>12, <1>13 DEF OrderInv

\* close_channel() unregisters everybody it has the sentinel for.
LEMMA CloseKeepsOrder ==
  ASSUME OrderInv, TypeInv', NEW h \in Handler, CloseChannel(h)
  PROVE  OrderInv'
<1> USE DEF history
<1> DEFINE t == handler[h].run
           ch == channel[t]
           out == Farewell(ch)
           r == [handler[h] EXCEPT !.pc = "unlock", !.out = out]
<1>1. TypeInv /\ Locking /\ Addressing /\ Fresh /\ \A u \in Run : ChannelOK(u)
  BY DEF OrderInv
<1>2. /\ handler[h].pc = "close" /\ handler[h].out = <<>> /\ channel' = [channel EXCEPT ![t] = NoChannel]
      /\ handler' = [handler EXCEPT ![h] = r]
      /\ UNCHANGED <<phase, holder, callbacks, conn, seen, evicted>>
  BY DEF CloseChannel, RunOf, service
<1>3. handler[h] \in HandlerRec /\ handler[h].pc \in PassPC /\ t \in Run
  BY <1>1, <1>2, HandlerFacts DEF PassPC
<1>4. ch \in ChannelRec /\ ChannelOK(t)
  BY <1>1, <1>3, RegistryOf DEF TypeInv
<1>5. /\ out \in Seq(Mail)
      /\ \A i \in 1..Len(out) : i \in 1..Len(ch.subscribers) /\ out[i][1] = ch.subscribers[i]
  <2>1. "progress" \in EventType
    BY DEF EventType
  <2>2. QED
    BY <1>4, <2>1, AnnouncedFacts
<1>6. Becomes(h, "unlock", t, out)
  <2> HIDE DEF out, ch
  <2>1. "unlock" \in HandlerPC
    BY DEF HandlerPC
  <2>2. r \in HandlerRec
    BY <1>3, <1>5, <2>1, HandlerUpdates
  <2>3. r.pc = "unlock" /\ r.run = t /\ r.out = out
    BY <1>3, <2>2 DEF HandlerRec
  <2> HIDE DEF r
  <2>4. Becomes(h, r.pc, r.run, r.out)
    BY <1>1, <1>2, BecomesSet
  <2> HIDE DEF t
  <2>5. QED
    BY <2>3, <2>4
<1> HIDE DEF r
<1>7. \A u \in Run : channel'[u] = IF u = t THEN NoChannel ELSE channel[u]
  BY <1>1, <1>2 DEF TypeInv, RegistryTyped
<1> HIDE DEF out, ch
<1>8. Locking'
  BY <1>1, <1>2, <1>3, <1>6, LockingKept DEF PassPC
<1> HIDE DEF t
<1>9. ASSUME NEW u \in Run PROVE ChannelOK(u)'
  <2>1. CASE u = t
    BY <1>7, <2>1, EmptyChannelOK, NoChannelType DEF ChannelOK
  <2>2. CASE u # t
    <3>1. channel'[u] = channel[u] /\ ChannelOK(u)
      BY <1>1, <1>7, <2>2
    <3>2. QED
      BY <1>2, <3>1 DEF ChannelOK
  <2>3. QED
    BY <2>1, <2>2
<1>10. \A i \in 1..Len(out) : conn[out[i][1]].state = "attached" /\ conn[out[i][1]].run = t
  BY <1>4, <1>5 DEF ChannelOK, ch
<1>11. Addressing'
  <2>1. ASSUME NEW g \in Handler, NEW i \in 1..Len(handler'[g].out)
        PROVE  /\ conn'[handler'[g].out[i][1]].state \notin Early
               /\ conn'[handler'[g].out[i][1]].run = handler'[g].run
    <3>1. CASE g = h
      <4>1. handler'[g].out = out /\ handler'[g].run = t
        BY <1>6, <3>1 DEF Becomes
      <4>2. QED
        BY <1>2, <1>10, <2>1, <4>1 DEF Early
    <3>2. CASE g # h
      BY <1>1, <1>2, <1>6, <2>1, <3>2 DEF Addressing, Becomes
    <3>3. QED
      BY <3>1, <3>2
  <2>2. \A i \in 1..Len(callbacks') : conn'[callbacks'[i][1]].state \notin Early
    BY <1>1, <1>2 DEF Addressing
  <2>3. QED
    BY <2>1, <2>2 DEF Addressing
<1>12. Fresh'
  BY <1>1, <1>2 DEF Fresh
<1>13. ASSUME NEW s \in Connection, Registered(s)'
       PROVE  /\ Registered(s) /\ conn[s].run \in Run /\ conn[s].run # t
              /\ channel'[conn[s].run] = channel[conn[s].run]
  <2>1. conn'[s] = conn[s] /\ conn[s].state = "attached" /\ conn[s].run \in Run
    BY <1>1, <1>2, <1>13, ConnFacts DEF Registered, Attached
  <2>2. channel'[conn[s].run] # NoChannel
    BY <1>13, <2>1, EmptyChannelOK DEF Registered, Contains
  <2>3. conn[s].run # t /\ channel'[conn[s].run] = channel[conn[s].run]
    BY <1>7, <2>1, <2>2
  <2>4. QED
    BY <1>13, <2>1, <2>3 DEF Registered, Attached
<1>14. ASSUME NEW s \in Connection PROVE Eventful(s)'
  <2>1. Eventful(s)
    BY DEF OrderInv
  <2>2. ASSUME Registered(s)', NEW g \in Handler PROVE OnlyEvents(s, handler'[g].out)
    <3>1. CASE g = h
      <4>1. handler'[g].out = out
        BY <1>6, <3>1 DEF Becomes
      <4>2. \A i \in 1..Len(out) : out[i][1] # s
        BY <1>10, <1>13, <2>2
      <4>3. QED
        BY <4>1, <4>2 DEF OnlyEvents
    <3>2. CASE g # h
      BY <1>6, <1>13, <2>1, <2>2, <3>2 DEF Eventful, Becomes
    <3>3. QED
      BY <3>1, <3>2
  <2>3. Registered(s)' => OnlyEvents(s, callbacks')
    BY <1>2, <1>13, <2>1 DEF Eventful
  <2>4. QED
    BY <2>2, <2>3 DEF Eventful
<1>15. ASSUME NEW s \in Connection PROVE InFeedOrder(s)'
  <2>1. InFeedOrder(s)
    BY DEF OrderInv
  <2>2. CASE ~Registered(s)'
    BY <2>2 DEF InFeedOrder
  <2>3. CASE Registered(s)'
    <3>1. holder[conn[s].run] # h
      BY <1>1, <1>13, <2>3, StreamAssumption DEF Locking, t
    <3>2. Unsent(s)' = Unsent(s)
      BY <1>1, <1>2, <1>6, <1>13, <2>3, <3>1, UnsentOfOthers DEF Becomes
    <3>3. QED
      BY <1>2, <1>13, <2>1, <2>3, <3>2, FeedSame
  <2>4. QED
    BY <2>2, <2>3
<1>16. QED
  BY <1>8, <1>9, <1>11, <1>12, <1>14, <1>15 DEF OrderInv

\* Every step of a pass keeps the order.
LEMMA PassKeepsOrder ==
  ASSUME OrderInv, TypeInv', NEW h \in Handler, Pass(h)
  PROVE  OrderInv'
<1> USE DEF service, history
<1>1. TypeInv /\ Locking /\ handler[h] \in HandlerRec
  BY HandlerFacts DEF OrderInv
<1>2. CASE Settle(h) \/ PublishSwallowed(h)
  <2>1. PICK pc \in {"settled", "unlock"} : GoTo(h, pc)
    BY <1>2 DEF Settle, PublishSwallowed
  <2>2. UNCHANGED <<holder, channel, callbacks, conn, history>> /\ handler[h].pc \in PassPC
    BY <1>2 DEF Settle, PublishSwallowed, PassPC
  <2>3. pc \in PassPC /\ pc \in HandlerPC
    BY DEF PassPC, HandlerPC
  <2>4. Becomes(h, pc, handler[h].run, handler[h].out)
    BY <1>1, <2>1, <2>3, BecomesGoTo
  <2>5. Locking' /\ \A s \in Connection : conn[s].run \in Run => Unsent(s)' = Unsent(s)
    BY <1>1, <2>2, <2>3, <2>4, QuietKeepsUnsent
  <2>6. QED
    BY <2>2, <2>4, <2>5, QuietKeepsOrder
<1>3. CASE Progress(h)
  <2> DEFINE r == [handler[h] EXCEPT !.left = handler[h].left - 1]
  <2>1. handler[h].left - 1 \in 0..MaxProgress
    BY <1>1, <1>3, StreamAssumption DEF Progress, HandlerRec
  <2>2. r \in HandlerRec /\ r.pc = handler[h].pc /\ r.run = handler[h].run
    BY <1>1, <2>1, HandlerUpdates DEF HandlerRec
  <2>3. Publish(h, "progress", r) /\ "progress" \in EventType /\ handler[h].pc \in PassPC
    BY <1>3 DEF Progress, EventType, PassPC
  <2> HIDE DEF r
  <2>4. QED
    BY <2>2, <2>3, PublishKeepsOrder
<1>4. CASE PublishRunEnd(h)
  <2>1. PICK type \in {"interrupted", "run_end"}, pc \in {"unlock", "close"} :
          Publish(h, type, [handler[h] EXCEPT !.pc = pc])
    <3>1. CASE phase[RunOf(h)] = "needs_review"
      <4>1. Publish(h, "interrupted", [handler[h] EXCEPT !.pc = "unlock"])
        BY <1>4, <3>1 DEF PublishRunEnd
      <4>2. QED
        BY <4>1
    <3>2. CASE phase[RunOf(h)] # "needs_review"
      <4>1. Publish(h, "run_end", [handler[h] EXCEPT !.pc = "close"])
        BY <1>4, <3>2 DEF PublishRunEnd
      <4>2. QED
        BY <4>1
    <3>3. QED
      BY <3>1, <3>2
  <2> DEFINE r == [handler[h] EXCEPT !.pc = pc]
  <2>2. pc \in HandlerPC /\ pc \in PassPC /\ handler[h].pc \in PassPC
    BY <1>4 DEF HandlerPC, PassPC, PublishRunEnd
  <2>3. r \in HandlerRec /\ r.pc = pc /\ r.run = handler[h].run
    BY <1>1, <2>2, HandlerUpdates DEF HandlerRec
  <2>4. Publish(h, type, r) /\ type \in EventType
    BY <2>1 DEF EventType, TerminalTypes
  <2> HIDE DEF r
  <2>5. QED
    BY <2>2, <2>3, <2>4, PublishKeepsOrder
<1>5. QED
  BY <1>2, <1>3, <1>4, EnterKeepsOrder, UnlockKeepsOrder, HandOverKeepsOrder, CloseKeepsOrder DEF Pass

-----------------------------------------------------------------------------
(* The event loop *)

\* Concatenation under a name the provers do not look into.
Cat(s, t) == s \o t

\* What concatenation is used for below.
LEMMA CatFacts ==
  ASSUME NEW X
  PROVE  /\ \A s, t \in Seq(X) : Cat(s, t) \in Seq(X)
         /\ \A s, t, u \in Seq(X) : Cat(Cat(s, t), u) = Cat(s, Cat(t, u))
         /\ \A s \in Seq(X) : Cat(s, <<>>) = s /\ Cat(<<>>, s) = s
         /\ <<>> \in Seq(X) /\ \A x \in X : <<x>> \in Seq(X)
         /\ \A s, t \in Seq(X) : Cat(s, t) = <<>> => s = <<>> /\ t = <<>>
         /\ \A s \in Seq(X), x \in X : Append(s, x) = Cat(s, <<x>>)
<1>1. \A s, t \in Seq(X) : Cat(s, t) \in Seq(X)
  BY ConcatProperties DEF Cat
<1>2. \A s, t, u \in Seq(X) : Cat(Cat(s, t), u) = Cat(s, Cat(t, u))
  <2>1. TAKE s, t, u \in Seq(X)
  <2>2. (s \o t) \o u = s \o (t \o u)
    BY ConcatAssociative
  <2>3. QED
    BY <2>2 DEF Cat
<1>3. \A s \in Seq(X) : Cat(s, <<>>) = s /\ Cat(<<>>, s) = s
  BY ConcatEmptySeq DEF Cat
<1>4. \A s, t \in Seq(X) : Cat(s, t) = <<>> => s = <<>> /\ t = <<>>
  BY ConcatSimplifications!concIsEmpty DEF Cat
<1>5. \A s \in Seq(X), x \in X : Append(s, x) = Cat(s, <<x>>)
  BY DEF Cat
<1>6. QED
  BY <1>1, <1>2, <1>3, <1>4, <1>5

LEMMA CatType == ASSUME NEW X, NEW s \in Seq(X), NEW t \in Seq(X) PROVE Cat(s, t) \in Seq(X)
BY CatFacts

LEMMA CatAssociative ==
  ASSUME NEW X, NEW s \in Seq(X), NEW t \in Seq(X), NEW u \in Seq(X)
  PROVE  Cat(Cat(s, t), u) = Cat(s, Cat(t, u))
BY CatFacts

LEMMA EmptyCat == ASSUME NEW X, NEW s \in Seq(X) PROVE Cat(s, <<>>) = s /\ Cat(<<>>, s) = s
BY CatFacts

LEMMA AppendIsCat ==
  ASSUME NEW X, NEW s \in Seq(X), NEW x \in X
  PROVE  Append(s, x) = Cat(s, <<x>>) /\ <<x>> \in Seq(X)
BY DEF Cat

\* Selecting from two sequences one after the other.
LEMMA SelectedCat ==
  ASSUME NEW X, NEW S
  PROVE  \A s, t \in Seq(X) : Selected(Cat(s, t), S) = Cat(Selected(s, S), Selected(t, S))
BY SelectedConcat DEF Cat

\* A sequence is its head and its tail.
LEMMA HeadThenTail ==
  ASSUME NEW X, NEW s \in Seq(X), s # <<>>
  PROVE  Head(s) \in X /\ Tail(s) \in Seq(X) /\ <<Head(s)>> \in Seq(X) /\ s = <<Head(s)>> \o Tail(s)
         /\ Len(Tail(s)) = Len(s) - 1
OBVIOUS

\* A sequence that is not empty can lose its head before or after it grows.
LEMMA TailOfAppend ==
  ASSUME NEW X, NEW s \in Seq(X), s # <<>>, NEW x \in X
  PROVE  Tail(Append(s, x)) = Append(Tail(s), x)
<1>1. /\ Append(s, x) \in Seq(X) /\ Append(s, x) # <<>> /\ Len(Append(s, x)) = Len(s) + 1
      /\ \A i \in 1..Len(s) : Append(s, x)[i] = s[i]
      /\ Append(s, x)[Len(s) + 1] = x
  BY AppendProperties
<1>2. /\ Tail(s) \in Seq(X) /\ Len(Tail(s)) = Len(s) - 1 /\ Len(s) \in Nat \ {0}
      /\ \A i \in 1..Len(Tail(s)) : Tail(s)[i] = s[i + 1]
  BY HeadTailProperties, EmptySeq
<1> DEFINE l == Tail(Append(s, x))
           r == Append(Tail(s), x)
<1>3. l \in Seq(X) /\ Len(l) = Len(s) /\ \A i \in 1..Len(l) : l[i] = Append(s, x)[i + 1]
  BY <1>1, <1>2, HeadTailProperties
<1>4. /\ r \in Seq(X) /\ Len(r) = Len(s) /\ r[Len(s)] = x
      /\ \A i \in 1..(Len(s) - 1) : r[i] = s[i + 1]
  BY <1>2, AppendProperties
<1> HIDE DEF l, r
<1>5. \A i \in 1..Len(l) : l[i] = r[i]
  <2>1. TAKE i \in 1..Len(l)
  <2>2. CASE i = Len(s)
    BY <1>1, <1>3, <1>4, <2>2
  <2>3. CASE i # Len(s)
    <3>1. i + 1 \in 1..Len(s) /\ i \in 1..(Len(s) - 1)
      <4> DEFINE k == Len(s)
      <4>1. k \in Nat \ {0} /\ i \in 1..k /\ i # k
        BY <1>2, <1>3, <2>3
      <4> HIDE DEF k
      <4>2. i + 1 \in 1..k /\ i \in 1..(k - 1)
        BY <4>1
      <4>3. QED
        BY <4>2 DEF k
    <3>2. QED
      BY <1>1, <1>3, <1>4, <3>1
  <2>4. QED
    BY <2>2, <2>3
<1>6. QED
  BY <1>3, <1>4, <1>5, SeqEqual DEF l, r

\* What a full queue loses is at its front, and the newcomer is in it afterwards.
LEMMA DeliveredToFull ==
  ASSUME NEW q \in Seq(Item), Len(q) <= MaxQueue, Full(q), NEW dropped \in BOOLEAN, NEW x \in Event
  PROVE  \E gone, kept, mark \in Seq(Item) :
           /\ q = Cat(gone, kept)
           /\ Delivered(q, dropped, x) = Cat(kept, Cat(mark, <<x>>))
           /\ Selected(mark, Event) = <<>>
<1>1. MaxQueue \in Nat /\ MaxQueue >= 2 /\ Len(q) \in Nat /\ Len(q) = MaxQueue
  BY SizesAssumption, LenProperties DEF Full
<1>2. x \in Item /\ q # <<>> /\ <<x>> \in Seq(Item)
  BY <1>1, ItemKinds
<1>3. /\ Head(q) \in Item /\ Tail(q) \in Seq(Item) /\ <<Head(q)>> \in Seq(Item)
      /\ q = Cat(<<Head(q)>>, Tail(q)) /\ Len(Tail(q)) = Len(q) - 1
  BY <1>2, HeadThenTail DEF Cat
<1> DEFINE tl == Tail(q)
           hd == Head(q)
<1>4. CASE dropped
  <2>1. Delivered(q, dropped, x) = Append(tl, x)
    BY <1>4 DEF Delivered, StartsEpisode, PutDropOldest
  <2> HIDE DEF tl, hd
  <2>2. Append(tl, x) = Cat(tl, Cat(<<>>, <<x>>))
    <3>1. tl \in Seq(Item) /\ Append(tl, x) = Cat(tl, <<x>>)
      BY <1>2, <1>3, AppendIsCat DEF tl
    <3>2. Cat(<<>>, <<x>>) = <<x>>
      BY <1>2, EmptyCat
    <3>3. QED
      BY <3>1, <3>2
  <2>3. <<>> \in Seq(Item) /\ Selected(<<>>, Event) = <<>>
    BY SelectedEmpty
  <2>4. Delivered(q, dropped, x) = Cat(tl, Cat(<<>>, <<x>>))
    BY <2>1, <2>2
  <2>5. tl \in Seq(Item) /\ <<hd>> \in Seq(Item) /\ q = Cat(<<hd>>, tl)
    BY <1>3 DEF tl, hd
  <2> HIDE DEF Delivered
  <2>6. QED
    BY <2>3, <2>4, <2>5
<1>5. CASE ~dropped
  <2> DEFINE marker == [type |-> "overflow", seq |-> x.seq]
             q1 == Append(tl, marker)
             tl2 == Tail(tl)
             hd2 == Head(tl)
  <2>1. marker \in Item /\ marker \notin Event /\ x \in Item
    BY <1>2, ItemKinds
  <2>2. PutDropOldest(q, marker) = q1
    BY DEF PutDropOldest
  <2>3. Delivered(q, dropped, x) = PutDropOldest(q1, x)
    BY <1>5, <2>2 DEF Delivered, StartsEpisode
  <2> HIDE DEF marker
  <2>4. tl \in Seq(Item) /\ Len(tl) = Len(q) - 1
    BY <1>3
  <2> HIDE DEF tl, hd
  <2>5. tl # <<>>
    BY <1>1, <2>4, EmptySeq
  <2>6. hd2 \in Item /\ tl2 \in Seq(Item) /\ <<hd2>> \in Seq(Item) /\ tl = Cat(<<hd2>>, tl2)
    BY <2>4, <2>5, HeadThenTail DEF Cat
  <2>7. q1 \in Seq(Item) /\ Len(q1) = Len(q)
    <3>1. q1 \in Seq(Item) /\ Len(q1) = Len(tl) + 1
      BY <2>1, <2>4, AppendProperties
    <3>2. QED
      BY <1>1, <2>4, <3>1
  <2>8. Full(q1)
    BY <1>1, <2>7 DEF Full
  <2>9. Tail(q1) = Append(tl2, marker)
    BY <2>1, <2>4, <2>5, TailOfAppend
  <2>10. Delivered(q, dropped, x) = Append(Append(tl2, marker), x)
    BY <2>3, <2>8, <2>9 DEF PutDropOldest
  <2> HIDE DEF q1, tl2, hd2
  <2>11. Append(Append(tl2, marker), x) = Cat(tl2, Cat(<<marker>>, <<x>>))
    <3>1. Append(tl2, marker) = Cat(tl2, <<marker>>) /\ <<marker>> \in Seq(Item)
      BY <2>1, <2>6, AppendIsCat
    <3>2. Cat(tl2, <<marker>>) \in Seq(Item)
      BY <2>6, <3>1, CatType
    <3>3. Append(Cat(tl2, <<marker>>), x) = Cat(Cat(tl2, <<marker>>), <<x>>)
      BY <2>1, <3>2, AppendIsCat
    <3>4. Cat(Cat(tl2, <<marker>>), <<x>>) = Cat(tl2, Cat(<<marker>>, <<x>>))
      <4> DEFINE m == <<marker>>
                 y == <<x>>
      <4>1. m \in Seq(Item) /\ y \in Seq(Item)
        BY <1>2, <3>1
      <4> HIDE DEF m, y
      <4>2. Cat(Cat(tl2, m), y) = Cat(tl2, Cat(m, y))
        BY <2>6, <4>1, CatAssociative
      <4>3. QED
        BY <4>2 DEF m, y
    <3>5. QED
      BY <3>1, <3>3, <3>4
  <2> DEFINE gone == Cat(<<hd>>, <<hd2>>)
  <2>12. gone \in Seq(Item) /\ q = Cat(gone, tl2)
    <3>1. q = Cat(<<hd>>, Cat(<<hd2>>, tl2)) /\ <<hd>> \in Seq(Item)
      BY <1>3, <2>6 DEF tl, hd
    <3>2. Cat(<<hd>>, Cat(<<hd2>>, tl2)) = Cat(Cat(<<hd>>, <<hd2>>), tl2)
      <4> DEFINE m == <<hd>>
                 y == <<hd2>>
      <4>1. m \in Seq(Item) /\ y \in Seq(Item)
        BY <2>6, <3>1
      <4> HIDE DEF m, y
      <4>2. Cat(m, Cat(y, tl2)) = Cat(Cat(m, y), tl2)
        BY <2>6, <4>1, CatAssociative
      <4>3. QED
        BY <4>2 DEF m, y
    <3>3. Cat(<<hd>>, <<hd2>>) \in Seq(Item)
      BY <2>6, <3>1, CatType, Zenon
    <3>4. QED
      BY <3>1, <3>2, <3>3
  <2> HIDE DEF gone, Delivered
  <2>13. <<marker>> \in Seq(Item) /\ Selected(<<marker>>, Event) = <<>>
    BY <2>1, SelectedOne
  <2>14. Delivered(q, dropped, x) = Cat(tl2, Cat(<<marker>>, <<x>>))
    BY <2>10, <2>11
  <2>15. QED
    BY <2>6, <2>12, <2>13, <2>14
<1>6. QED
  BY <1>4, <1>5

\* However much a full queue loses, the newest event is still on its way.
LEMMA FeedOverflows ==
  ASSUME NEW b \in Seq(Item), NEW gone \in Seq(Item), NEW kept \in Seq(Item), NEW mark \in Seq(Item),
         Selected(mark, Event) = <<>>, NEW x \in Event, NEW a \in Seq(Item), NEW u \in Seq(Item),
         NEW n \in Int, NEW top \in Int,
         InOrder(n, Selected(Cat(Cat(Cat(b, Cat(gone, kept)), Cat(<<x>>, a)), u), Event), top)
  PROVE  InOrder(n, Selected(Cat(Cat(Cat(b, Cat(kept, Cat(mark, <<x>>))), a), u), Event), top)
<1> DEFINE S(s) == Selected(s, Event)
<1>1. \A s \in Seq(Item) : S(s) \in Seq(Event)
  <2>1. TAKE s \in Seq(Item)
  <2>2. Selected(s, Event) \in Seq(Item \cap Event)
    BY SelectedType
  <2>3. QED
    BY <2>2, SeqMonotonic
<1>2. \A s, t \in Seq(Item) : S(Cat(s, t)) = Cat(S(s), S(t))
  BY SelectedCat
<1>3. x \in Item /\ <<x>> \in Seq(Item) /\ S(<<x>>) = <<x>> /\ <<x>> \in Seq(Event) /\ <<x>> # <<>>
  <2>1. x \in Item
    BY ItemKinds
  <2>2. QED
    BY <2>1, SelectedOne
<1>4. S(mark) = <<>>
  OBVIOUS
<1>5. InOrder(n, S(Cat(Cat(Cat(b, Cat(gone, kept)), Cat(<<x>>, a)), u)), top)
  OBVIOUS
<1> DEFINE one == <<x>>
           tail == Cat(S(kept), Cat(one, Cat(S(a), S(u))))
<1> HIDE DEF S, one
<1>6. one \in Seq(Item) /\ S(one) = one /\ one \in Seq(Event) /\ one # <<>>
  BY <1>3 DEF one
<1>7. \A s, t \in Seq(Item) : Cat(s, t) \in Seq(Item)
  BY CatFacts
<1>8. /\ \A s, t \in Seq(Event) : Cat(s, t) \in Seq(Event)
      /\ \A s, t, v \in Seq(Event) : Cat(Cat(s, t), v) = Cat(s, Cat(t, v))
      /\ \A s \in Seq(Event) : Cat(<<>>, s) = s
      /\ \A s, t \in Seq(Event) : Cat(s, t) = <<>> => s = <<>> /\ t = <<>>
  BY CatFacts
<1>9. /\ S(b) \in Seq(Event) /\ S(gone) \in Seq(Event) /\ S(kept) \in Seq(Event)
      /\ S(a) \in Seq(Event) /\ S(u) \in Seq(Event)
  BY <1>1
<1>10. S(Cat(Cat(Cat(b, Cat(gone, kept)), Cat(one, a)), u))
         = Cat(Cat(Cat(S(b), Cat(S(gone), S(kept))), Cat(one, S(a))), S(u))
  <2>1. Cat(gone, kept) \in Seq(Item) /\ Cat(one, a) \in Seq(Item)
    BY <1>6, <1>7
  <2>2. Cat(b, Cat(gone, kept)) \in Seq(Item)
    BY <1>7, <2>1
  <2>3. Cat(Cat(b, Cat(gone, kept)), Cat(one, a)) \in Seq(Item)
    BY <1>7, <2>1, <2>2
  <2>4. S(Cat(b, Cat(gone, kept))) = Cat(S(b), Cat(S(gone), S(kept)))
    BY <1>2, <2>1
  <2>5. S(Cat(one, a)) = Cat(one, S(a))
    BY <1>2, <1>6
  <2>6. QED
    BY <1>2, <2>1, <2>2, <2>3, <2>4, <2>5
<1>11. S(Cat(Cat(Cat(b, Cat(kept, Cat(mark, one))), a), u))
         = Cat(Cat(Cat(S(b), Cat(S(kept), Cat(<<>>, one))), S(a)), S(u))
  <2>1. Cat(mark, one) \in Seq(Item)
    BY <1>6, <1>7
  <2>2. Cat(kept, Cat(mark, one)) \in Seq(Item)
    BY <1>7, <2>1
  <2>3. Cat(b, Cat(kept, Cat(mark, one))) \in Seq(Item)
    BY <1>7, <2>2
  <2>4. Cat(Cat(b, Cat(kept, Cat(mark, one))), a) \in Seq(Item)
    BY <1>7, <2>3
  <2>5. S(Cat(mark, one)) = Cat(<<>>, one)
    <3>1. S(Cat(mark, one)) = Cat(S(mark), S(one))
      BY <1>2, <1>6
    <3>2. QED
      BY <1>4, <1>6, <3>1
  <2>6. S(Cat(kept, Cat(mark, one))) = Cat(S(kept), Cat(<<>>, one))
    BY <1>2, <2>1, <2>5
  <2>7. S(Cat(b, Cat(kept, Cat(mark, one)))) = Cat(S(b), Cat(S(kept), Cat(<<>>, one)))
    BY <1>2, <2>2, <2>6
  <2>8. S(Cat(Cat(b, Cat(kept, Cat(mark, one))), a)) = Cat(Cat(S(b), Cat(S(kept), Cat(<<>>, one))), S(a))
    BY <1>2, <2>3, <2>7
  <2>9. QED
    BY <1>2, <2>4, <2>8
<1>12. Cat(Cat(Cat(S(b), Cat(S(gone), S(kept))), Cat(one, S(a))), S(u)) = Cat(S(b), Cat(S(gone), tail))
  <2> DEFINE B == S(b)
             G == S(gone)
             K == S(kept)
             A == S(a)
             U == S(u)
  <2>0. B \in Seq(Event) /\ G \in Seq(Event) /\ K \in Seq(Event) /\ A \in Seq(Event) /\ U \in Seq(Event)
    BY <1>9
  <2> HIDE DEF B, G, K, A, U
  <2>a. Cat(G, K) \in Seq(Event) /\ Cat(one, A) \in Seq(Event) /\ Cat(B, Cat(G, K)) \in Seq(Event)
    BY <1>6, <1>8, <2>0
  <2>1. Cat(Cat(Cat(B, Cat(G, K)), Cat(one, A)), U) = Cat(Cat(B, Cat(G, K)), Cat(Cat(one, A), U))
    BY <1>8, <2>0, <2>a
  <2>2. Cat(Cat(one, A), U) = Cat(one, Cat(A, U)) /\ Cat(one, Cat(A, U)) \in Seq(Event)
    BY <1>6, <1>8, <2>0
  <2>3. Cat(Cat(B, Cat(G, K)), Cat(one, Cat(A, U))) = Cat(B, Cat(Cat(G, K), Cat(one, Cat(A, U))))
    BY <1>8, <2>0, <2>2
  <2>4. Cat(Cat(G, K), Cat(one, Cat(A, U))) = Cat(G, Cat(K, Cat(one, Cat(A, U))))
    BY <1>8, <2>0, <2>2
  <2>5. QED
    BY <2>1, <2>2, <2>3, <2>4 DEF B, G, K, A, U
<1>13. Cat(Cat(Cat(S(b), Cat(S(kept), Cat(<<>>, one))), S(a)), S(u)) = Cat(S(b), tail)
  <2> DEFINE B == S(b)
             K == S(kept)
             A == S(a)
             U == S(u)
  <2>0. B \in Seq(Event) /\ K \in Seq(Event) /\ A \in Seq(Event) /\ U \in Seq(Event)
    BY <1>9
  <2> HIDE DEF B, K, A, U
  <2>1. Cat(<<>>, one) = one
    BY <1>6, <1>8
  <2>a. Cat(K, one) \in Seq(Event) /\ Cat(A, U) \in Seq(Event) /\ Cat(B, Cat(K, one)) \in Seq(Event)
    BY <1>6, <1>8, <2>0
  <2>2. Cat(Cat(Cat(B, Cat(K, one)), A), U) = Cat(Cat(B, Cat(K, one)), Cat(A, U))
    BY <1>8, <2>0, <2>a
  <2>3. Cat(Cat(B, Cat(K, one)), Cat(A, U)) = Cat(B, Cat(Cat(K, one), Cat(A, U)))
    BY <1>8, <2>0, <2>a
  <2>4. Cat(Cat(K, one), Cat(A, U)) = Cat(K, Cat(one, Cat(A, U)))
    BY <1>6, <1>8, <2>0
  <2>5. QED
    BY <2>1, <2>2, <2>3, <2>4 DEF B, K, A, U
<1>14. tail \in Seq(Event) /\ tail # <<>>
  <2>1. Cat(one, Cat(S(a), S(u))) \in Seq(Event) /\ Cat(one, Cat(S(a), S(u))) # <<>>
    BY <1>6, <1>8, <1>9
  <2>2. QED
    BY <1>8, <1>9, <2>1
<1> HIDE DEF tail
<1>15. InOrder(n, S(b) \o (S(gone) \o tail), top)
  BY <1>5, <1>10, <1>12 DEF one, Cat
<1>16. InOrder(n, S(b) \o tail, top)
  BY <1>9, <1>14, <1>15, OrderDrop
<1>17. QED
  BY <1>11, <1>13, <1>16 DEF S, one, Cat

\* A callback changes the queue of one attached connection, and nothing else of any.
LEMMA CallbackFacts ==
  ASSUME TypeInv, RunCallback
  PROVE  LET s == Head(callbacks)[1]
             x == Head(callbacks)[2]
         IN  /\ Head(callbacks) \in Mail /\ s \in Connection /\ x \in Item
             /\ callbacks # <<>> /\ callbacks' = Tail(callbacks)
             /\ UNCHANGED <<phase, holder, handler, channel, seen>>
             /\ \A r \in Connection :
                  /\ conn'[r].state = conn[r].state /\ conn'[r].run = conn[r].run
                  /\ conn'[r].backlog = conn[r].backlog
                  /\ conn'[r].last_event_id = conn[r].last_event_id
                  /\ (r # s \/ conn[r].state # "attached") =>
                       conn'[r] = conn[r] /\ evicted'[r] = evicted[r]
             /\ conn[s].state = "attached" /\ x # Done =>
                  /\ conn'[s].queue = Delivered(conn[s].queue, conn[s].dropped, x)
                  /\ evicted'[s] = (evicted[s] \/ Full(conn[s].queue))
<1> DEFINE s == Head(callbacks)[1]
           x == Head(callbacks)[2]
           c == conn[s]
           new == IF x = Done
                  THEN [c EXCEPT !.queue = PutDropOldest(c.queue, Done)]
                  ELSE [c EXCEPT !.queue = Delivered(c.queue, c.dropped, x), !.dropped = Full(c.queue)]
<1>1. /\ callbacks # <<>> /\ callbacks' = Tail(callbacks)
      /\ UNCHANGED <<phase, holder, handler, channel, seen>>
  BY DEF RunCallback, service
<1>2. Head(callbacks) \in Mail
  BY <1>1, HeadTailProperties DEF TypeInv
<1>3. s \in Connection /\ x \in Item /\ x.seq \in Nat
  BY <1>2, ItemSeq DEF Mail
<1>4. /\ c \in ConnRec /\ c.queue \in Seq(Item) /\ Len(c.queue) <= MaxQueue /\ c.dropped \in BOOLEAN
  BY <1>3, ConnFacts
<1>5. CASE c.state # "attached"
  <2>1. UNCHANGED <<conn, evicted>>
    BY <1>5 DEF RunCallback
  <2> HIDE DEF s, x
  <2>2. QED
    BY <1>1, <1>2, <1>3, <1>5, <2>1 DEF s, x
<1>6. CASE c.state = "attached"
  <2>1. conn' = [conn EXCEPT ![s] = new] /\ evicted' = [evicted EXCEPT ![s] = @ \/ Full(c.queue)]
    BY <1>6 DEF RunCallback
  <2> HIDE DEF s, x
  <2>2. Delivered(c.queue, c.dropped, x) \in Seq(Item) /\ PutDropOldest(c.queue, Done) \in Seq(Item)
        /\ Full(c.queue) \in BOOLEAN
    <3>1. Full(c.queue) \in BOOLEAN
      BY DEF Full
    <3> HIDE DEF c
    <3>2. QED
      BY <1>3, <1>4, <3>1, ItemKinds, DeliveredType, PutDropOldestType
  <2>3. /\ new.state = c.state /\ new.run = c.run /\ new.backlog = c.backlog
        /\ new.last_event_id = c.last_event_id
        /\ x # Done => new.queue = Delivered(c.queue, c.dropped, x)
    <3> HIDE DEF c
    <3>1. CASE x = Done
      <4>1. new = [c EXCEPT !.queue = PutDropOldest(c.queue, Done)]
        BY <3>1
      <4>2. new \in ConnRec
        BY <1>4, <2>2, <4>1, ConnUpdates
      <4>3. QED
        BY <1>4, <3>1, <4>1, <4>2 DEF ConnRec
    <3>2. CASE x # Done
      <4>1. new = [c EXCEPT !.queue = Delivered(c.queue, c.dropped, x), !.dropped = Full(c.queue)]
        BY <3>2
      <4>2. new \in ConnRec
        BY <1>4, <2>2, <4>1, ConnUpdates
      <4>3. QED
        BY <1>4, <2>2, <3>2, <4>1, <4>2 DEF ConnRec
    <3>3. QED
      BY <3>1, <3>2
  <2> HIDE DEF new
  <2>4. \A r \in Connection : conn'[r] = IF r = s THEN new ELSE conn[r]
    BY <2>1 DEF TypeInv, ConnsTyped
  <2>5. /\ evicted'[s] = (evicted[s] \/ Full(c.queue))
        /\ \A r \in Connection : r # s => evicted'[r] = evicted[r]
    BY <1>3, <2>1 DEF TypeInv
  <2>6. QED
    BY <1>1, <1>2, <1>3, <1>6, <2>3, <2>4, <2>5 DEF s, x
<1>7. QED
  BY <1>5, <1>6

\* _deliver moves the front of the callbacks to the end of a queue; what a full queue
\* evicts for it is older, and evicted says so.
LEMMA LoopKeepsOrder ==
  ASSUME OrderInv, TypeInv', RunCallback
  PROVE  OrderInv'
<1> SUFFICES ASSUME NEW s, s = Head(callbacks)[1],
                    NEW x, x = Head(callbacks)[2],
                    NEW tl, tl = Tail(callbacks)
             PROVE  OrderInv'
  OBVIOUS
<1>1. TypeInv /\ Locking /\ Addressing /\ Fresh /\ \A u \in Run : ChannelOK(u)
  BY DEF OrderInv
<1>2. /\ Head(callbacks) \in Mail /\ s \in Connection /\ x \in Item
      /\ callbacks # <<>> /\ callbacks' = tl /\ UNCHANGED <<holder, handler, channel, seen>>
  BY <1>1, CallbackFacts
<1>3. \A r \in Connection :
        /\ conn'[r].state = conn[r].state /\ conn'[r].run = conn[r].run
        /\ conn'[r].backlog = conn[r].backlog
        /\ conn'[r].last_event_id = conn[r].last_event_id
        /\ (r # s \/ conn[r].state # "attached") => conn'[r] = conn[r] /\ evicted'[r] = evicted[r]
  BY <1>1, CallbackFacts
<1>4. conn[s].state = "attached" /\ x # Done =>
        /\ conn'[s].queue = Delivered(conn[s].queue, conn[s].dropped, x)
        /\ evicted'[s] = (evicted[s] \/ Full(conn[s].queue))
  BY <1>1, CallbackFacts
<1>5. /\ callbacks \in Seq(Mail) /\ tl \in Seq(Mail) /\ Len(callbacks) \in Nat
      /\ \A i \in 1..Len(tl) : i + 1 \in 1..Len(callbacks) /\ tl[i] = callbacks[i + 1]
      /\ 1 \in 1..Len(callbacks) /\ Head(callbacks) = callbacks[1]
  <2>1. callbacks \in Seq(Mail)
    BY <1>1 DEF TypeInv
  <2>2. QED
    BY <1>2, <2>1
<1>6. Addressed(s, callbacks) = <<x>> \o Addressed(s, tl)
      /\ \A r \in Connection : r # s => Addressed(r, callbacks) = Addressed(r, tl)
  BY <1>2, <1>5, AddressedTail
<1>a. \A i \in 1..Len(callbacks) : callbacks[i][1] \in Connection
  BY <1>5 DEF Mail
<1>b. \A h \in Handler : \A i \in 1..Len(handler[h].out) : handler[h].out[i][1] \in Connection
  BY <1>1, HandlerFacts DEF Mail
<1>x. callbacks[1][1] = s /\ callbacks[1][2] = x
  BY <1>5
<1>7. Locking'
  BY <1>1, <1>2 DEF Locking
<1>8. ASSUME NEW u \in Run PROVE ChannelOK(u)'
  <2>1. ChannelOK(u) /\ channel'[u] = channel[u] /\ channel[u].subscribers \in Seq(Connection)
    BY <1>1, <1>2, RegistryOf DEF TypeInv
  <2>2. \A i \in 1..Len(channel[u].subscribers) : channel[u].subscribers[i] \in Connection
    BY <2>1
  <2>3. QED
    BY <1>3, <2>1, <2>2 DEF ChannelOK
<1>9. Addressing'
  <2>1. ASSUME NEW i \in 1..Len(tl) PROVE conn'[tl[i][1]].state \notin Early
    <3>1. i + 1 \in 1..Len(callbacks) /\ tl[i] = callbacks[i + 1]
      BY <1>5
    <3>2. conn[tl[i][1]].state \notin Early /\ tl[i][1] \in Connection
      BY <1>1, <1>a, <3>1 DEF Addressing
    <3>3. QED
      BY <1>3, <3>2
  <2>2. ASSUME NEW h \in Handler, NEW i \in 1..Len(handler[h].out)
        PROVE  /\ conn'[handler[h].out[i][1]].state \notin Early
               /\ conn'[handler[h].out[i][1]].run = handler[h].run
    BY <1>1, <1>3, <1>b DEF Addressing
  <2>3. QED
    BY <1>2, <2>1, <2>2 DEF Addressing
<1>10. Fresh'
  BY <1>1, <1>3 DEF Fresh, Early
<1>11. \A r \in Connection : Registered(r)' <=> Registered(r)
  BY <1>2, <1>3 DEF Registered, Attached
<1>12. ASSUME NEW r \in Connection PROVE Eventful(r)'
  <2>1. Eventful(r)
    BY DEF OrderInv
  <2>2. OnlyEvents(r, callbacks) => OnlyEvents(r, tl)
    BY <1>5 DEF OnlyEvents
  <2>3. QED
    BY <1>2, <1>11, <2>1, <2>2 DEF Eventful
<1>13. ASSUME NEW r \in Connection PROVE InFeedOrder(r)'
  <2>1. InFeedOrder(r)
    BY DEF OrderInv
  <2>2. Unsent(r)' = Unsent(r)
    BY <1>2, <1>3 DEF Unsent
  <2>3. CASE r # s
    BY <1>2, <1>3, <1>6, <1>11, <2>1, <2>2, <2>3, FeedSame
  <2>4. CASE ~Registered(r)'
    BY <2>4 DEF InFeedOrder
  <2>5. CASE r = s /\ Registered(r)'
    <3>1. Registered(s) /\ conn[s].state = "attached" /\ conn[s].run \in Run
      BY <1>11, <2>5, RegisteredFacts
    <3>2. x \in Event /\ x # Done
      <4>1. OnlyEvents(s, callbacks)
        BY <2>5, <3>1 DEF OrderInv, Eventful
      <4>2. x \in Event
        BY <1>5, <1>x, <4>1 DEF OnlyEvents
      <4>3. QED
        BY <4>2, ItemKinds
    <3> DEFINE b == conn[s].backlog
               q == conn[s].queue
               a == Addressed(s, tl)
               u == Unsent(s)
               d == Delivered(q, conn[s].dropped, x)
    <3>3. /\ b \in Seq(Item) /\ q \in Seq(Item) /\ a \in Seq(Item) /\ u \in Seq(Item)
          /\ Len(q) <= MaxQueue /\ conn[s].dropped \in BOOLEAN /\ seen[s] \in Int
      BY <1>1, <1>2, <1>5, <3>1, ConnFacts, AddressedFacts, UnsentType
    <3>4. channel[conn[s].run].seq \in Int
      BY <1>1, <3>1, RegistryOf DEF TypeInv
    <3>5. Feed(s) = Cat(Cat(Cat(b, q), Cat(<<x>>, a)), u)
      BY <1>6 DEF Feed, Cat
    <3>6. Feed(s)' = Cat(Cat(Cat(b, d), a), u)
      <4>1. conn'[s].backlog = b /\ conn'[s].queue = d
        BY <1>2, <1>3, <1>4, <3>1, <3>2
      <4>2. Addressed(s, callbacks)' = a /\ Unsent(s)' = u
        BY <1>2, <2>2, <2>5
      <4>3. Feed(s)' = conn'[s].backlog \o conn'[s].queue \o Addressed(s, callbacks)' \o Unsent(s)'
        BY DEF Feed
      <4>4. Feed(s)' = b \o d \o a \o u
        BY <4>1, <4>2, <4>3
      <4>5. QED
        BY <4>4 DEF Cat
    <3>7. InOrder(seen[s], Selected(Feed(s), Event), channel[conn[s].run].seq)
          /\ (~evicted[s] => Gapless(seen[s], Selected(Feed(s), Event)))
      BY <2>1, <2>5, <3>1 DEF InFeedOrder, Coming
    <3>8. evicted'[s] = (evicted[s] \/ Full(q))
      BY <1>4, <3>1, <3>2
    <3>s. /\ conn'[s].run = conn[s].run /\ seen' = seen
          /\ channel'[conn'[s].run].seq = channel[conn[s].run].seq
      BY <1>2, <1>3
    <3>c. Coming(s)' = Selected(Feed(s)', Event)
      BY DEF Coming
    <3> HIDE DEF a, u
    <3>9. CASE ~Full(q)
      <4>1. d = Append(q, x)
        BY <3>9 DEF Delivered, StartsEpisode, PutDropOldest
      <4> DEFINE one == <<x>>
      <4> HIDE DEF b, q, d
      <4>2. Append(q, x) = Cat(q, one) /\ one \in Seq(Item)
        BY <1>2, <3>3, AppendIsCat DEF one
      <4> HIDE DEF one
      <4>a. \A t, v \in Seq(Item) : Cat(t, v) \in Seq(Item)
        BY CatFacts
      <4>b. \A t, v, w \in Seq(Item) : Cat(Cat(t, v), w) = Cat(t, Cat(v, w))
        BY CatFacts
      <4>3. Cat(Cat(b, Cat(q, one)), a) = Cat(Cat(Cat(b, q), one), a)
        BY <3>3, <4>2, <4>b
      <4>4. Cat(Cat(Cat(b, q), one), a) = Cat(Cat(b, q), Cat(one, a))
        BY <3>3, <4>2, <4>a, <4>b
      <4>5. Feed(s)' = Feed(s)
        BY <3>5, <3>6, <4>1, <4>2, <4>3, <4>4 DEF one
      <4>6. ~evicted'[s] => ~evicted[s]
        BY <1>1, <3>8
      <4> HIDE DEF InOrder, Gapless
      <4>7. /\ InOrder(seen[s], Selected(Feed(s)', Event), channel[conn[s].run].seq)
            /\ ~evicted'[s] => Gapless(seen[s], Selected(Feed(s)', Event))
        BY <3>7, <4>5, <4>6
      <4>8. QED
        BY <2>5, <3>s, <4>7, <3>c DEF InFeedOrder
    <3>10. CASE Full(q)
      <4> HIDE DEF q, b
      <4>0. \E gone, kept, mark \in Seq(Item) :
              /\ q = Cat(gone, kept)
              /\ Delivered(q, conn[s].dropped, x) = Cat(kept, Cat(mark, <<x>>))
              /\ Selected(mark, Event) = <<>>
        BY <3>2, <3>3, <3>10, DeliveredToFull
      <4>1. PICK gone, kept, mark \in Seq(Item) :
              /\ q = Cat(gone, kept) /\ d = Cat(kept, Cat(mark, <<x>>))
              /\ Selected(mark, Event) = <<>>
        BY <4>0
      <4> HIDE DEF d
      <4>2. InOrder(seen[s], Selected(Cat(Cat(Cat(b, Cat(gone, kept)), Cat(<<x>>, a)), u), Event),
                    channel[conn[s].run].seq)
        BY <3>5, <3>7, <4>1
      <4>3. InOrder(seen[s], Selected(Cat(Cat(Cat(b, Cat(kept, Cat(mark, <<x>>))), a), u), Event),
                    channel[conn[s].run].seq)
        <5> DEFINE n == seen[s]
                   top == channel[conn[s].run].seq
        <5>1. n \in Int /\ top \in Int
          BY <3>3, <3>4
        <5>2. InOrder(n, Selected(Cat(Cat(Cat(b, Cat(gone, kept)), Cat(<<x>>, a)), u), Event), top)
          BY <4>2
        <5> HIDE DEF InOrder, n, top
        <5>3. InOrder(n, Selected(Cat(Cat(Cat(b, Cat(kept, Cat(mark, <<x>>))), a), u), Event), top)
          BY <3>2, <3>3, <4>1, <5>1, <5>2, FeedOverflows
        <5>4. QED
          BY <5>3 DEF n, top
      <4>4. InOrder(seen[s], Selected(Feed(s)', Event), channel[conn[s].run].seq)
        BY <3>6, <4>1, <4>3
      <4>5. evicted'[s]
        BY <3>8, <3>10
      <4> HIDE DEF InOrder, Gapless
      <4>6. QED
        BY <2>5, <3>s, <4>4, <4>5, <3>c DEF InFeedOrder
    <3>11. QED
      BY <3>9, <3>10
  <2>6. QED
    BY <2>3, <2>4, <2>5
<1>14. QED
  BY <1>7, <1>8, <1>9, <1>10, <1>12, <1>13 DEF OrderInv

-----------------------------------------------------------------------------
(* Connections *)

\* A step of a connection: nothing of the others, of the requests, or of what a channel
\* has recorded.
Moves(s) ==
  /\ UNCHANGED <<holder, handler, callbacks>>
  /\ \A r \in Connection : r # s =>
       conn'[r] = conn[r] /\ seen'[r] = seen[r] /\ evicted'[r] = evicted[r]
  /\ conn[s].state \notin Early => conn'[s].state \notin Early /\ conn'[s].run = conn[s].run
  /\ conn'[s].state \in Early => conn'[s].queue = <<>> /\ conn'[s].backlog = <<>>
  /\ -1 <= conn'[s].last_event_id
  /\ \A t \in Run : /\ channel'[t].seq = channel[t].seq
                    /\ channel'[t].history = channel[t].history
                    /\ channel'[t].open = channel[t].open

\* What such a step keeps, given the channels and what s itself is due.
LEMMA MovesKeepOrder ==
  ASSUME OrderInv, TypeInv', NEW s \in Connection, Moves(s),
         \A t \in Run : ChannelOK(t)',
         \A r \in Connection : r # s => (Registered(r)' => Registered(r)),
         Eventful(s)', InFeedOrder(s)'
  PROVE  OrderInv'
<1>1. TypeInv /\ Locking /\ Addressing /\ Fresh
  BY DEF OrderInv
<1>2. UNCHANGED <<holder, handler, callbacks>>
  BY DEF Moves
<1>3. \A r \in Connection : r # s =>
        conn'[r] = conn[r] /\ seen'[r] = seen[r] /\ evicted'[r] = evicted[r]
  BY DEF Moves
<1>4. Locking'
  BY <1>1, <1>2 DEF Locking
<1>5. \A r \in Connection : conn[r].state \notin Early =>
        conn'[r].state \notin Early /\ conn'[r].run = conn[r].run
  BY <1>3 DEF Moves
<1>6. Addressing'
  <2>1. callbacks \in Seq(Mail) /\ \A h \in Handler : handler[h].out \in Seq(Mail)
    BY <1>1, HandlerFacts DEF TypeInv
  <2>2. \A i \in 1..Len(callbacks) : callbacks[i][1] \in Connection
    BY <2>1 DEF Mail
  <2>3. \A h \in Handler : \A i \in 1..Len(handler[h].out) : handler[h].out[i][1] \in Connection
    BY <2>1 DEF Mail
  <2>4. QED
    BY <1>1, <1>2, <1>5, <2>2, <2>3 DEF Addressing
<1>7. Fresh'
  BY <1>1, <1>3 DEF Fresh, Moves
<1>8. ASSUME NEW r \in Connection PROVE Eventful(r)'
  <2>1. CASE r = s
    BY <2>1
  <2>2. CASE r # s
    BY <1>2, <2>2 DEF OrderInv, Eventful, OnlyEvents
  <2>3. QED
    BY <2>1, <2>2
<1>9. ASSUME NEW r \in Connection PROVE InFeedOrder(r)'
  <2>1. CASE r = s
    BY <2>1
  <2>2. CASE r # s
    <3>1. InFeedOrder(r)
      BY DEF OrderInv
    <3>2. /\ conn'[r] = conn[r] /\ seen'[r] = seen[r] /\ evicted'[r] = evicted[r]
          /\ Addressed(r, callbacks') = Addressed(r, callbacks)
      BY <1>2, <1>3, <2>2
    <3>3. Unsent(r)' = Unsent(r)
      BY <1>2, <3>2 DEF Unsent
    <3>4. Registered(r)' => Registered(r) /\ channel'[conn[r].run].seq = channel[conn[r].run].seq
      <4>1. Registered(r) => conn[r].run \in Run
        BY RegisteredFacts
      <4>2. QED
        BY <2>2, <4>1 DEF Moves
    <3>5. QED
      BY <3>1, <3>2, <3>3, <3>4, FeedSame
  <2>3. QED
    BY <2>1, <2>2
<1>10. QED
  BY <1>4, <1>6, <1>7, <1>8, <1>9 DEF OrderInv

\* The channels stay as they are when nothing changes but a connection that is not
\* attached, or that stays attached to its run.
LEMMA ChannelsKept ==
  ASSUME OrderInv, NEW s \in Connection, Moves(s), UNCHANGED channel,
         conn[s].state = "attached" => conn'[s].state = "attached" /\ conn'[s].run = conn[s].run
  PROVE  \A t \in Run : ChannelOK(t)'
<1>1. TAKE t \in Run
<1>2. ChannelOK(t) /\ channel[t].subscribers \in Seq(Connection)
  BY RegistryOf DEF OrderInv, TypeInv
<1>3. \A i \in 1..Len(channel[t].subscribers) : channel[t].subscribers[i] \in Connection
  BY <1>2
<1>4. \A i \in 1..Len(channel[t].subscribers) :
        LET r == channel[t].subscribers[i] IN conn'[r].state = "attached" /\ conn'[r].run = t
  BY <1>2, <1>3 DEF ChannelOK, Moves
<1>5. QED
  BY <1>2, <1>4 DEF ChannelOK, Numbered

\* Who else is registered stays the same.
LEMMA RegisteredKept ==
  ASSUME NEW s \in Connection, Moves(s), UNCHANGED channel
  PROVE  \A r \in Connection : r # s => (Registered(r)' => Registered(r))
BY DEF Moves, Registered, Attached

\* has_channel decides; the connection is not registered before or after.
LEMMA ConnectKeepsOrder ==
  ASSUME OrderInv, TypeInv', NEW s \in Connection, NEW t \in Run, Connect(s, t)
  PROVE  OrderInv'
<1>1. TypeInv /\ Fresh
  BY DEF OrderInv
<1>2. PICK id \in -1..channel[t].seq :
        conn' = [conn EXCEPT ![s] = [conn[s] EXCEPT
                   !.run = t, !.last_event_id = IF channel[t].open THEN id ELSE -1,
                   !.state = IF channel[t].open THEN "connecting" ELSE "answered"]]
  BY DEF Connect
<1> DEFINE m == IF channel[t].open THEN id ELSE -1
           state == IF channel[t].open THEN "connecting" ELSE "answered"
           c == [conn[s] EXCEPT !.run = t, !.last_event_id = m, !.state = state]
<1>3. m \in Int /\ -1 <= m /\ state \in ConnState /\ state \in {"connecting", "answered"}
  <2>1. channel[t].seq \in Int
    BY <1>1, RegistryOf DEF TypeInv
  <2>2. id \in Int /\ -1 <= id
    BY <2>1
  <2>3. QED
    BY <2>2 DEF ConnState
<1>4. conn' = [conn EXCEPT ![s] = c]
  BY <1>2
<1> HIDE DEF m, state
<1>5. conn[s] \in ConnRec
  BY <1>1, ConnFacts
<1>6. c \in ConnRec
  BY <1>3, <1>5, ConnUpdates
<1>7. c.run = t /\ c.last_event_id = m /\ c.state = state
      /\ c.backlog = conn[s].backlog /\ c.queue = conn[s].queue
  BY <1>5, <1>6 DEF ConnRec
<1> HIDE DEF c
<1>8. \A r \in Connection : conn'[r] = IF r = s THEN c ELSE conn[r]
  BY <1>1, <1>4 DEF TypeInv, ConnsTyped
<1>9. conn[s].state = "idle" /\ UNCHANGED <<holder, handler, callbacks, channel, seen, evicted>>
  BY DEF Connect, service, history
<1>10. conn[s].queue = <<>> /\ conn[s].backlog = <<>>
  BY <1>1, <1>9 DEF Fresh, Early
<1>11. Moves(s)
  <2>1. conn[s].state \in Early
    BY <1>9 DEF Early
  <2>2. QED
    BY <1>3, <1>7, <1>8, <1>9, <1>10, <2>1 DEF Moves
<1>12. ~Registered(s)'
  BY <1>3, <1>7, <1>8 DEF Registered, Attached
<1>13. Eventful(s)' /\ InFeedOrder(s)'
  BY <1>12 DEF Eventful, InFeedOrder
<1>14. QED
  BY <1>9, <1>11, <1>13, ChannelsKept, RegisteredKept, MovesKeepOrder

\* subscribe: whoever attaches is due what its backlog holds, which is the rest of the run.
LEMMA AttachKeepsOrder ==
  ASSUME OrderInv, TypeInv', NEW s \in Connection, Subscribe(s), channel[conn[s].run].open
  PROVE  OrderInv'
<1> DEFINE u == conn[s].run
           id == conn[s].last_event_id
           backlog == Backlog(channel[u], id)
           c == [conn[s] EXCEPT !.state = "attached", !.backlog = backlog]
           subs == channel[u].subscribers
           ch == [channel[u] EXCEPT !.subscribers = Append(subs, s)]
           n == StartingPoint(channel[u], id)
<1>1. TypeInv /\ Fresh /\ Addressing
  BY DEF OrderInv
<1>2. conn[s].state = "connecting" /\ UNCHANGED <<holder, handler, callbacks, evicted>>
  BY DEF Subscribe, service
<1>3. conn[s] \in ConnRec /\ u \in Run /\ id \in Int /\ -1 <= id /\ conn[s].queue = <<>>
  BY <1>1, <1>2, ConnFacts DEF Fresh, Early
<1>4. channel[u] \in ChannelRec /\ Numbered(channel[u]) /\ Len(channel[u].history) <= MaxHistory
      /\ subs \in Seq(Connection) /\ channel[u].history \in Seq(Event) /\ channel[u].seq \in Int
  BY <1>1, <1>3, RegistryOf DEF OrderInv, TypeInv, ChannelOK
<1>5. /\ conn' = [conn EXCEPT ![s] = c] /\ channel' = [channel EXCEPT ![u] = ch]
      /\ seen' = [seen EXCEPT ![s] = n]
  BY <1>1, <1>3 DEF Subscribe, TypeInv, RegistryTyped
<1>6. backlog \in Seq(Event)
  <2> HIDE DEF u, id
  <2>1. QED
    BY <1>3, <1>4, BacklogType
<1>7. InOrder(n, backlog, channel[u].seq) /\ Gapless(n, backlog)
  <2> HIDE DEF u, id
  <2>1. QED
    BY <1>3, <1>4, BacklogInOrder
<1> HIDE DEF backlog, n
<1>8. c \in ConnRec
  <2>1. "attached" \in ConnState
    BY DEF ConnState
  <2>2. QED
    BY <1>3, <1>6, <2>1, ConnUpdates
<1>9. c.state = "attached" /\ c.run = u /\ c.backlog = backlog /\ c.queue = <<>> /\ c.last_event_id = id
  BY <1>3, <1>8 DEF ConnRec
<1> HIDE DEF c
<1>10. \A r \in Connection : conn'[r] = IF r = s THEN c ELSE conn[r]
  BY <1>1, <1>5 DEF TypeInv, ConnsTyped
<1>11. seen'[s] = n /\ \A r \in Connection : r # s => seen'[r] = seen[r]
  BY <1>1, <1>5 DEF TypeInv
<1>12. Append(subs, s) \in Seq(Connection)
  BY <1>4, AppendProperties
<1>13. /\ ch.open = channel[u].open /\ ch.history = channel[u].history /\ ch.seq = channel[u].seq
       /\ ch.subscribers = Append(subs, s)
  <2>1. ch \in ChannelRec /\ ch.open = channel[u].open /\ ch.history = channel[u].history
    <3> HIDE DEF u, subs
    <3>1. QED
      BY <1>4, <1>12, SubscribersType DEF subs
  <2>2. QED
    BY <1>4, <2>1 DEF ChannelRec
<1>14. \A t \in Run : channel'[t] = IF t = u THEN ch ELSE channel[t]
  BY <1>1, <1>5 DEF TypeInv, RegistryTyped
<1> HIDE DEF ch
<1>15. Moves(s)
  <2>1. conn[s].state \in Early /\ conn'[s].state \notin Early
    BY <1>2, <1>9, <1>10 DEF Early
  <2>2. QED
    BY <1>2, <1>3, <1>9, <1>10, <1>11, <1>13, <1>14, <2>1 DEF Moves
<1>16. \A r \in Connection : conn[r].state = "attached" => conn'[r] = conn[r]
  BY <1>2, <1>10
<1> DEFINE new == Append(subs, s)
<1>17. /\ Len(subs) \in Nat /\ Len(new) = Len(subs) + 1 /\ new[Len(subs) + 1] = s
       /\ \A i \in 1..Len(subs) : new[i] = subs[i] /\ subs[i] \in Connection
  <2> HIDE DEF u
  <2>1. /\ Len(subs) \in Nat /\ Len(new) = Len(subs) + 1 /\ new[Len(subs) + 1] = s
        /\ \A i \in 1..Len(subs) : new[i] = subs[i]
    BY <1>4, AppendProperties, LenProperties
  <2>2. \A i \in 1..Len(subs) : subs[i] \in Connection
    BY <1>4, ElementOfSeq
  <2>3. QED
    BY <2>1, <2>2
<1> HIDE DEF new
<1>18. ASSUME NEW t \in Run PROVE ChannelOK(t)'
  <2>1. ChannelOK(t)
    BY DEF OrderInv
  <2>2. CASE t # u
    <3>1. channel'[t] = channel[t] /\ channel[t].subscribers \in Seq(Connection)
      BY <1>1, <1>14, <2>2, RegistryOf DEF TypeInv
    <3>2. \A i \in 1..Len(channel[t].subscribers) : channel[t].subscribers[i] \in Connection
      BY <3>1
    <3>3. QED
      BY <1>16, <2>1, <3>1, <3>2 DEF ChannelOK, Numbered
  <2>3. CASE t = u
    <3>1. /\ channel'[t].subscribers = new /\ channel'[t].open
          /\ channel'[t].seq = channel[t].seq /\ channel'[t].history = channel[t].history
      BY <1>13, <1>14, <2>3 DEF new
    <3>2. \A i \in 1..Len(subs) :
            conn[subs[i]].state = "attached" /\ conn[subs[i]].run = t /\ subs[i] # s
      BY <1>2, <2>1, <2>3 DEF ChannelOK
    <3>3. ASSUME NEW i \in 1..Len(new) PROVE conn'[new[i]].state = "attached" /\ conn'[new[i]].run = t
      <4>1. CASE i \in 1..Len(subs)
        BY <1>16, <1>17, <3>2, <4>1
      <4>2. CASE i = Len(subs) + 1
        BY <1>9, <1>10, <1>17, <2>3, <4>2
      <4>3. QED
        BY <1>17, <4>1, <4>2
    <3>4. ASSUME NEW i \in 1..Len(new), NEW j \in 1..Len(new), new[i] = new[j] PROVE i = j
      <4>1. CASE i \in 1..Len(subs) /\ j \in 1..Len(subs)
        BY <1>17, <2>1, <2>3, <3>4, <4>1 DEF ChannelOK
      <4>2. \A m \in 1..Len(new) : m \in 1..Len(subs) \/ m = Len(subs) + 1
        BY <1>17
      <4>3. \A m \in 1..Len(subs) : new[m] = subs[m] /\ subs[m] # s
        BY <1>17, <3>2
      <4>4. new[Len(subs) + 1] = s
        BY <1>17
      <4>5. CASE i = Len(subs) + 1
        BY <3>4, <4>2, <4>3, <4>4, <4>5
      <4>6. CASE j = Len(subs) + 1
        BY <3>4, <4>2, <4>3, <4>4, <4>6
      <4>7. QED
        BY <4>1, <4>2, <4>5, <4>6
    <3>5. QED
      BY <2>1, <3>1, <3>3, <3>4 DEF ChannelOK, Numbered
  <2>4. QED
    BY <2>2, <2>3
<1>19. ASSUME NEW r \in Connection, r # s, Registered(r)' PROVE Registered(r)
  <2>1. conn'[r] = conn[r] /\ conn[r].state = "attached" /\ conn[r].run \in Run
    BY <1>1, <1>10, <1>19, ConnFacts DEF Registered, Attached
  <2>2. CASE conn[r].run # u
    BY <1>14, <1>19, <2>1, <2>2 DEF Registered, Attached
  <2>3. CASE conn[r].run = u
    <3>a. channel'[conn'[r].run].subscribers = new
      BY <1>3, <1>13, <1>14, <2>1, <2>3 DEF new
    <3>b. Contains(new, r)
      BY <1>19, <3>a DEF Registered
    <3>1. PICK i \in 1..Len(new) : new[i] = r
      BY <3>b DEF Contains
    <3>2. i \in 1..Len(subs) /\ subs[i] = r
      BY <1>17, <1>19, <3>1
    <3>3. QED
      BY <2>1, <2>3, <3>2 DEF Registered, Attached, Contains
  <2>4. QED
    BY <2>2, <2>3
<1>20. callbacks \in Seq(Mail) /\ \A h \in Handler : handler[h].out \in Seq(Mail)
  BY <1>1, HandlerFacts DEF TypeInv
<1>21. /\ \A i \in 1..Len(callbacks) : callbacks[i][1] # s
       /\ \A h \in Handler : \A i \in 1..Len(handler[h].out) : handler[h].out[i][1] # s
  BY <1>1, <1>2 DEF Addressing, Early
<1>22. Eventful(s)'
  BY <1>2, <1>21 DEF Eventful, OnlyEvents
<1>23. Addressed(s, callbacks)' = <<>>
  BY <1>2, <1>20, <1>21, AddressedNone
<1>24. Unsent(s)' = <<>>
  <2>1. holder[u] = NoHandler \/ holder[u] \in Handler
    BY <1>1, <1>3 DEF TypeInv
  <2>2. conn'[s].run = u
    BY <1>9, <1>10
  <2>3. holder[u] \in Handler => Addressed(s, handler[holder[u]].out) = <<>>
    BY <1>20, <1>21, AddressedNone
  <2>4. QED
    BY <1>2, <2>1, <2>2, <2>3 DEF Unsent
<1>25. Feed(s)' = backlog
  <2>1. Feed(s)' = conn'[s].backlog \o conn'[s].queue \o Addressed(s, callbacks)' \o Unsent(s)'
    BY DEF Feed
  <2>2. Feed(s)' = backlog \o <<>> \o <<>> \o <<>>
    BY <1>9, <1>10, <1>23, <1>24, <2>1
  <2>3. QED
    BY <1>6, <2>2, ConcatEmptySeq
<1>26. Coming(s)' = backlog
  <2>1. \A i \in 1..Len(backlog) : backlog[i] \in Event
    BY <1>6
  <2>2. Selected(backlog, Event) = backlog
    BY <1>6, <2>1, SelectedAll
  <2>3. QED
    BY <1>25, <2>2 DEF Coming
<1>27. InFeedOrder(s)'
  <2>1. seen'[s] = n /\ channel'[conn'[s].run].seq = channel[u].seq
    BY <1>3, <1>9, <1>10, <1>11, <1>13, <1>14
  <2> HIDE DEF InOrder, Gapless, u
  <2>2. QED
    BY <1>7, <1>26, <2>1 DEF InFeedOrder
<1>28. QED
  BY <1>15, <1>18, <1>19, <1>22, <1>27, MovesKeepOrder

\* subscribe raises ChannelClosed: the connection is answered with a snapshot.
LEMMA TurnedAwayKeepsOrder ==
  ASSUME OrderInv, TypeInv', NEW s \in Connection, Subscribe(s), ~channel[conn[s].run].open
  PROVE  OrderInv'
<1> DEFINE c == [conn[s] EXCEPT !.state = "answered"]
<1>1. TypeInv /\ Fresh
  BY DEF OrderInv
<1>2. /\ conn[s].state = "connecting"
      /\ UNCHANGED <<holder, handler, callbacks, channel, seen, evicted>>
      /\ conn' = [conn EXCEPT ![s] = c]
  BY DEF Subscribe, service
<1>3. conn[s] \in ConnRec /\ c \in ConnRec
  BY <1>1, ConnFacts, ConnUpdates DEF ConnState
<1>4. c.state = "answered" /\ c.last_event_id = conn[s].last_event_id
  BY <1>3 DEF ConnRec
<1> HIDE DEF c
<1>5. \A r \in Connection : conn'[r] = IF r = s THEN c ELSE conn[r]
  BY <1>1, <1>2 DEF TypeInv, ConnsTyped
<1>6. Moves(s)
  <2>1. conn[s].state \in Early /\ conn'[s].state \notin Early
    BY <1>2, <1>4, <1>5 DEF Early
  <2>2. QED
    BY <1>1, <1>2, <1>4, <1>5, <2>1 DEF Moves, Fresh
<1>7. ~Registered(s)'
  BY <1>4, <1>5 DEF Registered, Attached
<1>8. Eventful(s)' /\ InFeedOrder(s)'
  BY <1>7 DEF Eventful, InFeedOrder
<1>9. QED
  BY <1>2, <1>6, <1>8, ChannelsKept, RegisteredKept, MovesKeepOrder

\* subscribe's finally takes the connection out of its channel, and only that one.
LEMMA DetachKeepsOrder ==
  ASSUME OrderInv, TypeInv', NEW s \in Connection, conn[s].state # "idle",
         NEW state \in {"finished", "left"}, Detach(s, state),
         UNCHANGED <<holder, handler, callbacks, evicted>>,
         \A r \in Connection : r # s => seen'[r] = seen[r]
  PROVE  OrderInv'
<1> DEFINE u == conn[s].run
           c == [NoConn EXCEPT !.state = state, !.run = u]
           subs == channel[u].subscribers
           new == Selected(subs, Connection \ {s})
           ch == [channel[u] EXCEPT !.subscribers = new]
<1>1. TypeInv /\ Fresh
  BY DEF OrderInv
<1>2. u \in Run /\ state \in ConnState /\ state \notin Early /\ state # "attached"
  BY <1>1, ConnFacts DEF ConnState, Early
<1>3. c \in ConnRec /\ c.state = state /\ c.run = u /\ c.last_event_id = -1
  <2>1. c \in ConnRec
    BY <1>2, NoConnType, ConnUpdates
  <2>2. NoConn \in ConnRec /\ NoConn.last_event_id = -1
    BY NoConnType DEF NoConn
  <2>3. QED
    BY <2>1, <2>2 DEF ConnRec
<1>4. /\ channel[u] \in ChannelRec /\ subs \in Seq(Connection)
      /\ Len(channel[u].history) <= MaxHistory
  BY <1>1, <1>2, RegistryOf DEF TypeInv
<1>5. new \in Seq(Connection)
  <2>1. new \in Seq(Connection \cap (Connection \ {s}))
    BY <1>4, SelectedType
  <2>2. QED
    BY <2>1, SeqMonotonic
<1>6. Range(new) = Range(subs) \cap (Connection \ {s})
  BY <1>4, SelectedRange
<1>7. ChannelOK(u)
  BY <1>2 DEF OrderInv
<1>8. IsInjective(new)
  <2>1. \A i, j \in 1..Len(subs) : subs[i] = subs[j] => i = j
    BY <1>7 DEF ChannelOK
  <2>2. DOMAIN subs = 1..Len(subs)
    BY <1>4
  <2>3. IsInjective(subs)
    BY <2>1, <2>2, Zenon DEF IsInjective
  <2>4. QED
    BY <1>4, <2>3, SelectedDistinct
<1>9. conn' = [conn EXCEPT ![s] = c] /\ channel' = [channel EXCEPT ![u] = ch]
  BY <1>1, <1>2 DEF Detach, TypeInv, RegistryTyped
<1>10. /\ ch.open = channel[u].open /\ ch.history = channel[u].history /\ ch.seq = channel[u].seq
       /\ ch.subscribers = new
  <2> HIDE DEF u, new
  <2>1. ch \in ChannelRec /\ ch.open = channel[u].open /\ ch.history = channel[u].history
    BY <1>4, <1>5, SubscribersType
  <2>2. QED
    BY <1>4, <2>1 DEF ChannelRec
<1> HIDE DEF c, ch, new
<1>11. \A r \in Connection : conn'[r] = IF r = s THEN c ELSE conn[r]
  BY <1>1, <1>9 DEF TypeInv, ConnsTyped
<1>12. \A t \in Run : channel'[t] = IF t = u THEN ch ELSE channel[t]
  BY <1>1, <1>9 DEF TypeInv, RegistryTyped
<1>13. Moves(s)
  BY <1>2, <1>3, <1>10, <1>11, <1>12 DEF Moves
<1>14. \A i \in 1..Len(new) :
         /\ new[i] # s /\ new[i] \in Connection
         /\ \E j \in 1..Len(subs) : subs[j] = new[i]
  <2>1. TAKE i \in 1..Len(new)
  <2>2. new[i] \in Range(new)
    BY <1>5 DEF Range
  <2>3. new[i] \in Range(subs) /\ new[i] \in Connection /\ new[i] # s
    BY <1>6, <2>2
  <2>4. QED
    BY <1>4, <2>3 DEF Range
<1>15. ASSUME NEW t \in Run PROVE ChannelOK(t)'
  <2>1. ChannelOK(t)
    BY DEF OrderInv
  <2>2. CASE t # u
    <3>1. channel'[t] = channel[t] /\ channel[t].subscribers \in Seq(Connection)
      BY <1>1, <1>12, <2>2, RegistryOf DEF TypeInv
    <3>2. \A i \in 1..Len(channel[t].subscribers) :
            channel[t].subscribers[i] \in Connection /\ channel[t].subscribers[i] # s
      BY <2>1, <2>2, <3>1 DEF ChannelOK
    <3>3. QED
      BY <1>11, <2>1, <3>1, <3>2 DEF ChannelOK, Numbered
  <2>3. CASE t = u
    <3>1. /\ channel'[t].subscribers = new /\ channel'[t].open = channel[t].open
          /\ channel'[t].seq = channel[t].seq /\ channel'[t].history = channel[t].history
      BY <1>10, <1>12, <2>3
    <3>2. ASSUME NEW i \in 1..Len(new) PROVE conn'[new[i]].state = "attached" /\ conn'[new[i]].run = t
      <4>1. PICK j \in 1..Len(subs) : subs[j] = new[i]
        BY <1>14
      <4>2. conn[new[i]].state = "attached" /\ conn[new[i]].run = t
        BY <2>1, <2>3, <4>1 DEF ChannelOK
      <4>3. QED
        BY <1>11, <1>14, <4>2
    <3>3. \A i, j \in 1..Len(new) : new[i] = new[j] => i = j
      BY <1>5, <1>8 DEF IsInjective
    <3>4. ~channel'[t].open => new = <<>>
      <4>1. ASSUME ~channel[t].open, new # <<>> PROVE FALSE
        <5>1. 1 \in 1..Len(new) /\ Len(subs) = 0
          BY <1>5, <2>1, <2>3, <4>1, EmptySeq DEF ChannelOK
        <5>2. QED
          BY <1>14, <5>1
      <4>2. QED
        BY <3>1, <4>1
    <3>5. QED
      BY <2>1, <3>1, <3>2, <3>3, <3>4 DEF ChannelOK, Numbered
  <2>4. QED
    BY <2>2, <2>3
<1>16. ASSUME NEW r \in Connection, r # s, Registered(r)' PROVE Registered(r)
  <2>1. conn'[r] = conn[r] /\ conn[r].state = "attached" /\ conn[r].run \in Run
    BY <1>1, <1>11, <1>16, ConnFacts DEF Registered, Attached
  <2>2. CASE conn[r].run # u
    BY <1>12, <1>16, <2>1, <2>2 DEF Registered, Attached
  <2>3. CASE conn[r].run = u
    <3>1. channel'[conn'[r].run].subscribers = new
      BY <1>2, <1>10, <1>12, <2>1, <2>3
    <3>2. Contains(new, r)
      BY <1>16, <3>1 DEF Registered
    <3>3. PICK i \in 1..Len(new) : new[i] = r
      BY <3>2 DEF Contains
    <3>4. \E j \in 1..Len(subs) : subs[j] = r
      BY <1>14, <3>3
    <3>5. QED
      BY <2>1, <2>3, <3>4 DEF Registered, Attached, Contains
  <2>4. QED
    BY <2>2, <2>3
<1>17. ~Registered(s)'
  BY <1>2, <1>3, <1>11 DEF Registered, Attached
<1>18. Eventful(s)' /\ InFeedOrder(s)'
  BY <1>17 DEF Eventful, InFeedOrder
<1>19. QED
  BY <1>13, <1>15, <1>16, <1>18, MovesKeepOrder

\* The client goes away.
LEMMA LeaveKeepsOrder ==
  ASSUME OrderInv, TypeInv', NEW s \in Connection, Leave(s)
  PROVE  OrderInv'
BY DetachKeepsOrder DEF Leave, service, history

\* What a connection reads next is the front of its feed.
LEMMA FrontOfFeed ==
  ASSUME NEW b \in Seq(Item), NEW q \in Seq(Item), NEW a \in Seq(Item), NEW u \in Seq(Item),
         b \o q # <<>>
  PROVE  /\ Head(b \o q) \in Item
         /\ b # <<>> => Head(b \o q) = Head(b) /\ Tail(b) \in Seq(Item)
                        /\ Cat(Cat(Cat(b, q), a), u) = Cat(<<Head(b)>>, Cat(Cat(Cat(Tail(b), q), a), u))
         /\ b = <<>> => Head(b \o q) = Head(q) /\ Tail(q) \in Seq(Item) /\ q # <<>>
                        /\ Cat(Cat(Cat(b, q), a), u) = Cat(<<Head(q)>>, Cat(Cat(Cat(b, Tail(q)), a), u))
<1>1. CASE b # <<>>
  <2> DEFINE one == <<Head(b)>>
             tl == Tail(b)
  <2>1. one \in Seq(Item) /\ tl \in Seq(Item) /\ b = Cat(one, tl) /\ Head(b) \in Item
    BY <1>1, HeadThenTail DEF Cat
  <2>2. Head(b \o q) = Head(b)
    BY <1>1
  <2> HIDE DEF one, tl
  <2>3. Cat(b, q) = Cat(one, Cat(tl, q)) /\ Cat(tl, q) \in Seq(Item)
    BY <2>1, CatAssociative, CatType
  <2>4. Cat(Cat(b, q), a) = Cat(one, Cat(Cat(tl, q), a)) /\ Cat(Cat(tl, q), a) \in Seq(Item)
    BY <2>1, <2>3, CatAssociative, CatType
  <2>5. Cat(Cat(Cat(b, q), a), u) = Cat(one, Cat(Cat(Cat(tl, q), a), u))
    BY <2>1, <2>4, CatAssociative
  <2>6. QED
    BY <1>1, <2>1, <2>2, <2>5 DEF one, tl
<1>2. CASE b = <<>>
  <2>1. b \o q = q /\ Cat(b, q) = q /\ q # <<>>
    BY <1>2, ConcatEmptySeq, EmptyCat
  <2> DEFINE one == <<Head(q)>>
             tl == Tail(q)
  <2>2. one \in Seq(Item) /\ tl \in Seq(Item) /\ q = Cat(one, tl) /\ Head(q) \in Item
    BY <2>1, HeadThenTail DEF Cat
  <2> HIDE DEF one, tl
  <2>3. Cat(b, tl) = tl
    BY <1>2, <2>2, EmptyCat
  <2>4. Cat(q, a) = Cat(one, Cat(tl, a)) /\ Cat(tl, a) \in Seq(Item)
    BY <2>2, CatAssociative, CatType
  <2>5. Cat(Cat(q, a), u) = Cat(one, Cat(Cat(tl, a), u))
    BY <2>2, <2>4, CatAssociative
  <2>6. QED
    BY <1>2, <2>1, <2>2, <2>3, <2>5 DEF one, tl
<1>3. QED
  BY <1>1, <1>2

\* Reading the front of a feed keeps the rest in order behind what was read.
LEMMA FeedRead ==
  ASSUME NEW x \in Item, NEW f \in Seq(Item), NEW n \in Int, NEW top \in Int,
         InOrder(n, Selected(Cat(<<x>>, f), Event), top)
  PROVE  LET m == IF IsEvent(x) THEN x.seq ELSE n
         IN  /\ InOrder(m, Selected(f, Event), top)
             /\ Gapless(n, Selected(Cat(<<x>>, f), Event)) => Gapless(m, Selected(f, Event))
<1> DEFINE one == <<x>>
           es == Selected(f, Event)
<1>1. one \in Seq(Item) /\ Selected(one, Event) = IF x \in Event THEN one ELSE <<>>
  BY SelectedOne
<1>2. es \in Seq(Event)
  <2>1. es \in Seq(Item \cap Event)
    BY SelectedType
  <2>2. QED
    BY <2>1, SeqMonotonic
<1> HIDE DEF es
<1>3. Selected(Cat(one, f), Event) = Cat(Selected(one, Event), es)
  <2> HIDE DEF one
  <2>1. QED
    BY <1>1, SelectedCat DEF es
<1>4. CASE x \in Event
  <2>1. Selected(Cat(<<x>>, f), Event) = <<x>> \o es
    BY <1>1, <1>3, <1>4 DEF Cat
  <2>2. IsEvent(x)
    BY <1>4, ItemKinds
  <2> HIDE DEF one
  <2>3. InOrder(n, <<x>> \o es, top)
    BY <2>1
  <2>4. InOrder(x.seq, es, top) /\ (Gapless(n, <<x>> \o es) => Gapless(x.seq, es))
    BY <1>2, <1>4, <2>3, OrderTail
  <2> HIDE DEF InOrder, Gapless
  <2>5. QED
    BY <2>1, <2>2, <2>4 DEF es
<1>5. CASE x \notin Event
  <2>1. Selected(Cat(<<x>>, f), Event) = es
    <3>1. Cat(<<>>, es) = es
      BY <1>2, EmptyCat
    <3>2. QED
      BY <1>1, <1>3, <1>5, <3>1
  <2>2. ~IsEvent(x)
    BY <1>5, ItemKinds
  <2> HIDE DEF InOrder, Gapless
  <2>3. QED
    BY <2>1, <2>2 DEF es
<1>6. QED
  BY <1>4, <1>5

\* The generator yields the front of the feed, or ends and detaches.
LEMMA ReadKeepsOrder ==
  ASSUME OrderInv, TypeInv', NEW s \in Connection, Read(s)
  PROVE  OrderInv'
<1> DEFINE c == conn[s]
           b == c.backlog
           q == c.queue
           item == Head(b \o q)
           ends == item = Done \/ (item.type \in TerminalTypes /\ IsCurrent(c))
           n == IF IsEvent(item) THEN item.seq ELSE seen[s]
<1>1. TypeInv /\ Fresh /\ InFeedOrder(s) /\ Eventful(s)
  BY DEF OrderInv
<1>2. /\ c.state = "attached" /\ b \o q # <<>>
      /\ UNCHANGED <<holder, handler, callbacks, evicted>>
      /\ seen' = [seen EXCEPT ![s] = n]
  BY DEF Read, service
<1>3. /\ c \in ConnRec /\ b \in Seq(Event) /\ b \in Seq(Item) /\ q \in Seq(Item) /\ c.run \in Run
      /\ seen[s] \in Int /\ -1 <= c.last_event_id
  BY <1>1, <1>2, ConnFacts DEF Fresh
<1> HIDE DEF n
<1>4. seen'[s] = n /\ \A r \in Connection : r # s => seen'[r] = seen[r]
  BY <1>1, <1>2 DEF TypeInv
<1>5. CASE ends
  <2>1. Detach(s, "finished")
    BY <1>5 DEF Read
  <2> HIDE DEF ends
  <2>2. QED
    BY <1>2, <1>4, <2>1, DetachKeepsOrder
<1>6. CASE ~ends
  <2> DEFINE d == IF b # <<>> THEN [c EXCEPT !.backlog = Tail(b)] ELSE [c EXCEPT !.queue = Tail(q)]
             a == Addressed(s, callbacks)
             u == Unsent(s)
  <2>1. conn' = [conn EXCEPT ![s] = d] /\ UNCHANGED channel
    BY <1>6 DEF Read
  <2> HIDE DEF ends
  <2>2. a \in Seq(Item) /\ u \in Seq(Item)
    BY <1>1, <1>3, MailType, UnsentType
  <2> HIDE DEF a, u
  <2>3. /\ item \in Item
        /\ b # <<>> => item = Head(b) /\ Tail(b) \in Seq(Item)
                       /\ Cat(Cat(Cat(b, q), a), u) = Cat(<<Head(b)>>, Cat(Cat(Cat(Tail(b), q), a), u))
        /\ b = <<>> => item = Head(q) /\ Tail(q) \in Seq(Item) /\ q # <<>>
                       /\ Cat(Cat(Cat(b, q), a), u) = Cat(<<Head(q)>>, Cat(Cat(Cat(b, Tail(q)), a), u))
    <3> HIDE DEF b, q
    <3>1. QED
      BY <1>2, <1>3, <2>2, FrontOfFeed
  <2>4. /\ d.state = c.state /\ d.run = c.run /\ d.last_event_id = c.last_event_id
        /\ d.backlog = (IF b # <<>> THEN Tail(b) ELSE b)
        /\ d.queue = (IF b # <<>> THEN q ELSE Tail(q))
    <3>1. CASE b # <<>>
      <4>1. Tail(b) \in Seq(Event)
        BY <1>3, <3>1
      <4> DEFINE e == [c EXCEPT !.backlog = Tail(b)]
      <4>2. e \in ConnRec
        BY <1>3, <4>1, ConnUpdates
      <4>3. /\ e.state = c.state /\ e.run = c.run /\ e.last_event_id = c.last_event_id
            /\ e.backlog = Tail(b) /\ e.queue = q
        BY <1>3, <4>2 DEF ConnRec
      <4>4. d = e
        BY <3>1
      <4> HIDE DEF e, d, c
      <4>5. QED
        BY <3>1, <4>3, <4>4
    <3>2. CASE b = <<>>
      <4>1. Tail(q) \in Seq(Item)
        BY <2>3, <3>2
      <4> DEFINE e == [c EXCEPT !.queue = Tail(q)]
      <4>2. e \in ConnRec
        BY <1>3, <4>1, ConnUpdates
      <4>3. /\ e.state = c.state /\ e.run = c.run /\ e.last_event_id = c.last_event_id
            /\ e.backlog = b /\ e.queue = Tail(q)
        BY <1>3, <4>2 DEF ConnRec
      <4>4. d = e
        BY <3>2
      <4> HIDE DEF e, d, c
      <4>5. QED
        BY <3>2, <4>3, <4>4
    <3>3. QED
      BY <3>1, <3>2
  <2> HIDE DEF d
  <2>5. \A r \in Connection : conn'[r] = IF r = s THEN d ELSE conn[r]
    BY <1>1, <2>1 DEF TypeInv, ConnsTyped
  <2>6. Moves(s)
    BY <1>2, <1>3, <1>4, <2>1, <2>4, <2>5 DEF Moves, Early
  <2>7. \A t \in Run : ChannelOK(t)'
    BY <2>1, <2>4, <2>5, <2>6, ChannelsKept
  <2>8. \A r \in Connection : r # s => (Registered(r)' => Registered(r))
    BY <2>1, <2>6, RegisteredKept
  <2>9. Registered(s)' => Registered(s)
    BY <2>1, <2>4, <2>5 DEF Registered, Attached
  <2>10. Eventful(s)'
    BY <1>1, <1>2, <2>9 DEF Eventful, OnlyEvents
  <2>11. InFeedOrder(s)'
    <3>1. CASE ~Registered(s)'
      BY <3>1 DEF InFeedOrder
    <3>2. CASE Registered(s)'
      <4> DEFINE f == Feed(s)'
                 top == channel[c.run].seq
      <4>1. Registered(s) /\ top \in Int
        BY <1>1, <1>3, <2>9, <3>2, RegistryOf DEF TypeInv
      <4>2. Unsent(s)' = u
        BY <1>2, <2>4, <2>5 DEF Unsent, u
      <4>3. Feed(s)' = conn'[s].backlog \o conn'[s].queue \o Addressed(s, callbacks)' \o Unsent(s)'
        BY DEF Feed
      <4>4. f = Cat(Cat(Cat(IF b # <<>> THEN Tail(b) ELSE b, IF b # <<>> THEN q ELSE Tail(q)), a), u)
        BY <1>2, <2>4, <2>5, <4>2, <4>3 DEF Cat, a
      <4>5. Feed(s) = Cat(Cat(Cat(b, q), a), u)
        BY DEF Feed, Cat, a, u
      <4> HIDE DEF f
      <4>6. Feed(s) = Cat(<<item>>, f)
        <5> HIDE DEF b, q, item
        <5>1. CASE b # <<>>
          BY <2>3, <4>4, <4>5, <5>1
        <5>2. CASE b = <<>>
          BY <2>3, <4>4, <4>5, <5>2
        <5>3. QED
          BY <5>1, <5>2
      <4>7. f \in Seq(Item)
        <5> DEFINE b2 == IF b # <<>> THEN Tail(b) ELSE b
                   q2 == IF b # <<>> THEN q ELSE Tail(q)
        <5>1. b2 \in Seq(Item) /\ q2 \in Seq(Item) /\ f = Cat(Cat(Cat(b2, q2), a), u)
          BY <1>3, <2>3, <4>4
        <5> HIDE DEF b2, q2
        <5>2. Cat(b2, q2) \in Seq(Item)
          BY <5>1, CatType
        <5>3. Cat(Cat(b2, q2), a) \in Seq(Item)
          BY <2>2, <5>2, CatType
        <5>4. QED
          BY <2>2, <5>1, <5>3, CatType
      <4>8. InOrder(seen[s], Selected(Cat(<<item>>, f), Event), top)
            /\ (~evicted[s] => Gapless(seen[s], Selected(Cat(<<item>>, f), Event)))
        BY <1>1, <4>1, <4>6 DEF InFeedOrder, Coming
      <4> HIDE DEF item, top
      <4>9. InOrder(n, Selected(f, Event), top)
            /\ (Gapless(seen[s], Selected(Cat(<<item>>, f), Event)) => Gapless(n, Selected(f, Event)))
        BY <1>3, <2>3, <4>1, <4>7, <4>8, FeedRead DEF n
      <4>10. Coming(s)' = Selected(f, Event)
        BY DEF Coming, f
      <4>11. /\ seen'[s] = n /\ evicted'[s] = evicted[s]
             /\ channel'[conn'[s].run].seq = top
        BY <1>2, <1>4, <2>1, <2>4, <2>5 DEF top
      <4> HIDE DEF InOrder, Gapless
      <4>12. QED
        BY <4>8, <4>9, <4>10, <4>11 DEF InFeedOrder
    <3>3. QED
      BY <3>1, <3>2
  <2>12. QED
    BY <2>6, <2>7, <2>8, <2>10, <2>11, MovesKeepOrder
<1>7. QED
  BY <1>5, <1>6

-----------------------------------------------------------------------------
(* The invariant holds *)

\* The order holds initially,
LEMMA InitOrder == Init => OrderInv
<1> SUFFICES ASSUME Init PROVE OrderInv
  OBVIOUS
<1>1. TypeInv
  BY InitTyped
<1>2. /\ \A h \in Handler : handler[h].pc \notin PassPC /\ handler[h].out = <<>>
      /\ \A t \in Run : holder[t] = NoHandler /\ channel[t] = NoChannel
      /\ callbacks = <<>>
      /\ \A s \in Connection : conn[s] = NoConn
  BY DEF Init, PassPC
<1>3. Locking
  BY <1>2 DEF Locking
<1>4. \A t \in Run : ChannelOK(t)
  <2>1. NoChannel.subscribers = <<>>
    BY NoChannelType DEF NoChannel, NewChannel
  <2>2. QED
    BY <1>2, <2>1, EmptyChannelOK DEF ChannelOK
<1>5. Addressing
  BY <1>2 DEF Addressing
<1>6. Fresh
  BY <1>2 DEF Fresh, NoConn
<1>7. \A s \in Connection : ~Registered(s)
  BY <1>2 DEF Registered, Attached, NoConn
<1>8. QED
  BY <1>1, <1>3, <1>4, <1>5, <1>6, <1>7 DEF OrderInv, Eventful, InFeedOrder

\* stays when nothing happens,
LEMMA StutterKeepsOrder == OrderInv /\ UNCHANGED vars => OrderInv'
<1> SUFFICES ASSUME OrderInv, UNCHANGED vars PROVE OrderInv'
  OBVIOUS
<1>1. UNCHANGED <<phase, holder, handler, channel, callbacks, conn, seen, evicted>>
  BY DEF vars
<1>2. TypeInv' /\ Locking' /\ Addressing' /\ Fresh'
  BY <1>1, StepTyped DEF OrderInv, vars, Locking, Addressing, Fresh
<1>3. \A t \in Run : ChannelOK(t)'
  BY <1>1 DEF OrderInv, ChannelOK, Numbered
<1>4. ASSUME NEW s \in Connection PROVE Eventful(s)' /\ InFeedOrder(s)'
  <2>1. Registered(s)' <=> Registered(s)
    BY <1>1 DEF Registered, Attached
  <2>2. Unsent(s)' = Unsent(s)
    BY <1>1 DEF Unsent
  <2>3. Eventful(s)'
    BY <1>1, <2>1 DEF OrderInv, Eventful, OnlyEvents
  <2>4. InFeedOrder(s)'
    BY <1>1, <2>1, <2>2, FeedSame DEF OrderInv
  <2>5. QED
    BY <2>3, <2>4
<1>5. QED
  BY <1>2, <1>3, <1>4 DEF OrderInv

\* and is kept by every step.
LEMMA StepOrder == OrderInv /\ [Next]_vars => OrderInv'
<1> SUFFICES ASSUME OrderInv, [Next]_vars PROVE OrderInv'
  OBVIOUS
<1>1. TypeInv /\ TypeInv'
  BY StepTyped DEF OrderInv
<1>2. CASE UNCHANGED vars
  BY <1>2, StutterKeepsOrder
<1>3. CASE Next
  <2>1. ASSUME NEW h \in Handler, NEW t \in Run,
               Reserve(h, t) \/ PostFresh(h, t) \/ Resume(h, t)
        PROVE  OrderInv'
    BY <1>1, <2>1, RequestPrepares, PreparingKeepsOrder
  <2>2. ASSUME NEW h \in Handler, Post(h) \/ OpenChannel(h) \/ Refuse(h)
        PROVE  OrderInv'
    <3>1. handler[h].run \in Run
      BY <1>1, <2>2 DEF Post, OpenChannel, Refuse, TypeInv, HandlersTyped
    <3>2. QED
      BY <1>1, <2>2, <3>1, RequestPrepares, PreparingKeepsOrder
  <2>3. ASSUME NEW h \in Handler, Pass(h) PROVE OrderInv'
    BY <1>1, <2>3, PassKeepsOrder
  <2>4. ASSUME NEW s \in Connection, NEW t \in Run, Connect(s, t) PROVE OrderInv'
    BY <1>1, <2>4, ConnectKeepsOrder
  <2>5. ASSUME NEW s \in Connection, Subscribe(s) \/ Read(s) \/ Leave(s) PROVE OrderInv'
    BY <1>1, <2>5, AttachKeepsOrder, TurnedAwayKeepsOrder, ReadKeepsOrder, LeaveKeepsOrder
  <2>6. CASE RunCallback
    BY <1>1, <2>6, LoopKeepsOrder
  <2>7. QED
    BY <1>3, <2>1, <2>2, <2>3, <2>4, <2>5, <2>6 DEF Next
<1>4. QED
  BY <1>2, <1>3

\* Between any steps of worker threads, the loop and clients, what is on its way to a
\* subscriber continues what it has read, in order, up to the newest event, and without
\* a gap unless its queue overflowed.
THEOREM FeedsStayInOrder == Spec => []OrderInv
BY InitOrder, StepOrder, PTL DEF Spec

-----------------------------------------------------------------------------
(* What the invariant says of a reader *)

\* Due is the number read last and then the numbers of what is coming.
LEMMA DueIsComing ==
  ASSUME TypeInv, NEW s \in Connection, conn[s].run \in Run
  PROVE  /\ Len(Coming(s)) \in Nat /\ Len(Due(s)) = Len(Coming(s)) + 1
         /\ Due(s)[1] = seen[s] /\ seen[s] \in Int
         /\ \A i \in 1..Len(Coming(s)) : Due(s)[i + 1] = Coming(s)[i].seq /\ Coming(s)[i].seq \in Int
<1> DEFINE es == Coming(s)
           nums == [i \in DOMAIN es |-> es[i].seq]
           one == <<seen[s]>>
<1>1. es \in Seq(Event) /\ Len(es) \in Nat
  BY ComingType, LenProperties
<1>2. Due(s) = one \o nums
  BY DEF Due, Coming, Feed, Unsent
<1> HIDE DEF es
<1>3. \A i \in 1..Len(es) : es[i].seq \in Int
  BY <1>1, EventSeq
<1>4. nums \in Seq(Int) /\ Len(nums) = Len(es) /\ \A i \in 1..Len(es) : nums[i] = es[i].seq
  BY <1>1, <1>3
<1>5. one \in Seq(Int) /\ Len(one) = 1 /\ one[1] = seen[s] /\ seen[s] \in Int
  BY ConnFacts
<1> HIDE DEF one, nums
<1> DEFINE d == one \o nums
           len == Len(es)
<1>6. Joins(Int, one, nums, d)
  BY <1>4, <1>5, TwoParts
<1> HIDE DEF d, len
<1>7. /\ len \in Nat /\ Len(d) = len + 1 /\ d[1] = one[1]
      /\ \A i \in 1..len : d[1 + i] = nums[i]
  BY <1>1, <1>4, <1>5, <1>6 DEF Joins, len
<1>8. d[1] = seen[s] /\ \A i \in 1..len : d[i + 1] = es[i].seq
  <2>1. ASSUME NEW i \in 1..len PROVE d[i + 1] = es[i].seq
    <3>1. i + 1 = 1 + i
      OBVIOUS
    <3>2. d[i + 1] = nums[i]
      BY <1>7, <3>1
    <3>3. QED
      BY <1>4, <3>2 DEF len
  <2>2. QED
    BY <1>5, <1>7, <2>1
<1>9. QED
  BY <1>1, <1>2, <1>3, <1>5, <1>7, <1>8 DEF d, es, len

\* The order is what NewestIsOnItsWay says,
LEMMA InOrderIsNewest == OrderInv => NewestIsOnItsWay
<1> SUFFICES ASSUME OrderInv, NEW s \in Connection, Registered(s)
             PROVE  /\ Last(Due(s)) = channel[conn[s].run].seq - 1
                    /\ \A i \in 1..Len(Due(s)) - 1 : Due(s)[i] < Due(s)[i + 1]
  BY DEF NewestIsOnItsWay
<1> DEFINE d == Due(s)
           es == Coming(s)
           n == seen[s]
           top == channel[conn[s].run].seq
           k == Len(es)
<1>1. TypeInv /\ conn[s].run \in Run /\ InFeedOrder(s)
  BY RegisteredFacts DEF OrderInv
<1>2. InOrder(n, es, top) /\ es \in Seq(Event)
  BY <1>1, ComingType DEF InFeedOrder
<1>3. /\ k \in Nat /\ Len(d) = k + 1 /\ d[1] = n /\ n \in Int
      /\ \A i \in 1..k : d[i + 1] = es[i].seq /\ es[i].seq \in Int
  BY <1>1, DueIsComing
<1>4. k = 0 <=> es = <<>>
  BY <1>2, EmptySeq
<1>5. Last(d) = d[k + 1]
  BY <1>3 DEF Last
<1> HIDE DEF d, es, n, top, k
<1>6. /\ \A i \in 1..k : n < es[i].seq
      /\ \A i, j \in 1..k : i < j => es[i].seq < es[j].seq
      /\ k = 0 => n = top - 1
      /\ k # 0 => es[k].seq = top - 1
  BY <1>2, <1>4 DEF InOrder, k
<1>7. d[k + 1] = top - 1
  <2>1. CASE k = 0
    BY <1>3, <1>6, <2>1
  <2>2. CASE k # 0
    BY <1>3, <1>6, <2>2
  <2>3. QED
    BY <2>1, <2>2
<1>8. ASSUME NEW i \in 1..Len(d) - 1 PROVE d[i] < d[i + 1]
  <2>1. i \in 1..k
    BY <1>3
  <2>2. CASE i = 1
    BY <1>3, <1>6, <2>1, <2>2
  <2>3. CASE i # 1
    <3>1. i - 1 \in 1..k /\ i - 1 < i /\ (i - 1) + 1 = i
      BY <1>3, <2>1, <2>3
    <3>2. d[(i - 1) + 1] = es[i - 1].seq /\ d[i + 1] = es[i].seq
      BY <1>3, <2>1, <3>1
    <3>3. es[i - 1].seq < es[i].seq
      BY <1>6, <2>1, <3>1
    <3>4. QED
      BY <3>1, <3>2, <3>3
  <2>4. QED
    BY <2>2, <2>3
<1>9. QED
  BY <1>5, <1>7, <1>8 DEF d, top

\* and NoGapWithoutOverflow.
LEMMA InOrderIsGapless == OrderInv => NoGapWithoutOverflow
<1> SUFFICES ASSUME OrderInv, NEW s \in Connection, Registered(s), ~evicted[s]
             PROVE  \A i \in 1..Len(Due(s)) - 1 : Due(s)[i + 1] = Due(s)[i] + 1
  BY DEF NoGapWithoutOverflow
<1> DEFINE d == Due(s)
           es == Coming(s)
           n == seen[s]
           k == Len(es)
<1>1. TypeInv /\ conn[s].run \in Run /\ InFeedOrder(s)
  BY RegisteredFacts DEF OrderInv
<1>2. Gapless(n, es)
  BY <1>1 DEF InFeedOrder
<1>3. /\ k \in Nat /\ Len(d) = k + 1 /\ d[1] = n /\ n \in Int
      /\ \A i \in 1..k : d[i + 1] = es[i].seq
  BY <1>1, DueIsComing
<1> HIDE DEF d, es, n, k
<1>4. \A i \in 1..k : es[i].seq = n + i
  BY <1>2 DEF Gapless, k
<1>5. ASSUME NEW i \in 1..Len(d) - 1 PROVE d[i + 1] = d[i] + 1
  <2>1. i \in 1..k
    BY <1>3
  <2>4. d[i + 1] = n + i
    BY <1>3, <1>4, <2>1
  <2>2. CASE i = 1
    BY <1>3, <2>4, <2>2
  <2>3. CASE i # 1
    <3>1. i - 1 \in 1..k /\ (i - 1) + 1 = i
      BY <1>3, <2>1, <2>3
    <3>2. d[(i - 1) + 1] = n + (i - 1)
      BY <1>3, <1>4, <3>1
    <3>3. QED
      BY <1>3, <2>1, <2>4, <3>1, <3>2
  <2>5. QED
    BY <2>2, <2>3
<1>6. QED
  BY <1>5 DEF d

\* A subscriber reads a run's events in order and none twice, and the newest one is
\* always read or on its way, however far it falls behind (drop-oldest in _deliver).
THEOREM NewestAlwaysComes == Spec => []NewestIsOnItsWay
BY FeedsStayInOrder, InOrderIsNewest, PTL

\* Attaching while a pass publishes loses no event and repeats none, unless the
\* subscriber's queue overflowed (subscribe's single lock acquisition).
THEOREM NothingIsMissed == Spec => []NoGapWithoutOverflow
BY FeedsStayInOrder, InOrderIsGapless, PTL

-----------------------------------------------------------------------------
(* What a subscriber is owed *)

Numbers(es) == {e.seq : e \in Range(es)}

\* As long as a stream is attached, what it was owed when it subscribed and has not read
\* is in its backlog; nothing is owed to one that the server ended.
OwedOK(s) ==
  /\ Attached(s) => owed[s] \subseteq Numbers(conn[s].backlog)
  /\ conn[s].state = "finished" => owed[s] = {}

OwedInv == TypeInv /\ \A s \in Connection : OwedOK(s)

\* The backlog holds all that is owed at the start.
LEMMA BacklogIsWhole ==
  ASSUME NEW ch \in ChannelRec, NEW id \in Int
  PROVE  Recent(ch, id) \subseteq Numbers(Backlog(ch, id))
<1> DEFINE S == {e \in Event : e.seq > id}
<1>1. ch.history \in Seq(Event)
  BY DEF ChannelRec
<1>2. Range(Selected(ch.history, S)) = Range(ch.history) \cap S
  <2> HIDE DEF S
  <2>1. QED
    BY <1>1, SelectedRange
<1>3. Backlog(ch, id) = Selected(ch.history, S)
  BY DEF Backlog
<1>4. \A e \in Range(ch.history) : e \in Event
  BY <1>1 DEF Range
<1>5. QED
  BY <1>2, <1>3, <1>4 DEF Recent, Numbers

\* The elements of a sequence are its first one and those of its tail.
LEMMA RangeOfTail ==
  ASSUME NEW es \in Seq(Event), es # <<>>
  PROVE  Range(es) \subseteq {Head(es)} \cup Range(Tail(es))
<1>1. /\ Tail(es) \in Seq(Event) /\ Len(Tail(es)) = Len(es) - 1
      /\ \A i \in 1..Len(Tail(es)) : Tail(es)[i] = es[i + 1]
  BY HeadTailProperties
<1>2. Len(es) \in Nat /\ DOMAIN es = 1..Len(es) /\ DOMAIN Tail(es) = 1..Len(Tail(es)) /\ Head(es) = es[1]
  BY <1>1
<1>3. ASSUME NEW i \in 1..Len(es), i # 1 PROVE es[i] \in Range(Tail(es))
  <2>1. i - 1 \in 1..Len(Tail(es)) /\ (i - 1) + 1 = i
    BY <1>1, <1>2, <1>3
  <2>2. Tail(es)[i - 1] = es[i]
    BY <1>1, <2>1
  <2>3. QED
    BY <1>2, <2>1, <2>2 DEF Range
<1>4. QED
  BY <1>2, <1>3 DEF Range

\* Reading takes one event off what is owed, the first one of the backlog.
LEMMA ReadPays ==
  ASSUME OwedInv, NEW s \in Connection, Read(s)
  PROVE  owed'[s] \subseteq (IF conn[s].backlog = <<>> THEN {} ELSE Numbers(Tail(conn[s].backlog)))
<1> DEFINE b == conn[s].backlog
           q == conn[s].queue
           item == Head(b \o q)
<1>1. b \in Seq(Event) /\ b \in Seq(Item) /\ q \in Seq(Item) /\ owed[s] \subseteq Numbers(b)
  BY ConnFacts DEF OwedInv, OwedOK, Read, Attached
<1>2. owed'[s] = IF IsEvent(item) THEN owed[s] \ {item.seq} ELSE owed[s]
  BY DEF Read, OwedInv, TypeInv
<1> HIDE DEF b, q
<1>3. CASE b = <<>>
  <2>1. Numbers(b) = {}
    BY <1>3 DEF Numbers, Range
  <2>2. QED
    BY <1>1, <1>2, <1>3, <2>1 DEF b
<1>4. CASE b # <<>>
  <2>1. item = Head(b) /\ Head(b) \in Event
    BY <1>1, <1>4, HeadTailProperties
  <2>2. owed'[s] = owed[s] \ {Head(b).seq}
    BY <1>2, <2>1, ItemKinds
  <2>3. Range(b) \subseteq {Head(b)} \cup Range(Tail(b))
    BY <1>1, <1>4, RangeOfTail
  <2>4. Numbers(b) \subseteq {Head(b).seq} \cup Numbers(Tail(b))
    BY <2>3 DEF Numbers
  <2>5. QED
    BY <1>1, <1>4, <2>2, <2>4 DEF b
<1>5. QED
  BY <1>3, <1>4

\* A read keeps the account of its own stream: the route returns on the sentinel, behind
\* an empty backlog, or on a terminal event that is the last one of the backlog,
LEMMA ReadKeepsOwed ==
  ASSUME OwedInv, NEW s \in Connection, Read(s)
  PROVE  OwedOK(s)'
<1> DEFINE c == conn[s]
           b == c.backlog
           q == c.queue
           item == Head(b \o q)
           ends == item = Done \/ (item.type \in TerminalTypes /\ IsCurrent(c))
<1>1. /\ TypeInv /\ c \in ConnRec /\ c.state = "attached" /\ conn \in [Connection -> ConnRec]
      /\ b \in Seq(Event) /\ b \in Seq(Item) /\ q \in Seq(Item)
  BY ConnFacts DEF OwedInv, TypeInv, ConnsTyped, Read
<1>2. owed'[s] \subseteq (IF b = <<>> THEN {} ELSE Numbers(Tail(b)))
  BY ReadPays
<1>3. CASE ends
  <2>1. owed'[s] = {}
    <3>1. CASE b # <<>>
      <4>1. item = Head(b) /\ Head(b) \in Event
        <5> HIDE DEF b, q
        <5>1. QED
          BY <1>1, <3>1, HeadTailProperties
      <4>2. Len(b) <= 1
        BY <1>3, <4>1, ItemKinds DEF IsCurrent
      <4>3. Tail(b) \in Seq(Event) /\ Len(Tail(b)) = 0
        <5>1. Tail(b) \in Seq(Event) /\ Len(Tail(b)) = Len(b) - 1 /\ Len(Tail(b)) \in Nat
          BY <1>1, <3>1, HeadTailProperties, LenProperties
        <5> HIDE DEF b
        <5>2. QED
          BY <4>2, <5>1, <1>1
      <4>4. Numbers(Tail(b)) = {}
        BY <4>3 DEF Numbers, Range
      <4>5. QED
        BY <1>2, <3>1, <4>4
    <3>2. CASE b = <<>>
      BY <1>2, <3>2
    <3>3. QED
      BY <3>1, <3>2
  <2>2. conn'[s].state = "finished"
    <3>1. Detach(s, "finished") /\ conn[s].state # "idle" /\ "finished" \in ConnState
      BY <1>1, <1>3 DEF Read, ConnState
    <3>2. QED
      BY <1>1, <3>1, DetachType
  <2>3. QED
    BY <2>1, <2>2 DEF OwedOK, Attached
<1>4. CASE ~ends
  <2>1. conn' = [conn EXCEPT ![s] = IF b # <<>> THEN [c EXCEPT !.backlog = Tail(b)]
                                                ELSE [c EXCEPT !.queue = Tail(q)]]
    BY <1>4 DEF Read
  <2>2. CASE b # <<>>
    <3>1. conn'[s] = [c EXCEPT !.backlog = Tail(b)]
      BY <1>1, <2>1, <2>2
    <3>2. conn'[s].backlog = Tail(b) /\ conn'[s].state = c.state
      BY <1>1, <3>1 DEF ConnRec
    <3>3. QED
      BY <1>1, <1>2, <2>2, <3>2 DEF OwedOK, Attached
  <2>3. CASE b = <<>>
    <3>1. conn'[s] = [c EXCEPT !.queue = Tail(q)]
      BY <1>1, <2>1, <2>3
    <3>2. conn'[s].state = c.state
      BY <1>1, <3>1 DEF ConnRec
    <3>3. QED
      BY <1>1, <1>2, <2>3, <3>2 DEF OwedOK, Attached
  <2>4. QED
    BY <2>2, <2>3
<1>5. QED
  BY <1>3, <1>4

\* subscribing opens it with the whole backlog,
LEMMA SubscribeKeepsOwed ==
  ASSUME OwedInv, NEW s \in Connection, Subscribe(s)
  PROVE  OwedOK(s)'
<1> DEFINE c == conn[s]
           t == c.run
           id == c.last_event_id
<1>1. /\ TypeInv /\ c \in ConnRec /\ c.state = "connecting" /\ conn \in [Connection -> ConnRec]
      /\ t \in Run /\ id \in Int
  BY ConnFacts DEF OwedInv, TypeInv, ConnsTyped, Subscribe
<1>2. CASE channel[t].open
  <2> DEFINE backlog == Backlog(channel[t], id)
  <2>1. /\ conn'[s] = [c EXCEPT !.state = "attached", !.backlog = backlog]
        /\ owed'[s] = Recent(channel[t], id)
    BY <1>1, <1>2 DEF Subscribe, TypeInv
  <2>2. Recent(channel[t], id) \subseteq Numbers(backlog)
    <3>1. channel[t] \in ChannelRec
      BY <1>1, RegistryOf DEF TypeInv
    <3> HIDE DEF t, id
    <3>2. QED
      BY <1>1, <3>1, BacklogIsWhole
  <2> HIDE DEF backlog
  <2>3. conn'[s].state = "attached" /\ conn'[s].backlog = backlog
    BY <1>1, <2>1 DEF ConnRec
  <2>4. QED
    BY <2>1, <2>2, <2>3 DEF OwedOK, Attached
<1>3. CASE ~channel[t].open
  <2>1. conn'[s] = [c EXCEPT !.state = "answered"]
    BY <1>1, <1>3 DEF Subscribe
  <2>2. conn'[s].state = "answered"
    BY <1>1, <2>1 DEF ConnRec
  <2>3. QED
    BY <2>2 DEF OwedOK, Attached
<1>4. QED
  BY <1>2, <1>3

\* and nothing else touches what a stream has to read first and is owed.
LEMMA OwedUntouched ==
  ASSUME NEW s \in Connection, OwedOK(s), conn'[s].state = conn[s].state,
         conn'[s].backlog = conn[s].backlog, owed'[s] = owed[s]
  PROVE  OwedOK(s)'
BY DEF OwedOK, Attached

\* The account is right initially,
LEMMA InitOwed == Init => OwedInv
<1> SUFFICES ASSUME Init PROVE OwedInv
  OBVIOUS
<1>1. TypeInv
  BY InitTyped
<1>2. \A s \in Connection : conn[s].state = "idle"
  BY DEF Init, NoConn
<1>3. QED
  BY <1>1, <1>2 DEF OwedInv, OwedOK, Attached

\* and every step keeps it.
LEMMA StepOwed == OwedInv /\ [Next]_vars => OwedInv'
<1> SUFFICES ASSUME OwedInv, [Next]_vars, NEW s \in Connection PROVE OwedOK(s)'
  BY StepTyped DEF OwedInv
<1>1. TypeInv /\ OwedOK(s) /\ conn \in [Connection -> ConnRec] /\ owed \in [Connection -> SUBSET Nat]
  BY DEF OwedInv, TypeInv, ConnsTyped, ConnOK
<1>2. ASSUME UNCHANGED <<conn, owed>> PROVE OwedOK(s)'
  BY <1>1, <1>2, OwedUntouched
<1>3. CASE UNCHANGED vars
  BY <1>2, <1>3 DEF vars
<1>4. ASSUME NEW h \in Handler, NEW t \in Run, Reserve(h, t) \/ PostFresh(h, t) \/ Resume(h, t)
      PROVE  OwedOK(s)'
  BY <1>2, <1>4 DEF Reserve, PostFresh, Resume, history
<1>5. ASSUME NEW h \in Handler, Post(h) \/ OpenChannel(h) \/ Refuse(h) PROVE OwedOK(s)'
  BY <1>2, <1>5 DEF Post, OpenChannel, Refuse, history
<1>6. ASSUME NEW h \in Handler, Pass(h) PROVE OwedOK(s)'
  <2>1. UNCHANGED <<conn, owed>>
    BY <1>6 DEF Pass, Enter, Progress, Settle, HandOver, PublishRunEnd, PublishSwallowed, CloseChannel,
                Unlock, Publish, history
  <2>2. QED
    BY <1>2, <2>1
<1>7. ASSUME RunCallback PROVE OwedOK(s)'
  <2>1. conn'[s].state = conn[s].state /\ conn'[s].backlog = conn[s].backlog
    BY <1>1, <1>7, CallbackFacts
  <2>2. owed' = owed
    BY <1>7 DEF RunCallback
  <2>3. QED
    BY <1>1, <2>1, <2>2, OwedUntouched
<1>8. ASSUME NEW r \in Connection, NEW t \in Run, Connect(r, t) PROVE OwedOK(s)'
  <2>1. UNCHANGED owed
    BY <1>8 DEF Connect, history
  <2>2. CASE r # s
    <3>1. conn'[s] = conn[s]
      BY <1>1, <1>8, <2>2 DEF Connect
    <3>2. QED
      BY <1>1, <2>1, <3>1, OwedUntouched
  <2>3. CASE r = s
    <3>1. PICK id \in -1..channel[t].seq :
            conn' = [conn EXCEPT ![s] = [@ EXCEPT
                       !.run = t, !.last_event_id = IF channel[t].open THEN id ELSE -1,
                       !.state = IF channel[t].open THEN "connecting" ELSE "answered"]]
      BY <1>8, <2>3 DEF Connect
    <3>2. conn'[s].state \in {"connecting", "answered"}
      BY <1>1, <3>1 DEF ConnRec
    <3>3. QED
      BY <3>2 DEF OwedOK, Attached
  <2>4. QED
    BY <2>2, <2>3
<1>9. ASSUME NEW r \in Connection, Subscribe(r) PROVE OwedOK(s)'
  <2>1. CASE r # s
    <3>1. conn'[s] = conn[s] /\ owed'[s] = owed[s]
      BY <1>1, <1>9, <2>1 DEF Subscribe
    <3>2. QED
      BY <1>1, <3>1, OwedUntouched
  <2>2. QED
    BY <1>9, <2>1, SubscribeKeepsOwed
<1>10. ASSUME NEW r \in Connection, NEW state \in {"finished", "left"}, conn[r].state # "idle",
              Detach(r, state), r # s
       PROVE  conn'[s] = conn[s]
  BY <1>1, <1>10, DetachType DEF ConnState
<1>11. ASSUME NEW r \in Connection, Read(r) PROVE OwedOK(s)'
  <2>1. CASE r # s
    <3>1. owed'[s] = owed[s]
      BY <1>1, <1>11, <2>1 DEF Read
    <3>2. conn'[s] = conn[s]
      <4>1. CASE Detach(r, "finished")
        BY <1>10, <1>11, <2>1, <4>1 DEF Read
      <4>2. CASE ~Detach(r, "finished")
        <5>1. PICK new : conn' = [conn EXCEPT ![r] = new]
          BY <1>11, <4>2 DEF Read
        <5>2. QED
          BY <1>1, <2>1, <5>1
      <4>3. QED
        BY <4>1, <4>2
    <3>3. QED
      BY <1>1, <3>1, <3>2, OwedUntouched
  <2>2. QED
    BY <1>11, <2>1, ReadKeepsOwed
<1>12. ASSUME NEW r \in Connection, Leave(r) PROVE OwedOK(s)'
  <2>1. UNCHANGED owed /\ Detach(r, "left") /\ conn[r].state # "idle"
    BY <1>12 DEF Leave, history
  <2>2. CASE r # s
    <3>1. conn'[s] = conn[s]
      BY <1>10, <2>1, <2>2
    <3>2. QED
      BY <1>1, <2>1, <3>1, OwedUntouched
  <2>3. CASE r = s
    <3>1. conn'[s].state = "left"
      BY <1>1, <2>1, <2>3, DetachType DEF ConnState
    <3>2. QED
      BY <3>1 DEF OwedOK, Attached
  <2>4. QED
    BY <2>2, <2>3
<1>13. QED
  BY <1>3, <1>4, <1>5, <1>6, <1>7, <1>8, <1>9, <1>11, <1>12 DEF Next

\* A stream that the server ends was sent every event that was recorded when it
\* subscribed and that is newer than the id it quoted: a superseded interrupt in the
\* backlog does not cut the replay short (subscribe's backlog and is_current).
THEOREM ReplayIsNotCut == Spec => []ReplayReachesTheEnd
<1>1. OwedInv => ReplayReachesTheEnd
  BY DEF OwedInv, OwedOK, ReplayReachesTheEnd
<1>2. QED
  BY <1>1, InitOwed, StepOwed, PTL DEF Spec
=============================================================================
