--------------------------- MODULE IngestionProofs ---------------------------
(***************************************************************************)
(* Theorems about Ingestion, for any number of items, attachments and      *)
(* documents, any order of the listing, and any number of kills and failed *)
(* requests: what an item that was marked processed has left in the store. *)
(*                                                                         *)
(* MarkInv says of the item being processed what MarkedIsStored says of a  *)
(* processed one, less the documents still to be run (Dealt).  A duplicate *)
(* is taken for kept because a row without line items is on record         *)
(* (RowsWhole); an item replaced after its download is left out (stale).   *)
(***************************************************************************)
EXTENDS Ingestion, FiniteSetTheorems, SelectionFacts

Att == [name : Name, doc : Doc]
Entry == [state : {"pending", "processed", "dismissed"}, atts : Seq(Att)]
Row == [doc : Doc \cup {NoDoc}, whole : BOOLEAN]
ScriptRec == [phase : {"idle", "download", "run", "mark"}, queue : Seq(Item),
              docs : Seq(Doc), done : BOOLEAN]

-----------------------------------------------------------------------------
(* Prefixes *)

\* The first n of s, or all of it.
Prefix(s, n) == SubSeq(s, 1, IF Len(s) < n THEN Len(s) ELSE n)

\* A prefix is a sequence within its bound, and empty just if the whole is.
LEMMA PrefixFacts ==
  ASSUME NEW X, NEW s \in Seq(X), NEW n \in Nat \ {0}
  PROVE  /\ Prefix(s, n) \in Seq(X) /\ Len(Prefix(s, n)) <= n
         /\ s # <<>> <=> Prefix(s, n) # <<>>
<1> DEFINE k == IF Len(s) < n THEN Len(s) ELSE n
           p == SubSeq(s, 1, k)
<1>1. Len(s) \in Nat /\ (s = <<>> <=> Len(s) = 0)
  BY NonEmpty
<1>2. k \in Nat /\ k <= n /\ k <= Len(s) /\ (k = 0 <=> Len(s) = 0)
  BY <1>1
<1> HIDE DEF k
<1>3. \A i \in 1..k : s[i] \in X
  BY <1>1, <1>2, ElementOfSeq
<1>4. p \in Seq(X) /\ Len(p) = IF 1 <= k THEN k - 1 + 1 ELSE 0
  BY <1>2, <1>3, SubSeqProperties
<1>5. p = <<>> <=> Len(p) = 0
  BY <1>4, NonEmpty
<1> HIDE DEF p
<1>6. p \in Seq(X) /\ Len(p) <= n /\ (s # <<>> <=> p # <<>>)
  BY <1>1, <1>2, <1>4, <1>5
<1>7. Prefix(s, n) = p
  BY DEF Prefix, p, k
<1>8. QED
  BY <1>6, <1>7

-----------------------------------------------------------------------------
(* What is downloaded *)

\* PathOf and Written for given attachments of a given source.
PathIn(src, i, att) == IF src = "gmail" THEN <<i, att.name>> ELSE <<att.doc, att.name>>

LastOf(src, i, atts, n) ==
  CHOOSE m \in DOMAIN atts :
    /\ PathIn(src, i, atts[m]) = PathIn(src, i, atts[n])
    /\ \A l \in m + 1 .. Len(atts) : PathIn(src, i, atts[l]) # PathIn(src, i, atts[n])

WrittenIn(src, i, atts) ==
  [n \in DOMAIN Prefix(atts, MaxAttachments) |->
     Prefix(atts, MaxAttachments)[LastOf(src, i, Prefix(atts, MaxAttachments), n)].doc]

\* Written, and below Written of the next state, in these terms.
LEMMA WrittenIs == \A i : Written(i) = WrittenIn(source, i, inbox[i].atts)
BY DEF Written, WrittenIn, LastOf, PathIn, PathOf, PdfAttachments, Prefix

LEMMA WrittenIsNext == \A i : Written(i)' = WrittenIn(source', i, inbox'[i].atts)
BY DEF Written, WrittenIn, LastOf, PathIn, PathOf, PdfAttachments, Prefix

\* There is a last attachment on every path.
LEMMA LastExists ==
  ASSUME NEW src, NEW i, NEW atts \in Seq(Att), NEW n \in 1..Len(atts)
  PROVE  LastOf(src, i, atts, n) \in 1..Len(atts)
<1> DEFINE P(m) == PathIn(src, i, atts[m])
           len == Len(atts)
           T == {k \in Nat : k < len /\ P(len - k) = P(n)}
<1>1. len \in Nat /\ DOMAIN atts = 1..len
  BY LenProperties
<1> HIDE DEF P
<1> HIDE DEF len
<1>2. len - n \in T
  <2>1. n \in 1..len
    BY DEF len
  <2>2. len - (len - n) = n /\ len - n \in Nat /\ len - n < len
    BY <1>1, <2>1
  <2>3. QED
    BY <2>2
<1>3. PICK k \in T : \A j \in T : k <= j
  BY <1>2, NatMinimum
<1> DEFINE m == len - k
<1>4. m \in 1..len /\ P(m) = P(n)
  BY <1>1, <1>3
<1>5. \A l \in m + 1 .. len : P(l) # P(n)
  <2>1. SUFFICES ASSUME NEW l \in m + 1 .. len, P(l) = P(n) PROVE FALSE
    OBVIOUS
  <2>2. len - (len - l) = l /\ len - l \in Nat /\ len - l < len /\ len - l < k
    BY <1>1, <1>3, <1>4, <2>1
  <2>3. len - l \in T
    BY <2>1, <2>2
  <2>4. QED
    BY <1>3, <2>2, <2>3
<1> HIDE DEF m
<1>6. \E x \in 1..len : P(x) = P(n) /\ \A l \in x + 1 .. len : P(l) # P(n)
  BY <1>4, <1>5
<1>7. \E x \in DOMAIN atts :
        /\ PathIn(src, i, atts[x]) = PathIn(src, i, atts[n])
        /\ \A l \in x + 1 .. Len(atts) : PathIn(src, i, atts[l]) # PathIn(src, i, atts[n])
  BY <1>1, <1>6 DEF P, len
<1>8. LastOf(src, i, atts, n) \in DOMAIN atts
  BY <1>7 DEF LastOf
<1>9. QED
  BY <1>1, <1>8 DEF len

\* The documents written are documents, no more than the cap, and at least one.
LEMMA WrittenFacts ==
  ASSUME NEW src, NEW i, NEW atts \in Seq(Att)
  PROVE  /\ WrittenIn(src, i, atts) \in Seq(Doc)
         /\ Len(WrittenIn(src, i, atts)) <= MaxAttachments
         /\ atts # <<>> => WrittenIn(src, i, atts) # <<>>
<1> DEFINE p == Prefix(atts, MaxAttachments)
           w == WrittenIn(src, i, atts)
<1>1. p \in Seq(Att) /\ Len(p) <= MaxAttachments /\ (atts # <<>> => p # <<>>)
  BY IngestionAssumption, PrefixFacts
<1>2. w = [n \in DOMAIN p |-> p[LastOf(src, i, p, n)].doc]
  BY DEF WrittenIn
<1> HIDE DEF p, w
<1>3. Len(p) \in Nat /\ DOMAIN p = 1..Len(p) /\ (p # <<>> => Len(p) # 0)
  BY <1>1, LenProperties, NonEmpty
<1>4. ASSUME NEW n \in 1..Len(p) PROVE p[LastOf(src, i, p, n)].doc \in Doc
  <2>1. LastOf(src, i, p, n) \in 1..Len(p)
    BY <1>1, LastExists
  <2>2. p[LastOf(src, i, p, n)] \in Att
    BY <1>1, <2>1, ElementOfSeq
  <2>3. QED
    BY <2>2 DEF Att
<1>5. w \in [1..Len(p) -> Doc]
  BY <1>2, <1>3, <1>4
<1>6. w \in Seq(Doc) /\ Len(w) = Len(p)
  BY <1>3, <1>5
<1>7. p # <<>> => w # <<>>
  BY <1>3, <1>6, NonEmpty
<1>8. QED
  BY <1>1, <1>6, <1>7 DEF w
-----------------------------------------------------------------------------
(* Types *)

TypeInv ==
  /\ source \in {"filesystem", "gmail"} /\ kind \in Kinds /\ keyOf \in Keyings
  /\ inbox \in [Item -> Entry]
  /\ stored \in [Key -> Row]
  /\ script \in ScriptRec
  /\ parked \subseteq Doc /\ stale \subseteq Item /\ torn \subseteq Key
  /\ failures \in 0..MaxFailures

\* A file is one PDF, and only files are replaced.
Shaped ==
  /\ source = "filesystem" => \A i \in Item : Len(inbox[i].atts) = 1
  /\ source = "gmail" => stale = {}

\* Where the script stands in its item and its documents.
StandsAt(s, boxes) ==
  /\ Len(s.queue) <= Limit /\ Len(s.docs) <= MaxAttachments
  /\ \A n \in 1..Len(s.queue) : boxes[s.queue[n]].atts # <<>>
  /\ s.phase # "idle" => s.queue # <<>>
  /\ s.phase = "run" => s.docs # <<>>
  /\ s.phase = "mark" => s.docs = <<>> /\ s.done

TypesInv == TypeInv /\ Shaped /\ StandsAt(script, inbox)

\* A document's key is a key.
LEMMA KeyType == ASSUME TypeInv PROVE \A d \in Doc : keyOf[d] \in Key
BY IngestionAssumption DEF TypeInv

\* A script at rest.
LEMMA IdleStands == Idle \in ScriptRec /\ \A boxes : StandsAt(Idle, boxes)
<1>1. <<>> \in Seq(Item) /\ <<>> \in Seq(Doc) /\ Len(<<>>) = 0 /\ 1..0 = {}
  OBVIOUS
<1>2. Idle.phase = "idle" /\ Idle.queue = <<>> /\ Idle.docs = <<>> /\ Idle.done = FALSE
  BY DEF Idle
<1>3. Idle \in ScriptRec
  BY <1>1 DEF Idle, ScriptRec
<1>4. Limit >= 0 /\ MaxAttachments >= 0
  BY IngestionAssumption
<1>5. QED
  BY <1>1, <1>2, <1>3, <1>4 DEF StandsAt

\* Fields of a typed script.
LEMMA ScriptFields ==
  ASSUME TypesInv
  PROVE  /\ script.queue \in Seq(Item) /\ script.docs \in Seq(Doc) /\ script.done \in BOOLEAN
         /\ script.phase \in {"idle", "download", "run", "mark"}
         /\ Len(script.queue) \in Nat /\ Len(script.docs) \in Nat
         /\ script.phase # "idle" =>
              /\ script.queue # <<>> /\ Current \in Item /\ inbox[Current].atts # <<>>
              /\ Tail(script.queue) \in Seq(Item)
         /\ script.phase = "run" =>
              /\ script.docs # <<>> /\ Document \in Doc /\ Tail(script.docs) \in Seq(Doc)
<1>1. /\ script.queue \in Seq(Item) /\ script.docs \in Seq(Doc) /\ script.done \in BOOLEAN
      /\ script.phase \in {"idle", "download", "run", "mark"}
  BY DEF TypesInv, TypeInv, ScriptRec
<1>2. Len(script.queue) \in Nat /\ Len(script.docs) \in Nat
  BY <1>1, LenProperties
<1>3. ASSUME script.phase # "idle"
      PROVE  /\ script.queue # <<>> /\ Current \in Item /\ inbox[Current].atts # <<>>
             /\ Tail(script.queue) \in Seq(Item)
  <2>1. script.queue # <<>>
    BY <1>3 DEF TypesInv, StandsAt
  <2>2. Current = script.queue[1] /\ Current \in Item /\ Tail(script.queue) \in Seq(Item)
    BY <1>1, <2>1, HeadTailProperties DEF Current
  <2>3. 1 \in 1..Len(script.queue)
    BY <1>1, <1>2, <2>1, NonEmpty
  <2>4. QED
    BY <2>1, <2>2, <2>3 DEF TypesInv, StandsAt
<1>4. ASSUME script.phase = "run"
      PROVE  script.docs # <<>> /\ Document \in Doc /\ Tail(script.docs) \in Seq(Doc)
  <2>1. script.docs # <<>>
    BY <1>4 DEF TypesInv, StandsAt
  <2>2. QED
    BY <1>1, <2>1, HeadTailProperties DEF Document
<1>5. QED
  BY <1>1, <1>2, <1>3, <1>4

\* On to the next item, or back to rest.
LEMMA NextItemStands ==
  ASSUME TypesInv, script.phase # "idle"
  PROVE  /\ NextItem \in ScriptRec /\ StandsAt(NextItem, inbox)
         /\ NextItem.phase \in {"idle", "download"} /\ ~NextItem.done
<1> DEFINE q == script.queue
           phase == IF Len(q) > 1 THEN "download" ELSE "idle"
<1>1. q \in Seq(Item) /\ q # <<>> /\ Len(q) \in Nat
  BY ScriptFields
<1>2. /\ Tail(q) \in Seq(Item) /\ Len(Tail(q)) = Len(q) - 1
      /\ \A n \in 1..Len(Tail(q)) : Tail(q)[n] = q[n + 1]
  BY <1>1, HeadTailProperties
<1>3. NextItem = [Idle EXCEPT !.phase = phase, !.queue = Tail(q)]
  BY Zenon DEF NextItem
<1>4. Len(<<>>) = 0
  OBVIOUS
<1> DEFINE t == Tail(q)
<1>p. phase \in {"idle", "download"} /\ phase \in {"idle", "download", "run", "mark"}
  OBVIOUS
<1>q. phase # "idle" => Len(q) > 1
  OBVIOUS
<1> HIDE DEF t, q, phase
<1>r. Idle \in ScriptRec /\ Idle.docs = <<>> /\ Idle.done = FALSE
  BY IdleStands DEF Idle
<1>5. NextItem \in ScriptRec
  BY <1>2, <1>3, <1>p, <1>r, Zenon DEF ScriptRec, t
<1>6. t \in Seq(Item) /\ Len(t) = Len(q) - 1 /\ \A n \in 1..Len(t) : t[n] = q[n + 1]
  BY <1>2 DEF t
<1>7. Len(q) <= Limit /\ \A n \in 1..Len(q) : inbox[q[n]].atts # <<>>
  BY DEF TypesInv, StandsAt, q
<1>8. /\ NextItem.phase = phase /\ NextItem.queue = t /\ NextItem.docs = <<>> /\ NextItem.done = FALSE
  BY <1>3, <1>r DEF t, ScriptRec
<1>9. Len(t) <= Limit
  BY <1>1, <1>6, <1>7, IngestionAssumption DEF q
<1>10. \A n \in 1..Len(t) : inbox[t[n]].atts # <<>>
  <2>1. TAKE n \in 1..Len(t)
  <2>2. n + 1 \in 1..Len(q)
    BY <1>1, <1>6 DEF q
  <2>3. QED
    BY <1>6, <1>7, <2>2
<1>11. phase # "idle" => t # <<>>
  BY <1>1, <1>6, <1>q, NonEmpty
<1>12. 0 <= MaxAttachments
  BY IngestionAssumption
<1>13. QED
  BY <1>p, <1>4, <1>5, <1>8, <1>9, <1>10, <1>11, <1>12 DEF StandsAt

\* After a document: another one, the mark, or the next item.
LEMMA RanPdfStands ==
  ASSUME TypesInv, script.phase = "run", NEW ok \in BOOLEAN, RanPdf(ok)
  PROVE  /\ script' \in ScriptRec /\ StandsAt(script', inbox)
         /\ \/ /\ script'.phase = "run" /\ script'.queue = script.queue
               /\ script'.docs = Tail(script.docs) /\ script'.done = (script.done /\ ok)
            \/ /\ script'.phase = "mark" /\ script'.queue = script.queue
               /\ Len(script.docs) = 1 /\ script.done /\ ok
            \/ script'.phase \in {"idle", "download"}
<1> DEFINE done == script.done /\ ok
<1>0. /\ script \in ScriptRec /\ script.docs \in Seq(Doc) /\ script.docs # <<>>
      /\ Len(script.docs) \in Nat /\ done \in BOOLEAN
      /\ StandsAt(script, inbox)
  BY ScriptFields DEF TypesInv, TypeInv
<1>n. Len(script.docs) # 0
  <2> DEFINE d == script.docs
  <2>1. d \in Seq(Doc) /\ d # <<>>
    BY <1>0
  <2> HIDE DEF d
  <2>2. Len(d) # 0
    BY <2>1, NonEmpty
  <2>3. QED
    BY <2>2 DEF d
<1>l. /\ Len(script.docs) \in Nat /\ (Len(script.docs) > 1 \/ Len(script.docs) = 1)
      /\ Len(script.docs) > 1 => Len(script.docs) - 1 # 0
  <2> DEFINE len == Len(script.docs)
  <2>1. len \in Nat /\ len # 0
    BY <1>0, <1>n
  <2> HIDE DEF len
  <2>2. (len > 1 \/ len = 1) /\ (len > 1 => len - 1 # 0)
    BY <2>1
  <2>3. QED
    BY <2>1, <2>2 DEF len
<1>t. /\ Tail(script.docs) \in Seq(Doc) /\ Len(Tail(script.docs)) = Len(script.docs) - 1
  BY <1>0, HeadTailProperties
<1>1. CASE Len(script.docs) > 1
  <2> DEFINE t == Tail(script.docs)
             s == [script EXCEPT !.docs = t, !.done = done]
  <2>1. script' = s
    BY <1>1 DEF RanPdf
  <2>a. t \in Seq(Doc) /\ Len(t) = Len(script.docs) - 1 /\ Len(t) # 0
    <3>1. Len(script.docs) - 1 # 0
      BY <1>l, <1>1, Zenon
    <3>2. QED
      BY <3>1, <1>t
  <2> HIDE DEF t, done
  <2>2. t \in Seq(Doc) /\ Len(t) = Len(script.docs) - 1 /\ t # <<>>
    BY <2>a, NonEmpty
  <2>3. s \in ScriptRec
    BY <1>0, <2>2, Zenon DEF ScriptRec
  <2>4. s.docs = t /\ s.done = done /\ s.phase = script.phase /\ s.queue = script.queue
    BY <1>0 DEF ScriptRec
  <2> HIDE DEF s
  <2>5. StandsAt(s, inbox)
    BY <1>0, <2>2, <2>4, IngestionAssumption DEF StandsAt
  <2>6. QED
    BY <2>1, <2>3, <2>4, <2>5 DEF t, done
<1>2. CASE ~(Len(script.docs) > 1) /\ done
  <2> DEFINE s == [script EXCEPT !.docs = <<>>, !.phase = "mark"]
  <2>1. script' = s
    BY <1>2 DEF RanPdf
  <2>2. <<>> \in Seq(Doc) /\ Len(<<>>) = 0
    OBVIOUS
  <2>3. s \in ScriptRec
    BY <1>0, <2>2, Zenon DEF ScriptRec
  <2>4. s.docs = <<>> /\ s.done = script.done /\ s.phase = "mark" /\ s.queue = script.queue
    BY <1>0 DEF ScriptRec
  <2> HIDE DEF s
  <2>5. StandsAt(s, inbox)
    BY <1>0, <1>2, <2>2, <2>4, IngestionAssumption DEF StandsAt
  <2>6. Len(script.docs) = 1
    BY <1>l, <1>2
  <2>7. QED
    BY <1>2, <2>1, <2>3, <2>4, <2>5, <2>6
<1>3. CASE ~(Len(script.docs) > 1) /\ ~done
  <2>1. script' = NextItem
    BY <1>3 DEF RanPdf
  <2>2. QED
    BY <2>1, NextItemStands
<1>4. QED
  BY <1>1, <1>2, <1>3

\* What is listed has something to download.
LEMMA PendingFacts ==
  ASSUME TypeInv
  PROVE  /\ Pending \in Seq(Item) /\ Len(Pending) <= Limit
         /\ \A n \in 1..Len(Pending) : inbox[Pending[n]].atts # <<>>
<1> DEFINE S == {i \in Item : inbox[i].state = "pending" /\ PdfAttachments(i) # <<>>}
           listed == Selected(ItemOrder, S)
           p == Prefix(listed, Limit)
<1>1. Pending = p
  BY DEF Pending, Prefix
<1>2. ItemOrder \in Seq(Item) /\ Limit \in Nat \ {0}
  BY IngestionAssumption
<1>3. \A i \in Item \cap S : i \in Item /\ inbox[i].atts # <<>>
  <2>1. TAKE i \in Item \cap S
  <2>2. inbox[i].atts \in Seq(Att)
    BY DEF TypeInv, Entry
  <2> DEFINE a == inbox[i].atts
  <2>3. PdfAttachments(i) = Prefix(a, MaxAttachments) /\ PdfAttachments(i) # <<>>
    BY DEF PdfAttachments, Prefix
  <2> HIDE DEF a
  <2>4. a # <<>>
    BY <2>2, <2>3, IngestionAssumption, PrefixFacts DEF a
  <2>5. QED
    BY <2>4 DEF a
<1> HIDE DEF S
<1> DEFINE X == Item \cap S
<1>4. listed \in Seq(X)
  BY <1>2, SelectedType
<1> HIDE DEF listed, X
<1>5. p \in Seq(X) /\ Len(p) <= Limit
  BY <1>2, <1>4, PrefixFacts
<1> HIDE DEF p
<1>6. \A n \in 1..Len(p) : p[n] \in X
  BY <1>5, ElementOfSeq
<1>7. p \in Seq(Item)
  <2>1. X \subseteq Item
    BY DEF X
  <2>2. QED
    BY <1>5, <2>1, SeqMonotonic
<1>8. QED
  BY <1>1, <1>3, <1>5, <1>6, <1>7 DEF X

\* Standing survives what the others do to the inbox.
LEMMA StandsOn ==
  ASSUME TypesInv, NEW s \in ScriptRec, StandsAt(s, inbox), NEW boxes,
         \A i \in Item : boxes[i].atts = <<>> => inbox[i].atts = <<>>
  PROVE  StandsAt(s, boxes)
<1>1. s.queue \in Seq(Item)
  BY DEF ScriptRec
<1>2. \A n \in 1..Len(s.queue) : s.queue[n] \in Item
  BY <1>1, ElementOfSeq
<1>3. QED
  BY <1>2 DEF StandsAt

\* A document's row, under its key or another.
LEMMA StoreTyped ==
  ASSUME TypeInv, NEW d \in Doc, NEW w \in BOOLEAN
  PROVE  /\ \A k \in Key : [stored EXCEPT ![k] = [doc |-> d, whole |-> w]] \in [Key -> Row]
         /\ keyOf[d] \in Key
<1>1. [doc |-> d, whole |-> w] \in Row
  BY DEF Row
<1>2. QED
  BY <1>1, KeyType DEF TypeInv

\* Failures keep to their bound.
LEMMA FailTyped == ASSUME TypeInv, Fail PROVE failures' \in 0..MaxFailures
BY IngestionAssumption DEF TypeInv, Fail

\* Steps of the script that leave the inbox alone.
LEMMA ScriptFrame ==
  ASSUME TypesInv, UNCHANGED <<world, inbox>>, stored' \in [Key -> Row],
         script' \in ScriptRec, StandsAt(script', inbox),
         parked' \subseteq Doc, stale' \subseteq stale, torn' \subseteq Key,
         failures' \in 0..MaxFailures
  PROVE  TypesInv'
<1>1. TypeInv'
  BY DEF TypesInv, TypeInv, world
<1>2. Shaped'
  BY DEF TypesInv, Shaped, world
<1>3. StandsAt(script, inbox)'
  <2>1. StandsAt(script', inbox') <=> StandsAt(script', inbox)
    BY DEF world
  <2>2. QED
    BY <2>1
<1>4. QED
  BY <1>1, <1>2, <1>3 DEF TypesInv

\* Every step of the script keeps the types,
LEMMA ScriptTyped ==
  ASSUME TypesInv, Script \/ Killed \/ KilledInSave
  PROVE  TypesInv'
<1>0. /\ TypeInv /\ script \in ScriptRec /\ StandsAt(script, inbox) /\ stored \in [Key -> Row]
      /\ parked \subseteq Doc /\ stale \subseteq Item /\ torn \subseteq Key
      /\ failures \in 0..MaxFailures
  BY DEF TypesInv, TypeInv
<1>f. Fail => failures' \in 0..MaxFailures
  BY <1>0, FailTyped
<1>1. CASE List
  <2> DEFINE s == [Idle EXCEPT !.phase = "download", !.queue = Pending]
  <2>1. Pending \in Seq(Item) /\ Len(Pending) <= Limit /\ Pending # <<>>
        /\ \A n \in 1..Len(Pending) : inbox[Pending[n]].atts # <<>>
    BY <1>0, <1>1, PendingFacts DEF List
  <2>2. s \in ScriptRec
    BY <2>1, IdleStands, Zenon DEF ScriptRec
  <2>3. s.phase = "download" /\ s.queue = Pending /\ s.docs = <<>>
    BY IdleStands DEF ScriptRec, Idle
  <2>4. script' = s
    BY <1>1 DEF List
  <2> HIDE DEF s
  <2>5. StandsAt(s, inbox)
    <3>1. Len(<<>>) = 0 /\ 0 <= MaxAttachments
      BY IngestionAssumption
    <3>2. QED
      BY <2>1, <2>3, <3>1 DEF StandsAt
  <2>6. QED
    BY <1>0, <1>1, <2>2, <2>4, <2>5, ScriptFrame DEF List
<1>2. CASE Download
  <2> DEFINE w == Written(Current)
             s == [script EXCEPT !.phase = "run", !.docs = w, !.done = TRUE]
  <2>1. Current \in Item /\ inbox[Current].atts # <<>> /\ inbox[Current].atts \in Seq(Att)
        /\ script.queue # <<>>
    BY <1>0, <1>2, ScriptFields DEF Download, TypeInv, Entry
  <2>2. w \in Seq(Doc) /\ Len(w) <= MaxAttachments /\ w # <<>>
    <3> DEFINE a == inbox[Current].atts
    <3>1. w = WrittenIn(source, Current, a)
      BY WrittenIs
    <3>2. a \in Seq(Att) /\ a # <<>>
      BY <2>1
    <3> HIDE DEF a
    <3>3. QED
      BY <3>1, <3>2, WrittenFacts
  <2>3. script' = s
    BY <1>2 DEF Download
  <2> HIDE DEF w
  <2>4. s \in ScriptRec
    BY <1>0, <2>2, Zenon DEF ScriptRec
  <2>5. s.phase = "run" /\ s.queue = script.queue /\ s.docs = w
    BY <1>0 DEF ScriptRec
  <2> HIDE DEF s
  <2>6. StandsAt(s, inbox)
    BY <1>0, <2>1, <2>2, <2>5 DEF StandsAt
  <2>7. stale' \subseteq stale
    BY <1>2 DEF Download
  <2>8. QED
    BY <1>0, <1>2, <2>3, <2>4, <2>6, <2>7, ScriptFrame DEF Download
<1>3. CASE DownloadNothing
  <2>1. script.phase # "idle" /\ script' = NextItem
    BY <1>3 DEF DownloadNothing
  <2>2. failures' \in 0..MaxFailures
    BY <1>0, <1>3, <1>f DEF DownloadNothing
  <2>3. QED
    BY <1>0, <1>3, <2>1, <2>2, NextItemStands, ScriptFrame DEF DownloadNothing
<1>4. CASE RunSkipped
  <2>1. script.phase = "run" /\ RanPdf(TRUE)
    BY <1>4 DEF RunSkipped, Running
  <2>2. script' \in ScriptRec /\ StandsAt(script', inbox)
    BY <2>1, RanPdfStands
  <2>3. QED
    BY <1>0, <1>4, <2>2, ScriptFrame DEF RunSkipped
<1>5. CASE RunFlagged
  <2> DEFINE ok == IsDuplicateOnly(Flags(Document))
  <2>1. script.phase = "run" /\ RanPdf(ok) /\ ok \in BOOLEAN
    BY <1>5 DEF RunFlagged, Running, IsDuplicateOnly
  <2> HIDE DEF ok
  <2>2. script' \in ScriptRec /\ StandsAt(script', inbox)
    BY <2>1, RanPdfStands
  <2>3. parked' \subseteq Doc
    BY <1>0, <1>5, <2>1, ScriptFields DEF RunFlagged
  <2>4. QED
    BY <1>0, <1>5, <2>2, <2>3, ScriptFrame DEF RunFlagged
<1>6. CASE RunSaved
  <2>1. script.phase = "run" /\ RanPdf(TRUE)
    BY <1>6 DEF RunSaved, Running
  <2>2. script' \in ScriptRec /\ StandsAt(script', inbox)
    BY <2>1, RanPdfStands
  <2>3. stored' \in [Key -> Row]
    BY <1>0, <1>6, <2>1, ScriptFields, StoreTyped DEF RunSaved
  <2>4. QED
    BY <1>0, <1>6, <2>2, <2>3, ScriptFrame DEF RunSaved
<1>7. CASE RunRaised
  <2>1. script.phase = "run" /\ RanPdf(FALSE)
    BY <1>7 DEF RunRaised, Running
  <2>2. script' \in ScriptRec /\ StandsAt(script', inbox)
    BY <2>1, RanPdfStands
  <2>3. failures' \in 0..MaxFailures
    BY <1>7, <1>f DEF RunRaised
  <2>4. QED
    BY <1>0, <1>7, <2>2, <2>3, ScriptFrame DEF RunRaised
<1>8. CASE SaveRaised \/ KilledInSave
  <2>1. /\ script.phase = "run"
        /\ \E w \in BOOLEAN :
             /\ stored' = [stored EXCEPT ![keyOf[Document]] = [doc |-> Document, whole |-> w]]
             /\ torn' = IF w THEN torn ELSE torn \cup {keyOf[Document]}
        /\ RanPdf(FALSE) \/ script' = Idle
        /\ Fail /\ UNCHANGED <<world, inbox, parked, stale>>
    BY <1>8 DEF SaveRaised, KilledInSave, BreakInSave, Running
  <2>2. script' \in ScriptRec /\ StandsAt(script', inbox)
    BY <2>1, RanPdfStands, IdleStands
  <2>3. stored' \in [Key -> Row] /\ torn' \subseteq Key
    BY <1>0, <2>1, ScriptFields, StoreTyped
  <2>4. QED
    BY <1>0, <1>f, <2>1, <2>2, <2>3, ScriptFrame
<1>9. CASE Mark
  <2> DEFINE c == Current
  <2>1. script.phase # "idle" /\ script' = NextItem /\ c \in Item
        /\ inbox' = [inbox EXCEPT ![c].state = "processed"]
    BY <1>9, ScriptFields DEF Mark
  <2> HIDE DEF c
  <2>2. script' \in ScriptRec /\ StandsAt(script', inbox)
    BY <2>1, NextItemStands
  <2>3. inbox' \in [Item -> Entry] /\ \A i \in Item : inbox'[i].atts = inbox[i].atts
    BY <1>0, <2>1 DEF TypeInv, Entry
  <2>4. TypeInv'
    BY <1>0, <1>9, <2>2, <2>3 DEF TypeInv, Mark, world
  <2>5. Shaped'
    BY <1>9, <2>3 DEF TypesInv, Shaped, Mark, world
  <2>6. StandsAt(script', inbox')
    BY <2>2, <2>3, StandsOn
  <2>7. QED
    BY <2>4, <2>5, <2>6 DEF TypesInv
<1>10. CASE MarkRefused
  <2>1. script.phase # "idle" /\ script' = NextItem
    BY <1>10 DEF MarkRefused
  <2>2. failures' \in 0..MaxFailures
    BY <1>0, <1>10, <1>f DEF MarkRefused
  <2>3. QED
    BY <1>0, <1>10, <2>1, <2>2, NextItemStands, ScriptFrame DEF MarkRefused
<1>11. CASE Killed
  BY <1>0, <1>11, <1>f, IdleStands, ScriptFrame DEF Killed
<1>12. QED
  BY <1>1, <1>2, <1>3, <1>4, <1>5, <1>6, <1>7, <1>8, <1>9, <1>10, <1>11 DEF Script, RunPdf
\* those of everybody else do,
LEMMA OthersTyped ==
  ASSUME TypesInv,
         \/ \E d \in Doc, k \in Key : Resume(d, k) \/ ResumeBroken(d, k)
         \/ \E i \in Item : MarkByOwner(i) \/ (\E d \in Doc : Replace(i, d))
  PROVE  TypesInv'
<1>0. /\ TypeInv /\ script \in ScriptRec /\ StandsAt(script, inbox) /\ inbox \in [Item -> Entry]
  BY DEF TypesInv, TypeInv
<1>1. ASSUME NEW d \in Doc, NEW k \in Key, Resume(d, k) PROVE TypesInv'
  <2>1. stored' \in [Key -> Row]
    BY <1>0, <1>1, StoreTyped DEF Resume
  <2>2. QED
    BY <1>0, <1>1, <2>1, ScriptFrame DEF Resume, TypeInv
<1>2. ASSUME NEW i \in Item, MarkByOwner(i) PROVE TypesInv'
  <2>1. inbox' \in [Item -> Entry] /\ \A j \in Item : inbox'[j].atts = inbox[j].atts
    BY <1>0, <1>2 DEF MarkByOwner, Entry
  <2>2. TypeInv'
    BY <1>0, <1>2, <2>1 DEF TypeInv, MarkByOwner, world
  <2>3. Shaped'
    BY <1>2, <2>1 DEF TypesInv, Shaped, MarkByOwner, world
  <2>4. StandsAt(script, inbox') /\ script' = script
    BY <1>0, <1>2, <2>1, StandsOn DEF MarkByOwner
  <2>5. QED
    BY <2>2, <2>3, <2>4 DEF TypesInv
<1>3. ASSUME NEW d \in Doc, NEW i \in Item, Replace(i, d) PROVE TypesInv'
  <2> DEFINE old == inbox[i].atts
             new == <<[old[1] EXCEPT !.doc = d]>>
  <2>1. source = "filesystem" /\ Len(old) = 1 /\ old \in Seq(Att)
    BY <1>0, <1>3 DEF Replace, TypesInv, Shaped, Entry
  <2>2. [old[1] EXCEPT !.doc = d] \in Att
    <3>1. old[1] \in Att
      BY <2>1
    <3>2. QED
      BY <3>1, Zenon DEF Att
  <2>3. new \in Seq(Att) /\ Len(new) = 1 /\ new # <<>>
    BY <2>2
  <2>4. inbox' = [inbox EXCEPT ![i].atts = new]
    BY <1>3 DEF Replace
  <2> HIDE DEF old, new
  <2>5. /\ inbox' \in [Item -> Entry] /\ inbox'[i].atts = new
        /\ \A j \in Item \ {i} : inbox'[j] = inbox[j]
    BY <1>0, <2>3, <2>4 DEF Entry
  <2>6. TypeInv'
    BY <1>0, <1>3, <2>5 DEF TypeInv, Replace, world
  <2>7. Shaped'
    BY <1>3, <2>1, <2>3, <2>5 DEF TypesInv, Shaped, Replace, world
  <2>8. StandsAt(script, inbox') /\ script' = script
    <3>1. \A j \in Item : inbox'[j].atts = <<>> => inbox[j].atts = <<>>
      BY <2>3, <2>5
    <3>2. QED
      BY <1>0, <1>3, <3>1, StandsOn DEF Replace
  <2>9. QED
    BY <2>6, <2>7, <2>8 DEF TypesInv
<1>4. ASSUME NEW d \in Doc, NEW k \in Key, ResumeBroken(d, k) PROVE TypesInv'
  <2>1. PICK w \in BOOLEAN : /\ stored' = [stored EXCEPT ![k] = [doc |-> d, whole |-> w]]
                             /\ torn' = IF w THEN torn ELSE torn \cup {k}
    BY <1>4 DEF ResumeBroken
  <2>2. stored' \in [Key -> Row]
    BY <1>0, <2>1, StoreTyped
  <2>3. torn' \subseteq Key /\ parked' \subseteq Doc /\ stale' \subseteq stale
    BY <1>0, <1>4, <2>1 DEF ResumeBroken, TypeInv
  <2>4. failures' \in 0..MaxFailures
    BY <1>0, <1>4, FailTyped DEF ResumeBroken
  <2>5. QED
    BY <1>0, <1>4, <2>2, <2>3, <2>4, ScriptFrame DEF ResumeBroken
<1>5. QED
  BY <1>1, <1>2, <1>3, <1>4

\* and the initial state has them.
LEMMA InitTyped == ASSUME Init PROVE TypesInv
<1>1. PICK atts \in Inboxes :
        /\ source = "filesystem" => \A i \in Item : Len(atts[i]) = 1
        /\ inbox = [i \in Item |-> [state |-> "pending", atts |-> atts[i]]]
  BY DEF Init
<1>2. atts \in [Item -> Seq(Att)]
  BY IngestionAssumption DEF Att
<1>3. inbox \in [Item -> Entry] /\ \A i \in Item : inbox[i].atts = atts[i]
  BY <1>1, <1>2 DEF Entry
<1>4. stored \in [Key -> Row]
  BY DEF Init, Row
<1>5. script \in ScriptRec /\ StandsAt(script, inbox)
  BY IdleStands DEF Init
<1>6. 0 \in 0..MaxFailures
  BY IngestionAssumption
<1>7. TypeInv
  BY <1>3, <1>4, <1>5, <1>6 DEF Init, TypeInv
<1>8. Shaped
  BY <1>1, <1>3 DEF Shaped, Init
<1>9. QED
  BY <1>5, <1>7, <1>8 DEF TypesInv

\* So every step keeps the types.
LEMMA StepTyped == ASSUME TypesInv, [Next]_vars PROVE TypesInv'
<1>1. CASE Next
  BY <1>1, ScriptTyped, OthersTyped DEF Next
<1>2. CASE UNCHANGED vars
  <2>1. UNCHANGED <<world, inbox, stored, script, parked, stale, torn, failures>>
    BY <1>2 DEF vars
  <2>2. script' \in ScriptRec /\ StandsAt(script', inbox)
    BY <2>1 DEF TypesInv, TypeInv
  <2>3. QED
    BY <2>1, <2>2, ScriptFrame DEF TypesInv, TypeInv
<1>3. QED
  BY <1>1, <1>2

\* A sequence ranges over a set just if its elements are in it.
LEMMA ToSetOf ==
  ASSUME NEW X, NEW s \in Seq(X)
  PROVE  ToSet(s) \subseteq X /\ ToSet(s) = {s[n] : n \in 1..Len(s)}
BY DEF ToSet

\* Whatever lies in the inbox and whatever breaks, the script's locals, the inbox and
\* the store are well-typed; a queue keeps to --limit, the documents of an item to the cap.
THEOREM TypeCorrect == Spec => []TypeOK
<1>1. Init => TypesInv
  BY InitTyped
<1>2. TypesInv /\ [Next]_vars => TypesInv'
  BY StepTyped
<1>3. TypesInv => TypeOK
  <2> SUFFICES ASSUME TypesInv PROVE TypeOK
    OBVIOUS
  <2>1. /\ script.queue \in Seq(Item) /\ script.docs \in Seq(Doc)
        /\ script.phase \in {"idle", "download", "run", "mark"}
    BY ScriptFields
  <2>2. ToSet(script.queue) \subseteq Item /\ ToSet(script.docs) \subseteq Doc
    BY <2>1, ToSetOf
  <2>3. Len(script.queue) <= Limit /\ Len(script.docs) <= MaxAttachments
    BY DEF TypesInv, StandsAt
  <2>4. QED
    BY <2>1, <2>2, <2>3 DEF TypesInv, TypeInv, TypeOK, Entry, Att, Row
<1>4. QED
  BY <1>1, <1>2, <1>3, PTL DEF Spec
-----------------------------------------------------------------------------
(* Marks *)

\* An invoice that is in the store, with its line items unless a save of its key
\* broke off.
Kept(d) == stored[keyOf[d]].doc # NoDoc /\ (stored[keyOf[d]].whole \/ keyOf[d] \in torn)

\* A header without line items is of a save that broke off.
RowsWhole == \A k \in Key : stored[k].doc # NoDoc => stored[k].whole \/ k \in torn

\* As long as the script means to mark its item, every downloaded invoice of it is
\* kept, or still to be run.
Dealt ==
  script.phase \in {"run", "mark"} /\ script.done /\ Current \notin stale =>
    \A d \in Downloaded(Current) : Kept(d) \/ d \in ToSet(script.docs)

MarkInv == TypesInv /\ RowsWhole /\ Dealt /\ MarkedIsStored

\* Nothing of the downloads changes while an item's attachments stay.
LEMMA DownloadsSame ==
  ASSUME UNCHANGED world, NEW i, inbox'[i].atts = inbox[i].atts
  PROVE  Downloaded(i)' = Downloaded(i)
<1>1. Written(i)' = Written(i)
  BY WrittenIs, WrittenIsNext DEF world
<1>2. kind' = kind
  BY DEF world
<1>3. QED
  BY <1>1, <1>2 DEF Downloaded

\* What is downloaded are documents.
LEMMA DownloadsType ==
  ASSUME TypesInv, NEW i \in Item
  PROVE  Downloaded(i) \subseteq Doc /\ Downloaded(i) = {d \in ToSet(Written(i)) : kind[d] # "other"}
<1> DEFINE a == inbox[i].atts
           w == Written(i)
<1>1. a \in Seq(Att) /\ w = WrittenIn(source, i, a)
  BY WrittenIs DEF TypesInv, TypeInv, Entry
<1> HIDE DEF a
<1>2. w \in Seq(Doc)
  BY <1>1, WrittenFacts
<1>3. Downloaded(i) = {d \in ToSet(w) : kind[d] # "other"}
  BY DEF Downloaded
<1> HIDE DEF w
<1>4. ToSet(w) \subseteq Doc
  BY <1>2, ToSetOf
<1>5. QED
  BY <1>3, <1>4 DEF w

\* The only writes to the store: one document's row, and its key is on record if the
\* row has no line items.
Saves(k, d, w) ==
  /\ stored' = [stored EXCEPT ![k] = [doc |-> d, whole |-> w]]
  /\ torn' = IF w THEN torn ELSE torn \cup {k}

\* Every step leaves the store alone or saves one document.
LEMMA StoreShape ==
  ASSUME TypesInv, [Next]_vars
  PROVE  /\ UNCHANGED world
         /\ \/ UNCHANGED <<stored, torn>>
            \/ \E k \in Key, d \in Doc, w \in BOOLEAN : Saves(k, d, w)
<1>1. CASE RunSaved
  <2>1. Document \in Doc /\ keyOf[Document] \in Key
    BY <1>1, ScriptFields, KeyType DEF RunSaved, Running, TypesInv
  <2>2. Saves(keyOf[Document], Document, TRUE)
    BY <1>1 DEF RunSaved, Saves
  <2>3. QED
    BY <1>1, <2>1, <2>2 DEF RunSaved
<1>2. CASE SaveRaised \/ KilledInSave
  <2>1. Document \in Doc /\ keyOf[Document] \in Key
    BY <1>2, ScriptFields, KeyType DEF SaveRaised, KilledInSave, BreakInSave, Running, TypesInv
  <2>2. \E w \in BOOLEAN : Saves(keyOf[Document], Document, w)
    BY <1>2 DEF SaveRaised, KilledInSave, BreakInSave, Saves
  <2>3. QED
    BY <1>2, <2>1, <2>2 DEF SaveRaised, KilledInSave, BreakInSave
<1>3. CASE \E d \in Doc, k \in Key : Resume(d, k) \/ ResumeBroken(d, k)
  <2>1. PICK d \in Doc, k \in Key : Resume(d, k) \/ ResumeBroken(d, k)
    BY <1>3
  <2>2. \E w \in BOOLEAN : Saves(k, d, w)
    BY <2>1 DEF Resume, ResumeBroken, Saves
  <2>3. QED
    BY <2>1, <2>2 DEF Resume, ResumeBroken
<1>4. CASE List \/ Download \/ DownloadNothing \/ RunSkipped \/ RunFlagged \/ RunRaised
           \/ Mark \/ MarkRefused \/ Killed
  BY <1>4 DEF List, Download, DownloadNothing, RunSkipped, RunFlagged, RunRaised, Mark,
              MarkRefused, Killed
<1>5. CASE \E i \in Item : MarkByOwner(i) \/ \E d \in Doc : Replace(i, d)
  BY <1>5 DEF MarkByOwner, Replace
<1>6. CASE UNCHANGED vars
  BY <1>6 DEF vars
<1>7. QED
  BY <1>1, <1>2, <1>3, <1>4, <1>5, <1>6 DEF Next, Script, RunPdf

\* So a row stays whole or on record, and what is kept stays kept.
LEMMA StoreKeeps ==
  ASSUME TypesInv, RowsWhole, [Next]_vars
  PROVE  RowsWhole' /\ \A d \in Doc : Kept(d) => Kept(d)'
<1>0. keyOf' = keyOf /\ stored \in [Key -> Row] /\ \A d \in Doc : keyOf[d] \in Key
  BY StoreShape, KeyType DEF world, TypesInv, TypeInv
<1>1. CASE UNCHANGED <<stored, torn>>
  BY <1>0, <1>1 DEF RowsWhole, Kept
<1>2. ASSUME NEW l \in Key, NEW c \in Doc, NEW w \in BOOLEAN, Saves(l, c, w)
      PROVE  RowsWhole' /\ \A d \in Doc : Kept(d) => Kept(d)'
  <2>1. /\ stored'[l].doc = c /\ stored'[l].whole = w
        /\ \A k \in Key \ {l} : stored'[k] = stored[k]
    BY <1>0, <1>2 DEF Saves
  <2>2. torn \subseteq torn' /\ (w \/ l \in torn')
    BY <1>2 DEF Saves
  <2>3. c # NoDoc
    BY IngestionAssumption
  <2>4. RowsWhole'
    BY <2>1, <2>2 DEF RowsWhole
  <2>5. ASSUME NEW d \in Doc, Kept(d) PROVE Kept(d)'
    <3>1. CASE keyOf[d] = l
      BY <1>0, <2>1, <2>2, <2>3, <3>1 DEF Kept
    <3>2. CASE keyOf[d] # l
      BY <1>0, <2>1, <2>2, <2>5, <3>2 DEF Kept
    <3>3. QED
      BY <3>1, <3>2
  <2>6. QED
    BY <2>4, <2>5
<1>3. QED
  BY <1>1, <1>2, StoreShape

\* A processed item has been processed before, or is the one Mark marks.
LEMMA MarksOnly ==
  ASSUME TypesInv, [Next]_vars, NEW i \in Item \ stale', inbox'[i].state = "processed"
  PROVE  /\ i \notin stale /\ inbox'[i].atts = inbox[i].atts
         /\ inbox[i].state = "processed" \/ (Mark /\ i = Current)
<1>0. inbox \in [Item -> Entry] /\ i \in Item /\ i \notin stale'
  BY DEF TypesInv, TypeInv
<1>1. CASE UNCHANGED <<inbox, stale>>
  BY <1>0, <1>1
<1>2. CASE Download
  <2>1. inbox' = inbox /\ stale' = stale \ {Current} /\ ~Gone(Current)
    BY <1>2 DEF Download
  <2>2. CASE i \in stale
    <3>1. i = Current /\ source # "filesystem"
      BY <1>0, <2>1, <2>2 DEF Gone
    <3>2. source = "gmail" /\ stale = {}
      BY <3>1 DEF TypesInv, TypeInv, Shaped
    <3>3. QED
      BY <2>2, <3>2
  <2>3. QED
    BY <2>1, <2>2
<1>3. CASE Mark
  <2> DEFINE c == Current
  <2>1. inbox' = [inbox EXCEPT ![c].state = "processed"] /\ stale' = stale /\ c \in Item
    BY <1>3, ScriptFields DEF Mark
  <2> HIDE DEF c
  <2>2. inbox'[i].atts = inbox[i].atts /\ (i # c => inbox'[i] = inbox[i])
    BY <1>0, <2>1 DEF Entry
  <2>3. QED
    BY <1>0, <1>3, <2>1, <2>2 DEF c
<1>4. CASE \E j \in Item : MarkByOwner(j)
  <2>1. PICK j \in Item : MarkByOwner(j)
    BY <1>4
  <2>2. /\ inbox'[j].state = "dismissed" /\ stale' = stale
        /\ \A k \in Item \ {j} : inbox'[k] = inbox[k]
    BY <1>0, <2>1 DEF MarkByOwner, Entry
  <2>3. QED
    BY <1>0, <2>2
<1>5. CASE \E j \in Item, d \in Doc : Replace(j, d)
  <2>1. PICK j \in Item, d \in Doc : Replace(j, d)
    BY <1>5
  <2>2. stale' = stale \cup {j} /\ \A k \in Item \ {j} : inbox'[k] = inbox[k]
    BY <1>0, <2>1 DEF Replace
  <2>3. QED
    BY <1>0, <2>2
<1>6. QED
  <2>1. CASE List \/ DownloadNothing \/ MarkRefused \/ Killed
    BY <1>1, <2>1 DEF List, DownloadNothing, MarkRefused, Killed
  <2>2. CASE RunPdf \/ KilledInSave
    BY <1>1, <2>2 DEF RunPdf, KilledInSave, RunSkipped, RunFlagged, RunSaved, RunRaised,
                      SaveRaised, BreakInSave
  <2>3. CASE \E d \in Doc, k \in Key : Resume(d, k) \/ ResumeBroken(d, k)
    BY <1>1, <2>3 DEF Resume, ResumeBroken
  <2>4. CASE UNCHANGED vars
    BY <1>1, <2>4 DEF vars
  <2>5. QED
    BY <1>2, <1>3, <1>4, <1>5, <2>1, <2>2, <2>3, <2>4 DEF Next, Script

\* The first of a sequence and the others.
LEMMA HeadOrTail ==
  ASSUME NEW X, NEW s \in Seq(X), s # <<>>
  PROVE  /\ \A x \in ToSet(s) : x = Head(s) \/ x \in ToSet(Tail(s))
         /\ Len(s) = 1 => \A x \in ToSet(s) : x = Head(s)
<1> DEFINE t == Tail(s)
<1>1. /\ t \in Seq(X) /\ Len(t) = Len(s) - 1 /\ \A n \in 1..Len(t) : t[n] = s[n + 1]
      /\ Head(s) = s[1] /\ Len(s) \in Nat
  BY HeadTailProperties, LenProperties
<1> HIDE DEF t
<1>2. ToSet(t) = {t[n] : n \in 1..Len(t)} /\ ToSet(s) = {s[n] : n \in 1..Len(s)}
  BY <1>1, ToSetOf
<1>3. ASSUME NEW x \in ToSet(s) PROVE x = s[1] \/ x \in ToSet(t)
  <2>1. PICK n \in 1..Len(s) : x = s[n]
    BY <1>2
  <2>2. CASE n # 1
    <3>1. n - 1 \in 1..Len(t) /\ (n - 1) + 1 = n
      BY <1>1, <2>1, <2>2
    <3>2. t[n - 1] = x
      BY <1>1, <2>1, <3>1
    <3>3. QED
      BY <1>2, <3>1, <3>2
  <2>3. QED
    BY <2>1, <2>2
<1>4. ASSUME Len(s) = 1, NEW x \in ToSet(s) PROVE x = s[1]
  <2>1. PICK n \in 1..Len(s) : x = s[n]
    BY <1>2
  <2>2. n = 1
    BY <1>4, <2>1
  <2>3. QED
    BY <2>1, <2>2
<1>5. QED
  BY <1>1, <1>3, <1>4 DEF t

\* Running one document leaves the others to be run.
LEMMA RanDealt ==
  ASSUME MarkInv, [Next]_vars, script.phase = "run", NEW ok \in BOOLEAN, RanPdf(ok),
         UNCHANGED <<inbox, stale>>, NEW e \in Doc, e = Document,
         ok /\ kind[e] # "other" => Kept(e)'
  PROVE  Dealt'
<1>0. TypesInv /\ RowsWhole /\ Dealt /\ UNCHANGED world
  BY StoreShape DEF MarkInv
<1> DEFINE c == Current
           docs == script.docs
<1>1. c \in Item /\ docs \in Seq(Doc) /\ docs # <<>> /\ Document = Head(docs)
  BY <1>0, ScriptFields DEF Document
<1>3. SUFFICES ASSUME script'.phase \in {"run", "mark"}, script'.done, Current' \notin stale',
                      NEW d \in Downloaded(Current)'
               PROVE  Kept(d)' \/ d \in ToSet(script'.docs)
  BY DEF Dealt
<1>4. script'.queue = script.queue /\ Current' = c
  BY <1>0, <1>3, RanPdfStands DEF Current
<1>5. script.done /\ ok /\ c \notin stale
  BY <1>0, <1>3, <1>4, RanPdfStands
<1>6. d \in Downloaded(c) /\ d \in Doc /\ kind[d] # "other"
  <2>1. Downloaded(Current)' = Downloaded(c)
    <3>1. Downloaded(Current)' = {x \in ToSet(Written(Current)') : kind'[x] # "other"}
      BY DEF Downloaded
    <3>2. Written(Current)' = WrittenIn(source', Current', inbox'[Current'].atts)
      BY DEF Written, WrittenIn, LastOf, PathIn, PathOf, PdfAttachments, Prefix
    <3>3. Written(c) = WrittenIn(source, c, inbox[c].atts)
      BY WrittenIs
    <3>4. Written(Current)' = Written(c)
      BY <1>0, <1>4, <3>2, <3>3 DEF world
    <3>5. Downloaded(c) = {x \in ToSet(Written(c)) : kind[x] # "other"}
      BY DEF Downloaded
    <3>6. QED
      BY <1>0, <3>1, <3>4, <3>5 DEF world
  <2>2. d \in Downloaded(c)
    BY <1>3, <2>1
  <2>3. QED
    BY <1>0, <1>1, <2>2, DownloadsType
<1>7. Kept(d) \/ d \in ToSet(docs)
  BY <1>0, <1>5, <1>6 DEF Dealt
<1>8. CASE Kept(d)
  BY <1>0, <1>6, <1>8, StoreKeeps
<1>9. CASE d \in ToSet(docs)
  <2> HIDE DEF docs
  <2>1. d = Head(docs) \/ d \in ToSet(Tail(docs))
    BY <1>1, <1>9, HeadOrTail
  <2>2. Len(docs) = 1 => d = Head(docs)
    BY <1>1, <1>9, HeadOrTail
  <2>3. script'.docs = Tail(docs) \/ Len(docs) = 1
    BY <1>0, <1>3, RanPdfStands DEF docs
  <2>4. CASE d = Head(docs)
    BY <1>1, <1>5, <1>6, <2>4
  <2>5. QED
    BY <2>1, <2>2, <2>3, <2>4
<1>10. QED
  BY <1>7, <1>8, <1>9

\* Steps that leave the script where it is.
LEMMA WaitingDealt ==
  ASSUME MarkInv, [Next]_vars, script' = script, stale \subseteq stale',
         \A i \in Item \ stale' : inbox'[i].atts = inbox[i].atts
  PROVE  Dealt'
<1>0. TypesInv /\ RowsWhole /\ Dealt /\ UNCHANGED world
  BY StoreShape DEF MarkInv
<1> DEFINE c == Current
<1>1. Current' = c
  BY DEF Current
<1>2. SUFFICES ASSUME script.phase \in {"run", "mark"}, script.done, c \notin stale',
                      NEW d \in Downloaded(Current)'
               PROVE  Kept(d)' \/ d \in ToSet(script.docs)
  BY <1>1 DEF Dealt
<1>3. c \in Item /\ inbox'[c].atts = inbox[c].atts /\ c \notin stale
  BY <1>0, <1>2, ScriptFields
<1>4. Written(Current)' = Written(c)
  <2>1. Written(Current)' = WrittenIn(source', Current', inbox'[Current'].atts)
    BY DEF Written, WrittenIn, LastOf, PathIn, PathOf, PdfAttachments, Prefix
  <2>2. Written(c) = WrittenIn(source, c, inbox[c].atts)
    BY WrittenIs
  <2>3. QED
    BY <1>0, <1>1, <1>3, <2>1, <2>2 DEF world
<1>5. d \in Downloaded(c)
  <2>1. Downloaded(Current)' = {x \in ToSet(Written(Current)') : kind'[x] # "other"}
    BY DEF Downloaded
  <2>2. Downloaded(c) = {x \in ToSet(Written(c)) : kind[x] # "other"}
    BY DEF Downloaded
  <2>3. QED
    BY <1>0, <1>2, <1>4, <2>1, <2>2 DEF world
<1>6. d \in Doc /\ (Kept(d) \/ d \in ToSet(script.docs))
  BY <1>0, <1>2, <1>3, <1>5, DownloadsType DEF Dealt
<1>7. QED
  BY <1>0, <1>6, StoreKeeps

\* Every step keeps what the script means to mark dealt with.
LEMMA DealtStays ==
  ASSUME MarkInv, [Next]_vars
  PROVE  Dealt'
<1>0. TypesInv /\ RowsWhole
  BY DEF MarkInv
<1>1. CASE script'.phase \in {"idle", "download"}
  BY <1>1 DEF Dealt
<1>2. CASE List \/ DownloadNothing \/ Mark \/ MarkRefused \/ Killed
  <2>1. script'.phase \in {"idle", "download"}
    <3>1. CASE List
      BY <3>1 DEF List, Idle
    <3>2. CASE DownloadNothing \/ Mark \/ MarkRefused
      <4>1. script.phase # "idle" /\ script' = NextItem
        BY <3>2 DEF DownloadNothing, Mark, MarkRefused
      <4>2. QED
        BY <1>0, <4>1, NextItemStands
    <3>3. CASE Killed
      BY <3>3 DEF Killed, Idle
    <3>4. QED
      BY <1>2, <3>1, <3>2, <3>3
  <2>2. QED
    BY <1>1, <2>1
<1>3. CASE Download
  <2> DEFINE w == Written(Current)
             s == [script EXCEPT !.phase = "run", !.docs = w, !.done = TRUE]
  <2>1. script' = s /\ inbox' = inbox /\ UNCHANGED world /\ script \in ScriptRec
    BY <1>0, <1>3 DEF Download, TypesInv, TypeInv
  <2> HIDE DEF w
  <2>2. s.queue = script.queue /\ s.docs = w
    BY <2>1 DEF ScriptRec
  <2> HIDE DEF s
  <2>3. Current' = Current
    BY <2>1, <2>2 DEF Current
  <2>4. Written(Current)' = w
    <3>1. Written(Current)' = WrittenIn(source', Current', inbox'[Current'].atts)
      BY DEF Written, WrittenIn, LastOf, PathIn, PathOf, PdfAttachments, Prefix
    <3>2. w = WrittenIn(source, Current, inbox[Current].atts)
      BY WrittenIs DEF w
    <3>3. QED
      BY <2>1, <2>3, <3>1, <3>2 DEF world
  <2>5. Downloaded(Current)' \subseteq ToSet(w)
    BY <2>4 DEF Downloaded
  <2>6. QED
    BY <2>1, <2>2, <2>5 DEF Dealt
<1>4. CASE script.phase = "run" /\ RunPdf
  <2> SUFFICES ASSUME NEW e, e = Document PROVE Dealt'
    OBVIOUS
  <2>0. e \in Doc /\ keyOf[e] \in Key
    BY <1>0, <1>4, ScriptFields, KeyType DEF TypesInv
  <2>1. CASE RunSkipped
    <3>1. RanPdf(TRUE) /\ UNCHANGED <<inbox, stale>> /\ kind[e] = "other"
      BY <2>1 DEF RunSkipped
    <3>2. QED
      BY <1>4, <2>0, <3>1, RanDealt
  <2>2. CASE RunFlagged
    <3> DEFINE ok == IsDuplicateOnly(Flags(Document))
    <3>1. RanPdf(ok) /\ ok \in BOOLEAN /\ UNCHANGED <<inbox, stale>>
      BY <2>2 DEF RunFlagged, IsDuplicateOnly
    <3>2. ok => Kept(e)
      <4>1. ok => stored[keyOf[e]].doc # NoDoc
        BY DEF IsDuplicateOnly, Flags
      <4>2. QED
        BY <1>0, <2>0, <4>1 DEF RowsWhole, Kept
    <3>3. ok => Kept(e)'
      BY <1>0, <2>0, <3>2, StoreKeeps
    <3> HIDE DEF ok
    <3>4. QED
      BY <1>4, <2>0, <3>1, <3>3, RanDealt
  <2>3. CASE RunSaved
    <3>1. RanPdf(TRUE) /\ UNCHANGED <<inbox, stale, world>>
      BY <2>3 DEF RunSaved
    <3>2. stored' = [stored EXCEPT ![keyOf[e]] = [doc |-> e, whole |-> TRUE]] /\ keyOf' = keyOf
      BY <2>3 DEF RunSaved, world
    <3>3. Kept(e)'
      BY <1>0, <2>0, <3>2, IngestionAssumption DEF TypesInv, TypeInv, Kept
    <3>4. QED
      BY <1>4, <2>0, <3>1, <3>3, RanDealt
  <2>4. CASE RunRaised
    <3>1. RanPdf(FALSE) /\ UNCHANGED <<inbox, stale>>
      BY <2>4 DEF RunRaised
    <3>2. QED
      BY <1>4, <2>0, <3>1, RanDealt
  <2>5. CASE SaveRaised
    <3>1. RanPdf(FALSE) /\ UNCHANGED <<inbox, stale>>
      BY <2>5 DEF SaveRaised, BreakInSave
    <3>2. QED
      BY <1>4, <2>0, <3>1, RanDealt
  <2>6. QED
    BY <1>4, <2>1, <2>2, <2>3, <2>4, <2>5 DEF RunPdf
<1>5. CASE KilledInSave
  BY <1>5 DEF KilledInSave, BreakInSave, Idle, Dealt
<1>6. CASE \E d \in Doc, k \in Key : Resume(d, k) \/ ResumeBroken(d, k)
  BY <1>6, WaitingDealt DEF Resume, ResumeBroken
<1>7. CASE \E i \in Item : MarkByOwner(i)
  <2>1. PICK j \in Item : MarkByOwner(j)
    BY <1>7
  <2>2. \A i \in Item : inbox'[i].atts = inbox[i].atts
    BY <1>0, <2>1 DEF MarkByOwner, TypesInv, TypeInv, Entry
  <2>3. QED
    BY <2>1, <2>2, WaitingDealt DEF MarkByOwner
<1>8. CASE \E d \in Doc, i \in Item : Replace(i, d)
  <2>1. PICK d \in Doc, j \in Item : Replace(j, d)
    BY <1>8
  <2>2. script' = script /\ stale' = stale \cup {j} /\ \A i \in Item \ {j} : inbox'[i] = inbox[i]
    BY <1>0, <2>1 DEF Replace, TypesInv, TypeInv
  <2>3. QED
    BY <2>2, WaitingDealt
<1>9. CASE UNCHANGED vars
  BY <1>9, WaitingDealt DEF vars
<1>10. RunPdf => script.phase = "run"
  BY DEF RunPdf, RunSkipped, RunFlagged, RunSaved, RunRaised, SaveRaised, BreakInSave, Running
<1>11. QED
  BY <1>2, <1>3, <1>4, <1>5, <1>6, <1>7, <1>8, <1>9, <1>10 DEF Next, Script

\* An item is marked when all of it is dealt with, and what is kept stays kept.
LEMMA MarkedStays ==
  ASSUME MarkInv, [Next]_vars
  PROVE  MarkedIsStored'
<1>0. TypesInv /\ RowsWhole /\ Dealt /\ MarkedIsStored /\ UNCHANGED world
  BY StoreShape DEF MarkInv
<1>1. SUFFICES ASSUME NEW i \in Item \ stale', inbox'[i].state = "processed",
                      NEW d \in Downloaded(i)'
               PROVE  Kept(d)'
  BY DEF MarkedIsStored, Kept
<1>2. /\ i \notin stale /\ inbox'[i].atts = inbox[i].atts
      /\ inbox[i].state = "processed" \/ (Mark /\ i = Current)
  BY <1>0, <1>1, MarksOnly
<1>3. d \in Downloaded(i) /\ d \in Doc
  BY <1>0, <1>1, <1>2, DownloadsSame, DownloadsType
<1>4. CASE inbox[i].state = "processed"
  BY <1>0, <1>2, <1>3, <1>4, StoreKeeps DEF MarkedIsStored, Kept
<1>5. CASE Mark /\ i = Current
  <2>1. script.phase = "mark" /\ script.docs = <<>> /\ script.done
    BY <1>0, <1>5 DEF Mark, TypesInv, StandsAt
  <2>2. ToSet(script.docs) = {}
    BY <2>1 DEF ToSet
  <2>3. Kept(d)
    BY <1>0, <1>2, <1>3, <1>5, <2>1, <2>2 DEF Dealt
  <2>4. QED
    BY <1>0, <1>3, <2>3, StoreKeeps
<1>6. QED
  BY <1>2, <1>4, <1>5

\* Each invoice downloaded with a marked item has a row in the store, with its line
\* items unless some save of that invoice broke off half-way: over kills and failed
\* requests at any point, reviews, the owner's page and files replaced meanwhile.
THEOREM MarkSafety == Spec => []MarkedIsStored
<1>1. Init => MarkInv
  <2> SUFFICES ASSUME Init PROVE MarkInv
    OBVIOUS
  <2>1. TypesInv
    BY InitTyped
  <2>2. RowsWhole
    BY DEF Init, RowsWhole
  <2>3. Dealt
    BY DEF Init, Dealt, Idle
  <2>4. \A i \in Item : inbox[i].state = "pending"
    BY DEF Init
  <2>5. QED
    BY <2>1, <2>2, <2>3, <2>4 DEF MarkInv, MarkedIsStored
<1>2. MarkInv /\ [Next]_vars => MarkInv'
  BY StepTyped, StoreKeeps, DealtStays, MarkedStays DEF MarkInv
<1>3. MarkInv => MarkedIsStored
  BY DEF MarkInv
<1>4. QED
  BY <1>1, <1>2, <1>3, PTL DEF Spec
=============================================================================
