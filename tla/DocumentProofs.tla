--------------------------- MODULE DocumentProofs ---------------------------
(***************************************************************************)
(* Theorems about the parts a document passes through, for every value of  *)
(* their constants: the uploads (any number of POSTs, file names, chunks,  *)
(* fields and orders of the response, and of failures), the pages that     *)
(* list the runs and link to their PDFs (any number of threads, viewers    *)
(* and ticks), and the evaluation (any data set, cache and predictions).   *)
(***************************************************************************)
EXTENDS MCDocuments, FiniteSetTheorems, SelectionFacts

-----------------------------------------------------------------------------
(* Uploads: what their variables range over *)

Chunks == Seq(Post \cup {NoPost})
FileRec == [there : BOOLEAN, chunks : Chunks, old : BOOLEAN]
PostRec == [phase : {"arrive", "open", "copy", "start", "accepted", "refused", "broken"},
            upload : Upload, read : 0..Cap, linked : BOOLEAN]
RunPhase == {"none", "router", "extractor", "validator", "review", "output", "completed",
             "failed at router", "failed at extractor", "failed at output"}
RunRec == [phase : RunPhase, name : Name, content : Chunks]
Announcement == [name : Field, whole : BOOLEAN]
StreamRec == [order : Orders \cup {<<>>}, begun : Nat, announced : Seq(Announcement)]

-----------------------------------------------------------------------------
(* Announcements *)

\* Every field once, and whole.
Once(a) ==
  /\ a \in Seq(Announcement)
  /\ \A n \in 1..Len(a) : a[n].whole
  /\ \A m, n \in 1..Len(a) : a[m].name = a[n].name => m = n

\* The names in a sequence of announcements.
LEMMA NamesAre ==
  ASSUME NEW a \in Seq(Announcement)
  PROVE  Names(a) = {a[n].name : n \in 1..Len(a)} /\ Names(a) \subseteq Field
<1>1. DOMAIN a = 1..Len(a) /\ \A n \in 1..Len(a) : a[n] \in Announcement
  BY LenProperties, ElementOfSeq
<1>2. QED
  BY <1>1 DEF Names, Announcement

\* Announcing more, of other fields.
LEMMA OnceMore ==
  ASSUME NEW a, Once(a), NEW b, Once(b), Names(a) \cap Names(b) = {}
  PROVE  Once(a \o b) /\ Names(a \o b) = Names(a) \cup Names(b)
<1> DEFINE c == a \o b
<1>0. a \in Seq(Announcement) /\ b \in Seq(Announcement)
  BY DEF Once
<1>1. Joins(Announcement, a, b, c)
  BY <1>0, TwoParts
<1> HIDE DEF c
<1>2. /\ c \in Seq(Announcement) /\ Len(c) = Len(a) + Len(b) /\ Len(a) \in Nat /\ Len(b) \in Nat
      /\ \A i \in 1..Len(a) : c[i] = a[i]
      /\ \A j \in 1..Len(b) : c[Len(a) + j] = b[j]
  BY <1>1 DEF Joins
<1>3. ASSUME NEW n \in 1..Len(c)
      PROVE  n \in 1..Len(a) \/ \E j \in 1..Len(b) : n = Len(a) + j
  <2> DEFINE p == Len(a)
             q == Len(b)
  <2>1. p \in Nat /\ q \in Nat /\ n \in 1..(p + q)
    BY <1>2, <1>3
  <2> HIDE DEF p, q
  <2>2. CASE n <= p
    BY <2>1, <2>2 DEF p
  <2>3. CASE n > p
    <3>1. n - p \in 1..q /\ n = p + (n - p)
      BY <2>1, <2>3
    <3>2. QED
      BY <3>1 DEF p, q
  <2>4. QED
    BY <2>1, <2>2, <2>3
<1>n. /\ Names(a) = {a[i].name : i \in 1..Len(a)} /\ Names(b) = {b[i].name : i \in 1..Len(b)}
      /\ Names(c) = {c[i].name : i \in 1..Len(c)}
  BY <1>0, <1>2, NamesAre
<1>p. \A n \in 1..Len(c) : \/ n \in 1..Len(a) /\ c[n] = a[n]
                           \/ \E j \in 1..Len(b) : n = Len(a) + j /\ c[n] = b[j]
  <2>1. TAKE n \in 1..Len(c)
  <2>2. CASE n \in 1..Len(a)
    BY <1>2, <2>2
  <2>3. CASE n \notin 1..Len(a)
    <3>1. PICK j \in 1..Len(b) : n = Len(a) + j
      BY <1>3, <2>3
    <3>2. c[n] = b[j]
      BY <1>2, <3>1
    <3>3. QED
      BY <3>1, <3>2
  <2>4. QED
    BY <2>2, <2>3
<1>4. \A n \in 1..Len(c) : c[n].whole
  BY <1>p DEF Once
<1>5. ASSUME NEW m \in 1..Len(c), NEW n \in 1..Len(c), c[m].name = c[n].name
      PROVE  m = n
  <2>1. CASE m \in 1..Len(a) /\ n \in 1..Len(a)
    BY <1>2, <1>5, <2>1 DEF Once
  <2>2. ASSUME NEW i \in 1..Len(a), NEW j \in 1..Len(b), a[i].name = b[j].name
        PROVE  FALSE
    BY <1>n, <2>2
  <2>3. CASE m \in 1..Len(a) /\ n \notin 1..Len(a)
    <3>1. PICK j \in 1..Len(b) : c[n] = b[j]
      BY <1>p, <2>3
    <3>2. QED
      BY <1>2, <1>5, <2>2, <2>3, <3>1
  <2>4. CASE m \notin 1..Len(a) /\ n \in 1..Len(a)
    <3>1. PICK j \in 1..Len(b) : c[m] = b[j]
      BY <1>p, <2>4
    <3>2. QED
      BY <1>2, <1>5, <2>2, <2>4, <3>1
  <2>5. CASE m \notin 1..Len(a) /\ n \notin 1..Len(a)
    <3>1. PICK i \in 1..Len(b), j \in 1..Len(b) : m = Len(a) + i /\ n = Len(a) + j
      BY <1>3, <2>5
    <3>2. b[i].name = b[j].name
      BY <1>2, <1>5, <3>1
    <3>3. QED
      BY <3>1, <3>2 DEF Once
  <2>6. QED
    BY <2>1, <2>3, <2>4, <2>5
<1>6. Names(c) = Names(a) \cup Names(b)
  <2>1. Names(c) \subseteq Names(a) \cup Names(b)
    <3>1. SUFFICES ASSUME NEW n \in 1..Len(c) PROVE c[n].name \in Names(a) \cup Names(b)
      BY <1>n
    <3>2. CASE n \in 1..Len(a) /\ c[n] = a[n]
      BY <1>n, <3>2
    <3>3. ASSUME NEW j \in 1..Len(b), c[n] = b[j] PROVE c[n].name \in Names(a) \cup Names(b)
      BY <1>n, <3>3
    <3>4. QED
      BY <1>p, <3>2, <3>3
  <2>2. \A i \in 1..Len(a) : i \in 1..Len(c)
    BY <1>2
  <2>3. \A j \in 1..Len(b) : Len(a) + j \in 1..Len(c)
    BY <1>2
  <2>4. Names(a) \subseteq Names(c)
    BY <1>2, <1>n, <2>2
  <2>5. Names(b) \subseteq Names(c)
    BY <1>2, <1>n, <2>3
  <2>6. QED
    BY <2>1, <2>4, <2>5
<1>7. Once(c)
  BY <1>2, <1>4, <1>5 DEF Once
<1>8. QED
  BY <1>6, <1>7 DEF c

\* Distinct keys, announced as fields.
LEMMA OnceFrom ==
  ASSUME NEW F, F \subseteq Field, NEW keys \in Seq(F), IsInjective(keys),
         NEW a, a = [n \in DOMAIN keys |-> [name |-> keys[n], whole |-> TRUE]]
  PROVE  Once(a) /\ Names(a) = Range(keys)
<1>1. DOMAIN keys = 1..Len(keys) /\ Len(keys) \in Nat /\ \A n \in 1..Len(keys) : keys[n] \in F
  BY LenProperties, ElementOfSeq
<1>2. a \in [1..Len(keys) -> Announcement]
  BY <1>1 DEF Announcement
<1>3. a \in Seq(Announcement) /\ Len(a) = Len(keys)
  BY <1>1, <1>2
<1>4. \A n \in 1..Len(keys) : a[n].name = keys[n] /\ a[n].whole
  BY <1>1
<1>5. \A m, n \in 1..Len(keys) : keys[m] = keys[n] => m = n
  BY <1>1 DEF IsInjective
<1>6. Once(a)
  BY <1>3, <1>4, <1>5 DEF Once
<1>7. Names(a) = {a[n].name : n \in 1..Len(keys)}
  BY <1>3, NamesAre
<1>8. Range(keys) = {keys[n] : n \in 1..Len(keys)}
  BY <1>1 DEF Range
<1>9. QED
  BY <1>4, <1>6, <1>7, <1>8

\* Of the keys begun, those before the last one are done.
LEMMA DoneKeysFacts ==
  ASSUME NEW o \in Orders, NEW begun \in 1..Len(o)
  PROVE  /\ DoneKeys(o, begun) \in Seq(Range(o)) /\ IsInjective(DoneKeys(o, begun))
         /\ o[begun] \notin Range(DoneKeys(o, begun))
<1> DEFINE k == begun - 1
           d == SubSeq(o, 1, k)
<1>1. o \in Seq(Range(o)) /\ IsInjective(o) /\ Len(o) \in Nat /\ DOMAIN o = 1..Len(o)
  BY UploadsAssumption, LenProperties
<1>2. k \in Nat /\ k < begun /\ begun \in 1..Len(o) /\ k + 1 = begun /\ \A i \in 1..k : i \in 1..Len(o)
  BY <1>1
<1>3. DoneKeys(o, begun) = d
  BY <1>2 DEF DoneKeys
<1> HIDE DEF k
<1>4. \A i \in 1..k : o[i] \in Range(o)
  BY <1>1, <1>2 DEF Range
<1>5. /\ d \in Seq(Range(o)) /\ Len(d) = IF 1 <= k THEN k - 1 + 1 ELSE 0
      /\ \A i \in 1..k - 1 + 1 : d[i] = o[1 + i - 1]
  BY <1>2, <1>4, SubSeqProperties
<1> HIDE DEF d
<1>6. Len(d) = k /\ \A i \in 1..k : d[i] = o[i]
  BY <1>2, <1>5
<1>7. DOMAIN d = 1..k
  BY <1>5, <1>6, LenProperties
<1>8. \A i, j \in 1..Len(o) : o[i] = o[j] => i = j
  BY <1>1 DEF IsInjective
<1>9. IsInjective(d)
  BY <1>2, <1>6, <1>7, <1>8 DEF IsInjective
<1>10. o[begun] \notin Range(d)
  <2>1. SUFFICES ASSUME NEW i \in 1..k, o[begun] = o[i] PROVE FALSE
    BY <1>6, <1>7 DEF Range
  <2>2. QED
    BY <1>2, <1>8, <2>1
<1>11. QED
  BY <1>3, <1>5, <1>9, <1>10

\* What one delta announces: fields not announced before, each once and whole.
LEMMA DeltaAnnounces ==
  ASSUME NEW o \in Orders, NEW begun \in 1..Len(o)
  PROVE  /\ Once(Announcements(o, begun))
         /\ Names(Announcements(o, begun)) \cap Names(stream.announced) = {}
<1> DEFINE d == DoneKeys(o, begun)
           F == Field \ Names(stream.announced)
           fresh == Selected(d, F)
           a == Announcements(o, begun)
<1>1. d \in Seq(Range(o)) /\ IsInjective(d) /\ o[begun] \notin Range(d)
  BY DoneKeysFacts
<1>2. a = [n \in DOMAIN fresh |-> [name |-> fresh[n], whole |-> fresh[n] # o[begun]]]
  BY DEF Announcements
<1> DEFINE X == Range(o)
<1> HIDE DEF d, F, a, X
<1>3. d \in Seq(X)
  BY <1>1 DEF X
<1>4. fresh \in Seq(X \cap F) /\ IsInjective(fresh) /\ Range(fresh) = Range(d) \cap F
  BY <1>1, <1>3, SelectedType, SelectedDistinct, SelectedRange
<1> HIDE DEF fresh
<1>5. fresh \in Seq(F)
  <2>1. X \cap F \subseteq F
    OBVIOUS
  <2>2. QED
    BY <1>4, <2>1, SeqMonotonic
<1>6. \A n \in DOMAIN fresh : fresh[n] # o[begun]
  BY <1>1, <1>4 DEF Range
<1>7. a = [n \in DOMAIN fresh |-> [name |-> fresh[n], whole |-> TRUE]]
  BY <1>2, <1>6
<1>8. F \subseteq Field
  BY DEF F
<1>9. Once(a) /\ Names(a) = Range(fresh)
  BY <1>4, <1>5, <1>7, <1>8, OnceFrom
<1>10. QED
  BY <1>4, <1>9 DEF F, a

\* What the final message announces: all the others.
LEMMA RestAnnounces ==
  ASSUME NEW F, F \subseteq Field, NEW a,
         a = LET left == SetToSeq(F)
             IN  [n \in DOMAIN left |-> [name |-> left[n], whole |-> TRUE]]
  PROVE  Once(a) /\ Names(a) = F
<1> DEFINE left == SetToSeq(F)
           k == Cardinality(F)
<1>1. IsFiniteSet(F)
  BY UploadsAssumption, FS_Subset
<1>2. k \in Nat /\ ExistsBijection(1..k, F)
  BY <1>1, FS_CardinalityType
<1>3. \E f \in [1..k -> F] : IsInjective(f)
  BY <1>2 DEF ExistsBijection, Bijection, Injection
<1>4. left \in [1..k -> F] /\ IsInjective(left)
  BY <1>3 DEF SetToSeq
<1> HIDE DEF left
<1>5. left \in Injection(1..k, F)
  BY <1>4 DEF Injection
<1>6. left \in Surjection(1..k, F)
  <2>1. Cardinality(1..k) = k
    <3> HIDE DEF k
    <3>1. Cardinality(1..k) = IF 1 > k THEN 0 ELSE k - 1 + 1
      BY <1>2, FS_Interval
    <3>2. QED
      BY <1>2, <3>1
  <2>2. QED
    BY <1>1, <1>5, <2>1, FS_Injection
<1> HIDE DEF k
<1>7. left \in Seq(F) /\ Range(left) = F
  BY <1>2, <1>4, <1>6 DEF Surjection, Range
<1>8. a = [n \in DOMAIN left |-> [name |-> left[n], whole |-> TRUE]]
  BY DEF left
<1>9. QED
  BY <1>4, <1>7, <1>8, OnceFrom

-----------------------------------------------------------------------------
(* Types *)

UTypes ==
  /\ disk \in [Name -> FileRec]
  /\ post \in [Post -> PostRec]
  /\ run \in RunRec
  /\ stream \in StreamRec
  /\ bucket \in Chunks
  /\ failures \in 0..MaxFailures
  /\ shared \in BOOLEAN
  /\ aged \subseteq Name

LEMMA PostFields ==
  ASSUME NEW r \in PostRec
  PROVE  /\ r.phase \in {"arrive", "open", "copy", "start", "accepted", "refused", "broken"}
         /\ r.upload \in Upload /\ r.upload.name \in Name /\ r.upload.size \in 0..(Cap + 1)
         /\ r.upload.magic \in BOOLEAN /\ r.read \in 0..Cap /\ r.linked \in BOOLEAN
<1>1. Upload \subseteq [name : Name, size : 0..(Cap + 1), magic : BOOLEAN]
  BY UploadsAssumption
<1>2. r.upload \in Upload
  BY DEF PostRec
<1>3. r.upload \in [name : Name, size : 0..(Cap + 1), magic : BOOLEAN]
  BY <1>1, <1>2
<1>4. QED
  BY <1>3 DEF PostRec

LEMMA FileFields ==
  ASSUME NEW r \in FileRec
  PROVE  r.there \in BOOLEAN /\ r.chunks \in Chunks /\ r.old \in BOOLEAN /\ Len(r.chunks) \in Nat
BY LenProperties DEF FileRec, Chunks

LEMMA RunFields ==
  ASSUME NEW r \in RunRec
  PROVE  r.phase \in RunPhase /\ r.name \in Name /\ r.content \in Chunks
BY DEF RunRec

LEMMA NoFileTyped ==
  NoFile \in FileRec /\ Created \in FileRec /\ Unread \in Chunks
<1>1. <<>> \in Chunks
  BY DEF Chunks
<1>2. NoFile \in FileRec /\ Created \in FileRec
  BY <1>1 DEF NoFile, Created, FileRec
<1>3. Unread \in Chunks
  BY DEF Unread, Chunks
<1>4. QED
  BY <1>2, <1>3

LEMMA NoStreamTyped ==
  NoStream \in StreamRec /\ Once(NoStream.announced)
<1>1. <<>> \in Seq(Announcement) /\ Len(<<>>) = 0
  OBVIOUS
<1>2. NoStream \in StreamRec
  BY <1>1 DEF NoStream, StreamRec
<1>3. NoStream.announced = <<>>
  BY DEF NoStream
<1>4. Once(<<>>)
  BY <1>1 DEF Once
<1>5. QED
  BY <1>2, <1>3, <1>4

\* What Goto leaves alone.
LEMMA GotoMoves ==
  ASSUME UTypes, NEW p \in Post, NEW phase, Goto(p, phase),
         phase \in {"arrive", "open", "copy", "start", "accepted", "refused", "broken"}
  PROVE  /\ post' \in [Post -> PostRec]
         /\ post'[p].phase = phase
         /\ \A q \in Post \ {p} : post'[q] = post[q]
         /\ \A q \in Post : /\ post'[q].upload = post[q].upload
                            /\ post'[q].read = post[q].read
                            /\ post'[q].linked = post[q].linked
<1>1. post' = [post EXCEPT ![p] = [post[p] EXCEPT !.phase = phase]]
  BY DEF Goto
<1>2. post[p] \in PostRec /\ DOMAIN post = Post
  BY DEF UTypes
<1> DEFINE r == [post[p] EXCEPT !.phase = phase]
<1>3. r \in PostRec
  BY Zenon, <1>2 DEF PostRec
<1>4. r.phase = phase /\ r.upload = post[p].upload /\ r.read = post[p].read /\ r.linked = post[p].linked
  BY <1>2 DEF PostRec
<1>5. post' = [post EXCEPT ![p] = r]
  BY <1>1
<1> HIDE DEF r
<1>6. post' \in [Post -> PostRec]
  BY <1>3, <1>5 DEF UTypes
<1>7. post'[p] = r /\ \A q \in Post \ {p} : post'[q] = post[q]
  BY <1>2, <1>5
<1>8. QED
  BY <1>4, <1>6, <1>7

\* A phase of the run with the rest of the record kept.
LEMMA RunMoves ==
  ASSUME UTypes, NEW phase \in RunPhase, GotoNode(phase)
  PROVE  run' \in RunRec /\ run'.phase = phase /\ run'.name = run.name /\ run'.content = run.content
<1>1. run \in RunRec
  BY DEF UTypes
<1>2. run' = [run EXCEPT !.phase = phase]
  BY DEF GotoNode
<1>3. run' \in RunRec
  BY Zenon, <1>1, <1>2 DEF RunRec
<1>4. QED
  BY <1>1, <1>2, <1>3 DEF RunRec

LEMMA FailKeepsBound ==
  ASSUME UTypes, Fail
  PROVE  failures' \in 0..MaxFailures
BY UploadsAssumption DEF UTypes, Fail

LEMMA ArriveTypes ==
  ASSUME UTypes, NEW p \in Post, Arrive(p)
  PROVE  UTypes'
<1>1. disk' \in [Name -> FileRec]
  BY NoFileTyped DEF Arrive, UTypes
<1>2. Goto(p, IF run.phase = "none" THEN "open" ELSE "refused")
  BY DEF Arrive
<1>3. post' \in [Post -> PostRec]
  BY <1>2, GotoMoves
<1>4. aged' \subseteq Name /\ shared' \in BOOLEAN
  BY DEF Arrive, UTypes
<1>5. QED
  BY <1>1, <1>3, <1>4 DEF Arrive, UTypes

\* What Open does to its own record, and to its file.
LEMMA OpenMoves ==
  ASSUME UTypes, NEW p \in Post, Open(p)
  PROVE  /\ post' \in [Post -> PostRec]
         /\ post'[p].phase = "copy" /\ post'[p].linked
         /\ \A q \in Post \ {p} : post'[q] = post[q]
         /\ \A q \in Post : post'[q].upload = post[q].upload /\ post'[q].read = post[q].read
         /\ NameOf(p) \in Name
         /\ disk' = [disk EXCEPT ![NameOf(p)] = Created]
<1>1. post[p] \in PostRec /\ DOMAIN post = Post
  BY DEF UTypes
<1> DEFINE r == [post[p] EXCEPT !.phase = "copy", !.linked = TRUE]
<1>2. post' = [post EXCEPT ![p] = r]
  BY DEF Open
<1>3. r \in PostRec
  BY Zenon, <1>1 DEF PostRec
<1>4. r.phase = "copy" /\ r.linked /\ r.upload = post[p].upload /\ r.read = post[p].read
  BY <1>1 DEF PostRec
<1> HIDE DEF r
<1>5. post' \in [Post -> PostRec]
  BY <1>2, <1>3 DEF UTypes
<1>6. post'[p] = r /\ \A q \in Post \ {p} : post'[q] = post[q]
  BY <1>1, <1>2
<1>7. NameOf(p) \in Name
  BY <1>1, PostFields DEF NameOf
<1>8. QED
  BY <1>4, <1>5, <1>6, <1>7 DEF Open, Opened

LEMMA OpenTypes ==
  ASSUME UTypes, NEW p \in Post, Open(p)
  PROVE  UTypes'
<1>1. /\ post' \in [Post -> PostRec] /\ NameOf(p) \in Name
      /\ disk' = [disk EXCEPT ![NameOf(p)] = Created]
  BY OpenMoves
<1>2. disk' \in [Name -> FileRec]
  BY <1>1, NoFileTyped DEF UTypes
<1>3. aged' \subseteq Name
  BY DEF Open, UTypes
<1>4. QED
  BY <1>1, <1>2, <1>3 DEF Open, UTypes

\* A chunk lands in a sequence of chunks.
LEMMA LandedType ==
  ASSUME UTypes, NEW p \in Post, NEW c \in Chunks
  PROVE  Landed(c, p) \in Chunks
<1> DEFINE len == Len(c)
           read == post[p].read
           m == IF len > read THEN len ELSE read + 1
<1>1. len \in Nat /\ DOMAIN c = 1..len /\ \A n \in 1..len : c[n] \in Post \cup {NoPost}
  BY LenProperties, ElementOfSeq DEF Chunks
<1>2. read \in Nat
  <2>1. post[p] \in PostRec
    BY DEF UTypes
  <2>2. QED
    BY <2>1, PostFields, UploadsAssumption
<1>3. Landed(c, p) = [n \in 1..m |-> IF n = read + 1 THEN p ELSE IF n <= len THEN c[n] ELSE NoPost]
  BY DEF Landed
<1> HIDE DEF len, read
<1>4. m \in Nat
  BY <1>1, <1>2
<1> HIDE DEF m
<1>5. Landed(c, p) \in [1..m -> Post \cup {NoPost}]
  <2>1. ASSUME NEW n \in 1..m
        PROVE  (IF n = read + 1 THEN p ELSE IF n <= len THEN c[n] ELSE NoPost) \in Post \cup {NoPost}
    <3>1. n \in Nat /\ 1 <= n
      BY <1>4, <2>1
    <3>2. QED
      BY <1>1, <3>1
  <2>2. QED
    BY <1>3, <2>1
<1>6. QED
  BY <1>4, <1>5 DEF Chunks

\* What CopyChunk does: the chunk lands if the file is linked.
LEMMA CopyMoves ==
  ASSUME UTypes, NEW p \in Post, CopyChunk(p)
  PROVE  /\ post' \in [Post -> PostRec]
         /\ post'[p].phase = "copy" /\ post'[p].read = post[p].read + 1
         /\ post'[p].linked = post[p].linked
         /\ \A q \in Post \ {p} : post'[q] = post[q]
         /\ \A q \in Post : post'[q].upload = post[q].upload
         /\ NameOf(p) \in Name
         /\ disk' \in [Name -> FileRec]
         /\ \A n \in Name \ {NameOf(p)} : disk'[n] = disk[n]
         /\ disk'[NameOf(p)].there = disk[NameOf(p)].there
         /\ post[p].linked => disk'[NameOf(p)].chunks = Landed(disk[NameOf(p)].chunks, p)
<1> DEFINE r == [post[p] EXCEPT !.read = @ + 1]
           m == NameOf(p)
           f == [disk[m] EXCEPT !.chunks = Landed(@, p), !.old = FALSE]
<1>1. post[p] \in PostRec /\ DOMAIN post = Post /\ DOMAIN disk = Name
  BY DEF UTypes
<1>2. post' = [post EXCEPT ![p] = r]
  BY DEF CopyChunk
<1>3. post[p].read + 1 \in 0..Cap
  <2>1. /\ post[p].read \in 0..Cap /\ post[p].upload.size \in 0..(Cap + 1) /\ Cap \in Nat
        /\ post[p].read < post[p].upload.size
        /\ ~(post[p].read = Cap /\ post[p].upload.size > Cap)
    BY <1>1, PostFields, UploadsAssumption DEF CopyChunk, Refused, SizeOf
  <2>2. QED
    BY <2>1
<1>4. r \in PostRec
  BY Zenon, <1>1, <1>3 DEF PostRec
<1>5. /\ r.phase = post[p].phase /\ r.linked = post[p].linked
      /\ r.upload = post[p].upload /\ r.read = post[p].read + 1
  BY <1>1 DEF PostRec
<1> HIDE DEF r
<1>6. post' \in [Post -> PostRec]
  BY <1>2, <1>4 DEF UTypes
<1>7. post'[p] = r /\ \A q \in Post \ {p} : post'[q] = post[q]
  BY <1>1, <1>2
<1>8. m \in Name
  BY <1>1, PostFields DEF NameOf
<1>9. disk[m] \in FileRec
  BY <1>8 DEF UTypes
<1>10. Landed(disk[m].chunks, p) \in Chunks
  BY <1>9, FileFields, LandedType
<1>11. f \in FileRec
  BY Zenon, <1>9, <1>10 DEF FileRec
<1>12. f.there = disk[m].there /\ f.chunks = Landed(disk[m].chunks, p)
  BY <1>9 DEF FileRec
<1>13. disk' = IF post[p].linked THEN [disk EXCEPT ![m] = f] ELSE disk
  BY DEF CopyChunk
<1> HIDE DEF f, m
<1>14. /\ disk' \in [Name -> FileRec]
       /\ \A n \in Name \ {m} : disk'[n] = disk[n]
       /\ disk'[m].there = disk[m].there
       /\ post[p].linked => disk'[m].chunks = Landed(disk[m].chunks, p)
  BY <1>1, <1>8, <1>11, <1>12, <1>13 DEF UTypes
<1>15. post[p].phase = "copy"
  BY DEF CopyChunk
<1>16. QED
  BY <1>5, <1>6, <1>7, <1>8, <1>14, <1>15 DEF m

LEMMA CopyTypes ==
  ASSUME UTypes, NEW p \in Post, CopyChunk(p)
  PROVE  UTypes'
<1>1. post' \in [Post -> PostRec] /\ disk' \in [Name -> FileRec]
  BY CopyMoves
<1>2. QED
  BY <1>1 DEF CopyChunk, UTypes

\* What Refuse does: the file is gone, for every POST that has it open.
LEMMA RefuseMoves ==
  ASSUME UTypes, NEW p \in Post, Refuse(p)
  PROVE  /\ post' \in [Post -> PostRec]
         /\ post'[p].phase = "refused"
         /\ \A q \in Post \ {p} : post'[q].phase = post[q].phase
         /\ \A q \in Post : /\ post'[q].upload = post[q].upload
                            /\ post'[q].read = post[q].read
         /\ NameOf(p) \in Name
         /\ disk' = [disk EXCEPT ![NameOf(p)] = NoFile]
<1> DEFINE r(q) == [post[q] EXCEPT !.linked = @ /\ NameOf(q) # NameOf(p),
                                   !.phase = IF q = p THEN "refused" ELSE @]
<1>1. post' = [q \in Post |-> r(q)]
  BY DEF Refuse
<1>2. ASSUME NEW q \in Post
      PROVE  /\ r(q) \in PostRec /\ r(q).phase = IF q = p THEN "refused" ELSE post[q].phase
             /\ r(q).upload = post[q].upload /\ r(q).read = post[q].read
  <2>1. post[q] \in PostRec
    BY DEF UTypes
  <2>2. post[q].linked \in BOOLEAN /\ post[q].phase \in {"arrive", "open", "copy", "start", "accepted",
                                                         "refused", "broken"}
    BY <2>1, PostFields
  <2> DEFINE l == post[q].linked /\ NameOf(q) # NameOf(p)
             ph == IF q = p THEN "refused" ELSE post[q].phase
  <2>3. l \in BOOLEAN /\ ph \in {"arrive", "open", "copy", "start", "accepted", "refused", "broken"}
    BY <2>2
  <2>4. r(q) = [post[q] EXCEPT !.linked = l, !.phase = ph]
    BY <2>1 DEF PostRec
  <2> HIDE DEF l, ph, r
  <2>5. r(q) \in PostRec
    BY Zenon, <2>1, <2>3, <2>4 DEF PostRec
  <2>6. r(q).phase = ph /\ r(q).upload = post[q].upload /\ r(q).read = post[q].read
    BY <2>1, <2>4 DEF PostRec
  <2>7. QED
    BY <2>5, <2>6 DEF ph
<1> HIDE DEF r
<1>3. post' \in [Post -> PostRec] /\ \A q \in Post : post'[q] = r(q)
  BY <1>1, <1>2
<1>4. post[p] \in PostRec
  BY DEF UTypes
<1>5. NameOf(p) \in Name
  BY <1>4, PostFields DEF NameOf
<1>6. disk' = [disk EXCEPT ![NameOf(p)] = NoFile]
  BY DEF Refuse, Unlinked
<1>7. QED
  BY <1>2, <1>3, <1>5, <1>6

LEMMA RefuseTypes ==
  ASSUME UTypes, NEW p \in Post, Refuse(p)
  PROVE  UTypes'
<1>1. /\ post' \in [Post -> PostRec] /\ NameOf(p) \in Name
      /\ disk' = [disk EXCEPT ![NameOf(p)] = NoFile]
  BY RefuseMoves
<1>2. disk' \in [Name -> FileRec]
  BY <1>1, NoFileTyped DEF UTypes
<1>3. QED
  BY <1>1, <1>2 DEF Refuse, UTypes

LEMMA StartTypes ==
  ASSUME UTypes, NEW p \in Post, StartRun(p)
  PROVE  UTypes'
<1>1. CASE Executing
  <2>1. Goto(p, "refused") /\ UNCHANGED <<run, stream>>
    BY <1>1 DEF StartRun
  <2>2. post' \in [Post -> PostRec]
    BY <2>1, GotoMoves
  <2>3. QED
    BY <2>1, <2>2 DEF StartRun, UTypes
<1>2. CASE ~Executing
  <2>1. /\ Goto(p, "accepted") /\ stream' = NoStream
        /\ run' = [phase |-> "router", name |-> NameOf(p), content |-> Unread]
    BY <1>2 DEF StartRun
  <2>2. post' \in [Post -> PostRec]
    BY <2>1, GotoMoves
  <2>3. post[p] \in PostRec
    BY DEF UTypes
  <2>4. NameOf(p) \in Name
    BY <2>3, PostFields DEF NameOf
  <2>5. run' \in RunRec
    BY <2>1, <2>4, NoFileTyped DEF RunRec, RunPhase
  <2>6. QED
    BY <2>1, <2>2, <2>5, NoStreamTyped DEF StartRun, UTypes
<1>3. QED
  BY <1>1, <1>2

LEMMA PostTypes ==
  ASSUME UTypes, NEW p \in Post, PostStep(p)
  PROVE  UTypes'
<1>1. CASE BreakOff(p)
  <2>1. Goto(p, "broken") /\ Fail
    BY <1>1 DEF BreakOff
  <2>2. post' \in [Post -> PostRec]
    BY <2>1, GotoMoves
  <2>3. QED
    BY <1>1, <2>1, <2>2, FailKeepsBound DEF BreakOff, UTypes
<1>2. CASE Saved(p)
  <2>1. Goto(p, "start")
    BY <1>2 DEF Saved
  <2>2. post' \in [Post -> PostRec]
    BY <2>1, GotoMoves
  <2>3. QED
    BY <1>2, <2>2 DEF Saved, UTypes
<1>3. QED
  BY <1>1, <1>2, ArriveTypes, OpenTypes, CopyTypes, RefuseTypes, StartTypes DEF PostStep

-----------------------------------------------------------------------------
(* The run's steps *)

\* Every field is announced once the extractor has returned.
StreamInv ==
  /\ Once(stream.announced)
  /\ run.phase \in {"validator", "review", "output", "completed", "failed at output"} =>
       Names(stream.announced) = Field

LEMMA StreamFields ==
  ASSUME UTypes
  PROVE  /\ stream.order \in Orders \cup {<<>>} /\ stream.begun \in Nat
         /\ stream.announced \in Seq(Announcement)
BY DEF UTypes, StreamRec

LEMMA FailedPhase ==
  /\ FailedAt("router") = "failed at router" /\ FailedAt("router") \in RunPhase
  /\ FailedAt("extractor") = "failed at extractor" /\ FailedAt("extractor") \in RunPhase
  /\ FailedAt("output") = "failed at output" /\ FailedAt("output") \in RunPhase
BY DEF FailedAt, RunPhase

LEMMA CallMoves ==
  ASSUME UTypes, CallModel
  PROVE  /\ run' \in RunRec /\ run'.phase = "extractor" /\ run'.name = run.name
         /\ run'.content = File.chunks
         /\ stream' \in StreamRec /\ Once(stream'.announced)
<1>1. run \in RunRec /\ run.phase = "extractor"
  BY DEF UTypes, CallModel
<1>2. File \in FileRec
  BY <1>1, RunFields DEF File, UTypes
<1> DEFINE c == File.chunks
<1>3. c \in Chunks
  BY <1>2, FileFields
<1>4. run' = [run EXCEPT !.content = c]
  BY DEF CallModel
<1> HIDE DEF c
<1>5. run' \in RunRec
  BY Zenon, <1>1, <1>3, <1>4 DEF RunRec
<1>6. run'.phase = "extractor" /\ run'.name = run.name /\ run'.content = c
  BY <1>1, <1>4 DEF RunRec
<1>7. PICK o \in Orders : stream' = [order |-> o, begun |-> 0, announced |-> <<>>]
  BY DEF CallModel
<1>8. stream' \in StreamRec
  BY <1>7 DEF StreamRec
<1>9. stream'.announced = <<>> /\ NoStream.announced = <<>>
  BY <1>7 DEF NoStream
<1>10. Once(stream'.announced)
  BY <1>9, NoStreamTyped
<1>11. QED
  BY <1>5, <1>6, <1>8, <1>10 DEF c

LEMMA DeltaMoves ==
  ASSUME UTypes, StreamInv, Delta
  PROVE  /\ stream' \in StreamRec /\ Once(stream'.announced)
         /\ stream'.order = stream.order
<1>1. /\ stream.order \in Orders \cup {<<>>} /\ stream.begun \in Nat
      /\ stream.announced \in Seq(Announcement) /\ stream \in StreamRec
  BY StreamFields DEF UTypes
<1>2. PICK begun \in (stream.begun + 1)..Len(stream.order) :
        stream' = [stream EXCEPT
          !.begun = begun,
          !.announced = IF Len(@) >= Cardinality(Field) - 1 THEN @
                        ELSE @ \o Announcements(stream.order, begun)]
  BY DEF Delta
<1>3. Len(stream.order) \in Nat
  <2>1. CASE stream.order = <<>>
    BY <2>1
  <2>2. CASE stream.order \in Orders
    BY <2>2, UploadsAssumption, LenProperties
  <2>3. QED
    BY <1>1, <2>1, <2>2
<1>4. begun \in Nat /\ begun \in 1..Len(stream.order)
  BY <1>1, <1>2, <1>3
<1>5. stream.order \in Orders
  <2>1. ASSUME stream.order = <<>> PROVE FALSE
    BY <1>4, <2>1
  <2>2. QED
    BY <1>1, <2>1
<1> DEFINE more == Announcements(stream.order, begun)
           a == IF Len(stream.announced) >= Cardinality(Field) - 1 THEN stream.announced
                ELSE stream.announced \o more
<1>6. Once(more) /\ Names(more) \cap Names(stream.announced) = {}
  BY <1>4, <1>5, DeltaAnnounces
<1>7. stream' = [stream EXCEPT !.begun = begun, !.announced = a]
  BY <1>1, <1>2 DEF StreamRec
<1> HIDE DEF more
<1>8. Once(a)
  <2>1. Once(stream.announced)
    BY DEF StreamInv
  <2>2. Once(stream.announced \o more)
    BY <1>6, <2>1, OnceMore
  <2>3. QED
    BY <2>1, <2>2
<1> HIDE DEF a
<1>9. a \in Seq(Announcement)
  BY <1>8 DEF Once
<1>10. stream' \in StreamRec
  BY Zenon, <1>1, <1>4, <1>7, <1>9 DEF StreamRec
<1>11. stream'.announced = a /\ stream'.order = stream.order
  BY <1>1, <1>7 DEF StreamRec
<1>12. QED
  BY <1>8, <1>10, <1>11

LEMMA ExtractedMoves ==
  ASSUME UTypes, StreamInv, Extracted
  PROVE  /\ stream' \in StreamRec /\ Once(stream'.announced) /\ Names(stream'.announced) = Field
         /\ stream'.order = stream.order
<1> DEFINE F == Field \ Names(stream.announced)
           rest == LET left == SetToSeq(F)
                   IN  [n \in DOMAIN left |-> [name |-> left[n], whole |-> TRUE]]
           a == stream.announced \o rest
<1>1. stream' = [stream EXCEPT !.announced = a] /\ stream \in StreamRec
  BY DEF Extracted, UTypes
<1>2. Once(rest) /\ Names(rest) = F
  <2>1. F \subseteq Field
    OBVIOUS
  <2> HIDE DEF F
  <2>2. QED
    BY <2>1, RestAnnounces
<1>3. Once(stream.announced)
  BY DEF StreamInv
<1>4. Names(stream.announced) \subseteq Field
  BY <1>3, NamesAre DEF Once
<1>5. Names(rest) \cap Names(stream.announced) = {}
  BY <1>2
<1> HIDE DEF rest, F
<1>6. Once(a) /\ Names(a) = Names(stream.announced) \cup Names(rest)
  BY <1>2, <1>3, <1>5, OnceMore
<1>7. Names(a) = Field
  BY <1>2, <1>4, <1>6 DEF F
<1> HIDE DEF a
<1>8. a \in Seq(Announcement)
  BY <1>6 DEF Once
<1>9. stream' \in StreamRec
  BY Zenon, <1>1, <1>8 DEF StreamRec
<1>10. stream'.announced = a /\ stream'.order = stream.order
  BY <1>1 DEF StreamRec
<1>11. QED
  BY <1>6, <1>7, <1>9, <1>10

\* What a step of the run can touch: run, stream and bucket, under the types.
LEMMA RunTypes ==
  ASSUME UTypes, StreamInv, RunStep
  PROVE  UTypes' /\ UNCHANGED <<disk, post, shared, aged>>
<1>1. CASE Route
  <2>1. GotoNode("extractor") /\ "extractor" \in RunPhase
    BY <1>1 DEF Route, RunPhase
  <2>2. run' \in RunRec
    BY <2>1, RunMoves
  <2>3. QED
    BY <1>1, <2>2, NoStreamTyped DEF Route, UTypes
<1>2. CASE CallModel
  BY <1>2, CallMoves DEF CallModel, UTypes
<1>3. CASE Delta
  BY <1>3, DeltaMoves DEF Delta, UTypes
<1>4. CASE Extracted
  <2>1. GotoNode("validator") /\ "validator" \in RunPhase
    BY <1>4 DEF Extracted, RunPhase
  <2>2. run' \in RunRec
    BY <2>1, RunMoves
  <2>3. QED
    BY <1>4, <2>2, ExtractedMoves DEF Extracted, UTypes
<1>5. CASE Validate
  <2>1. \E phase \in {"review", "output"} : GotoNode(phase)
    BY <1>5 DEF Validate
  <2>2. run' \in RunRec
    BY <2>1, RunMoves DEF RunPhase
  <2>3. QED
    BY <1>5, <2>2 DEF Validate, UTypes
<1>6. CASE Output
  <2>1. GotoNode("completed") /\ "completed" \in RunPhase
    BY <1>6 DEF Output, RunPhase
  <2>2. run' \in RunRec
    BY <2>1, RunMoves
  <2>3. File \in FileRec
    BY RunFields DEF File, UTypes
  <2>4. bucket' \in Chunks
    BY <1>6, <2>3, FileFields DEF Output
  <2>5. QED
    BY <1>6, <2>2, <2>4 DEF Output, UTypes
<1>7. CASE Approve
  <2>1. GotoNode("output") /\ "output" \in RunPhase
    BY <1>7 DEF Approve, RunPhase
  <2>2. run' \in RunRec
    BY <2>1, RunMoves
  <2>3. QED
    BY <1>7, <2>2 DEF Approve, UTypes
<1>8. ASSUME NEW node \in {"router", "extractor", "output"}, NodeFails(node)
      PROVE  UTypes' /\ UNCHANGED <<disk, post, shared, aged>>
  <2>1. GotoNode(FailedAt(node)) /\ FailedAt(node) \in RunPhase
    BY <1>8, FailedPhase DEF NodeFails
  <2>2. run' \in RunRec
    BY <2>1, RunMoves
  <2>3. failures' \in 0..MaxFailures
    <3>1. Fail \/ UNCHANGED failures
      BY <1>8 DEF NodeFails
    <3>2. QED
      BY <3>1, FailKeepsBound DEF UTypes
  <2>4. QED
    BY <1>8, <2>2, <2>3 DEF NodeFails, UTypes
<1>9. ASSUME NEW node \in {"router", "extractor", "output"}, Retry(node)
      PROVE  UTypes' /\ UNCHANGED <<disk, post, shared, aged>>
  <2>1. GotoNode(node) /\ node \in RunPhase
    BY <1>9 DEF Retry, RunPhase
  <2>2. run' \in RunRec
    BY <2>1, RunMoves
  <2>3. stream' \in StreamRec
    BY <1>9, NoStreamTyped DEF Retry, UTypes
  <2>4. QED
    BY <1>9, <2>2, <2>3 DEF Retry, UTypes
<1>10. QED
  BY <1>1, <1>2, <1>3, <1>4, <1>5, <1>6, <1>7, <1>8, <1>9 DEF RunStep

\* The phases between the extractor and the end need no new announcement.
LEMMA RunStreams ==
  ASSUME UTypes, StreamInv, RunStep
  PROVE  StreamInv'
<1> DEFINE Late == {"validator", "review", "output", "completed", "failed at output"}
<1>1. CASE Route
  <2>1. GotoNode("extractor") /\ "extractor" \in RunPhase /\ stream' = NoStream
    BY <1>1 DEF Route, RunPhase
  <2>2. run'.phase = "extractor"
    BY <2>1, RunMoves
  <2>3. QED
    BY <2>1, <2>2, NoStreamTyped DEF StreamInv
<1>2. CASE CallModel
  BY <1>2, CallMoves DEF StreamInv
<1>3. CASE Delta
  <2>1. run' = run /\ run.phase = "extractor"
    BY <1>3 DEF Delta
  <2>2. QED
    BY <1>3, <2>1, DeltaMoves DEF StreamInv
<1>4. CASE Extracted
  BY <1>4, ExtractedMoves DEF StreamInv
<1>5. ASSUME UNCHANGED stream, run'.phase \in Late => run.phase \in Late
      PROVE  StreamInv'
  BY <1>5 DEF StreamInv
<1>6. CASE Validate
  <2>1. UNCHANGED stream /\ run.phase \in Late
    BY <1>6 DEF Validate
  <2>2. QED
    BY <1>5, <2>1
<1>7. CASE Output
  <2>1. UNCHANGED stream /\ run.phase \in Late
    BY <1>7 DEF Output
  <2>2. QED
    BY <1>5, <2>1
<1>8. CASE Approve
  <2>1. UNCHANGED stream /\ run.phase \in Late
    BY <1>8 DEF Approve
  <2>2. QED
    BY <1>5, <2>1
<1>9. ASSUME NEW node \in {"router", "extractor", "output"}, NodeFails(node)
      PROVE  StreamInv'
  <2>1. GotoNode(FailedAt(node)) /\ FailedAt(node) \in RunPhase /\ run.phase = node /\ UNCHANGED stream
    BY <1>9, FailedPhase DEF NodeFails
  <2>2. run'.phase = FailedAt(node)
    BY <2>1, RunMoves
  <2>3. run'.phase \in Late => run.phase \in Late
    BY <2>1, <2>2, FailedPhase
  <2>4. QED
    BY <1>5, <2>1, <2>3
<1>10. ASSUME NEW node \in {"router", "extractor", "output"}, Retry(node)
       PROVE  StreamInv'
  <2>1. GotoNode(node) /\ node \in RunPhase /\ run.phase = FailedAt(node)
    BY <1>10 DEF Retry, RunPhase
  <2>2. run'.phase = node
    BY <2>1, RunMoves
  <2>3. CASE node = "output"
    <3>1. UNCHANGED stream /\ run.phase \in Late
      BY <1>10, <2>1, <2>3, FailedPhase DEF Retry
    <3>2. QED
      BY <1>5, <3>1
  <2>4. CASE node = "extractor"
    <3>1. stream' = NoStream
      BY <1>10, <2>4 DEF Retry
    <3>2. QED
      BY <2>2, <2>4, <3>1, NoStreamTyped DEF StreamInv
  <2>5. CASE node = "router"
    <3>1. UNCHANGED stream
      BY <1>10, <2>5 DEF Retry
    <3>2. QED
      BY <1>5, <2>2, <2>5, <3>1
  <2>6. QED
    BY <1>10, <2>3, <2>4, <2>5
<1>11. QED
  BY <1>1, <1>2, <1>3, <1>4, <1>6, <1>7, <1>8, <1>9, <1>10 DEF RunStep

-----------------------------------------------------------------------------
(* The file of the run *)

\* A POST has read nothing before it opened its file, and all of it when it starts
\* the run.
ReadInv ==
  \A p \in Post :
    /\ post[p].phase \in {"arrive", "open"} => post[p].read = 0
    /\ post[p].phase = "start" => post[p].read = SizeOf(p)

\* One POST saves at a time, and only before the run has started.
Alone ==
  /\ \A p, q \in Post : Saving(p) /\ Saving(q) => p = q
  /\ \A p \in Post : Saving(p) => run.phase = "none"

\* What p has read so far.
Part(p) == [n \in 1..post[p].read |-> p]

\* It lies in p's file.
Copied ==
  \A p \in Post : post[p].phase \in {"copy", "start"} =>
    post[p].linked /\ disk[NameOf(p)].there /\ disk[NameOf(p)].chunks = Part(p)

\* Every file was accepted, is being written, or broke off.
Kept ==
  \A n \in Name : disk[n].there =>
    \E p \in Post : NameOf(p) = n /\ post[p].phase \in {"copy", "start", "accepted", "broken"}

\* The extractor has read the file.
Read ==
  \/ run.phase \in {"validator", "review", "output", "completed", "failed at output"}
  \/ run.phase = "extractor" /\ stream.order # <<>>

\* The run works on p's document.
StartedFrom(p) ==
  /\ NameOf(p) = run.name
  /\ File.there \/ run.name \in aged
  /\ File.there => File.chunks = Whole(p)
  /\ Read => run.content = Whole(p)
  /\ run.phase = "completed" => bucket = Whole(p)

Origin == run.phase # "none" => \E p \in Post : StartedFrom(p)

DiskInv == ~shared => Alone /\ Copied /\ Kept /\ Origin

IInv == UTypes /\ ReadInv /\ StreamInv /\ DiskInv

-----------------------------------------------------------------------------
(* A POST's step *)

LEMMA SizesAre ==
  ASSUME UTypes, NEW p \in Post
  PROVE  NameOf(p) \in Name /\ SizeOf(p) \in Nat /\ post[p].read \in Nat /\ post[p] \in PostRec
<1>1. post[p] \in PostRec
  BY DEF UTypes
<1>2. QED
  BY <1>1, PostFields, UploadsAssumption DEF NameOf, SizeOf

\* The document of a POST never changes.
LEMMA SameDocuments ==
  ASSUME \A q \in Post : post'[q].upload = post[q].upload
  PROVE  \A q \in Post : NameOf(q)' = NameOf(q) /\ SizeOf(q)' = SizeOf(q) /\ Whole(q)' = Whole(q)
BY DEF NameOf, SizeOf, Whole

\* A step after which the run is what it was, works on as before.
LEMMA OriginStays ==
  ASSUME Origin, \A q \in Post : post'[q].upload = post[q].upload,
         UNCHANGED <<run, stream, bucket>>,
         run.phase # "none" =>
           /\ \/ disk'[run.name] = disk[run.name]
              \/ disk'[run.name].there = FALSE /\ run.name \in aged'
           /\ run.name \in aged => run.name \in aged'
  PROVE  Origin'
<1>1. SUFFICES ASSUME run.phase # "none" PROVE \E p \in Post : StartedFrom(p)'
  BY DEF Origin
<1>2. PICK p \in Post : StartedFrom(p)
  BY <1>1 DEF Origin
<1>3. NameOf(p)' = NameOf(p) /\ Whole(p)' = Whole(p)
  BY SameDocuments
<1>4. Read' <=> Read
  BY DEF Read
<1>5. File' = disk'[run.name] /\ File = disk[run.name]
  BY DEF File
<1>6. StartedFrom(p)'
  <2>1. NameOf(p)' = run'.name
    BY <1>2, <1>3 DEF StartedFrom
  <2>2. (File.there \/ run.name \in aged)'
    BY <1>1, <1>2, <1>5 DEF StartedFrom
  <2>3. (File.there => File.chunks = Whole(p))'
    BY <1>1, <1>2, <1>3, <1>5 DEF StartedFrom
  <2>4. (Read => run.content = Whole(p))'
    BY <1>2, <1>3, <1>4 DEF StartedFrom
  <2>5. (run.phase = "completed" => bucket = Whole(p))'
    BY <1>2, <1>3 DEF StartedFrom
  <2>6. QED
    BY <2>1, <2>2, <2>3, <2>4, <2>5 DEF StartedFrom
<1>7. QED
  BY <1>6

LEMMA ArriveKeeps ==
  ASSUME UTypes, ReadInv, DiskInv, NEW p \in Post, Arrive(p)
  PROVE  ReadInv' /\ DiskInv'
<1> DEFINE to == IF run.phase = "none" THEN "open" ELSE "refused"
<1>1. Goto(p, to) /\ to \in {"open", "refused"}
  BY DEF Arrive
<1> HIDE DEF to
<1>2. /\ post'[p].phase = to
      /\ \A q \in Post \ {p} : post'[q] = post[q]
      /\ \A q \in Post : /\ post'[q].upload = post[q].upload
                         /\ post'[q].read = post[q].read /\ post'[q].linked = post[q].linked
  BY <1>1, GotoMoves
<1>3. \A q \in Post : NameOf(q)' = NameOf(q) /\ SizeOf(q)' = SizeOf(q)
  BY <1>2, SameDocuments
<1>4. ReadInv'
  <2>1. ASSUME NEW q \in Post
        PROVE  /\ post'[q].phase \in {"arrive", "open"} => post'[q].read = 0
               /\ post'[q].phase = "start" => post'[q].read = SizeOf(q)'
    <3>1. CASE q = p
      BY <1>1, <1>2, <3>1 DEF ReadInv, Arrive
    <3>2. CASE q # p
      BY <1>2, <1>3, <3>2 DEF ReadInv
    <3>3. QED
      BY <3>1, <3>2
  <2>2. QED
    BY <2>1 DEF ReadInv
<1>5. ASSUME ~shared'
      PROVE  Alone' /\ Copied' /\ Kept' /\ Origin'
  <2>1. ~shared /\ (run.phase = "none" => \A q \in Post \ {p} : ~Saving(q))
    BY <1>5 DEF Arrive, UTypes
  <2>2. Alone /\ Copied /\ Kept /\ Origin
    BY <2>1 DEF DiskInv
  <2>3. \A q \in Post \ {p} : (Saving(q)' <=> Saving(q)) /\ ~Saving(q)
    <3>1. \A q \in Post \ {p} : Saving(q)' <=> Saving(q)
      BY <1>2 DEF Saving
    <3>2. \A q \in Post \ {p} : ~Saving(q)
      BY <2>1, <2>2 DEF Alone
    <3>3. QED
      BY <3>1, <3>2
  <2>4. Saving(p)' => run.phase = "none"
    BY <1>1, <1>2 DEF Saving, to
  <2>5. Alone'
    <3>1. run' = run
      BY DEF Arrive
    <3>2. QED
      BY <2>3, <2>4, <3>1 DEF Alone
  <2>6. Copied'
    <3>1. \A q \in Post : post'[q].phase \notin {"copy", "start"}
      BY <1>1, <1>2, <2>3 DEF Saving
    <3>2. QED
      BY <3>1 DEF Copied
  <2>7. ASSUME NEW n \in Name, disk'[n].there
        PROVE  disk'[n] = disk[n]
    BY <2>7 DEF Arrive, NoFile
  <2>8. Kept'
    <3>1. SUFFICES ASSUME NEW n \in Name, disk'[n].there
                   PROVE  \E q \in Post : /\ NameOf(q)' = n
                                          /\ post'[q].phase \in {"copy", "start", "accepted", "broken"}
      BY DEF Kept
    <3>2. PICK q \in Post : NameOf(q) = n /\ post[q].phase \in {"copy", "start", "accepted", "broken"}
      BY <2>2, <2>7, <3>1 DEF Kept
    <3>3. q # p
      BY <3>2 DEF Arrive
    <3>4. QED
      BY <1>2, <1>3, <3>2, <3>3
  <2>9. Origin'
    <3>1. run.name \in Name
      BY RunFields DEF UTypes
    <3>2. \/ disk'[run.name] = disk[run.name]
          \/ disk'[run.name].there = FALSE /\ run.name \in aged'
      <4>1. CASE run.name \in Swept
        BY <3>1, <4>1 DEF Arrive, NoFile, Swept
      <4>2. CASE run.name \notin Swept
        <5>1. disk' = [n \in Name |-> IF n \in Swept THEN NoFile ELSE disk[n]]
          BY DEF Arrive
        <5> DEFINE S == Swept
        <5>2. disk' = [n \in Name |-> IF n \in S THEN NoFile ELSE disk[n]] /\ run.name \notin S
          BY <4>2, <5>1
        <5> HIDE DEF S
        <5>3. disk'[run.name] = disk[run.name]
          BY <3>1, <5>2
        <5>4. QED
          BY <5>3
      <4>3. QED
        BY <4>1, <4>2
    <3>3. QED
      BY <1>2, <2>2, <3>2, OriginStays DEF Arrive
  <2>10. QED
    BY <2>5, <2>6, <2>8, <2>9
<1>6. QED
  BY <1>4, <1>5 DEF DiskInv

LEMMA OpenKeeps ==
  ASSUME UTypes, ReadInv, DiskInv, NEW p \in Post, Open(p)
  PROVE  ReadInv' /\ DiskInv'
<1>1. /\ post'[p].phase = "copy" /\ post'[p].linked
      /\ \A q \in Post \ {p} : post'[q] = post[q]
      /\ \A q \in Post : post'[q].upload = post[q].upload /\ post'[q].read = post[q].read
      /\ NameOf(p) \in Name
      /\ disk' = [disk EXCEPT ![NameOf(p)] = Created]
  BY OpenMoves
<1>2. \A q \in Post : NameOf(q)' = NameOf(q) /\ SizeOf(q)' = SizeOf(q)
  BY <1>1, SameDocuments
<1>3. post[p].phase = "open" /\ post[p].read = 0
  BY DEF Open, ReadInv
<1>4. ReadInv'
  <2>1. ASSUME NEW q \in Post
        PROVE  /\ post'[q].phase \in {"arrive", "open"} => post'[q].read = 0
               /\ post'[q].phase = "start" => post'[q].read = SizeOf(q)'
    <3>1. CASE q = p
      BY <1>1, <3>1
    <3>2. CASE q # p
      BY <1>1, <1>2, <3>2 DEF ReadInv
    <3>3. QED
      BY <3>1, <3>2
  <2>2. QED
    BY <2>1 DEF ReadInv
<1>5. ASSUME ~shared'
      PROVE  Alone' /\ Copied' /\ Kept' /\ Origin'
  <2>1. ~shared
    BY <1>5 DEF Open
  <2>2. Alone /\ Copied /\ Kept /\ Origin
    BY <2>1 DEF DiskInv
  <2>3. Saving(p) /\ run.phase = "none" /\ \A q \in Post \ {p} : ~Saving(q)
    BY <1>3, <2>2 DEF Saving, Alone
  <2>4. \A q \in Post \ {p} : ~Saving(q)'
    BY <1>1, <2>3 DEF Saving
  <2>5. run' = run
    BY DEF Open
  <2>6. Alone'
    BY <2>3, <2>4, <2>5 DEF Alone
  <2>7. Copied'
    <3>1. \A q \in Post \ {p} : post'[q].phase \notin {"copy", "start"}
      BY <2>4 DEF Saving
    <3>2. disk'[NameOf(p)].there /\ disk'[NameOf(p)].chunks = <<>>
      BY <1>1 DEF Created, UTypes
    <3>3. Part(p)' = <<>>
      <4>1. post'[p].read = 0
        BY <1>1, <1>3
      <4>2. Part(p)' = [n \in 1..0 |-> p]
        BY <4>1 DEF Part
      <4>3. QED
        BY <4>2
    <3>4. disk'[NameOf(p)'].there /\ disk'[NameOf(p)'].chunks = Part(p)'
      BY <1>2, <3>2, <3>3
    <3>5. QED
      BY <1>1, <3>1, <3>4 DEF Copied
  <2>8. Kept'
    <3>1. SUFFICES ASSUME NEW n \in Name, disk'[n].there
                   PROVE  \E q \in Post : /\ NameOf(q)' = n
                                          /\ post'[q].phase \in {"copy", "start", "accepted", "broken"}
      BY DEF Kept
    <3>2. CASE n = NameOf(p)
      BY <1>1, <1>2, <3>2
    <3>3. CASE n # NameOf(p)
      <4>1. disk'[n] = disk[n]
        BY <1>1, <3>3 DEF UTypes
      <4>2. PICK q \in Post : NameOf(q) = n /\ post[q].phase \in {"copy", "start", "accepted", "broken"}
        BY <2>2, <3>1, <4>1 DEF Kept
      <4>3. q # p
        BY <3>3, <4>2
      <4>4. QED
        BY <1>1, <1>2, <4>2, <4>3
    <3>4. QED
      BY <3>2, <3>3
  <2>9. Origin'
    BY <2>3, <2>5 DEF Origin
  <2>10. QED
    BY <2>6, <2>7, <2>8, <2>9
<1>6. QED
  BY <1>4, <1>5 DEF DiskInv

\* One more chunk at the end of what p has read.
LEMMA LandsAtTheEnd ==
  ASSUME UTypes, NEW p \in Post
  PROVE  Landed(Part(p), p) = [n \in 1..(post[p].read + 1) |-> p]
<1> DEFINE read == post[p].read
           c == [n \in 1..read |-> p]
<1>1. read \in Nat
  BY SizesAre
<1>2. c = Part(p)
  BY DEF Part
<1> HIDE DEF read
<1>3. Len(c) = read /\ \A n \in 1..read : c[n] = p
  BY <1>1
<1> HIDE DEF c
<1>4. Landed(c, p) = [n \in 1..(IF Len(c) > read THEN Len(c) ELSE read + 1) |->
                        IF n = read + 1 THEN p ELSE IF n <= Len(c) THEN c[n] ELSE NoPost]
  BY DEF Landed, read
<1>5. (IF Len(c) > read THEN Len(c) ELSE read + 1) = read + 1
  BY <1>1, <1>3
<1>6. \A n \in 1..(read + 1) :
        (IF n = read + 1 THEN p ELSE IF n <= Len(c) THEN c[n] ELSE NoPost) = p
  BY <1>1, <1>3
<1>7. Landed(c, p) = [n \in 1..(read + 1) |-> p]
  BY <1>4, <1>5, <1>6
<1>8. QED
  BY <1>2, <1>7 DEF read

LEMMA CopyKeeps ==
  ASSUME UTypes, ReadInv, DiskInv, NEW p \in Post, CopyChunk(p)
  PROVE  ReadInv' /\ DiskInv'
<1>1. /\ post'[p].phase = "copy" /\ post'[p].read = post[p].read + 1
      /\ post'[p].linked = post[p].linked
      /\ \A q \in Post \ {p} : post'[q] = post[q]
      /\ \A q \in Post : post'[q].upload = post[q].upload
      /\ NameOf(p) \in Name
      /\ \A n \in Name \ {NameOf(p)} : disk'[n] = disk[n]
      /\ disk'[NameOf(p)].there = disk[NameOf(p)].there
      /\ post[p].linked => disk'[NameOf(p)].chunks = Landed(disk[NameOf(p)].chunks, p)
  BY CopyMoves
<1>2. \A q \in Post : NameOf(q)' = NameOf(q) /\ SizeOf(q)' = SizeOf(q)
  BY <1>1, SameDocuments
<1>3. post[p].phase = "copy"
  BY DEF CopyChunk
<1>4. ReadInv'
  <2>1. ASSUME NEW q \in Post
        PROVE  /\ post'[q].phase \in {"arrive", "open"} => post'[q].read = 0
               /\ post'[q].phase = "start" => post'[q].read = SizeOf(q)'
    <3>1. CASE q = p
      BY <1>1, <3>1
    <3>2. CASE q # p
      BY <1>1, <1>2, <3>2 DEF ReadInv
    <3>3. QED
      BY <3>1, <3>2
  <2>2. QED
    BY <2>1 DEF ReadInv
<1>5. ASSUME ~shared'
      PROVE  Alone' /\ Copied' /\ Kept' /\ Origin'
  <2>1. ~shared
    BY <1>5 DEF CopyChunk
  <2>2. Alone /\ Copied /\ Kept /\ Origin
    BY <2>1 DEF DiskInv
  <2>3. Saving(p) /\ run.phase = "none" /\ \A q \in Post \ {p} : ~Saving(q)
    BY <1>3, <2>2 DEF Saving, Alone
  <2>4. \A q \in Post \ {p} : ~Saving(q)'
    BY <1>1, <2>3 DEF Saving
  <2>5. run' = run
    BY DEF CopyChunk
  <2>6. Alone'
    BY <2>3, <2>4, <2>5 DEF Alone
  <2>7. Copied'
    <3>1. \A q \in Post \ {p} : post'[q].phase \notin {"copy", "start"}
      BY <2>4 DEF Saving
    <3>2. post[p].linked /\ disk[NameOf(p)].there /\ disk[NameOf(p)].chunks = Part(p)
      BY <1>3, <2>2 DEF Copied
    <3>3. Part(p)' = [n \in 1..(post[p].read + 1) |-> p]
      BY <1>1 DEF Part
    <3>4. disk'[NameOf(p)].chunks = Part(p)'
      BY <1>1, <3>2, <3>3, LandsAtTheEnd
    <3>5. disk'[NameOf(p)'].there /\ disk'[NameOf(p)'].chunks = Part(p)' /\ post'[p].linked
      BY <1>1, <1>2, <3>2, <3>4
    <3>6. QED
      BY <3>1, <3>5 DEF Copied
  <2>8. Kept'
    <3>1. SUFFICES ASSUME NEW n \in Name, disk'[n].there
                   PROVE  \E q \in Post : /\ NameOf(q)' = n
                                          /\ post'[q].phase \in {"copy", "start", "accepted", "broken"}
      BY DEF Kept
    <3>2. CASE n = NameOf(p)
      BY <1>1, <1>2, <3>2
    <3>3. CASE n # NameOf(p)
      <4>1. disk'[n] = disk[n]
        BY <1>1, <3>3
      <4>2. PICK q \in Post : NameOf(q) = n /\ post[q].phase \in {"copy", "start", "accepted", "broken"}
        BY <2>2, <3>1, <4>1 DEF Kept
      <4>3. q # p
        BY <3>3, <4>2
      <4>4. QED
        BY <1>1, <1>2, <4>2, <4>3
    <3>4. QED
      BY <3>2, <3>3
  <2>9. Origin'
    BY <2>3, <2>5 DEF Origin
  <2>10. QED
    BY <2>6, <2>7, <2>8, <2>9
<1>6. QED
  BY <1>4, <1>5 DEF DiskInv

LEMMA RefuseKeeps ==
  ASSUME UTypes, ReadInv, DiskInv, NEW p \in Post, Refuse(p)
  PROVE  ReadInv' /\ DiskInv'
<1>1. /\ post'[p].phase = "refused"
      /\ \A q \in Post \ {p} : post'[q].phase = post[q].phase
      /\ \A q \in Post : post'[q].upload = post[q].upload /\ post'[q].read = post[q].read
      /\ NameOf(p) \in Name
      /\ disk' = [disk EXCEPT ![NameOf(p)] = NoFile]
  BY RefuseMoves
<1>2. \A q \in Post : NameOf(q)' = NameOf(q) /\ SizeOf(q)' = SizeOf(q)
  BY <1>1, SameDocuments
<1>3. post[p].phase = "copy"
  BY DEF Refuse
<1>4. ReadInv'
  <2>1. ASSUME NEW q \in Post
        PROVE  /\ post'[q].phase \in {"arrive", "open"} => post'[q].read = 0
               /\ post'[q].phase = "start" => post'[q].read = SizeOf(q)'
    <3>1. CASE q = p
      BY <1>1, <3>1
    <3>2. CASE q # p
      BY <1>1, <1>2, <3>2 DEF ReadInv
    <3>3. QED
      BY <3>1, <3>2
  <2>2. QED
    BY <2>1 DEF ReadInv
<1>5. ASSUME ~shared'
      PROVE  Alone' /\ Copied' /\ Kept' /\ Origin'
  <2>1. ~shared
    BY <1>5 DEF Refuse
  <2>2. Alone /\ Copied /\ Kept /\ Origin
    BY <2>1 DEF DiskInv
  <2>3. run.phase = "none" /\ \A q \in Post \ {p} : ~Saving(q)
    BY <1>3, <2>2 DEF Saving, Alone
  <2>4. \A q \in Post : ~Saving(q)'
    BY <1>1, <2>3 DEF Saving
  <2>5. run' = run
    BY DEF Refuse
  <2>6. Alone'
    BY <2>4 DEF Alone
  <2>7. Copied'
    BY <2>4 DEF Copied, Saving
  <2>8. Kept'
    <3>1. SUFFICES ASSUME NEW n \in Name, disk'[n].there
                   PROVE  \E q \in Post : /\ NameOf(q)' = n
                                          /\ post'[q].phase \in {"copy", "start", "accepted", "broken"}
      BY DEF Kept
    <3>2. n # NameOf(p)
      <4>1. disk'[NameOf(p)] = NoFile
        BY <1>1 DEF UTypes
      <4>2. QED
        BY <3>1, <4>1 DEF NoFile
    <3>3. disk'[n] = disk[n]
      BY <1>1, <3>2 DEF UTypes
    <3>4. PICK q \in Post : NameOf(q) = n /\ post[q].phase \in {"copy", "start", "accepted", "broken"}
      BY <2>2, <3>1, <3>3 DEF Kept
    <3>5. q # p
      BY <3>2, <3>4
    <3>6. QED
      BY <1>1, <1>2, <3>4, <3>5
  <2>9. Origin'
    BY <2>3, <2>5 DEF Origin
  <2>10. QED
    BY <2>6, <2>7, <2>8, <2>9
<1>6. QED
  BY <1>4, <1>5 DEF DiskInv

\* A POST that goes on to another phase and leaves disk and run alone keeps the rest,
\* if it goes on saving or its file may stay.
LEMMA GotoKeeps ==
  ASSUME UTypes, Alone, Copied, Kept, Origin,
         NEW p \in Post, Saving(p), NEW phase \in {"start", "broken"}, Goto(p, phase),
         post[p].phase \in {"copy", "start"},
         UNCHANGED <<disk, run, stream, bucket, aged>>
  PROVE  Alone' /\ Copied' /\ Kept' /\ Origin'
<1>1. /\ post'[p].phase = phase
      /\ \A q \in Post \ {p} : post'[q] = post[q]
      /\ \A q \in Post : /\ post'[q].upload = post[q].upload
                         /\ post'[q].read = post[q].read /\ post'[q].linked = post[q].linked
  BY GotoMoves
<1>2. \A q \in Post : NameOf(q)' = NameOf(q)
  BY <1>1, SameDocuments
<1>3. run.phase = "none" /\ \A q \in Post \ {p} : ~Saving(q)
  BY DEF Alone
<1>4. \A q \in Post \ {p} : ~Saving(q)'
  BY <1>1, <1>3 DEF Saving
<1>5. Alone'
  BY <1>3, <1>4 DEF Alone
<1>6. Copied'
  <2>1. post[p].linked /\ disk[NameOf(p)].there /\ disk[NameOf(p)].chunks = Part(p)
    BY DEF Copied
  <2>2. Part(p)' = Part(p)
    BY <1>1 DEF Part
  <2>3. post'[p].linked /\ disk'[NameOf(p)'].there /\ disk'[NameOf(p)'].chunks = Part(p)'
    BY <1>1, <1>2, <2>1, <2>2
  <2>4. \A q \in Post \ {p} : post'[q].phase \notin {"copy", "start"}
    BY <1>4 DEF Saving
  <2>5. QED
    BY <2>3, <2>4 DEF Copied
<1>7. Kept'
  <2>1. SUFFICES ASSUME NEW n \in Name, disk[n].there
                 PROVE  \E q \in Post : /\ NameOf(q)' = n
                                        /\ post'[q].phase \in {"copy", "start", "accepted", "broken"}
    BY DEF Kept
  <2>2. PICK q \in Post : NameOf(q) = n /\ post[q].phase \in {"copy", "start", "accepted", "broken"}
    BY <2>1 DEF Kept
  <2>3. post'[q].phase \in {"copy", "start", "accepted", "broken"}
    BY <1>1, <2>2
  <2>4. QED
    BY <1>2, <2>2, <2>3
<1>8. Origin'
  BY <1>3 DEF Origin
<1>9. QED
  BY <1>5, <1>6, <1>7, <1>8

LEMMA SavedKeeps ==
  ASSUME UTypes, ReadInv, DiskInv, NEW p \in Post, BreakOff(p) \/ Saved(p)
  PROVE  ReadInv' /\ DiskInv'
<1>1. PICK phase \in {"start", "broken"} :
        Goto(p, phase) /\ (phase = "start" => post[p].read = SizeOf(p))
  BY DEF BreakOff, Saved
<1>2. post[p].phase = "copy" /\ UNCHANGED <<disk, run, stream, bucket, shared, aged>>
  BY DEF BreakOff, Saved
<1>3. /\ post'[p].phase = phase
      /\ \A q \in Post \ {p} : post'[q] = post[q]
      /\ \A q \in Post : post'[q].upload = post[q].upload /\ post'[q].read = post[q].read
  BY <1>1, GotoMoves
<1>4. \A q \in Post : SizeOf(q)' = SizeOf(q)
  BY <1>3, SameDocuments
<1>5. ReadInv'
  <2>1. ASSUME NEW q \in Post
        PROVE  /\ post'[q].phase \in {"arrive", "open"} => post'[q].read = 0
               /\ post'[q].phase = "start" => post'[q].read = SizeOf(q)'
    <3>1. CASE q = p
      BY <1>1, <1>3, <1>4, <3>1
    <3>2. CASE q # p
      BY <1>3, <1>4, <3>2 DEF ReadInv
    <3>3. QED
      BY <3>1, <3>2
  <2>2. QED
    BY <2>1 DEF ReadInv
<1>6. ASSUME ~shared'
      PROVE  Alone' /\ Copied' /\ Kept' /\ Origin'
  <2>1. Alone /\ Copied /\ Kept /\ Origin
    BY <1>2, <1>6 DEF DiskInv
  <2>2. Saving(p)
    BY <1>2 DEF Saving
  <2>3. QED
    BY <1>1, <1>2, <2>1, <2>2, GotoKeeps
<1>7. QED
  BY <1>5, <1>6 DEF DiskInv

LEMMA StartKeeps ==
  ASSUME UTypes, ReadInv, DiskInv, NEW p \in Post, StartRun(p)
  PROVE  ReadInv' /\ DiskInv'
<1> DEFINE to == IF Executing THEN "refused" ELSE "accepted"
<1>1. Goto(p, to) /\ to \in {"refused", "accepted"}
  BY DEF StartRun
<1>2. /\ post'[p].phase = to
      /\ \A q \in Post \ {p} : post'[q] = post[q]
      /\ \A q \in Post : post'[q].upload = post[q].upload /\ post'[q].read = post[q].read
  BY <1>1, GotoMoves
<1>3. \A q \in Post : NameOf(q)' = NameOf(q) /\ SizeOf(q)' = SizeOf(q) /\ Whole(q)' = Whole(q)
  BY <1>2, SameDocuments
<1>4. ReadInv'
  <2>1. ASSUME NEW q \in Post
        PROVE  /\ post'[q].phase \in {"arrive", "open"} => post'[q].read = 0
               /\ post'[q].phase = "start" => post'[q].read = SizeOf(q)'
    <3>1. CASE q = p
      BY <1>1, <1>2, <3>1
    <3>2. CASE q # p
      BY <1>2, <1>3, <3>2 DEF ReadInv
    <3>3. QED
      BY <3>1, <3>2
  <2>2. QED
    BY <2>1 DEF ReadInv
<1>5. ASSUME ~shared'
      PROVE  Alone' /\ Copied' /\ Kept' /\ Origin'
  <2>1. ~shared
    BY <1>5 DEF StartRun
  <2>2. Alone /\ Copied /\ Kept /\ Origin
    BY <2>1 DEF DiskInv
  <2>3. post[p].phase = "start"
    BY DEF StartRun
  <2>4. run.phase = "none" /\ \A q \in Post \ {p} : ~Saving(q)
    BY <2>2, <2>3 DEF Saving, Alone
  <2>5. ~Executing
    BY <2>4 DEF Executing
  <2>6. /\ to = "accepted" /\ disk' = disk /\ bucket' = bucket /\ stream' = NoStream
        /\ run' = [phase |-> "router", name |-> NameOf(p), content |-> Unread]
    BY <2>5 DEF StartRun
  <2> HIDE DEF to
  <2>7. \A q \in Post : ~Saving(q)'
    BY <1>2, <2>4, <2>6 DEF Saving
  <2>8. Alone' /\ Copied'
    BY <2>7 DEF Alone, Copied, Saving
  <2>9. Kept'
    <3>1. SUFFICES ASSUME NEW n \in Name, disk[n].there
                   PROVE  \E q \in Post : /\ NameOf(q)' = n
                                          /\ post'[q].phase \in {"copy", "start", "accepted", "broken"}
      BY <2>6 DEF Kept
    <3>2. PICK q \in Post : NameOf(q) = n /\ post[q].phase \in {"copy", "start", "accepted", "broken"}
      BY <2>2, <3>1 DEF Kept
    <3>3. post'[q].phase \in {"copy", "start", "accepted", "broken"}
      BY <1>2, <2>6, <3>2
    <3>4. QED
      BY <1>3, <3>2, <3>3
  <2>10. StartedFrom(p)'
    <3>1. disk[NameOf(p)].there /\ disk[NameOf(p)].chunks = Part(p)
      BY <2>2, <2>3 DEF Copied
    <3>2. Part(p) = Whole(p)
      BY <2>3 DEF ReadInv, Part, Whole
    <3>3. File' = disk[NameOf(p)] /\ run'.name = NameOf(p) /\ run'.phase = "router"
      BY <2>6 DEF File
    <3>4. ~Read'
      BY <3>3 DEF Read
    <3>5. QED
      BY <1>3, <3>1, <3>2, <3>3, <3>4 DEF StartedFrom
  <2>11. Origin'
    BY <2>10 DEF Origin
  <2>12. QED
    BY <2>8, <2>9, <2>11
<1>6. QED
  BY <1>4, <1>5 DEF DiskInv

LEMMA PostKeeps ==
  ASSUME UTypes, ReadInv, DiskInv, NEW p \in Post, PostStep(p)
  PROVE  ReadInv' /\ DiskInv'
BY ArriveKeeps, OpenKeeps, CopyKeeps, RefuseKeeps, SavedKeeps, StartKeeps DEF PostStep

\* A POST announces nothing; the run it starts has announced nothing.
LEMMA PostStreams ==
  ASSUME UTypes, StreamInv, NEW p \in Post, PostStep(p)
  PROVE  StreamInv'
<1>1. CASE UNCHANGED <<run, stream>>
  BY <1>1 DEF StreamInv
<1>2. CASE stream' = NoStream /\ run'.phase = "router"
  BY <1>2, NoStreamTyped DEF StreamInv
<1>3. CASE StartRun(p)
  <2>1. \/ UNCHANGED <<run, stream>>
        \/ stream' = NoStream /\ run' = [phase |-> "router", name |-> NameOf(p), content |-> Unread]
    BY <1>3 DEF StartRun
  <2>2. QED
    BY <1>1, <1>2, <2>1
<1>4. CASE Arrive(p) \/ Open(p) \/ CopyChunk(p) \/ Refuse(p) \/ BreakOff(p) \/ Saved(p)
  <2>1. UNCHANGED <<run, stream>>
    BY <1>4 DEF Arrive, Open, CopyChunk, Refuse, BreakOff, Saved
  <2>2. QED
    BY <1>1, <2>1
<1>5. QED
  BY <1>3, <1>4 DEF PostStep

-----------------------------------------------------------------------------
(* The run's steps keep its origin *)

\* A step of the run that stays with its file.
LEMMA OriginMoves ==
  ASSUME Origin, run.phase # "none", UNCHANGED <<disk, post, aged>>, run'.name = run.name,
         \A p \in Post : StartedFrom(p) =>
           /\ Read' => run'.content = Whole(p)
           /\ run'.phase = "completed" => bucket' = Whole(p)
  PROVE  Origin'
<1>1. PICK p \in Post : StartedFrom(p)
  BY DEF Origin
<1>2. NameOf(p)' = NameOf(p) /\ Whole(p)' = Whole(p)
  BY SameDocuments
<1>3. File' = File
  BY DEF File
<1>4. NameOf(p)' = run'.name
  BY <1>1, <1>2 DEF StartedFrom
<1>5. (File.there \/ run.name \in aged)' /\ (File.there => File.chunks = Whole(p))'
  BY <1>1, <1>2, <1>3 DEF StartedFrom
<1>6. (Read => run.content = Whole(p))' /\ (run.phase = "completed" => bucket = Whole(p))'
  BY <1>1, <1>2
<1>7. StartedFrom(p)'
  BY <1>4, <1>5, <1>6 DEF StartedFrom
<1>8. QED
  BY <1>7 DEF Origin

LEMMA RunOrigin ==
  ASSUME UTypes, StreamInv, Origin, RunStep
  PROVE  Origin' /\ run.phase # "none"
<1>0. UNCHANGED <<disk, post, aged>>
  BY RunTypes
<1>1. CASE Route
  <2>1. GotoNode("extractor") /\ "extractor" \in RunPhase /\ stream' = NoStream /\ run.phase = "router"
    BY <1>1 DEF Route, RunPhase
  <2>2. run'.phase = "extractor" /\ run'.name = run.name
    BY <2>1, RunMoves
  <2>3. ~Read'
    BY <2>1, <2>2 DEF Read, NoStream
  <2>4. QED
    BY <1>0, <2>1, <2>2, <2>3, OriginMoves
<1>2. CASE CallModel
  <2>1. run.phase = "extractor" /\ File.there
    BY <1>2 DEF CallModel
  <2>2. run'.phase = "extractor" /\ run'.name = run.name /\ run'.content = File.chunks
    BY <1>2, CallMoves
  <2>3. \A p \in Post : StartedFrom(p) => run'.content = Whole(p)
    BY <2>1, <2>2 DEF StartedFrom
  <2>4. QED
    BY <1>0, <2>1, <2>2, <2>3, OriginMoves
<1>3. ASSUME run.phase # "none", run'.name = run.name, run'.content = run.content,
             Read' => Read, run'.phase # "completed"
      PROVE  Origin' /\ run.phase # "none"
  BY <1>0, <1>3, OriginMoves DEF StartedFrom
<1>4. CASE Delta
  <2>1. run' = run /\ run.phase = "extractor" /\ stream'.order = stream.order
    BY <1>4, DeltaMoves DEF Delta
  <2>2. QED
    BY <1>3, <2>1 DEF Read
<1>5. CASE Extracted
  <2>1. /\ GotoNode("validator") /\ "validator" \in RunPhase
        /\ run.phase = "extractor" /\ stream.order # <<>>
    BY <1>5 DEF Extracted, RunPhase
  <2>2. run'.phase = "validator" /\ run'.name = run.name /\ run'.content = run.content
    BY <2>1, RunMoves
  <2>3. QED
    BY <1>3, <2>1, <2>2 DEF Read
<1>6. CASE Validate
  <2>1. run.phase = "validator" /\ \E phase \in {"review", "output"} : GotoNode(phase)
    BY <1>6 DEF Validate
  <2>2. run'.phase \in {"review", "output"} /\ run'.name = run.name /\ run'.content = run.content
    BY <2>1, RunMoves DEF RunPhase
  <2>3. QED
    BY <1>3, <2>1, <2>2 DEF Read
<1>7. CASE Output
  <2>1. /\ GotoNode("completed") /\ "completed" \in RunPhase /\ run.phase = "output"
        /\ File.there /\ bucket' = File.chunks
    BY <1>7 DEF Output, RunPhase
  <2>2. run'.phase = "completed" /\ run'.name = run.name /\ run'.content = run.content
    BY <2>1, RunMoves
  <2>3. \A p \in Post : StartedFrom(p) => run'.content = Whole(p) /\ bucket' = Whole(p)
    BY <2>1, <2>2 DEF StartedFrom, Read
  <2>4. QED
    BY <1>0, <2>1, <2>2, <2>3, OriginMoves
<1>8. CASE Approve
  <2>1. GotoNode("output") /\ "output" \in RunPhase /\ run.phase = "review"
    BY <1>8 DEF Approve, RunPhase
  <2>2. run'.phase = "output" /\ run'.name = run.name /\ run'.content = run.content
    BY <2>1, RunMoves
  <2>3. QED
    BY <1>3, <2>1, <2>2 DEF Read
<1>9. ASSUME NEW node \in {"router", "extractor", "output"}, NodeFails(node)
      PROVE  Origin' /\ run.phase # "none"
  <2>1. GotoNode(FailedAt(node)) /\ FailedAt(node) \in RunPhase /\ run.phase = node
    BY <1>9, FailedPhase DEF NodeFails
  <2>2. run'.phase = FailedAt(node) /\ run'.name = run.name /\ run'.content = run.content
    BY <2>1, RunMoves
  <2>3. (Read' => Read) /\ run'.phase # "completed"
    BY <2>1, <2>2, FailedPhase DEF Read
  <2>4. QED
    BY <1>3, <1>9, <2>1, <2>2, <2>3
<1>10. ASSUME NEW node \in {"router", "extractor", "output"}, Retry(node)
       PROVE  Origin' /\ run.phase # "none"
  <2>1. /\ GotoNode(node) /\ node \in RunPhase /\ run.phase = FailedAt(node)
        /\ node = "extractor" => stream' = NoStream
    BY <1>10 DEF Retry, RunPhase
  <2>2. run'.phase = node /\ run'.name = run.name /\ run'.content = run.content
    BY <2>1, RunMoves
  <2>3. Read' => Read
    <3>1. CASE node = "router"
      BY <2>2, <3>1 DEF Read
    <3>2. CASE node = "extractor"
      <4>1. run'.phase = "extractor" /\ stream' = NoStream
        BY <2>1, <2>2, <3>2
      <4>2. stream'.order = <<>>
        BY <4>1 DEF NoStream
      <4>3. QED
        BY <4>1, <4>2 DEF Read
    <3>3. CASE node = "output"
      BY <2>1, <3>3, FailedPhase DEF Read
    <3>4. QED
      BY <1>10, <3>1, <3>2, <3>3
  <2>4. run.phase # "none" /\ run'.phase # "completed"
    BY <1>10, <2>1, <2>2, FailedPhase
  <2>5. QED
    BY <1>3, <2>2, <2>3, <2>4
<1>11. QED
  BY <1>1, <1>2, <1>4, <1>5, <1>6, <1>7, <1>8, <1>9, <1>10 DEF RunStep

LEMMA RunKeeps ==
  ASSUME UTypes, ReadInv, StreamInv, DiskInv, RunStep
  PROVE  ReadInv' /\ DiskInv'
<1>1. UNCHANGED <<disk, post, shared, aged>>
  BY RunTypes
<1>2. ReadInv'
  BY <1>1 DEF ReadInv, SizeOf
<1>3. ASSUME ~shared'
      PROVE  Alone' /\ Copied' /\ Kept' /\ Origin'
  <2>1. Alone /\ Copied /\ Kept /\ Origin
    BY <1>1, <1>3 DEF DiskInv
  <2>2. Origin' /\ run.phase # "none"
    BY <2>1, RunOrigin
  <2>3. \A q \in Post : ~Saving(q)'
    BY <1>1, <2>1, <2>2 DEF Alone, Saving
  <2>4. Alone' /\ Copied'
    BY <2>3 DEF Alone, Copied, Saving
  <2>5. Kept'
    BY <1>1, <2>1 DEF Kept, NameOf
  <2>6. QED
    BY <2>2, <2>4, <2>5
<1>4. QED
  BY <1>2, <1>3 DEF DiskInv

-----------------------------------------------------------------------------
(* A day passes *)

LEMMA DayMoves ==
  ASSUME UTypes, Day
  PROVE  /\ disk' \in [Name -> FileRec]
         /\ \A n \in Name : disk'[n].there = disk[n].there /\ disk'[n].chunks = disk[n].chunks
<1> DEFINE f(n) == [disk[n] EXCEPT !.old = disk[n].there]
<1>1. disk' = [n \in Name |-> f(n)]
  BY DEF Day
<1>2. ASSUME NEW n \in Name
      PROVE  f(n) \in FileRec /\ f(n).there = disk[n].there /\ f(n).chunks = disk[n].chunks
  <2>1. disk[n] \in FileRec
    BY DEF UTypes
  <2>2. disk[n].there \in BOOLEAN
    BY <2>1, FileFields
  <2>3. f(n) \in FileRec
    BY Zenon, <2>1, <2>2 DEF FileRec
  <2>4. QED
    BY <2>1, <2>3 DEF FileRec
<1> HIDE DEF f
<1>3. QED
  BY <1>1, <1>2

LEMMA DayKeeps ==
  ASSUME UTypes, ReadInv, StreamInv, DiskInv, Day
  PROVE  UTypes' /\ ReadInv' /\ StreamInv' /\ DiskInv'
<1>1. /\ disk' \in [Name -> FileRec]
      /\ \A n \in Name : disk'[n].there = disk[n].there /\ disk'[n].chunks = disk[n].chunks
  BY DayMoves
<1>2. UNCHANGED <<post, run, stream, bucket, failures, shared, aged>>
  BY DEF Day
<1>3. UTypes' /\ ReadInv' /\ StreamInv'
  BY <1>1, <1>2 DEF UTypes, ReadInv, SizeOf, StreamInv
<1>4. ASSUME ~shared'
      PROVE  Alone' /\ Copied' /\ Kept' /\ Origin'
  <2>1. Alone /\ Copied /\ Kept /\ Origin
    BY <1>2, <1>4 DEF DiskInv
  <2>2. \A q \in Post : ~Saving(q)'
    BY <1>2 DEF Day, Saving
  <2>3. Alone' /\ Copied'
    BY <2>2 DEF Alone, Copied, Saving
  <2>4. Kept'
    BY <1>1, <1>2, <2>1 DEF Kept, NameOf
  <2>5. ASSUME NEW p \in Post, StartedFrom(p)
        PROVE  StartedFrom(p)'
    <3>1. run.name \in Name
      BY RunFields DEF UTypes
    <3>2. File'.there = File.there /\ File'.chunks = File.chunks
      BY <1>1, <1>2, <3>1 DEF File
    <3>3. NameOf(p)' = NameOf(p) /\ Whole(p)' = Whole(p)
      BY <1>2 DEF NameOf, Whole, SizeOf
    <3>4. Read' <=> Read
      BY <1>2 DEF Read
    <3>5. QED
      BY <1>2, <2>5, <3>2, <3>3, <3>4 DEF StartedFrom
  <2>6. Origin'
    BY <1>2, <2>1, <2>5 DEF Origin
  <2>7. QED
    BY <2>3, <2>4, <2>6
<1>5. QED
  BY <1>3, <1>4 DEF DiskInv

-----------------------------------------------------------------------------
(* The theorems *)

LEMMA Initially ==
  ASSUME UploadInit
  PROVE  IInv
<1>1. /\ disk = [n \in Name |-> NoFile] /\ stream = NoStream /\ bucket = Unread
      /\ failures = 0 /\ shared = FALSE /\ aged = {}
      /\ run = [phase |-> "none", name |-> CHOOSE n \in Name : TRUE, content |-> Unread]
  BY DEF UploadInit
<1> DEFINE Arriving == {[phase |-> "arrive", upload |-> u, read |-> 0, linked |-> FALSE] : u \in Upload}
<1>2. post \in [Post -> Arriving]
  BY DEF UploadInit
<1>3. Arriving \subseteq PostRec
  <2>1. 0 \in 0..Cap
    BY UploadsAssumption
  <2>2. \A u \in Upload : [phase |-> "arrive", upload |-> u, read |-> 0, linked |-> FALSE] \in PostRec
    BY <2>1 DEF PostRec
  <2>3. QED
    BY <2>2
<1>4. \A r \in Arriving : r.phase = "arrive" /\ r.read = 0
  OBVIOUS
<1> HIDE DEF Arriving
<1>5. post \in [Post -> PostRec] /\ \A p \in Post : post[p].phase = "arrive" /\ post[p].read = 0
  BY <1>2, <1>3, <1>4
<1>6. run \in RunRec /\ run.phase = "none"
  <2>1. (CHOOSE n \in Name : TRUE) \in Name
    BY UploadsAssumption
  <2>2. QED
    BY <1>1, <2>1, NoFileTyped DEF RunRec, RunPhase
<1>7. UTypes
  <2>1. 0 \in 0..MaxFailures
    BY UploadsAssumption
  <2>2. disk \in [Name -> FileRec]
    BY <1>1, NoFileTyped
  <2>3. QED
    BY <1>1, <1>5, <1>6, <2>1, <2>2, NoFileTyped, NoStreamTyped DEF UTypes
<1>8. ReadInv
  BY <1>5 DEF ReadInv
<1>9. StreamInv
  BY <1>1, <1>6, NoStreamTyped DEF StreamInv
<1>10. \A p \in Post : ~Saving(p)
  BY <1>5 DEF Saving
<1>11. Alone /\ Copied
  BY <1>10 DEF Alone, Copied, Saving
<1>12. Kept
  BY <1>1 DEF Kept, NoFile
<1>13. Origin
  BY <1>6 DEF Origin
<1>14. QED
  BY <1>7, <1>8, <1>9, <1>11, <1>12, <1>13 DEF IInv, DiskInv

LEMMA Unchanged ==
  ASSUME IInv, UNCHANGED uploadVars
  PROVE  IInv'
<1>1. UTypes' /\ ReadInv' /\ StreamInv'
  BY DEF IInv, uploadVars, UTypes, ReadInv, SizeOf, StreamInv
<1>2. ASSUME ~shared'
      PROVE  Alone' /\ Copied' /\ Kept' /\ Origin'
  <2>1. Alone /\ Copied /\ Kept /\ Origin
    BY <1>2 DEF IInv, DiskInv, uploadVars
  <2>2. Alone' /\ Copied' /\ Kept'
    BY <2>1 DEF uploadVars, Alone, Copied, Kept, Saving, NameOf, Part
  <2>3. \A p \in Post : StartedFrom(p) => StartedFrom(p)'
    BY DEF uploadVars, StartedFrom, File, Read, NameOf, Whole, SizeOf
  <2>4. Origin'
    BY <2>1, <2>3 DEF Origin, uploadVars
  <2>5. QED
    BY <2>2, <2>4
<1>3. QED
  BY <1>1, <1>2 DEF IInv, DiskInv

LEMMA Inductive ==
  ASSUME IInv, [UploadNext]_uploadVars
  PROVE  IInv'
<1>1. ASSUME NEW p \in Post, PostStep(p)
      PROVE  IInv'
  BY <1>1, PostTypes, PostKeeps, PostStreams DEF IInv
<1>2. CASE RunStep
  BY <1>2, RunTypes, RunKeeps, RunStreams DEF IInv
<1>3. CASE Day
  BY <1>3, DayKeeps DEF IInv
<1>4. CASE UNCHANGED uploadVars
  BY <1>4, Unchanged
<1>5. QED
  BY <1>1, <1>2, <1>3, <1>4 DEF UploadNext

THEOREM Invariance == UploadSpec => []IInv
<1>1. UploadInit => IInv
  BY Initially
<1>2. IInv /\ [UploadNext]_uploadVars => IInv'
  BY Inductive
<1>3. QED
  BY <1>1, <1>2, PTL DEF UploadSpec

\* Every reachable state of the disk, the POSTs, the run and its stream is well typed;
\* no POST reads past the cap (save_upload), and only fields are announced.
THEOREM TypeCorrect == UploadSpec => []UploadTypeOK
<1>1. IInv => UploadTypeOK
  <2>1. SUFFICES ASSUME IInv PROVE UploadTypeOK
    OBVIOUS
  <2>2. UTypes
    BY <2>1 DEF IInv
  <2>3. Names(stream.announced) \subseteq Field
    BY <2>2, StreamFields, NamesAre
  <2>4. run.phase \in RunPhase /\ run.name \in Name
    <3>1. run \in RunRec
      BY <2>2 DEF UTypes
    <3>2. QED
      BY <3>1, RunFields
  <2>5. /\ disk \in [Name -> FileRec] /\ post \in [Post -> PostRec] /\ failures \in 0..MaxFailures
    BY <2>2 DEF UTypes
  <2>6. QED
    BY <2>3, <2>4, <2>5 DEF UploadTypeOK, FileRec, PostRec, RunPhase, Chunks
<1>2. QED
  BY <1>1, Invariance, PTL

\* What output() uploads to the bucket is the document the fields were extracted from,
\* and one POST's whole document, over refused and broken-off uploads, retries and
\* sweeps, unless two POSTs saved under the thread_id at once.
THEOREM StoredSafety == UploadSpec => []StoredIsExtracted
<1>1. IInv => StoredIsExtracted
  <2>1. SUFFICES ASSUME IInv, run.phase = "completed", ~shared
                 PROVE  bucket = run.content /\ \E p \in Post : bucket = Whole(p)
    BY DEF StoredIsExtracted
  <2>2. PICK p \in Post : StartedFrom(p)
    BY <2>1 DEF IInv, DiskInv, Origin
  <2>3. QED
    BY <2>1, <2>2 DEF StartedFrom, Read
<1>2. QED
  BY <1>1, Invariance, PTL

\* A run that has started finds its file until sweep_old_uploads took it, a day after
\* it was written, unless two POSTs saved under the thread_id at once.
THEOREM FileSafety == UploadSpec => []FileOutlivesTheDay
<1>1. IInv => FileOutlivesTheDay
  BY DEF IInv, DiskInv, Origin, StartedFrom, FileOutlivesTheDay
<1>2. QED
  BY <1>1, Invariance, PTL

\* A refused upload leaves no file behind: what lies in upload_dir was accepted, is
\* being written, or broke off with an error that is no refusal.
THEOREM RefusalSafety == UploadSpec => []RefusedLeavesNothing
<1>1. IInv => RefusedLeavesNothing
  BY DEF IInv, DiskInv, Kept, RefusedLeavesNothing
<1>2. QED
  BY <1>1, Invariance, PTL

\* Whatever the order of the keys and however many a delta completes, no field is
\* announced twice or before the response has moved past it, and when
\* extract_invoice_streaming has returned every field has been announced.
THEOREM AnnouncedSafety == UploadSpec => []AnnouncedOnceAndWhole
<1>1. IInv => AnnouncedOnceAndWhole
  <2>1. SUFFICES ASSUME IInv PROVE AnnouncedOnceAndWhole
    OBVIOUS
  <2>2. Once(stream.announced) /\ DOMAIN stream.announced = 1..Len(stream.announced)
    BY <2>1, LenProperties DEF IInv, StreamInv, Once
  <2>3. \A m, n \in DOMAIN stream.announced :
          /\ stream.announced[n].whole
          /\ stream.announced[m].name = stream.announced[n].name => m = n
    BY <2>2 DEF Once
  <2>4. QED
    BY <2>1, <2>3 DEF IInv, StreamInv, AnnouncedOnceAndWhole
<1>2. QED
  BY <1>1, Invariance, PTL

-----------------------------------------------------------------------------
(* The list of runs *)

ListRec ==
  [phase : {"idle", "fetch", "summarize", "done"}, overfetch : Nat, fetched : Seq(Thread),
   rows : Seq(Thread), asked : Nat]

ViewerRec == [phase : {"idle", "sign", "done"}, since : Nat, link : Nat]

PagesTypes ==
  /\ checkpoints \in Seq(Thread)
  /\ list \in ListRec
  /\ clock \in 0..MaxTime
  /\ signed \in [expiry : Nat, deadline : Nat]
  /\ viewer \in [Viewer -> ViewerRec]

LEMMA ListFields ==
  ASSUME PagesTypes
  PROVE  /\ list.phase \in {"idle", "fetch", "summarize", "done"} /\ list.overfetch \in Nat
         /\ list.fetched \in Seq(Thread) /\ list.rows \in Seq(Thread) /\ list.asked \in Nat
         /\ Len(checkpoints) \in Nat /\ Len(list.fetched) \in Nat /\ Len(list.rows) \in Nat
<1>1. list \in ListRec
  BY DEF PagesTypes
<1>2. list.fetched \in Seq(Thread) /\ list.rows \in Seq(Thread)
  BY <1>1 DEF ListRec
<1>3. QED
  BY <1>1, <1>2, LenProperties DEF ListRec, PagesTypes

\* A window that was not filled holds every checkpoint there was, from the newest at
\* its time to the oldest; since then they have only got newer ones before them.
Whence ==
  /\ Len(list.fetched) <= list.overfetch
  /\ Len(list.fetched) < list.overfetch =>
       /\ list.asked <= Len(list.fetched) /\ Len(list.fetched) <= Len(checkpoints)
       /\ \A n \in 1..Len(list.fetched) :
            checkpoints[Len(checkpoints) - Len(list.fetched) + n] = list.fetched[n]

ListInv ==
  /\ list.asked <= Len(checkpoints)
  /\ list.phase \in {"summarize", "done"} => Whence
  /\ list.phase = "done" =>
       list.rows = Summarize(list.fetched) /\ Enough(list.rows, list.fetched, list.overfetch)

\* The positions a summary shows.
First(fetched) ==
  {n \in DOMAIN fetched : fetched[n] \in Mine /\ \A m \in 1..(n - 1) : fetched[m] # fetched[n]}

\* The threads there, each once.
Shown(fetched) ==
  LET shown == Selected([n \in DOMAIN fetched |-> n], First(fetched))
  IN  [n \in DOMAIN shown |-> fetched[shown[n]]]

\* Every visible thread of the window is shown, and once.
LEMMA ShownFacts ==
  ASSUME NEW fetched \in Seq(Thread)
  PROVE  /\ Shown(fetched) \in Seq(Thread) /\ IsInjective(Shown(fetched))
         /\ Range(Shown(fetched)) = Range(fetched) \cap Mine
<1> DEFINE first == First(fetched)
           len == Len(fetched)
           at == [n \in DOMAIN fetched |-> n]
           shown == Selected(at, first)
           rows == [n \in DOMAIN shown |-> fetched[shown[n]]]
<1>1. len \in Nat /\ DOMAIN fetched = 1..len /\ \A n \in 1..len : fetched[n] \in Thread
  BY LenProperties, ElementOfSeq
<1> HIDE DEF len
<1>2. first = {n \in 1..len : fetched[n] \in Mine /\ \A m \in 1..(n - 1) : fetched[m] # fetched[n]}
  BY <1>1 DEF First
<1>3. at \in [1..len -> 1..len] /\ \A n \in 1..len : at[n] = n
  BY <1>1
<1> HIDE DEF at
<1>4. at \in Seq(1..len) /\ IsInjective(at) /\ Range(at) = 1..len
  BY <1>1, <1>3 DEF IsInjective, Range
<1> DEFINE D == 1..len
<1> HIDE DEF D
<1>5. at \in Seq(D)
  BY <1>4 DEF D
<1> HIDE DEF first
<1>6. shown \in Seq(D \cap first) /\ IsInjective(shown) /\ Range(shown) = D \cap first
  BY <1>4, <1>5, SelectedType, SelectedDistinct, SelectedRange DEF D
<1> HIDE DEF shown
<1>7. /\ DOMAIN shown = 1..Len(shown) /\ Len(shown) \in Nat
      /\ \A n \in DOMAIN shown : shown[n] \in D \cap first
  BY <1>6, LenProperties, ElementOfSeq
<1>8. rows \in [1..Len(shown) -> Thread]
  BY <1>1, <1>7 DEF D
<1>9. /\ rows \in Seq(Thread) /\ DOMAIN rows = DOMAIN shown
      /\ \A n \in DOMAIN shown : rows[n] = fetched[shown[n]]
  BY <1>7, <1>8
<1> HIDE DEF rows
<1>10. ASSUME NEW i \in D \cap first, NEW j \in D \cap first, fetched[i] = fetched[j]
       PROVE  i = j
  <2>1. i \in 1..len /\ j \in 1..len
    BY DEF D
  <2>2. \A m \in 1..(i - 1) : fetched[m] # fetched[i]
    BY <1>2
  <2>3. \A m \in 1..(j - 1) : fetched[m] # fetched[j]
    BY <1>2
  <2>4. ~(i < j)
    BY <1>10, <2>1, <2>3
  <2>5. ~(j < i)
    BY <1>10, <2>1, <2>2
  <2>6. QED
    BY <1>1, <2>1, <2>4, <2>5
<1>11. IsInjective(rows)
  <2>1. SUFFICES ASSUME NEW m \in DOMAIN shown, NEW n \in DOMAIN shown, rows[m] = rows[n]
                 PROVE  m = n
    BY <1>9 DEF IsInjective
  <2>2. shown[m] = shown[n]
    BY <1>7, <1>9, <1>10, <2>1
  <2>3. QED
    BY <1>6, <2>2 DEF IsInjective
<1>12. Range(rows) \subseteq Range(fetched) \cap Mine
  <2>1. SUFFICES ASSUME NEW n \in DOMAIN shown PROVE rows[n] \in Range(fetched) \cap Mine
    BY <1>9 DEF Range
  <2>2. shown[n] \in 1..len /\ fetched[shown[n]] \in Mine
    BY <1>2, <1>7 DEF D
  <2>3. QED
    BY <1>1, <1>9, <2>2 DEF Range
<1>13. Range(fetched) \cap Mine \subseteq Range(rows)
  <2>1. SUFFICES ASSUME NEW i \in 1..len, fetched[i] \in Mine PROVE fetched[i] \in Range(rows)
    BY <1>1 DEF Range
  <2> DEFINE T == {k \in 1..len : fetched[k] = fetched[i]}
  <2>2. T \subseteq Nat /\ T # {}
    BY <1>1
  <2>3. PICK k \in T : \A y \in T : k <= y
    BY <2>2, NatMinimum
  <2>4. k \in 1..len /\ fetched[k] = fetched[i]
    BY <2>3
  <2>5. \A m \in 1..(k - 1) : fetched[m] # fetched[k]
    <3>1. SUFFICES ASSUME NEW m \in 1..(k - 1), fetched[m] = fetched[k] PROVE FALSE
      OBVIOUS
    <3>2. m \in 1..len /\ ~(k <= m)
      BY <1>1, <2>4
    <3>3. m \in T
      BY <2>4, <3>1, <3>2
    <3>4. QED
      BY <2>3, <3>2, <3>3
  <2>6. k \in D \cap first
    BY <1>2, <2>1, <2>4, <2>5 DEF D
  <2>7. PICK n \in DOMAIN shown : shown[n] = k
    BY <1>6, <2>6 DEF Range
  <2>8. rows[n] = fetched[i]
    BY <1>9, <2>4, <2>7
  <2>9. QED
    BY <1>9, <2>7, <2>8 DEF Range
<1>14. Shown(fetched) = rows
  BY DEF Shown, rows, shown, at, first
<1>15. QED
  BY <1>9, <1>11, <1>12, <1>13, <1>14

\* The summary of a window: it repeats nothing, and if it is shorter than the limit it
\* has every visible thread.
LEMMA SummarizeFacts ==
  ASSUME NEW fetched \in Seq(Thread)
  PROVE  /\ Summarize(fetched) \in Seq(Thread) /\ IsInjective(Summarize(fetched))
         /\ Len(Summarize(fetched)) < Limit => Range(fetched) \cap Mine = Range(Summarize(fetched))
<1> DEFINE rows == Shown(fetched)
           len == Len(rows)
           k == IF len < Limit THEN len ELSE Limit
           s == SubSeq(rows, 1, k)
<1>1. Summarize(fetched) = s
  BY DEF Summarize, Shown, First
<1>2. rows \in Seq(Thread) /\ IsInjective(rows) /\ Range(rows) = Range(fetched) \cap Mine
  BY ShownFacts
<1> HIDE DEF rows
<1>3. len \in Nat /\ DOMAIN rows = 1..len
  BY <1>2, LenProperties
<1> HIDE DEF len
<1>4. k \in Nat /\ k <= len /\ (k < Limit => k = len)
  BY <1>3, PagesAssumption
<1> HIDE DEF k
<1>5. s \in Seq(Thread) /\ Len(s) = k /\ \A i \in 1..k : s[i] = rows[i]
  BY <1>2, <1>4, FirstOnes DEF len
<1> HIDE DEF s
<1>6. DOMAIN s = 1..k
  BY <1>5, LenProperties
<1>7. IsInjective(s)
  BY <1>2, <1>3, <1>4, <1>5, <1>6 DEF IsInjective
<1>8. k = len => Range(s) = Range(rows)
  BY <1>3, <1>5, <1>6 DEF Range
<1>9. QED
  BY <1>1, <1>2, <1>4, <1>5, <1>7, <1>8

LEMMA WriteKeeps ==
  ASSUME PagesTypes, ListInv, WriteCheckpoint
  PROVE  PagesTypes' /\ ListInv'
<1>1. PICK t \in Thread : checkpoints' = <<t>> \o checkpoints
  BY DEF WriteCheckpoint
<1>2. UNCHANGED <<list, clock, signed, viewer>>
  BY DEF WriteCheckpoint
<1> DEFINE c == checkpoints
           d == <<t>> \o c
           len == Len(c)
<1>3. c \in Seq(Thread) /\ len \in Nat
  BY LenProperties DEF PagesTypes
<1>4. <<t>> \in Seq(Thread) /\ Len(<<t>>) = 1
  OBVIOUS
<1>5. Joins(Thread, <<t>>, c, d)
  BY <1>3, <1>4, TwoParts
<1> HIDE DEF c, d
<1>6. d \in Seq(Thread) /\ Len(d) = 1 + len /\ \A j \in 1..len : d[1 + j] = c[j]
  BY <1>4, <1>5 DEF Joins
<1> HIDE DEF len
<1>7. checkpoints' = d
  BY <1>1 DEF d, c
<1>8. PagesTypes'
  BY <1>2, <1>6, <1>7 DEF PagesTypes
<1>9. Whence => Whence'
  <2> DEFINE f == list.fetched
             m == Len(f)
  <2>1. SUFFICES ASSUME Whence, m < list.overfetch
                 PROVE  /\ list.asked <= m /\ m <= Len(d)
                        /\ \A n \in 1..m : d[Len(d) - m + n] = f[n]
    BY <1>2, <1>7 DEF Whence
  <2>2. m \in Nat /\ list.asked \in Nat
    BY ListFields
  <2>3. list.asked <= m /\ m <= len /\ \A n \in 1..m : c[len - m + n] = f[n]
    BY <2>1 DEF Whence, len, c
  <2> HIDE DEF m, f
  <2>4. m <= Len(d)
    BY <1>3, <1>6, <2>2, <2>3
  <2>5. ASSUME NEW n \in 1..m PROVE d[Len(d) - m + n] = f[n]
    <3>1. len - m + n \in 1..len /\ Len(d) - m + n = 1 + (len - m + n)
      BY <1>3, <1>6, <2>2, <2>3
    <3>2. d[1 + (len - m + n)] = c[len - m + n]
      BY <1>6, <3>1
    <3>3. QED
      BY <2>3, <3>1, <3>2
  <2>6. QED
    BY <2>3, <2>4, <2>5
<1>10. list.asked <= Len(d)
  <2>1. list.asked \in Nat /\ list.asked <= len
    BY ListFields DEF ListInv, len, c
  <2>2. QED
    BY <1>3, <1>6, <2>1
<1>11. ListInv'
  BY <1>2, <1>7, <1>9, <1>10 DEF ListInv
<1>12. QED
  BY <1>8, <1>11

LEMMA StartListKeeps ==
  ASSUME PagesTypes, ListInv, StartList
  PROVE  PagesTypes' /\ ListInv'
<1> DEFINE n == Len(checkpoints)
<1>1. list \in ListRec /\ n \in Nat /\ Window \in Nat
  BY ListFields, PagesAssumption DEF PagesTypes
<1>2. list' = [list EXCEPT !.phase = "fetch", !.overfetch = Window, !.asked = n]
  BY DEF StartList
<1>3. UNCHANGED <<checkpoints, clock, signed, viewer>>
  BY DEF StartList
<1> HIDE DEF n
<1>4. list' \in ListRec
  BY Zenon, <1>1, <1>2 DEF ListRec
<1>5. list'.phase = "fetch" /\ list'.asked = n
  BY <1>1, <1>2 DEF ListRec
<1>6. PagesTypes'
  BY <1>3, <1>4 DEF PagesTypes
<1>7. n <= Len(checkpoints')
  BY <1>1, <1>3 DEF n
<1>8. QED
  BY <1>5, <1>6, <1>7 DEF ListInv

LEMMA FetchWindowKeeps ==
  ASSUME PagesTypes, ListInv, FetchWindow
  PROVE  PagesTypes' /\ ListInv'
<1> DEFINE c == checkpoints
           len == Len(c)
           k == IF len < list.overfetch THEN len ELSE list.overfetch
           f == SubSeq(c, 1, k)
<1>1. list \in ListRec /\ c \in Seq(Thread) /\ len \in Nat /\ list.overfetch \in Nat /\ list.asked \in Nat
  BY ListFields DEF PagesTypes
<1>2. list' = [list EXCEPT !.phase = "summarize", !.fetched = f]
  BY DEF FetchWindow
<1>3. UNCHANGED <<checkpoints, clock, signed, viewer>>
  BY DEF FetchWindow
<1>4. list.asked <= len
  BY DEF ListInv
<1>c. checkpoints = c /\ Len(checkpoints) = len
  OBVIOUS
<1> HIDE DEF c, len
<1>5. k \in Nat /\ k <= len /\ k <= list.overfetch /\ (k < list.overfetch => k = len)
  BY <1>1
<1> HIDE DEF k
<1>6. f \in Seq(Thread) /\ Len(f) = k /\ \A i \in 1..k : f[i] = c[i]
  BY <1>1, <1>5, FirstOnes DEF len
<1> HIDE DEF f
<1>7. list' \in ListRec
  BY Zenon, <1>1, <1>2, <1>6 DEF ListRec
<1>8. /\ list'.phase = "summarize" /\ list'.fetched = f /\ list'.asked = list.asked
      /\ list'.overfetch = list.overfetch
  BY <1>1, <1>2 DEF ListRec
<1>9. PagesTypes'
  BY <1>3, <1>7 DEF PagesTypes
<1>10. k < list.overfetch =>
         list.asked <= k /\ k <= len /\ \A n \in 1..k : c[len - k + n] = f[n]
  BY <1>1, <1>4, <1>5, <1>6
<1>11. checkpoints' = c /\ Len(checkpoints') = len
  BY <1>3, <1>c
<1>12. Whence'
  BY <1>5, <1>6, <1>8, <1>10, <1>11 DEF Whence
<1>13. ListInv'
  BY <1>4, <1>8, <1>11, <1>12 DEF ListInv
<1>14. QED
  BY <1>9, <1>13

LEMMA SummarizeWindowKeeps ==
  ASSUME PagesTypes, ListInv, SummarizeWindow
  PROVE  PagesTypes' /\ ListInv'
<1> DEFINE rows == Summarize(list.fetched)
           next == list.overfetch * Widening
<1>1. list \in ListRec /\ list.overfetch \in Nat /\ list.fetched \in Seq(Thread) /\ next \in Nat
  BY ListFields, PagesAssumption DEF PagesTypes
<1>2. UNCHANGED <<checkpoints, clock, signed, viewer>> /\ list.phase = "summarize"
  BY DEF SummarizeWindow
<1>3. rows \in Seq(Thread)
  BY <1>1, SummarizeFacts
<1>4. CASE Enough(rows, list.fetched, list.overfetch)
  <2>1. list' = [list EXCEPT !.phase = "done", !.rows = rows]
    BY <1>4 DEF SummarizeWindow
  <2> HIDE DEF rows
  <2>2. list' \in ListRec
    BY Zenon, <1>1, <1>3, <2>1 DEF ListRec
  <2>3. /\ list'.phase = "done" /\ list'.rows = rows /\ list'.fetched = list.fetched
        /\ list'.asked = list.asked /\ list'.overfetch = list.overfetch
    BY <1>1, <2>1 DEF ListRec
  <2>4. PagesTypes'
    BY <1>2, <2>2 DEF PagesTypes
  <2>5. Whence'
    BY <1>2, <2>3 DEF ListInv, Whence
  <2>6. list'.rows = Summarize(list'.fetched) /\ Enough(list'.rows, list'.fetched, list'.overfetch)
    BY <1>4, <2>3 DEF rows
  <2>7. list'.asked <= Len(checkpoints')
    BY <1>2, <2>3 DEF ListInv
  <2>8. ListInv'
    BY <2>3, <2>5, <2>6, <2>7 DEF ListInv
  <2>9. QED
    BY <2>4, <2>8
<1>5. CASE ~Enough(rows, list.fetched, list.overfetch)
  <2>1. list' = [list EXCEPT !.phase = "fetch", !.overfetch = next]
    BY <1>1, <1>5 DEF SummarizeWindow, ListRec
  <2> HIDE DEF next
  <2>2. list' \in ListRec
    BY Zenon, <1>1, <2>1 DEF ListRec
  <2>3. list'.phase = "fetch" /\ list'.asked = list.asked
    BY <1>1, <2>1 DEF ListRec
  <2>4. PagesTypes'
    BY <1>2, <2>2 DEF PagesTypes
  <2>5. list'.asked <= Len(checkpoints')
    BY <1>2, <2>3 DEF ListInv
  <2>6. QED
    BY <2>3, <2>4, <2>5 DEF ListInv
<1>6. QED
  BY <1>4, <1>5

-----------------------------------------------------------------------------
(* Signed links *)

\* The cache gives a link up before it expires, and a request for one is not older
\* than the longest one.
LinkInv ==
  /\ signed.deadline <= signed.expiry
  /\ \A v \in Viewer : viewer[v].phase = "sign" =>
       viewer[v].since <= clock /\ clock <= viewer[v].since + MaxLatency

\* What a page is shown is good for another moment.
LinkStep ==
  \A v \in Viewer : (viewer[v].phase # "done" /\ viewer'[v].phase = "done") => viewer'[v].link > clock

LEMMA ViewerFields ==
  ASSUME PagesTypes, NEW v \in Viewer
  PROVE  /\ viewer[v] \in ViewerRec
         /\ viewer[v].phase \in {"idle", "sign", "done"} /\ viewer[v].since \in Nat /\ viewer[v].link \in Nat
<1>1. viewer[v] \in ViewerRec
  BY DEF PagesTypes
<1>2. QED
  BY <1>1 DEF ViewerRec

LEMMA TimesAre ==
  ASSUME PagesTypes
  PROVE  /\ clock \in Nat /\ MaxLatency \in Nat /\ Margin \in Nat /\ Lifetime \in Nat /\ MaxTime \in Nat
         /\ MaxLatency <= Margin /\ Margin < Lifetime
         /\ signed.expiry \in Nat /\ signed.deadline \in Nat
<1>1. {Lifetime, Margin, MaxLatency, MaxTime} \subseteq Nat
  BY PagesAssumption
<1>2. QED
  BY <1>1, PagesAssumption DEF PagesTypes

\* What becomes of one page's request.
LEMMA OneViewer ==
  ASSUME PagesTypes, LinkInv, NEW v \in Viewer, NEW r \in ViewerRec,
         viewer' = [viewer EXCEPT ![v] = r],
         UNCHANGED <<checkpoints, list, clock>>,
         signed' \in [expiry : Nat, deadline : Nat], signed'.deadline <= signed'.expiry,
         r.phase = "sign" => r.since = clock,
         r.phase = "done" => r.link > clock
  PROVE  PagesTypes' /\ LinkInv' /\ LinkStep
<1>1. viewer' \in [Viewer -> ViewerRec]
  BY DEF PagesTypes
<1>2. viewer'[v] = r /\ \A w \in Viewer \ {v} : viewer'[w] = viewer[w]
  BY DEF PagesTypes
<1>3. PagesTypes'
  BY <1>1 DEF PagesTypes
<1>4. ASSUME NEW w \in Viewer, viewer'[w].phase = "sign"
      PROVE  viewer'[w].since <= clock /\ clock <= viewer'[w].since + MaxLatency
  <2>1. CASE w = v
    BY <1>2, <1>4, <2>1, TimesAre
  <2>2. CASE w # v
    BY <1>2, <1>4, <2>2 DEF LinkInv
  <2>3. QED
    BY <2>1, <2>2
<1>5. LinkInv'
  BY <1>4 DEF LinkInv
<1>6. LinkStep
  BY <1>2 DEF LinkStep
<1>7. QED
  BY <1>3, <1>5, <1>6

LEMMA LinkKeeps ==
  ASSUME PagesTypes, LinkInv, LinkNext
  PROVE  PagesTypes' /\ LinkInv' /\ LinkStep
<1>1. CASE Tick
  <2>1. /\ UNCHANGED <<checkpoints, list, signed, viewer>> /\ clock' = clock + 1 /\ clock < MaxTime
        /\ \A v \in Viewer : viewer[v].phase = "sign" => clock < viewer[v].since + MaxLatency
    BY <1>1 DEF Tick
  <2>2. clock' \in 0..MaxTime
    BY <2>1, TimesAre
  <2>3. PagesTypes'
    BY <2>1, <2>2 DEF PagesTypes
  <2>4. ASSUME NEW v \in Viewer, viewer[v].phase = "sign"
        PROVE  viewer[v].since <= clock + 1 /\ clock + 1 <= viewer[v].since + MaxLatency
    <3>1. viewer[v].since <= clock /\ clock < viewer[v].since + MaxLatency
      BY <2>1, <2>4 DEF LinkInv
    <3>2. QED
      BY <3>1, ViewerFields, TimesAre
  <2>5. LinkInv'
    BY <2>1, <2>4 DEF LinkInv
  <2>6. LinkStep
    BY <2>1 DEF LinkStep
  <2>7. QED
    BY <2>3, <2>5, <2>6
<1>2. ASSUME NEW v \in Viewer, ServeCached(v)
      PROVE  PagesTypes' /\ LinkInv' /\ LinkStep
  <2> DEFINE e == signed.expiry
             r == [viewer[v] EXCEPT !.phase = "done", !.link = e]
  <2>1. viewer[v] \in ViewerRec /\ e \in Nat /\ clock < signed.deadline /\ signed.deadline <= e
    BY <1>2, ViewerFields, TimesAre DEF ServeCached, LinkInv
  <2>2. viewer' = [viewer EXCEPT ![v] = r]
    BY <1>2 DEF ServeCached, Answer
  <2>3. UNCHANGED <<checkpoints, list, clock, signed>>
    BY <1>2 DEF ServeCached
  <2>4. e > clock
    BY <2>1, TimesAre
  <2> HIDE DEF e
  <2>5. r \in ViewerRec
    BY Zenon, <2>1 DEF ViewerRec
  <2>6. r.phase = "done" /\ r.link = e
    BY <2>1 DEF ViewerRec
  <2> HIDE DEF r
  <2>7. signed' \in [expiry : Nat, deadline : Nat] /\ signed'.deadline <= signed'.expiry
    BY <2>3 DEF PagesTypes, LinkInv
  <2>8. QED
    BY <2>2, <2>3, <2>4, <2>5, <2>6, <2>7, OneViewer
<1>3. ASSUME NEW v \in Viewer, AskForLink(v)
      PROVE  PagesTypes' /\ LinkInv' /\ LinkStep
  <2> DEFINE r == [viewer[v] EXCEPT !.phase = "sign", !.since = clock]
  <2>1. viewer[v] \in ViewerRec /\ clock \in Nat
    BY ViewerFields, TimesAre
  <2>2. viewer' = [viewer EXCEPT ![v] = r] /\ UNCHANGED <<checkpoints, list, clock, signed>>
    BY <1>3 DEF AskForLink
  <2>3. r \in ViewerRec
    BY Zenon, <2>1 DEF ViewerRec
  <2>4. r.phase = "sign" /\ r.since = clock
    BY <2>1 DEF ViewerRec
  <2> HIDE DEF r
  <2>5. signed' \in [expiry : Nat, deadline : Nat] /\ signed'.deadline <= signed'.expiry
    BY <2>2 DEF PagesTypes, LinkInv
  <2>6. QED
    BY <2>2, <2>3, <2>4, <2>5, OneViewer
<1>4. ASSUME NEW v \in Viewer, GetLink(v)
      PROVE  PagesTypes' /\ LinkInv' /\ LinkStep
  <2> DEFINE since == viewer[v].since
             e == since + Lifetime
             r == [viewer[v] EXCEPT !.phase = "done", !.link = e]
  <2>1. viewer[v] \in ViewerRec /\ since \in Nat
    BY ViewerFields
  <2>2. since <= clock /\ clock <= since + MaxLatency
    BY <1>4 DEF GetLink, LinkInv
  <2>3. /\ viewer' = [viewer EXCEPT ![v] = r]
        /\ signed' = [expiry |-> e, deadline |-> clock + Lifetime - Margin]
        /\ UNCHANGED <<checkpoints, list, clock>>
    BY <1>4 DEF GetLink, Answer, Cached
  <2> HIDE DEF since
  <2>4. /\ e \in Nat /\ e > clock /\ clock + Lifetime - Margin \in Nat
        /\ clock + Lifetime - Margin <= e
    BY <2>1, <2>2, TimesAre
  <2> HIDE DEF e
  <2>5. r \in ViewerRec
    BY Zenon, <2>1, <2>4 DEF ViewerRec
  <2>6. r.phase = "done" /\ r.link = e
    BY <2>1 DEF ViewerRec
  <2> HIDE DEF r
  <2>7. signed' \in [expiry : Nat, deadline : Nat] /\ signed'.deadline <= signed'.expiry
    BY <2>3, <2>4
  <2>8. QED
    BY <2>3, <2>4, <2>5, <2>6, <2>7, OneViewer
<1>5. ASSUME NEW v \in Viewer, GetNoLink(v) \/ Revisit(v)
      PROVE  PagesTypes' /\ LinkInv' /\ LinkStep
  <2> DEFINE r == [viewer[v] EXCEPT !.phase = "idle"]
  <2>1. viewer[v] \in ViewerRec
    BY ViewerFields
  <2>2. viewer' = [viewer EXCEPT ![v] = r] /\ UNCHANGED <<checkpoints, list, clock, signed>>
    BY <1>5 DEF GetNoLink, Revisit
  <2>3. r \in ViewerRec
    BY Zenon, <2>1 DEF ViewerRec
  <2>4. r.phase = "idle"
    BY <2>1 DEF ViewerRec
  <2> HIDE DEF r
  <2>5. signed' \in [expiry : Nat, deadline : Nat] /\ signed'.deadline <= signed'.expiry
    BY <2>2 DEF PagesTypes, LinkInv
  <2>6. QED
    BY <2>2, <2>3, <2>4, <2>5, OneViewer
<1>6. QED
  BY <1>1, <1>2, <1>3, <1>4, <1>5 DEF LinkNext

-----------------------------------------------------------------------------
(* The theorems about the pages *)

PagesInv == PagesTypes /\ ListInv /\ LinkInv

LEMMA PagesInitially ==
  ASSUME PagesInit
  PROVE  PagesInv
<1>1. <<>> \in Seq(Thread) /\ Len(<<>>) = 0
  OBVIOUS
<1>2. 0 \in 0..MaxTime
  BY PagesAssumption
<1>3. PagesTypes
  BY <1>1, <1>2 DEF PagesInit, PagesTypes, ListRec, ViewerRec, NoLink
<1>4. ListInv
  BY <1>1 DEF PagesInit, ListInv
<1>5. LinkInv
  BY DEF PagesInit, LinkInv, NoLink
<1>6. QED
  BY <1>3, <1>4, <1>5 DEF PagesInv

LEMMA PagesInductive ==
  ASSUME PagesInv, [ListNext \/ LinkNext]_pageVars
  PROVE  PagesInv' /\ [LinkStep]_pageVars
<1>1. CASE ListNext
  <2>1. PagesTypes' /\ ListInv'
    BY <1>1, WriteKeeps, StartListKeeps, FetchWindowKeeps, SummarizeWindowKeeps DEF PagesInv, ListNext
  <2>2. UNCHANGED <<clock, signed, viewer>>
    BY <1>1 DEF ListNext, WriteCheckpoint, StartList, FetchWindow, SummarizeWindow
  <2>3. LinkInv'
    BY <2>2 DEF PagesInv, LinkInv
  <2>4. LinkStep
    BY <2>2 DEF LinkStep
  <2>5. QED
    BY <2>1, <2>3, <2>4 DEF PagesInv
<1>2. CASE LinkNext
  <2>1. PagesTypes' /\ LinkInv' /\ LinkStep
    BY <1>2, LinkKeeps DEF PagesInv
  <2>2. UNCHANGED <<checkpoints, list>>
    BY <1>2 DEF LinkNext, Tick, ServeCached, AskForLink, GetLink, GetNoLink, Revisit
  <2>3. ListInv'
    BY <2>2 DEF PagesInv, ListInv, Whence
  <2>4. QED
    BY <2>1, <2>3 DEF PagesInv
<1>3. CASE UNCHANGED pageVars
  BY <1>3 DEF pageVars, PagesInv, PagesTypes, ListInv, Whence, LinkInv
<1>4. QED
  BY <1>1, <1>2, <1>3

THEOREM PagesInvariance == PagesSpec => []PagesInv
<1>1. PagesInit => PagesInv
  BY PagesInitially
<1>2. PagesInv /\ [ListNext \/ LinkNext]_pageVars => PagesInv'
  BY PagesInductive
<1>3. QED
  BY <1>1, <1>2, PTL DEF PagesSpec

\* However the window of GraphService.list_runs fills with other users' checkpoints and
\* grows while more are written, a list shorter than asked for is missing none of the
\* user's runs that were there, unless the window was at its cap and full; it shows no
\* run twice.
THEOREM ListSafety == PagesSpec => []ShortListIsComplete
<1>1. PagesInv => ShortListIsComplete
  <2> DEFINE c == checkpoints
             f == list.fetched
             len == Len(c)
             m == Len(f)
             before == {c[n] : n \in (len - list.asked + 1)..len}
  <2>1. SUFFICES ASSUME PagesInv, list.phase = "done"
                 PROVE  /\ IsInjective(list.rows)
                        /\ Len(list.rows) < Limit =>
                             \/ before \cap Mine \subseteq ToSet(list.rows)
                             \/ list.overfetch >= MaxWindow /\ m = list.overfetch
    BY DEF ShortListIsComplete
  <2>2. PagesTypes /\ ListInv /\ Whence /\ list.rows = Summarize(f)
    BY <2>1 DEF PagesInv, ListInv
  <2>3. f \in Seq(Thread) /\ len \in Nat /\ m \in Nat /\ list.asked \in Nat /\ list.overfetch \in Nat
    BY <2>2, ListFields
  <2>4. /\ IsInjective(list.rows)
        /\ Len(list.rows) < Limit => Range(f) \cap Mine = Range(list.rows)
    BY <2>2, <2>3, SummarizeFacts
  <2>5. SUFFICES ASSUME Len(list.rows) < Limit
                 PROVE  \/ before \cap Mine \subseteq ToSet(list.rows)
                        \/ list.overfetch >= MaxWindow /\ m = list.overfetch
    BY <2>4
  <2>6. Range(list.rows) = ToSet(list.rows)
    BY DEF Range, ToSet
  <2>7. CASE m < list.overfetch
    <3>1. list.asked <= m /\ m <= len /\ \A n \in 1..m : c[len - m + n] = f[n]
      BY <2>2, <2>7 DEF Whence
    <3>2. DOMAIN f = 1..m
      BY <2>3, LenProperties
    <3> HIDE DEF c, f, len, m, before
    <3>3. ASSUME NEW n \in (len - list.asked + 1)..len
          PROVE  c[n] \in Range(f)
      <4>1. n - (len - m) \in 1..m /\ len - m + (n - (len - m)) = n
        BY <2>3, <3>1
      <4>2. c[n] = f[n - (len - m)]
        BY <3>1, <4>1
      <4>3. QED
        BY <3>2, <4>1, <4>2 DEF Range
    <3>4. before \subseteq Range(f)
      BY <3>3 DEF before
    <3>5. QED
      BY <2>4, <2>5, <2>6, <3>4
  <2>8. CASE ~(m < list.overfetch)
    <3>1. m <= list.overfetch
      BY <2>2 DEF Whence
    <3>2. Enough(list.rows, f, list.overfetch)
      BY <2>1, <2>2 DEF ListInv
    <3>3. list.overfetch >= MaxWindow
      <4>1. Len(list.rows) \in Nat /\ Limit \in Nat
        BY <2>2, ListFields, PagesAssumption
      <4>2. QED
        BY <2>3, <2>5, <2>8, <3>2, <4>1 DEF Enough
    <3>4. QED
      BY <2>3, <2>8, <3>1, <3>3
  <2>9. QED
    BY <2>7, <2>8
<1>2. QED
  BY <1>1, PagesInvariance, PTL

\* Whatever lay in the cache of get_pdf_signed_url and whatever order two requests came
\* back in, the page gets a link that is good for another moment.
THEOREM LinkSafety == PagesSpec => LinkIsAlive
<1>1. PagesInv /\ [ListNext \/ LinkNext]_pageVars => [LinkStep]_pageVars
  BY PagesInductive
<1>2. QED
  BY <1>1, PagesInvariance, PTL DEF PagesSpec, LinkIsAlive, LinkStep

-----------------------------------------------------------------------------
(* The evaluation's cache *)

Slot == {None} \cup {Predicted(p) : p \in Predictions}

EvalTypes ==
  /\ cache \in [Pdf -> Slot \cup {Torn}]
  /\ pinned \in [Pdf -> Slot]
  /\ harness \in [phase : {"idle", "running", "reported", "aborted"}, use_cache : BOOLEAN,
                  fail_fast : BOOLEAN, limit : 0..Len(Dataset), predictions : Seq(Slot)]
  /\ Len(harness.predictions) <= harness.limit
  /\ runs \in 0..MaxRuns

\* A prediction in the cache is the first one written there, and nothing was written
\* where there is none.
CachePinned ==
  \A d \in Pdf : /\ cache[d] = None => pinned[d] = None
                 /\ cache[d] \notin {None, Torn} => cache[d] = pinned[d]

EvalInv == EvalTypes /\ CachePinned /\ ReportIsPinned

LEMMA TagsDiffer ==
  /\ None # Torn
  /\ \A p \in Predictions : Predicted(p) # None /\ Predicted(p) # Torn
<1>1. None.tag = "none" /\ Torn.tag = "torn" /\ \A p \in Predictions : Predicted(p).tag = "predicted"
  BY DEF None, Torn, Predicted
<1>2. QED
  BY <1>1

LEMMA HarnessFields ==
  ASSUME EvalTypes
  PROVE  /\ harness.use_cache \in BOOLEAN /\ harness.limit \in 0..Len(Dataset)
         /\ harness.predictions \in Seq(Slot) /\ Len(harness.predictions) \in Nat
         /\ DOMAIN harness.predictions = 1..Len(harness.predictions)
         /\ \A n \in Rows : harness.predictions[n] \in Slot
         /\ Len(Dataset) \in Nat /\ DOMAIN Dataset = 1..Len(Dataset)
         /\ Rows \subseteq DOMAIN Dataset
         /\ \A n \in Rows : Dataset[n].pdf \in Pdf
<1>1. harness.use_cache \in BOOLEAN /\ harness.limit \in 0..Len(Dataset) /\ harness.predictions \in Seq(Slot)
  BY DEF EvalTypes
<1>2. /\ Len(harness.predictions) \in Nat /\ DOMAIN harness.predictions = 1..Len(harness.predictions)
      /\ \A n \in Rows : harness.predictions[n] \in Slot
  BY <1>1, LenProperties, ElementOfSeq DEF Rows
<1>3. Len(Dataset) \in Nat /\ DOMAIN Dataset = 1..Len(Dataset)
  BY EvaluationAssumption, LenProperties
<1>4. Len(harness.predictions) <= harness.limit
  BY DEF EvalTypes
<1>5. Rows \subseteq DOMAIN Dataset
  BY <1>1, <1>2, <1>3, <1>4 DEF Rows
<1>6. QED
  BY <1>1, <1>2, <1>3, <1>5 DEF Pdf

\* Where the harness works.
LEMMA RowIs ==
  ASSUME EvalTypes, Working
  PROVE  /\ Len(harness.predictions) + 1 \in DOMAIN Dataset
         /\ Len(harness.predictions) + 1 <= harness.limit
         /\ Row = Dataset[Len(harness.predictions) + 1] /\ Row.pdf \in Pdf
<1>1. /\ Len(harness.predictions) \in Nat /\ harness.limit \in 0..Len(Dataset)
      /\ Len(Dataset) \in Nat /\ DOMAIN Dataset = 1..Len(Dataset)
  BY HarnessFields
<1>2. Len(harness.predictions) < harness.limit
  BY DEF Working
<1>3. Len(harness.predictions) + 1 \in DOMAIN Dataset /\ Len(harness.predictions) + 1 <= harness.limit
  BY <1>1, <1>2
<1>4. QED
  BY <1>3 DEF Row, Pdf

\* Recording one more prediction.
LEMMA RecordKeeps ==
  ASSUME EvalInv, Working, NEW slot \in Slot, Record(slot), UNCHANGED runs,
         cache' \in [Pdf -> Slot \cup {Torn}], pinned' \in [Pdf -> Slot], CachePinned',
         \A d \in Pdf : pinned[d] # None => pinned'[d] = pinned[d],
         harness.use_cache => slot = None \/ slot = pinned'[Row.pdf]
  PROVE  EvalInv'
<1> DEFINE s == harness.predictions
           t == Append(s, slot)
           len == Len(s)
           limit == harness.limit
<1>1. /\ s \in Seq(Slot) /\ len \in Nat /\ DOMAIN s = 1..len /\ limit \in 0..Len(Dataset) /\ Len(Dataset) \in Nat
      /\ \A n \in 1..len : s[n] \in Slot /\ Dataset[n].pdf \in Pdf
  BY HarnessFields DEF EvalInv, Rows
<1>2. harness' = [harness EXCEPT !.predictions = t]
  BY DEF Record
<1>3. t \in Seq(Slot) /\ Len(t) = len + 1 /\ t[len + 1] = slot /\ \A n \in 1..len : t[n] = s[n]
  BY <1>1, AppendProperties
<1>4. DOMAIN t = 1..(len + 1)
  BY <1>3, LenProperties
<1>5. len + 1 <= limit /\ Row = Dataset[len + 1]
  BY RowIs DEF EvalInv
<1>6. harness.use_cache => \A n \in 1..len : s[n] = None \/ s[n] = pinned[Dataset[n].pdf]
  BY <1>1 DEF EvalInv, ReportIsPinned, Rows, Failed
<1>7. harness \in [phase : {"idle", "running", "reported", "aborted"}, use_cache : BOOLEAN,
                   fail_fast : BOOLEAN, limit : 0..Len(Dataset), predictions : Seq(Slot)]
  BY DEF EvalInv, EvalTypes
<1> HIDE DEF t, s, len, limit
<1>8. /\ harness' \in [phase : {"idle", "running", "reported", "aborted"}, use_cache : BOOLEAN,
                       fail_fast : BOOLEAN, limit : 0..Len(Dataset), predictions : Seq(Slot)]
      /\ harness'.predictions = t /\ harness'.limit = harness.limit /\ harness'.use_cache = harness.use_cache
  BY <1>2, <1>3, <1>7
<1>9. EvalTypes'
  BY <1>3, <1>5, <1>8 DEF EvalTypes, EvalInv, limit
<1>10. ASSUME harness.use_cache, NEW n \in 1..(len + 1)
       PROVE  t[n] = None \/ t[n] = pinned'[Dataset[n].pdf]
  <2>1. CASE n = len + 1
    BY <1>3, <1>5, <1>10, <2>1
  <2>2. CASE n \in 1..len
    <3>1. s[n] = None \/ s[n] = pinned[Dataset[n].pdf]
      BY <1>6, <1>10, <2>2
    <3>2. QED
      BY <1>1, <1>3, <2>2, <3>1
  <2>3. QED
    BY <1>1, <2>1, <2>2
<1>11. ReportIsPinned'
  BY <1>4, <1>8, <1>10 DEF ReportIsPinned, Rows, Failed
<1>12. QED
  BY <1>9, <1>11 DEF EvalInv

\* The harness gives up, or reports: what it has predicted stays.
LEMMA PhaseKeeps ==
  ASSUME EvalInv, NEW phase \in {"reported", "aborted"}, harness' = [harness EXCEPT !.phase = phase],
         UNCHANGED runs, cache' \in [Pdf -> Slot \cup {Torn}], pinned' \in [Pdf -> Slot], CachePinned',
         \A d \in Pdf : pinned[d] # None => pinned'[d] = pinned[d]
  PROVE  EvalInv'
<1>1. /\ harness' \in [phase : {"idle", "running", "reported", "aborted"}, use_cache : BOOLEAN,
                       fail_fast : BOOLEAN, limit : 0..Len(Dataset), predictions : Seq(Slot)]
      /\ harness'.predictions = harness.predictions /\ harness'.limit = harness.limit
      /\ harness'.use_cache = harness.use_cache
  BY DEF EvalInv, EvalTypes
<1>2. EvalTypes'
  BY <1>1 DEF EvalInv, EvalTypes
<1>3. \A n \in Rows : Dataset[n].pdf \in Pdf
  BY HarnessFields DEF EvalInv
<1>4. ReportIsPinned'
  BY <1>1, <1>3 DEF EvalInv, ReportIsPinned, Rows, Failed
<1>5. QED
  BY <1>2, <1>4 DEF EvalInv

\* What a prediction leaves in the cache.
LEMMA StoreKeeps ==
  ASSUME EvalInv, Working, ~Hit, NEW p \in Predictions, Store(p)
  PROVE  /\ cache' \in [Pdf -> Slot \cup {Torn}] /\ pinned' \in [Pdf -> Slot] /\ CachePinned'
         /\ \A d \in Pdf : pinned[d] # None => pinned'[d] = pinned[d]
         /\ harness.use_cache => Predicted(p) = pinned'[Row.pdf]
<1> DEFINE d == Row.pdf
           slot == Predicted(p)
<1>1. d \in Pdf /\ slot \in Slot /\ slot # None /\ slot # Torn
  BY RowIs, TagsDiffer DEF EvalInv, Slot
<1>2. cache \in [Pdf -> Slot \cup {Torn}] /\ pinned \in [Pdf -> Slot] /\ CachePinned
  BY DEF EvalInv, EvalTypes
<1>3. CASE ~harness.use_cache
  BY <1>2, <1>3 DEF Store, CachePinned
<1>4. CASE harness.use_cache
  <2>1. cache[d] = None
    BY <1>4 DEF Hit
  <2>2. pinned[d] = None
    BY <1>1, <1>2, <2>1 DEF CachePinned
  <2>3. cache' = [cache EXCEPT ![d] = slot] /\ pinned' = [pinned EXCEPT ![d] = slot]
    BY <1>4, <2>2 DEF Store
  <2> HIDE DEF d, slot
  <2>4. CachePinned'
    BY <1>1, <1>2, <2>3 DEF CachePinned
  <2>5. QED
    BY <1>1, <1>2, <2>2, <2>3, <2>4 DEF d, slot
<1>5. QED
  BY <1>3, <1>4

LEMMA EvalInductive ==
  ASSUME EvalInv, [EvalNext]_evalVars
  PROVE  EvalInv'
<1>0. /\ cache \in [Pdf -> Slot \cup {Torn}] /\ pinned \in [Pdf -> Slot] /\ CachePinned /\ EvalTypes
  BY DEF EvalInv, EvalTypes
<1>1. ASSUME NEW use_cache \in BOOLEAN, NEW fail_fast \in BOOLEAN, NEW limit \in 0..Len(Dataset),
             StartHarness(use_cache, fail_fast, limit)
      PROVE  EvalInv'
  <2>1. harness' = [phase |-> "running", use_cache |-> use_cache, fail_fast |-> fail_fast,
                    limit |-> limit, predictions |-> <<>>]
    BY <1>1 DEF StartHarness, Resting
  <2>2. runs' \in 0..MaxRuns /\ UNCHANGED <<cache, pinned>>
    BY <1>1, EvaluationAssumption DEF StartHarness, EvalInv, EvalTypes
  <2>3. <<>> \in Seq(Slot) /\ Len(<<>>) = 0 /\ Len(<<>>) <= limit
    BY HarnessFields, <1>0
  <2>4. EvalTypes'
    BY <1>0, <2>1, <2>2, <2>3 DEF EvalTypes
  <2>5. ReportIsPinned'
    BY <2>1 DEF ReportIsPinned, Rows
  <2>6. QED
    BY <1>0, <2>2, <2>4, <2>5 DEF EvalInv, CachePinned
<1>2. CASE PredictFromCache
  <2> DEFINE slot == cache[Row.pdf]
  <2>1. Working /\ Record(slot) /\ UNCHANGED <<cache, runs, pinned>> /\ slot # None /\ slot # Torn
    BY <1>2 DEF PredictFromCache, Hit
  <2>2. Row.pdf \in Pdf
    BY <1>0, <2>1, RowIs
  <2>3. slot \in Slot /\ slot = pinned[Row.pdf]
    BY <1>0, <2>1, <2>2 DEF CachePinned
  <2> HIDE DEF slot
  <2>4. CachePinned'
    BY <1>0, <2>1 DEF CachePinned
  <2>5. slot = pinned'[Row.pdf]
    BY <2>1, <2>3
  <2>6. QED
    BY <1>0, <2>1, <2>3, <2>4, <2>5, RecordKeeps
<1>3. CASE PredictFromTornCache
  <2>1. harness' = [harness EXCEPT !.phase = "aborted"] /\ UNCHANGED <<cache, runs, pinned>>
    BY <1>3 DEF PredictFromTornCache
  <2>2. CachePinned'
    BY <1>0, <2>1 DEF CachePinned
  <2>3. QED
    BY <1>0, <2>1, <2>2, PhaseKeeps
<1>4. CASE Predict
  <2>1. PICK p \in Predictions : Record(Predicted(p)) /\ Store(p)
    BY <1>4 DEF Predict
  <2>2. Working /\ ~Hit /\ UNCHANGED runs
    BY <1>4 DEF Predict
  <2> DEFINE slot == Predicted(p)
  <2>3. slot \in Slot /\ Record(slot)
    BY <2>1 DEF Slot
  <2>4. /\ cache' \in [Pdf -> Slot \cup {Torn}] /\ pinned' \in [Pdf -> Slot] /\ CachePinned'
        /\ \A d \in Pdf : pinned[d] # None => pinned'[d] = pinned[d]
        /\ harness.use_cache => slot = pinned'[Row.pdf]
    BY <2>1, <2>2, StoreKeeps
  <2> HIDE DEF slot
  <2>5. QED
    BY <2>2, <2>3, <2>4, RecordKeeps
<1>5. CASE PredictFailed
  <2>1. UNCHANGED <<cache, runs, pinned>> /\ Working
    BY <1>5 DEF PredictFailed
  <2>2. CachePinned'
    BY <1>0, <2>1 DEF CachePinned
  <2>3. CASE harness.fail_fast
    <3>1. harness' = [harness EXCEPT !.phase = "aborted"]
      BY <1>5, <2>3 DEF PredictFailed
    <3>2. QED
      BY <1>0, <2>1, <2>2, <3>1, PhaseKeeps
  <2>4. CASE ~harness.fail_fast
    <3>1. Record(None) /\ None \in Slot
      BY <1>5, <2>4 DEF PredictFailed, Slot
    <3>2. QED
      BY <1>0, <2>1, <2>2, <3>1, RecordKeeps
  <2>5. QED
    BY <2>3, <2>4
<1>6. CASE KilledHarness
  <2>1. Working /\ UNCHANGED runs /\ harness' = [harness EXCEPT !.phase = "aborted"]
    BY <1>6 DEF KilledHarness
  <2>2. CASE UNCHANGED <<cache, pinned>>
    <3>1. CachePinned'
      BY <1>0, <2>2 DEF CachePinned
    <3>2. QED
      BY <1>0, <2>1, <2>2, <3>1, PhaseKeeps
  <2>3. CASE ~Hit /\ harness.use_cache /\ cache' = [cache EXCEPT ![Row.pdf] = Torn] /\ UNCHANGED pinned
    <3> DEFINE d == Row.pdf
    <3>1. d \in Pdf
      BY <1>0, <2>1, RowIs
    <3>2. cache' = [cache EXCEPT ![d] = Torn]
      BY <2>3
    <3> HIDE DEF d
    <3>3. cache' \in [Pdf -> Slot \cup {Torn}]
      BY <1>0, <3>1, <3>2
    <3>4. CachePinned'
      BY <1>0, <2>3, <3>1, <3>2, TagsDiffer DEF CachePinned
    <3>5. pinned' \in [Pdf -> Slot] /\ \A e \in Pdf : pinned'[e] = pinned[e]
      BY <1>0, <2>3
    <3>6. QED
      BY <2>1, <3>3, <3>4, <3>5, PhaseKeeps
  <2>4. ASSUME ~Hit, NEW p \in Predictions, Store(p)
        PROVE  EvalInv'
    BY <2>1, <2>4, StoreKeeps, PhaseKeeps
  <2>5. QED
    BY <1>6, <2>2, <2>3, <2>4 DEF KilledHarness
<1>7. CASE WriteReport
  <2>1. harness' = [harness EXCEPT !.phase = "reported"] /\ UNCHANGED <<cache, runs, pinned>>
    BY <1>7 DEF WriteReport
  <2>2. CachePinned'
    BY <1>0, <2>1 DEF CachePinned
  <2>3. QED
    BY <1>0, <2>1, <2>2, PhaseKeeps
<1>8. CASE UNCHANGED evalVars
  BY <1>8 DEF evalVars, EvalInv, EvalTypes, CachePinned, ReportIsPinned, Rows, Failed
<1>9. Len(Dataset) \in Nat /\ Len(Dataset) \in 0..Len(Dataset)
      /\ \A limit \in 0..(Len(Dataset) - 1) : limit \in 0..Len(Dataset)
  BY <1>0, HarnessFields
<1>10. CASE \E use_cache, fail_fast \in BOOLEAN : StartHarness(use_cache, fail_fast, Len(Dataset))
  BY <1>1, <1>9, <1>10
<1>11. CASE \E limit \in 0..(Len(Dataset) - 1) : StartHarness(TRUE, FALSE, limit)
  BY <1>1, <1>9, <1>11
<1>12. QED
  BY <1>2, <1>3, <1>4, <1>5, <1>6, <1>7, <1>8, <1>10, <1>11 DEF EvalNext

LEMMA EvalInitially ==
  ASSUME EvalInit
  PROVE  EvalInv
<1>1. <<>> \in Seq(Slot) /\ Len(<<>>) = 0 /\ 0 \in 0..Len(Dataset) /\ 0 \in 0..MaxRuns
  BY EvaluationAssumption, LenProperties
<1>2. EvalTypes
  BY <1>1 DEF EvalInit, EvalTypes, Resting, Slot
<1>3. CachePinned
  BY DEF EvalInit, CachePinned
<1>4. ReportIsPinned
  BY DEF EvalInit, Resting, ReportIsPinned, Rows
<1>5. QED
  BY <1>2, <1>3, <1>4 DEF EvalInv

THEOREM EvalInvariance == EvalSpec => []EvalInv
<1>1. EvalInit => EvalInv
  BY EvalInitially
<1>2. EvalInv /\ [EvalNext]_evalVars => EvalInv'
  BY EvalInductive
<1>3. QED
  BY <1>1, <1>2, PTL DEF EvalSpec

\* "The cache also pins evals/report.md to one specific run" (run_eval.py): whatever is
\* run in between, with or without the cache, failing or killed in the middle of a
\* write, a cached run gets the prediction first written, or none.
THEOREM PinnedSafety == EvalSpec => []ReportIsPinned
<1>1. EvalInv => ReportIsPinned
  BY DEF EvalInv
<1>2. QED
  BY <1>1, EvalInvariance, PTL

-----------------------------------------------------------------------------
(* What validation accepts *)

\* f is the table of sums SumOf builds.
Sums(f, a) == f = [n \in 0..Len(a) |-> IF n = 0 THEN 0 ELSE f[n - 1] + a[n]]

\* SumOf adds up from the left.
LEMMA SumUnfolds ==
  ASSUME NEW a \in Seq(Int)
  PROVE  \E f \in [0..Len(a) -> Int] :
           f[0] = 0 /\ (\A n \in 1..Len(a) : f[n] = f[n - 1] + a[n]) /\ SumOf(a) = f[Len(a)]
<1> DEFINE len == Len(a)
           chosen == CHOOSE f : Sums(f, a)
<1>1. len \in Nat /\ \A n \in 1..len : a[n] \in Int
  BY LenProperties, ElementOfSeq
<1>2. SumOf(a) = chosen[len]
  BY DEF SumOf, Sums
<1>3. \E f : Sums(f, a)
  <2> DEFINE step == [x \in Int \X Nat |-> IF x[2] \in 1..len THEN x[1] + a[x[2]] ELSE 0]
  <2>1. step \in [Int \X Nat -> Int]
    BY <1>1
  <2>2. \A v \in Int, n \in 1..len : step[<<v, n>>] = v + a[n]
    BY <1>1
  <2> HIDE DEF step
  <2>3. PICK f \in [0..len -> Int] :
          \A n \in 0..len : f[n] = IF n = 0 THEN 0 ELSE step[<<f[n - 1], n>>]
    <3> DEFINE V == Int
               zero == 0
    <3>1. zero \in V /\ step \in [V \X Nat -> V]
      BY <2>1
    <3> HIDE DEF V, zero, len
    <3>2. \A m \in Nat : Chain(V, zero, step, m)
      BY <3>1, Chains
    <3>3. \E f \in [0..len -> V] :
            \A n \in 0..len : f[n] = IF n = 0 THEN zero ELSE step[<<f[n - 1], n>>]
      BY <1>1, <3>2 DEF Chain
    <3>4. QED
      BY <3>3 DEF V, zero
  <2>4. \A n \in 0..len : f[n] = IF n = 0 THEN 0 ELSE f[n - 1] + a[n]
    <3> HIDE DEF len
    <3>1. ASSUME NEW n \in 1..len PROVE step[<<f[n - 1], n>>] = f[n - 1] + a[n]
      <4>1. n - 1 \in 0..len
        BY <1>1
      <4>2. f[n - 1] \in Int
        BY <4>1
      <4>3. QED
        BY <2>2, <4>2
    <3>2. \A n \in 0..len : n = 0 \/ n \in 1..len
      BY <1>1
    <3>3. QED
      BY <2>3, <3>1, <3>2
  <2>5. f = [n \in 0..len |-> IF n = 0 THEN 0 ELSE f[n - 1] + a[n]]
    BY <2>4
  <2>6. QED
    BY <2>5 DEF Sums
<1>4. Sums(chosen, a)
  BY <1>3
<1> HIDE DEF chosen
<1>5. chosen = [n \in 0..len |-> chosen[n]]
      /\ \A n \in 0..len : chosen[n] = IF n = 0 THEN 0 ELSE chosen[n - 1] + a[n]
  BY <1>4 DEF Sums
<1> HIDE DEF len
<1> DEFINE T == {n \in Nat : n <= len => chosen[n] \in Int}
<1>6. 0 \in T
  BY <1>1, <1>5
<1>7. ASSUME NEW n \in Nat, n \in T
      PROVE  n + 1 \in T
  <2> SUFFICES ASSUME n + 1 <= len PROVE chosen[n + 1] \in Int
    OBVIOUS
  <2>1. chosen[n] \in Int /\ n + 1 \in 0..len /\ n + 1 # 0 /\ (n + 1) - 1 = n /\ n + 1 \in 1..len
    BY <1>1, <1>7
  <2>2. chosen[n + 1] = chosen[n] + a[n + 1]
    BY <1>5, <2>1
  <2>3. QED
    BY <1>1, <2>1, <2>2
<1> HIDE DEF T
<1>8. \A n \in Nat : n \in T
  BY <1>6, <1>7, NatInduct
<1>9. \A n \in 0..len : n \in Nat /\ n <= len
  BY <1>1
<1>10. chosen \in [0..len -> Int]
  BY <1>5, <1>8, <1>9 DEF T
<1>11. chosen[0] = 0 /\ \A n \in 1..len : chosen[n] = chosen[n - 1] + a[n]
  BY <1>1, <1>5
<1>12. QED
  BY <1>2, <1>10, <1>11 DEF len

\* The sum of a sequence of integers is one.
LEMMA SumIsInt ==
  ASSUME NEW a \in Seq(Int)
  PROVE  SumOf(a) \in Int
<1>1. PICK f \in [0..Len(a) -> Int] : SumOf(a) = f[Len(a)]
  BY SumUnfolds
<1>2. Len(a) \in 0..Len(a)
  BY LenProperties
<1>3. QED
  BY <1>1, <1>2

\* What the validator sees of line items.
LEMMA AmountsAreInts ==
  ASSUME NEW items \in Seq(LineItem)
  PROVE  [n \in DOMAIN items |-> items[n].amount] \in Seq(Int)
<1>1. DOMAIN items = 1..Len(items) /\ Len(items) \in Nat /\ \A n \in DOMAIN items : items[n] \in LineItem
  BY LenProperties, ElementOfSeq
<1>2. \A item \in LineItem : item.amount \in Int
  BY DEF LineItem
<1>3. [n \in DOMAIN items |-> items[n].amount] \in [1..Len(items) -> Int]
  BY <1>1, <1>2
<1>4. QED
  BY <1>1, <1>3, Table

\* Rounding moves an amount by half a cent at most.
LEMMA RoundIsNear ==
  ASSUME NEW a \in Int, NEW up
  PROVE  Round(a, up) \in Int /\ 2 * Distance(Round(a, up), a) <= Cent
<1> DEFINE rest == a % Cent
<1>1. rest \in Int /\ 0 <= rest /\ rest < Cent /\ Cent \in Int
  BY CentAssumption
<1>2. Round(a, up) = IF 2 * rest < Cent \/ (2 * rest = Cent /\ ~up) THEN a - rest ELSE a - rest + Cent
  BY DEF Round
<1> HIDE DEF rest
<1>3. CASE 2 * rest < Cent \/ (2 * rest = Cent /\ ~up)
  <2>1. Round(a, up) = a - rest /\ 2 * rest <= Cent
    BY <1>1, <1>2, <1>3
  <2>2. QED
    BY <1>1, <2>1 DEF Distance
<1>4. CASE ~(2 * rest < Cent \/ (2 * rest = Cent /\ ~up))
  <2>1. Round(a, up) = a - rest + Cent /\ 2 * rest >= Cent
    BY <1>1, <1>2, <1>4
  <2>2. QED
    BY <1>1, <2>1 DEF Distance
<1>5. QED
  BY <1>3, <1>4

\* An invoice no check flags is off by two tolerances and a cent at most, and due, if
\* at all, on a day that is not before the invoice's.
LEMMA UnflaggedIsBalanced ==
  ASSUME NEW inv, SumOf(inv.amounts) \in Int, inv.subtotal \in Int, inv.tax \in Int, inv.total \in Int,
         inv.invoice_date \in Int, inv.due_date \in Int,
         Flags(RunChecks(inv, "unchecked")) = {}
  PROVE  /\ Distance(SumOf(inv.amounts) + inv.tax, inv.total) <= 2 * Tolerance + Cent
         /\ inv.due_date = NoDate \/ (inv.due_date >= inv.invoice_date /\ inv.invoice_date # BadDate)
<1> DEFINE checks == RunChecks(inv, "unchecked")
           items == Round(SumOf(inv.amounts), inv.edge.items_up)
           totals == Round(inv.subtotal + inv.tax, inv.edge.totals_up)
           on == ParseIsoDate(inv.invoice_date)
           due == ParseIsoDate(inv.due_date)
           ordered == on # NoDate /\ due # NoDate
           Row1(applies, holds) == [passed |-> applies => holds, skipped |-> ~applies]
           rows ==
             [line_items_sum |-> Row1(TRUE, Within(items, inv.subtotal, inv.edge.items)),
              totals_match |-> Row1(TRUE, Within(totals, inv.total, inv.edge.totals)),
              invoice_date_valid |-> Row1(TRUE, on # NoDate),
              due_date_valid |-> Row1(inv.due_date # NoDate, due # NoDate),
              due_date_after_invoice_date |-> Row1(ordered, due >= on),
              not_duplicate |-> Row1("unchecked" # "unchecked", "unchecked" # "yes")]
<1>1. checks = rows
  BY DEF RunChecks
<1>2. \A id \in DOMAIN checks : checks[id].passed
  BY DEF Flags
<1> HIDE DEF checks
<1>3. /\ rows.line_items_sum.passed /\ rows.totals_match.passed /\ rows.invoice_date_valid.passed
      /\ rows.due_date_valid.passed /\ rows.due_date_after_invoice_date.passed
  BY <1>1, <1>2
<1>4. /\ Within(items, inv.subtotal, inv.edge.items)
      /\ Within(totals, inv.total, inv.edge.totals)
      /\ on # NoDate /\ (inv.due_date # NoDate => due # NoDate) /\ (ordered => due >= on)
  BY <1>3
<1> HIDE DEF rows
<1> DEFINE sum == SumOf(inv.amounts)
           subtotal == inv.subtotal
           tax == inv.tax
           total == inv.total
<1>5. Distance(items, subtotal) <= Cent /\ Distance(totals, total) <= Cent
  <2>1. \A a, b, edge : Within(a, b, edge) => Distance(a, b) < Cent \/ Distance(a, b) = Cent
    BY DEF Within, Tolerance
  <2>2. items \in Int /\ totals \in Int /\ Cent \in Int
    BY RoundIsNear, CentAssumption
  <2>3. Distance(items, subtotal) \in Int /\ Distance(totals, total) \in Int
    BY <2>2 DEF Distance
  <2>4. QED
    BY <1>4, <2>1, <2>2, <2>3
<1>6. /\ sum \in Int /\ subtotal \in Int /\ tax \in Int /\ total \in Int /\ Cent \in Int
      /\ items \in Int /\ 2 * Distance(items, sum) <= Cent
      /\ totals \in Int /\ 2 * Distance(totals, subtotal + tax) <= Cent
  BY RoundIsNear, CentAssumption
<1> HIDE DEF sum, subtotal, tax, total, items, totals
<1>7. Distance(sum + tax, total) <= 2 * Tolerance + Cent
  BY <1>5, <1>6 DEF Distance, Tolerance
<1>8. inv.due_date = NoDate \/ (inv.due_date >= inv.invoice_date /\ inv.invoice_date # BadDate)
  BY <1>4 DEF ParseIsoDate, NoDate, BadDate
<1>9. QED
  BY <1>7, <1>8 DEF sum, tax, total

\* An invoice that validate_invoice passes is off by at most three cents from its line
\* items to its total, whatever fractions of a cent its amounts have: its two sums are
\* checked one after the other, each rounded and compared to a cent. Its due date, if
\* it has one, is readable and not before the invoice's.
THEOREM BalanceSafety == EvalSpec => []AcceptedIsBalanced
<1>1. EvalInv => AcceptedIsBalanced
  <2>1. SUFFICES ASSUME EvalInv, NEW n \in Rows, Results[n].validated
                 PROVE  LET inv == AsInvoice(Prediction(n))
                        IN  /\ Distance(SumOf(inv.amounts) + inv.tax, inv.total) <= 2 * Tolerance + Cent
                            /\ \/ inv.due_date = NoDate
                               \/ inv.due_date >= inv.invoice_date /\ inv.invoice_date # BadDate
    BY DEF AcceptedIsBalanced
  <2> DEFINE slot == harness.predictions[n]
             p == slot.invoice
             inv == AsInvoice(p)
             failed == slot = None
             shown == IF failed THEN <<>> ELSE p
  <2>2. slot \in Slot
    BY <2>1, HarnessFields DEF EvalInv
  <2>3. Results[n] = ScoreDocument(Dataset[n].gold, shown, failed)
    BY <2>1 DEF Results, Rows
  <2>4. ScoreDocument(Dataset[n].gold, shown, failed).validated
          = (~failed /\ Flags(RunChecks(AsInvoice(shown), "unchecked")) = {})
    BY DEF ScoreDocument
  <2>5. ~failed /\ Flags(RunChecks(AsInvoice(shown), "unchecked")) = {}
    BY <2>1, <2>3, <2>4
  <2>6. Flags(RunChecks(inv, "unchecked")) = {}
    BY <2>5
  <2>7. p \in Predictions
    BY <2>2, <2>5 DEF Slot, Predicted
  <2>8. /\ {p.subtotal, p.tax, p.total, p.invoice_date, p.due_date} \subseteq Int
        /\ [m \in DOMAIN p.line_items |-> p.line_items[m].amount] \in Seq(Int)
    <3>1. p.line_items \in Seq(LineItem) /\ {p.subtotal, p.tax, p.total, p.invoice_date, p.due_date} \subseteq Int
      BY <2>7, EvaluationAssumption
    <3>2. QED
      BY <3>1, AmountsAreInts
  <2>9. /\ inv.amounts = [m \in DOMAIN p.line_items |-> p.line_items[m].amount]
        /\ inv.subtotal = p.subtotal /\ inv.tax = p.tax /\ inv.total = p.total
        /\ inv.invoice_date = p.invoice_date /\ inv.due_date = p.due_date
    BY DEF AsInvoice
  <2>10. inv = AsInvoice(Prediction(n))
    BY DEF Prediction
  <2> HIDE DEF inv, p, slot, failed
  <2>11. SumOf(inv.amounts) \in Int
    BY <2>8, <2>9, SumIsInt
  <2>12. inv.subtotal \in Int /\ inv.tax \in Int /\ inv.total \in Int
         /\ inv.invoice_date \in Int /\ inv.due_date \in Int
    BY <2>8, <2>9
  <2>13. /\ Distance(SumOf(inv.amounts) + inv.tax, inv.total) <= 2 * Tolerance + Cent
         /\ inv.due_date = NoDate \/ (inv.due_date >= inv.invoice_date /\ inv.invoice_date # BadDate)
    BY <2>6, <2>11, <2>12, UnflaggedIsBalanced
  <2>14. QED
    BY <2>10, <2>13
<1>2. QED
  BY <1>1, EvalInvariance, PTL

-----------------------------------------------------------------------------
(* The pairing of line items *)

\* R orders the elements of A one after the other.
Ranks(A, R) ==
  /\ \A x \in A : <<x, x>> \notin R
  /\ \A x, y, z \in A : <<x, y>> \in R /\ <<y, z>> \in R => <<x, z>> \in R
  /\ \A x, y \in A : x # y => <<x, y>> \in R \/ <<y, x>> \in R

\* An element's rank is the number of those up to it.
Rank(A, R) == [x \in A |-> 1 + Cardinality({y \in A : <<y, x>> \in R})]

\* Each rank of a finite order is taken, by one element, and the order is that of
\* the ranks.
LEMMA Ranked ==
  ASSUME NEW A, IsFiniteSet(A), NEW R, Ranks(A, R)
  PROVE  /\ Rank(A, R) \in Bijection(A, 1..Cardinality(A))
         /\ \A x, y \in A : <<x, y>> \in R <=> Rank(A, R)[x] < Rank(A, R)[y]
<1> DEFINE below(x) == {y \in A : <<y, x>> \in R}
           rank == Rank(A, R)
           card == Cardinality(A)
<1>1. ASSUME NEW x \in A
      PROVE  /\ IsFiniteSet(below(x)) /\ Cardinality(below(x)) \in Nat
             /\ rank[x] = 1 + Cardinality(below(x))
             /\ Cardinality(below(x)) < card /\ card \in Nat
  <2> DEFINE b == below(x)
             rest == A \ {x}
  <2>1. b \subseteq rest
    BY <1>1 DEF Ranks
  <2>2. IsFiniteSet(rest) /\ Cardinality(rest) = card - 1 /\ card \in Nat
    BY <1>1, FS_RemoveElement, FS_CardinalityType
  <2>3. rank[x] = 1 + Cardinality(b)
    BY <1>1 DEF Rank
  <2> HIDE DEF b, rest, rank
  <2>4. IsFiniteSet(b) /\ Cardinality(b) <= Cardinality(rest) /\ Cardinality(b) \in Nat
    BY <2>1, <2>2, FS_Subset, FS_CardinalityType
  <2>5. Cardinality(b) < card
    BY <2>2, <2>4
  <2>6. QED
    BY <2>2, <2>3, <2>4, <2>5 DEF b
<1>2. ASSUME NEW x \in A, NEW y \in A, <<x, y>> \in R
      PROVE  rank[x] < rank[y]
  <2> DEFINE b == below(x)
             c == below(y)
             more == b \cup {x}
  <2>1. x \notin b /\ more \subseteq c
    BY <1>2 DEF Ranks
  <2>2. /\ IsFiniteSet(b) /\ Cardinality(b) \in Nat /\ rank[x] = 1 + Cardinality(b)
        /\ IsFiniteSet(c) /\ Cardinality(c) \in Nat /\ rank[y] = 1 + Cardinality(c)
    BY <1>1
  <2> HIDE DEF b, c, rank
  <2>3. IsFiniteSet(more) /\ Cardinality(more) = Cardinality(b) + 1
    BY <2>1, <2>2, FS_AddElement
  <2> HIDE DEF more
  <2>4. Cardinality(more) <= Cardinality(c)
    BY <2>1, <2>2, FS_Subset
  <2>5. QED
    BY <2>2, <2>3, <2>4
<1>3. ASSUME NEW x \in A
      PROVE  rank[x] \in 1..card
  <2> DEFINE n == Cardinality(below(x))
  <2>1. n \in Nat /\ n < card /\ card \in Nat /\ rank[x] = 1 + n
    BY <1>1
  <2> HIDE DEF n, rank, card
  <2>2. QED
    BY <2>1
<1>4. DOMAIN rank = A /\ rank = [x \in A |-> rank[x]]
  BY DEF Rank
<1> HIDE DEF rank, below, card
<1>5. rank \in [A -> 1..card]
  BY <1>3, <1>4
<1>6. \A x \in A : rank[x] \in Int
  BY <1>3
<1>7. \A x, y \in A : x # y => rank[x] # rank[y]
  <2> SUFFICES ASSUME NEW x \in A, NEW y \in A, x # y PROVE rank[x] # rank[y]
    OBVIOUS
  <2>1. <<x, y>> \in R \/ <<y, x>> \in R
    BY DEF Ranks
  <2>2. rank[x] < rank[y] \/ rank[y] < rank[x]
    BY <1>2, <2>1
  <2>3. QED
    BY <1>6, <2>2
<1>8. \A x, y \in A : <<x, y>> \in R <=> rank[x] < rank[y]
  <2> SUFFICES ASSUME NEW x \in A, NEW y \in A, rank[x] < rank[y] PROVE <<x, y>> \in R
    BY <1>2
  <2>1. x # y
    BY <1>6
  <2>2. CASE <<y, x>> \in R
    BY <1>2, <1>6, <2>2
  <2>3. QED
    BY <2>1, <2>2 DEF Ranks
<1> DEFINE P == 1..card
<1>9. rank \in Injection(A, P)
  BY <1>5, <1>7 DEF Injection, IsInjective
<1>10. IsFiniteSet(P) /\ Cardinality(P) = Cardinality(A)
  <2>1. card \in Nat
    BY FS_CardinalityType DEF card
  <2>2. Cardinality(P) = IF 1 > card THEN 0 ELSE card - 1 + 1
    BY <2>1, FS_Interval
  <2>3. IsFiniteSet(P)
    BY <2>1, FS_Interval
  <2> HIDE DEF P
  <2>4. Cardinality(P) = card
    BY <2>1, <2>2
  <2>5. QED
    BY <2>3, <2>4 DEF card
<1> HIDE DEF P
<1>11. rank \in Surjection(A, P)
  BY <1>9, <1>10, FS_Injection
<1>12. QED
  BY <1>8, <1>9, <1>11 DEF Bijection, rank, P, card

Sorted(A, R) == [n \in 1..Cardinality(A) |-> CHOOSE x \in A : Rank(A, R)[x] = n]

\* In its order a finite set is a sequence that has each of its elements.
LEMMA InOrder ==
  ASSUME NEW A, IsFiniteSet(A), NEW R, Ranks(A, R), NEW s, s = Sorted(A, R)
  PROVE  /\ s \in Seq(A)
         /\ \A x \in A : \E n \in DOMAIN s : s[n] = x
         /\ \A i, j \in DOMAIN s : i < j => <<s[j], s[i]>> \notin R
<1> DEFINE rank == Rank(A, R)
           card == Cardinality(A)
           P == 1..card
<1>1. rank \in Bijection(A, P) /\ \A x, y \in A : <<x, y>> \in R <=> rank[x] < rank[y]
  BY Ranked
<1>2. card \in Nat
  BY FS_CardinalityType
<1>3. DOMAIN s = P /\ s = [n \in P |-> s[n]] /\ \A n \in P : s[n] = CHOOSE x \in A : rank[x] = n
  BY DEF Sorted
<1> HIDE DEF rank
<1>4. /\ \A x \in A : rank[x] \in P
      /\ \A x, y \in A : rank[x] = rank[y] => x = y
      /\ \A n \in P : \E x \in A : rank[x] = n
  BY <1>1 DEF Bijection, Injection, Surjection, IsInjective
<1>5. \A n \in P : s[n] \in A /\ rank[s[n]] = n
  BY <1>3, <1>4
<1>6. \A x \in A : s[rank[x]] = x
  BY <1>4, <1>5
<1>7. s \in [P -> A]
  BY <1>3, <1>5
<1> HIDE DEF card
<1>8. s \in Seq(A)
  BY <1>2, <1>7, Table DEF P
<1>9. ASSUME NEW i \in P, NEW j \in P, i < j
      PROVE  <<s[j], s[i]>> \notin R
  <2>1. s[i] \in A /\ s[j] \in A /\ rank[s[i]] = i /\ rank[s[j]] = j
    BY <1>5
  <2>2. <<s[j], s[i]>> \in R => j < i
    BY <1>1, <2>1
  <2>3. i \in Int /\ j \in Int
    BY <1>2 DEF P
  <2>4. QED
    BY <1>9, <2>2, <2>3
<1>10. QED
  BY <1>3, <1>4, <1>6, <1>8, <1>9

\* The similarity of two rows is a number.
LEMMA SimilarityIsInt ==
  ASSUME NEW p, NEW g, p.description \in Int, g.description \in Int
  PROVE  ItemSimilarity(p, g) \in Int
<1> DEFINE agreed == {f \in ItemFields \ {"description"} : p[f] = g[f]}
           n == Cardinality(agreed)
           d == DescriptionSimilarity(p.description, g.description)
<1>1. d \in Int
  BY DEF DescriptionSimilarity, Distance
<1>2. n \in Nat
  <2> DEFINE F == {"quantity", "unit_price", "amount"}
  <2>1. IsFiniteSet(F)
    <3>1. IsFiniteSet({} \cup {"quantity"})
      BY FS_EmptySet, FS_AddElement
    <3>2. IsFiniteSet(({} \cup {"quantity"}) \cup {"unit_price"})
      BY <3>1, FS_AddElement
    <3>3. IsFiniteSet((({} \cup {"quantity"}) \cup {"unit_price"}) \cup {"amount"})
      BY <3>2, FS_AddElement
    <3>4. F = (({} \cup {"quantity"}) \cup {"unit_price"}) \cup {"amount"}
      OBVIOUS
    <3>5. QED
      BY <3>3, <3>4
  <2>2. ItemFields = {LINE_ITEM_FIELDS[i] : i \in DOMAIN LINE_ITEM_FIELDS}
    BY DEF ItemFields, Range
  <2>3. \A i \in DOMAIN LINE_ITEM_FIELDS : LINE_ITEM_FIELDS[i] \in F \cup {"description"}
    BY DEF LINE_ITEM_FIELDS
  <2>4. agreed \subseteq F
    BY <2>2, <2>3
  <2> HIDE DEF F, agreed
  <2>5. IsFiniteSet(agreed)
    BY <2>1, <2>4, FS_Subset
  <2>6. QED
    BY <2>5, FS_CardinalityType
<1>3. ItemSimilarity(p, g) = 3 * d + 2 * n
  BY DEF ItemSimilarity
<1> HIDE DEF d, n
<1>4. QED
  BY <1>1, <1>2, <1>3

\* How alike the rows of a pair are.
Alikeness(pred, gold, x) == ItemSimilarity(pred[x[1]], gold[x[2]])

\* Line items give rows to pair: finitely many, any two of them alike to some degree.
LEMMA PairsFacts ==
  ASSUME NEW pred, NEW gold, pred \in Seq(LineItem), gold \in Seq(LineItem)
  PROVE  /\ IsFiniteSet(Alike(pred, gold))
         /\ \A x \in (DOMAIN pred) \X (DOMAIN gold) :
              x[1] \in Nat /\ x[2] \in Nat /\ x = <<x[1], x[2]>> /\ Alikeness(pred, gold, x) \in Int
<1> DEFINE P == DOMAIN pred
           G == DOMAIN gold
<1>2. Len(pred) \in Nat /\ P = 1..Len(pred) /\ Len(gold) \in Nat /\ G = 1..Len(gold)
  BY LenProperties
<1>3. IsFiniteSet(P) /\ IsFiniteSet(G) /\ P \subseteq Nat /\ G \subseteq Nat
  <2> DEFINE m == Len(pred)
             n == Len(gold)
  <2>1. m \in Nat /\ n \in Nat
    BY <1>2
  <2> HIDE DEF m, n
  <2>2. IsFiniteSet(1..m) /\ IsFiniteSet(1..n) /\ 1..m \subseteq Nat /\ 1..n \subseteq Nat
    BY <2>1, FS_Interval
  <2>3. QED
    BY <1>2, <2>2 DEF m, n
<1>4. /\ \A i \in P : pred[i].description \in Int
      /\ \A j \in G : gold[j].description \in Int
  <2>1. (\A i \in P : pred[i] \in LineItem) /\ \A j \in G : gold[j] \in LineItem
    BY <1>2, ElementOfSeq
  <2>2. \A item \in LineItem : item.description \in Int
    BY DEF LineItem
  <2>3. QED
    BY <2>1, <2>2
<1> HIDE DEF P, G
<1> DEFINE all == P \X G
<1>5. IsFiniteSet(all) /\ Alike(pred, gold) \subseteq all
  <2>1. IsFiniteSet(P \X G)
    BY <1>3, FS_Product
  <2>2. QED
    BY <2>1 DEF Alike, P, G
<1>6. IsFiniteSet(Alike(pred, gold))
  <2> DEFINE some == Alike(pred, gold)
  <2> HIDE DEF some, all
  <2>1. QED
    BY <1>5, FS_Subset DEF some
<1>7. ASSUME NEW x \in all
      PROVE  x[1] \in Nat /\ x[2] \in Nat /\ x = <<x[1], x[2]>> /\ Alikeness(pred, gold, x) \in Int
  <2>1. x[1] \in P /\ x[2] \in G /\ x = <<x[1], x[2]>>
    BY <1>7
  <2> DEFINE p == pred[x[1]]
             g == gold[x[2]]
  <2>2. p.description \in Int /\ g.description \in Int
    BY <1>4, <2>1
  <2> HIDE DEF p, g
  <2>3. ItemSimilarity(p, g) \in Int
    BY <2>2, SimilarityIsInt
  <2>4. QED
    BY <1>3, <2>1, <2>3 DEF Alikeness, p, g
<1>8. QED
  BY <1>6, <1>7 DEF P, G

\* Before, as a relation between the pairs of rows that are alike enough.
Earlier(pred, gold) ==
  {z \in Alike(pred, gold) \X Alike(pred, gold) : Before(pred, gold, z[1], z[2])}

\* Similarity, then the two positions: an order in which no two pairs are equal.
LEMMA BeforeRanks ==
  ASSUME NEW pred, NEW gold, pred \in Seq(LineItem), gold \in Seq(LineItem)
  PROVE  Ranks(Alike(pred, gold), Earlier(pred, gold))
<1> DEFINE A == Alike(pred, gold)
           R == Earlier(pred, gold)
           sim == [x \in A |-> Alikeness(pred, gold, x)]
           fst == [x \in A |-> x[1]]
           snd == [x \in A |-> x[2]]
<1>1. \A x \in A : x \in (DOMAIN pred) \X (DOMAIN gold)
  BY DEF Alike
<1>2. /\ \A x \in A : sim[x] \in Int /\ fst[x] \in Nat /\ snd[x] \in Nat
      /\ \A x, y \in A : fst[x] = fst[y] /\ snd[x] = snd[y] => x = y
  <2>1. \A x \in A : x[1] \in Nat /\ x[2] \in Nat /\ x = <<x[1], x[2]>> /\ Alikeness(pred, gold, x) \in Int
    BY <1>1, PairsFacts
  <2> HIDE DEF A
  <2>2. QED
    BY <2>1
<1>3. \A x, y \in A : <<x, y>> \in R <=>
        \/ sim[x] > sim[y]
        \/ sim[x] = sim[y] /\ fst[x] < fst[y]
        \/ sim[x] = sim[y] /\ fst[x] = fst[y] /\ snd[x] < snd[y]
  <2> SUFFICES ASSUME NEW x \in A, NEW y \in A
               PROVE  <<x, y>> \in R <=>
                        \/ sim[x] > sim[y]
                        \/ sim[x] = sim[y] /\ fst[x] < fst[y]
                        \/ sim[x] = sim[y] /\ fst[x] = fst[y] /\ snd[x] < snd[y]
    OBVIOUS
  <2>1. <<x, y>> \in R <=> Before(pred, gold, x, y)
    BY DEF Earlier
  <2>2. /\ sim[x] = Alikeness(pred, gold, x) /\ sim[y] = Alikeness(pred, gold, y)
        /\ fst[x] = x[1] /\ fst[y] = y[1] /\ snd[x] = x[2] /\ snd[y] = y[2]
    OBVIOUS
  <2>3. Before(pred, gold, x, y) <=>
          \/ Alikeness(pred, gold, x) > Alikeness(pred, gold, y)
          \/ /\ Alikeness(pred, gold, x) = Alikeness(pred, gold, y)
             /\ x[1] < y[1] \/ (x[1] = y[1] /\ x[2] < y[2])
    BY DEF Before, Alikeness
  <2> HIDE DEF A, R, sim, fst, snd
  <2>4. QED
    BY <2>1, <2>2, <2>3
<1> HIDE DEF A, R, sim, fst, snd
<1>4. \A x \in A : <<x, x>> \notin R
  BY <1>2, <1>3
<1>5. ASSUME NEW x \in A, NEW y \in A, NEW z \in A, <<x, y>> \in R, <<y, z>> \in R
      PROVE  <<x, z>> \in R
  <2> DEFINE after(v, w) == \/ sim[v] > sim[w]
                            \/ sim[v] = sim[w] /\ fst[v] < fst[w]
                            \/ sim[v] = sim[w] /\ fst[v] = fst[w] /\ snd[v] < snd[w]
  <2>1. after(x, y) /\ after(y, z) /\ (after(x, z) => <<x, z>> \in R)
    BY <1>3, <1>5
  <2>2. /\ sim[x] \in Int /\ sim[y] \in Int /\ sim[z] \in Int
        /\ fst[x] \in Nat /\ fst[y] \in Nat /\ fst[z] \in Nat
        /\ snd[x] \in Nat /\ snd[y] \in Nat /\ snd[z] \in Nat
    BY <1>2
  <2>3. after(x, z)
    BY <2>1, <2>2
  <2>4. QED
    BY <2>1, <2>3
<1>6. ASSUME NEW x \in A, NEW y \in A, x # y
      PROVE  <<x, y>> \in R \/ <<y, x>> \in R
  BY <1>2, <1>3, <1>6
<1>7. QED
  BY <1>4, <1>5, <1>6 DEF Ranks, A, R

\* The candidates: every pair of rows alike enough, the most alike first.
LEMMA CandidatesFacts ==
  ASSUME NEW pred, NEW gold, pred \in Seq(LineItem), gold \in Seq(LineItem)
  PROVE  /\ Candidates(pred, gold) \in Seq(Alike(pred, gold))
         /\ \A x \in Alike(pred, gold) :
              \E n \in DOMAIN Candidates(pred, gold) : Candidates(pred, gold)[n] = x
         /\ \A i, j \in DOMAIN Candidates(pred, gold) :
              i < j => Alikeness(pred, gold, Candidates(pred, gold)[i])
                         >= Alikeness(pred, gold, Candidates(pred, gold)[j])
<1> DEFINE A == Alike(pred, gold)
           R == Earlier(pred, gold)
           s == Candidates(pred, gold)
           sim(x) == Alikeness(pred, gold, x)
<1>1. IsFiniteSet(A) /\ Ranks(A, R)
  BY PairsFacts, BeforeRanks
<1>2. \A x, y \in A : <<x, y>> \in R <=> Before(pred, gold, x, y)
  BY DEF Earlier
<1>3. \A x \in A : {y \in A : <<y, x>> \in R} = {y \in A : Before(pred, gold, y, x)}
  BY <1>2
<1>4. \A x \in A : Rank(A, R)[x] = Place(pred, gold, x)
  BY <1>3 DEF Rank, Place
<1>5. s = Sorted(A, R)
  BY <1>4 DEF Candidates, Sorted
<1> HIDE DEF s, A, R
<1>6. /\ s \in Seq(A) /\ \A x \in A : \E n \in DOMAIN s : s[n] = x
      /\ \A i, j \in DOMAIN s : i < j => <<s[j], s[i]>> \notin R
  BY <1>1, <1>5, InOrder
<1>7. DOMAIN s = 1..Len(s) /\ \A i \in DOMAIN s : s[i] \in A
  BY <1>6, LenProperties, ElementOfSeq
<1>8. \A x \in A : sim(x) \in Int
  BY PairsFacts DEF A, Alike
<1>9. ASSUME NEW i \in DOMAIN s, NEW j \in DOMAIN s, i < j
      PROVE  sim(s[i]) >= sim(s[j])
  <2>1. ~ Before(pred, gold, s[j], s[i])
    BY <1>2, <1>6, <1>7, <1>9
  <2>2. ~ (sim(s[j]) > sim(s[i]))
    BY <2>1 DEF Before, Alikeness
  <2>3. sim(s[i]) \in Int /\ sim(s[j]) \in Int
    BY <1>7, <1>8, <1>9
  <2> HIDE DEF sim
  <2>4. QED
    BY <2>2, <2>3
<1>10. QED
  BY <1>6, <1>9 DEF s, A


\* A pair with a row of x is among those found.
Taken(found, x) == \E m \in Range(found) : m[1] = x[1] \/ m[2] = x[2]

Grown(found, x) == IF Taken(found, x) THEN found ELSE Append(found, x)

\* f is the table of pairings Matches builds from the candidates c.
Pairings(f, c) == f = [n \in 0..Len(c) |-> IF n = 0 THEN <<>> ELSE Grown(f[n - 1], c[n])]

\* The table obeys its recursion: greedily, row by row.
LEMMA PairingUnfolds ==
  ASSUME NEW A, NEW c \in Seq(A), NEW f, f = CHOOSE g : Pairings(g, c)
  PROVE  /\ \A n \in 0..Len(c) : f[n] = IF n = 0 THEN <<>> ELSE Grown(f[n - 1], c[n])
         /\ \A n \in 0..Len(c) : f[n] \in Seq(A)
<1> DEFINE len == Len(c)
           V == Seq(A)
           empty == <<>>
           step == [x \in V \X Nat |-> IF x[2] \in 1..len THEN Grown(x[1], c[x[2]]) ELSE x[1]]
<1>1. len \in Nat /\ (\A n \in 1..len : c[n] \in A) /\ empty \in V
  BY LenProperties, ElementOfSeq
<1>2. \A v \in V, a \in A : Grown(v, a) \in V
  BY AppendProperties DEF Grown
<1> HIDE DEF V, empty, len
<1>3. step \in [V \X Nat -> V]
  <2> SUFFICES ASSUME NEW v \in V, NEW i \in Nat
               PROVE  (IF i \in 1..len THEN Grown(v, c[i]) ELSE v) \in V
    OBVIOUS
  <2>1. QED
    BY <1>1, <1>2
<1>4. \A v \in V, i \in 1..len : step[<<v, i>>] = Grown(v, c[i])
  BY <1>1
<1> HIDE DEF step
<1>5. \A m \in Nat : Chain(V, empty, step, m)
  BY <1>1, <1>3, Chains
<1>6. PICK e \in [0..len -> V] : \A n \in 0..len : e[n] = IF n = 0 THEN empty ELSE step[<<e[n - 1], n>>]
  BY <1>1, <1>5 DEF Chain
<1>7. \A n \in 0..len : e[n] = IF n = 0 THEN empty ELSE Grown(e[n - 1], c[n])
  <2>1. ASSUME NEW n \in 1..len PROVE step[<<e[n - 1], n>>] = Grown(e[n - 1], c[n])
    <3>1. n - 1 \in 0..len
      BY <1>1
    <3>2. e[n - 1] \in V
      BY <3>1, <1>6
    <3>3. QED
      BY <1>4, <3>2
  <2>2. \A n \in 0..len : n = 0 \/ n \in 1..len
    BY <1>1
  <2>3. QED
    BY <1>6, <2>1, <2>2
<1>8. e = [n \in 0..len |-> IF n = 0 THEN empty ELSE Grown(e[n - 1], c[n])]
  BY <1>6, <1>7
<1>9. Pairings(e, c)
  BY <1>8 DEF Pairings, len, empty
<1>10. Pairings(f, c)
  BY <1>9
<1>11. \A n \in 0..len : f[n] = IF n = 0 THEN empty ELSE Grown(f[n - 1], c[n])
  BY <1>10 DEF Pairings, len, empty
<1> DEFINE T == {n \in Nat : n <= len => f[n] \in V}
<1>12. 0 \in T
  <2>1. 0 \in 0..len
    BY <1>1
  <2>2. QED
    BY <1>1, <1>11, <2>1
<1>13. ASSUME NEW n \in Nat, n \in T
       PROVE  n + 1 \in T
  <2> SUFFICES ASSUME n + 1 <= len PROVE f[n + 1] \in V
    OBVIOUS
  <2>1. f[n] \in V /\ n + 1 \in 0..len /\ n + 1 # 0 /\ (n + 1) - 1 = n /\ n + 1 \in 1..len
    BY <1>1, <1>13
  <2>2. f[n + 1] = Grown(f[n], c[n + 1])
    BY <1>11, <2>1
  <2>3. c[n + 1] \in A
    BY <1>1, <2>1
  <2>4. QED
    BY <1>2, <2>1, <2>2, <2>3
<1> HIDE DEF T
<1>14. \A n \in Nat : n \in T
  BY <1>12, <1>13, NatInduct
<1>15. \A n \in 0..len : f[n] \in V
  BY <1>1, <1>14 DEF T
<1>16. QED
  BY <1>11, <1>15 DEF len, V, empty

Shares(m, x) == m[1] = x[1] \/ m[2] = x[2]

\* What greed has found among the first n candidates: some of them, once, no two of which
\* share a row, and for each of them one that shares a row with it and did not come
\* later.
Greedy(c, found, n) ==
  /\ \A m \in Range(found) : \E k \in 1..n : c[k] = m
  /\ \A m, o \in Range(found) : Shares(m, o) => m = o
  /\ \A i \in 1..n : \E k \in 1..i : c[k] \in Range(found) /\ Shares(c[k], c[i])
  /\ IsInjective(found)

LEMMA GreedyStep ==
  ASSUME NEW A, NEW c, NEW n \in Nat, NEW found \in Seq(A), c[n + 1] \in A,
         Greedy(c, found, n)
  PROVE  Greedy(c, Grown(found, c[n + 1]), n + 1)
<1> DEFINE x == c[n + 1]
           next == Grown(found, x)
           F == Range(found)
           G == Range(next)
           all == 1..(n + 1)
<1>1. all = 1..n \cup {n + 1} /\ n + 1 \in all /\ \A i \in 1..n : i \in all
  OBVIOUS
<1>2. /\ \A m \in F : \E k \in 1..n : c[k] = m
      /\ \A m, o \in F : Shares(m, o) => m = o
      /\ \A i \in 1..n : \E k \in 1..i : c[k] \in F /\ Shares(c[k], c[i])
  BY DEF Greedy
<1>3. Shares(x, x) /\ (\A m : Shares(m, x) <=> Shares(x, m)) /\ (Taken(found, x) <=> \E m \in F : Shares(m, x))
  BY DEF Shares, Taken
<1>4. G = IF Taken(found, x) THEN F ELSE F \cup {x}
  <2>1. CASE Taken(found, x)
    BY <2>1 DEF Grown
  <2>2. CASE ~ Taken(found, x)
    <3>1. next = Append(found, x)
      BY <2>2 DEF Grown
    <3> HIDE DEF x
    <3>2. x \in A
      BY DEF x
    <3>3. Range(Append(found, x)) = F \cup {x}
      BY <3>2, RangeOfAppend
    <3>4. QED
      BY <2>2, <3>1, <3>3
  <2>3. QED
    BY <2>1, <2>2
<1> HIDE DEF F, G, next
<1>5. \A m \in G : \E k \in all : c[k] = m
  BY <1>1, <1>2, <1>4 DEF x
<1>6. \A m, o \in G : Shares(m, o) => m = o
  <2> HIDE DEF x
  <2>1. QED
    BY <1>2, <1>3, <1>4
<1>7. F \subseteq G
  BY <1>4
<1>8. ASSUME NEW i \in all
      PROVE  \E k \in 1..i : c[k] \in G /\ Shares(c[k], c[i])
  <2>1. CASE i \in 1..n
    BY <1>2, <1>7, <2>1
  <2>2. CASE i = n + 1
    <3>1. CASE Taken(found, x)
      <4>1. PICK m \in F : Shares(m, x)
        BY <1>3, <3>1
      <4>2. PICK k \in 1..n : c[k] = m
        BY <1>2
      <4>3. k \in 1..i
        BY <2>2
      <4>4. QED
        BY <1>7, <2>2, <4>1, <4>2, <4>3 DEF x
    <3>2. CASE ~ Taken(found, x)
      <4>1. x \in G /\ c[i] = x /\ i \in 1..i
        BY <1>4, <2>2, <3>2
      <4>2. QED
        BY <1>3, <4>1
    <3>3. QED
      BY <3>1, <3>2
  <2>3. QED
    BY <1>1, <2>1, <2>2
<1>9. IsInjective(next)
  <2>1. IsInjective(found)
    BY DEF Greedy
  <2>2. CASE Taken(found, x)
    BY <2>1, <2>2 DEF next, Grown
  <2>3. CASE ~ Taken(found, x)
    <3>1. x \in A /\ x \notin F
      BY <1>3, <2>3 DEF x
    <3>2. next = Append(found, x)
      BY <2>3 DEF next, Grown
    <3> HIDE DEF x
    <3>3. IsInjective(Append(found, x))
      BY <2>1, <3>1, AppendDistinct DEF F
    <3>4. QED
      BY <3>2, <3>3
  <2>4. QED
    BY <2>2, <2>3
<1>10. QED
  BY <1>5, <1>6, <1>8, <1>9 DEF Greedy, G, next, x

\* The table's last entry is what greed finds among all candidates.
LEMMA MatchesAreGreedy ==
  ASSUME NEW pred, NEW gold, NEW A, NEW c \in Seq(A), c = Candidates(pred, gold)
  PROVE  Greedy(c, Matches(pred, gold), Len(c))
<1> DEFINE f == CHOOSE g : Pairings(g, c)
           len == Len(c)
<1>1. Matches(pred, gold) = f[len]
  BY DEF Matches, Greedily, Pairings, Grown, Taken
<1>2. /\ \A n \in 0..len : f[n] = IF n = 0 THEN <<>> ELSE Grown(f[n - 1], c[n])
      /\ \A n \in 0..len : f[n] \in Seq(A)
  BY PairingUnfolds
<1>3. len \in Nat /\ \A n \in 1..len : c[n] \in A
  BY LenProperties, ElementOfSeq
<1> HIDE DEF f, len
<1> DEFINE T == {n \in Nat : n <= len => Greedy(c, f[n], n)}
<1>4. 0 \in T
  <2>1. 0 \in 0..len /\ f[0] = <<>>
    BY <1>2, <1>3
  <2>2. Range(<<>>) = {}
    BY DEF Range
  <2>3. Greedy(c, <<>>, 0)
    <3>1. IsInjective(<<>>)
      BY DEF IsInjective
    <3>2. QED
      BY <2>2, <3>1 DEF Greedy
  <2>4. QED
    BY <2>1, <2>3
<1>5. ASSUME NEW n \in Nat, n \in T
      PROVE  n + 1 \in T
  <2> SUFFICES ASSUME n + 1 <= len PROVE Greedy(c, f[n + 1], n + 1)
    OBVIOUS
  <2>1. /\ Greedy(c, f[n], n) /\ n \in 0..len
        /\ n + 1 \in 0..len /\ n + 1 # 0 /\ (n + 1) - 1 = n /\ n + 1 \in 1..len
    BY <1>3, <1>5
  <2>2. f[n + 1] = Grown(f[n], c[n + 1]) /\ f[n] \in Seq(A) /\ c[n + 1] \in A
    BY <1>2, <1>3, <2>1
  <2> DEFINE found == f[n]
  <2> HIDE DEF found, T
  <2>3. Greedy(c, Grown(found, c[n + 1]), n + 1)
    BY <2>1, <2>2, GreedyStep DEF found
  <2>4. QED
    BY <2>2, <2>3 DEF found
<1> HIDE DEF T
<1>6. \A n \in Nat : n \in T
  BY <1>4, <1>5, NatInduct
<1>7. QED
  BY <1>1, <1>3, <1>6 DEF T, len

\* Whatever the rows are, their pairing is stable.
LEMMA PairingIsStable ==
  ASSUME NEW pred, NEW gold, pred \in Seq(LineItem), gold \in Seq(LineItem)
  PROVE  /\ \A m, o \in Range(Matches(pred, gold)) : Shares(m, o) => m = o
         /\ \A x \in (DOMAIN pred) \X (DOMAIN gold) :
              Alikeness(pred, gold, x) >= Threshold =>
                \E m \in Range(Matches(pred, gold)) :
                  Shares(m, x) /\ Alikeness(pred, gold, m) >= Alikeness(pred, gold, x)
<1> DEFINE A == Alike(pred, gold)
           c == Candidates(pred, gold)
           matched == Range(Matches(pred, gold))
           sim(x) == Alikeness(pred, gold, x)
<1>1. /\ c \in Seq(A) /\ \A x \in A : \E n \in DOMAIN c : c[n] = x
      /\ \A i, j \in DOMAIN c : i < j => sim(c[i]) >= sim(c[j])
  BY CandidatesFacts
<1>2. DOMAIN c = 1..Len(c) /\ Len(c) \in Nat /\ \A i \in DOMAIN c : c[i] \in A
  BY <1>1, LenProperties, ElementOfSeq
<1>3. Greedy(c, Matches(pred, gold), Len(c))
  BY <1>1, MatchesAreGreedy
<1>4. /\ \A m, o \in matched : Shares(m, o) => m = o
      /\ \A i \in DOMAIN c : \E k \in 1..i : c[k] \in matched /\ Shares(c[k], c[i])
  BY <1>2, <1>3 DEF Greedy
<1>5. \A x \in A : sim(x) \in Int
  BY PairsFacts DEF Alike
<1>6. \A x \in (DOMAIN pred) \X (DOMAIN gold) : sim(x) >= Threshold => x \in A
  BY DEF Alike, Alikeness
<1> HIDE DEF A, c, matched, sim
<1>7. ASSUME NEW x \in A
      PROVE  \E m \in matched : Shares(m, x) /\ sim(m) >= sim(x)
  <2>1. PICK i \in DOMAIN c : c[i] = x
    BY <1>1
  <2>2. PICK k \in 1..i : c[k] \in matched /\ Shares(c[k], x)
    BY <1>4, <2>1
  <2>3. k \in DOMAIN c /\ (k = i \/ k < i)
    BY <1>2, <2>2
  <2>4. sim(c[k]) >= sim(c[i])
    <3>1. sim(c[i]) \in Int
      BY <1>2, <1>5
    <3>2. CASE k = i
      BY <3>1, <3>2
    <3>3. CASE k < i
      BY <1>1, <2>3, <3>3
    <3>4. QED
      BY <2>3, <3>2, <3>3
  <2>5. QED
    BY <2>1, <2>2, <2>4
<1>8. QED
  BY <1>4, <1>6, <1>7 DEF matched, sim

\* Line items read like line items, one by one.
LEMMA ReadingsTyped ==
  ASSUME NEW items \in Seq(LineItem)
  PROVE  /\ Readings(items) \in Seq(LineItem) /\ Len(Readings(items)) = Len(items)
         /\ DOMAIN Readings(items) = DOMAIN items
         /\ \A n \in DOMAIN items : Readings(items)[n] = Reading(items[n])
<1> DEFINE len == Len(items)
           L == LineItem
           read == Readings(items)
<1>1. DOMAIN items = 1..len /\ len \in Nat /\ \A n \in 1..len : items[n] \in L
  BY LenProperties, ElementOfSeq
<1>2. ASSUME NEW item \in L PROVE Reading(item) \in L
  <2>1. /\ item.description \in Int \ {Missing} /\ item.quantity \in Int /\ item.unit_price \in Int
        /\ item.amount \in Int
    BY DEF LineItem
  <2>2. ASSUME NEW f \in {"quantity", "unit_price", "amount"}, NEW v \in Int
        PROVE  Normalized(f, v) \in Int
    <3>1. Normalized(f, v) = Round(v, v \in RoundsUp)
      BY DEF Normalized, MoneyFields
    <3>2. QED
      BY <3>1, RoundIsNear
  <2>3. Normalized("description", item.description) \in Int \ {Missing}
    BY <2>1 DEF Normalized, MoneyFields, Missing, NoDate
  <2>4. QED
    BY <2>1, <2>2, <2>3 DEF Reading, LineItem
<1>3. read = [n \in 1..len |-> Reading(items[n])]
  BY <1>1 DEF Readings
<1> HIDE DEF L, len, read
<1>4. read \in [1..len -> L]
  BY <1>1, <1>2, <1>3
<1>5. read \in Seq(L) /\ Len(read) = len
  BY <1>1, <1>4, Table
<1>6. QED
  BY <1>1, <1>3, <1>5 DEF L, len, read

\* The pairing of match_line_items leaves no better one standing, for any line items:
\* no two rows that are alike enough are both left over, no two are more alike than
\* each is to the row it was paired with, and no row is paired twice.
THEOREM MatchingSafety == EvalSpec => []MatchingIsStable
<1>1. EvalInv => MatchingIsStable
  <2>1. SUFFICES ASSUME EvalInv, NEW n \in Rows
                 PROVE  LET pred == Readings(Items(n))
                            gold == Readings(Gold(n).line_items)
                            matched == Range(Matches(pred, gold))
                            sim(m) == ItemSimilarity(pred[m[1]], gold[m[2]])
                        IN  /\ \A m, o \in matched : (m[1] = o[1] \/ m[2] = o[2]) => m = o
                            /\ \A x \in (DOMAIN pred) \X (DOMAIN gold) :
                                 sim(x) >= Threshold =>
                                   \E m \in matched : (m[1] = x[1] \/ m[2] = x[2]) /\ sim(m) >= sim(x)
    BY DEF MatchingIsStable
  <2> DEFINE items == Items(n)
             lines == Gold(n).line_items
             pred == Readings(items)
             gold == Readings(lines)
  <2>2. lines \in Seq(LineItem)
    <3>1. Dataset[n] \in Range(Dataset)
      BY <2>1, HarnessFields DEF EvalInv, Range
    <3>2. QED
      BY <3>1, EvaluationAssumption DEF Gold
  <2>3. items \in Seq(LineItem)
    <3>1. harness.predictions[n] \in Slot
      BY <2>1, HarnessFields DEF EvalInv
    <3>2. CASE Failed(n)
      <4>1. items = <<>>
        BY <3>2 DEF Items
      <4>2. QED
        BY <4>1
    <3>3. CASE ~ Failed(n)
      <4>1. PICK p \in Predictions : harness.predictions[n] = Predicted(p)
        BY <3>1, <3>3 DEF Slot, Failed
      <4>2. items = p.line_items
        BY <3>3, <4>1 DEF Items, Prediction, Predicted
      <4>3. QED
        BY <4>1, <4>2, EvaluationAssumption
    <3>4. QED
      BY <3>2, <3>3
  <2> HIDE DEF items, lines
  <2>4. pred \in Seq(LineItem) /\ gold \in Seq(LineItem)
    BY <2>2, <2>3, ReadingsTyped
  <2> HIDE DEF pred, gold
  <2>5. QED
    BY <2>4, PairingIsStable DEF Shares, Alikeness, pred, gold, items, lines
<1>2. QED
  BY <1>1, EvalInvariance, PTL

-----------------------------------------------------------------------------
(* What an exact document is *)

OneOutcome ==
  [field : FieldRows, tp : Nat, fp : Nat, fn : Nat, tn : Nat, exact : BOOLEAN]

LEMMA OutcomeFields ==
  ASSUME NEW f \in FieldRows, NEW tp \in Nat, NEW fp \in Nat, NEW fn \in Nat, NEW tn \in Nat
  PROVE  /\ Outcome(f, tp, fp, fn, tn) \in OneOutcome
         /\ Outcome(f, tp, fp, fn, tn).exact <=> fp = 0 /\ fn = 0
  BY DEF Outcome, OneOutcome

LEMMA FieldNames ==
  /\ DOMAIN SCALAR_FIELDS = 1..8 /\ DOMAIN LINE_ITEM_FIELDS = 1..4
  /\ ScalarFields = {SCALAR_FIELDS[k] : k \in 1..8} /\ ItemFields = {LINE_ITEM_FIELDS[k] : k \in 1..4}
  /\ ScalarFields \subseteq FieldRows /\ "due_date" \in FieldRows
  /\ \A f \in ItemFields : ItemRow(f) \in FieldRows
  /\ ItemFields = {"description", "quantity", "unit_price", "amount"}
<1>1. DOMAIN SCALAR_FIELDS = 1..8 /\ DOMAIN LINE_ITEM_FIELDS = 1..4
  BY DEF SCALAR_FIELDS, LINE_ITEM_FIELDS
<1>2. /\ ScalarFields = {SCALAR_FIELDS[k] : k \in 1..8}
      /\ ItemFields = {LINE_ITEM_FIELDS[k] : k \in 1..4}
  BY <1>1 DEF ScalarFields, ItemFields, Range
<1>3. 1..4 = {1, 2, 3, 4}
  OBVIOUS
<1>4. /\ LINE_ITEM_FIELDS[1] = "description" /\ LINE_ITEM_FIELDS[2] = "quantity"
      /\ LINE_ITEM_FIELDS[3] = "unit_price" /\ LINE_ITEM_FIELDS[4] = "amount"
  BY DEF LINE_ITEM_FIELDS
<1>5. ItemFields = {"description", "quantity", "unit_price", "amount"}
  BY <1>2, <1>3, <1>4
<1>6. QED
  BY <1>1, <1>2, <1>5 DEF FieldRows

\* A required field is exact if it was read, and read right.
LEMMA ScalarExact ==
  ASSUME NEW f \in ScalarFields, NEW gold, NEW pred, NEW failed \in BOOLEAN
  PROVE  /\ ScoreScalar(f, gold, pred, failed) \in OneOutcome
         /\ ScoreScalar(f, gold, pred, failed).exact <=> ~failed /\ Agrees(f, pred[f], gold[f])
<1>1. f \in FieldRows
  BY FieldNames
<1> DEFINE missed == Outcome(f, 0, 0, 1, 0)
           right == Outcome(f, 1, 0, 0, 0)
           wrong == Outcome(f, 0, 1, 1, 0)
           score == ScoreScalar(f, gold, pred, failed)
<1>2. /\ missed \in OneOutcome /\ right \in OneOutcome /\ wrong \in OneOutcome
      /\ ~ missed.exact /\ right.exact /\ ~ wrong.exact
  BY <1>1, OutcomeFields
<1>3. score = IF failed THEN missed ELSE IF Agrees(f, pred[f], gold[f]) THEN right ELSE wrong
  BY DEF ScoreScalar
<1> HIDE DEF missed, right, wrong, score
<1>4. QED
  BY <1>2, <1>3 DEF score

\* The due date of a document that was extracted is exact if it reads the same.
LEMMA DueDateExact ==
  ASSUME NEW gold, NEW pred, NEW failed \in BOOLEAN
  PROVE  /\ ScoreDueDate(gold, pred, failed) \in OneOutcome
         /\ ~failed => (ScoreDueDate(gold, pred, failed).exact <=>
                          Normalized("due_date", pred.due_date) = Normalized("due_date", gold.due_date))
<1> DEFINE g == Normalized("due_date", gold.due_date)
           p == IF failed THEN Missing ELSE Normalized("due_date", pred.due_date)
           asserted == ~failed /\ pred.due_date # Missing
           a == IF asserted THEN 1 ELSE 0
           o1 == Outcome("due_date", 0, 0, 0, 1)
           o2 == Outcome("due_date", 0, 1, 0, 0)
           o3 == Outcome("due_date", 0, a, 1, 0)
           o4 == Outcome("due_date", 1, 0, 0, 0)
           o5 == Outcome("due_date", 0, 1, 1, 0)
           score == ScoreDueDate(gold, pred, failed)
<1>1. a \in Nat
  OBVIOUS
<1>2. score = IF g = Missing THEN IF p = Missing THEN o1 ELSE o2
              ELSE IF p = Missing THEN o3 ELSE IF p = g THEN o4 ELSE o5
  BY DEF ScoreDueDate
<1> HIDE DEF a
<1> DEFINE name == "due_date"
<1>3. name \in FieldRows
  BY FieldNames
<1> HIDE DEF name
<1>4. /\ Outcome(name, 0, 0, 0, 1) \in OneOutcome /\ Outcome(name, 0, 1, 0, 0) \in OneOutcome
      /\ Outcome(name, 0, a, 1, 0) \in OneOutcome /\ Outcome(name, 1, 0, 0, 0) \in OneOutcome
      /\ Outcome(name, 0, 1, 1, 0) \in OneOutcome
      /\ Outcome(name, 0, 0, 0, 1).exact /\ ~ Outcome(name, 0, 1, 0, 0).exact
      /\ ~ Outcome(name, 0, a, 1, 0).exact /\ Outcome(name, 1, 0, 0, 0).exact
      /\ ~ Outcome(name, 0, 1, 1, 0).exact
  BY <1>1, <1>3, OutcomeFields
<1>5. /\ o1 \in OneOutcome /\ o2 \in OneOutcome /\ o3 \in OneOutcome /\ o4 \in OneOutcome /\ o5 \in OneOutcome
      /\ o1.exact /\ ~ o2.exact /\ ~ o3.exact /\ o4.exact /\ ~ o5.exact
  BY <1>4 DEF name
<1>6. ~failed => p = Normalized("due_date", pred.due_date)
  OBVIOUS
<1> HIDE DEF g, p, asserted, o1, o2, o3, o4, o5, score
<1>7. score \in OneOutcome /\ (score.exact <=> p = g)
  BY <1>2, <1>5
<1>8. QED
  BY <1>6, <1>7 DEF g, score

\* Readings that agree in all fields are the same.
LEMMA SameRows ==
  ASSUME NEW p \in LineItem, NEW g \in LineItem
  PROVE  (\A f \in ItemFields : p[f] = g[f]) <=> p = g
<1>1. (p.description = g.description /\ p.quantity = g.quantity /\ p.unit_price = g.unit_price
       /\ p.amount = g.amount) <=> p = g
  BY DEF LineItem
<1>2. QED
  BY <1>1, FieldNames

\* A pair of rows is exact if the rows are the same.
LEMMA PairedRowExact ==
  ASSUME NEW p \in LineItem, NEW g \in LineItem
  PROVE  /\ PairedRow(p, g) \in Seq(OneOutcome)
         /\ (\A o \in Range(PairedRow(p, g)) : o.exact) <=> p = g
<1> DEFINE hit(f) == Outcome(ItemRow(f), 1, 0, 0, 0)
           miss(f) == Outcome(ItemRow(f), 0, 1, 1, 0)
           row == PairedRow(p, g)
<1>1. \A f \in ItemFields : hit(f) \in OneOutcome /\ hit(f).exact /\ miss(f) \in OneOutcome /\ ~ miss(f).exact
  <2>1. ASSUME NEW f \in ItemFields
        PROVE  hit(f) \in OneOutcome /\ hit(f).exact /\ miss(f) \in OneOutcome /\ ~ miss(f).exact
    <3> DEFINE name == ItemRow(f)
    <3>1. name \in FieldRows
      BY FieldNames
    <3> HIDE DEF name
    <3>2. /\ Outcome(name, 1, 0, 0, 0) \in OneOutcome /\ Outcome(name, 1, 0, 0, 0).exact
          /\ Outcome(name, 0, 1, 1, 0) \in OneOutcome /\ ~ Outcome(name, 0, 1, 1, 0).exact
      BY <3>1, OutcomeFields
    <3>3. QED
      BY <3>2 DEF name
  <2>2. QED
    BY <2>1
<1>2. /\ DOMAIN row = 1..4 /\ row = [k \in 1..4 |-> row[k]]
      /\ \A k \in 1..4 : row[k] = IF p[LINE_ITEM_FIELDS[k]] = g[LINE_ITEM_FIELDS[k]]
                                  THEN hit(LINE_ITEM_FIELDS[k]) ELSE miss(LINE_ITEM_FIELDS[k])
  BY FieldNames DEF PairedRow
<1>3. \A k \in 1..4 : LINE_ITEM_FIELDS[k] \in ItemFields
  BY FieldNames
<1> HIDE DEF hit, miss, row
<1>4. \A k \in 1..4 :
        /\ row[k] \in OneOutcome
        /\ row[k].exact <=> p[LINE_ITEM_FIELDS[k]] = g[LINE_ITEM_FIELDS[k]]
  BY <1>1, <1>2, <1>3
<1>5. row \in Seq(OneOutcome)
  <2>1. row \in [1..4 -> OneOutcome]
    BY <1>2, <1>4
  <2>2. QED
    BY <2>1, Table
<1>6. (\A o \in Range(row) : o.exact) <=> \A f \in ItemFields : p[f] = g[f]
  <2>1. (\A o \in Range(row) : o.exact) <=> \A k \in 1..4 : row[k].exact
    BY <1>2 DEF Range
  <2>2. (\A k \in 1..4 : row[k].exact) <=> \A f \in ItemFields : p[f] = g[f]
    BY <1>4, FieldNames
  <2>3. QED
    BY <2>1, <2>2
<1>7. (\A f \in ItemFields : p[f] = g[f]) <=> p = g
  BY SameRows
<1>8. QED
  BY <1>5, <1>6, <1>7 DEF row

\* A row that only one side has is exact in no field.
LEMMA LoneRowInexact ==
  ASSUME NEW fp \in Nat, NEW fn \in Nat, fp # 0 \/ fn # 0
  PROVE  /\ LoneRow(fp, fn) \in Seq(OneOutcome)
         /\ \E o \in Range(LoneRow(fp, fn)) : ~ o.exact
<1> DEFINE row == LoneRow(fp, fn)
<1>1. /\ DOMAIN row = 1..4 /\ row = [k \in 1..4 |-> row[k]]
      /\ \A k \in 1..4 : row[k] = Outcome(ItemRow(LINE_ITEM_FIELDS[k]), 0, fp, fn, 0)
  BY FieldNames DEF LoneRow
<1> HIDE DEF row
<1>2. ASSUME NEW k \in 1..4
      PROVE  row[k] \in OneOutcome /\ ~ row[k].exact
  <2> DEFINE name == ItemRow(LINE_ITEM_FIELDS[k])
  <2>1. name \in FieldRows
    BY FieldNames
  <2> HIDE DEF name
  <2>2. Outcome(name, 0, fp, fn, 0) \in OneOutcome /\ ~ Outcome(name, 0, fp, fn, 0).exact
    BY <2>1, OutcomeFields
  <2>3. QED
    BY <1>1, <2>2 DEF name
<1>3. row \in Seq(OneOutcome)
  <2>1. row \in [1..4 -> OneOutcome]
    BY <1>1, <1>2
  <2>2. QED
    BY <2>1, Table
<1>4. row[1] \in Range(row) /\ ~ row[1].exact
  BY <1>1, <1>2 DEF Range
<1>5. QED
  BY <1>3, <1>4 DEF row

LEMMA LoneRows ==
  /\ LoneRow(1, 0) \in Seq(OneOutcome) /\ LoneRow(0, 1) \in Seq(OneOutcome)
  /\ \E o \in Range(LoneRow(1, 0)) : ~ o.exact
  /\ \E o \in Range(LoneRow(0, 1)) : ~ o.exact
<1> DEFINE one == 1
           zero == 0
<1>1. one \in Nat /\ zero \in Nat /\ one # 0
  OBVIOUS
<1> HIDE DEF one, zero
<1>2. /\ LoneRow(one, zero) \in Seq(OneOutcome) /\ LoneRow(zero, one) \in Seq(OneOutcome)
      /\ \E o \in Range(LoneRow(one, zero)) : ~ o.exact
      /\ \E o \in Range(LoneRow(zero, one)) : ~ o.exact
  BY <1>1, LoneRowInexact
<1>3. QED
  BY <1>2 DEF one, zero

\* The indices of one side's rows that no pair has.
LEMMA UnmatchedFacts ==
  ASSUME NEW S, NEW items \in Seq(S), NEW out, out \subseteq DOMAIN items
  PROVE  /\ Selected([i \in DOMAIN items |-> i], out) \in Seq(DOMAIN items)
         /\ IsInjective(Selected([i \in DOMAIN items |-> i], out))
         /\ Range(Selected([i \in DOMAIN items |-> i], out)) = out
<1> DEFINE I == DOMAIN items
           ids == [i \in I |-> i]
<1>1. I = 1..Len(items) /\ Len(items) \in Nat
  BY LenProperties
<1>2. ids \in [1..Len(items) -> I]
  BY <1>1
<1>3. ids \in Seq(I)
  BY <1>1, <1>2, Table
<1>4. IsInjective(ids) /\ Range(ids) = I
  BY DEF IsInjective, Range
<1> HIDE DEF ids, I
<1>5. /\ Range(Selected(ids, out)) = Range(ids) \cap out
      /\ IsInjective(Selected(ids, out)) /\ Selected(ids, out) \in Seq(I \cap out)
  BY <1>3, <1>4, SelectedRange, SelectedDistinct, SelectedType
<1>6. Range(Selected(ids, out)) = out /\ I \cap out = out
  BY <1>4, <1>5 DEF I
<1>7. Seq(out) \subseteq Seq(I)
  BY SeqDef DEF I
<1>8. QED
  BY <1>5, <1>6, <1>7 DEF ids, I

\* The rows of a document's line items, in three parts.
RowsAre(pred, gold, matches) ==
  /\ [n \in DOMAIN matches |-> PairedRow(pred[matches[n][1]], gold[matches[n][2]])]
       \in Seq(Seq(OneOutcome))
  /\ [n \in DOMAIN UnmatchedPred(pred, matches) |-> LoneRow(1, 0)] \in Seq(Seq(OneOutcome))
  /\ [n \in DOMAIN UnmatchedGold(gold, matches) |-> LoneRow(0, 1)] \in Seq(Seq(OneOutcome))
  /\ RowOutcomes(gold, pred, matches) \in Seq(Seq(OneOutcome))
  /\ UnmatchedPred(pred, matches) \in Seq(DOMAIN pred)
  /\ Range(UnmatchedPred(pred, matches)) = {i \in DOMAIN pred : \A m \in Range(matches) : m[1] # i}
  /\ UnmatchedGold(gold, matches) \in Seq(DOMAIN gold)
  /\ Range(UnmatchedGold(gold, matches)) = {j \in DOMAIN gold : \A m \in Range(matches) : m[2] # j}

LEMMA RowParts ==
  ASSUME NEW pred \in Seq(LineItem), NEW gold \in Seq(LineItem),
         NEW matches \in Seq((DOMAIN pred) \X (DOMAIN gold))
  PROVE  RowsAre(pred, gold, matches)
<1> DEFINE paired == [n \in DOMAIN matches |-> PairedRow(pred[matches[n][1]], gold[matches[n][2]])]
           up == UnmatchedPred(pred, matches)
           ug == UnmatchedGold(gold, matches)
           extra == [n \in DOMAIN up |-> LoneRow(1, 0)]
           lost == [n \in DOMAIN ug |-> LoneRow(0, 1)]
           V == Seq(OneOutcome)
           outP == {i \in DOMAIN pred : \A m \in Range(matches) : m[1] # i}
           outG == {j \in DOMAIN gold : \A m \in Range(matches) : m[2] # j}
<1>1. outP \subseteq DOMAIN pred /\ outG \subseteq DOMAIN gold
  OBVIOUS
<1>2. /\ up = Selected([i \in DOMAIN pred |-> i], outP)
      /\ ug = Selected([j \in DOMAIN gold |-> j], outG)
  BY DEF UnmatchedPred, UnmatchedGold
<1>3. LoneRow(1, 0) \in V /\ LoneRow(0, 1) \in V
  BY LoneRows
<1>4. \A n \in DOMAIN matches : PairedRow(pred[matches[n][1]], gold[matches[n][2]]) \in V
  <2>1. ASSUME NEW n \in DOMAIN matches
        PROVE  PairedRow(pred[matches[n][1]], gold[matches[n][2]]) \in V
    <3>1. matches[n] \in (DOMAIN pred) \X (DOMAIN gold)
      BY LenProperties, ElementOfSeq
    <3> DEFINE p == pred[matches[n][1]]
               g == gold[matches[n][2]]
    <3>2. p \in LineItem /\ g \in LineItem
      BY <3>1, LenProperties, ElementOfSeq
    <3> HIDE DEF p, g
    <3>3. PairedRow(p, g) \in V
      BY <3>2, PairedRowExact
    <3>4. QED
      BY <3>3 DEF p, g
  <2>2. QED
    BY <2>1
<1> HIDE DEF outP, outG, up, ug, V
<1>5. up \in Seq(DOMAIN pred) /\ Range(up) = outP
  BY <1>1, <1>2, UnmatchedFacts
<1>6. ug \in Seq(DOMAIN gold) /\ Range(ug) = outG
  BY <1>1, <1>2, UnmatchedFacts
<1>7. /\ DOMAIN matches = 1..Len(matches) /\ Len(matches) \in Nat
      /\ DOMAIN up = 1..Len(up) /\ Len(up) \in Nat
      /\ DOMAIN ug = 1..Len(ug) /\ Len(ug) \in Nat
  BY <1>5, <1>6, LenProperties
<1>8. paired \in Seq(V) /\ extra \in Seq(V) /\ lost \in Seq(V)
  <2>1. paired \in [1..Len(matches) -> V]
    BY <1>4, <1>7
  <2>2. extra \in [1..Len(up) -> V] /\ lost \in [1..Len(ug) -> V]
    BY <1>3, <1>7
  <2>3. QED
    BY <1>7, <2>1, <2>2, Table
<1>9. RowOutcomes(gold, pred, matches) = paired \o extra \o lost
  BY DEF RowOutcomes, up, ug
<1> HIDE DEF paired, extra, lost
<1>10. paired \o extra \o lost \in Seq(V)
  BY <1>8, ConcatProperties
<1>11. QED
  BY <1>5, <1>6, <1>8, <1>9, <1>10 DEF RowsAre, paired, extra, lost, up, ug, V, outP, outG

\* Line items score exactly if each row has a partner it is the same as.
ExactIfPaired(pred, gold, matches) ==
  (\A n \in DOMAIN RowOutcomes(gold, pred, matches) :
     \A o \in Range(RowOutcomes(gold, pred, matches)[n]) : o.exact)
  <=> /\ \A m \in Range(matches) : pred[m[1]] = gold[m[2]]
      /\ \A i \in DOMAIN pred : \E m \in Range(matches) : m[1] = i
      /\ \A j \in DOMAIN gold : \E m \in Range(matches) : m[2] = j

LEMMA RowsExact ==
  ASSUME NEW pred \in Seq(LineItem), NEW gold \in Seq(LineItem),
         NEW matches \in Seq((DOMAIN pred) \X (DOMAIN gold))
  PROVE  ExactIfPaired(pred, gold, matches)
<1> DEFINE paired == [n \in DOMAIN matches |-> PairedRow(pred[matches[n][1]], gold[matches[n][2]])]
           up == UnmatchedPred(pred, matches)
           ug == UnmatchedGold(gold, matches)
           extra == [n \in DOMAIN up |-> LoneRow(1, 0)]
           lost == [n \in DOMAIN ug |-> LoneRow(0, 1)]
           V == Seq(OneOutcome)
           rows == RowOutcomes(gold, pred, matches)
           Fine(row) == \A o \in Range(row) : o.exact
<1>1. RowsAre(pred, gold, matches)
  BY RowParts
<1>2. rows = paired \o extra \o lost
  BY DEF RowOutcomes
<1>3. /\ paired \in Seq(V) /\ extra \in Seq(V) /\ lost \in Seq(V)
      /\ up \in Seq(DOMAIN pred) /\ ug \in Seq(DOMAIN gold)
      /\ Range(up) = {i \in DOMAIN pred : \A m \in Range(matches) : m[1] # i}
      /\ Range(ug) = {j \in DOMAIN gold : \A m \in Range(matches) : m[2] # j}
  BY <1>1 DEF RowsAre
<1>4. ~ Fine(LoneRow(1, 0)) /\ ~ Fine(LoneRow(0, 1))
  BY LoneRows
<1>5. \A n \in DOMAIN matches : Fine(PairedRow(pred[matches[n][1]], gold[matches[n][2]]))
                                  <=> pred[matches[n][1]] = gold[matches[n][2]]
  <2>1. ASSUME NEW n \in DOMAIN matches
        PROVE  Fine(PairedRow(pred[matches[n][1]], gold[matches[n][2]]))
                 <=> pred[matches[n][1]] = gold[matches[n][2]]
    <3>1. matches[n] \in (DOMAIN pred) \X (DOMAIN gold)
      BY LenProperties, ElementOfSeq
    <3> DEFINE p == pred[matches[n][1]]
               g == gold[matches[n][2]]
    <3>2. p \in LineItem /\ g \in LineItem
      BY <3>1, LenProperties, ElementOfSeq
    <3> HIDE DEF p, g
    <3>3. Fine(PairedRow(p, g)) <=> p = g
      BY <3>2, PairedRowExact
    <3>4. QED
      BY <3>3 DEF p, g
  <2>2. QED
    BY <2>1
<1>6. DOMAIN paired = DOMAIN matches /\ DOMAIN extra = DOMAIN up /\ DOMAIN lost = DOMAIN ug
  OBVIOUS
<1>7. /\ (\A r \in Range(paired) : Fine(r)) <=> \A n \in DOMAIN matches : Fine(paired[n])
      /\ (\A r \in Range(extra) : Fine(r)) <=> DOMAIN up = {}
      /\ (\A r \in Range(lost) : Fine(r)) <=> DOMAIN ug = {}
  <2>1. \A n \in DOMAIN up : extra[n] = LoneRow(1, 0)
    OBVIOUS
  <2>2. \A n \in DOMAIN ug : lost[n] = LoneRow(0, 1)
    OBVIOUS
  <2> HIDE DEF paired, extra, lost, Fine, up, ug
  <2>3. (\A r \in Range(paired) : Fine(r)) <=> \A n \in DOMAIN matches : Fine(paired[n])
    BY <1>6 DEF Range
  <2>4. (\A r \in Range(extra) : Fine(r)) <=> DOMAIN up = {}
    BY <1>4, <1>6, <2>1 DEF Range
  <2>5. (\A r \in Range(lost) : Fine(r)) <=> DOMAIN ug = {}
    BY <1>4, <1>6, <2>2 DEF Range
  <2>6. QED
    BY <2>3, <2>4, <2>5
<1>8. (\A n \in DOMAIN matches : Fine(paired[n])) <=> \A m \in Range(matches) : pred[m[1]] = gold[m[2]]
  <2>1. \A n \in DOMAIN matches : paired[n] = PairedRow(pred[matches[n][1]], gold[matches[n][2]])
    OBVIOUS
  <2> HIDE DEF paired, Fine
  <2>2. QED
    BY <1>5, <2>1 DEF Range
<1> HIDE DEF paired, extra, lost, Fine, up, ug, rows, V
<1>9. Range(rows) = (Range(paired) \cup Range(extra)) \cup Range(lost)
  <2> DEFINE first == paired \o extra
  <2>1. first \in Seq(V) /\ Range(first) = Range(paired) \cup Range(extra)
    BY <1>3, ConcatProperties, RangeConcatenation
  <2> HIDE DEF first
  <2>2. Range(first \o lost) = Range(first) \cup Range(lost)
    BY <1>3, <2>1, RangeConcatenation
  <2>3. QED
    BY <1>2, <2>1, <2>2 DEF first
<1>10. (\A n \in DOMAIN rows : Fine(rows[n])) <=> \A r \in Range(rows) : Fine(r)
  BY DEF Range
<1>11. /\ DOMAIN up = {} <=> \A i \in DOMAIN pred : \E m \in Range(matches) : m[1] = i
       /\ DOMAIN ug = {} <=> \A j \in DOMAIN gold : \E m \in Range(matches) : m[2] = j
  <2>1. (DOMAIN up = {} <=> Range(up) = {}) /\ (DOMAIN ug = {} <=> Range(ug) = {})
    BY DEF Range
  <2>2. QED
    BY <1>3, <2>1
<1>12. (\A n \in DOMAIN rows : Fine(rows[n]))
         <=> /\ \A m \in Range(matches) : pred[m[1]] = gold[m[2]]
             /\ \A i \in DOMAIN pred : \E m \in Range(matches) : m[1] = i
             /\ \A j \in DOMAIN gold : \E m \in Range(matches) : m[2] = j
  BY <1>7, <1>8, <1>9, <1>10, <1>11
<1>13. QED
  BY <1>12 DEF rows, Fine, ExactIfPaired

\* Only rows that are the same are alike in all respects.
LEMMA SameIsMostAlike ==
  ASSUME NEW p \in LineItem, NEW g \in LineItem
  PROVE  ItemSimilarity(p, g) >= 12 <=> p = g
<1> DEFINE F == {"quantity", "unit_price", "amount"}
           agreed == {f \in ItemFields \ {"description"} : p[f] = g[f]}
           n == Cardinality(agreed)
           d == DescriptionSimilarity(p.description, g.description)
<1>1. p.description \in Int /\ g.description \in Int
  BY DEF LineItem
<1>2. d \in Int /\ d <= 2 /\ (d = 2 <=> p.description = g.description)
  BY <1>1 DEF DescriptionSimilarity, Distance
<1>3. ItemFields \ {"description"} = F
  BY FieldNames
<1>4. IsFiniteSet(F) /\ Cardinality(F) = 3
  <2> DEFINE F0 == {}
             F1 == F0 \cup {"quantity"}
             F2 == F1 \cup {"unit_price"}
             F3 == F2 \cup {"amount"}
  <2>2. F3 = F /\ "quantity" \notin F0 /\ "unit_price" \notin F1 /\ "amount" \notin F2
    OBVIOUS
  <2>1. IsFiniteSet(F0) /\ Cardinality(F0) = 0
    BY FS_EmptySet
  <2> HIDE DEF F0
  <2>3. IsFiniteSet(F1) /\ Cardinality(F1) = 1
    BY <2>1, <2>2, FS_AddElement
  <2> HIDE DEF F1
  <2>4. IsFiniteSet(F2) /\ Cardinality(F2) = 2
    BY <2>2, <2>3, FS_AddElement
  <2> HIDE DEF F2
  <2>5. IsFiniteSet(F3) /\ Cardinality(F3) = 3
    BY <2>2, <2>4, FS_AddElement
  <2> HIDE DEF F3
  <2>6. QED
    BY <2>2, <2>5
<1>5. agreed \subseteq F /\ (agreed = F <=> \A f \in F : p[f] = g[f])
  BY <1>3
<1>6. ItemSimilarity(p, g) = 3 * d + 2 * n
  BY DEF ItemSimilarity
<1>7. p = g <=> d = 2 /\ agreed = F
  <2>2. (\A f \in F : p[f] = g[f]) <=> p.quantity = g.quantity /\ p.unit_price = g.unit_price /\ p.amount = g.amount
    OBVIOUS
  <2>3. p = g <=> p.description = g.description /\ p.quantity = g.quantity /\ p.unit_price = g.unit_price
                  /\ p.amount = g.amount
    BY DEF LineItem
  <2>4. QED
    BY <1>2, <1>5, <2>2, <2>3
<1> HIDE DEF F, agreed, d
<1>8. IsFiniteSet(agreed) /\ n \in Nat /\ n <= 3 /\ (n = 3 <=> agreed = F)
  <2>1. IsFiniteSet(agreed) /\ n <= Cardinality(F) /\ (Cardinality(F) = n => F = agreed)
    BY <1>4, <1>5, FS_Subset
  <2>2. n \in Nat
    BY <2>1, FS_CardinalityType
  <2>3. QED
    BY <1>4, <2>1, <2>2
<1> HIDE DEF n
<1>9. QED
  BY <1>2, <1>6, <1>7, <1>8

\* M pairs rows stably: no row twice, and of two rows that are the same one has a
\* partner that is.
Stable(pred, gold, M) ==
  /\ M \subseteq (DOMAIN pred) \X (DOMAIN gold)
  /\ \A m, o \in M : Shares(m, o) => m = o
  /\ \A x \in (DOMAIN pred) \X (DOMAIN gold) :
       pred[x[1]] = gold[x[2]] => \E m \in M : Shares(m, x) /\ pred[m[1]] = gold[m[2]]

\* No map of a finite set into itself without one of its elements keeps all apart.
LEMMA NoneLeftOver ==
  ASSUME NEW S, IsFiniteSet(S), NEW x \in S, NEW f \in [S -> S \ {x}],
         \A y, z \in S : f[y] = f[z] => y = z
  PROVE  FALSE
<1> DEFINE T == S \ {x}
<1>1. IsFiniteSet(T) /\ Cardinality(T) = Cardinality(S) - 1 /\ Cardinality(S) \in Nat
  BY FS_RemoveElement, FS_CardinalityType
<1>2. Cardinality(T) < Cardinality(S)
  <2> HIDE DEF T
  <2>1. QED
    BY <1>1
<1>3. f \in [S -> T]
  OBVIOUS
<1> HIDE DEF T
<1>4. \E y, z \in S : y # z /\ f[y] = f[z]
  BY <1>1, <1>2, <1>3, FS_PigeonHole
<1>5. QED
  BY <1>4

\* A stable pairing of the same rows in another order pairs every row with its like.
LEMMA LikesFindEachOther ==
  ASSUME NEW pred, NEW gold, IsFiniteSet(DOMAIN gold), NEW M, Stable(pred, gold, M),
         NEW perm \in Bijection(DOMAIN pred, DOMAIN gold),
         \A i \in DOMAIN pred : pred[i] = gold[perm[i]]
  PROVE  /\ \A m \in M : pred[m[1]] = gold[m[2]]
         /\ \A i \in DOMAIN pred : \E m \in M : m[1] = i
         /\ \A j \in DOMAIN gold : \E m \in M : m[2] = j
<1> DEFINE P == DOMAIN pred
           G == DOMAIN gold
<1>1. /\ perm \in [P -> G]
      /\ \A i, k \in P : perm[i] = perm[k] => i = k
      /\ \A j \in G : \E i \in P : perm[i] = j
  BY DEF Bijection, Injection, Surjection, IsInjective
<1>2. /\ \A m \in M : m[1] \in P /\ m[2] \in G /\ m = <<m[1], m[2]>>
      /\ \A m, o \in M : m[1] = o[1] \/ m[2] = o[2] => m = o
      /\ \A i \in P, j \in G : pred[i] = gold[j] =>
           \E m \in M : (m[1] = i \/ m[2] = j) /\ pred[m[1]] = gold[m[2]]
  <2>1. \A m \in M : m[1] \in P /\ m[2] \in G /\ m = <<m[1], m[2]>>
    BY DEF Stable
  <2>2. \A m, o \in M : m[1] = o[1] \/ m[2] = o[2] => m = o
    BY DEF Stable, Shares
  <2>3. ASSUME NEW i \in P, NEW j \in G, pred[i] = gold[j]
        PROVE  \E m \in M : (m[1] = i \/ m[2] = j) /\ pred[m[1]] = gold[m[2]]
    <3> DEFINE x == <<i, j>>
    <3>1. x \in P \X G /\ x[1] = i /\ x[2] = j
      BY <2>3
    <3>2. \E m \in M : Shares(m, x) /\ pred[m[1]] = gold[m[2]]
      BY <2>3, <3>1 DEF Stable
    <3>3. QED
      BY <3>1, <3>2 DEF Shares
  <2>4. QED
    BY <2>1, <2>2, <2>3
<1> HIDE DEF P, G
<1>3. ASSUME NEW i \in P
      PROVE  \E m \in M : m[1] = i /\ pred[m[1]] = gold[m[2]]
  <2>1. SUFFICES ASSUME \A m \in M : m[1] = i => pred[m[1]] # gold[m[2]]
                 PROVE  FALSE
    OBVIOUS
  <2> DEFINE S == {j \in G : gold[j] = pred[i]}
             other == [j \in S |-> CHOOSE m \in M : m[2] = j /\ pred[m[1]] = gold[m[2]]]
             f == [j \in S |-> perm[other[j][1]]]
  <2>2. \A j \in S : other[j] \in M /\ other[j][2] = j /\ pred[other[j][1]] = gold[j] /\ other[j][1] # i
    <3>1. ASSUME NEW j \in S
          PROVE  \E m \in M : m[2] = j /\ pred[m[1]] = gold[m[2]]
      BY <1>2, <2>1, <3>1
    <3>2. \A j \in S : other[j] \in M /\ other[j][2] = j /\ pred[other[j][1]] = gold[other[j][2]]
      BY <3>1
    <3> HIDE DEF other
    <3>3. QED
      BY <2>1, <3>2
  <2>3. IsFiniteSet(S)
    <3>1. S \subseteq G /\ IsFiniteSet(G)
      BY DEF G
    <3> HIDE DEF S
    <3>2. QED
      BY <3>1, FS_Subset
  <2>4. \A i2 \in P : pred[i2] = gold[perm[i2]]
    BY DEF P
  <2>5. perm[i] \in S
    BY <1>1, <2>4
  <2>6. ASSUME NEW j \in S
        PROVE  f[j] \in S \ {perm[i]}
    <3>1. other[j] \in M /\ pred[other[j][1]] = gold[j] /\ other[j][1] # i /\ other[j][1] \in P
      BY <1>2, <2>2
    <3> HIDE DEF other
    <3>2. f[j] = perm[other[j][1]] /\ gold[j] = pred[i]
      OBVIOUS
    <3> HIDE DEF f
    <3>3. f[j] \in G /\ gold[f[j]] = pred[i] /\ f[j] # perm[i]
      BY <1>1, <2>4, <3>1, <3>2
    <3>4. QED
      BY <3>3
  <2>7. ASSUME NEW j \in S, NEW k \in S, f[j] = f[k]
        PROVE  j = k
    <3>1. /\ other[j] \in M /\ other[k] \in M /\ other[j][1] \in P /\ other[k][1] \in P
          /\ other[j][2] = j /\ other[k][2] = k
      BY <1>2, <2>2
    <3> HIDE DEF other
    <3>2. perm[other[j][1]] = perm[other[k][1]]
      BY <2>7
    <3>3. other[j][1] = other[k][1]
      BY <1>1, <3>1, <3>2
    <3>4. other[j] = other[k]
      BY <1>2, <3>1, <3>3
    <3>5. QED
      BY <3>1, <3>4
  <2>8. f \in [S -> S \ {perm[i]}]
    BY <2>6
  <2> HIDE DEF f, S
  <2> DEFINE x == perm[i]
  <2>9. x \in S /\ f \in [S -> S \ {x}]
    BY <2>5, <2>8
  <2> HIDE DEF x
  <2>10. QED
    BY <2>3, <2>7, <2>9, NoneLeftOver
<1>4. \A m \in M : pred[m[1]] = gold[m[2]]
  BY <1>2, <1>3
<1>5. ASSUME NEW j \in G
      PROVE  \E m \in M : m[2] = j
  <2>1. SUFFICES ASSUME \A m \in M : m[2] # j
                 PROVE  FALSE
    OBVIOUS
  <2> DEFINE back == [k \in G |-> CHOOSE i \in P : perm[i] = k]
             partner == [i \in P |-> CHOOSE m \in M : m[1] = i]
             f == [k \in G |-> partner[back[k]][2]]
  <2>2. \A k \in G : back[k] \in P /\ perm[back[k]] = k
    BY <1>1
  <2>3. \A i \in P : partner[i] \in M /\ partner[i][1] = i
    BY <1>3
  <2>4. \A k \in G : f[k] = partner[back[k]][2]
    OBVIOUS
  <2>5. DOMAIN f = G /\ f = [k \in G |-> f[k]]
    OBVIOUS
  <2> HIDE DEF back, partner, f
  <2>6. \A k \in G : f[k] \in G \ {j}
    BY <1>2, <2>1, <2>2, <2>3, <2>4
  <2>7. ASSUME NEW k \in G, NEW l \in G, f[k] = f[l]
        PROVE  k = l
    <3>1. partner[back[k]] = partner[back[l]]
      BY <1>2, <2>2, <2>3, <2>4, <2>7
    <3>2. back[k] = back[l]
      BY <2>2, <2>3, <3>1
    <3>3. QED
      BY <2>2, <3>2
  <2>8. f \in [G -> G \ {j}] /\ IsFiniteSet(G)
    BY <2>5, <2>6 DEF G
  <2>9. QED
    BY <2>7, <2>8, NoneLeftOver
<1>6. QED
  BY <1>3, <1>4, <1>5 DEF P, G

\* The other way round, partners are a way to put the rows in order.
LEMMA PartnersArePermutation ==
  ASSUME NEW pred, NEW gold, NEW M, Stable(pred, gold, M),
         \A m \in M : pred[m[1]] = gold[m[2]],
         \A i \in DOMAIN pred : \E m \in M : m[1] = i,
         \A j \in DOMAIN gold : \E m \in M : m[2] = j
  PROVE  \E perm \in Bijection(DOMAIN pred, DOMAIN gold) :
           \A i \in DOMAIN pred : pred[i] = gold[perm[i]]
<1> DEFINE P == DOMAIN pred
           G == DOMAIN gold
           partner == [i \in P |-> CHOOSE m \in M : m[1] = i]
           perm == [i \in P |-> partner[i][2]]
<1>1. /\ \A m \in M : m[1] \in P /\ m[2] \in G
      /\ \A m, o \in M : m[1] = o[1] \/ m[2] = o[2] => m = o
  BY DEF Stable, Shares
<1>2. \A i \in P : partner[i] \in M /\ partner[i][1] = i /\ perm[i] = partner[i][2]
  OBVIOUS
<1>3. DOMAIN perm = P /\ perm = [i \in P |-> perm[i]]
  OBVIOUS
<1> HIDE DEF P, G, partner, perm
<1>4. perm \in [P -> G]
  BY <1>1, <1>2, <1>3
<1>5. \A i, k \in P : perm[i] = perm[k] => i = k
  BY <1>1, <1>2
<1>6. \A j \in G : \E i \in P : perm[i] = j
  <2>1. SUFFICES ASSUME NEW j \in G PROVE \E i \in P : perm[i] = j
    OBVIOUS
  <2>2. PICK m \in M : m[2] = j
    BY DEF G
  <2>3. partner[m[1]] = m
    BY <1>1, <1>2
  <2>4. QED
    BY <1>1, <1>2, <2>2, <2>3
<1>7. perm \in Bijection(P, G)
  BY <1>4, <1>5, <1>6 DEF Bijection, Injection, Surjection, IsInjective
<1>8. \A i \in P : pred[i] = gold[perm[i]]
  BY <1>2
<1>9. QED
  BY <1>7, <1>8 DEF P, G

\* The pairs found are pairs of rows, stably.
LEMMA MatchesAreStable ==
  ASSUME NEW pred, NEW gold, pred \in Seq(LineItem), gold \in Seq(LineItem)
  PROVE  /\ Matches(pred, gold) \in Seq((DOMAIN pred) \X (DOMAIN gold))
         /\ Stable(pred, gold, Range(Matches(pred, gold)))
         /\ IsFiniteSet(DOMAIN gold)
<1> DEFINE c == Candidates(pred, gold)
           M == Range(Matches(pred, gold))
           all == (DOMAIN pred) \X (DOMAIN gold)
           sim(x) == Alikeness(pred, gold, x)
<1>1. /\ \A m, o \in M : Shares(m, o) => m = o
      /\ \A x \in all : sim(x) >= Threshold => \E m \in M : Shares(m, x) /\ sim(m) >= sim(x)
  BY PairingIsStable
<1>2. c \in Seq(Alike(pred, gold))
  BY CandidatesFacts
<1>3. Matches(pred, gold) \in Seq(all) /\ M \subseteq all
  <2>1. Matches(pred, gold) \in Seq(Alike(pred, gold))
    <3> DEFINE A == Alike(pred, gold)
               f == CHOOSE g : Pairings(g, c)
               len == Len(c)
    <3>1. Matches(pred, gold) = f[len]
      BY DEF Matches, Greedily, Pairings, Grown, Taken
    <3>2. \A n \in 0..len : f[n] \in Seq(A)
      <4>1. c \in Seq(A)
        BY <1>2
      <4> HIDE DEF c, A
      <4>2. QED
        BY <4>1, PairingUnfolds
    <3>3. len \in Nat
      BY <1>2, LenProperties
    <3> HIDE DEF f, len, A
    <3>4. QED
      BY <3>1, <3>2, <3>3 DEF A
  <2>2. Alike(pred, gold) \subseteq all
    BY DEF Alike
  <2>3. Seq(Alike(pred, gold)) \subseteq Seq(all)
    BY <2>2, SeqDef
  <2>4. Matches(pred, gold) \in Seq(all)
    BY <2>1, <2>3
  <2> HIDE DEF all
  <2>5. QED
    BY <2>4, RangeOfSeq
<1>4. \A x \in all : sim(x) >= 12 <=> pred[x[1]] = gold[x[2]]
  <2>1. ASSUME NEW x \in all
        PROVE  sim(x) >= 12 <=> pred[x[1]] = gold[x[2]]
    <3> DEFINE p == pred[x[1]]
               g == gold[x[2]]
    <3>1. p \in LineItem /\ g \in LineItem
      BY <2>1, LenProperties, ElementOfSeq
    <3> HIDE DEF p, g
    <3>2. ItemSimilarity(p, g) >= 12 <=> p = g
      BY <3>1, SameIsMostAlike
    <3>3. QED
      BY <3>2 DEF p, g, Alikeness
  <2>2. QED
    BY <2>1
<1>5. \A x \in all : sim(x) \in Int
  BY PairsFacts
<1>6. IsFiniteSet(DOMAIN gold)
  <2> DEFINE n == Len(gold)
  <2>1. n \in Nat /\ DOMAIN gold = 1..n
    BY LenProperties
  <2> HIDE DEF n
  <2>2. IsFiniteSet(1..n)
    BY <2>1, FS_Interval
  <2>3. QED
    BY <2>1, <2>2
<1> HIDE DEF sim, M
<1>7. ASSUME NEW x \in all, pred[x[1]] = gold[x[2]]
      PROVE  \E m \in M : Shares(m, x) /\ pred[m[1]] = gold[m[2]]
  <2>1. sim(x) >= 12 /\ sim(x) \in Int
    BY <1>4, <1>5, <1>7
  <2>2. sim(x) >= Threshold
    BY <2>1 DEF Threshold
  <2>3. PICK m \in M : Shares(m, x) /\ sim(m) >= sim(x)
    BY <1>1, <2>2
  <2>4. m \in all /\ sim(m) \in Int
    BY <1>3, <1>5
  <2>5. sim(m) >= 12
    BY <2>1, <2>3, <2>4
  <2>6. QED
    BY <1>4, <2>3, <2>4, <2>5
<1>8. QED
  BY <1>1, <1>3, <1>6, <1>7 DEF Stable, M

\* What a document's exact says.
LEMMA DocumentExact ==
  ASSUME NEW gold, NEW pred, NEW items, NEW failed \in BOOLEAN,
         gold.line_items \in Seq(LineItem), items \in Seq(LineItem)
  PROVE  /\ Outcomes(gold, pred, items, failed) \in Seq(OneOutcome)
         /\ (\A n \in DOMAIN Outcomes(gold, pred, items, failed) :
               Outcomes(gold, pred, items, failed)[n].exact)
            <=> /\ ~failed
                /\ \A f \in ScalarFields : Agrees(f, pred[f], gold[f])
                /\ Normalized("due_date", pred.due_date) = Normalized("due_date", gold.due_date)
                /\ \E perm \in Bijection(DOMAIN items, DOMAIN gold.line_items) :
                     \A i \in DOMAIN items : Reading(items[i]) = Reading(gold.line_items[perm[i]])
<1> DEFINE scalars == [n \in DOMAIN SCALAR_FIELDS |-> ScoreScalar(SCALAR_FIELDS[n], gold, pred, failed)]
           due == ScoreDueDate(gold, pred, failed)
           told == gold.line_items
           glines == Readings(told)
           said == Readings(items)
           matches == Matches(said, glines)
           rows == RowOutcomes(glines, said, matches)
           lines == ScoreLineItems(glines, said)
           outcomes == Outcomes(gold, pred, items, failed)
           AllAgree == \A f \in ScalarFields : Agrees(f, pred[f], gold[f])
           SameDate == Normalized("due_date", pred.due_date) = Normalized("due_date", gold.due_date)
           Permuted == \E perm \in Bijection(DOMAIN said, DOMAIN glines) :
                         \A i \in DOMAIN said : said[i] = glines[perm[i]]
           Reordered == \E perm \in Bijection(DOMAIN items, DOMAIN told) :
                          \A i \in DOMAIN items : Reading(items[i]) = Reading(told[perm[i]])
           Fine(s) == \A o \in Range(s) : o.exact
<1>1. outcomes = (scalars \o <<due>>) \o lines /\ lines = FlattenSeq(rows)
  BY DEF Outcomes, ScoreLineItems
<1>2. scalars \in Seq(OneOutcome) /\ (Fine(scalars) <=> ~failed /\ AllAgree)
  <2>1. /\ DOMAIN scalars = 1..8 /\ scalars = [n \in 1..8 |-> scalars[n]]
        /\ \A n \in 1..8 : scalars[n] = ScoreScalar(SCALAR_FIELDS[n], gold, pred, failed)
    BY FieldNames
  <2> HIDE DEF scalars
  <2>2. \A n \in 1..8 : SCALAR_FIELDS[n] \in ScalarFields
    BY FieldNames
  <2>3. \A f \in ScalarFields : /\ ScoreScalar(f, gold, pred, failed) \in OneOutcome
                                /\ ScoreScalar(f, gold, pred, failed).exact <=> ~failed /\ Agrees(f, pred[f], gold[f])
    BY ScalarExact
  <2>4. scalars \in [1..8 -> OneOutcome]
    BY <2>1, <2>2, <2>3
  <2>5. scalars \in Seq(OneOutcome)
    BY <2>4, Table
  <2>6. Fine(scalars) <=> \A n \in 1..8 : ~failed /\ Agrees(SCALAR_FIELDS[n], pred[SCALAR_FIELDS[n]], gold[SCALAR_FIELDS[n]])
    BY <2>1, <2>2, <2>3 DEF Range
  <2>7. AllAgree <=> \A n \in 1..8 : Agrees(SCALAR_FIELDS[n], pred[SCALAR_FIELDS[n]], gold[SCALAR_FIELDS[n]])
    BY FieldNames
  <2>8. 1 \in 1..8
    OBVIOUS
  <2> HIDE DEF Fine, AllAgree
  <2>9. QED
    BY <2>5, <2>6, <2>7, <2>8
<1>3. due \in OneOutcome /\ (~failed => (due.exact <=> SameDate))
  BY DueDateExact
<1>4. glines \in Seq(LineItem) /\ said \in Seq(LineItem)
  BY ReadingsTyped
<1>5. /\ matches \in Seq((DOMAIN said) \X (DOMAIN glines))
      /\ Stable(said, glines, Range(matches)) /\ IsFiniteSet(DOMAIN glines)
  <2> HIDE DEF glines, said
  <2>1. QED
    BY <1>4, MatchesAreStable DEF matches
<1>6. /\ rows \in Seq(Seq(OneOutcome))
      /\ (\A n \in DOMAIN rows : Fine(rows[n]))
           <=> /\ \A m \in Range(matches) : said[m[1]] = glines[m[2]]
               /\ \A i \in DOMAIN said : \E m \in Range(matches) : m[1] = i
               /\ \A j \in DOMAIN glines : \E m \in Range(matches) : m[2] = j
  <2> HIDE DEF matches, glines, said
  <2>1. glines \in Seq(LineItem) /\ said \in Seq(LineItem)
    BY <1>4
  <2>2. RowsAre(said, glines, matches)
    BY <1>5, <2>1, RowParts
  <2>3. rows \in Seq(Seq(OneOutcome))
    BY <2>2 DEF RowsAre
  <2>4. matches \in Seq((DOMAIN said) \X (DOMAIN glines))
    BY <1>5
  <2>5. ExactIfPaired(said, glines, matches)
    BY <2>1, <2>4, RowsExact
  <2>6. QED
    BY <2>3, <2>5 DEF ExactIfPaired
<1>7. lines \in Seq(OneOutcome) /\ (Fine(lines) <=> \A n \in DOMAIN rows : Fine(rows[n]))
  <2>1. rows \in Seq(Seq(OneOutcome))
    BY <1>6
  <2> HIDE DEF rows, lines
  <2>2. /\ FlattenSeq(rows) \in Seq(OneOutcome)
        /\ \A x : x \in Range(FlattenSeq(rows)) <=> \E i \in DOMAIN rows : x \in Range(rows[i])
    BY <2>1, FlattenRange
  <2>3. QED
    BY <1>1, <2>2
<1> HIDE DEF scalars, due, matches, rows, lines, outcomes
<1>8. (\A n \in DOMAIN rows : Fine(rows[n])) <=> Permuted
  <2> DEFINE M == Range(matches)
             Paired == /\ \A m \in M : said[m[1]] = glines[m[2]]
                       /\ \A i \in DOMAIN said : \E m \in M : m[1] = i
                       /\ \A j \in DOMAIN glines : \E m \in M : m[2] = j
  <2>1. (\A n \in DOMAIN rows : Fine(rows[n])) <=> Paired
    BY <1>6
  <2>2. Stable(said, glines, M) /\ IsFiniteSet(DOMAIN glines)
    BY <1>5
  <2> HIDE DEF M, glines, said
  <2>3. Paired => Permuted
    BY <2>2, PartnersArePermutation
  <2>4. Permuted => Paired
    BY <2>2, LikesFindEachOther
  <2> HIDE DEF Paired, Permuted, Fine
  <2>5. QED
    BY <2>1, <2>3, <2>4
<1>9. /\ outcomes \in Seq(OneOutcome)
      /\ Range(outcomes) = (Range(scalars) \cup {due}) \cup Range(lines)
  <2> DEFINE one == <<due>>
             first == scalars \o one
  <2>1. one \in Seq(OneOutcome) /\ Range(one) = {due}
    <3>1. one \in Seq(OneOutcome) /\ Len(one) = 1 /\ one[1] = due
      BY <1>3, OnePart
    <3> HIDE DEF one
    <3>2. Range(one) = {one[i] : i \in 1..1}
      BY <3>1, RangeEquality
    <3>3. \A i : i \in 1..1 <=> i = 1
      OBVIOUS
    <3>4. QED
      BY <3>1, <3>2, <3>3
  <2>2. outcomes = first \o lines
    BY <1>1
  <2> HIDE DEF one
  <2>3. first \in Seq(OneOutcome) /\ Range(first) = Range(scalars) \cup Range(one)
    BY <1>2, <2>1, ConcatProperties, RangeConcatenation
  <2> HIDE DEF first
  <2>4. first \o lines \in Seq(OneOutcome) /\ Range(first \o lines) = Range(first) \cup Range(lines)
    BY <1>7, <2>3, ConcatProperties, RangeConcatenation
  <2>5. QED
    BY <2>1, <2>2, <2>3, <2>4
<1>10. (\A n \in DOMAIN outcomes : outcomes[n].exact) <=> Fine(outcomes)
  BY DEF Range
<1>11. Fine(outcomes) <=> Fine(scalars) /\ due.exact /\ Fine(lines)
  BY <1>9
<1>12. Permuted <=> Reordered
  <2>1. /\ DOMAIN glines = DOMAIN told /\ \A i \in DOMAIN told : glines[i] = Reading(told[i])
        /\ DOMAIN said = DOMAIN items /\ \A i \in DOMAIN items : said[i] = Reading(items[i])
    BY ReadingsTyped
  <2> HIDE DEF glines, said, told
  <2>2. \A perm \in Bijection(DOMAIN items, DOMAIN told), i \in DOMAIN items : perm[i] \in DOMAIN told
    BY DEF Bijection, Injection, Surjection
  <2>3. QED
    BY <2>1, <2>2
<1> HIDE DEF Fine, AllAgree, SameDate, Permuted, Reordered
<1>13. (\A n \in DOMAIN outcomes : outcomes[n].exact) <=> ~failed /\ AllAgree /\ SameDate /\ Reordered
  BY <1>2, <1>3, <1>7, <1>8, <1>10, <1>11, <1>12
<1>14. QED
  BY <1>9, <1>13 DEF outcomes, AllAgree, SameDate, Reordered, told

\* What score_document is shown of a row.
Given(n) == IF Failed(n) THEN <<>> ELSE Prediction(n)

\* What a row of the report is made of.
LEMMA RowTyped ==
  ASSUME EvalInv, NEW n \in Rows
  PROVE  /\ Gold(n).line_items \in Seq(LineItem) /\ Gold(n).due_date \in Int \ {Garbled}
         /\ Items(n) \in Seq(LineItem) /\ Failed(n) \in BOOLEAN
         /\ Items(n) = IF Failed(n) THEN <<>> ELSE Given(n).line_items
         /\ Results[n] = ScoreDocument(Gold(n), Given(n), Failed(n))
<1>1. Gold(n).line_items \in Seq(LineItem) /\ Gold(n).due_date \in Int \ {Garbled}
  <2>1. Dataset[n] \in Range(Dataset)
    BY HarnessFields DEF EvalInv, Range
  <2>2. QED
    BY <2>1, EvaluationAssumption DEF Gold
<1>2. Items(n) \in Seq(LineItem)
  <2>1. harness.predictions[n] \in Slot
    BY HarnessFields DEF EvalInv
  <2>2. CASE Failed(n)
    <3>1. Items(n) = <<>>
      BY <2>2 DEF Items
    <3>2. QED
      BY <3>1
  <2>3. CASE ~ Failed(n)
    <3>1. PICK p \in Predictions : harness.predictions[n] = Predicted(p)
      BY <2>1, <2>3 DEF Slot, Failed
    <3>2. Items(n) = p.line_items
      BY <2>3, <3>1 DEF Items, Prediction, Predicted
    <3>3. QED
      BY <3>1, <3>2, EvaluationAssumption
  <2>4. QED
    BY <2>2, <2>3
<1>3. Failed(n) \in BOOLEAN
  BY DEF Failed
<1>4. Results[n] = ScoreDocument(Gold(n), Given(n), Failed(n))
  BY DEF Results, Rows, Failed, Prediction, Gold, Given
<1>5. Items(n) = IF Failed(n) THEN <<>> ELSE Given(n).line_items
  BY DEF Items, Given
<1>6. QED
  BY <1>1, <1>2, <1>3, <1>4, <1>5

\* What score_document says of a document's exactness, for the row of the data set
\* that the harness has scored.
THEOREM ExactSafety == EvalSpec => []ExactIsEqual
<1>1. EvalInv => ExactIsEqual
  <2>1. SUFFICES ASSUME EvalInv, NEW n \in Rows
                 PROVE  Results[n].exact <=>
                          /\ ~Failed(n)
                          /\ \A f \in ScalarFields : Agrees(f, Prediction(n)[f], Gold(n)[f])
                          /\ Normalized("due_date", Prediction(n).due_date)
                               = Normalized("due_date", Gold(n).due_date)
                          /\ \E perm \in Bijection(DOMAIN Items(n), DOMAIN Gold(n).line_items) :
                               \A i \in DOMAIN Items(n) : Reading(Items(n)[i]) = Reading(Gold(n).line_items[perm[i]])
    BY DEF ExactIsEqual
  <2> DEFINE gold == Gold(n)
             failed == Failed(n)
             shown == Given(n)
             items == Items(n)
             AllExact == \A k \in DOMAIN Outcomes(gold, shown, items, failed) :
                           Outcomes(gold, shown, items, failed)[k].exact
             Permuted == \E perm \in Bijection(DOMAIN items, DOMAIN gold.line_items) :
                           \A i \in DOMAIN items : Reading(items[i]) = Reading(gold.line_items[perm[i]])
  <2>2. /\ gold.line_items \in Seq(LineItem) /\ gold.due_date \in Int \ {Garbled}
        /\ items \in Seq(LineItem) /\ failed \in BOOLEAN
        /\ items = IF failed THEN <<>> ELSE shown.line_items
        /\ Results[n] = ScoreDocument(gold, shown, failed)
    BY <2>1, RowTyped
  <2>3. ScoreDocument(gold, shown, failed).exact <=> AllExact
    BY <2>2 DEF ScoreDocument
  <2>5. ~failed => shown = Prediction(n)
    BY DEF Given
  <2>6. gold = Gold(n) /\ failed = Failed(n) /\ items = Items(n)
    OBVIOUS
  <2> HIDE DEF gold, failed, shown, items
  <2>7. gold.line_items \in Seq(LineItem) /\ items \in Seq(LineItem) /\ failed \in BOOLEAN
    BY <2>2
  <2>8. AllExact
           <=> /\ ~failed
               /\ \A f \in ScalarFields : Agrees(f, shown[f], gold[f])
               /\ Normalized("due_date", shown.due_date) = Normalized("due_date", gold.due_date)
               /\ Permuted
    BY <2>7, DocumentExact
  <2> HIDE DEF AllExact
  <2>9. QED
    BY <2>2, <2>3, <2>5, <2>6, <2>8
<1>2. QED
  BY <1>1, EvalInvariance, PTL

-----------------------------------------------------------------------------
(* Sums *)

\* The sum of one more number.
LEMMA SumOfAppend ==
  ASSUME NEW a \in Seq(Int), NEW x \in Int
  PROVE  SumOf(Append(a, x)) = SumOf(a) + x
<1> DEFINE all == Append(a, x)
           len == Len(a)
<1>1. all \in Seq(Int) /\ Len(all) = len + 1 /\ len \in Nat
      /\ all[len + 1] = x /\ \A i \in 1..len : all[i] = a[i]
  BY LenProperties, AppendProperties
<1>2. PICK f \in [0..len -> Int] :
        f[0] = 0 /\ (\A n \in 1..len : f[n] = f[n - 1] + a[n]) /\ SumOf(a) = f[len]
  BY SumUnfolds
<1> HIDE DEF all, len
<1>3. PICK g \in [0..(len + 1) -> Int] :
        g[0] = 0 /\ (\A n \in 1..(len + 1) : g[n] = g[n - 1] + all[n]) /\ SumOf(all) = g[len + 1]
  BY <1>1, SumUnfolds
<1> DEFINE T == {n \in Nat : n <= len => g[n] = f[n]}
<1>4. 0 \in T
  BY <1>2, <1>3
<1>5. ASSUME NEW n \in Nat, n \in T
      PROVE  n + 1 \in T
  <2> SUFFICES ASSUME n + 1 <= len PROVE g[n + 1] = f[n + 1]
    OBVIOUS
  <2>1. n + 1 \in 1..len /\ n + 1 \in 1..(len + 1) /\ (n + 1) - 1 = n /\ g[n] = f[n]
    BY <1>1, <1>5
  <2>2. QED
    BY <1>1, <1>2, <1>3, <2>1
<1> HIDE DEF T
<1>6. \A n \in Nat : n \in T
  BY <1>4, <1>5, NatInduct
<1>7. g[len] = f[len]
  BY <1>1, <1>6 DEF T
<1>8. len + 1 \in 1..(len + 1) /\ (len + 1) - 1 = len
  BY <1>1
<1>9. QED
  BY <1>1, <1>2, <1>3, <1>7, <1>8 DEF all

\* A sum of zeros and ones counts the ones.
LEMMA SumOfMarks ==
  ASSUME NEW a \in Seq(Int), NEW S, S \subseteq 1..Len(a),
         \A n \in 1..Len(a) : a[n] = IF n \in S THEN 1 ELSE 0
  PROVE  SumOf(a) = Cardinality(S)
<1> DEFINE len == Len(a)
           upTo(n) == S \cap (1..n)
<1>1. len \in Nat
  BY LenProperties
<1>2. PICK f \in [0..len -> Int] :
        f[0] = 0 /\ (\A n \in 1..len : f[n] = f[n - 1] + a[n]) /\ SumOf(a) = f[len]
  BY SumUnfolds
<1>3. ASSUME NEW n \in Nat
      PROVE  IsFiniteSet(upTo(n))
  <2>1. IsFiniteSet(1..n)
    BY FS_Interval
  <2>2. QED
    BY <2>1, FS_Subset
<1> HIDE DEF len
<1> DEFINE T == {n \in Nat : n <= len => f[n] = Cardinality(upTo(n))}
<1>4. 0 \in T
  <2>1. upTo(0) = {}
    OBVIOUS
  <2>2. QED
    BY <1>2, <2>1, FS_EmptySet
<1>5. ASSUME NEW n \in Nat, n \in T
      PROVE  n + 1 \in T
  <2> SUFFICES ASSUME n + 1 <= len PROVE f[n + 1] = Cardinality(upTo(n + 1))
    OBVIOUS
  <2>1. n + 1 \in 1..len /\ (n + 1) - 1 = n /\ f[n] = Cardinality(upTo(n))
    BY <1>1, <1>5
  <2>2. f[n + 1] = f[n] + a[n + 1]
    BY <1>2, <2>1
  <2>3. IsFiniteSet(upTo(n)) /\ n + 1 \notin upTo(n) /\ Cardinality(upTo(n)) \in Nat
    BY <1>3, FS_CardinalityType
  <2>4. CASE n + 1 \in S
    <3>1. upTo(n + 1) = upTo(n) \cup {n + 1}
      BY <2>4
    <3>2. a[n + 1] = 1
      BY <2>1, <2>4 DEF len
    <3> HIDE DEF upTo
    <3>3. Cardinality(upTo(n) \cup {n + 1}) = Cardinality(upTo(n)) + 1
      BY <2>3, FS_AddElement
    <3>4. QED
      BY <2>1, <2>2, <3>1, <3>2, <3>3
  <2>5. CASE n + 1 \notin S
    <3>1. upTo(n + 1) = upTo(n)
      BY <2>5
    <3>2. a[n + 1] = 0
      BY <2>1, <2>5 DEF len
    <3> HIDE DEF upTo
    <3>3. QED
      BY <2>1, <2>2, <2>3, <3>1, <3>2
  <2>6. QED
    BY <2>4, <2>5
<1> HIDE DEF T
<1>6. \A n \in Nat : n \in T
  BY <1>4, <1>5, NatInduct
<1>7. upTo(len) = S
  BY DEF len
<1>8. f[len] = Cardinality(upTo(len))
  BY <1>1, <1>6 DEF T
<1>9. QED
  BY <1>2, <1>7, <1>8

\* All ones, or all zeros.
LEMMA SumOfOnes ==
  ASSUME NEW a \in Seq(Int)
  PROVE  /\ (\A n \in 1..Len(a) : a[n] = 1) => SumOf(a) = Len(a)
         /\ (\A n \in 1..Len(a) : a[n] = 0) => SumOf(a) = 0
<1> DEFINE len == Len(a)
           all == 1..len
           none == {}
<1>1. len \in Nat
  BY LenProperties
<1>2. Cardinality(all) = len /\ Cardinality(none) = 0
  <2>1. Cardinality(1..len) = IF 1 > len THEN 0 ELSE len - 1 + 1
    BY <1>1, FS_Interval
  <2>2. QED
    BY <1>1, <2>1, FS_EmptySet
<1>3. ASSUME \A n \in 1..len : a[n] = 1
      PROVE  SumOf(a) = len
  <2>1. all \subseteq 1..Len(a) /\ \A n \in 1..Len(a) : a[n] = IF n \in all THEN 1 ELSE 0
    BY <1>3
  <2> HIDE DEF all
  <2>2. SumOf(a) = Cardinality(all)
    BY <2>1, SumOfMarks
  <2>3. QED
    BY <1>2, <2>2
<1>4. ASSUME \A n \in 1..len : a[n] = 0
      PROVE  SumOf(a) = 0
  <2>1. none \subseteq 1..Len(a) /\ \A n \in 1..Len(a) : a[n] = IF n \in none THEN 1 ELSE 0
    BY <1>4
  <2> HIDE DEF none
  <2>2. SumOf(a) = Cardinality(none)
    BY <2>1, SumOfMarks
  <2>3. QED
    BY <1>2, <2>2
<1>5. QED
  BY <1>3, <1>4

\* A sum with one term.
LEMMA SumOfOneTerm ==
  ASSUME NEW a \in Seq(Int), NEW k \in 1..Len(a), \A n \in 1..Len(a) : n # k => a[n] = 0
  PROVE  SumOf(a) = a[k]
<1> DEFINE len == Len(a)
<1>1. len \in Nat /\ k \in 1..len /\ a[k] \in Int
  BY LenProperties, ElementOfSeq
<1>2. PICK f \in [0..len -> Int] :
        f[0] = 0 /\ (\A n \in 1..len : f[n] = f[n - 1] + a[n]) /\ SumOf(a) = f[len]
  BY SumUnfolds
<1>3. \A n \in 1..len : n # k => a[n] = 0
  OBVIOUS
<1> HIDE DEF len
<1> DEFINE T == {n \in Nat : n <= len => f[n] = IF n < k THEN 0 ELSE a[k]}
<1>4. 0 \in T
  BY <1>1, <1>2
<1>5. ASSUME NEW n \in Nat, n \in T
      PROVE  n + 1 \in T
  <2> SUFFICES ASSUME n + 1 <= len PROVE f[n + 1] = IF n + 1 < k THEN 0 ELSE a[k]
    OBVIOUS
  <2>1. n + 1 \in 1..len /\ (n + 1) - 1 = n /\ f[n] = IF n < k THEN 0 ELSE a[k]
    BY <1>1, <1>5
  <2>2. f[n + 1] = f[n] + a[n + 1]
    BY <1>2, <2>1
  <2>3. CASE n + 1 = k
    BY <1>1, <2>1, <2>2, <2>3
  <2>4. CASE n + 1 # k
    <3>1. a[n + 1] = 0
      BY <1>3, <2>1, <2>4
    <3>2. QED
      BY <1>1, <2>1, <2>2, <2>4, <3>1
  <2>5. QED
    BY <2>3, <2>4
<1> HIDE DEF T
<1>6. \A n \in Nat : n \in T
  BY <1>4, <1>5, NatInduct
<1>7. f[len] = a[k]
  BY <1>1, <1>6 DEF T
<1>8. QED
  BY <1>2, <1>7

-----------------------------------------------------------------------------
(* Weights of outcomes *)

\* The weights of the elements of s, and their sum.
Weights(w, s) == [n \in 1..Len(s) |-> w[s[n]]]
Weight(w, s) == SumOf(Weights(w, s))

Listed(w, s) ==
  /\ Weights(w, s) \in Seq(Int) /\ Len(Weights(w, s)) = Len(s)
  /\ \A n \in 1..Len(s) : Weights(w, s)[n] = w[s[n]]
  /\ Weight(w, s) \in Int

LEMMA WeightsAre ==
  ASSUME NEW X, NEW w \in [X -> Int], NEW s \in Seq(X)
  PROVE  Listed(w, s)
<1> DEFINE len == Len(s)
           a == Weights(w, s)
<1>1. len \in Nat /\ \A n \in 1..len : s[n] \in X
  BY LenProperties, ElementOfSeq
<1>2. a = [n \in 1..len |-> w[s[n]]]
  BY DEF Weights
<1> HIDE DEF len, a
<1>3. a \in [1..len -> Int]
  BY <1>1, <1>2
<1>4. a \in Seq(Int)
  BY <1>1, <1>3, Table
<1>5. DOMAIN a = 1..len
  BY <1>2
<1>6. Len(a) \in Nat /\ DOMAIN a = 1..Len(a)
  BY <1>4, LenProperties
<1>7. Len(a) = len
  BY <1>1, <1>5, <1>6
<1>8. SumOf(a) \in Int
  BY <1>4, SumIsInt
<1>9. QED
  BY <1>2, <1>4, <1>7, <1>8 DEF a, len, Weight, Listed

\* Two sequences with the same elements are the same.
LEMMA SameElements ==
  ASSUME NEW X, NEW s \in Seq(X), NEW t \in Seq(X), Len(s) = Len(t),
         \A n \in 1..Len(s) : s[n] = t[n]
  PROVE  s = t
  BY SeqEqual, LenProperties

\* Nothing weighs nothing; one more element adds its weight.
LEMMA WeightOfNothing ==
  ASSUME NEW X, NEW w \in [X -> Int]
  PROVE  Weight(w, <<>>) = 0
<1> DEFINE empty == <<>>
<1>1. empty \in Seq(X) /\ Len(empty) = 0
  BY EmptySeq
<1> HIDE DEF empty
<1>2. Weights(w, empty) \in Seq(Int) /\ Len(Weights(w, empty)) = 0
  <2>1. Listed(w, empty)
    BY <1>1, WeightsAre
  <2>2. QED
    BY <1>1, <2>1 DEF Listed
<1> DEFINE none == Weights(w, empty)
<1> HIDE DEF none
<1>3. SumOf(none) = 0
  <2>1. none \in Seq(Int) /\ \A n \in 1..Len(none) : none[n] = 0
    BY <1>2 DEF none
  <2>2. QED
    BY <2>1, SumOfOnes
<1>4. QED
  BY <1>3 DEF none, empty, Weight

LEMMA WeightAppend ==
  ASSUME NEW X, NEW w \in [X -> Int], NEW s \in Seq(X), NEW x \in X
  PROVE  Weight(w, Append(s, x)) = Weight(w, s) + w[x]
<1> DEFINE all == Append(s, x)
           a == Weights(w, s)
           b == Weights(w, all)
           v == w[x]
           c == Append(a, v)
<1>1. /\ all \in Seq(X) /\ Len(all) = Len(s) + 1 /\ Len(s) \in Nat
      /\ all[Len(s) + 1] = x /\ \A n \in 1..Len(s) : all[n] = s[n]
  BY LenProperties, AppendProperties
<1>2. v \in Int
  OBVIOUS
<1>3. a \in Seq(Int) /\ Len(a) = Len(s) /\ \A n \in 1..Len(s) : a[n] = w[s[n]]
  <2>1. Listed(w, s)
    BY WeightsAre
  <2>2. QED
    BY <2>1 DEF Listed
<1> HIDE DEF all, a, b
<1>4. b \in Seq(Int) /\ Len(b) = Len(all) /\ \A n \in 1..Len(all) : b[n] = w[all[n]]
  <2>1. Listed(w, all)
    BY <1>1, WeightsAre
  <2>2. QED
    BY <2>1 DEF Listed, b
<1> HIDE DEF v
<1>5. c \in Seq(Int) /\ Len(c) = Len(a) + 1 /\ c[Len(a) + 1] = v /\ \A n \in 1..Len(a) : c[n] = a[n]
  BY <1>2, <1>3, LenProperties, AppendProperties
<1> HIDE DEF c
<1>6. \A n \in 1..Len(b) : b[n] = c[n]
  <2>1. ASSUME NEW n \in 1..Len(b) PROVE b[n] = c[n]
    <3>1. n = Len(s) + 1 \/ n \in 1..Len(s)
      BY <1>1, <1>4
    <3>2. CASE n = Len(s) + 1
      <4>1. b[n] = w[x] /\ c[n] = v
        BY <1>1, <1>3, <1>4, <1>5, <3>2
      <4>2. QED
        BY <4>1 DEF v
    <3>3. CASE n \in 1..Len(s)
      BY <1>1, <1>3, <1>4, <1>5, <3>3
    <3>4. QED
      BY <3>1, <3>2, <3>3
  <2>2. QED
    BY <2>1
<1>7. b = c
  BY <1>1, <1>3, <1>4, <1>5, <1>6, SameElements
<1>8. SumOf(Append(a, v)) = SumOf(a) + v
  BY <1>2, <1>3, SumOfAppend
<1>9. QED
  BY <1>7, <1>8 DEF b, c, a, v, all, Weight

\* What is put together weighs what its parts weigh,
LEMMA WeightConcat ==
  ASSUME NEW X, NEW w \in [X -> Int], NEW s \in Seq(X), NEW t \in Seq(X)
  PROVE  Weight(w, s \o t) = Weight(w, s) + Weight(w, t)
<1> DEFINE T == {u \in Seq(X) : Weight(w, s \o u) = Weight(w, s) + Weight(w, u)}
<1>1. <<>> \in T
  <2>1. s \o <<>> = s
    BY ConcatEmptySeq
  <2>2. Weight(w, s) \in Int /\ Weight(w, <<>>) = 0
    <3>1. Listed(w, s)
      BY WeightsAre
    <3>2. QED
      BY <3>1, WeightOfNothing DEF Listed
  <2>3. QED
    BY <2>1, <2>2
<1>2. ASSUME NEW u \in Seq(X), NEW x \in X, u \in T
      PROVE  Append(u, x) \in T
  <2> DEFINE more == Append(u, x)
             all == s \o u
  <2>1. all \in Seq(X) /\ more \in Seq(X) /\ s \o more = Append(all, x)
    BY ConcatProperties, AppendProperties
  <2>2. Weight(w, more) = Weight(w, u) + w[x]
    BY WeightAppend
  <2>3. Weight(w, s) \in Int /\ Weight(w, u) \in Int /\ w[x] \in Int
    <3>1. Listed(w, s) /\ Listed(w, u)
      BY WeightsAre
    <3>2. QED
      BY <3>1 DEF Listed
  <2>4. Weight(w, all) = Weight(w, s) + Weight(w, u)
    BY <1>2
  <2> HIDE DEF all, more
  <2>5. Weight(w, Append(all, x)) = Weight(w, all) + w[x]
    BY <2>1, WeightAppend
  <2> DEFINE ws == Weight(w, s)
             wu == Weight(w, u)
             wx == w[x]
  <2>6. Weight(w, s \o more) = Weight(w, s) + Weight(w, more)
    <3>1. Weight(w, s \o more) = (ws + wu) + wx
      BY <2>1, <2>4, <2>5
    <3>2. Weight(w, s) + Weight(w, more) = ws + (wu + wx)
      BY <2>2
    <3>3. ws \in Int /\ wu \in Int /\ wx \in Int
      BY <2>3
    <3> HIDE DEF ws, wu, wx
    <3>4. (ws + wu) + wx = ws + (wu + wx)
      BY <3>3
    <3>5. QED
      BY <3>1, <3>2, <3>4
  <2>7. QED
    BY <2>1, <2>6 DEF more
<1> HIDE DEF T
<1>3. \A u \in Seq(X) : u \in T
  BY <1>1, <1>2, SeqInduct
<1>4. QED
  BY <1>3 DEF T

\* and rows of rows what the rows weigh.
Flattens(X, w, v) ==
  v \in [Seq(X) -> Int] /\ \A rows \in Seq(Seq(X)) : Weight(w, FlattenSeq(rows)) = Weight(v, rows)

LEMMA WeightOfFlattened ==
  ASSUME NEW X, NEW w \in [X -> Int], NEW v, v = [row \in Seq(X) |-> Weight(w, row)]
  PROVE  Flattens(X, w, v)
<1> DEFINE V == Seq(X)
           T == {rows \in Seq(V) : Weight(w, FlattenSeq(rows)) = Weight(v, rows)}
<1>1. v \in [V -> Int]
  <2>1. \A row \in V : Weight(w, row) \in Int
    BY WeightsAre DEF Listed
  <2>2. QED
    BY <2>1
<1>2. \A row \in V : v[row] = Weight(w, row)
  OBVIOUS
<1>3. <<>> \in T
  <2>1. FlattenSeq(<<>>) = <<>> /\ <<>> \in Seq(V)
    BY DEF FlattenSeq
  <2>2. Weight(w, <<>>) = 0
    BY WeightOfNothing
  <2> HIDE DEF V
  <2>3. Weight(v, <<>>) = 0
    BY <1>1, WeightOfNothing
  <2>4. QED
    BY <2>1, <2>2, <2>3
<1>4. ASSUME NEW rows \in Seq(V), NEW row \in V, rows \in T
      PROVE  Append(rows, row) \in T
  <2> DEFINE more == Append(rows, row)
             flat == FlattenSeq(rows)
             wf == Weight(w, flat)
             wr == Weight(w, row)
  <2>1. more \in Seq(V)
    BY AppendProperties
  <2>2. flat \in Seq(X) /\ FlattenSeq(more) = flat \o row
    BY FlattenRange, FlattenAppend
  <2>3. wf = Weight(v, rows)
    BY <1>4
  <2> HIDE DEF flat
  <2>4. Weight(w, flat \o row) = wf + wr
    BY <2>2, WeightConcat
  <2>5. Weight(v, more) = Weight(v, rows) + v[row]
    <3> HIDE DEF V
    <3>1. QED
      BY <1>1, WeightAppend
  <2>6. v[row] = wr
    BY <1>2
  <2> HIDE DEF more, wf, wr, V
  <2>7. Weight(w, FlattenSeq(more)) = Weight(v, more)
    BY <2>2, <2>3, <2>4, <2>5, <2>6
  <2>8. QED
    BY <2>1, <2>7 DEF more
<1> HIDE DEF T
<1>5. \A rows \in Seq(V) : rows \in T
  <2> HIDE DEF V
  <2>1. QED
    BY <1>3, <1>4, SeqInduct
<1>6. QED
  BY <1>1, <1>5 DEF T, Flattens

-----------------------------------------------------------------------------
(* Counts *)

CountRec == [tp : Int, fp : Int, fn : Int, tn : Int, exact_matches : Int, total : Int]
CountsRec == [FieldRows -> CountRec]

\* m measures counts, and each outcome adds its w to the measure.
Measures(m, w) ==
  /\ w \in [OneOutcome -> Int] /\ m \in [CountRec -> Int] /\ m[NoCounts] = 0
  /\ \A c \in CountRec, o \in OneOutcome : m[Counted(c, o)] = m[c] + w[o]

\* Of the outcomes, those of a field.
Of(w, f) == [o \in OneOutcome |-> IF o.field = f THEN w[o] ELSE 0]

LEMMA CountedIs ==
  /\ NoCounts \in CountRec
  /\ \A c \in CountRec, o \in OneOutcome : Counted(c, o) \in CountRec /\ o.field \in FieldRows
<1>1. NoCounts \in CountRec
  BY DEF NoCounts, CountRec
<1>2. ASSUME NEW c \in CountRec, NEW o \in OneOutcome
      PROVE  Counted(c, o) \in CountRec /\ o.field \in FieldRows
  <2>1. /\ c.tp \in Int /\ c.fp \in Int /\ c.fn \in Int /\ c.tn \in Int
        /\ c.exact_matches \in Int /\ c.total \in Int
    BY DEF CountRec
  <2>2. o.tp \in Int /\ o.fp \in Int /\ o.fn \in Int /\ o.tn \in Int /\ o.field \in FieldRows
    BY DEF OneOutcome
  <2> DEFINE tp == c.tp + o.tp
             fp == c.fp + o.fp
             fn == c.fn + o.fn
             tn == c.tn + o.tn
             total == c.total + 1
             exact == c.exact_matches + (IF o.exact THEN 1 ELSE 0)
  <2>3. tp \in Int /\ fp \in Int /\ fn \in Int /\ tn \in Int /\ total \in Int /\ exact \in Int
    BY <2>1, <2>2
  <2>4. Counted(c, o) = [tp |-> tp, fp |-> fp, fn |-> fn, tn |-> tn, total |-> total, exact_matches |-> exact]
    BY DEF Counted
  <2> HIDE DEF tp, fp, fn, tn, total, exact
  <2>5. QED
    BY <2>2, <2>3, <2>4 DEF CountRec
<1>3. QED
  BY <1>1, <1>2

\* The counts after one more outcome.
Bumped(counts, o) == [counts EXCEPT ![o.field] = Counted(@, o)]

LEMMA BumpedIs ==
  ASSUME NEW counts \in CountsRec, NEW o \in OneOutcome
  PROVE  /\ Bumped(counts, o) \in CountsRec
         /\ \A f \in FieldRows :
              Bumped(counts, o)[f] = IF f = o.field THEN Counted(counts[f], o) ELSE counts[f]
<1>1. o.field \in FieldRows /\ Counted(counts[o.field], o) \in CountRec
  BY CountedIs DEF CountsRec
<1>2. QED
  BY <1>1 DEF Bumped, CountsRec

\* g is the table Tallied builds.
Tally(g, counts, s) == g = [n \in 0..Len(s) |-> IF n = 0 THEN counts ELSE Bumped(g[n - 1], s[n])]

LEMMA TallyUnfolds ==
  ASSUME NEW counts \in CountsRec, NEW s \in Seq(OneOutcome)
  PROVE  \E g \in [0..Len(s) -> CountsRec] :
           /\ g[0] = counts /\ \A n \in 1..Len(s) : g[n] = Bumped(g[n - 1], s[n])
           /\ Tallied(counts, s) = g[Len(s)]
<1> DEFINE len == Len(s)
           chosen == CHOOSE g : Tally(g, counts, s)
           V == CountsRec
<1>1. len \in Nat /\ \A n \in 1..len : s[n] \in OneOutcome
  BY LenProperties, ElementOfSeq
<1>2. Tallied(counts, s) = chosen[len]
  BY DEF Tallied, Tally, Bumped
<1>3. \A c \in V, n \in 1..len : Bumped(c, s[n]) \in V
  BY <1>1, BumpedIs
<1>4. \E g : Tally(g, counts, s)
  <2> DEFINE step == [x \in V \X Nat |-> IF x[2] \in 1..len THEN Bumped(x[1], s[x[2]]) ELSE counts]
  <2> HIDE DEF V, len
  <2>1. step \in [V \X Nat -> V]
    BY <1>3 DEF V
  <2>2. \A c \in V, n \in 1..len : step[<<c, n>>] = Bumped(c, s[n])
    BY <1>1
  <2> HIDE DEF step
  <2>3. PICK g \in [0..len -> V] :
          \A n \in 0..len : g[n] = IF n = 0 THEN counts ELSE step[<<g[n - 1], n>>]
    <3>1. counts \in V
      BY DEF V
    <3>2. \A m \in Nat : Chain(V, counts, step, m)
      BY <2>1, <3>1, Chains
    <3>3. QED
      BY <1>1, <3>2 DEF Chain
  <2>4. ASSUME NEW n \in 1..len
        PROVE  step[<<g[n - 1], n>>] = Bumped(g[n - 1], s[n])
    <3>1. n - 1 \in 0..len
      BY <1>1
    <3>2. g[n - 1] \in V
      BY <3>1
    <3>3. QED
      BY <2>2, <3>2
  <2>5. \A n \in 0..len : n = 0 \/ n \in 1..len
    BY <1>1
  <2>6. g = [n \in 0..len |-> IF n = 0 THEN counts ELSE Bumped(g[n - 1], s[n])]
    BY <2>3, <2>4, <2>5
  <2>7. QED
    BY <2>6 DEF Tally, len
<1>5. Tally(chosen, counts, s)
  BY <1>4
<1> HIDE DEF chosen, V
<1>6. /\ chosen = [n \in 0..len |-> chosen[n]]
      /\ \A n \in 0..len : chosen[n] = IF n = 0 THEN counts ELSE Bumped(chosen[n - 1], s[n])
  BY <1>5 DEF Tally
<1> HIDE DEF len
<1>7. chosen[0] = counts /\ \A n \in 1..len : chosen[n] = Bumped(chosen[n - 1], s[n])
  BY <1>1, <1>6
<1> DEFINE T == {n \in Nat : n <= len => chosen[n] \in V}
<1>8. 0 \in T
  BY <1>7 DEF V
<1>9. ASSUME NEW n \in Nat, n \in T
      PROVE  n + 1 \in T
  <2> SUFFICES ASSUME n + 1 <= len PROVE chosen[n + 1] \in V
    OBVIOUS
  <2>1. chosen[n] \in V /\ (n + 1) - 1 = n /\ n + 1 \in 1..len
    BY <1>1, <1>9
  <2>2. QED
    BY <1>3, <1>7, <2>1
<1> HIDE DEF T
<1>10. \A n \in Nat : n \in T
  BY <1>8, <1>9, NatInduct
<1>11. \A n \in 0..len : n \in Nat /\ n <= len
  BY <1>1
<1>12. chosen \in [0..len -> V]
  BY <1>6, <1>10, <1>11 DEF T
<1>13. QED
  BY <1>2, <1>7, <1>12 DEF len, V

\* What the outcomes of a document add to the counts of a field is what they weigh.
LEMMA TalliedWeighs ==
  ASSUME NEW counts \in CountsRec, NEW s \in Seq(OneOutcome)
  PROVE  /\ Tallied(counts, s) \in CountsRec
         /\ \A m, w : Measures(m, w) => \A f \in FieldRows :
              m[Tallied(counts, s)[f]] = m[counts[f]] + Weight(Of(w, f), s)
<1> DEFINE len == Len(s)
<1>1. len \in Nat /\ \A n \in 1..len : s[n] \in OneOutcome
  BY LenProperties, ElementOfSeq
<1>2. PICK g \in [0..len -> CountsRec] :
        /\ g[0] = counts /\ \A n \in 1..len : g[n] = Bumped(g[n - 1], s[n])
        /\ Tallied(counts, s) = g[len]
  BY TallyUnfolds
<1>3. Tallied(counts, s) \in CountsRec
  <2> HIDE DEF len
  <2>1. len \in 0..len
    BY <1>1
  <2>2. QED
    BY <1>2, <2>1
<1>4. ASSUME NEW m, NEW w, Measures(m, w), NEW f \in FieldRows
      PROVE  m[Tallied(counts, s)[f]] = m[counts[f]] + Weight(Of(w, f), s)
  <2> DEFINE u == Of(w, f)
             a == Weights(u, s)
             start == m[counts[f]]
  <2>1. /\ w \in [OneOutcome -> Int] /\ m \in [CountRec -> Int]
        /\ \A c \in CountRec, o \in OneOutcome : m[Counted(c, o)] = m[c] + w[o]
    BY <1>4 DEF Measures
  <2>2. u \in [OneOutcome -> Int] /\ \A o \in OneOutcome : u[o] = IF o.field = f THEN w[o] ELSE 0
    BY <2>1 DEF Of
  <2> HIDE DEF u
  <2>3. a \in Seq(Int) /\ Len(a) = len /\ \A n \in 1..len : a[n] = u[s[n]]
    <3>1. Listed(u, s)
      BY <2>2, WeightsAre
    <3>2. QED
      BY <3>1 DEF Listed
  <2>4. Weight(u, s) = SumOf(a)
    BY DEF Weight
  <2> HIDE DEF a, len
  <2>5. PICK h \in [0..len -> Int] :
          h[0] = 0 /\ (\A n \in 1..len : h[n] = h[n - 1] + a[n]) /\ SumOf(a) = h[len]
    BY <2>3, SumUnfolds
  <2>6. \A n \in 0..len : g[n] \in CountsRec /\ g[n][f] \in CountRec /\ m[g[n][f]] \in Int
    BY <1>2, <2>1 DEF CountsRec
  <2> DEFINE T == {n \in Nat : n <= len => m[g[n][f]] = start + h[n]}
  <2>7. start \in Int
    BY <2>1 DEF CountsRec
  <2>8. 0 \in T
    BY <1>2, <2>5, <2>7
  <2> HIDE DEF start
  <2>9. ASSUME NEW n \in Nat, n \in T
        PROVE  n + 1 \in T
    <3> SUFFICES ASSUME n + 1 <= len PROVE m[g[n + 1][f]] = start + h[n + 1]
      OBVIOUS
    <3>1. n \in 0..len /\ n + 1 \in 1..len /\ (n + 1) - 1 = n /\ m[g[n][f]] = start + h[n]
      BY <1>1, <2>9
    <3> DEFINE o == s[n + 1]
               c == g[n]
               before == m[c[f]]
               x == w[o]
    <3>2. o \in OneOutcome /\ c \in CountsRec /\ c[f] \in CountRec /\ before \in Int
      BY <1>1, <2>6, <3>1
    <3>3. g[n + 1] = Bumped(c, o) /\ h[n + 1] = h[n] + a[n + 1] /\ a[n + 1] = u[o]
      BY <1>2, <2>3, <2>5, <3>1
    <3>4. h[n] \in Int
      BY <3>1
    <3> HIDE DEF o, c
    <3>5. Bumped(c, o)[f] = IF f = o.field THEN Counted(c[f], o) ELSE c[f]
      BY <3>2, BumpedIs
    <3>6. u[o] = IF o.field = f THEN x ELSE 0
      BY <2>2, <3>2
    <3>7. x \in Int /\ m[Counted(c[f], o)] = before + x
      BY <2>1, <3>2
    <3> DEFINE after == m[Bumped(c, o)[f]]
               y == u[o]
               z == h[n]
    <3>8. after = before + y /\ y \in Int
      <4>1. CASE f = o.field
        BY <3>2, <3>5, <3>6, <3>7, <4>1
      <4>2. CASE f # o.field
        <5>1. after = before /\ y = 0
          BY <3>5, <3>6, <4>2
        <5>2. QED
          BY <3>2, <5>1
      <4>3. QED
        BY <4>1, <4>2
    <3>9. m[g[n + 1][f]] = after /\ before = start + z /\ h[n + 1] = z + y
      BY <3>1, <3>3 DEF c
    <3> HIDE DEF after, before, y, z
    <3>10. start + (z + y) = (start + z) + y
      BY <2>7, <3>4, <3>8 DEF z
    <3>11. QED
      BY <3>8, <3>9, <3>10
  <2> HIDE DEF T
  <2>10. \A n \in Nat : n \in T
    BY <2>8, <2>9, NatInduct
  <2>11. m[g[len][f]] = start + h[len]
    BY <1>1, <2>10 DEF T
  <2>12. QED
    BY <1>2, <2>4, <2>5, <2>11 DEF u, start, len
<1>5. QED
  BY <1>3, <1>4

\* g is the table FieldCounts builds.
Rolled(g, results) ==
  g = [n \in 0..Len(results) |-> IF n = 0 THEN [f \in FieldRows |-> NoCounts]
                                 ELSE Tallied(g[n - 1], results[n].outcomes)]

LEMMA RollUnfolds ==
  ASSUME NEW results, Len(results) \in Nat,
         \A n \in 1..Len(results) : results[n].outcomes \in Seq(OneOutcome)
  PROVE  \E g \in [0..Len(results) -> CountsRec] :
           /\ g[0] = [f \in FieldRows |-> NoCounts]
           /\ \A n \in 1..Len(results) : g[n] = Tallied(g[n - 1], results[n].outcomes)
           /\ FieldCounts(results) = g[Len(results)]
<1> DEFINE len == Len(results)
           chosen == CHOOSE g : Rolled(g, results)
           V == CountsRec
           none == [f \in FieldRows |-> NoCounts]
           seen(n) == results[n].outcomes
<1>1. len \in Nat /\ \A n \in 1..len : seen(n) \in Seq(OneOutcome)
  OBVIOUS
<1>2. FieldCounts(results) = chosen[len]
  BY DEF FieldCounts, Rolled
<1>3. \A c \in V, n \in 1..len : Tallied(c, seen(n)) \in V
  <2>1. ASSUME NEW c \in V, NEW n \in 1..len
        PROVE  Tallied(c, seen(n)) \in V
    <3> DEFINE s == seen(n)
    <3>1. s \in Seq(OneOutcome)
      BY <1>1
    <3> HIDE DEF s
    <3>2. Tallied(c, s) \in V
      BY <3>1, TalliedWeighs
    <3>3. QED
      BY <3>2 DEF s
  <2>2. QED
    BY <2>1
<1>4. none \in V
  BY CountedIs DEF CountsRec
<1>5. \E g : Rolled(g, results)
  <2> DEFINE step == [x \in V \X Nat |-> IF x[2] \in 1..len THEN Tallied(x[1], seen(x[2])) ELSE none]
  <2> HIDE DEF V, len, none, seen
  <2>1. step \in [V \X Nat -> V]
    BY <1>3, <1>4
  <2>2. \A c \in V, n \in 1..len : step[<<c, n>>] = Tallied(c, seen(n))
    BY <1>1
  <2> HIDE DEF step
  <2>3. PICK g \in [0..len -> V] :
          \A n \in 0..len : g[n] = IF n = 0 THEN none ELSE step[<<g[n - 1], n>>]
    <3>1. \A m \in Nat : Chain(V, none, step, m)
      BY <1>4, <2>1, Chains
    <3>2. QED
      BY <1>1, <3>1 DEF Chain
  <2>4. ASSUME NEW n \in 1..len
        PROVE  step[<<g[n - 1], n>>] = Tallied(g[n - 1], seen(n))
    <3>1. n - 1 \in 0..len
      BY <1>1
    <3>2. g[n - 1] \in V
      BY <3>1
    <3>3. QED
      BY <2>2, <3>2
  <2>5. \A n \in 0..len : n = 0 \/ n \in 1..len
    BY <1>1
  <2>6. g = [n \in 0..len |-> IF n = 0 THEN none ELSE Tallied(g[n - 1], seen(n))]
    BY <2>3, <2>4, <2>5
  <2>7. QED
    BY <2>6 DEF Rolled, len, none, seen
<1>6. Rolled(chosen, results)
  BY <1>5
<1> HIDE DEF chosen, V
<1>7. /\ chosen = [n \in 0..len |-> chosen[n]]
      /\ \A n \in 0..len : chosen[n] = IF n = 0 THEN none ELSE Tallied(chosen[n - 1], seen(n))
  BY <1>6 DEF Rolled
<1> HIDE DEF len, none, seen
<1>8. chosen[0] = none /\ \A n \in 1..len : chosen[n] = Tallied(chosen[n - 1], seen(n))
  BY <1>1, <1>7
<1> DEFINE T == {n \in Nat : n <= len => chosen[n] \in V}
<1>9. 0 \in T
  BY <1>4, <1>8
<1>10. ASSUME NEW n \in Nat, n \in T
       PROVE  n + 1 \in T
  <2> SUFFICES ASSUME n + 1 <= len PROVE chosen[n + 1] \in V
    OBVIOUS
  <2>1. chosen[n] \in V /\ (n + 1) - 1 = n /\ n + 1 \in 1..len
    BY <1>1, <1>10
  <2>2. QED
    BY <1>3, <1>8, <2>1
<1> HIDE DEF T
<1>11. \A n \in Nat : n \in T
  BY <1>9, <1>10, NatInduct
<1>12. \A n \in 0..len : n \in Nat /\ n <= len
  BY <1>1
<1>13. chosen \in [0..len -> V]
  BY <1>7, <1>11, <1>12 DEF T
<1>14. QED
  BY <1>2, <1>8, <1>13 DEF len, V, none, seen

\* a lists what the outcomes of each result weigh in field f.
Weighed(a, results, w, f) ==
  /\ a \in Seq(Int) /\ Len(a) = Len(results)
  /\ \A n \in 1..Len(results) : a[n] = Weight(Of(w, f), results[n].outcomes)

\* The counts of a field measure what the documents' outcomes weigh together.
LEMMA FieldCountsWeigh ==
  ASSUME NEW results, Len(results) \in Nat,
         \A n \in 1..Len(results) : results[n].outcomes \in Seq(OneOutcome),
         NEW m, NEW w, Measures(m, w), NEW f \in FieldRows,
         NEW a, Weighed(a, results, w, f)
  PROVE  FieldCounts(results)[f] \in CountRec /\ m[FieldCounts(results)[f]] = SumOf(a)
<1> DEFINE len == Len(results)
           seen(n) == results[n].outcomes
<1>1. len \in Nat /\ \A n \in 1..len : seen(n) \in Seq(OneOutcome)
  OBVIOUS
<1>2. PICK g \in [0..len -> CountsRec] :
        /\ g[0] = [field \in FieldRows |-> NoCounts]
        /\ \A n \in 1..len : g[n] = Tallied(g[n - 1], seen(n))
        /\ FieldCounts(results) = g[len]
  BY RollUnfolds
<1>3. m \in [CountRec -> Int] /\ m[NoCounts] = 0
  BY DEF Measures
<1>4. a \in Seq(Int) /\ Len(a) = len /\ \A n \in 1..len : a[n] = Weight(Of(w, f), seen(n))
  BY DEF Weighed
<1> HIDE DEF len, seen
<1>5. PICK h \in [0..len -> Int] :
        h[0] = 0 /\ (\A n \in 1..len : h[n] = h[n - 1] + a[n]) /\ SumOf(a) = h[len]
  BY <1>4, SumUnfolds
<1>6. \A n \in 0..len : g[n] \in CountsRec /\ g[n][f] \in CountRec
  BY <1>2 DEF CountsRec
<1> DEFINE T == {n \in Nat : n <= len => m[g[n][f]] = h[n]}
<1>7. 0 \in T
  BY <1>2, <1>3, <1>5
<1>8. ASSUME NEW n \in Nat, n \in T
      PROVE  n + 1 \in T
  <2> SUFFICES ASSUME n + 1 <= len PROVE m[g[n + 1][f]] = h[n + 1]
    OBVIOUS
  <2>1. n \in 0..len /\ n + 1 \in 1..len /\ (n + 1) - 1 = n /\ m[g[n][f]] = h[n]
    BY <1>1, <1>8
  <2> DEFINE c == g[n]
             s == seen(n + 1)
  <2>2. c \in CountsRec /\ s \in Seq(OneOutcome)
    BY <1>1, <1>6, <2>1
  <2>3. g[n + 1] = Tallied(c, s) /\ h[n + 1] = h[n] + a[n + 1] /\ a[n + 1] = Weight(Of(w, f), s)
    BY <1>2, <1>4, <1>5, <2>1
  <2>4. m[c[f]] = h[n]
    BY <2>1
  <2> HIDE DEF c, s
  <2>5. m[Tallied(c, s)[f]] = m[c[f]] + Weight(Of(w, f), s)
    BY <2>2, TalliedWeighs
  <2>6. QED
    BY <2>3, <2>4, <2>5
<1> HIDE DEF T
<1>9. \A n \in Nat : n \in T
  BY <1>7, <1>8, NatInduct
<1>10. m[g[len][f]] = h[len]
  BY <1>1, <1>9 DEF T
<1>11. len \in 0..len
  BY <1>1
<1>12. QED
  BY <1>2, <1>5, <1>6, <1>10, <1>11

\* The measures the roll-up is about: what there was to find of a field, what was
\* asserted of it, how far the exact matches go beyond what was found, or found
\* absent, and how often it was looked at.
ToFind == [o \in OneOutcome |-> o.tp + o.fn]
Asserted == [o \in OneOutcome |-> o.tp + o.fp]
BeyondFound == [o \in OneOutcome |-> (IF o.exact THEN 1 ELSE 0) - o.tp]
BeyondRight == [o \in OneOutcome |-> (IF o.exact THEN 1 ELSE 0) - (o.tp + o.tn)]
Looks == [o \in OneOutcome |-> 1]

ToFindIn == [c \in CountRec |-> c.tp + c.fn]
AssertedIn == [c \in CountRec |-> c.tp + c.fp]
BeyondFoundIn == [c \in CountRec |-> c.exact_matches - c.tp]
BeyondRightIn == [c \in CountRec |-> c.exact_matches - (c.tp + c.tn)]
LooksIn == [c \in CountRec |-> c.total]

LEMMA AllMeasure ==
  /\ Measures(ToFindIn, ToFind) /\ Measures(AssertedIn, Asserted)
  /\ Measures(BeyondFoundIn, BeyondFound) /\ Measures(BeyondRightIn, BeyondRight)
  /\ Measures(LooksIn, Looks)
<1>1. \A c \in CountRec : /\ c.tp \in Int /\ c.fp \in Int /\ c.fn \in Int /\ c.tn \in Int
                          /\ c.exact_matches \in Int /\ c.total \in Int
  BY DEF CountRec
<1>2. \A o \in OneOutcome : o.tp \in Int /\ o.fp \in Int /\ o.fn \in Int /\ o.tn \in Int
  BY DEF OneOutcome
<1>3. NoCounts \in CountRec /\ \A c \in CountRec, o \in OneOutcome : Counted(c, o) \in CountRec
  BY CountedIs
<1>4. NoCounts.tp = 0 /\ NoCounts.fp = 0 /\ NoCounts.fn = 0 /\ NoCounts.tn = 0
      /\ NoCounts.exact_matches = 0 /\ NoCounts.total = 0
  BY DEF NoCounts
<1>5. \A c, o : /\ Counted(c, o).tp = c.tp + o.tp /\ Counted(c, o).fp = c.fp + o.fp
                /\ Counted(c, o).fn = c.fn + o.fn /\ Counted(c, o).tn = c.tn + o.tn
                /\ Counted(c, o).exact_matches = c.exact_matches + (IF o.exact THEN 1 ELSE 0)
                /\ Counted(c, o).total = c.total + 1
  BY DEF Counted
<1>6. Measures(ToFindIn, ToFind)
  <2>1. ToFind \in [OneOutcome -> Int] /\ ToFindIn \in [CountRec -> Int] /\ ToFindIn[NoCounts] = 0
    BY <1>1, <1>2, <1>3, <1>4 DEF ToFind, ToFindIn
  <2>2. \A c \in CountRec, o \in OneOutcome : ToFindIn[Counted(c, o)] = ToFindIn[c] + ToFind[o]
    BY <1>1, <1>2, <1>3, <1>5 DEF ToFind, ToFindIn
  <2>3. QED
    BY <2>1, <2>2 DEF Measures
<1>7. Measures(AssertedIn, Asserted)
  <2>1. Asserted \in [OneOutcome -> Int] /\ AssertedIn \in [CountRec -> Int] /\ AssertedIn[NoCounts] = 0
    BY <1>1, <1>2, <1>3, <1>4 DEF Asserted, AssertedIn
  <2>2. \A c \in CountRec, o \in OneOutcome : AssertedIn[Counted(c, o)] = AssertedIn[c] + Asserted[o]
    BY <1>1, <1>2, <1>3, <1>5 DEF Asserted, AssertedIn
  <2>3. QED
    BY <2>1, <2>2 DEF Measures
<1>8. Measures(BeyondFoundIn, BeyondFound)
  <2>1. /\ BeyondFound \in [OneOutcome -> Int] /\ BeyondFoundIn \in [CountRec -> Int]
        /\ BeyondFoundIn[NoCounts] = 0
    BY <1>1, <1>2, <1>3, <1>4 DEF BeyondFound, BeyondFoundIn
  <2>2. \A c \in CountRec, o \in OneOutcome :
          BeyondFoundIn[Counted(c, o)] = BeyondFoundIn[c] + BeyondFound[o]
    BY <1>1, <1>2, <1>3, <1>5 DEF BeyondFound, BeyondFoundIn
  <2>3. QED
    BY <2>1, <2>2 DEF Measures
<1>9. Measures(BeyondRightIn, BeyondRight)
  <2>1. /\ BeyondRight \in [OneOutcome -> Int] /\ BeyondRightIn \in [CountRec -> Int]
        /\ BeyondRightIn[NoCounts] = 0
    BY <1>1, <1>2, <1>3, <1>4 DEF BeyondRight, BeyondRightIn
  <2>2. \A c \in CountRec, o \in OneOutcome :
          BeyondRightIn[Counted(c, o)] = BeyondRightIn[c] + BeyondRight[o]
    BY <1>1, <1>2, <1>3, <1>5 DEF BeyondRight, BeyondRightIn
  <2>3. QED
    BY <2>1, <2>2 DEF Measures
<1>10. Measures(LooksIn, Looks)
  <2>1. Looks \in [OneOutcome -> Int] /\ LooksIn \in [CountRec -> Int] /\ LooksIn[NoCounts] = 0
    BY <1>1, <1>3, <1>4 DEF Looks, LooksIn
  <2>2. \A c \in CountRec, o \in OneOutcome : LooksIn[Counted(c, o)] = LooksIn[c] + Looks[o]
    BY <1>1, <1>3, <1>5 DEF Looks, LooksIn
  <2>3. QED
    BY <2>1, <2>2 DEF Measures
<1>11. QED
  BY <1>6, <1>7, <1>8, <1>9, <1>10

-----------------------------------------------------------------------------
(* What a document adds *)

LEMMA NamesDiffer ==
  /\ \A i, j \in 1..8 : SCALAR_FIELDS[i] = SCALAR_FIELDS[j] => i = j
  /\ \A i, j \in 1..4 : LINE_ITEM_FIELDS[i] = LINE_ITEM_FIELDS[j] => i = j
  /\ "due_date" \notin ScalarFields
  /\ \A g \in ItemFields : ItemRow(g) \notin ScalarFields /\ ItemRow(g) # "due_date"
  /\ \A g, h \in ItemFields : ItemRow(g) = ItemRow(h) => g = h
<1>1. 1..8 = {1, 2, 3, 4, 5, 6, 7, 8} /\ 1..4 = {1, 2, 3, 4}
  OBVIOUS
<1>2. \A i, j \in 1..8 : SCALAR_FIELDS[i] = SCALAR_FIELDS[j] => i = j
  BY <1>1 DEF SCALAR_FIELDS
<1>3. \A i, j \in 1..4 : LINE_ITEM_FIELDS[i] = LINE_ITEM_FIELDS[j] => i = j
  BY <1>1 DEF LINE_ITEM_FIELDS
<1>4. ScalarFields = {"invoice_number", "invoice_date", "vendor_name", "bill_to",
                      "subtotal", "tax", "total", "currency"}
  <2>1. ScalarFields = {SCALAR_FIELDS[k] : k \in 1..8}
    BY FieldNames
  <2>2. QED
    BY <1>1, <2>1 DEF SCALAR_FIELDS
<1>5. /\ ItemRow("description") = "line_items.description"
      /\ ItemRow("quantity") = "line_items.quantity"
      /\ ItemRow("unit_price") = "line_items.unit_price"
      /\ ItemRow("amount") = "line_items.amount"
  BY DEF ItemRow
<1>6. ItemFields = {"description", "quantity", "unit_price", "amount"}
  BY FieldNames
<1>7. \A g \in ItemFields : ItemRow(g) \notin ScalarFields /\ ItemRow(g) # "due_date"
  BY <1>4, <1>5, <1>6
<1>8. \A g, h \in ItemFields : ItemRow(g) = ItemRow(h) => g = h
  BY <1>5, <1>6
<1>9. QED
  BY <1>2, <1>3, <1>4, <1>7, <1>8

\* Outcomes of other fields weigh nothing, and one of the field all there is.
WeighsItsOwn(w, s, f) ==
  /\ Of(w, f) \in [OneOutcome -> Int]
  /\ (\A n \in 1..Len(s) : s[n].field # f) => Weight(Of(w, f), s) = 0
  /\ \A k \in 1..Len(s) :
       s[k].field = f /\ (\A n \in 1..Len(s) : n # k => s[n].field # f)
         => Weight(Of(w, f), s) = w[s[k]]

LEMMA WeightOfField ==
  ASSUME NEW w \in [OneOutcome -> Int], NEW s \in Seq(OneOutcome), NEW f
  PROVE  WeighsItsOwn(w, s, f)
<1> DEFINE u == Of(w, f)
           a == Weights(u, s)
           len == Len(s)
<1>1. u \in [OneOutcome -> Int] /\ \A o \in OneOutcome : u[o] = IF o.field = f THEN w[o] ELSE 0
  BY DEF Of
<1>2. \A n \in 1..len : s[n] \in OneOutcome
  BY LenProperties, ElementOfSeq
<1> HIDE DEF u
<1>3. a \in Seq(Int) /\ Len(a) = len /\ \A n \in 1..len : a[n] = u[s[n]]
  <2>1. u \in [OneOutcome -> Int] /\ s \in Seq(OneOutcome)
    BY <1>1
  <2>2. Listed(u, s)
    BY <2>1, WeightsAre
  <2>3. QED
    BY <2>2 DEF Listed
<1>4. Weight(u, s) = SumOf(a)
  BY DEF Weight
<1>5. \A n \in 1..len : a[n] = IF s[n].field = f THEN w[s[n]] ELSE 0
  BY <1>1, <1>2, <1>3
<1> HIDE DEF a, len
<1>6. ASSUME \A n \in 1..len : s[n].field # f
      PROVE  Weight(u, s) = 0
  <2>1. \A n \in 1..Len(a) : a[n] = 0
    BY <1>3, <1>5, <1>6
  <2>2. QED
    BY <1>3, <1>4, <2>1, SumOfOnes
<1>7. ASSUME NEW k \in 1..len, s[k].field = f, \A n \in 1..len : n # k => s[n].field # f
      PROVE  Weight(u, s) = w[s[k]]
  <2>1. k \in 1..Len(a) /\ \A n \in 1..Len(a) : n # k => a[n] = 0
    BY <1>3, <1>5, <1>7
  <2>2. SumOf(a) = a[k]
    BY <1>3, <2>1, SumOfOneTerm
  <2>3. QED
    BY <1>4, <1>5, <1>7, <2>2
<1>8. QED
  BY <1>1, <1>6, <1>7 DEF u, len, WeighsItsOwn

\* Elements of weight one, or of weight zero.
LEMMA SameWeights ==
  ASSUME NEW X, NEW w \in [X -> Int], NEW s \in Seq(X), NEW c \in {0, 1},
         \A n \in 1..Len(s) : w[s[n]] = c
  PROVE  Weight(w, s) = IF c = 1 THEN Len(s) ELSE 0
<1> DEFINE a == Weights(w, s)
<1>1. a \in Seq(Int) /\ Len(a) = Len(s) /\ \A n \in 1..Len(s) : a[n] = c
  <2>1. Listed(w, s)
    BY WeightsAre
  <2>2. QED
    BY <2>1 DEF Listed
<1>2. Weight(w, s) = SumOf(a)
  BY DEF Weight
<1> HIDE DEF a
<1>3. c = 1 => SumOf(a) = Len(a)
  BY <1>1, SumOfOnes
<1>4. c = 0 => SumOf(a) = 0
  BY <1>1, SumOfOnes
<1>5. QED
  BY <1>1, <1>2, <1>3, <1>4

\* The three kinds of rows weigh the same each, so that their outcomes weigh as many.
UniformRows(u, p, b, c) ==
  /\ u \in [OneOutcome -> Int] /\ {p, b, c} \subseteq {0, 1}
  /\ \A x, y \in LineItem : Weight(u, PairedRow(x, y)) = p
  /\ Weight(u, LoneRow(1, 0)) = b /\ Weight(u, LoneRow(0, 1)) = c

LEMMA RowsWeigh ==
  ASSUME NEW pred \in Seq(LineItem), NEW gold \in Seq(LineItem),
         NEW u, NEW p, NEW b, NEW c, UniformRows(u, p, b, c)
  PROVE  /\ ScoreLineItems(gold, pred) \in Seq(OneOutcome)
         /\ Weight(u, ScoreLineItems(gold, pred))
              = (IF p = 1 THEN Len(Matches(pred, gold)) ELSE 0)
                + (IF b = 1 THEN Len(UnmatchedPred(pred, Matches(pred, gold))) ELSE 0)
                + (IF c = 1 THEN Len(UnmatchedGold(gold, Matches(pred, gold))) ELSE 0)
<1> DEFINE matches == Matches(pred, gold)
           paired == [n \in DOMAIN matches |-> PairedRow(pred[matches[n][1]], gold[matches[n][2]])]
           up == UnmatchedPred(pred, matches)
           ug == UnmatchedGold(gold, matches)
           extra == [n \in DOMAIN up |-> LoneRow(1, 0)]
           lost == [n \in DOMAIN ug |-> LoneRow(0, 1)]
           V == Seq(OneOutcome)
           rows == RowOutcomes(gold, pred, matches)
           v == [row \in V |-> Weight(u, row)]
<1>1. u \in [OneOutcome -> Int] /\ p \in {0, 1} /\ b \in {0, 1} /\ c \in {0, 1}
      /\ (\A x, y \in LineItem : Weight(u, PairedRow(x, y)) = p)
      /\ Weight(u, LoneRow(1, 0)) = b /\ Weight(u, LoneRow(0, 1)) = c
  BY DEF UniformRows
<1>2. matches \in Seq((DOMAIN pred) \X (DOMAIN gold))
  BY MatchesAreStable
<1>3. ScoreLineItems(gold, pred) = FlattenSeq(rows) /\ rows = paired \o extra \o lost
  BY DEF ScoreLineItems, RowOutcomes
<1>4. /\ paired \in Seq(V) /\ extra \in Seq(V) /\ lost \in Seq(V) /\ rows \in Seq(V)
      /\ up \in Seq(DOMAIN pred) /\ ug \in Seq(DOMAIN gold)
  <2> HIDE DEF matches
  <2>1. RowsAre(pred, gold, matches)
    BY <1>2, RowParts
  <2>2. QED
    BY <2>1 DEF RowsAre
<1>5. \A n \in 1..Len(matches) : Weight(u, paired[n]) = p
  <2>1. ASSUME NEW n \in 1..Len(matches)
        PROVE  Weight(u, paired[n]) = p
    <3>1. n \in DOMAIN matches
      BY <1>2, LenProperties
    <3>2. matches[n] \in (DOMAIN pred) \X (DOMAIN gold)
      BY <1>2, <3>1, LenProperties, ElementOfSeq
    <3> DEFINE x == pred[matches[n][1]]
               y == gold[matches[n][2]]
    <3>3. x \in LineItem /\ y \in LineItem
      BY <3>2, LenProperties, ElementOfSeq
    <3>4. paired[n] = PairedRow(x, y)
      BY <3>1
    <3> HIDE DEF x, y, paired
    <3>5. QED
      BY <1>1, <3>3, <3>4
  <2>2. QED
    BY <2>1
<1>6. /\ \A n \in 1..Len(up) : extra[n] = LoneRow(1, 0)
      /\ \A n \in 1..Len(ug) : lost[n] = LoneRow(0, 1)
  BY <1>4, LenProperties
<1>7. DOMAIN paired = DOMAIN matches /\ DOMAIN extra = DOMAIN up /\ DOMAIN lost = DOMAIN ug
  OBVIOUS
<1> HIDE DEF matches, paired, up, ug, extra, lost, rows
<1>8. Len(paired) = Len(matches) /\ Len(extra) = Len(up) /\ Len(lost) = Len(ug)
      /\ Len(matches) \in Nat /\ Len(up) \in Nat /\ Len(ug) \in Nat
  <2>1. \A s, t : s \in Seq(V) /\ DOMAIN s = DOMAIN t /\ (\E Y : t \in Seq(Y)) => Len(s) = Len(t) /\ Len(t) \in Nat
    <3>1. ASSUME NEW s \in Seq(V), NEW Y, NEW t \in Seq(Y), DOMAIN s = DOMAIN t
          PROVE  Len(s) = Len(t) /\ Len(t) \in Nat
      <4>1. Len(s) \in Nat /\ Len(t) \in Nat /\ DOMAIN s = 1..Len(s) /\ DOMAIN t = 1..Len(t)
        BY LenProperties
      <4> DEFINE m == Len(s)
                 n == Len(t)
      <4>2. m \in Nat /\ n \in Nat /\ 1..m = 1..n
        BY <3>1, <4>1
      <4> HIDE DEF m, n
      <4>3. m = n
        BY <4>2
      <4>4. QED
        BY <4>1, <4>3 DEF m, n
    <3>2. QED
      BY <3>1
  <2>2. QED
    BY <1>2, <1>4, <1>7, <2>1
<1>9. /\ v \in [V -> Int] /\ \A row \in V : v[row] = Weight(u, row)
      /\ FlattenSeq(rows) \in V /\ Weight(u, FlattenSeq(rows)) = Weight(v, rows)
  <2> DEFINE X == OneOutcome
  <2>1. v = [row \in Seq(X) |-> Weight(u, row)] /\ rows \in Seq(Seq(X)) /\ u \in [X -> Int] /\ V = Seq(X)
    BY <1>1, <1>4
  <2>2. \A row \in V : v[row] = Weight(u, row)
    OBVIOUS
  <2> HIDE DEF v, V, X
  <2>3. Flattens(X, u, v)
    BY <2>1, WeightOfFlattened
  <2>4. FlattenSeq(rows) \in Seq(X)
    BY <2>1, FlattenRange
  <2>5. v \in [Seq(X) -> Int] /\ Weight(u, FlattenSeq(rows)) = Weight(v, rows)
    BY <2>1, <2>3 DEF Flattens
  <2>6. QED
    BY <2>1, <2>2, <2>4, <2>5
<1> HIDE DEF v
<1>10. /\ \A n \in 1..Len(paired) : v[paired[n]] = p
       /\ \A n \in 1..Len(extra) : v[extra[n]] = b
       /\ \A n \in 1..Len(lost) : v[lost[n]] = c
  <2>1. /\ \A n \in 1..Len(paired) : paired[n] \in V
        /\ \A n \in 1..Len(extra) : extra[n] \in V
        /\ \A n \in 1..Len(lost) : lost[n] \in V
    BY <1>4, LenProperties, ElementOfSeq
  <2>2. QED
    BY <1>1, <1>5, <1>6, <1>8, <1>9, <2>1
<1> HIDE DEF V
<1>11. /\ Weight(v, paired) = IF p = 1 THEN Len(paired) ELSE 0
       /\ Weight(v, extra) = IF b = 1 THEN Len(extra) ELSE 0
       /\ Weight(v, lost) = IF c = 1 THEN Len(lost) ELSE 0
  BY <1>1, <1>4, <1>9, <1>10, SameWeights
<1>12. Weight(v, rows) = (Weight(v, paired) + Weight(v, extra)) + Weight(v, lost)
  <2> DEFINE first == paired \o extra
  <2>1. first \in Seq(V) /\ rows = first \o lost
    BY <1>3, <1>4, ConcatProperties
  <2>2. Weight(v, first) = Weight(v, paired) + Weight(v, extra)
    BY <1>4, <1>9, WeightConcat
  <2> HIDE DEF first
  <2>3. Weight(v, first \o lost) = Weight(v, first) + Weight(v, lost)
    BY <1>4, <1>9, <2>1, WeightConcat
  <2>4. QED
    BY <2>1, <2>2, <2>3
<1>13. QED
  BY <1>3, <1>8, <1>9, <1>11, <1>12 DEF matches, up, ug, V

\* A row has one outcome for each of the four fields of a line item.
FieldByField(row) ==
  /\ row \in Seq(OneOutcome) /\ Len(row) = 4
  /\ \A k \in 1..4 : row[k].field = ItemRow(LINE_ITEM_FIELDS[k])

LEMMA RowWeight ==
  ASSUME NEW row, FieldByField(row), NEW w \in [OneOutcome -> Int]
  PROVE  /\ \A f \in ScalarFields \cup {"due_date"} : Weight(Of(w, f), row) = 0
         /\ \A k \in 1..4 : Weight(Of(w, ItemRow(LINE_ITEM_FIELDS[k])), row) = w[row[k]]
<1>1. row \in Seq(OneOutcome) /\ Len(row) = 4 /\ \A k \in 1..4 : row[k].field = ItemRow(LINE_ITEM_FIELDS[k])
  BY DEF FieldByField
<1>2. \A k \in 1..4 : LINE_ITEM_FIELDS[k] \in ItemFields
  BY FieldNames
<1>3. ASSUME NEW f \in ScalarFields \cup {"due_date"}
      PROVE  Weight(Of(w, f), row) = 0
  <2>1. \A g \in ItemFields : ItemRow(g) # f
    BY NamesDiffer
  <2>2. \A n \in 1..Len(row) : row[n].field # f
    BY <1>1, <1>2, <2>1
  <2>3. WeighsItsOwn(w, row, f)
    BY <1>1, WeightOfField
  <2>4. QED
    BY <2>2, <2>3 DEF WeighsItsOwn
<1>4. ASSUME NEW k \in 1..4
      PROVE  Weight(Of(w, ItemRow(LINE_ITEM_FIELDS[k])), row) = w[row[k]]
  <2> DEFINE f == ItemRow(LINE_ITEM_FIELDS[k])
  <2>1. k \in 1..Len(row) /\ row[k].field = f
    BY <1>1
  <2>2. \A n \in 1..Len(row) : n # k => row[n].field # f
    BY <1>1, <1>2, NamesDiffer
  <2> HIDE DEF f
  <2>3. Weight(Of(w, f), row) = w[row[k]]
    BY <1>1, <2>1, <2>2, WeightOfField DEF WeighsItsOwn
  <2>4. QED
    BY <2>3 DEF f
<1>5. QED
  BY <1>3, <1>4

\* An outcome's numbers.
LEMMA OutcomeNumbers ==
  ASSUME NEW f \in FieldRows, NEW tp \in Nat, NEW fp \in Nat, NEW fn \in Nat, NEW tn \in Nat
  PROVE  LET o == Outcome(f, tp, fp, fn, tn)
         IN  /\ o \in OneOutcome /\ o.field = f
             /\ ToFind[o] = tp + fn /\ Asserted[o] = tp + fp /\ Looks[o] = 1
             /\ BeyondFound[o] = (IF fp = 0 /\ fn = 0 THEN 1 ELSE 0) - tp
             /\ BeyondRight[o] = (IF fp = 0 /\ fn = 0 THEN 1 ELSE 0) - (tp + tn)
<1> DEFINE o == Outcome(f, tp, fp, fn, tn)
<1>1. o \in OneOutcome
  BY OutcomeFields
<1>2. o.field = f /\ o.tp = tp /\ o.fp = fp /\ o.fn = fn /\ o.tn = tn /\ o.exact = (fp = 0 /\ fn = 0)
  BY DEF Outcome
<1> HIDE DEF o
<1>3. QED
  BY <1>1, <1>2 DEF o, ToFind, Asserted, Looks, BeyondFound, BeyondRight

\* A matched pair was there to find, and asserted, in each field.
LEMMA PairedRowCounts ==
  ASSUME NEW p \in LineItem, NEW g \in LineItem
  PROVE  /\ FieldByField(PairedRow(p, g))
         /\ \A k \in 1..4 : ToFind[PairedRow(p, g)[k]] = 1 /\ Asserted[PairedRow(p, g)[k]] = 1
<1> DEFINE row == PairedRow(p, g)
<1>1. row \in Seq(OneOutcome)
  BY PairedRowExact
<1>2. /\ DOMAIN row = 1..4
      /\ \A k \in 1..4 : row[k] = IF p[LINE_ITEM_FIELDS[k]] = g[LINE_ITEM_FIELDS[k]]
                                  THEN Outcome(ItemRow(LINE_ITEM_FIELDS[k]), 1, 0, 0, 0)
                                  ELSE Outcome(ItemRow(LINE_ITEM_FIELDS[k]), 0, 1, 1, 0)
  BY FieldNames DEF PairedRow
<1> HIDE DEF row
<1>3. ASSUME NEW k \in 1..4
      PROVE  row[k].field = ItemRow(LINE_ITEM_FIELDS[k]) /\ ToFind[row[k]] = 1 /\ Asserted[row[k]] = 1
  <2> DEFINE name == ItemRow(LINE_ITEM_FIELDS[k])
             hit == Outcome(name, 1, 0, 0, 0)
             miss == Outcome(name, 0, 1, 1, 0)
  <2>1. name \in FieldRows
    BY FieldNames
  <2>2. row[k] = hit \/ row[k] = miss
    BY <1>2
  <2> HIDE DEF name
  <2>3. /\ hit.field = name /\ ToFind[hit] = 1 + 0 /\ Asserted[hit] = 1 + 0
        /\ miss.field = name /\ ToFind[miss] = 0 + 1 /\ Asserted[miss] = 0 + 1
    BY <2>1, OutcomeNumbers
  <2> HIDE DEF hit, miss
  <2>4. row[k].field = name /\ ToFind[row[k]] = 1 /\ Asserted[row[k]] = 1
    BY <2>2, <2>3
  <2>5. QED
    BY <2>4 DEF name
<1>4. Len(row) = 4
  <2> DEFINE n == Len(row)
  <2>1. n \in Nat /\ 1..n = 1..4
    BY <1>1, <1>2, LenProperties
  <2> HIDE DEF n
  <2>2. 4 \in 1..n
    BY <2>1
  <2>3. n # 0
    BY <2>2
  <2>4. n \in 1..n
    BY <2>1, <2>3
  <2>5. n \in 1..4
    BY <2>1, <2>4
  <2>6. n = 4
    BY <2>1, <2>2, <2>5
  <2>7. QED
    BY <2>6 DEF n
<1>5. QED
  BY <1>1, <1>3, <1>4 DEF row, FieldByField

\* A row one side has is only there to find, or only asserted.
LEMMA LoneRowCounts ==
  ASSUME NEW fp \in Nat, NEW fn \in Nat, fp # 0 \/ fn # 0
  PROVE  /\ FieldByField(LoneRow(fp, fn))
         /\ \A k \in 1..4 : ToFind[LoneRow(fp, fn)[k]] = fn /\ Asserted[LoneRow(fp, fn)[k]] = fp
<1> DEFINE row == LoneRow(fp, fn)
<1>1. row \in Seq(OneOutcome)
  BY LoneRowInexact
<1>2. /\ DOMAIN row = 1..4
      /\ \A k \in 1..4 : row[k] = Outcome(ItemRow(LINE_ITEM_FIELDS[k]), 0, fp, fn, 0)
  BY FieldNames DEF LoneRow
<1> HIDE DEF row
<1>3. ASSUME NEW k \in 1..4
      PROVE  row[k].field = ItemRow(LINE_ITEM_FIELDS[k]) /\ ToFind[row[k]] = fn /\ Asserted[row[k]] = fp
  <2> DEFINE name == ItemRow(LINE_ITEM_FIELDS[k])
             zero == 0
             o == Outcome(name, zero, fp, fn, zero)
  <2>1. name \in FieldRows /\ zero \in Nat
    BY FieldNames
  <2>2. row[k] = o
    BY <1>2
  <2> HIDE DEF name, zero
  <2>3. o.field = name /\ ToFind[o] = zero + fn /\ Asserted[o] = zero + fp
    BY <2>1, OutcomeNumbers
  <2> USE DEF zero
  <2> HIDE DEF o
  <2>4. row[k].field = name /\ ToFind[row[k]] = fn /\ Asserted[row[k]] = fp
    BY <2>2, <2>3
  <2>5. QED
    BY <2>4 DEF name
<1>4. Len(row) = 4
  <2> DEFINE n == Len(row)
  <2>1. n \in Nat /\ 1..n = 1..4
    BY <1>1, <1>2, LenProperties
  <2> HIDE DEF n
  <2>2. 4 \in 1..n
    BY <2>1
  <2>3. n # 0
    BY <2>2
  <2>4. n \in 1..n
    BY <2>1, <2>3
  <2>5. n \in 1..4
    BY <2>1, <2>4
  <2>6. n = 4
    BY <2>1, <2>2, <2>5
  <2>7. QED
    BY <2>6 DEF n
<1>5. QED
  BY <1>1, <1>3, <1>4 DEF row, FieldByField

\* The rows in their three kinds, by field.
LEMMA KindsOfRows ==
  /\ \A w \in [OneOutcome -> Int], f \in ScalarFields \cup {"due_date"} : UniformRows(Of(w, f), 0, 0, 0)
  /\ \A g \in ItemFields : /\ UniformRows(Of(ToFind, ItemRow(g)), 1, 0, 1)
                           /\ UniformRows(Of(Asserted, ItemRow(g)), 1, 1, 0)
<1> DEFINE extra == LoneRow(1, 0)
           lost == LoneRow(0, 1)
<1>1. /\ FieldByField(extra) /\ \A k \in 1..4 : ToFind[extra[k]] = 0 /\ Asserted[extra[k]] = 1
      /\ FieldByField(lost) /\ \A k \in 1..4 : ToFind[lost[k]] = 1 /\ Asserted[lost[k]] = 0
  <2> DEFINE one == 1
             zero == 0
  <2>1. one \in Nat /\ zero \in Nat /\ one # 0
    OBVIOUS
  <2> HIDE DEF one, zero
  <2>2. /\ FieldByField(LoneRow(one, zero))
        /\ \A k \in 1..4 : ToFind[LoneRow(one, zero)[k]] = zero /\ Asserted[LoneRow(one, zero)[k]] = one
        /\ FieldByField(LoneRow(zero, one))
        /\ \A k \in 1..4 : ToFind[LoneRow(zero, one)[k]] = one /\ Asserted[LoneRow(zero, one)[k]] = zero
    BY <2>1, LoneRowCounts
  <2>3. QED
    BY <2>2 DEF one, zero
<1> HIDE DEF extra, lost
<1>2. ASSUME NEW w \in [OneOutcome -> Int], NEW f \in ScalarFields \cup {"due_date"}
      PROVE  UniformRows(Of(w, f), 0, 0, 0)
  <2>1. Of(w, f) \in [OneOutcome -> Int]
    BY DEF Of
  <2>2. Weight(Of(w, f), extra) = 0 /\ Weight(Of(w, f), lost) = 0
    BY <1>1, RowWeight
  <2>3. \A x, y \in LineItem : Weight(Of(w, f), PairedRow(x, y)) = 0
    BY PairedRowCounts, RowWeight
  <2>4. QED
    BY <2>1, <2>2, <2>3 DEF UniformRows, extra, lost
<1>3. ASSUME NEW w \in {ToFind, Asserted}, NEW g \in ItemFields
      PROVE  /\ Of(w, ItemRow(g)) \in [OneOutcome -> Int]
             /\ \E k \in 1..4 : /\ Weight(Of(w, ItemRow(g)), extra) = w[extra[k]]
                                /\ Weight(Of(w, ItemRow(g)), lost) = w[lost[k]]
                                /\ \A x, y \in LineItem :
                                     Weight(Of(w, ItemRow(g)), PairedRow(x, y)) = w[PairedRow(x, y)[k]]
  <2>1. w \in [OneOutcome -> Int]
    BY AllMeasure DEF Measures
  <2>2. PICK k \in 1..4 : g = LINE_ITEM_FIELDS[k]
    BY FieldNames
  <2>3. Of(w, ItemRow(g)) \in [OneOutcome -> Int]
    BY <2>1 DEF Of
  <2>4. Weight(Of(w, ItemRow(g)), extra) = w[extra[k]] /\ Weight(Of(w, ItemRow(g)), lost) = w[lost[k]]
    BY <1>1, <2>1, <2>2, RowWeight
  <2>5. \A x, y \in LineItem : Weight(Of(w, ItemRow(g)), PairedRow(x, y)) = w[PairedRow(x, y)[k]]
    BY <2>1, <2>2, PairedRowCounts, RowWeight
  <2>6. QED
    BY <2>3, <2>4, <2>5
<1>4. ASSUME NEW g \in ItemFields
      PROVE  /\ UniformRows(Of(ToFind, ItemRow(g)), 1, 0, 1)
             /\ UniformRows(Of(Asserted, ItemRow(g)), 1, 1, 0)
  <2>1. \A x, y \in LineItem, k \in 1..4 :
          ToFind[PairedRow(x, y)[k]] = 1 /\ Asserted[PairedRow(x, y)[k]] = 1
    BY PairedRowCounts
  <2>2. UniformRows(Of(ToFind, ItemRow(g)), 1, 0, 1)
    <3> DEFINE u == Of(ToFind, ItemRow(g))
    <3>1. u \in [OneOutcome -> Int] /\ Weight(u, extra) = 0 /\ Weight(u, lost) = 1
          /\ \A x, y \in LineItem : Weight(u, PairedRow(x, y)) = 1
      BY <1>1, <1>3, <2>1
    <3> HIDE DEF u
    <3>2. UniformRows(u, 1, 0, 1)
      BY <3>1 DEF UniformRows, extra, lost
    <3>3. QED
      BY <3>2 DEF u
  <2>3. UniformRows(Of(Asserted, ItemRow(g)), 1, 1, 0)
    <3> DEFINE u == Of(Asserted, ItemRow(g))
    <3>1. u \in [OneOutcome -> Int] /\ Weight(u, extra) = 1 /\ Weight(u, lost) = 0
          /\ \A x, y \in LineItem : Weight(u, PairedRow(x, y)) = 1
      BY <1>1, <1>3, <2>1
    <3> HIDE DEF u
    <3>2. UniformRows(u, 1, 1, 0)
      BY <3>1 DEF UniformRows, extra, lost
    <3>3. QED
      BY <3>2 DEF u
  <2>4. QED
    BY <2>2, <2>3
<1>5. QED
  BY <1>2, <1>4

LEMMA CardinalityUpTo ==
  ASSUME NEW n \in Nat
  PROVE  IsFiniteSet(1..n) /\ Cardinality(1..n) = n
<1>1. IsFiniteSet(1..n) /\ Cardinality(1..n) = IF 1 > n THEN 0 ELSE n - 1 + 1
  BY FS_Interval
<1>2. QED
  BY <1>1

\* A sequence without repetitions is as long as it has elements.
LEMMA DistinctLength ==
  ASSUME NEW X, NEW s \in Seq(X), IsInjective(s)
  PROVE  IsFiniteSet(Range(s)) /\ Cardinality(Range(s)) = Len(s)
<1> DEFINE n == Len(s)
           R == Range(s)
<1>1. n \in Nat /\ DOMAIN s = 1..n /\ s = [k \in 1..n |-> s[k]]
  BY LenProperties, SeqDef
<1>2. s \in Bijection(1..n, R)
  <2>1. s \in [1..n -> R] /\ \A y \in R : \E k \in 1..n : s[k] = y
    BY <1>1 DEF Range
  <2>2. \A i, j \in 1..n : s[i] = s[j] => i = j
    BY <1>1 DEF IsInjective
  <2> HIDE DEF n, R
  <2>3. s \in Injection(1..n, R) /\ s \in Surjection(1..n, R)
    BY <2>1, <2>2 DEF Injection, Surjection, IsInjective
  <2>4. QED
    BY <2>3 DEF Bijection
<1> HIDE DEF n, R
<1>3. IsFiniteSet(1..n) /\ Cardinality(1..n) = n
  BY <1>1, CardinalityUpTo
<1>4. ExistsBijection(1..n, R)
  BY <1>2 DEF ExistsBijection
<1>5. IsFiniteSet(R) /\ Cardinality(R) = n
  <2> DEFINE S == 1..n
  <2>1. IsFiniteSet(S) /\ ExistsBijection(S, R) /\ Cardinality(S) = n
    BY <1>3, <1>4
  <2> HIDE DEF S
  <2>2. QED
    BY <2>1, FS_Bijection
<1>6. QED
  BY <1>5 DEF n, R

\* Two sequences that share the numbers up to n have n elements together.
LEMMA SharedOut ==
  ASSUME NEW n \in Nat, NEW s \in Seq(1..n), NEW t \in Seq(1..n), IsInjective(s), IsInjective(t),
         Range(t) = (1..n) \ Range(s)
  PROVE  Len(s) + Len(t) = n
<1> DEFINE S == 1..n
           R == Range(s)
<1>1. IsFiniteSet(S) /\ Cardinality(S) = n
  BY CardinalityUpTo
<1>2. s \in Seq(S) /\ t \in Seq(S) /\ Range(t) = S \ R /\ R \subseteq S
  BY RangeOfSeq
<1> HIDE DEF S
<1>3. Cardinality(Range(t)) = Cardinality(S) - Cardinality(S \cap R)
  BY <1>1, <1>2, FS_Difference
<1>4. S \cap R = R
  BY <1>2
<1>5. Cardinality(R) = Len(s) /\ Cardinality(Range(t)) = Len(t)
  BY <1>2, DistinctLength
<1> DEFINE a == Len(s)
           b == Len(t)
<1>6. a \in Nat /\ b \in Nat
  BY LenProperties
<1>7. b = n - a
  BY <1>1, <1>3, <1>4, <1>5
<1> HIDE DEF a, b
<1>8. a + b = n
  BY <1>6, <1>7
<1>9. QED
  BY <1>8 DEF a, b

\* Equal intervals end alike.
LEMMA SameUpTo ==
  ASSUME NEW a \in Nat, NEW b \in Nat, 1..a = 1..b
  PROVE  a = b
<1>1. ASSUME NEW x \in Nat, NEW y \in Nat, 1..x = 1..y, x < y
      PROVE  FALSE
  <2>1. y \in 1..y /\ y \notin 1..x
    BY <1>1
  <2>2. QED
    BY <1>1, <2>1
<1>2. QED
  BY <1>1

\* Every row of either side is matched or left over.
LEMMA RowsAreDealt ==
  ASSUME NEW pred, NEW gold, pred \in Seq(LineItem), gold \in Seq(LineItem)
  PROVE  /\ Len(Matches(pred, gold)) + Len(UnmatchedGold(gold, Matches(pred, gold))) = Len(gold)
         /\ Len(Matches(pred, gold)) + Len(UnmatchedPred(pred, Matches(pred, gold))) = Len(pred)
<1> DEFINE matches == Matches(pred, gold)
           M == Range(matches)
           count == Len(matches)
           firsts == [k \in 1..count |-> matches[k][1]]
           seconds == [k \in 1..count |-> matches[k][2]]
           P == DOMAIN pred
           G == DOMAIN gold
           np == Len(pred)
           ng == Len(gold)
           outP == {i \in P : \A m \in M : m[1] # i}
           outG == {j \in G : \A m \in M : m[2] # j}
           up == UnmatchedPred(pred, matches)
           ug == UnmatchedGold(gold, matches)
<1>1. matches \in Seq(P \X G)
  BY MatchesAreStable
<1>2. \A m, o \in M : Shares(m, o) => m = o
  BY PairingIsStable
<1>3. IsInjective(matches)
  <2> DEFINE c == Candidates(pred, gold)
             A == Alike(pred, gold)
  <2>1. c \in Seq(A)
    BY CandidatesFacts
  <2>2. c = Candidates(pred, gold)
    OBVIOUS
  <2> HIDE DEF c, A
  <2>3. Greedy(c, Matches(pred, gold), Len(c))
    BY <2>1, <2>2, MatchesAreGreedy
  <2>4. QED
    BY <2>3 DEF Greedy
<1>4. P = 1..np /\ G = 1..ng /\ np \in Nat /\ ng \in Nat
  BY LenProperties
<1>5. /\ up = Selected([i \in DOMAIN pred |-> i], outP)
      /\ ug = Selected([j \in DOMAIN gold |-> j], outG)
  BY DEF UnmatchedPred, UnmatchedGold
<1>6. /\ up \in Seq(P) /\ IsInjective(up) /\ Range(up) = outP
      /\ ug \in Seq(G) /\ IsInjective(ug) /\ Range(ug) = outG
  <2>1. outP \subseteq DOMAIN pred /\ outG \subseteq DOMAIN gold
    OBVIOUS
  <2> HIDE DEF outP, outG, up, ug
  <2>2. QED
    BY <1>5, <2>1, UnmatchedFacts
<1>7. count \in Nat /\ DOMAIN matches = 1..count /\ \A k \in 1..count : matches[k] \in P \X G
  BY <1>1, LenProperties, ElementOfSeq
<1>8. M = {matches[k] : k \in 1..count}
  BY <1>7 DEF Range
<1>9. \A i, j \in 1..count : Shares(matches[i], matches[j]) => i = j
  <2>1. \A i, j \in 1..count : matches[i] = matches[j] => i = j
    BY <1>3, <1>7 DEF IsInjective
  <2>2. QED
    BY <1>2, <1>8, <2>1
<1> HIDE DEF matches, M, P, G, up, ug, count
<1>10. /\ firsts \in [1..count -> P] /\ seconds \in [1..count -> G]
       /\ \A k \in 1..count : firsts[k] = matches[k][1] /\ seconds[k] = matches[k][2]
       /\ DOMAIN firsts = 1..count /\ DOMAIN seconds = 1..count
  BY <1>7
<1> HIDE DEF firsts, seconds
<1>11. IsInjective(firsts) /\ IsInjective(seconds)
  BY <1>9, <1>10 DEF IsInjective, Shares
<1>12. firsts \in Seq(P) /\ seconds \in Seq(G)
  BY <1>7, <1>10, Table
<1>13. outP = P \ Range(firsts) /\ outG = G \ Range(seconds)
  BY <1>8, <1>10 DEF Range
<1>14. Len(firsts) = count /\ Len(seconds) = count
  <2>1. /\ Len(firsts) \in Nat /\ 1..Len(firsts) = 1..count
        /\ Len(seconds) \in Nat /\ 1..Len(seconds) = 1..count
    BY <1>10, <1>12, LenProperties
  <2>2. QED
    BY <1>7, <2>1, SameUpTo
<1> HIDE DEF outP, outG, np, ng
<1>15. Len(firsts) + Len(up) = np
  <2>1. firsts \in Seq(1..np) /\ up \in Seq(1..np) /\ Range(up) = (1..np) \ Range(firsts)
    BY <1>4, <1>6, <1>12, <1>13
  <2>2. QED
    BY <1>4, <1>6, <1>11, <2>1, SharedOut
<1>16. Len(seconds) + Len(ug) = ng
  <2>1. seconds \in Seq(1..ng) /\ ug \in Seq(1..ng) /\ Range(ug) = (1..ng) \ Range(seconds)
    BY <1>4, <1>6, <1>12, <1>13
  <2>2. QED
    BY <1>4, <1>6, <1>11, <2>1, SharedOut
<1>17. QED
  BY <1>14, <1>15, <1>16 DEF count, matches, up, ug, np, ng

\* What a document's outcomes weigh in each kind of field.
DocumentWeight(gold, pred, items, failed, w) ==
  LET outcomes == Outcomes(gold, pred, items, failed)
      lines == ScoreLineItems(Readings(gold.line_items), Readings(items))
  IN  /\ \A f \in ScalarFields : Weight(Of(w, f), outcomes) = w[ScoreScalar(f, gold, pred, failed)]
      /\ Weight(Of(w, "due_date"), outcomes) = w[ScoreDueDate(gold, pred, failed)]
      /\ \A g \in ItemFields : Weight(Of(w, ItemRow(g)), outcomes) = Weight(Of(w, ItemRow(g)), lines)

LEMMA DocumentWeighs ==
  ASSUME NEW gold, NEW pred, NEW items, NEW failed \in BOOLEAN,
         gold.line_items \in Seq(LineItem), items \in Seq(LineItem),
         NEW w, w \in [OneOutcome -> Int]
  PROVE  DocumentWeight(gold, pred, items, failed, w)
<1> DEFINE scalars == [n \in DOMAIN SCALAR_FIELDS |-> ScoreScalar(SCALAR_FIELDS[n], gold, pred, failed)]
           due == ScoreDueDate(gold, pred, failed)
           one == <<due>>
           first == scalars \o one
           glines == Readings(gold.line_items)
           said == Readings(items)
           lines == ScoreLineItems(glines, said)
           outcomes == Outcomes(gold, pred, items, failed)
           date == "due_date"
<1>1. outcomes = first \o lines
  BY DEF Outcomes
<1>2. /\ DOMAIN scalars = 1..8 /\ scalars = [n \in 1..8 |-> scalars[n]]
      /\ \A n \in 1..8 : scalars[n] = ScoreScalar(SCALAR_FIELDS[n], gold, pred, failed)
  BY FieldNames
<1>3. \A f \in ScalarFields : /\ ScoreScalar(f, gold, pred, failed) \in OneOutcome
                              /\ ScoreScalar(f, gold, pred, failed).field = f
  <2>1. ASSUME NEW f \in ScalarFields
        PROVE  ScoreScalar(f, gold, pred, failed).field = f
    BY DEF ScoreScalar, Outcome
  <2>2. QED
    BY <2>1, ScalarExact
<1>4. \A n \in 1..8 : SCALAR_FIELDS[n] \in ScalarFields
  BY FieldNames
<1> HIDE DEF scalars
<1>5. \A n \in 1..8 : scalars[n] \in OneOutcome /\ scalars[n].field = SCALAR_FIELDS[n]
  BY <1>2, <1>3, <1>4
<1>6. scalars \in Seq(OneOutcome) /\ Len(scalars) = 8
  <2>1. scalars \in [1..8 -> OneOutcome]
    BY <1>2, <1>5
  <2>2. scalars \in Seq(OneOutcome)
    BY <2>1, Table
  <2> DEFINE n == Len(scalars)
             e == 8
  <2>3. n \in Nat /\ 1..n = 1..e /\ e \in Nat
    BY <1>2, <2>2, LenProperties
  <2> HIDE DEF n, e
  <2>4. n = e
    BY <2>3, SameUpTo
  <2>5. QED
    BY <2>2, <2>4 DEF n, e
<1>7. due \in OneOutcome /\ due.field = date
  <2>1. due \in OneOutcome
    BY DueDateExact
  <2>2. due.field = date
    BY DEF ScoreDueDate, Outcome
  <2>3. QED
    BY <2>1, <2>2
<1> HIDE DEF due
<1>8. one \in Seq(OneOutcome) /\ Len(one) = 1 /\ one[1] = due
  BY <1>7, OnePart
<1> HIDE DEF one
<1>9. first \in Seq(OneOutcome)
  BY <1>6, <1>8, ConcatProperties
<1>10. \A f \in ScalarFields \cup {date} : UniformRows(Of(w, f), 0, 0, 0)
  BY KindsOfRows
<1>11. lines \in Seq(OneOutcome) /\ \A f \in ScalarFields \cup {date} : Weight(Of(w, f), lines) = 0
  <2> DEFINE zero == 0
  <2>1. ASSUME NEW f \in ScalarFields \cup {date}
        PROVE  lines \in Seq(OneOutcome) /\ Weight(Of(w, f), lines) = 0
    <3> DEFINE u == Of(w, f)
    <3>1. UniformRows(u, zero, zero, zero)
      BY <1>10
    <3>2. glines \in Seq(LineItem) /\ said \in Seq(LineItem)
      BY ReadingsTyped
    <3> HIDE DEF u, zero, glines, said
    <3>3. /\ ScoreLineItems(glines, said) \in Seq(OneOutcome)
          /\ Weight(u, ScoreLineItems(glines, said))
               = (IF zero = 1 THEN Len(Matches(said, glines)) ELSE 0)
                 + (IF zero = 1 THEN Len(UnmatchedPred(said, Matches(said, glines))) ELSE 0)
                 + (IF zero = 1 THEN Len(UnmatchedGold(glines, Matches(said, glines))) ELSE 0)
      BY <3>1, <3>2, RowsWeigh
    <3>4. QED
      BY <3>3 DEF zero, u
  <2>2. QED
    BY <2>1
<1> HIDE DEF first, lines, outcomes, glines, said
<1>12. ASSUME NEW f
       PROVE  /\ Weight(Of(w, f), outcomes)
                   = (Weight(Of(w, f), scalars) + Weight(Of(w, f), one)) + Weight(Of(w, f), lines)
              /\ Weight(Of(w, f), scalars) \in Int /\ Weight(Of(w, f), one) \in Int
              /\ Weight(Of(w, f), lines) \in Int
  <2> DEFINE u == Of(w, f)
  <2>1. u \in [OneOutcome -> Int]
    BY <1>8, WeightOfField DEF WeighsItsOwn
  <2> HIDE DEF u
  <2>2. Weight(u, first \o lines) = Weight(u, first) + Weight(u, lines)
    BY <1>9, <1>11, <2>1, WeightConcat
  <2>3. Weight(u, scalars \o one) = Weight(u, scalars) + Weight(u, one)
    BY <1>6, <1>8, <2>1, WeightConcat
  <2>4. Listed(u, scalars) /\ Listed(u, one) /\ Listed(u, lines)
    BY <1>6, <1>8, <1>11, <2>1, WeightsAre
  <2>5. QED
    BY <1>1, <2>2, <2>3, <2>4 DEF u, first, Listed
<1>13. /\ \A f \in ScalarFields : Weight(Of(w, f), one) = 0
       /\ \A g \in ItemFields : Weight(Of(w, ItemRow(g)), one) = 0
       /\ Weight(Of(w, date), one) = w[due]
  <2>1. \A f : WeighsItsOwn(w, one, f)
    BY <1>8, WeightOfField
  <2>2. \A n : n \in 1..Len(one) <=> n = 1
    BY <1>8
  <2>3. \A f : /\ f # date => Weight(Of(w, f), one) = 0
               /\ f = date => Weight(Of(w, f), one) = w[due]
    BY <1>7, <1>8, <2>1, <2>2 DEF WeighsItsOwn
  <2>4. QED
    BY <2>3, NamesDiffer
<1>14. /\ \A f \in ScalarFields : Weight(Of(w, f), scalars) = w[ScoreScalar(f, gold, pred, failed)]
       /\ \A g \in ItemFields : Weight(Of(w, ItemRow(g)), scalars) = 0
       /\ Weight(Of(w, date), scalars) = 0
  <2>1. \A f : WeighsItsOwn(w, scalars, f)
    BY <1>6, WeightOfField
  <2> DEFINE len == Len(scalars)
  <2>2. \A n : n \in 1..len <=> n \in 1..8
    BY <1>6
  <2> HIDE DEF len
  <2>5. ASSUME NEW f, f \notin ScalarFields
        PROVE  Weight(Of(w, f), scalars) = 0
    <3>1. \A n \in 1..len : scalars[n].field # f
      BY <1>4, <1>5, <2>2, <2>5
    <3>2. QED
      BY <2>1, <3>1 DEF WeighsItsOwn, len
  <2>3. ASSUME NEW f \in ScalarFields
        PROVE  Weight(Of(w, f), scalars) = w[ScoreScalar(f, gold, pred, failed)]
    <3>1. PICK k \in 1..8 : f = SCALAR_FIELDS[k]
      BY FieldNames
    <3>2. scalars[k].field = f /\ \A n \in 1..8 : n # k => scalars[n].field # f
      BY <1>5, <3>1, NamesDiffer
    <3>3. scalars[k] = ScoreScalar(f, gold, pred, failed)
      BY <1>2, <3>1
    <3>4. k \in 1..len /\ \A n \in 1..len : n # k => scalars[n].field # f
      BY <2>2, <3>2
    <3>5. WeighsItsOwn(w, scalars, f)
      BY <2>1
    <3>6. Weight(Of(w, f), scalars) = w[scalars[k]]
      BY <3>2, <3>4, <3>5 DEF WeighsItsOwn, len
    <3>7. QED
      BY <3>3, <3>6
  <2>4. QED
    BY <2>3, <2>5, NamesDiffer
<1>15. \A o \in OneOutcome : w[o] \in Int
  OBVIOUS
<1>16. ASSUME NEW f \in ScalarFields
       PROVE  Weight(Of(w, f), outcomes) = w[ScoreScalar(f, gold, pred, failed)]
  BY <1>3, <1>11, <1>12, <1>13, <1>14, <1>15
<1>17. Weight(Of(w, date), outcomes) = w[due]
  BY <1>7, <1>11, <1>12, <1>13, <1>14, <1>15
<1>18. ASSUME NEW g \in ItemFields
       PROVE  Weight(Of(w, ItemRow(g)), outcomes) = Weight(Of(w, ItemRow(g)), lines)
  BY <1>12, <1>13, <1>14
<1>19. QED
  BY <1>16, <1>17, <1>18 DEF DocumentWeight, outcomes, lines, due, date, glines, said

\* In each field of a line item there are as many rows to find as there are gold
\* ones, and as many asserted as predicted.
LEMMA LinesWeigh ==
  ASSUME NEW gold, NEW items, gold \in Seq(LineItem), items \in Seq(LineItem), NEW g \in ItemFields
  PROVE  /\ Weight(Of(ToFind, ItemRow(g)), ScoreLineItems(gold, items)) = Len(gold)
         /\ Weight(Of(Asserted, ItemRow(g)), ScoreLineItems(gold, items)) = Len(items)
<1> DEFINE u == Of(ToFind, ItemRow(g))
           v == Of(Asserted, ItemRow(g))
           one == 1
           zero == 0
           m == Len(Matches(items, gold))
           p == Len(UnmatchedPred(items, Matches(items, gold)))
           q == Len(UnmatchedGold(gold, Matches(items, gold)))
           lines == ScoreLineItems(gold, items)
<1>1. UniformRows(u, one, zero, one) /\ UniformRows(v, one, one, zero)
  BY KindsOfRows
<1> HIDE DEF u, v, one, zero
<1>2. /\ Weight(u, lines) = (IF one = 1 THEN m ELSE 0) + (IF zero = 1 THEN p ELSE 0) + (IF one = 1 THEN q ELSE 0)
      /\ Weight(v, lines) = (IF one = 1 THEN m ELSE 0) + (IF one = 1 THEN p ELSE 0) + (IF zero = 1 THEN q ELSE 0)
  BY <1>1, RowsWeigh
<1>3. m + q = Len(gold) /\ m + p = Len(items)
  BY RowsAreDealt
<1>4. m \in Nat /\ p \in Nat /\ q \in Nat
  <2> DEFINE matches == Matches(items, gold)
  <2>1. matches \in Seq((DOMAIN items) \X (DOMAIN gold))
    BY MatchesAreStable
  <2> HIDE DEF matches
  <2>2. RowsAre(items, gold, matches)
    BY <2>1, RowParts
  <2>3. UnmatchedPred(items, matches) \in Seq(DOMAIN items) /\ UnmatchedGold(gold, matches) \in Seq(DOMAIN gold)
    BY <2>2 DEF RowsAre
  <2>4. Len(matches) \in Nat /\ Len(UnmatchedPred(items, matches)) \in Nat
        /\ Len(UnmatchedGold(gold, matches)) \in Nat
    BY <2>1, <2>3, LenProperties
  <2>5. QED
    BY <2>4 DEF matches
<1> HIDE DEF m, p, q, lines
<1>5. QED
  BY <1>2, <1>3, <1>4 DEF one, zero, u, v, lines
-----------------------------------------------------------------------------
(* The tally of a report *)

\* What the roll-up reads of a row.
Scored(n) ==
  LET r == Results[n]
  IN  /\ r.outcomes = Outcomes(Gold(n), Given(n), Items(n), Failed(n))
      /\ r.outcomes \in Seq(OneOutcome)
      /\ r.failed = Failed(n)
      /\ r.exact => ~Failed(n)
      /\ r.validated => r.consistent

LEMMA RowScored ==
  ASSUME EvalInv, NEW n \in Rows
  PROVE  Scored(n)
<1> DEFINE gold == Gold(n)
           shown == Given(n)
           failed == Failed(n)
           items == Items(n)
           outcomes == Outcomes(gold, shown, items, failed)
           inv == AsInvoice(shown)
           r == Results[n]
<1>1. /\ gold.line_items \in Seq(LineItem) /\ items \in Seq(LineItem) /\ failed \in BOOLEAN
      /\ items = (IF failed THEN <<>> ELSE shown.line_items)
      /\ r = ScoreDocument(gold, shown, failed)
  BY RowTyped
<1> HIDE DEF gold, shown, failed, items, r
<1>2. /\ r.outcomes = outcomes /\ r.failed = failed
      /\ r.exact <=> \A k \in DOMAIN outcomes : outcomes[k].exact
      /\ r.consistent <=> ~failed /\ TotalsConsistent(inv)
      /\ r.validated <=> ~failed /\ Flags(RunChecks(inv, "unchecked")) = {}
  BY <1>1 DEF ScoreDocument
<1>3. outcomes \in Seq(OneOutcome) /\ (r.exact => ~failed)
  <2>1. outcomes \in Seq(OneOutcome)
    BY <1>1, DocumentExact
  <2>2. (\A k \in DOMAIN outcomes : outcomes[k].exact) => ~failed
    BY <1>1, DocumentExact
  <2>3. QED
    BY <1>2, <2>1, <2>2
<1> HIDE DEF inv, outcomes
<1>4. ASSUME Flags(RunChecks(inv, "unchecked")) = {}
      PROVE  TotalsConsistent(inv)
  <2> DEFINE checks == RunChecks(inv, "unchecked")
  <2>1. "totals_match" \in DOMAIN checks
        /\ checks["totals_match"].passed
             = (TRUE => Within(Round(inv.subtotal + inv.tax, inv.edge.totals_up), inv.total, inv.edge.totals))
    BY DEF RunChecks
  <2> HIDE DEF checks
  <2>2. \A id \in DOMAIN checks : checks[id].passed
    BY <1>4 DEF Flags, checks
  <2>3. QED
    BY <2>1, <2>2 DEF TotalsConsistent
<1>5. QED
  BY <1>2, <1>3, <1>4 DEF Scored, r, outcomes, gold, shown, failed, items

\* A required field is there to be found once, asserted unless the extraction failed,
\* and exact when it was found.
LEMMA ScalarWeights ==
  ASSUME NEW f \in ScalarFields, NEW gold, NEW pred, NEW failed \in BOOLEAN
  PROVE  /\ ToFind[ScoreScalar(f, gold, pred, failed)] = 1
         /\ Asserted[ScoreScalar(f, gold, pred, failed)] = IF failed THEN 0 ELSE 1
         /\ BeyondFound[ScoreScalar(f, gold, pred, failed)] = 0
<1> DEFINE o == ScoreScalar(f, gold, pred, failed)
<1>1. o \in OneOutcome
  BY ScalarExact
<1>2. \/ failed /\ o.tp = 0 /\ o.fp = 0 /\ o.fn = 1 /\ ~o.exact
      \/ ~failed /\ o.tp = 1 /\ o.fp = 0 /\ o.fn = 0 /\ o.exact
      \/ ~failed /\ o.tp = 0 /\ o.fp = 1 /\ o.fn = 1 /\ ~o.exact
  <2>1. \A tp, fp, fn :
          /\ Outcome(f, tp, fp, fn, 0).tp = tp /\ Outcome(f, tp, fp, fn, 0).fp = fp
          /\ Outcome(f, tp, fp, fn, 0).fn = fn
          /\ Outcome(f, tp, fp, fn, 0).exact <=> fp = 0 /\ fn = 0
    BY DEF Outcome
  <2>2. \/ failed /\ o = Outcome(f, 0, 0, 1, 0)
        \/ ~failed /\ o = Outcome(f, 1, 0, 0, 0)
        \/ ~failed /\ o = Outcome(f, 0, 1, 1, 0)
    BY DEF ScoreScalar
  <2> HIDE DEF o
  <2>3. QED
    BY <2>1, <2>2
<1> HIDE DEF o
<1>3. /\ ToFind[o] = o.tp + o.fn /\ Asserted[o] = o.tp + o.fp
      /\ BeyondFound[o] = (IF o.exact THEN 1 ELSE 0) - o.tp
  BY <1>1 DEF ToFind, Asserted, BeyondFound
<1>4. ToFind[o] = 1 /\ Asserted[o] = (IF failed THEN 0 ELSE 1) /\ BeyondFound[o] = 0
  BY <1>2, <1>3
<1>5. QED
  BY <1>4 DEF o

\* The due date is there to be found when the gold record has one, and exact when it
\* was found or rightly found absent.
LEMMA DueDateWeights ==
  ASSUME NEW gold, NEW pred, NEW failed \in BOOLEAN, gold.due_date \in Int \ {Garbled}
  PROVE  /\ ToFind[ScoreDueDate(gold, pred, failed)] = IF gold.due_date = Missing THEN 0 ELSE 1
         /\ BeyondRight[ScoreDueDate(gold, pred, failed)] = 0
         /\ Looks[ScoreDueDate(gold, pred, failed)] = 1
<1> DEFINE o == ScoreDueDate(gold, pred, failed)
           due == gold.due_date
<1>1. o \in OneOutcome
  BY DueDateExact
<1>2. Normalized("due_date", due) = Missing <=> due = Missing
  BY DEF Normalized, MoneyFields, Missing, NoDate, Garbled, BadDate
<1>3. \/ due = Missing /\ o.tp = 0 /\ o.fp = 0 /\ o.fn = 0 /\ o.tn = 1 /\ o.exact
      \/ due = Missing /\ o.tp = 0 /\ o.fp = 1 /\ o.fn = 0 /\ o.tn = 0 /\ ~o.exact
      \/ due # Missing /\ o.tp = 0 /\ o.fn = 1 /\ o.tn = 0 /\ ~o.exact
      \/ due # Missing /\ o.tp = 1 /\ o.fp = 0 /\ o.fn = 0 /\ o.tn = 0 /\ o.exact
  BY <1>2 DEF ScoreDueDate, Outcome
<1> HIDE DEF o, due
<1>4. /\ ToFind[o] = o.tp + o.fn /\ Looks[o] = 1
      /\ BeyondRight[o] = (IF o.exact THEN 1 ELSE 0) - (o.tp + o.tn)
  BY <1>1 DEF ToFind, BeyondRight, Looks
<1>5. ToFind[o] = (IF due = Missing THEN 0 ELSE 1) /\ BeyondRight[o] = 0 /\ Looks[o] = 1
  BY <1>3, <1>4
<1>6. QED
  BY <1>5 DEF o, due

\* The outcomes of a row, in each kind of field.
RowWeighs(n, w) == DocumentWeight(Gold(n), Given(n), Items(n), Failed(n), w)

LEMMA EveryRowWeighs ==
  ASSUME EvalInv, NEW n \in Rows, NEW w \in [OneOutcome -> Int]
  PROVE  RowWeighs(n, w)
<1> DEFINE gold == Gold(n)
           shown == Given(n)
           failed == Failed(n)
           items == Items(n)
<1>1. gold.line_items \in Seq(LineItem) /\ items \in Seq(LineItem) /\ failed \in BOOLEAN
  BY RowTyped
<1> HIDE DEF gold, shown, failed, items
<1>2. DocumentWeight(gold, shown, items, failed, w)
  BY <1>1, DocumentWeighs
<1>3. QED
  BY <1>2 DEF RowWeighs, gold, shown, failed, items

\* One number for each row of the report.
PerRow(a) == a \in Seq(Int) /\ Len(a) = Len(harness.predictions) /\ Rows = 1..Len(a)

LEMMA RowTable ==
  ASSUME EvalInv, NEW a, a = [n \in Rows |-> a[n]], \A n \in Rows : a[n] \in Int
  PROVE  PerRow(a)
<1> DEFINE len == Len(harness.predictions)
           m == Len(a)
           I == Int
<1>1. len \in Nat /\ Rows = 1..len
  BY HarnessFields DEF EvalInv, Rows
<1> HIDE DEF len, I
<1>2. a \in [1..len -> I]
  BY <1>1 DEF I
<1>3. a \in Seq(I)
  BY <1>1, <1>2, Table
<1>4. m \in Nat /\ 1..m = 1..len
  BY <1>1, <1>2, <1>3, LenProperties
<1> HIDE DEF m
<1>5. m = len
  BY <1>1, <1>4, SameUpTo
<1>6. QED
  BY <1>1, <1>3, <1>5 DEF PerRow, m, len, I

\* The counts of a field of the report, by measure: the sum of what the rows add.
LEMMA ReportSums ==
  ASSUME EvalInv, NEW m, NEW w, Measures(m, w), NEW f \in FieldRows, NEW a, PerRow(a),
         \A n \in Rows : a[n] = Weight(Of(w, f), Results[n].outcomes)
  PROVE  FieldCounts(Results)[f] \in CountRec /\ m[FieldCounts(Results)[f]] = SumOf(a)
<1> DEFINE results == Results
           len == Len(harness.predictions)
           k == Len(results)
<1>1. len \in Nat /\ Rows = 1..len
  BY HarnessFields DEF EvalInv, Rows
<1>2. DOMAIN results = Rows
  BY DEF Results, Rows
<1>3. \A n \in Rows : results[n].outcomes \in Seq(OneOutcome)
  BY RowScored DEF Scored
<1>4. k = len
  <2>1. results = [n \in 1..len |-> results[n]]
    BY <1>1, <1>2 DEF Results, Rows
  <2> DEFINE V == {results[n] : n \in 1..len}
  <2> HIDE DEF results, len
  <2>2. results \in [1..len -> V]
    BY <2>1
  <2> HIDE DEF V
  <2>3. results \in Seq(V)
    BY <1>1, <2>2, Table
  <2>4. k \in Nat /\ 1..k = 1..len
    BY <2>2, <2>3, LenProperties
  <2> HIDE DEF k
  <2>5. QED
    BY <1>1, <2>4, SameUpTo
<1>5. Weighed(a, results, w, f)
  BY <1>1, <1>4 DEF Weighed, PerRow
<1> HIDE DEF results, len
<1>6. k \in Nat /\ \A n \in 1..k : results[n].outcomes \in Seq(OneOutcome)
  BY <1>1, <1>3, <1>4
<1>7. FieldCounts(results)[f] \in CountRec /\ m[FieldCounts(results)[f]] = SumOf(a)
  BY <1>5, <1>6, FieldCountsWeigh
<1>8. QED
  BY <1>7 DEF results

LEMMA CountFields ==
  ASSUME NEW c \in CountRec
  PROVE  /\ c.tp \in Int /\ c.fp \in Int /\ c.fn \in Int /\ c.tn \in Int
         /\ c.exact_matches \in Int /\ c.total \in Int
         /\ ToFindIn[c] = c.tp + c.fn /\ AssertedIn[c] = c.tp + c.fp
         /\ BeyondFoundIn[c] = c.exact_matches - c.tp
         /\ BeyondRightIn[c] = c.exact_matches - (c.tp + c.tn)
         /\ LooksIn[c] = c.total
  BY DEF CountRec, ToFindIn, AssertedIn, BeyondFoundIn, BeyondRightIn, LooksIn

\* The counts of a required field.
LEMMA ScalarTally ==
  ASSUME EvalInv, NEW f \in ScalarFields, NEW c, c = FieldCounts(Results)[f]
  PROVE  /\ c.tp + c.fn = Len(harness.predictions)
         /\ c.tp + c.fp = Cardinality({n \in Rows : ~Failed(n)})
         /\ c.exact_matches = c.tp
<1> DEFINE o(n) == ScoreScalar(f, Gold(n), Given(n), Failed(n))
           len == Len(harness.predictions)
           E == {n \in Rows : ~Failed(n)}
           ones == [n \in Rows |-> 1]
           marks == [n \in Rows |-> IF n \in E THEN 1 ELSE 0]
           zeros == [n \in Rows |-> 0]
<1>1. \A n \in Rows : /\ ToFind[o(n)] = 1 /\ BeyondFound[o(n)] = 0
                      /\ Asserted[o(n)] = IF n \in E THEN 1 ELSE 0
  <2>1. \A n \in Rows : Failed(n) \in BOOLEAN
    BY DEF Failed
  <2>2. QED
    BY <2>1, ScalarWeights
<1>2. \A n \in Rows, w \in [OneOutcome -> Int] : Weight(Of(w, f), Results[n].outcomes) = w[o(n)]
  BY EveryRowWeighs, RowScored DEF RowWeighs, DocumentWeight, Scored
<1>3. f \in FieldRows
  BY FieldNames
<1>4. PerRow(ones) /\ PerRow(marks) /\ PerRow(zeros)
  BY RowTable
<1>5. /\ \A n \in Rows : ones[n] = 1 /\ marks[n] = (IF n \in E THEN 1 ELSE 0) /\ zeros[n] = 0
      /\ E \subseteq Rows
  OBVIOUS
<1> HIDE DEF o, ones, marks, zeros, E
<1>6. /\ ToFind \in [OneOutcome -> Int] /\ Asserted \in [OneOutcome -> Int]
      /\ BeyondFound \in [OneOutcome -> Int]
  BY AllMeasure DEF Measures
<1>7. c \in CountRec /\ ToFindIn[c] = SumOf(ones)
  <2>1. Measures(ToFindIn, ToFind)
    BY AllMeasure
  <2>2. \A n \in Rows : ones[n] = Weight(Of(ToFind, f), Results[n].outcomes)
    BY <1>1, <1>2, <1>5, <1>6
  <2>3. QED
    BY <1>3, <1>4, <2>1, <2>2, ReportSums
<1>8. AssertedIn[c] = SumOf(marks)
  <2>1. Measures(AssertedIn, Asserted)
    BY AllMeasure
  <2>2. \A n \in Rows : marks[n] = Weight(Of(Asserted, f), Results[n].outcomes)
    BY <1>1, <1>2, <1>5, <1>6
  <2>3. QED
    BY <1>3, <1>4, <2>1, <2>2, ReportSums
<1>9. BeyondFoundIn[c] = SumOf(zeros)
  <2>1. Measures(BeyondFoundIn, BeyondFound)
    BY AllMeasure
  <2>2. \A n \in Rows : zeros[n] = Weight(Of(BeyondFound, f), Results[n].outcomes)
    BY <1>1, <1>2, <1>5, <1>6
  <2>3. QED
    BY <1>3, <1>4, <2>1, <2>2, ReportSums
<1>10. SumOf(ones) = len /\ SumOf(zeros) = 0 /\ SumOf(marks) = Cardinality(E)
  <2>1. /\ ones \in Seq(Int) /\ Len(ones) = len /\ Rows = 1..Len(ones)
        /\ zeros \in Seq(Int) /\ Rows = 1..Len(zeros)
        /\ marks \in Seq(Int) /\ Rows = 1..Len(marks)
    BY <1>4 DEF PerRow
  <2>2. SumOf(ones) = len
    BY <1>5, <2>1, SumOfOnes
  <2>3. SumOf(zeros) = 0
    BY <1>5, <2>1, SumOfOnes
  <2>4. SumOf(marks) = Cardinality(E)
    BY <1>5, <2>1, SumOfMarks
  <2>5. QED
    BY <2>2, <2>3, <2>4
<1> HIDE DEF len
<1>11. c.tp + c.fn = len /\ c.tp + c.fp = Cardinality(E) /\ c.exact_matches - c.tp = 0
  BY <1>7, <1>8, <1>9, <1>10, CountFields
<1>12. c.exact_matches = c.tp
  <2>1. c.exact_matches \in Int /\ c.tp \in Int
    BY <1>7, CountFields
  <2>2. QED
    BY <1>11, <2>1
<1>13. QED
  BY <1>11, <1>12 DEF len, E

\* The counts of the due date.
LEMMA DueDateTally ==
  ASSUME EvalInv, NEW c, c = FieldCounts(Results)["due_date"]
  PROVE  /\ c.tp + c.fn = Cardinality({n \in Rows : Gold(n).due_date # Missing})
         /\ c.tp + c.tn = c.exact_matches
         /\ c.total = Len(harness.predictions)
<1> DEFINE o(n) == ScoreDueDate(Gold(n), Given(n), Failed(n))
           len == Len(harness.predictions)
           f == "due_date"
           D == {n \in Rows : Gold(n).due_date # Missing}
           ones == [n \in Rows |-> 1]
           marks == [n \in Rows |-> IF n \in D THEN 1 ELSE 0]
           zeros == [n \in Rows |-> 0]
<1>1. \A n \in Rows : /\ Looks[o(n)] = 1 /\ BeyondRight[o(n)] = 0
                      /\ ToFind[o(n)] = IF n \in D THEN 1 ELSE 0
  <2>1. \A n \in Rows : Failed(n) \in BOOLEAN /\ Gold(n).due_date \in Int \ {Garbled}
    BY RowTyped
  <2>2. QED
    BY <2>1, DueDateWeights
<1>2. \A n \in Rows, w \in [OneOutcome -> Int] : Weight(Of(w, f), Results[n].outcomes) = w[o(n)]
  BY EveryRowWeighs, RowScored DEF RowWeighs, DocumentWeight, Scored
<1>3. f \in FieldRows
  BY FieldNames
<1>4. PerRow(ones) /\ PerRow(marks) /\ PerRow(zeros)
  BY RowTable
<1>5. /\ \A n \in Rows : ones[n] = 1 /\ marks[n] = (IF n \in D THEN 1 ELSE 0) /\ zeros[n] = 0
      /\ D \subseteq Rows
  OBVIOUS
<1>6. /\ ToFind \in [OneOutcome -> Int] /\ Looks \in [OneOutcome -> Int]
      /\ BeyondRight \in [OneOutcome -> Int]
  BY AllMeasure DEF Measures
<1>7. c = FieldCounts(Results)[f]
  OBVIOUS
<1> HIDE DEF o, ones, marks, zeros, D, f
<1>8. c \in CountRec /\ LooksIn[c] = SumOf(ones)
  <2>1. Measures(LooksIn, Looks)
    BY AllMeasure
  <2>2. \A n \in Rows : ones[n] = Weight(Of(Looks, f), Results[n].outcomes)
    BY <1>1, <1>2, <1>5, <1>6
  <2>3. QED
    BY <1>3, <1>4, <1>7, <2>1, <2>2, ReportSums
<1>9. ToFindIn[c] = SumOf(marks)
  <2>1. Measures(ToFindIn, ToFind)
    BY AllMeasure
  <2>2. \A n \in Rows : marks[n] = Weight(Of(ToFind, f), Results[n].outcomes)
    BY <1>1, <1>2, <1>5, <1>6
  <2>3. QED
    BY <1>3, <1>4, <1>7, <2>1, <2>2, ReportSums
<1>10. BeyondRightIn[c] = SumOf(zeros)
  <2>1. Measures(BeyondRightIn, BeyondRight)
    BY AllMeasure
  <2>2. \A n \in Rows : zeros[n] = Weight(Of(BeyondRight, f), Results[n].outcomes)
    BY <1>1, <1>2, <1>5, <1>6
  <2>3. QED
    BY <1>3, <1>4, <1>7, <2>1, <2>2, ReportSums
<1>11. SumOf(ones) = len /\ SumOf(zeros) = 0 /\ SumOf(marks) = Cardinality(D)
  <2>1. /\ ones \in Seq(Int) /\ Len(ones) = len /\ Rows = 1..Len(ones)
        /\ zeros \in Seq(Int) /\ Rows = 1..Len(zeros)
        /\ marks \in Seq(Int) /\ Rows = 1..Len(marks)
    BY <1>4 DEF PerRow
  <2>2. SumOf(ones) = len
    BY <1>5, <2>1, SumOfOnes
  <2>3. SumOf(zeros) = 0
    BY <1>5, <2>1, SumOfOnes
  <2>4. SumOf(marks) = Cardinality(D)
    BY <1>5, <2>1, SumOfMarks
  <2>5. QED
    BY <2>2, <2>3, <2>4
<1> HIDE DEF len
<1>12. c.total = len /\ c.tp + c.fn = Cardinality(D) /\ c.exact_matches - (c.tp + c.tn) = 0
  BY <1>8, <1>9, <1>10, <1>11, CountFields
<1>13. c.tp + c.tn = c.exact_matches
  <2>1. c.exact_matches \in Int /\ c.tp \in Int /\ c.tn \in Int
    BY <1>8, CountFields
  <2>2. QED
    BY <1>12, <2>1
<1>14. QED
  BY <1>12, <1>13 DEF len, D

\* The counts of a field of the line items.
LEMMA ItemTally ==
  ASSUME EvalInv, NEW g \in ItemFields, NEW c, c = FieldCounts(Results)[ItemRow(g)]
  PROVE  /\ c.tp + c.fn = SumOf([n \in Rows |-> Len(Gold(n).line_items)])
         /\ c.tp + c.fp = SumOf([n \in Rows |-> Len(Items(n))])
<1> DEFINE f == ItemRow(g)
           told(n) == Readings(Gold(n).line_items)
           heard(n) == Readings(Items(n))
           lines(n) == ScoreLineItems(told(n), heard(n))
           found == [n \in Rows |-> Len(Gold(n).line_items)]
           said == [n \in Rows |-> Len(Items(n))]
<1>1. \A n \in Rows : Gold(n).line_items \in Seq(LineItem) /\ Items(n) \in Seq(LineItem)
  BY RowTyped
<1>2. \A n \in Rows : /\ Weight(Of(ToFind, f), lines(n)) = Len(Gold(n).line_items)
                      /\ Weight(Of(Asserted, f), lines(n)) = Len(Items(n))
  <2>1. ASSUME NEW n \in Rows
        PROVE  /\ Weight(Of(ToFind, f), lines(n)) = Len(Gold(n).line_items)
               /\ Weight(Of(Asserted, f), lines(n)) = Len(Items(n))
    <3> DEFINE gold == told(n)
               items == heard(n)
    <3>1. /\ gold \in Seq(LineItem) /\ Len(gold) = Len(Gold(n).line_items)
          /\ items \in Seq(LineItem) /\ Len(items) = Len(Items(n))
      BY <1>1, ReadingsTyped
    <3> HIDE DEF gold, items
    <3>2. /\ Weight(Of(ToFind, ItemRow(g)), ScoreLineItems(gold, items)) = Len(gold)
          /\ Weight(Of(Asserted, ItemRow(g)), ScoreLineItems(gold, items)) = Len(items)
      BY <3>1, LinesWeigh
    <3>3. QED
      BY <3>1, <3>2 DEF gold, items
  <2>2. QED
    BY <2>1
<1>3. \A n \in Rows, w \in [OneOutcome -> Int] :
        Weight(Of(w, f), Results[n].outcomes) = Weight(Of(w, f), lines(n))
  BY EveryRowWeighs, RowScored DEF RowWeighs, DocumentWeight, Scored
<1>4. f \in FieldRows
  BY FieldNames
<1>5. PerRow(found) /\ PerRow(said)
  <2>1. \A n \in Rows : Len(Gold(n).line_items) \in Int /\ Len(Items(n)) \in Int
    BY <1>1, LenProperties
  <2>2. QED
    BY <2>1, RowTable
<1>6. \A n \in Rows : found[n] = Len(Gold(n).line_items) /\ said[n] = Len(Items(n))
  OBVIOUS
<1>7. ToFind \in [OneOutcome -> Int] /\ Asserted \in [OneOutcome -> Int]
  BY AllMeasure DEF Measures
<1>8. c = FieldCounts(Results)[f]
  OBVIOUS
<1> HIDE DEF f, lines, found, said
<1>9. c \in CountRec /\ ToFindIn[c] = SumOf(found)
  <2>1. Measures(ToFindIn, ToFind)
    BY AllMeasure
  <2>2. \A n \in Rows : found[n] = Weight(Of(ToFind, f), Results[n].outcomes)
    BY <1>2, <1>3, <1>6, <1>7
  <2>3. QED
    BY <1>4, <1>5, <1>8, <2>1, <2>2, ReportSums
<1>10. AssertedIn[c] = SumOf(said)
  <2>1. Measures(AssertedIn, Asserted)
    BY AllMeasure
  <2>2. \A n \in Rows : said[n] = Weight(Of(Asserted, f), Results[n].outcomes)
    BY <1>2, <1>3, <1>6, <1>7
  <2>3. QED
    BY <1>4, <1>5, <1>8, <2>1, <2>2, ReportSums
<1>11. c.tp + c.fn = SumOf(found) /\ c.tp + c.fp = SumOf(said)
  BY <1>9, <1>10, CountFields
<1>12. QED
  BY <1>11 DEF found, said

\* The numbers of documents.
LEMMA DocumentsTally ==
  ASSUME EvalInv, NEW agg, agg = Aggregate(Results)
  PROVE  /\ agg.extraction_success = Cardinality({n \in Rows : ~Failed(n)})
         /\ agg.document_exact <= agg.extraction_success
         /\ agg.validation_pass <= agg.consistency_pass
<1> DEFINE extracted == {n \in Rows : ~Results[n].failed}
           exact == {n \in Rows : Results[n].exact}
           consistent == {n \in Rows : Results[n].consistent}
           validated == {n \in Rows : Results[n].validated}
<1>1. DOMAIN Results = Rows
  BY DEF Results, Rows
<1>2. /\ agg.document_exact = Cardinality(exact) /\ agg.extraction_success = Cardinality(extracted)
      /\ agg.consistency_pass = Cardinality(consistent) /\ agg.validation_pass = Cardinality(validated)
  BY <1>1 DEF Aggregate
<1>3. \A n \in Rows : Scored(n)
  BY RowScored
<1>4. extracted = {n \in Rows : ~Failed(n)} /\ exact \subseteq extracted /\ validated \subseteq consistent
  BY <1>3 DEF Scored
<1>5. extracted \subseteq Rows /\ consistent \subseteq Rows
  OBVIOUS
<1>6. IsFiniteSet(Rows)
  <2>1. Rows = 1..Len(harness.predictions) /\ Len(harness.predictions) \in Nat
    BY HarnessFields DEF EvalInv, Rows
  <2>2. QED
    BY <2>1, FS_Interval
<1> HIDE DEF extracted, exact, consistent, validated
<1>7. IsFiniteSet(extracted) /\ IsFiniteSet(consistent)
  BY <1>5, <1>6, FS_Subset
<1>8. Cardinality(exact) <= Cardinality(extracted) /\ Cardinality(validated) <= Cardinality(consistent)
  BY <1>4, <1>7, FS_Subset
<1>9. QED
  BY <1>2, <1>4, <1>8

\* The report adds up (aggregate, counted a second way from gold and predictions
\* alone): a required field is there to be found once a document and asserted once an
\* extracted one, a field of the line items as often as there are rows on either side,
\* a due date where the gold record has one; and no document is exact that was not
\* extracted, or valid and inconsistent.
THEOREM TallySafety == EvalSpec => []CountsTally
<1>1. EvalInv => CountsTally
  <2> DEFINE agg == Aggregate(Results)
             counts == agg.field_counts
             extracted == {n \in Rows : ~Failed(n)}
  <2>1. SUFFICES ASSUME EvalInv PROVE Tallies(agg)
    BY DEF CountsTally
  <2>2. counts = FieldCounts(Results)
    BY DEF Aggregate
  <2>3. \A f \in ScalarFields : /\ counts[f].tp + counts[f].fn = Len(harness.predictions)
                                /\ counts[f].tp + counts[f].fp = Cardinality(extracted)
                                /\ counts[f].exact_matches = counts[f].tp
    BY <2>1, <2>2, ScalarTally
  <2>4. \A f \in {ItemRow(field) : field \in ItemFields} :
          /\ counts[f].tp + counts[f].fn = SumOf([n \in Rows |-> Len(Gold(n).line_items)])
          /\ counts[f].tp + counts[f].fp = SumOf([n \in Rows |-> Len(Items(n))])
    BY <2>1, <2>2, ItemTally
  <2>5. /\ counts["due_date"].tp + counts["due_date"].fn = Cardinality({n \in Rows : Gold(n).due_date # Missing})
        /\ counts["due_date"].tp + counts["due_date"].tn = counts["due_date"].exact_matches
        /\ counts["due_date"].total = Len(harness.predictions)
    BY <2>1, <2>2, DueDateTally
  <2>6. /\ agg.extraction_success = Cardinality(extracted)
        /\ agg.document_exact <= agg.extraction_success
        /\ agg.validation_pass <= agg.consistency_pass
    BY <2>1, DocumentsTally
  <2> HIDE DEF agg
  <2>7. QED
    BY <2>3, <2>4, <2>5, <2>6 DEF Tallies
<1>2. QED
  BY <1>1, EvalInvariance, PTL

-----------------------------------------------------------------------------
(* The parts together, as TLC runs them *)

\* A behaviour of MCDocuments is one of each part: what the parts are proved to
\* keep, its states keep.
THEOREM EachPart == Spec => UploadSpec /\ PagesSpec /\ EvalSpec
<1>1. Init => UploadInit /\ PagesInit /\ EvalInit
  BY DEF Init
<1>2. [Next]_vars => [UploadNext]_uploadVars
  BY DEF Next, vars
<1>3. [Next]_vars => [ListNext \/ LinkNext]_pageVars
  BY DEF Next, vars
<1>4. [Next]_vars => [EvalNext]_evalVars
  BY DEF Next, vars
<1>5. QED
  BY <1>1, <1>2, <1>3, <1>4, PTL DEF Spec, UploadSpec, PagesSpec, EvalSpec

\* What the variables of all the parts range over.
THEOREM DocumentTypes == Spec => []TypeOK
<1>1. PagesInv => PagesTypeOK
  <2> SUFFICES ASSUME PagesInv PROVE PagesTypeOK
    OBVIOUS
  <2>1. PagesTypes
    BY DEF PagesInv
  <2>2. list.phase \in {"idle", "fetch", "summarize", "done"} /\ list.rows \in Seq(Thread)
    BY <2>1, ListFields
  <2>3. ToSet(list.rows) \subseteq Thread
    BY <2>2, ElementOfSeq, LenProperties DEF ToSet
  <2>4. QED
    BY <2>1, <2>2, <2>3 DEF PagesTypeOK, PagesTypes, ViewerRec
<1>2. EvalInv => /\ harness.phase \in {"idle", "running", "reported", "aborted"}
                 /\ Len(harness.predictions) <= harness.limit
                 /\ runs \in 0..MaxRuns
  BY DEF EvalInv, EvalTypes
<1>3. UploadTypeOK /\ PagesInv /\ EvalInv => TypeOK
  BY <1>1, <1>2 DEF TypeOK
<1>4. QED
  BY <1>3, EachPart, TypeCorrect, PagesInvariance, EvalInvariance, PTL
=============================================================================
