--------------------------- MODULE SelectionFacts ---------------------------
(***************************************************************************)
(* What Selected does to sequences of every length: it keeps order,        *)
(* commutes with concatenation, and so on. The proofs are inductions,      *)
(* which need an induction principle no prover has to instantiate:         *)
(* NatInduct and SeqInduct speak of a set T of numbers or sequences        *)
(* instead of a predicate, and rest on the well-foundedness of < on Nat.   *)
(***************************************************************************)
EXTENDS Selection, SequencesExt, SequenceTheorems, WellFoundedInduction, TLAPS

\* A set of natural numbers that is not empty has a least element.
LEMMA NatMinimum ==
  ASSUME NEW T, T \subseteq Nat, T # {}
  PROVE  \E x \in T : \A y \in T : x <= y
<1> DEFINE R == OpToRel(<, Nat)
<1>1. IsWellFoundedOn(R, Nat)
  BY NatLessThanWellFounded
<1>2. \A x, y \in Nat : <<y, x>> \notin R => x <= y
  BY SMT DEF OpToRel
<1> HIDE DEF R
<1>3. \E x \in T : \A y \in T : ~ (<<y, x>> \in R)
  BY <1>1, WFMin
<1>4. QED
  BY <1>2, <1>3

\* Induction over the natural numbers, for a set instead of a predicate.
LEMMA NatInduct ==
  ASSUME NEW T, 0 \in T, \A n \in Nat : n \in T => n + 1 \in T
  PROVE  \A n \in Nat : n \in T
<1>1. SUFFICES ASSUME Nat \ T # {} PROVE FALSE
  OBVIOUS
<1>2. PICK x \in Nat \ T : \A y \in Nat \ T : x <= y
  BY NatMinimum, <1>1
<1>3. x # 0 /\ x - 1 \in Nat /\ x - 1 \in T
  BY <1>2
<1>4. QED
  BY <1>3, <1>2

\* f is the table Selected builds, up to position n of s.
UpTo(f, s, S, n) ==
  f = [i \in 0..n |-> IF i = 0 THEN <<>>
                      ELSE IF s[i] \in S THEN Append(f[i - 1], s[i]) ELSE f[i - 1]]

\* The table obeys its recursion,
LEMMA UpToUnfolds ==
  ASSUME NEW f, NEW s, NEW S, NEW n \in Nat, UpTo(f, s, S, n)
  PROVE  \A i \in 0..n : f[i] = IF i = 0 THEN <<>>
                               ELSE IF s[i] \in S THEN Append(f[i - 1], s[i]) ELSE f[i - 1]
BY DEF UpTo

\* and whatever obeys the recursion is the table.
LEMMA UpToFolds ==
  ASSUME NEW s, NEW S, NEW n \in Nat, NEW e,
         DOMAIN e = 0..n /\ e = [i \in 0..n |-> e[i]],
         \A i \in 0..n : e[i] = IF i = 0 THEN <<>>
                               ELSE IF s[i] \in S THEN Append(e[i - 1], s[i]) ELSE e[i - 1]
  PROVE  UpTo(e, s, S, n)
<1> DEFINE h == [i \in 0..n |-> IF i = 0 THEN <<>>
                               ELSE IF s[i] \in S THEN Append(e[i - 1], s[i]) ELSE e[i - 1]]
<1>1. \A i \in 0..n : e[i] = h[i]
  OBVIOUS
<1>2. h = [i \in 0..n |-> h[i]]
  OBVIOUS
<1>3. e = h
  <2> HIDE DEF h
  <2>1. QED
    BY <1>1, <1>2
<1>4. QED
  BY <1>3 DEF UpTo

\* There is a table up to every position.
LEMMA UpToExists ==
  ASSUME NEW s, NEW S
  PROVE  \A n \in Nat : \E f : UpTo(f, s, S, n)
<1> DEFINE T == {n \in Nat : \E f : UpTo(f, s, S, n)}
<1>1. 0 \in T
  <2> DEFINE e == [i \in 0..0 |-> <<>>]
  <2>1. DOMAIN e = 0..0 /\ e = [i \in 0..0 |-> e[i]] /\ \A i \in 0..0 : i = 0 /\ e[i] = <<>>
    OBVIOUS
  <2> HIDE DEF e
  <2>2. UpTo(e, s, S, 0)
    BY <2>1, UpToFolds
  <2>3. QED
    BY <2>2
<1>2. ASSUME NEW n \in Nat, n \in T
      PROVE  n + 1 \in T
  <2>1. PICK f : UpTo(f, s, S, n)
    BY <1>2
  <2> DEFINE g == [i \in 0..(n + 1) |->
                     IF i = n + 1 THEN IF s[i] \in S THEN Append(f[n], s[i]) ELSE f[n]
                     ELSE f[i]]
  <2>2. \A i \in 0..n : f[i] = IF i = 0 THEN <<>>
                              ELSE IF s[i] \in S THEN Append(f[i - 1], s[i]) ELSE f[i - 1]
    BY <2>1, UpToUnfolds
  <2>3. \A i \in 0..n : g[i] = f[i]
    BY SMT
  <2>4. g[n + 1] = IF s[n + 1] \in S THEN Append(f[n], s[n + 1]) ELSE f[n]
    BY SMT
  <2>5. DOMAIN g = 0..(n + 1) /\ g = [i \in 0..(n + 1) |-> g[i]]
    OBVIOUS
  <2> HIDE DEF g
  <2>6. ASSUME NEW i \in 0..(n + 1)
        PROVE  g[i] = IF i = 0 THEN <<>>
                      ELSE IF s[i] \in S THEN Append(g[i - 1], s[i]) ELSE g[i - 1]
    <3>1. CASE i = n + 1
      <4>1. n \in 0..n /\ i - 1 = n /\ i # 0
        BY <3>1
      <4>2. QED
        BY <4>1, <2>3, <2>4, <3>1
    <3>2. CASE i = 0
      BY <3>2, <2>2, <2>3
    <3>3. CASE i \in 1..n
      <4>1. i \in 0..n /\ i - 1 \in 0..n /\ i # 0
        BY <3>3
      <4>2. QED
        BY <4>1, <2>2, <2>3
    <3>4. QED
      BY <3>1, <3>2, <3>3
  <2> DEFINE m == n + 1
  <2>7. m \in Nat
    OBVIOUS
  <2>8. DOMAIN g = 0..m /\ g = [i \in 0..m |-> g[i]]
    BY <2>5
  <2>9. \A i \in 0..m : g[i] = IF i = 0 THEN <<>>
                              ELSE IF s[i] \in S THEN Append(g[i - 1], s[i]) ELSE g[i - 1]
    BY <2>6
  <2> HIDE DEF m
  <2>10. UpTo(g, s, S, m)
    BY <2>7, <2>8, <2>9, UpToFolds
  <2>11. QED
    BY <2>10 DEF m
<1> HIDE DEF T
<1>3. \A n \in Nat : n \in T
  BY <1>1, <1>2, NatInduct
<1>4. QED
  BY <1>3 DEF T

\* Selected is the last entry of its table.
LEMMA SelectedUnfolds ==
  ASSUME NEW s, NEW S, NEW n \in Nat, Len(s) = n
  PROVE  \E f : /\ \A i \in 0..n : f[i] = IF i = 0 THEN <<>>
                      ELSE IF s[i] \in S THEN Append(f[i - 1], s[i]) ELSE f[i - 1]
                /\ Selected(s, S) = f[n]
<1> DEFINE chosen == CHOOSE f : UpTo(f, s, S, Len(s))
<1>1. Selected(s, S) = chosen[n]
  BY DEF Selected, UpTo
<1>2. UpTo(chosen, s, S, n)
  BY UpToExists
<1> HIDE DEF chosen
<1>3. QED
  BY <1>1, <1>2, UpToUnfolds

\* Induction over sequences by appending, for a set instead of a predicate.
LEMMA SeqInduct ==
  ASSUME NEW X, NEW T, <<>> \in T,
         \A s \in Seq(X), x \in X : s \in T => Append(s, x) \in T
  PROVE  \A s \in Seq(X) : s \in T
<1> DEFINE N == {n \in Nat : \A s \in Seq(X) : Len(s) = n => s \in T}
<1>1. 0 \in N
  OBVIOUS
<1>2. ASSUME NEW n \in Nat, n \in N
      PROVE  n + 1 \in N
  <2> SUFFICES ASSUME NEW s \in Seq(X), Len(s) = n + 1 PROVE s \in T
    OBVIOUS
  <2>1. PICK t \in Seq(X), x \in X : s = Append(t, x)
    BY SequenceEmptyOrAppend
  <2>2. Len(t) = n
    BY <2>1, AppendProperties
  <2>3. QED
    BY <1>2, <2>1, <2>2
<1> HIDE DEF N
<1>3. \A n \in Nat : n \in N
  BY <1>1, <1>2, NatInduct
<1>4. QED
  BY <1>3 DEF N

\* Nothing is selected from nothing.
LEMMA SelectedEmpty ==
  ASSUME NEW S
  PROVE  Selected(<<>>, S) = <<>>
<1>1. Len(<<>>) = 0 /\ 0 \in Nat /\ 0 \in 0..0
  OBVIOUS
<1>2. PICK f : /\ \A i \in 0..0 : f[i] = IF i = 0 THEN <<>>
                    ELSE IF <<>>[i] \in S THEN Append(f[i - 1], <<>>[i]) ELSE f[i - 1]
               /\ Selected(<<>>, S) = f[0]
  BY <1>1, SelectedUnfolds
<1>3. QED
  BY <1>1, <1>2

\* Appending to a sequence appends to its selection, or leaves it.
LEMMA SelectedAppend ==
  ASSUME NEW X, NEW S, NEW s \in Seq(X), NEW x \in X
  PROVE  Selected(Append(s, x), S) = IF x \in S THEN Append(Selected(s, S), x) ELSE Selected(s, S)
<1> DEFINE t == Append(s, x)
           n == Len(s)
<1>1. /\ n \in Nat /\ Len(t) = n + 1 /\ t[n + 1] = x
      /\ \A i \in 1..n : t[i] = s[i]
  BY AppendProperties
<1> HIDE DEF t
<1>2. PICK f : /\ \A i \in 0..n : f[i] = IF i = 0 THEN <<>>
                        ELSE IF s[i] \in S THEN Append(f[i - 1], s[i]) ELSE f[i - 1]
               /\ Selected(s, S) = f[n]
  BY <1>1, SelectedUnfolds
<1>3. PICK g : /\ \A i \in 0..(n + 1) : g[i] = IF i = 0 THEN <<>>
                        ELSE IF t[i] \in S THEN Append(g[i - 1], t[i]) ELSE g[i - 1]
               /\ Selected(t, S) = g[n + 1]
  <2>1. n + 1 \in Nat
    BY <1>1
  <2>2. QED
    BY <1>1, <2>1, SelectedUnfolds
<1> HIDE DEF n
<1> DEFINE T == {i \in Nat : i <= n => f[i] = g[i]}
<1>4. 0 \in T
  BY <1>1, <1>2, <1>3
<1>5. ASSUME NEW i \in Nat, i \in T
      PROVE  i + 1 \in T
  <2> SUFFICES ASSUME i + 1 <= n PROVE f[i + 1] = g[i + 1]
    OBVIOUS
  <2>1. f[i] = g[i] /\ i + 1 \in 1..n /\ i + 1 \in 0..n /\ i + 1 \in 0..(n + 1) /\ (i + 1) - 1 = i
    BY <1>1, <1>5
  <2>2. QED
    BY <2>1, <1>1, <1>2, <1>3
<1> HIDE DEF T
<1>6. \A i \in Nat : i \in T
  BY <1>4, <1>5, NatInduct
<1>7. f[n] = g[n]
  BY <1>1, <1>6 DEF T
<1>8. g[n + 1] = IF x \in S THEN Append(g[n], x) ELSE g[n]
  <2>1. n + 1 \in 0..(n + 1) /\ n + 1 # 0 /\ (n + 1) - 1 = n
    BY <1>1
  <2>2. QED
    BY <2>1, <1>1, <1>3
<1>9. QED
  BY <1>2, <1>3, <1>7, <1>8 DEF t

\* A selection is a sequence of elements of both sets, no longer than its source.
LEMMA SelectedType ==
  ASSUME NEW X, NEW S, NEW s \in Seq(X)
  PROVE  /\ Selected(s, S) \in Seq(X \cap S)
         /\ Len(Selected(s, S)) <= Len(s)
<1> DEFINE T == {t \in Seq(X) : Selected(t, S) \in Seq(X \cap S) /\ Len(Selected(t, S)) <= Len(t)}
<1>1. <<>> \in T
  <2> DEFINE u == Selected(<<>>, S)
  <2>1. u = <<>>
    BY SelectedEmpty
  <2> HIDE DEF u
  <2>2. u \in Seq(X \cap S) /\ Len(u) <= Len(<<>>) /\ <<>> \in Seq(X)
    BY <2>1
  <2>3. QED
    BY <2>2 DEF u
<1>2. ASSUME NEW t \in Seq(X), NEW x \in X, t \in T
      PROVE  Append(t, x) \in T
  <2> DEFINE u == Selected(t, S)
             v == Selected(Append(t, x), S)
  <2>1. u \in Seq(X \cap S) /\ Len(u) <= Len(t)
    BY <1>2
  <2>2. v = IF x \in S THEN Append(u, x) ELSE u
    BY SelectedAppend
  <2> HIDE DEF u, v
  <2>3. v \in Seq(X \cap S) /\ Len(v) <= Len(Append(t, x))
    BY <2>1, <2>2
  <2>4. QED
    BY <2>3 DEF v
<1> HIDE DEF T
<1>3. s \in T
  BY <1>1, <1>2, SeqInduct
<1>4. QED
  BY <1>3 DEF T

\* Selecting from two sequences one after the other.
LEMMA SelectedConcat ==
  ASSUME NEW X, NEW S, NEW s \in Seq(X), NEW t \in Seq(X)
  PROVE  Selected(s \o t, S) = Selected(s, S) \o Selected(t, S)
<1> DEFINE T == {u \in Seq(X) : Selected(s \o u, S) = Selected(s, S) \o Selected(u, S)}
<1>1. <<>> \in T
  <2>1. Selected(<<>>, S) = <<>> /\ Selected(s, S) \in Seq(X \cap S)
    BY SelectedEmpty, SelectedType
  <2>2. s \o <<>> = s /\ Selected(s, S) \o <<>> = Selected(s, S)
    BY <2>1, ConcatEmptySeq
  <2>3. QED
    BY <2>1, <2>2
<1>2. ASSUME NEW u \in Seq(X), NEW x \in X, u \in T
      PROVE  Append(u, x) \in T
  <2>1. s \o Append(u, x) = Append(s \o u, x) /\ s \o u \in Seq(X)
    OBVIOUS
  <2> DEFINE p == Selected(s, S)
             q == Selected(u, S)
  <2>2. Selected(Append(s \o u, x), S)
          = IF x \in S THEN Append(Selected(s \o u, S), x) ELSE Selected(s \o u, S)
    <3>1. \A w \in Seq(X) : Selected(Append(w, x), S)
                              = IF x \in S THEN Append(Selected(w, S), x) ELSE Selected(w, S)
      BY SelectedAppend
    <3>2. QED
      BY <2>1, <3>1
  <2>3. Selected(Append(u, x), S) = IF x \in S THEN Append(q, x) ELSE q
    BY SelectedAppend
  <2>4. p \in Seq(X \cap S) /\ q \in Seq(X \cap S)
    BY SelectedType
  <2>5. Selected(s \o u, S) = p \o q
    BY <1>2
  <2>6. Append(u, x) \in Seq(X)
    OBVIOUS
  <2> HIDE DEF p, q
  <2>7. x \in S => p \o Append(q, x) = Append(p \o q, x)
    BY <2>4
  <2>8. Selected(s \o Append(u, x), S) = p \o Selected(Append(u, x), S)
    BY <2>1, <2>2, <2>3, <2>5, <2>7
  <2>9. QED
    BY <2>6, <2>8 DEF p
<1> HIDE DEF T
<1>3. t \in T
  BY <1>1, <1>2, SeqInduct
<1>4. QED
  BY <1>3 DEF T

\* A sequence of elements of S is its own selection.
LEMMA SelectedAll ==
  ASSUME NEW X, NEW S, NEW s \in Seq(X), \A i \in 1..Len(s) : s[i] \in S
  PROVE  Selected(s, S) = s
<1> DEFINE T == {t \in Seq(X) : (\A i \in 1..Len(t) : t[i] \in S) => Selected(t, S) = t}
<1>1. <<>> \in T
  BY SelectedEmpty
<1>2. ASSUME NEW t \in Seq(X), NEW x \in X, t \in T
      PROVE  Append(t, x) \in T
  <2> SUFFICES ASSUME \A i \in 1..Len(Append(t, x)) : Append(t, x)[i] \in S
               PROVE  Selected(Append(t, x), S) = Append(t, x)
    BY AppendProperties
  <2>1. x \in S /\ \A i \in 1..Len(t) : t[i] \in S
    <3>1. /\ Len(Append(t, x)) = Len(t) + 1 /\ Append(t, x)[Len(t) + 1] = x
          /\ \A i \in 1..Len(t) : Append(t, x)[i] = t[i]
      BY AppendProperties
    <3>2. Len(t) + 1 \in 1..(Len(t) + 1) /\ \A i \in 1..Len(t) : i \in 1..(Len(t) + 1)
      OBVIOUS
    <3>3. QED
      BY <3>1, <3>2
  <2>2. Selected(Append(t, x), S) = IF x \in S THEN Append(Selected(t, S), x) ELSE Selected(t, S)
    BY SelectedAppend
  <2>3. QED
    BY <1>2, <2>1, <2>2
<1> HIDE DEF T
<1>3. s \in T
  BY <1>1, <1>2, SeqInduct
<1>4. QED
  BY <1>3 DEF T

\* Nothing is selected from a sequence without elements of S.
LEMMA SelectedNone ==
  ASSUME NEW X, NEW S, NEW s \in Seq(X), \A i \in 1..Len(s) : s[i] \notin S
  PROVE  Selected(s, S) = <<>>
<1> DEFINE T == {t \in Seq(X) : (\A i \in 1..Len(t) : t[i] \notin S) => Selected(t, S) = <<>>}
<1>1. <<>> \in T
  BY SelectedEmpty
<1>2. ASSUME NEW t \in Seq(X), NEW x \in X, t \in T
      PROVE  Append(t, x) \in T
  <2> SUFFICES ASSUME \A i \in 1..Len(Append(t, x)) : Append(t, x)[i] \notin S
               PROVE  Selected(Append(t, x), S) = <<>>
    BY AppendProperties
  <2>1. x \notin S /\ \A i \in 1..Len(t) : t[i] \notin S
    <3>1. /\ Len(Append(t, x)) = Len(t) + 1 /\ Append(t, x)[Len(t) + 1] = x
          /\ \A i \in 1..Len(t) : Append(t, x)[i] = t[i]
      BY AppendProperties
    <3>2. Len(t) + 1 \in 1..(Len(t) + 1) /\ \A i \in 1..Len(t) : i \in 1..(Len(t) + 1)
      OBVIOUS
    <3>3. QED
      BY <3>1, <3>2
  <2>2. Selected(Append(t, x), S) = IF x \in S THEN Append(Selected(t, S), x) ELSE Selected(t, S)
    BY SelectedAppend
  <2>3. QED
    BY <1>2, <2>1, <2>2
<1> HIDE DEF T
<1>3. s \in T
  BY <1>1, <1>2, SeqInduct
<1>4. QED
  BY <1>3 DEF T

\* Selecting from a single element.
LEMMA SelectedOne ==
  ASSUME NEW X, NEW S, NEW x \in X
  PROVE  Selected(<<x>>, S) = IF x \in S THEN <<x>> ELSE <<>>
<1>1. <<x>> \in Seq(X) /\ Len(<<x>>) = 1 /\ <<x>>[1] = x
  OBVIOUS
<1>2. CASE x \in S
  <2>1. \A i \in 1..Len(<<x>>) : <<x>>[i] \in S
    BY <1>1, <1>2
  <2>2. QED
    BY <1>1, <1>2, <2>1, SelectedAll
<1>3. CASE x \notin S
  <2>1. \A i \in 1..Len(<<x>>) : <<x>>[i] \notin S
    BY <1>1, <1>3
  <2>2. QED
    BY <1>1, <1>3, <2>1, SelectedNone
<1>4. QED
  BY <1>2, <1>3

\* Taking the selection from the front.
LEMMA SelectedTail ==
  ASSUME NEW X, NEW S, NEW s \in Seq(X), s # <<>>
  PROVE  Selected(s, S) = (IF Head(s) \in S THEN <<Head(s)>> ELSE <<>>) \o Selected(Tail(s), S)
<1>1. Head(s) \in X /\ Tail(s) \in Seq(X) /\ <<Head(s)>> \in Seq(X) /\ s = <<Head(s)>> \o Tail(s)
  OBVIOUS
<1> DEFINE h == Head(s)
           t == Tail(s)
<1> HIDE DEF h, t
<1>2. Selected(<<h>> \o t, S) = Selected(<<h>>, S) \o Selected(t, S)
  BY <1>1, SelectedConcat DEF h, t
<1>3. Selected(<<h>>, S) = IF h \in S THEN <<h>> ELSE <<>>
  BY <1>1, SelectedOne DEF h
<1>4. QED
  BY <1>1, <1>2, <1>3 DEF h, t

\* What one more element adds to what is in a sequence.
LEMMA RangeOfAppend ==
  ASSUME NEW Y, NEW u \in Seq(Y), NEW y \in Y
  PROVE  Range(Append(u, y)) = Range(u) \cup {y}
<1>1. /\ Len(Append(u, y)) = Len(u) + 1 /\ Append(u, y)[Len(u) + 1] = y
      /\ Append(u, y) \in Seq(Y)
      /\ \A i \in 1..Len(u) : Append(u, y)[i] = u[i]
  BY AppendProperties
<1>2. /\ Range(Append(u, y)) = {Append(u, y)[i] : i \in 1..(Len(u) + 1)}
      /\ Range(u) = {u[i] : i \in 1..Len(u)}
  BY <1>1, RangeEquality
<1>3. 1..(Len(u) + 1) = 1..Len(u) \cup {Len(u) + 1}
  BY LenProperties
<1>4. QED
  BY <1>1, <1>2, <1>3

\* What is selected is what was there and is in S.
LEMMA SelectedRange ==
  ASSUME NEW X, NEW S, NEW s \in Seq(X)
  PROVE  Range(Selected(s, S)) = Range(s) \cap S
<1> DEFINE T == {t \in Seq(X) : Range(Selected(t, S)) = Range(t) \cap S}
<1>1. <<>> \in T
  <2>1. Selected(<<>>, S) = <<>> /\ Range(<<>>) = {}
    BY SelectedEmpty DEF Range
  <2>2. QED
    BY <2>1
<1>2. ASSUME NEW t \in Seq(X), NEW x \in X, t \in T
      PROVE  Append(t, x) \in T
  <2>2. Selected(Append(t, x), S) = IF x \in S THEN Append(Selected(t, S), x) ELSE Selected(t, S)
    BY SelectedAppend
  <2>3. Selected(t, S) \in Seq(X \cap S)
    BY SelectedType
  <2>4. Range(Append(t, x)) = Range(t) \cup {x}
    BY RangeOfAppend
  <2>5. x \in S => Range(Append(Selected(t, S), x)) = Range(Selected(t, S)) \cup {x}
    BY <2>3, RangeOfAppend
  <2>6. Range(Selected(t, S)) = Range(t) \cap S /\ Append(t, x) \in Seq(X)
    BY <1>2
  <2>7. Range(Selected(Append(t, x), S)) = Range(Append(t, x)) \cap S
    BY <2>2, <2>4, <2>5, <2>6
  <2>8. QED
    BY <2>6, <2>7
<1> HIDE DEF T
<1>3. s \in T
  BY <1>1, <1>2, SeqInduct
<1>4. QED
  BY <1>3 DEF T

\* A sequence without repetitions goes on without them.
LEMMA AppendDistinct ==
  ASSUME NEW X, NEW u \in Seq(X), IsInjective(u), NEW x, x \notin Range(u)
  PROVE  IsInjective(Append(u, x))
<1>1. /\ Len(Append(u, x)) = Len(u) + 1
      /\ \A i \in 1..Len(u) : Append(u, x)[i] = u[i]
      /\ Append(u, x)[Len(u) + 1] = x
      /\ DOMAIN Append(u, x) = 1..(Len(u) + 1)
      /\ DOMAIN u = 1..Len(u) /\ Len(u) \in Nat
  <2> DEFINE Y == X \cup {x}
  <2>1. u \in Seq(Y) /\ x \in Y
    BY SeqDef
  <2> HIDE DEF Y
  <2>2. QED
    BY <2>1, AppendProperties, LenProperties
<1>2. /\ \A i, j \in 1..Len(u) : u[i] = u[j] => i = j
      /\ \A i \in 1..Len(u) : u[i] # x
  BY <1>1 DEF IsInjective, Range
<1>3. \A i \in 1..(Len(u) + 1) : i \in 1..Len(u) \/ i = Len(u) + 1
  BY <1>1
<1>4. QED
  BY <1>1, <1>2, <1>3 DEF IsInjective

\* A selection repeats nothing its source does not.
LEMMA SelectedDistinct ==
  ASSUME NEW X, NEW S, NEW s \in Seq(X), IsInjective(s)
  PROVE  IsInjective(Selected(s, S))
<1> DEFINE T == {t \in Seq(X) : IsInjective(t) => IsInjective(Selected(t, S))}
<1>1. <<>> \in T
  BY SelectedEmpty
<1>2. ASSUME NEW t \in Seq(X), NEW x \in X, t \in T
      PROVE  Append(t, x) \in T
  <2> SUFFICES ASSUME IsInjective(Append(t, x))
               PROVE  IsInjective(Selected(Append(t, x), S))
    BY AppendProperties
  <2>1. /\ Append(t, x) \in Seq(X) /\ Len(Append(t, x)) = Len(t) + 1
        /\ \A i \in 1..Len(t) : Append(t, x)[i] = t[i]
        /\ Append(t, x)[Len(t) + 1] = x
        /\ DOMAIN Append(t, x) = 1..(Len(t) + 1)
    BY AppendProperties, LenProperties
  <2>2. IsInjective(t) /\ x \notin Range(t)
    <3>1. DOMAIN t = 1..Len(t) /\ Len(t) \in Nat
      BY LenProperties
    <3>2. \A i, j \in 1..(Len(t) + 1) : Append(t, x)[i] = Append(t, x)[j] => i = j
      BY <2>1 DEF IsInjective
    <3>3. QED
      BY <3>1, <3>2, <2>1 DEF IsInjective, Range
  <2> DEFINE u == Selected(t, S)
  <2>3. Selected(Append(t, x), S) = IF x \in S THEN Append(u, x) ELSE u
    BY SelectedAppend
  <2>4. u \in Seq(X \cap S) /\ IsInjective(u) /\ x \notin Range(u)
    BY <1>2, <2>2, SelectedType, SelectedRange
  <2> HIDE DEF u
  <2>5. x \in S => IsInjective(Append(u, x))
    BY <2>4, AppendDistinct
  <2>6. QED
    BY <2>3, <2>4, <2>5
<1> HIDE DEF T
<1>3. s \in T
  BY <1>1, <1>2, SeqInduct
<1>4. QED
  BY <1>3 DEF T

\* No element comes before a smaller one, nor twice.
Rising(s) == \A i, j \in DOMAIN s : i < j => s[i] < s[j]

\* A selection of numbers that rise does.
LEMMA SelectedRising ==
  ASSUME NEW X, X \subseteq Nat, NEW S, NEW s \in Seq(X), Rising(s)
  PROVE  Rising(Selected(s, S))
<1> DEFINE T == {t \in Seq(X) : Rising(t) => Rising(Selected(t, S))}
<1>1. <<>> \in T
  BY SelectedEmpty
<1>2. ASSUME NEW t \in Seq(X), NEW x \in X, t \in T
      PROVE  Append(t, x) \in T
  <2> SUFFICES ASSUME Rising(Append(t, x))
               PROVE  Rising(Selected(Append(t, x), S))
    BY AppendProperties
  <2>1. /\ Append(t, x) \in Seq(X) /\ Len(Append(t, x)) = Len(t) + 1
        /\ \A i \in 1..Len(t) : Append(t, x)[i] = t[i]
        /\ Append(t, x)[Len(t) + 1] = x
        /\ DOMAIN Append(t, x) = 1..(Len(t) + 1)
        /\ DOMAIN t = 1..Len(t) /\ Len(t) \in Nat
    BY AppendProperties, LenProperties
  <2>2. Rising(t) /\ \A y \in Range(t) : y < x
    <3>1. \A i, j \in 1..(Len(t) + 1) : i < j => Append(t, x)[i] < Append(t, x)[j]
      BY <2>1 DEF Rising
    <3>2. \A i \in 1..Len(t) : t[i] < x
      BY <2>1, <3>1
    <3>3. \A i, j \in 1..Len(t) : i < j => t[i] < t[j]
      BY <2>1, <3>1
    <3>4. Rising(t)
      BY <2>1, <3>3 DEF Rising
    <3>5. \A y \in Range(t) : y < x
      BY <2>1, <3>2 DEF Range
    <3>6. QED
      BY <3>4, <3>5
  <2> DEFINE u == Selected(t, S)
  <2>3. Selected(Append(t, x), S) = IF x \in S THEN Append(u, x) ELSE u
    BY SelectedAppend
  <2>4. u \in Seq(X \cap S) /\ Rising(u) /\ \A y \in Range(u) : y < x
    BY <1>2, <2>2, SelectedType, SelectedRange
  <2> HIDE DEF u
  <2>5. x \in S => Rising(Append(u, x))
    <3> SUFFICES ASSUME x \in S PROVE Rising(Append(u, x))
      OBVIOUS
    <3>1. /\ Len(Append(u, x)) = Len(u) + 1
          /\ \A i \in 1..Len(u) : Append(u, x)[i] = u[i]
          /\ Append(u, x)[Len(u) + 1] = x
          /\ DOMAIN Append(u, x) = 1..(Len(u) + 1)
          /\ DOMAIN u = 1..Len(u) /\ Len(u) \in Nat
      BY <2>4, AppendProperties, LenProperties
    <3>2. /\ \A i, j \in 1..Len(u) : i < j => u[i] < u[j]
          /\ \A i \in 1..Len(u) : u[i] < x
      BY <2>4, <3>1 DEF Rising, Range
    <3> DEFINE len == Len(u)
               v == Append(u, x)
    <3> HIDE DEF len, v
    <3>3. ASSUME NEW i \in 1..(len + 1), NEW j \in 1..(len + 1), i < j
          PROVE  v[i] < v[j]
      <4>1. i \in 1..len /\ (j \in 1..len \/ j = len + 1)
        BY <3>1, <3>3 DEF len
      <4>2. QED
        BY <3>1, <3>2, <3>3, <4>1 DEF len, v
    <3>4. QED
      BY <3>1, <3>3 DEF Rising, len, v
  <2>6. QED
    BY <2>3, <2>4, <2>5
<1> HIDE DEF T
<1>3. s \in T
  BY <1>1, <1>2, SeqInduct
<1>4. QED
  BY <1>3 DEF T

\* c is a followed by b, element by element.
Joins(X, a, b, c) ==
  /\ c \in Seq(X) /\ Len(c) = Len(a) + Len(b) /\ Len(a) \in Nat /\ Len(b) \in Nat
  /\ \A i \in 1..Len(a) : c[i] = a[i]
  /\ \A j \in 1..Len(b) : c[Len(a) + j] = b[j]

\* Concatenation, element by element.
LEMMA TwoParts ==
  ASSUME NEW X, NEW a \in Seq(X), NEW b \in Seq(X)
  PROVE  Joins(X, a, b, a \o b)
<1> DEFINE c == a \o b
<1> DEFINE p == Len(a)
           q == Len(b)
<1>1. c \in Seq(X) /\ Len(c) = p + q /\ p \in Nat /\ q \in Nat
  BY ConcatProperties, LenProperties
<1>2. \A i \in 1..(p + q) : c[i] = IF i <= p THEN a[i] ELSE b[i - p]
  BY ConcatProperties
<1> HIDE DEF p, q
<1>3. \A i \in 1..p : c[i] = a[i]
  BY <1>1, <1>2
<1>4. ASSUME NEW j \in 1..q PROVE c[p + j] = b[j]
  <2>1. p + j \in 1..(p + q) /\ ~(p + j <= p) /\ (p + j) - p = j
    BY <1>1
  <2>2. QED
    BY <1>2, <2>1
<1>5. QED
  BY <1>1, <1>3, <1>4 DEF p, q, Joins

\* A table on 1..n is a sequence.
LEMMA Table == \A A : \A n \in Nat : \A f \in [1..n -> A] : f \in Seq(A)
  BY SeqDef

\* The sequence of one element.
LEMMA OnePart ==
  ASSUME NEW X, NEW x \in X
  PROVE  <<x>> \in Seq(X) /\ Len(<<x>>) = 1 /\ <<x>>[1] = x
OBVIOUS

\* A sequence is empty just if its length is 0.
LEMMA NonEmpty ==
  ASSUME NEW X, NEW s \in Seq(X)
  PROVE  /\ Len(s) \in Nat /\ (s = <<>> <=> Len(s) = 0)
         /\ s # <<>> => Len(s) \in 1..Len(s)
<1>1. Len(s) \in Nat /\ (s # <<>> => Len(s) \in Nat \ {0}) /\ (s = <<>> => Len(s) = 0)
  BY EmptySeq, LenProperties
<1> DEFINE n == Len(s)
<1> HIDE DEF n
<1>2. n \in Nat /\ (s # <<>> => n \in Nat \ {0}) /\ (s = <<>> => n = 0)
  BY <1>1 DEF n
<1>3. (s = <<>> <=> n = 0) /\ (s # <<>> => n \in 1..n)
  BY <1>2
<1>4. QED
  BY <1>1, <1>3 DEF n

\* A recursion over the natural numbers has a solution up to every number.
LEMMA Recursion ==
  ASSUME NEW V, NEW base \in V, NEW step \in [V \X Nat -> V]
  PROVE  \A n \in Nat : \E f \in [0..n -> V] :
           \A i \in 0..n : f[i] = IF i = 0 THEN base ELSE step[<<f[i - 1], i>>]
<1> DEFINE Good(f, n) == \A i \in 0..n : f[i] = IF i = 0 THEN base ELSE step[<<f[i - 1], i>>]
           T == {n \in Nat : \E f \in [0..n -> V] : Good(f, n)}
<1>1. 0 \in T
  <2> DEFINE f == [i \in 0..0 |-> base]
  <2>1. f \in [0..0 -> V] /\ \A i \in 0..0 : i = 0 /\ f[i] = base
    OBVIOUS
  <2> HIDE DEF f
  <2>2. QED
    BY <2>1
<1>2. ASSUME NEW n \in Nat, n \in T
      PROVE  n + 1 \in T
  <2>1. PICK f \in [0..n -> V] : Good(f, n)
    BY <1>2
  <2> DEFINE v == step[<<f[n], n + 1>>]
             g == [i \in 0..(n + 1) |-> IF i = n + 1 THEN v ELSE f[i]]
  <2>2. n \in 0..n /\ n + 1 \in Nat /\ f[n] \in V
    OBVIOUS
  <2>3. v \in V
    BY <2>2
  <2> HIDE DEF v
  <2>4. g \in [0..(n + 1) -> V]
    BY <2>3
  <2>5. g[n + 1] = v /\ \A i \in 0..n : g[i] = f[i]
    OBVIOUS
  <2> HIDE DEF g
  <2>6. ASSUME NEW i \in 0..(n + 1)
        PROVE  g[i] = IF i = 0 THEN base ELSE step[<<g[i - 1], i>>]
    <3>1. CASE i = n + 1
      <4>1. i # 0 /\ i - 1 = n /\ g[i - 1] = f[n]
        BY <2>2, <2>5, <3>1
      <4>2. QED
        BY <2>5, <3>1, <4>1 DEF v
    <3>2. CASE i \in 0..n
      <4>1. g[i] = f[i] /\ (i # 0 => i - 1 \in 0..n)
        BY <2>5, <3>2
      <4>2. i # 0 => g[i - 1] = f[i - 1]
        BY <2>5, <4>1
      <4>3. QED
        BY <2>1, <3>2, <4>1, <4>2
    <3>3. QED
      BY <3>1, <3>2
  <2>7. Good(g, n + 1)
    BY <2>6
  <2>8. QED
    BY <2>2, <2>4, <2>7
<1> HIDE DEF T
<1>3. \A n \in Nat : n \in T
  BY <1>1, <1>2, NatInduct
<1>4. QED
  BY <1>3 DEF T

\* The first n elements of a sequence.
LEMMA FirstOnes ==
  ASSUME NEW X, NEW s \in Seq(X), NEW k \in Nat, k <= Len(s)
  PROVE  /\ SubSeq(s, 1, k) \in Seq(X) /\ Len(SubSeq(s, 1, k)) = k
         /\ \A i \in 1..k : SubSeq(s, 1, k)[i] = s[i]
<1> DEFINE len == Len(s)
           d == SubSeq(s, 1, k)
<1>1. len \in Nat /\ k <= len /\ \A i \in 1..len : s[i] \in X
  BY LenProperties, ElementOfSeq
<1> HIDE DEF len
<1>2. \A i \in 1..k : s[i] \in X
  BY <1>1
<1>3. /\ d \in Seq(X) /\ Len(d) = IF 1 <= k THEN k - 1 + 1 ELSE 0
      /\ \A i \in 1..k - 1 + 1 : d[i] = s[1 + i - 1]
  BY <1>2, SubSeqProperties
<1> HIDE DEF d
<1>4. Len(d) = k /\ \A i \in 1..k : d[i] = s[i]
  BY <1>3
<1>5. QED
  BY <1>3, <1>4 DEF d

\* A function on 0..m starts at z and goes on by s, as the lemma Recursion has it.
Chain(V, z, s, m) ==
  \E f \in [0..m -> V] : \A n \in 0..m : f[n] = IF n = 0 THEN z ELSE s[<<f[n - 1], n>>]

LEMMA Chains == \A V : \A z \in V, s \in [V \X Nat -> V], m \in Nat : Chain(V, z, s, m)
  BY Recursion DEF Chain

\* f is the table of concatenations FlattenSeq builds.
Flat(f, s) == f = [i \in 1..Len(s) |-> IF i = 1 THEN s[i] ELSE f[i - 1] \o s[i]]

\* FlattenSeq puts one sequence after the other.
LEMMA FlattenUnfolds ==
  ASSUME NEW X, NEW s \in Seq(Seq(X)), s # <<>>
  PROVE  \E f \in [1..Len(s) -> Seq(X)] :
           /\ \A i \in 1..Len(s) : f[i] = IF i = 1 THEN s[1] ELSE f[i - 1] \o s[i]
           /\ FlattenSeq(s) = f[Len(s)]
<1> DEFINE V == Seq(X)
           len == Len(s)
           chosen == CHOOSE f : Flat(f, s)
           base == s[1]
           step == [x \in V \X Nat |-> IF x[2] \in 1..(len - 1) THEN x[1] \o s[x[2] + 1] ELSE x[1]]
<1>1. len \in Nat \ {0} /\ s \in [1..len -> V]
  BY LenProperties, EmptySeq
<1>2. FlattenSeq(s) = chosen[len]
  BY <1>1 DEF FlattenSeq, Flat
<1>3. base \in V /\ step \in [V \X Nat -> V]
  <2> HIDE DEF len
  <2>1. base \in V
    BY <1>1
  <2>2. ASSUME NEW v \in V, NEW i \in Nat
        PROVE  (IF i \in 1..(len - 1) THEN v \o s[i + 1] ELSE v) \in V
    <3>1. CASE i \in 1..(len - 1)
      <4>1. s[i + 1] \in V
        BY <1>1, <3>1
      <4>2. QED
        BY <4>1, <3>1, ConcatProperties
    <3>2. QED
      BY <3>1
  <2> HIDE DEF V
  <2>3. QED
    BY <2>1, <2>2
<1>4. \A v \in V, i \in 1..(len - 1) : step[<<v, i>>] = v \o s[i + 1]
  <2> HIDE DEF V, len
  <2>1. \A i \in 1..(len - 1) : i \in Nat
    BY <1>1
  <2>2. QED
    BY <2>1
<1> HIDE DEF V, base, step
<1>5. \A n \in Nat : Chain(V, base, step, n)
  BY <1>3, Chains
<1> DEFINE last == len - 1
<1>6. last \in Nat
  BY <1>1
<1> HIDE DEF last
<1>7. PICK f \in [0..last -> V] :
        \A i \in 0..last : f[i] = IF i = 0 THEN base ELSE step[<<f[i - 1], i>>]
  BY <1>5, <1>6 DEF Chain
<1> HIDE DEF len
<1> DEFINE g == [i \in 1..len |-> f[i - 1]]
<1>8. g \in [1..len -> V]
  BY <1>1 DEF last
<1>9. \A i \in 1..len : g[i] = IF i = 1 THEN s[i] ELSE g[i - 1] \o s[i]
  <2> SUFFICES ASSUME NEW i \in 1..len
               PROVE  g[i] = IF i = 1 THEN s[i] ELSE g[i - 1] \o s[i]
    OBVIOUS
  <2>1. CASE i = 1
    <3>1. 0 \in 0..last /\ i - 1 = 0
      BY <2>1, <1>6
    <3>2. f[0] = base
      BY <3>1, <1>7
    <3>3. QED
      BY <2>1, <3>1, <3>2 DEF base
  <2>2. CASE i # 1
    <3>1. i - 1 \in 0..last /\ i - 1 # 0 /\ i - 1 \in 1..(len - 1) /\ (i - 1) + 1 = i
          /\ (i - 1) - 1 \in 0..last /\ i - 1 \in 1..len
      BY <2>2, <1>1 DEF last
    <3> DEFINE j == i - 1
    <3>2. g[i] = f[j] /\ g[j] = f[j - 1] /\ f[j - 1] \in V
      BY <3>1, <1>7
    <3>3. f[j] = step[<<f[j - 1], j>>]
      BY <3>1, <1>7
    <3>4. step[<<f[j - 1], j>>] = f[j - 1] \o s[j + 1]
      BY <3>1, <3>2, <1>4 DEF len
    <3>5. QED
      BY <2>2, <3>1, <3>2, <3>3, <3>4
  <2>3. QED
    BY <2>1, <2>2
<1> HIDE DEF g
<1>10. g = [i \in 1..len |-> IF i = 1 THEN s[i] ELSE g[i - 1] \o s[i]]
  BY <1>8, <1>9
<1>11. Flat(chosen, s)
  BY <1>10 DEF Flat, len
<1> HIDE DEF chosen
<1>12. \A i \in 1..len : chosen[i] = IF i = 1 THEN s[i] ELSE chosen[i - 1] \o s[i]
  BY <1>11 DEF Flat, len
<1>13. chosen = [i \in 1..len |-> chosen[i]]
  BY <1>11 DEF Flat, len
<1> DEFINE T == {n \in Nat : n \in 1..len => chosen[n] \in V}
<1>14. 0 \in T
  OBVIOUS
<1>15. ASSUME NEW n \in Nat, n \in T
       PROVE  n + 1 \in T
  <2> SUFFICES ASSUME n + 1 \in 1..len PROVE chosen[n + 1] \in V
    OBVIOUS
  <2>1. s[n + 1] \in V
    BY <1>1 DEF len
  <2>2. CASE n = 0
    BY <2>1, <2>2, <1>12
  <2>3. CASE n # 0
    <3>1. n \in 1..len /\ chosen[n] \in V /\ n + 1 # 1 /\ (n + 1) - 1 = n
      BY <1>1, <1>15, <2>3
    <3>2. chosen[n + 1] = chosen[n] \o s[n + 1]
      BY <3>1, <1>12
    <3>3. QED
      BY <2>1, <3>1, <3>2, ConcatProperties DEF V
  <2>4. QED
    BY <2>2, <2>3
<1> HIDE DEF T
<1>16. \A n \in Nat : n \in T
  BY <1>14, <1>15, NatInduct
<1>17. \A i \in 1..len : chosen[i] \in V
  BY <1>1, <1>16 DEF T
<1>18. chosen \in [1..len -> Seq(X)]
  BY <1>13, <1>17 DEF V
<1>19. \A i \in 1..len : chosen[i] = IF i = 1 THEN s[1] ELSE chosen[i - 1] \o s[i]
  BY <1>12
<1>20. QED
  BY <1>2, <1>18, <1>19 DEF len

\* What FlattenSeq puts together is what was in the parts.
LEMMA FlattenRange ==
  ASSUME NEW X, NEW s \in Seq(Seq(X))
  PROVE  /\ FlattenSeq(s) \in Seq(X)
         /\ \A x : x \in Range(FlattenSeq(s)) <=> \E i \in DOMAIN s : x \in Range(s[i])
<1> DEFINE len == Len(s)
<1>1. len \in Nat /\ DOMAIN s = 1..len /\ \A i \in 1..len : s[i] \in Seq(X)
  BY LenProperties, ElementOfSeq
<1>2. CASE s = <<>>
  <2>1. FlattenSeq(s) = <<>>
    BY <1>2 DEF FlattenSeq
  <2>2. Range(<<>>) = {} /\ DOMAIN s = {}
    BY <1>2 DEF Range
  <2>3. QED
    BY <2>1, <2>2
<1>3. CASE s # <<>>
  <2>1. PICK f \in [1..len -> Seq(X)] :
          /\ \A i \in 1..len : f[i] = IF i = 1 THEN s[1] ELSE f[i - 1] \o s[i]
          /\ FlattenSeq(s) = f[len]
    BY <1>3, FlattenUnfolds
  <2>2. len \in Nat \ {0}
    BY <1>3, EmptySeq
  <2> HIDE DEF len
  <2> DEFINE Good(n) == \A x : x \in Range(f[n]) <=> \E i \in 1..n : x \in Range(s[i])
             T == {n \in Nat : n \in 1..len => Good(n)}
  <2>3. 0 \in T
    OBVIOUS
  <2>4. ASSUME NEW n \in Nat, n \in T
        PROVE  n + 1 \in T
    <3> SUFFICES ASSUME n + 1 \in 1..len PROVE Good(n + 1)
      OBVIOUS
    <3>1. CASE n = 0
      <4>1. n + 1 = 1 /\ 1 \in 1..len /\ \A i : i \in 1..1 <=> i = 1
        BY <2>2, <3>1
      <4>2. f[1] = s[1]
        BY <2>1, <4>1
      <4>3. QED
        BY <4>1, <4>2
    <3>2. CASE n # 0
      <4>1. n \in 1..len /\ n + 1 # 1 /\ (n + 1) - 1 = n /\ 1..(n + 1) = 1..n \cup {n + 1}
        BY <2>2, <3>2
      <4>2. f[n + 1] = f[n] \o s[n + 1]
        BY <2>1, <4>1
      <4>3. Range(f[n] \o s[n + 1]) = Range(f[n]) \cup Range(s[n + 1])
        <5>1. f[n] \in Seq(X) /\ s[n + 1] \in Seq(X)
          BY <1>1, <2>1, <4>1 DEF len
        <5>2. QED
          BY <5>1, RangeConcatenation
      <4>4. Good(n)
        BY <2>4, <4>1
      <4>5. QED
        BY <4>1, <4>2, <4>3, <4>4
    <3>3. QED
      BY <3>1, <3>2
  <2> HIDE DEF T
  <2>5. \A n \in Nat : n \in T
    BY <2>3, <2>4, NatInduct
  <2>6. Good(len) /\ f[len] \in Seq(X)
    <3>1. len \in Nat /\ len \in 1..len
      BY <2>2
    <3>2. Good(len)
      BY <2>5, <3>1 DEF T
    <3>3. QED
      BY <2>1, <3>1, <3>2
  <2>7. QED
    BY <1>1, <2>1, <2>6 DEF len
<1>4. QED
  BY <1>2, <1>3

\* What FlattenSeq adds for one more part.
LEMMA FlattenAppend ==
  ASSUME NEW X, NEW s \in Seq(Seq(X)), NEW r \in Seq(X)
  PROVE  FlattenSeq(Append(s, r)) = FlattenSeq(s) \o r
<1> DEFINE all == Append(s, r)
           len == Len(s)
           V == Seq(X)
<1>1. all \in Seq(V) /\ Len(all) = len + 1 /\ len \in Nat /\ all # <<>>
      /\ all[len + 1] = r /\ \A i \in 1..len : all[i] = s[i]
  BY LenProperties, AppendProperties
<1> HIDE DEF all
<1>2. PICK g \in [1..(len + 1) -> V] :
        /\ \A i \in 1..(len + 1) : g[i] = IF i = 1 THEN all[1] ELSE g[i - 1] \o all[i]
        /\ FlattenSeq(all) = g[len + 1]
  BY <1>1, FlattenUnfolds DEF V
<1>3. CASE s = <<>>
  <2>1. len = 0 /\ FlattenSeq(s) = <<>>
    BY <1>3 DEF FlattenSeq
  <2>2. g[1] = r
    BY <1>1, <1>2, <2>1
  <2>3. <<>> \o r = r
    BY ConcatEmptySeq
  <2>4. QED
    BY <1>2, <2>1, <2>2, <2>3 DEF all
<1>4. CASE s # <<>>
  <2>1. len \in Nat \ {0}
    BY <1>4, EmptySeq
  <2>2. PICK f \in [1..len -> V] :
          /\ \A i \in 1..len : f[i] = IF i = 1 THEN s[1] ELSE f[i - 1] \o s[i]
          /\ FlattenSeq(s) = f[len]
    BY <1>4, FlattenUnfolds DEF V
  <2> HIDE DEF len
  <2> DEFINE T == {n \in Nat : n \in 1..len => g[n] = f[n]}
  <2>3. 0 \in T
    OBVIOUS
  <2>4. ASSUME NEW n \in Nat, n \in T
        PROVE  n + 1 \in T
    <3> SUFFICES ASSUME n + 1 \in 1..len PROVE g[n + 1] = f[n + 1]
      OBVIOUS
    <3>1. n + 1 \in 1..(len + 1) /\ all[n + 1] = s[n + 1] /\ (n + 1) - 1 = n
      BY <1>1, <2>1
    <3>2. CASE n = 0
      <4>1. 1 \in 1..len /\ n + 1 = 1
        BY <3>2
      <4>2. g[1] = all[1] /\ f[1] = s[1]
        BY <1>2, <2>2, <3>1, <4>1
      <4>3. QED
        BY <3>1, <4>1, <4>2
    <3>3. CASE n # 0
      <4>1. n \in 1..len /\ n + 1 # 1
        BY <2>1, <3>3
      <4>2. g[n] = f[n]
        BY <2>4, <4>1
      <4>3. g[n + 1] = g[n] \o all[n + 1] /\ f[n + 1] = f[n] \o s[n + 1]
        BY <1>2, <2>2, <3>1, <4>1
      <4>4. QED
        BY <3>1, <4>2, <4>3
    <3>4. QED
      BY <3>2, <3>3
  <2> HIDE DEF T
  <2>5. \A n \in Nat : n \in T
    BY <2>3, <2>4, NatInduct
  <2>6. g[len] = f[len]
    BY <2>1, <2>5 DEF T
  <2>7. len + 1 \in 1..(len + 1) /\ len + 1 # 1 /\ (len + 1) - 1 = len
    BY <2>1
  <2>8. g[len + 1] = g[len] \o r
    BY <1>1, <1>2, <2>7
  <2>9. QED
    BY <1>2, <2>2, <2>6, <2>8 DEF all
<1>5. QED
  BY <1>3, <1>4
=============================================================================
