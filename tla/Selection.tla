------------------------------ MODULE Selection ------------------------------
(***************************************************************************)
(* SelectSeq for a set in place of a predicate, as a recursive function,   *)
(* which a proof can follow (SelectionFacts).                              *)
(***************************************************************************)
EXTENDS Integers, Sequences

\* The elements of s that are in S, in their order.
Selected(s, S) ==
  LET upTo[n \in 0..Len(s)] ==
        IF n = 0 THEN <<>>
        ELSE IF s[n] \in S THEN Append(upTo[n - 1], s[n]) ELSE upTo[n - 1]
  IN  upTo[Len(s)]
=============================================================================
