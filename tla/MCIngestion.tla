---------------------------- MODULE MCIngestion ----------------------------
(***************************************************************************)
(* TLC instances of Ingestion: two items, the first of which may carry one *)
(* attachment, two of one name or of two, or one more than the cap.        *)
(***************************************************************************)
EXTENDS Ingestion

CONSTANTS a, b, d1, d2, d3, k1, k2, n1, n2

InboxOrder == <<a, b>>

Att(name, doc) == [name |-> name, doc |-> doc]

Messages ==
  {[i \in {a, b} |-> IF i = a THEN first ELSE <<Att(n1, d3)>>] :
     first \in {<<Att(n1, d1)>>,
                <<Att(n1, d1), Att(n1, d2)>>,
                <<Att(n1, d1), Att(n2, d2), Att(n2, d3)>>}}

\* d3 is the invoice both items may hold; of the others one may be flawed, and the
\* one that shares a message with another may be no invoice.
KindsOfDocs ==
  {f \in [{d1, d2, d3} -> {"clean", "flawed", "other"}] :
     /\ f[d3] = "clean"
     /\ f[d1] # "other"
     /\ "clean" \in {f[d1], f[d2]}}

\* One of the other documents is another scan of d1's invoice; the two keys are
\* interchangeable, so d1 has the first.
KeysOfDocs == {f \in [{d1, d2, d3} -> {k1, k2}] : f[d1] = k1 /\ {f[d2], f[d3]} = {k1, k2}}
=============================================================================
