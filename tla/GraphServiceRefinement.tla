----------------------- MODULE GraphServiceRefinement -----------------------
(* GraphService implements RunContract. *)
EXTENDS GraphService

Contract == INSTANCE RunContract WITH
  status <- [t \in Run |-> Status(t)],
  saved  <- [t \in Run |-> db[t].invoice],
  rows   <- [t \in Run |-> Len(ledger[t])]

\* Every behaviour of the service, seen through its statuses and its tables, is a
\* behaviour of the contract.
ImplementsContract == Contract!Spec
=============================================================================
