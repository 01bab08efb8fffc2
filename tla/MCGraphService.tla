--------------------------- MODULE MCGraphService ---------------------------
(***************************************************************************)
(* TLC instances of GraphService: which requests, runs and invoices are    *)
(* interchangeable.  Creators and runs are only where no property singles  *)
(* one out by name, which none does; liveness runs use no symmetry.        *)
(***************************************************************************)
EXTENDS GraphServiceRefinement, TLC

ReviewSymmetry == Permutations(Invoice) \cup Permutations(Reviewer)

FaultSymmetry == Permutations(Run) \cup Permutations(Creator)
=============================================================================
