-------------------------- MODULE MCProductBriefs --------------------------
(***************************************************************************)
(* A small instance of ProductBriefs: one brief, a Founder who comments on *)
(* two versions, a stranger, and drafts of which one is incomplete.        *)
(***************************************************************************)
EXTENDS ProductBriefs, TLC

CONSTANTS a1, a2, a3, founder, stranger

MCNames  == (a1 :> 1) @@ (a2 :> 2) @@ (a3 :> 1)
MCAuthor == (a1 :> founder) @@ (a2 :> founder) @@ (a3 :> stranger)

\* Threads are interchangeable; so are the complete drafts.
Symmetry == Permutations(Handlers) \cup Permutations(Complete)
=============================================================================
