------------------------- MODULE MCDecisionPackages -------------------------
(***************************************************************************)
(* A small instance of DecisionPackages: the Founder approves version 1 by *)
(* two events and version 2 by one, the product agent tries version 1.     *)
(***************************************************************************)
EXTENDS DecisionPackages, TLC

CONSTANTS a1, a2, a3, a4, founder

MCNames  == (a1 :> 1) @@ (a2 :> 1) @@ (a3 :> 2) @@ (a4 :> 1)
MCAuthor == (a1 :> founder) @@ (a2 :> founder) @@ (a3 :> founder) @@ (a4 :> Agent)
=============================================================================
