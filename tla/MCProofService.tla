--------------------------- MODULE MCProofService ---------------------------
(***************************************************************************)
(* A small instance of ProofService: one webhookId, two bodies.            *)
(***************************************************************************)
EXTENDS ProofService, TLC

Symmetry == Permutations(Threads) \cup Permutations(Bodies)
=============================================================================
