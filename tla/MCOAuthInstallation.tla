------------------------- MODULE MCOAuthInstallation -------------------------
(***************************************************************************)
(* A small instance of OAuthInstallation: two states, a grant with and one *)
(* without the write scope besides a second writable one.                  *)
(***************************************************************************)
EXTENDS OAuthInstallation, TLC

Symmetry == Permutations(Threads) \cup Permutations(States)
=============================================================================
