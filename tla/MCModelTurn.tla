----------------------------- MODULE MCModelTurn -----------------------------
(***************************************************************************)
(* A small instance of ModelTurn: a brief that names a user and a provider *)
(* and what follows, a proposal in a thread that asks for a follow-up, an  *)
(* advisory and a fresh start.                                             *)
(***************************************************************************)
EXTENDS ModelTurn, TLC

MCPrompts == {[kind |-> "product_brief",  says |-> {"target", "job"}],
              [kind |-> "scope_proposal", says |-> {"follow_up"}],
              [kind |-> "advisory",       says |-> {"failure"}],
              [kind |-> "fresh_start",    says |-> {"outlook", "starter"}]}

MCDrafts == {{"bulk"}}

Symmetry == Permutations(Threads)
=============================================================================
