---------------------------- MODULE MCCommandTurn ----------------------------
(***************************************************************************)
(* A small instance of CommandTurn: a session that was started on nothing, *)
(* with and without a description, on Linear's starter comment or on a     *)
(* person's comment.                                                       *)
(***************************************************************************)
EXTENDS CommandTurn

CONSTANT founder

MCEntries == {[text |-> {"stop", "approval"}, author |-> founder],
              [text |-> {"brief", "fresh"}, author |-> Unknown],
              [text |-> {"boilerplate"}, author |-> founder]}

Starter == [text |-> {"starter"}, author |-> Unknown]
Request == [text |-> {"brief"}, author |-> founder]

MCSessions == {[comment |-> NoRoot,  description |-> NoText],
               [comment |-> NoRoot,  description |-> {"discovery"}],
               [comment |-> Starter, description |-> NoText],
               [comment |-> Request, description |-> NoText]}
=============================================================================
