---------------------------- MODULE MCLeafMarker ----------------------------
(***************************************************************************)
(* The session tree with callers that make a marker the leaf, which the    *)
(* interface of the store accepts.                                         *)
(***************************************************************************)
EXTENDS SessionTree

MCFacts ==
  {[kind |-> "message", role |-> "user", text |-> TRUE, turn |-> Nothing, tokens |-> 0, model |-> Nothing]}
=============================================================================
