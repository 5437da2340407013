------------------------------- MODULE MCTurns ---------------------------------
(***************************************************************************)
(* The turns of a conversation in two parts, one per initial state: within *)
(* one run of the application, with all its tasks (TurnPersistence), and   *)
(* over several runs, one turn after the other (ConversationRestore).      *)
(***************************************************************************)
EXTENDS TurnPersistence

CONSTANTS Selections, MaxTurns, MaxStops

\* What the controller of either part may wait for.
Pendings ==
  [turn : (1 .. MaxSubmits) \cup (1 .. MaxTurns),
   msg : [text : Texts \cup {"text"}, model : Models \cup Selections],
   created : BOOLEAN, changed : BOOLEAN, user : BOOLEAN,
   term : Outcomes \cup {"completed", None}]

ASSUME RestoreAssumption ==
  /\ MaxTurns \in Nat
  /\ None \notin Models \cup Selections \cup {"completed"}
  /\ \A p \in Pendings : p # None

VARIABLES part, saved, controller, talk, selection, stops, refused

Restored == INSTANCE ConversationRestore

restoreVars == <<saved, controller, talk, selection, stops, refused>>

MCInit ==
  /\ part \in {"turns", "restore"} /\ Init /\ Restored!Init
  /\ part = "turns" => selection = CHOOSE model \in Selections : TRUE

MCNext ==
  \/ part = "turns" /\ Next /\ UNCHANGED <<part, restoreVars>>
  \/ part = "restore" /\ Restored!Next /\ UNCHANGED <<part, vars>>

MCSpec == MCInit /\ [][MCNext]_<<part, vars, restoreVars>> /\ Fairness

(* A turn is begun once and ended once, and a conversation goes on where    *)
(* its log stands (TurnPersistence!TurnInv for begin_turn, finish_turn and  *)
(* their retries, ConversationRestore!GoesOn for restore).                  *)
TurnsHold == TurnInv /\ (part = "restore" => Restored!GoesOn)
================================================================================
