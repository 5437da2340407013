-------------------------- MODULE ConversationRestore --------------------------
(***************************************************************************)
(* A conversation over several runs of the application: its turns, a crash *)
(* or an exit in between, and the restore that goes on with it             *)
(* (chat/persistence/restore.rs, ChatSessionController::restore).  Here a  *)
(* turn is a begin and a terminal that are tried until they succeed; the   *)
(* workers and the channels in between are TurnPersistence.                *)
(***************************************************************************)
EXTENDS ChatController

CONSTANTS
  Selections,  \* the models there are
  MaxTurns,    \* bound on the turns
  MaxStops     \* bound on crashes and exits

VARIABLES
  saved,       \* the session in its store
  controller,
  talk,        \* the runtime: at, next_turn_id, the turn it is in, the state it is given
  selection,   \* the model the view has selected
  stops,
  refused      \* a begin was refused because its turn id is durable already

vars == <<saved, controller, talk, selection, stops, refused>>

\* at: "closed", "loaded", "idle", "generating"
Talk(at, next) == [at |-> at, next |-> next, turn |-> 0, state |-> <<>>]

Init ==
  /\ saved = EmptyStore /\ controller = FreshController
  /\ talk = Talk("idle", 1) /\ selection \in Selections
  /\ stops = 0 /\ refused = FALSE

Choose(model) ==
  /\ talk.at = "idle" /\ selection' = model
  /\ UNCHANGED <<saved, controller, talk, stops, refused>>

\* begin_turn, with the id the runtime has next; a failed one is sent again.
Begin ==
  /\ talk.at = "idle" /\ talk.next <= MaxTurns
  /\ \E o \in BeginTurn(controller, saved, talk.next, Message("text", selection)) :
       /\ controller' = o.c /\ saved' = o.st
       /\ talk' = IF o.answer = "ok"
                  THEN [talk EXCEPT !.at = "generating", !.turn = talk.next, !.next = @ + 1]
                  ELSE talk
       /\ refused' = (refused \/ o.answer = "used")
  /\ UNCHANGED <<selection, stops>>

Finish ==
  /\ talk.at = "generating"
  /\ \E o \in FinishTurn(controller, saved, talk.turn, "completed") :
       /\ controller' = o.c /\ saved' = o.st
       /\ talk' = IF o.answer = "ok" THEN [talk EXCEPT !.at = "idle", !.turn = 0] ELSE talk
  /\ UNCHANGED <<selection, stops, refused>>

\* What the next start finds: the recorder's queue is gone and repair has listed
\* the source.
Reopened(st) == [st EXCEPT !.queue = <<>>, !.at = IF @ = "hidden" THEN "there" ELSE @]

Stop(st) ==
  /\ stops < MaxStops /\ stops' = stops + 1
  /\ saved' = Reopened(st) /\ controller' = FreshController
  /\ talk' = Talk("closed", 1)
  /\ UNCHANGED <<selection, refused>>

Crash == Stop(saved)

\* An exit drains the store first.
Exit == \E o \in FlushCall(saved) : o.ok /\ Stop(o.st)

\* The workspace reads the session in the background, before it has a view for it.
Load ==
  /\ talk.at = "closed" /\ saved.at = "there"
  /\ \E o \in LoadCall(saved) :
       saved' = o.st /\ talk' = IF o.ok THEN [Talk("loaded", 1) EXCEPT !.state = saved.facts] ELSE talk
  /\ UNCHANGED <<controller, selection, stops, refused>>

\* restore_session, on a runtime that is new; a failure discards the view.
RestoreSession ==
  /\ talk.at = "loaded"
  /\ \E o \in Restore(controller, saved) :
       /\ saved' = o.st
       /\ IF o.answer = "ok"
          THEN /\ controller' = o.c /\ talk' = Talk("idle", NextTurnId(talk.state))
               /\ selection' = o.c.model
          ELSE controller' = FreshController /\ talk' = Talk("closed", 1) /\ UNCHANGED selection
  /\ UNCHANGED <<stops, refused>>

Next ==
  \/ \E model \in Selections : Choose(model)
  \/ Begin \/ Finish \/ Crash \/ Exit \/ Load \/ RestoreSession

Spec == Init /\ [][Next]_vars
--------------------------------------------------------------------------------
(* Properties.                                                              *)
\* The model the log names where a message stands.
NamedAt(i) == ModelOf(SubSeq(saved.facts, 1, i))

\* A conversation goes on where its log stands: the log tells for every message
\* the model it was sent to, a controller that has lived through the turns takes
\* the same model for the session's as one that restores it, and whatever a
\* crash left of the last turn, a restored conversation never asks for a turn id
\* that is used (begin_turn, restore, next_turn_id_for).
GoesOn ==
  /\ \A i \in DOMAIN saved.facts :
       saved.facts[i].kind = "user" => saved.facts[i].val.model = NamedAt(i)
  /\ controller.bound /\ controller.pend = None => controller.model = ModelOf(saved.facts)
  /\ ~ refused
================================================================================
