------------------------------ MODULE MCShell ---------------------------------
(***************************************************************************)
(* What the foreground thread keeps, one part per initial state: the Chat  *)
(* workspace with its history, the Project workspace with its catalog, the *)
(* settings page with the model picker and the conversations that follow   *)
(* it.                                                                     *)
(***************************************************************************)
EXTENDS ChatWorkspace

CONSTANTS Projects, Known, Origin, Kept,
          Blank, Urls, Documents, Logged, Texts, Chats, MaxModels

VARIABLES part, files, folders, catalog, agents, turn, loadState, opening, listing,
          lists, removal, remains, deleting, news, shown, acts, errors,
          doc, providersPage, views, active, picker, fresh, picks

Agent == INSTANCE ProjectWorkspace WITH
  disk <- files, host <- agents, epoch <- turn, erase <- removal, strays <- remains,
  events <- news, made <- shown, commands <- acts, faults <- errors

Catalog == INSTANCE ProviderCatalog
Settings == INSTANCE ModelSettings WITH page <- providersPage, commands <- picks

\* Whose session each is.
MCOrigin == <<1, 1, 2, 1>>

agentVars == <<files, folders, catalog, agents, turn, loadState, opening, listing,
               lists, removal, remains, deleting, news, shown, acts, errors>>

settingsVars == <<doc, providersPage, views, active, picker, fresh, picks>>

\* Two good profiles, one whose models share their id, one that is there twice.
Good == Catalog!Profile(5, "u", "u", <<Catalog!Model(1, "a", "a"), Catalog!Model(2, "b", Blank)>>)
Other == Catalog!Profile(6, "u", "u", <<Catalog!Model(3, "a", Blank)>>)
Torn == Catalog!Profile(7, "u", "u", <<Catalog!Model(1, "a", Blank), Catalog!Model(2, "a", "b")>>)
MCDocuments ==
  {Catalog!EmptyDocument, Catalog!Document(<<Good, Other>>, Catalog!Selection(5, 2)),
   Catalog!Document(<<Torn>>, Catalog!Selection(7, 1)), Catalog!Document(<<Other, Other>>, None)}
MCLogged == {Catalog!Selection(6, 3)}

\* The workspace that is not looked at in a behaviour rests.
Resting ==
  /\ disk = [s \in Sessions |-> "none"] /\ host = NoConversations /\ history = [EmptyHistory EXCEPT !.load = "ready"]
  /\ initial = None /\ NoTasks /\ epoch = 0 /\ events = {} /\ attempted = TRUE /\ last = None
  /\ chosen = None /\ made = 0 /\ commands = 0 /\ faults = 0

\* The session that was active last, and the favorite, are not the oldest one.
ChatStarts == Init /\ last \in {None, 2} /\ disk[1] # "fav"

MCInit ==
  /\ Agent!Init /\ Settings!Init
  /\ part \in {"chat", "project", "settings"}
  /\ IF part = "chat" THEN ChatStarts ELSE Resting
  /\ part # "settings" => doc = Catalog!EmptyDocument
MCNext ==
  \/ part = "chat" /\ Next /\ UNCHANGED <<part, agentVars, settingsVars>>
  \/ part = "project" /\ Agent!Next /\ UNCHANGED <<part, vars, settingsVars>>
  \/ part = "settings" /\ Settings!Next /\ UNCHANGED <<part, vars, agentVars>>
MCSpec == MCInit /\ [][MCNext]_<<part, vars, agentVars, settingsVars>> /\ Fairness /\ Agent!Fairness

(* The lists and the panes agree with what is open: ConversationHost!HostOK *)
(* and ListedOnce for the history, DraftShown and RowsDistinct for the      *)
(* projects, through pages, refreshes and deletions in any order.           *)
ShellInv ==
  /\ TypeOK /\ ListedOnce
  /\ Agent!TypeOK /\ Agent!DraftShown /\ Agent!RowsDistinct

(* A restore that the user has moved on from never takes the pane:          *)
(* NewestChoiceWins and ProjectWorkspace!ActiveFollowsOpen, for             *)
(* SelectionEpoch and selection_request_is_current.                         *)
ChoiceWins == NewestChoiceWins /\ Agent!ActiveFollowsOpen

(* The picker, the conversations and the page of the settings window agree  *)
(* with the catalog (ModelSettings!SettingsInv: the observers of            *)
(* ProviderCatalog, remove_profile_from_document, remove_model).            *)
SettingsInv == Settings!SettingsInv

(* The page never makes two models of a profile the same                    *)
(* (ModelSettings!NoNewDuplicates: model_value_is_available).               *)
NoNewDuplicates == Settings!NoNewDuplicates

(* What loads ends, with rows or an error: LoadsEnd and                     *)
(* ProjectWorkspace!LoadsEnd, whatever replaced or failed in between.       *)
ShellLoadsEnd == LoadsEnd /\ Agent!LoadsEnd
===============================================================================
