---------------------------- MODULE MCLocalStore ----------------------------
(***************************************************************************)
(* The local store in its three views, one per initial state: one session  *)
(* as a file and a row that can be lost and repaired (LocalStore), the     *)
(* entries in that file with what is read from them (SessionTree), and the *)
(* lists of many rows (CatalogPages).                                      *)
(***************************************************************************)
EXTENDS LocalStore

CONSTANTS Domain, TreeFacts, MaxEntries, MaxFailures, SessionIds, Times, Projects, Seeds, Limits, MaxChanges

VARIABLES view, log, pending, projection, row, unsure, failures,
          sessions, registry, query, reader, past, changes

Tree == INSTANCE SessionTree WITH Nothing <- None, Facts <- TreeFacts, Hops <- FALSE

Pages == INSTANCE CatalogPages

Listed(id, created, project) ==
    [id |-> id, created |-> created, updated |-> created, project |-> project, favorited |-> FALSE]
MCSeeds == {{Listed(1, 1, 1), Listed(2, 1, 2), Listed(3, 2, 1)},
            {Listed(1, 2, 1), Listed(2, 1, 1), Listed(3, 1, 2)}, {}}

MCMessage(role, text, turn, tokens, model) ==
  [kind |-> "message", role |-> role, text |-> text, turn |-> turn, tokens |-> tokens, model |-> model]

MCFacts ==
  {MCMessage("user", TRUE, None, 0, None), MCMessage("assistant", FALSE, "t", 1, "m"),
   [kind |-> "result", turn |-> "t", tokens |-> 2], [kind |-> "favorite", on |-> TRUE]}

treeVars == <<log, pending, projection, row, unsure, failures>>
listVars == <<sessions, registry, query, reader, past, changes>>

\* The lists that are not looked at are read from one state.
Unread == query = [list |-> "sessions", project |-> None, favorited |-> None, limit |-> 1] /\ sessions = {}

MCInit == view \in {"file", "tree", "lists"} /\ Init /\ Tree!Init /\ Pages!Init /\ (view # "lists" => Unread)
MCNext ==
  \/ view = "file" /\ Next /\ UNCHANGED <<view, treeVars, listVars>>
  \/ view = "tree" /\ Tree!Next /\ UNCHANGED <<view, vars, listVars>>
  \/ view = "lists" /\ Pages!Next /\ UNCHANGED <<view, vars, treeVars>>
MCSpec == MCInit /\ [][MCNext]_<<view, vars, treeVars, listVars>>

(* The catalog is what repair and the lists rely on (LocalStore!Recoverable *)
(* and LocalStore!CatalogInv: write_projection, repair, delete_session).    *)
RowInv == Recoverable /\ CatalogInv

(* Pages lose and repeat nothing that stays in its place                    *)
(* (CatalogPages!PagesExact: Catalog::list, list_projects, load_more), and  *)
(* the catalog lists what the store in memory does (ListsAgree:             *)
(* refresh_project_in_transaction, rebuild_projects_in_transaction).        *)
ListsInv == view = "lists" => Pages!PagesExact /\ Pages!ListsAgree

(* What is accepted loads at every leaf and only what would not is refused  *)
(* (SessionTree!LogLoads: AppendValidationState, resolve_session); a row    *)
(* that is trusted is the one a rebuild would write (RowExact:              *)
(* SessionProjection, append and flush_handle of the local store); a search *)
(* of it finds what can be read (SearchExact: search_chat_messages,         *)
(* read_chat_message); and the branches shown are those of the log          *)
(* (BranchesExact: session/tree).                                           *)
TreeInv == view = "tree" => Tree!LogLoads /\ Tree!RowExact /\ Tree!SearchExact /\ Tree!BranchesExact

(* An append goes on from the leaf a load resolves                          *)
(* (SessionTree!AppendsExtend: prepare_batch_after).                        *)
AppendsExtend == Tree!AppendsExtend

(* The local store implements the one in memory (SessionTree!ActsAsMemory,  *)
(* the refinement to InMemoryStore).                                        *)
ActsAsMemory == Tree!ActsAsMemory
=============================================================================
