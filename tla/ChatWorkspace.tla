----------------------------- MODULE ChatWorkspace -----------------------------
(***************************************************************************)
(* The Chat workspace and its history sidebar (shell/app/chat_workspace.rs *)
(* and history_sidebar.rs).  The workspace runs on the application thread; *)
(* reads and writes of the store run in the background, and each answers   *)
(* by a continuation on the application thread.  A task held by a slot is  *)
(* dropped with it: its continuation never runs, and a read or write that  *)
(* a thread has not begun is not made.  Sessions are numbered by creation, *)
(* the order of the catalog, newest first.                                 *)
(***************************************************************************)
EXTENDS ConversationHost, FiniteSets
LOCAL INSTANCE SequencesExt
LOCAL INSTANCE FiniteSetsExt

CONSTANTS
  Sessions,      \* a set of naturals: the sessions there may be
  Created,       \* those on the disk when the window opens
  MaxFavorites,  \* MAX_FAVORITES
  PageSize,      \* the limit of a catalog query
  MaxCommands,   \* bound on what the user does
  MaxFaults      \* bound on store and scope failures

VARIABLES
  disk,      \* the catalog: "none", "plain" or "fav" for every session
  host,      \* the open conversations
  history,   \* the sidebar's snapshot
  epoch,     \* the selection epoch
  restore,   \* _selection_task
  initial,   \* _catalog_initial_task
  page,      \* _catalog_load_more_task
  refresh,   \* _summary_refresh_tasks
  star,      \* _favorite_tasks
  erase,     \* _history_delete_task
  strays,    \* writes of dropped tasks that a thread has begun
  events,    \* what the views of conversations do and report
  attempted, \* startup_restore_attempted
  last,      \* last_active_chat_session of the preferences
  chosen,    \* history: the view or session the user chose last
  made, commands, faults

tasks == <<restore, initial, page, refresh, star, erase, strays>>
bounds == <<commands, faults>>
vars == <<disk, host, history, epoch, tasks, events, attempted, last, chosen, made, bounds>>

-------------------------------------------------------------------------------
(* The catalog and the snapshot of the sidebar.                             *)

Newest(S) == SetToSortSeq(S, >)
Stored(kind) == {s \in Sessions : disk[s] = kind}
Favorites == LET f == Newest(Stored("fav"))
             IN SubSeq(f, 1, IF Len(f) < MaxFavorites THEN Len(f) ELSE MaxFavorites)
\* One page of the timeline below a cursor, and the cursor it leaves.
Below(cursor) == Newest({s \in Stored("plain") : cursor = None \/ s < cursor})
Page(cursor) ==
    LET all == Below(cursor)
    IN IF Len(all) > PageSize
       THEN [rows |-> SubSeq(all, 1, PageSize), next |-> all[PageSize]]
       ELSE [rows |-> all, next |-> None]

EmptyHistory == [favorites |-> <<>>, timeline |-> <<>>, load |-> "unloaded",
                 cursor |-> None, loadingMore |-> FALSE, generation |-> 0]

Listed(h) == ToSet(h.favorites) \cup ToSet(h.timeline)
Without(rows, s) == SelectSeq(rows, LAMBDA r : r # s)
Forgotten(h, s) == [h EXCEPT !.favorites = Without(@, s), !.timeline = Without(@, s)]

\* Where the binary search for the place of s in newest-first rows may end.
Places(rows, s) == {p \in 0 .. Len(rows) : /\ p = 0 \/ rows[p] > s
                                           /\ p = Len(rows) \/ rows[p + 1] <= s}
Inserted(rows, s) == {InsertAt(rows, p + 1, s) : p \in Places(rows, s)}

\* upsert: the row leaves both lists and enters the one of its kind.
Upserted(h, s, kind) ==
    LET g == Forgotten(h, s)
    IN IF kind = "fav" THEN {[g EXCEPT !.favorites = rows] : rows \in Inserted(g.favorites, s)}
       ELSE {[g EXCEPT !.timeline = rows] : rows \in Inserted(g.timeline, s)}

ApplyInitial(h, generation, favorites, timeline) ==
    IF generation # h.generation THEN h
    ELSE [h EXCEPT !.favorites = favorites,
                   !.timeline = SelectSeq(timeline.rows, LAMBDA s : s \notin ToSet(favorites)),
                   !.cursor = timeline.next, !.load = "ready"]

\* Mutant: a page is appended as it was read.
AppendWholePage(h, generation, p) ==
    IF generation # h.generation THEN h
    ELSE [h EXCEPT !.timeline = @ \o p.rows, !.cursor = p.next]

ApplyLoadMore(h, generation, p) ==
    IF generation # h.generation THEN h
    ELSE [h EXCEPT !.timeline = @ \o SelectSeq(p.rows, LAMBDA s : s \notin Listed(h)), !.cursor = p.next]

-------------------------------------------------------------------------------
(* The start of the workspace, and what every step below is made of.        *)

NoTasks == /\ restore = None /\ page = None /\ erase = None /\ strays = {}
           /\ refresh = [s \in Sessions |-> None] /\ star = [s \in Sessions |-> None]

Reading(generation) == [generation |-> generation, stage |-> "favorites", favorites |-> <<>>, timeline |-> None]

\* new starts the first load of the catalog.
Init ==
  /\ disk \in [Sessions -> {"none", "plain", "fav"}]
  /\ \A s \in Sessions : disk[s] # "none" <=> s \in Created
  /\ Cardinality(Stored("fav")) <= MaxFavorites
  /\ host = NoConversations
  /\ history = [EmptyHistory EXCEPT !.load = "loading", !.generation = 1]
  /\ initial = Reading(1) /\ NoTasks
  /\ epoch = 0 /\ events = {} /\ attempted = FALSE
  /\ last \in {None} \cup Created
  /\ chosen = None /\ made = 0 /\ commands = 0 /\ faults = 0

Command == commands < MaxCommands /\ commands' = commands + 1 /\ UNCHANGED faults
Fault == faults < MaxFaults /\ faults' = faults + 1 /\ UNCHANGED commands
Smooth == UNCHANGED bounds

\* A new summary refresh of s takes the place of the one under way.
Refreshed(s) == [refresh EXCEPT ![s] = [stage |-> "asked", found |-> None]]

\* What is left of a write when its task is dropped: a thread may have begun it.
Dropped(task) == IF task = None \/ task.stage # "asked" THEN {strays}
                 ELSE {strays, strays \cup {[session |-> task.session, to |-> task.to]}}

NewView == made + 1

-------------------------------------------------------------------------------
(* Selection: the newest choice wins.                                       *)

\* spawn_draft: the pending selection is given up, then a scope is made or not.
SpawnDraft ==
  /\ Command
  /\ epoch' = epoch + 1 /\ restore' = None
  /\ \/ /\ host' = PushAndActivate(host, Conversation(NewView, None, None))
        /\ made' = NewView /\ chosen' = [view |-> NewView]
     \/ UNCHANGED <<host, made, chosen>>
  /\ UNCHANGED <<disk, history, initial, page, refresh, star, erase, strays, events, attempted, last>>

Selected(v) ==
  /\ epoch' = epoch + 1 /\ restore' = None
  /\ host' = SetActive(host, v)
  /\ chosen' = [view |-> v]

\* Mutant: selecting an open view leaves the pending restore alive.
SelectTargetOnly(v) ==
  /\ Command /\ v \in Views(host)
  /\ host' = SetActive(host, v) /\ chosen' = [view |-> v]
  /\ UNCHANGED <<disk, epoch, history, tasks, events, attempted, last, made>>

SelectTarget(v) ==
  /\ Command /\ v \in Views(host)
  /\ Selected(v)
  /\ UNCHANGED <<disk, history, initial, page, refresh, star, erase, strays, events, attempted, last, made>>

\* select_session: an open view is shown at once, else a restore begins.
Choosing(s) ==
  IF OpenedTarget(host, s) # None THEN Selected(OpenedTarget(host, s))
  ELSE /\ epoch' = epoch + 1 /\ chosen' = [session |-> s]
       /\ restore' = [request |-> epoch + 1, session |-> s, stage |-> "asked"]
       /\ UNCHANGED host

SelectSession(s) ==
  /\ Command /\ s \in Listed(history)
  /\ Choosing(s)
  /\ UNCHANGED <<disk, history, initial, page, refresh, star, erase, strays, events, attempted, last, made>>

\* The background part of a restore; a session it does not find ends it.
RestoreReads ==
  /\ restore # None /\ restore.stage = "asked"
  /\ IF disk[restore.session] = "none" THEN restore' = None /\ Smooth
     ELSE \/ restore' = [restore EXCEPT !.stage = "read"] /\ Smooth
          \/ restore' = None /\ Fault
  /\ UNCHANGED <<disk, host, history, epoch, initial, page, refresh, star, erase, strays, events, attempted, last, chosen, made>>

\* apply_session_restore.  The scope or the restore of the transcript may fail.
ApplyRestore ==
  /\ restore # None /\ restore.stage = "read"
  /\ restore' = None
  /\ \/ restore.request # epoch /\ Smooth /\ UNCHANGED <<host, made, last>>
     \/ /\ restore.request = epoch /\ Smooth
        /\ IF OpenedTarget(host, restore.session) # None
           THEN host' = SetActive(host, OpenedTarget(host, restore.session)) /\ UNCHANGED made
           ELSE /\ host' = PushAndActivate(host, Conversation(NewView, restore.session, None))
                /\ made' = NewView
        /\ last' = restore.session
     \/ /\ restore.request = epoch /\ OpenedTarget(host, restore.session) = None /\ Fault
        /\ UNCHANGED <<host, made, last>>
  /\ UNCHANGED <<disk, history, epoch, initial, page, refresh, star, erase, strays, events, attempted, chosen>>

-------------------------------------------------------------------------------
(* Loads of the catalog.                                                    *)

\* start_catalog_initial_load, again after an error.
StartInitialLoad ==
  /\ Command /\ history.load = "error"
  /\ history' = [history EXCEPT !.generation = @ + 1, !.load = "loading"]
  /\ initial' = Reading(history.generation + 1)
  /\ UNCHANGED <<disk, host, epoch, restore, page, refresh, star, erase, strays, events, attempted, last, chosen, made>>

\* The two queries of an initial load, one after the other.
InitialReads ==
  /\ initial # None
  /\ \/ /\ initial.stage = "favorites" /\ Smooth
        /\ initial' = [initial EXCEPT !.stage = "timeline", !.favorites = Favorites]
     \/ /\ initial.stage = "timeline" /\ Smooth
        /\ initial' = [initial EXCEPT !.stage = "read", !.timeline = Page(None)]
     \/ /\ initial.stage \in {"favorites", "timeline"} /\ Fault
        /\ initial' = [initial EXCEPT !.stage = "failed"]
  /\ UNCHANGED <<disk, host, history, epoch, restore, page, refresh, star, erase, strays, events, attempted, last, chosen, made>>

\* The last active session is opened once, after the first page that loads.
RestoreLast(h) ==
  IF h.load = "ready" /\ ~attempted
  THEN /\ attempted' = TRUE
       /\ IF last # None /\ last \in Listed(h) THEN Choosing(last)
          ELSE UNCHANGED <<host, epoch, restore, chosen>>
  ELSE UNCHANGED <<attempted, host, epoch, restore, chosen>>

\* apply_catalog_initial.
InitialApplied ==
  /\ initial # None /\ initial.stage \in {"read", "failed"}
  /\ initial' = None
  /\ history' = IF initial.stage = "read"
                THEN ApplyInitial(history, initial.generation, initial.favorites, initial.timeline)
                ELSE IF initial.generation = history.generation THEN [history EXCEPT !.load = "error"]
                ELSE history
  /\ RestoreLast(history')
  /\ Smooth
  /\ UNCHANGED <<disk, page, refresh, star, erase, strays, events, last, made>>

StartLoadMore ==
  /\ Command /\ ~history.loadingMore /\ history.cursor # None
  /\ history' = [history EXCEPT !.loadingMore = TRUE]
  /\ page' = [generation |-> history.generation, stage |-> "asked", cursor |-> history.cursor]
  /\ UNCHANGED <<disk, host, epoch, restore, initial, refresh, star, erase, strays, events, attempted, last, chosen, made>>

LoadMoreReads ==
  /\ page # None /\ page.stage = "asked"
  /\ \/ page' = [generation |-> page.generation, stage |-> "read", read |-> Page(page.cursor)] /\ Smooth
     \/ page' = [page EXCEPT !.stage = "failed"] /\ Fault
  /\ UNCHANGED <<disk, host, history, epoch, restore, initial, refresh, star, erase, strays, events, attempted, last, chosen, made>>

\* Mutant: a page that failed leaves its flag.
LoadMoreAppliedFlagged ==
  /\ page # None /\ page.stage \in {"read", "failed"}
  /\ page' = None
  /\ history' = IF page.stage = "failed" THEN history
                ELSE [ApplyLoadMore(history, page.generation, page.read) EXCEPT !.loadingMore = FALSE]
  /\ Smooth
  /\ UNCHANGED <<disk, host, epoch, restore, initial, refresh, star, erase, strays, events, attempted, last, chosen, made>>

LoadMoreApplied ==
  /\ page # None /\ page.stage \in {"read", "failed"}
  /\ page' = None
  /\ history' = [(IF page.stage = "read" THEN ApplyLoadMore(history, page.generation, page.read) ELSE history)
                 EXCEPT !.loadingMore = FALSE]
  /\ Smooth
  /\ UNCHANGED <<disk, host, epoch, restore, initial, refresh, star, erase, strays, events, attempted, last, chosen, made>>

\* refresh_history_summary reads one row, and a row that was read is listed.
RefreshReads(s) ==
  /\ refresh[s] # None /\ refresh[s].stage = "asked"
  /\ \/ refresh' = [refresh EXCEPT ![s] = [stage |-> "read", found |-> disk[s]]] /\ Smooth
     \/ refresh' = [refresh EXCEPT ![s] = [stage |-> "read", found |-> "none"]] /\ Fault
  /\ UNCHANGED <<disk, host, history, epoch, restore, initial, page, star, erase, strays, events, attempted, last, chosen, made>>

RefreshApplied(s) ==
  /\ refresh[s] # None /\ refresh[s].stage = "read"
  /\ refresh' = [refresh EXCEPT ![s] = None]
  /\ IF refresh[s].found = "none" THEN UNCHANGED history
     ELSE history' \in Upserted(history, s, refresh[s].found)
  /\ Smooth
  /\ UNCHANGED <<disk, host, epoch, restore, initial, page, star, erase, strays, events, attempted, last, chosen, made>>

-------------------------------------------------------------------------------
(* Favorites: shown at once, written in the background, then read again.    *)

Kind(h, s) == IF s \in ToSet(h.favorites) THEN "fav" ELSE "plain"

ToggleFavorite(s) ==
  /\ Command /\ s \in Listed(history)
  /\ LET to == IF Kind(history, s) = "fav" THEN "plain" ELSE "fav"
     IN IF to = "fav" /\ Len(history.favorites) >= MaxFavorites
        THEN UNCHANGED <<history, star, strays>>
        ELSE /\ history' \in Upserted(history, s, to)
             /\ star' = [star EXCEPT ![s] = [session |-> s, to |-> to, stage |-> "asked"]]
             /\ strays' \in Dropped(star[s])
  /\ UNCHANGED <<disk, host, epoch, restore, initial, page, refresh, erase, events, attempted, last, chosen, made>>

\* A change of a session that is gone is refused.
Written(s, to) == disk' = IF disk[s] = "none" THEN disk ELSE [disk EXCEPT ![s] = to]

StarWrites(s) ==
  /\ star[s] # None /\ star[s].stage = "asked"
  /\ star' = [star EXCEPT ![s].stage = "done"]
  /\ \/ Written(s, star[s].to) /\ Smooth
     \/ UNCHANGED disk /\ Fault
  /\ UNCHANGED <<host, history, epoch, restore, initial, page, refresh, erase, strays, events, attempted, last, chosen, made>>

StarApplied(s) ==
  /\ star[s] # None /\ star[s].stage = "done"
  /\ star' = [star EXCEPT ![s] = None]
  /\ refresh' = Refreshed(s)
  /\ Smooth
  /\ UNCHANGED <<disk, host, history, epoch, restore, initial, page, erase, strays, events, attempted, last, chosen, made>>

-------------------------------------------------------------------------------
(* Deletion: of a session without a view by the workspace, of an open one   *)
(* by its view.                                                             *)

\* delete_unopened_session: one slot holds the deletion under way.
DeleteUnopened(s) ==
  /\ Command /\ s \in Listed(history) /\ OpenedTarget(host, s) = None
  /\ erase' = [session |-> s, to |-> "none", stage |-> "asked"]
  /\ strays' \in Dropped(erase)
  /\ UNCHANGED <<disk, host, history, epoch, restore, initial, page, refresh, star, events, attempted, last, chosen, made>>

EraseWrites ==
  /\ erase # None /\ erase.stage = "asked"
  /\ \/ Written(erase.session, "none") /\ erase' = [erase EXCEPT !.stage = "done"] /\ Smooth
     \/ UNCHANGED disk /\ erase' = [erase EXCEPT !.stage = "failed"] /\ Fault
  /\ UNCHANGED <<host, history, epoch, restore, initial, page, refresh, star, strays, events, attempted, last, chosen, made>>

EraseApplied ==
  /\ erase # None /\ erase.stage \in {"done", "failed"}
  /\ erase' = None
  /\ history' = IF erase.stage = "done" THEN Forgotten(history, erase.session) ELSE history
  /\ Smooth
  /\ UNCHANGED <<disk, host, epoch, restore, initial, page, refresh, star, strays, events, attempted, last, chosen, made>>

\* A thread finishes the write of a task that was dropped.
StrayWrites ==
  /\ \E w \in strays : Written(w.session, w.to) /\ strays' = strays \ {w}
  /\ Smooth
  /\ UNCHANGED <<host, history, epoch, restore, initial, page, refresh, star, erase, events, attempted, last, chosen, made>>

\* remove_conversation, with the neighbor of an active view.
Removed(v) ==
  /\ host' = LET h == RemoveView(host, v)
             IN IF host.active = v THEN SelectNeighbor(h, Place(host, v)) ELSE h
  /\ IF host.active = v THEN epoch' = epoch + 1 /\ restore' = None ELSE UNCHANGED <<epoch, restore>>
  /\ history' = Forgotten(history, SessionOf(host, v))

Event(kind, v, s) == [kind |-> kind, view |-> v, session |-> s]
Busy(v) == \E e \in events : e.view = v

\* delete_conversation: a draft goes at once, a session when its view is done.
DeleteConversation(v) ==
  /\ Command /\ v \in Views(host)
  /\ IF SessionOf(host, v) = None /\ ~Busy(v) THEN Removed(v) /\ UNCHANGED events
     ELSE /\ events' = events \cup {Event("delete", v, SessionOf(host, v))}
          /\ UNCHANGED <<host, epoch, restore, history>>
  /\ UNCHANGED <<disk, initial, page, refresh, star, erase, strays, attempted, last, chosen, made>>

\* External: the first turn of a draft is begun, and its session is durable
\* before its view is told.
BeginCommits(v) ==
  /\ Command /\ v \in Views(host) /\ SessionOf(host, v) = None /\ ~Busy(v)
  /\ Sessions \ Created # {} /\ \E s \in Sessions \ Created :
       /\ disk[s] = "none" /\ ~\E e \in events : e.session = s
       /\ \A c \in DOMAIN host.list : host.list[c].session # s
       /\ disk' = [disk EXCEPT ![s] = "plain"]
       /\ events' = events \cup {Event("bound", v, s)}
  /\ UNCHANGED <<host, history, epoch, tasks, attempted, last, chosen, made>>

\* External: the worker of a view deletes its session, or fails to.
DeleteCommits(v) ==
  /\ \E e \in events :
       /\ e.kind = "delete" /\ e.view = v /\ v \in Views(host) /\ SessionOf(host, v) # None
       /\ \/ /\ disk' = [disk EXCEPT ![SessionOf(host, v)] = "none"] /\ Smooth
             /\ events' = (events \ {e}) \cup {Event("deleted", v, SessionOf(host, v))}
          \/ UNCHANGED disk /\ events' = events \ {e} /\ Fault
  /\ UNCHANGED <<host, history, epoch, tasks, attempted, last, chosen, made>>

\* SessionBound: the draft is in the index, its row and the preference follow.
SessionBound(e) ==
  /\ e.kind = "bound"
  /\ events' = events \ {e}
  /\ IF Binds(host, e.view, e.session)
     THEN /\ host' = BindSession(host, e.view, e.session)
          /\ refresh' = Refreshed(e.session)
          /\ last' = e.session
     ELSE UNCHANGED <<host, refresh, last>>
  /\ UNCHANGED <<history, epoch, restore>>

\* DeleteCompleted: the conversation is removed.
DeleteCompleted(e) ==
  /\ e.kind = "deleted"
  /\ events' = events \ {e}
  /\ IF e.view \in Views(host) THEN Removed(e.view) ELSE UNCHANGED <<host, epoch, restore, history>>
  /\ UNCHANGED <<refresh, last>>

ViewReports ==
  /\ \E e \in events : SessionBound(e) \/ DeleteCompleted(e)
  /\ Smooth
  /\ UNCHANGED <<disk, initial, page, star, erase, strays, attempted, chosen, made>>

-------------------------------------------------------------------------------
Next ==
  \/ SpawnDraft
  \/ \E v \in 1 .. made : SelectTarget(v) \/ DeleteConversation(v) \/ BeginCommits(v) \/ DeleteCommits(v)
  \/ \E s \in Sessions :
       \/ SelectSession(s) \/ ToggleFavorite(s) \/ DeleteUnopened(s)
       \/ RefreshReads(s) \/ RefreshApplied(s) \/ StarWrites(s) \/ StarApplied(s)
  \/ RestoreReads \/ ApplyRestore \/ StartInitialLoad \/ InitialReads \/ InitialApplied
  \/ StartLoadMore \/ LoadMoreReads \/ LoadMoreApplied
  \/ EraseWrites \/ EraseApplied \/ StrayWrites \/ ViewReports

\* The background executor makes its reads, and the application thread runs
\* its continuations.
Fairness ==
  /\ WF_vars(InitialReads) /\ WF_vars(InitialApplied)
  /\ WF_vars(LoadMoreReads) /\ WF_vars(LoadMoreApplied)
  /\ WF_vars(RestoreReads) /\ WF_vars(ApplyRestore)

Spec == Init /\ [][Next]_vars /\ Fairness
-------------------------------------------------------------------------------
\* The types of the state.
TypeOK ==
  /\ disk \in [Sessions -> {"none", "plain", "fav"}]
  /\ HostOK(host)
  /\ history.load \in {"loading", "ready", "error"}
  /\ restore # None => restore.session \in Sessions /\ restore.request <= epoch
  /\ history.loadingMore <=> page # None

\* A row of the sidebar is listed once, whatever pages and refreshes were
\* applied in between.
ListedOnce ==
  /\ IsInjective(history.favorites) /\ IsInjective(history.timeline)
  /\ ToSet(history.favorites) \cap ToSet(history.timeline) = {}

\* The newest choice wins: what becomes active is what the user chose last, or
\* the neighbor of a view that was removed.
NewestChoiceWins ==
  [][host'.active # host.active =>
       \/ host.active \notin Views(host') \cup {None}
       \/ host'.active # None /\ chosen' \in {[view |-> host'.active], [session |-> SessionOf(host', host'.active)]}]_vars

\* Loads end: the sidebar does not wait for ever, nor does a restore.
LoadsEnd ==
  /\ history.load = "loading" ~> history.load # "loading"
  /\ history.loadingMore ~> ~history.loadingMore
  /\ restore # None ~> restore = None
===============================================================================
