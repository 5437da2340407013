---------------------------- MODULE ProjectWorkspace ----------------------------
(***************************************************************************)
(* The Project workspace and its catalog (shell/app/project_workspace.rs   *)
(* and agent_workspace.rs): projects with their lists of sessions, what is *)
(* open in the main pane, and the deletion of sessions and of whole        *)
(* projects.  Tasks are as in ChatWorkspace.  Sessions and projects are    *)
(* numbered, and listed with the greatest number first.                    *)
(***************************************************************************)
EXTENDS ConversationHost, FiniteSets
LOCAL INSTANCE SequencesExt

CONSTANTS
  Projects,      \* a set of naturals: project ids, a new one for a new folder
  Known,         \* those in the preferences when the window opens
  Sessions,      \* a set of naturals
  Origin,        \* Sessions -> Projects: whose session each is or would be
  Kept,        \* the sessions on the disk when the window opens
  PageSize,      \* the limit of a catalog query
  MaxCommands,   \* bound on what the user does
  MaxFaults      \* bound on store and scope failures

VARIABLES
  disk,      \* the sessions in the catalog of the store
  folders,   \* agent_projects of the preferences
  catalog,   \* the AgentWorkspace
  host,      \* the open conversations
  epoch,     \* the selection epoch
  loadState, \* session_load_state
  opening,   \* _open_task
  listing,   \* _projects_task
  lists,     \* _session_list_tasks
  erase,     \* _delete_task
  strays,    \* deletions of dropped tasks that a thread has begun
  deleting,  \* deleting_projects
  events,    \* what the views of conversations do and report
  made, commands, faults

tasks == <<opening, listing, lists, erase, strays>>
bounds == <<commands, faults>>
vars == <<disk, folders, catalog, host, epoch, loadState, tasks, deleting, events, made, bounds>>

-------------------------------------------------------------------------------
(* Pages of the store, and the snapshot of the catalog.                     *)

Newest(S) == SetToSortSeq(S, >)
PageOf(S, cursor) ==
    LET all == Newest({x \in S : cursor = None \/ x < cursor})
    IN IF Len(all) > PageSize THEN [rows |-> SubSeq(all, 1, PageSize), next |-> all[PageSize]]
       ELSE [rows |-> all, next |-> None]
SessionsOf(p) == {s \in disk : Origin[s] = p}
StoredProjects == {Origin[s] : s \in disk}

NewList == [rows |-> <<>>, load |-> "unloaded", cursor |-> None, more |-> FALSE, generation |-> 0]
EmptyCatalog == [projects |-> NewList, expanded |-> {}, lists |-> [p \in Projects |-> None], open |-> None]

\* apply_projects_initial and apply_sessions_initial; a list that is gone or
\* of another generation keeps what it has.
Initially(list, generation, page) ==
    IF list = None THEN list ELSE IF list.generation # generation THEN list
    ELSE [list EXCEPT !.rows = page.rows, !.cursor = page.next, !.load = "ready"]
Extended(list, generation, page) ==
    IF list = None THEN list ELSE IF list.generation # generation THEN list
    ELSE [list EXCEPT !.rows = @ \o SelectSeq(page.rows, LAMBDA x : x \notin ToSet(list.rows)),
                      !.cursor = page.next]
Failing(list, generation) ==
    IF list = None THEN list ELSE IF list.generation # generation THEN list
    ELSE [list EXCEPT !.load = "error"]
NoMore(list) == IF list = None THEN list ELSE [list EXCEPT !.more = FALSE]
Lacking(list, x) == IF list = None THEN list ELSE [list EXCEPT !.rows = SelectSeq(@, LAMBDA r : r # x)]

NeedsLoad(list) == list = None \/ list.load \in {"unloaded", "error"}
Started(list) == [(IF list = None THEN NewList ELSE list) EXCEPT !.generation = @ + 1, !.load = "loading"]

Draft(p) == [project |-> p, session |-> None]
Session(p, s) == [project |-> p, session |-> s]
OpenProject(c) == IF c.open = None THEN None ELSE c.open.project

\* remove_session, discard_draft and remove_project of the catalog.
RemoveSession(c, p, s) ==
    [c EXCEPT !.lists[p] = Lacking(@, s), !.open = IF @ = Session(p, s) THEN None ELSE @]
DiscardDraft(c, p) == [c EXCEPT !.open = IF @ = Draft(p) THEN None ELSE @]
RemoveProject(c, p) ==
    [c EXCEPT !.projects = Lacking(@, p), !.lists[p] = None, !.expanded = @ \ {p},
              !.open = IF OpenProject(c) = p THEN None ELSE @]

\* merge_persisted_projects: what the sidebar shows.
Shown == ToSet(catalog.projects.rows) \cup folders

-------------------------------------------------------------------------------
Init ==
  /\ disk = Kept /\ folders = Known
  /\ catalog = EmptyCatalog /\ host = NoConversations
  /\ epoch = 0 /\ loadState = "unloaded"
  /\ opening = None /\ listing = None /\ lists = [p \in Projects |-> None]
  /\ erase = None /\ strays = {} /\ deleting = {} /\ events = {}
  /\ made = 0 /\ commands = 0 /\ faults = 0

Command == commands < MaxCommands /\ commands' = commands + 1 /\ UNCHANGED faults
Fault == faults < MaxFaults /\ faults' = faults + 1 /\ UNCHANGED commands
Smooth == UNCHANGED bounds

Task(list) == [stage |-> "asked", generation |-> list.generation, cursor |-> None]
MoreTask(list) == [Task(list) EXCEPT !.cursor = list.cursor]

\* start_agent_sessions_load, in the catalog c that the caller leaves.
StartSessionsLoad(c, p) ==
  IF ~NeedsLoad(c.lists[p]) THEN catalog' = c /\ UNCHANGED lists
  ELSE LET list == Started(c.lists[p])
       IN catalog' = [c EXCEPT !.lists[p] = list] /\ lists' = [lists EXCEPT ![p] = Task(list)]

Expand(c, p) == [c EXCEPT !.expanded = @ \cup {p}]
NewDraft(c, p) == [Expand(c, p) EXCEPT !.open = Draft(p)]

-------------------------------------------------------------------------------
(* Loads: the projects, and the sessions of a project.                      *)

\* start_agent_projects_load, on entering the workspace and after an error.
StartProjectsLoad ==
  /\ Command /\ NeedsLoad(catalog.projects)
  /\ LET list == Started(catalog.projects)
     IN catalog' = [catalog EXCEPT !.projects = list] /\ listing' = Task(list)
  /\ UNCHANGED <<disk, folders, host, epoch, loadState, opening, lists, erase, strays, deleting, events, made>>

StartProjectsLoadMore ==
  /\ Command /\ ~catalog.projects.more /\ catalog.projects.cursor # None
  /\ catalog' = [catalog EXCEPT !.projects.more = TRUE]
  /\ listing' = MoreTask(catalog.projects)
  /\ UNCHANGED <<disk, folders, host, epoch, loadState, opening, lists, erase, strays, deleting, events, made>>

StartSessionsLoadMore(p) ==
  /\ Command
  /\ catalog.lists[p] # None
  /\ ~catalog.lists[p].more /\ catalog.lists[p].cursor # None
  /\ catalog' = [catalog EXCEPT !.lists[p].more = TRUE]
  /\ lists' = [lists EXCEPT ![p] = MoreTask(catalog.lists[p])]
  /\ UNCHANGED <<disk, folders, host, epoch, loadState, opening, listing, erase, strays, deleting, events, made>>

\* A background query: the task has its page, or failed.
Answers(task, S) == [stage |-> "read", generation |-> task.generation, cursor |-> task.cursor, page |-> PageOf(S, task.cursor)]
Reads ==
  /\ \/ /\ listing # None /\ listing.stage = "asked" /\ UNCHANGED lists
        /\ \/ listing' = Answers(listing, StoredProjects) /\ Smooth
           \/ listing' = [listing EXCEPT !.stage = "failed"] /\ Fault
     \/ \E p \in Projects :
          /\ lists[p] # None /\ lists[p].stage = "asked" /\ UNCHANGED listing
          /\ \/ lists' = [lists EXCEPT ![p] = Answers(@, SessionsOf(p))] /\ Smooth
             \/ lists' = [lists EXCEPT ![p].stage = "failed"] /\ Fault
  /\ UNCHANGED <<disk, folders, catalog, host, epoch, loadState, opening, erase, strays, deleting, events, made>>

\* Mutant: a page that failed leaves its flag.
AppliedFlagged(list, task) ==
  IF task.cursor = None
  THEN IF task.stage = "read" THEN Initially(list, task.generation, task.page) ELSE Failing(list, task.generation)
  ELSE IF task.stage = "read" THEN NoMore(Extended(list, task.generation, task.page)) ELSE list

\* The four apply functions: a first page replaces the rows, a later page
\* extends them, and only a failed first page marks an error.
Applied(list, task) ==
  IF task.cursor = None
  THEN IF task.stage = "read" THEN Initially(list, task.generation, task.page) ELSE Failing(list, task.generation)
  ELSE NoMore(IF task.stage = "read" THEN Extended(list, task.generation, task.page) ELSE list)

ProjectsApplied ==
  /\ listing # None /\ listing.stage # "asked"
  /\ catalog' = [catalog EXCEPT !.projects = Applied(@, listing)]
  /\ listing' = None
  /\ Smooth
  /\ UNCHANGED <<disk, folders, host, epoch, loadState, opening, lists, erase, strays, deleting, events, made>>

SessionsApplied(p) ==
  /\ lists[p] # None /\ lists[p].stage # "asked"
  /\ catalog' = [catalog EXCEPT !.lists[p] = Applied(@, lists[p])]
  /\ lists' = [lists EXCEPT ![p] = None]
  /\ Smooth
  /\ UNCHANGED <<disk, folders, host, epoch, loadState, opening, listing, erase, strays, deleting, events, made>>

\* toggle_project: an expanded project without its list loads it.
ToggleProject(p) ==
  /\ Command /\ p \in Shown
  /\ IF p \in catalog.expanded THEN catalog' = [catalog EXCEPT !.expanded = @ \ {p}] /\ UNCHANGED lists
     ELSE StartSessionsLoad(Expand(catalog, p), p)
  /\ UNCHANGED <<disk, folders, host, epoch, loadState, opening, listing, erase, strays, deleting, events, made>>

\* register_project: a folder that is known is expanded, another gets a new id.
RegisterProject(p) ==
  /\ Command
  /\ p \in Shown \/ (p \notin Known /\ \A q \in Projects : q < p => q \in Known)
  /\ folders' = IF p \in Shown THEN folders ELSE folders \cup {p}
  /\ StartSessionsLoad(Expand(catalog, p), p)
  /\ UNCHANGED <<disk, host, epoch, loadState, opening, listing, erase, strays, deleting, events, made>>

-------------------------------------------------------------------------------
(* Opening a draft or a session.                                            *)

DraftsOf(p) == {v \in Views(host) : ConversationOf(host, v).project = p /\ SessionOf(host, v) = None}

\* invalidate_selection_request.
Invalidated == epoch' = epoch + 1 /\ opening' = None /\ loadState' = "unloaded"

OpenDraft(p) ==
  /\ p \in Shown
  /\ \/ /\ DraftsOf(p) # {} /\ Command
        /\ Invalidated
        /\ catalog' = NewDraft(catalog, p)
        /\ \E v \in DraftsOf(p) : host' = SetActive(host, v)
        /\ UNCHANGED <<lists, made>>
     \/ /\ DraftsOf(p) = {} /\ Command
        /\ Invalidated
        /\ made' = made + 1
        /\ host' = PushAndActivate(host, Conversation(made + 1, None, p))
        /\ StartSessionsLoad(NewDraft(catalog, p), p)
  /\ UNCHANGED <<disk, folders, listing, erase, strays, deleting, events>>

\* open_session, and retry_open_session for the one that is open.
OpenSession(p, s) ==
  /\ Command
  /\ p \in Shown
  /\ \/ catalog.lists[p] # None /\ s \in ToSet(catalog.lists[p].rows)
     \/ catalog.open = Session(p, s)
  /\ catalog' = [catalog EXCEPT !.open = Session(p, s)]
  /\ IF OpenedTarget(host, s) # None
     THEN Invalidated /\ host' = SetActive(host, OpenedTarget(host, s))
     ELSE /\ epoch' = epoch + 1 /\ loadState' = "loading"
          /\ opening' = [request |-> epoch + 1, project |-> p, session |-> s, stage |-> "asked"]
          /\ UNCHANGED host
  /\ UNCHANGED <<disk, folders, listing, lists, erase, strays, deleting, events, made>>

OpenReads ==
  /\ opening # None /\ opening.stage = "asked"
  /\ \/ /\ opening.session \in disk /\ Smooth
        /\ opening' = [opening EXCEPT !.stage = "read"]
     \/ opening.session \notin disk /\ opening' = [opening EXCEPT !.stage = "failed"] /\ Smooth
     \/ opening' = [opening EXCEPT !.stage = "failed"] /\ Fault
  /\ UNCHANGED <<disk, folders, catalog, host, epoch, loadState, listing, lists, erase, strays, deleting, events, made>>

\* Mutant: a restore is applied whatever was chosen since.
CurrentAlways == opening.stage = "read"

\* selection_request_is_current.
Current == opening.request = epoch /\ catalog.open = Session(opening.project, opening.session)

\* apply_session_restore, or the report of the failure.
OpenApplied ==
  /\ opening # None /\ opening.stage # "asked"
  /\ opening' = None
  /\ \/ opening.stage = "failed" /\ loadState' = "error" /\ Smooth /\ UNCHANGED <<host, made>>
     \/ opening.stage = "read" /\ ~Current /\ Smooth /\ UNCHANGED <<loadState, host, made>>
     \/ /\ opening.stage = "read" /\ Current /\ Smooth
        /\ loadState' = "ready"
        /\ IF OpenedTarget(host, opening.session) # None
           THEN host' = SetActive(host, OpenedTarget(host, opening.session)) /\ UNCHANGED made
           ELSE /\ made' = made + 1
                /\ host' = PushAndActivate(host, Conversation(made + 1, opening.session, opening.project))
     \* No scope for the view, or a transcript that cannot be restored.
     \/ /\ opening.stage = "read" /\ Current /\ OpenedTarget(host, opening.session) = None /\ Fault
        /\ loadState' \in {"ready", "error"} /\ UNCHANGED <<host, made>>
  /\ UNCHANGED <<disk, folders, catalog, epoch, listing, lists, erase, strays, deleting, events>>

-------------------------------------------------------------------------------
(* Conversations.                                                           *)

Event(kind, v, s) == [kind |-> kind, view |-> v, session |-> s]
Busy(v) == \E e \in events : e.view = v

\* Mutant: a removed conversation leaves what is open.
RemovedOnly(v) ==
  /\ host' = RemoveView(host, v)
  /\ UNCHANGED catalog

\* remove_conversation: a draft of its project is closed too.
Removed(v) ==
  LET c == ConversationOf(host, v)
  IN /\ host' = RemoveView(host, v)
     /\ catalog' = DiscardDraft(IF c.session = None THEN catalog ELSE RemoveSession(catalog, c.project, c.session), c.project)

\* delete_conversation: a draft goes at once, even while it is being begun.
DeleteConversation(v) ==
  /\ Command /\ v \in Views(host)
  /\ IF SessionOf(host, v) = None THEN Removed(v) /\ UNCHANGED events
     ELSE events' = events \cup {Event("delete", v, SessionOf(host, v))} /\ UNCHANGED <<host, catalog>>
  /\ UNCHANGED <<disk, folders, epoch, loadState, tasks, deleting, made>>

\* External: the first turn of a draft is begun, and its session is durable
\* before its view is told.
BeginCommits(v) ==
  /\ Command /\ v \in Views(host) /\ SessionOf(host, v) = None /\ ~Busy(v)
  /\ \E s \in Sessions \ Kept :
       /\ Origin[s] = ConversationOf(host, v).project
       /\ s \notin disk /\ ~\E e \in events : e.session = s
       /\ \A i \in DOMAIN host.list : host.list[i].session # s
       /\ disk' = disk \cup {s}
       /\ events' = events \cup {Event("bound", v, s)}
  /\ UNCHANGED <<folders, catalog, host, epoch, loadState, tasks, deleting, made>>

\* External: the worker of a view deletes its session, or fails to.
DeleteCommits(v) ==
  /\ \E e \in events :
       /\ e.kind = "delete" /\ e.view = v
       /\ \/ disk' = disk \ {e.session} /\ events' = (events \ {e}) \cup {Event("deleted", v, e.session)} /\ Smooth
          \/ UNCHANGED disk /\ events' = events \ {e} /\ Fault
  /\ UNCHANGED <<folders, catalog, host, epoch, loadState, tasks, deleting, made>>

\* SessionBound: what is open becomes the session of the draft, and the list of
\* its project is loaded anew.
SessionBound(e) ==
  /\ e.kind = "bound"
  /\ IF Binds(host, e.view, e.session)
     THEN LET p == ConversationOf(host, e.view).project
          IN /\ host' = BindSession(host, e.view, e.session)
             /\ StartSessionsLoad([catalog EXCEPT !.open = Session(p, e.session), !.lists[p] = None], p)
     ELSE UNCHANGED <<host, catalog, lists>>

DeleteCompleted(e) ==
  /\ e.kind = "deleted"
  /\ IF e.view \in Views(host) THEN Removed(e.view) ELSE UNCHANGED <<host, catalog>>
  /\ UNCHANGED lists

\* The view of a conversation that is gone is not heard.
ViewReports ==
  /\ \E e \in events : events' = events \ {e} /\ (SessionBound(e) \/ DeleteCompleted(e))
  /\ Smooth
  /\ UNCHANGED <<disk, folders, epoch, loadState, opening, listing, erase, strays, deleting, made>>

-------------------------------------------------------------------------------
(* Deletions in the background; one slot holds the deletion under way.      *)

Erasing(p, s) == [stage |-> "asked", project |-> p, session |-> s, cursor |-> None]
Dropped == IF erase = None \/ erase.stage # "asked" THEN {strays} ELSE {strays, strays \cup {erase}}

\* delete_unopened_session.
DeleteUnopened(p, s) ==
  /\ Command
  /\ catalog.lists[p] # None /\ s \in ToSet(catalog.lists[p].rows) /\ OpenedTarget(host, s) = None
  /\ erase' = Erasing(p, s) /\ strays' \in Dropped
  /\ UNCHANGED <<disk, folders, catalog, host, epoch, loadState, opening, listing, lists, deleting, events, made>>

\* delete_project, refused while a conversation of the project works.
DeleteProject(p) ==
  /\ Command /\ p \in Shown
  /\ \A i \in DOMAIN host.list : host.list[i].project = p => ~Busy(host.list[i].id)
  /\ erase' = Erasing(p, None) /\ strays' \in Dropped
  /\ deleting' = deleting \cup {p}
  /\ UNCHANGED <<disk, folders, catalog, host, epoch, loadState, opening, listing, lists, events, made>>

\* The sessions a deletion still has before it: the one, or those of the
\* project that its cursor has not passed.
Before(task) == IF task.session # None THEN IF task.cursor = None THEN {task.session} ELSE {}
                ELSE {s \in SessionsOf(task.project) : task.cursor = None \/ s < task.cursor}
Next1(task) == Newest(Before(task))[1]

EraseWrites ==
  /\ erase # None /\ erase.stage = "asked"
  /\ \/ /\ Before(erase) # {} /\ Smooth
        /\ disk' = disk \ {Next1(erase)}
        /\ erase' = [erase EXCEPT !.cursor = Next1(erase)]
     \/ Before(erase) = {} /\ erase' = [erase EXCEPT !.stage = "done"] /\ Smooth /\ UNCHANGED disk
     \/ erase' = [erase EXCEPT !.stage = "failed"] /\ Fault /\ UNCHANGED disk
  /\ UNCHANGED <<folders, catalog, host, epoch, loadState, opening, listing, lists, strays, deleting, events, made>>

\* A thread goes on with a deletion whose task was dropped.
StrayWrites ==
  /\ \E t \in strays :
       IF Before(t) = {} THEN strays' = strays \ {t} /\ UNCHANGED disk
       ELSE disk' = disk \ {Next1(t)} /\ strays' = (strays \ {t}) \cup {[t EXCEPT !.cursor = Next1(t)]}
  /\ Smooth
  /\ UNCHANGED <<folders, catalog, host, epoch, loadState, opening, listing, lists, erase, deleting, events, made>>

\* finish_project_delete: the project goes from the preferences, the open
\* conversations and the catalog, and with it the selection and the load.
FinishProjectDelete(p) ==
  /\ folders' = folders \ {p}
  /\ IF OpenProject(catalog) = p THEN Invalidated ELSE UNCHANGED <<epoch, opening, loadState>>
  /\ lists' = [lists EXCEPT ![p] = None]
  /\ host' = RetainOthers(host, p)
  /\ catalog' = RemoveProject(catalog, p)

EraseApplied ==
  /\ erase # None /\ erase.stage # "asked"
  /\ erase' = None
  /\ IF erase.session # None
     THEN /\ catalog' = IF erase.stage = "done" THEN RemoveSession(catalog, erase.project, erase.session) ELSE catalog
          /\ UNCHANGED <<folders, epoch, opening, loadState, lists, host, deleting>>
     ELSE /\ deleting' = deleting \ {erase.project}
          /\ IF erase.stage = "done" THEN FinishProjectDelete(erase.project)
             ELSE UNCHANGED <<catalog, folders, epoch, opening, loadState, lists, host>>
  /\ Smooth
  /\ UNCHANGED <<disk, listing, strays, events, made>>

-------------------------------------------------------------------------------
Next ==
  \/ StartProjectsLoad \/ StartProjectsLoadMore \/ Reads \/ ProjectsApplied
  \/ \E p \in Projects :
       \/ StartSessionsLoadMore(p) \/ SessionsApplied(p) \/ ToggleProject(p) \/ RegisterProject(p)
       \/ OpenDraft(p) \/ DeleteProject(p)
       \/ \E s \in Sessions : Origin[s] = p /\ (OpenSession(p, s) \/ DeleteUnopened(p, s))
  \/ OpenReads \/ OpenApplied
  \/ \E v \in 1 .. made : DeleteConversation(v) \/ BeginCommits(v) \/ DeleteCommits(v)
  \/ ViewReports \/ EraseWrites \/ StrayWrites \/ EraseApplied

\* The background executor makes its reads, and the application thread runs
\* its continuations.
Fairness ==
  /\ WF_vars(Reads) /\ WF_vars(ProjectsApplied) /\ \A p \in Projects : WF_vars(SessionsApplied(p))
  /\ WF_vars(OpenReads) /\ WF_vars(OpenApplied)

Spec == Init /\ [][Next]_vars /\ Fairness
-------------------------------------------------------------------------------
\* The types of the state.
TypeOK ==
  /\ disk \subseteq Sessions /\ folders \subseteq Projects
  /\ HostOK(host)
  /\ catalog.open = None \/ (catalog.open.project \in Projects /\ catalog.open.session \in Sessions \cup {None})
  /\ loadState \in {"unloaded", "loading", "ready", "error"}

\* A project has one draft at most, and while the draft is what is open it is
\* the conversation that is shown.
DraftShown ==
  \A p \in Projects :
    /\ Cardinality(DraftsOf(p)) <= 1
    /\ catalog.open = Draft(p) => host.active \in DraftsOf(p)

\* No list shows a row twice, whatever pages and refreshes were applied.
RowsDistinct ==
  /\ IsInjective(catalog.projects.rows)
  /\ \A p \in Projects : catalog.lists[p] # None => IsInjective(catalog.lists[p].rows)

\* What becomes active is what the catalog says is open: a restore that the
\* user has moved on from never takes the main pane.
ActiveFollowsOpen ==
  [][host'.active # host.active /\ host'.active # None =>
       LET c == ConversationOf(host', host'.active) IN catalog'.open = Session(c.project, c.session)]_vars

\* Loads end: no list and no project catalog waits for ever.
LoadsEnd ==
  /\ catalog.projects.load = "loading" ~> catalog.projects.load # "loading"
  /\ catalog.projects.more ~> ~catalog.projects.more
  /\ \A p \in Projects :
       (catalog.lists[p] # None /\ catalog.lists[p].load = "loading")
         ~> (catalog.lists[p] = None \/ catalog.lists[p].load # "loading")
  /\ opening # None ~> opening = None

\* The main pane shows what AgentOpen names, once nothing is loading.
OpenIsShown ==
  opening = None /\ loadState \in {"unloaded", "ready"} /\ catalog.open # None /\ host.active # None
    => SessionOf(host, host.active) = catalog.open.session
===============================================================================
