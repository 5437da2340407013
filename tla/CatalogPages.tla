----------------------------- MODULE CatalogPages -----------------------------
(***************************************************************************)
(* The lists of a catalog (session/catalog/mod.rs, session/memory/mod.rs): *)
(* sessions newest first, all of them, those of a project or by favorite,  *)
(* and the projects with their latest session; and a reader that takes one *)
(* page after another (session/chat_catalog.rs, shell/app/agent_workspace) *)
(* while sessions are created, written to and deleted.                     *)
(***************************************************************************)
EXTENDS Naturals, Sequences, FiniteSets
LOCAL INSTANCE SequencesExt
LOCAL INSTANCE FiniteSetsExt

CONSTANTS
  None,       \* no value
  SessionIds, \* numbers, as ids are ordered
  Times,      \* numbers, the timestamps
  Projects,   \* numbers, as the ids of projects are ordered
  Seeds,      \* the sets of sessions that are there before the first page
  Limits,     \* page sizes
  MaxChanges  \* bound on the changes while a list is read

VARIABLES
  sessions, \* the rows of the sessions
  registry, \* the rows of the projects
  query,    \* what is read: list, project, favorited, limit
  reader,   \* loaded, next (the cursor) and shown, the rows so far
  past,     \* ids: all there were; kept: the rows listed ever since the first page; ever: all listed since
  changes

vars == <<sessions, registry, query, reader, past, changes>>

Row(id, created, project) ==
    [id |-> id, created |-> created, updated |-> created, project |-> project, favorited |-> FALSE]
Queries ==
    [list : {"sessions"}, project : Projects \cup {None}, favorited : {None}, limit : Limits]
    \cup [list : {"sessions"}, project : {None}, favorited : BOOLEAN, limit : Limits]
    \cup [list : {"projects"}, project : {None}, favorited : {None}, limit : Limits]

\* Both lists go down: by time, and by id where the times are equal.
Above(k, l) == k[1] > l[1] \/ (k[1] = l[1] /\ k[2] > l[2])
Ordered(rows) == SetToSortSeq(rows, LAMBDA x, y : Above(x.key, y.key))
-------------------------------------------------------------------------------
(* The catalog.                                                             *)

Of(rows, p) == {r \in rows : r.project = p}
Winner(rows) == CHOOSE r \in rows : \A q \in rows \ {r} : Above(<<r.updated, r.id>>, <<q.updated, q.id>>)

\* refresh_project_in_transaction: a project is as its latest session says, and
\* goes with its last one.
Refreshed(table, rows, p) ==
    {x \in table : x.project # p}
    \cup {[project |-> p, updated |-> Winner(own).updated, winner |-> Winner(own).id] : own \in {Of(rows, p)} \ {{}}}

\* rebuild_projects_in_transaction.
Registered(rows) ==
    {[project |-> r.project, updated |-> r.updated, winner |-> r.id] :
       r \in {x \in rows : ~\E newer \in Of(rows, x.project) :
                              Above(<<newer.updated, newer.id>>, <<x.updated, x.id>>)}}

\* A row of a list: its key, which is what a cursor says of it, and what is shown.
SessionRows(rows, q) ==
    {[key |-> <<r.created, r.id>>, name |-> r.id, shows |-> r] :
       r \in {x \in rows : /\ q.project # None => x.project = q.project
                           /\ q.favorited # None => x.favorited = q.favorited}}

\* list_projects: the registry joined with a count of the sessions.
ProjectRows(table, rows) ==
    {[key |-> <<IF Of(rows, x.project) = {} THEN x.updated ELSE Max({r.updated : r \in Of(rows, x.project)}), x.project>>,
      name |-> x.project,
      shows |-> [winner |-> x.winner, count |-> Cardinality(Of(rows, x.project))]] : x \in table}

Listed(rows, table, q) ==
    IF q.list = "projects" THEN ProjectRows(table, rows) ELSE SessionRows(rows, q)

\* Mutant: the cursor names the row that was fetched to know whether there are more.
PageSkipping(rows, cursor, limit) ==
    LET below == Ordered({x \in rows : cursor = None \/ Above(cursor, x.key)})
        fetched == SubSeq(below, 1, Min({limit + 1, Len(below)}))
        more == Len(fetched) > limit
    IN [rows |-> IF more THEN Front(fetched) ELSE fetched,
        next |-> IF more THEN Last(fetched).key ELSE None]

\* list: what is below the cursor, one more than is asked for to know whether
\* there are more.
Page(rows, cursor, limit) ==
    LET below == Ordered({x \in rows : cursor = None \/ Above(cursor, x.key)})
        fetched == SubSeq(below, 1, Min({limit + 1, Len(below)}))
        more == Len(fetched) > limit
        page == IF more THEN Front(fetched) ELSE fetched
    IN [rows |-> page, next |-> IF more THEN Last(page).key ELSE None]
-------------------------------------------------------------------------------
(* The store in memory, which lists the sessions themselves.                *)

\* list_projects of the store in memory: the latest session of each.
MemoryProjects(rows) ==
    {[key |-> <<Winner(Of(rows, p)).updated, p>>, name |-> p,
      shows |-> [winner |-> Winner(Of(rows, p)).id, count |-> Cardinality(Of(rows, p))]] :
       p \in {r.project : r \in rows}}

MemoryPage(rows, q, cursor) ==
    LET all == Ordered(IF q.list = "projects" THEN MemoryProjects(rows) ELSE SessionRows(rows, q))
        below == SelectSeq(all, LAMBDA x : cursor = None \/ Above(cursor, x.key))
        page == SubSeq(below, 1, Min({q.limit, Len(below)}))
    IN [rows |-> page, next |-> IF Len(below) > q.limit THEN Last(page).key ELSE None]
-------------------------------------------------------------------------------
Init ==
  /\ sessions \in Seeds /\ registry = Registered(sessions)
  /\ query \in Queries
  /\ reader = [loaded |-> FALSE, next |-> None, shown |-> <<>>]
  /\ past = [ids |-> {r.id : r \in sessions}, kept |-> {}, ever |-> {}]
  /\ changes = 0

KeysOf(rows) == {x.key : x \in rows}

\* A change of one session and of the row of its project, in one transaction.
Changed(rows, p) ==
  /\ changes < MaxChanges /\ changes' = changes + 1
  /\ sessions' = rows /\ registry' = Refreshed(registry, rows, p)
  /\ LET now == KeysOf(Listed(sessions', registry', query))
     IN past' = [ids |-> past.ids \cup {r.id : r \in rows},
                 kept |-> past.kept \cap now, ever |-> IF reader.loaded THEN past.ever \cup now ELSE {}]
  /\ UNCHANGED <<query, reader>>

\* create_session, with the first projection.
Create == \E id \in SessionIds \ past.ids, t \in Times, p \in Projects : Changed(sessions \cup {Row(id, t, p)}, p)

\* append, which may carry a favorite.
Write ==
  \E r \in sessions, t \in Times, f \in BOOLEAN :
    Changed((sessions \ {r}) \cup {[r EXCEPT !.updated = t, !.favorited = f]}, r.project)

\* Mutant: the row of a project stays as the deleted session left it.
DeleteRowOnly ==
  \E r \in sessions :
    /\ changes < MaxChanges /\ changes' = changes + 1
    /\ sessions' = sessions \ {r}
    /\ UNCHANGED <<registry, query, reader, past>>

\* delete_session_once.
Delete == \E r \in sessions : Changed(sessions \ {r}, r.project)

\* apply_repair, once every row was written: the registry is made anew.
Repair ==
  /\ changes < MaxChanges /\ changes' = changes + 1
  /\ registry' = Registered(sessions)
  /\ UNCHANGED <<sessions, query, reader, past>>

Listing == Listed(sessions, registry, query)

\* load_initial, and apply_projects_initial: the first page, once.
LoadInitial ==
  /\ ~reader.loaded
  /\ LET page == Page(Listing, None, query.limit)
     IN reader' = [loaded |-> TRUE, next |-> page.next, shown |-> page.rows]
  /\ past' = [past EXCEPT !.kept = KeysOf(Listing), !.ever = KeysOf(Listing)]
  /\ UNCHANGED <<sessions, registry, query, changes>>

\* load_more, and apply_projects_load_more: the page below the cursor, without
\* what is shown already.  A page that hands its cursor back is refused.
LoadMore ==
  /\ reader.loaded /\ reader.next # None
  /\ LET page == Page(Listing, reader.next, query.limit)
         names == {x.name : x \in ToSet(reader.shown)}
     IN /\ page.next # reader.next
        /\ reader' = [reader EXCEPT !.next = page.next,
                                    !.shown = @ \o SelectSeq(page.rows, LAMBDA x : x.name \notin names)]
  /\ UNCHANGED <<sessions, registry, query, past, changes>>

Next == Create \/ Write \/ Delete \/ Repair \/ LoadInitial \/ LoadMore
Spec == Init /\ [][Next]_vars
-------------------------------------------------------------------------------
\* Reading page by page loses and repeats nothing that stays where it is: at
\* every time the rows shown are different ones, each was in the list at some
\* time since the first page, and of the rows that were listed all the time
\* and did not move all those above the cursor are shown; the sessions, whose
\* keys never change, are in order (Catalog::list, list_projects, load_more).
PagesExact ==
  reader.loaded =>
    LET keys == {x.key : x \in ToSet(reader.shown)}
    IN /\ \A i, j \in DOMAIN reader.shown : i # j => reader.shown[i].name # reader.shown[j].name
       /\ keys \subseteq past.ever
       /\ {k \in past.kept : reader.next = None \/ ~Above(reader.next, k)} \subseteq keys
       /\ query.list = "sessions" =>
            \A i \in 1 .. Len(reader.shown) - 1 : Above(reader.shown[i].key, reader.shown[i + 1].key)

\* The catalog and the store in memory answer alike, whatever changed in which
\* order: the rows and the cursor of every page of a list, so also the
\* project rows that every write and delete patch and a repair makes anew.
ListsAgree ==
  \A cursor \in KeysOf(Listing) \cup {None} :
    Page(Listing, cursor, query.limit) = MemoryPage(sessions, query, cursor)
===============================================================================
