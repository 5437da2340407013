------------------------------ MODULE SessionTree ------------------------------
(***************************************************************************)
(* The content of one session (session/tree, catalog/projection.rs, and    *)
(* the parts of local and memory that use them): which entries an append   *)
(* accepts, which branch a leaf loads, the tree that is shown of it, and   *)
(* the row of the catalog, kept up to date entry by entry and rebuilt when *)
(* the leaf moved or a write failed.                                       *)
(***************************************************************************)
EXTENDS SessionEntries
LOCAL INSTANCE SequencesExt
LOCAL INSTANCE FiniteSetsExt

CONSTANTS
  Facts,      \* the facts without a target that callers append
  Hops,       \* whether callers ask for a marker as the leaf
  MaxEntries, \* bound on the log
  MaxFailures \* bound on failing writes of the file and of the catalog

VARIABLES
  log,        \* the entries of the file
  pending,    \* the batch of the recorder that may not be in the file yet
  projection, \* the projection of the handle
  row,        \* the row of the catalog
  unsure,     \* catalog_dirty
  failures

vars == <<log, pending, projection, row, unsure, failures>>

-------------------------------------------------------------------------------
(* What a leaf loads.                                                       *)

\* inferred_leaf, and the one hop of resolve_path through a leaf that is asked for.
InferredLeaf(entries) == LeafAfter(Last(entries))
LoadedLeaf(entries, requested) == LeafAfter(At(entries, requested))

Compactions(entries, path) == {i \in DOMAIN path : At(entries, path[i]).kind = "compaction"}

\* resolve_session: the path, and the messages from the one the latest
\* compaction keeps.
Resolved(entries, requested) ==
    LET leaf == LoadedLeaf(entries, requested)
        path == Path(entries, leaf)
        cuts == Compactions(entries, path)
        kept == IF cuts = {} THEN 1
                ELSE CHOOSE i \in DOMAIN path : path[i] = At(entries, path[Max(cuts)]).target
    IN [leaf |-> leaf, path |-> path,
        messages |-> SelectSeq(SubSeq(path, kept, Len(path)), LAMBDA id : IsMessage(entries, id))]

-------------------------------------------------------------------------------
(* The row of the catalog.                                                  *)

EmptyRow == [title |-> Nothing, preview |-> Nothing, model |-> Nothing, total |-> 0,
             turns |-> [t \in {} |-> 0], favorited |-> FALSE, nodes |-> {}]

\* record_usage: a turn counts with the most it has reported.
Counted(r, turn, tokens) ==
    IF turn = Nothing THEN [r EXCEPT !.total = @ + tokens]
    ELSE LET old == IF turn \in DOMAIN r.turns THEN r.turns[turn] ELSE 0
         IN IF turn \in DOMAIN r.turns /\ tokens <= old THEN r
            ELSE [r EXCEPT !.total = @ + (tokens - old),
                           !.turns = [t \in DOMAIN r.turns \cup {turn} |-> IF t = turn THEN tokens ELSE r.turns[t]]]

\* observe_durable_entry: what is true of the session on every branch.
Observed(r, e) == IF e.kind = "favorite" THEN [r EXCEPT !.favorited = e.on] ELSE r

\* apply_active_entry_metadata and message_node: what the active branch says.
Applied(r, e) ==
    IF e.kind = "message"
    THEN LET text == IF e.text THEN e.id ELSE Nothing
             s == [r EXCEPT !.title = IF @ = Nothing /\ e.role = "user" THEN text ELSE @,
                            !.preview = IF text # Nothing THEN text ELSE @,
                            !.model = IF e.model # Nothing THEN e.model ELSE @,
                            !.nodes = @ \cup {e.id}]
         IN Counted(s, e.turn, e.tokens)
    ELSE IF e.kind = "result" THEN Counted(r, e.turn, e.tokens)
    ELSE IF e.kind = "config" THEN [r EXCEPT !.model = e.model]
    ELSE r

\* from_entries.
Rebuilt(entries) ==
    LET active == ToSet(Resolved(entries, InferredLeaf(entries)).path)
    IN FoldLeft(LAMBDA r, e : IF e.id \in active THEN Applied(Observed(r, e), e) ELSE Observed(r, e), EmptyRow, entries)

\* append_entries.
Extended(r, batch) == FoldLeft(LAMBDA s, e : Applied(Observed(s, e), e), r, batch)

-------------------------------------------------------------------------------
Init ==
  /\ log = <<Header>> /\ pending = <<>>
  /\ projection = EmptyRow /\ row = EmptyRow
  /\ unsure = FALSE /\ failures = 0

\* Mutant: a pending batch is written again from its start.
MissingAll == pending

\* The exact entries of the pending batch that are not in the file.
Missing == SelectSeq(pending, LAMBDA e : e.id \notin Ids(log))

\* Mutant: the next entry goes behind the last one, whatever the leaf is.
TailOfTheFile == IF pending = <<>> THEN Last(log).id ELSE Last(pending).id

\* The leaf that prepare_batch is given.
ActiveLeaf == IF pending = <<>> THEN InferredLeaf(log) ELSE LeafAfter(Last(pending))

\* prepare_batch_after: each fact behind the one before, and a leaf moves on
\* to its target.
Prepared(facts) ==
    LET n == Len(log) + Len(Missing)
        parents[i \in 1 .. Len(facts) + 1] ==
          IF i = 1 THEN ActiveLeaf ELSE LeafAfter([id |-> n + i - 1] @@ facts[i - 1])
    IN [i \in DOMAIN facts |-> [id |-> n + i, parent |-> parents[i]] @@ facts[i]]

Fails == failures < MaxFailures /\ failures' = failures + 1

\* write_projection: one transaction, or none and the handle stays unsure.
WriteRow(r) == \/ row' = r /\ unsure' = FALSE /\ UNCHANGED failures
               \/ UNCHANGED row /\ unsure' = TRUE /\ Fails

\* A request the graph refuses writes nothing, and projects the file again.
Refused(facts) ==
  /\ ~AcceptsAll(log \o Missing, Prepared(facts))
  /\ projection' = Rebuilt(log)
  /\ IF pending = <<>> THEN WriteRow(Rebuilt(log))
     ELSE row' = Rebuilt(log) /\ unsure' = TRUE /\ UNCHANGED failures
  /\ UNCHANGED <<log, pending>>

\* Mutant: a handle that is unsure of its row extends it all the same.
CommittedUnsure(facts) ==
  /\ AcceptsAll(log \o Missing, Prepared(facts))
  /\ log' = log \o Missing \o Prepared(facts) /\ pending' = <<>>
  /\ projection' = Extended(projection, pending \o Prepared(facts))
  /\ WriteRow(projection')

\* The batch is written, behind what was pending; the row is extended when it
\* was right and the leaf did not move, and rebuilt otherwise.
Committed(facts) ==
  /\ AcceptsAll(log \o Missing, Prepared(facts))
  /\ log' = log \o Missing \o Prepared(facts) /\ pending' = <<>>
  /\ projection' = IF unsure \/ \E e \in ToSet(pending \o Prepared(facts)) : e.kind = "leaf"
                   THEN Rebuilt(log') ELSE Extended(projection, Prepared(facts))
  /\ WriteRow(projection')

\* The write fails behind some of its records, and the batch stays pending.
WriteFails(facts) ==
  /\ AcceptsAll(log \o Missing, Prepared(facts))
  /\ Fails
  /\ pending' = pending \o Prepared(facts)
  /\ \E k \in 0 .. Len(Missing \o Prepared(facts)) : log' = log \o SubSeq(Missing \o Prepared(facts), 1, k)
  /\ projection' = Rebuilt(log') /\ row' = Rebuilt(log') /\ unsure' = TRUE

Targets == (Ids(log) \cup Ids(pending)) \cup {Len(log) + Len(Missing) + 1}
Markers == {t \in Targets : \E e \in ToSet(log \o pending) : e.id = t /\ e.kind = "leaf"}
Requests == Facts \cup [kind : {"compaction"}, target : Targets] \cup [kind : {"summary"}, target : {1}]
Room == Len(log) + Len(Missing)

\* append, of a batch of one or two facts.
AppendFacts ==
  \/ \E f \in Requests : Room < MaxEntries /\ (Refused(<<f>>) \/ Committed(<<f>>) \/ WriteFails(<<f>>))
  \/ \E f, g \in Facts : Room + 1 < MaxEntries /\ (Committed(<<f, g>>) \/ WriteFails(<<f, g>>))

\* set_leaf: the views choose a row of the tree, or nothing; the interface of
\* the store takes a marker too.
SetLeaf ==
  \E t \in (Targets \ (IF Hops THEN {} ELSE Markers)) \cup {Nothing} :
    LET f == [kind |-> "leaf", target |-> t]
    IN Room < MaxEntries /\ (Refused(<<f>>) \/ Committed(<<f>>) \/ WriteFails(<<f>>))

\* flush of the handle, which projects the file again.
Flush ==
  /\ log' = log \o Missing /\ pending' = <<>>
  /\ projection' = Rebuilt(log') /\ WriteRow(Rebuilt(log'))

\* The handle is evicted and opened again for the next change.
Reopen ==
  /\ pending = <<>> /\ ~unsure
  /\ projection' = Rebuilt(log) /\ unsure' = TRUE
  /\ UNCHANGED <<log, pending, row, failures>>

Next == AppendFacts \/ SetLeaf \/ Flush \/ Reopen
Spec == Init /\ [][Next]_vars
-------------------------------------------------------------------------------
(* The tree that is shown of a branch.                                      *)

Visible(e) == e.kind \in {"message", "replay", "reference"}
Rows(entries) == {e.id : e \in {x \in ToSet(entries) : Visible(x)}}

\* build_visible_parent_topology.
VisibleParents(entries) ==
    LET up[id \in Ids(entries)] ==
          LET parent == At(entries, id).parent
          IN IF parent = Nothing THEN Nothing
             ELSE IF parent \in Rows(entries) THEN parent ELSE up[parent]
    IN up

\* branch_root_ids: rows without a row above them, and siblings.
Roots(entries) ==
    LET up == VisibleParents(entries)
    IN {r \in Rows(entries) : up[r] = Nothing \/ \E q \in Rows(entries) \ {r} : up[q] = up[r]}

Later(S) == IF S = {} THEN Nothing ELSE Max(S)
Known(S) == S \ {Nothing}

\* Mutant: a branch ends in whatever was recorded last, a marker too.
StatsWithMarkers(entries) ==
    LET stats[id \in Ids(entries)] ==
          LET below == {stats[e.id] : e \in {x \in ToSet(entries) : x.parent = id}}
              mine == {id} \cap Rows(entries)
          IN [ids |-> mine \cup UNION {b.ids : b \in below},
              latest |-> Later(mine \cup Known({b.latest : b \in below})),
              leaf |-> Later({id} \cup Known({b.leaf : b \in below}))]
    IN stats

\* branch_stats: every subtree from those of its children.
Stats(entries) ==
    LET stats[id \in Ids(entries)] ==
          LET below == {stats[e.id] : e \in {x \in ToSet(entries) : x.parent = id}}
              mine == {id} \cap Rows(entries)
              ends == IF At(entries, id).kind = "leaf" THEN {} ELSE {id}
          IN [ids |-> mine \cup UNION {b.ids : b \in below},
              latest |-> Later(mine \cup Known({b.latest : b \in below})),
              leaf |-> Later(ends \cup Known({b.leaf : b \in below}))]
    IN stats

\* session_tree_snapshot: the rows of a path, each with the branches that part
\* below it and whether they are the one shown.
Snapshot(entries, requested) ==
    LET path == Resolved(entries, requested).path
        up == VisibleParents(entries)
        rows == SelectSeq(path, LAMBDA id : id \in Rows(entries))
        choices(id) == {r \in Roots(entries) : up[r] = id}
    IN [rows |-> rows,
        current |-> IF rows = <<>> THEN Nothing ELSE Last(rows),
        choices |-> [id \in ToSet(rows) |->
                       IF Cardinality(choices(id)) < 2 THEN {}
                       ELSE {[root |-> r, shown |-> r \in ToSet(path)] : r \in choices(id)}]]

\* build_branch_parent_topology: the next root above.
BranchParent(entries, root) ==
    LET up == VisibleParents(entries)
        next[id \in Rows(entries)] ==
          IF up[id] = Nothing THEN Nothing
          ELSE IF up[id] \in Roots(entries) THEN up[id] ELSE next[up[id]]
    IN next[root]

\* session_branch_preview: the rows of a branch, behind the row it parts from.
Preview(entries, root) ==
    LET rows == Snapshot(entries, Stats(entries)[root].leaf).rows
        from == IF VisibleParents(entries)[root] = Nothing THEN root ELSE VisibleParents(entries)[root]
        at == {i \in DOMAIN rows : rows[i] = from}
    IN IF at = {} THEN rows ELSE SubSeq(rows, Min(at), Len(rows))

-------------------------------------------------------------------------------
(* What other conversations may refer to.                                   *)

Matches(id, query) == query = "anything" \/ At(log, id).text

\* search_message_nodes and search_chat_messages of the local store: the nodes of
\* the row below the cursor, newest first, one more than is asked for.
SearchRow(query, cursor, limit) ==
    LET below == {n \in row.nodes : Matches(n, query) /\ (cursor = Nothing \/ n < cursor)}
        fetched == SubSeq(SetToSortSeq(below, LAMBDA x, y : x > y), 1, Min({limit + 1, Cardinality(below)}))
    IN [hits |-> SubSeq(fetched, 1, Min({limit, Len(fetched)})),
        next |-> IF Len(fetched) > limit THEN fetched[limit] ELSE Nothing]

Active == ToSet(Resolved(log, InferredLeaf(log)).path)

\* search_chat_messages of the store in memory, which goes through the entries.
SearchLog(query, cursor, limit) ==
    LET active == Active
        found == SelectSeq(Reverse(log), LAMBDA e : e.id \in active /\ e.kind = "message" /\ Matches(e.id, query))
        ids == [i \in DOMAIN found |-> found[i].id]
        below == SelectSeq(ids, LAMBDA id : cursor = Nothing \/ id < cursor)
    IN [hits |-> SubSeq(below, 1, Min({limit, Len(below)})),
        next |-> IF Len(below) > limit THEN below[limit] ELSE Nothing]

\* read_chat_message and message_from_entry, of a file that loads: a message of
\* the branch that is active.
Readable(id) == id \in Active /\ IsMessage(log, id)
-------------------------------------------------------------------------------
\* The appends that are refused are those the file could not be loaded with,
\* and whatever is accepted loads at every leaf (AppendValidationState and
\* validate_session_entries, resolve_session).
Probes ==
    LET n == Len(log)
    IN [id : {n + 1}, parent : Ids(log) \cup {n + 1}, kind : {"compaction", "summary", "leaf"}, target : 1 .. n + 1]
       \cup [id : {n, n + 1}, parent : {1, Nothing}, kind : {"header", "reference"}]
LogLoads ==
  /\ ValidLog(log)
  /\ \A e \in Probes : Accepts(log, e) <=> ValidLog(Append(log, e))
  /\ \A id \in Ids(log) : \A c \in Compactions(log, Path(log, id)) :
       \E i \in 1 .. c : Path(log, id)[i] = At(log, Path(log, id)[c]).target

\* The row of a handle that trusts it is the one a rebuild would write, however
\* it came about.
RowExact == ~unsure => row = Rebuilt(log) /\ projection = row

\* A search of a row that is trusted answers as one of the entries would, page
\* by page, and whatever it finds can be read (search_chat_messages of both
\* stores, read_chat_message).
SearchExact ==
  ~unsure =>
    /\ \A query \in {"anything", "text"}, cursor \in row.nodes \cup {Nothing} :
         SearchRow(query, cursor, 1) = SearchLog(query, cursor, 1)
    /\ \A id \in ToSet(SearchRow("anything", Nothing, MaxEntries).hits) : Readable(id)

\* An append goes on from the leaf a load resolves, which is what entitles the
\* catalog to extend its row by the batch (JsonlRecorder::prepare_batch_after,
\* SessionProjection::append_entries).
AppendsExtend ==
  [][Len(log') > Len(log) /\ log'[Len(log) + 1].kind # "leaf"
       => log'[Len(log) + 1].parent = Resolved(log, InferredLeaf(log)).leaf]_vars

\* The local store answers as the one in memory does: whatever a write, a
\* failure or a flush puts into the file are entries an append of some batch
\* would have put there, each behind the leaf that was active (append,
\* flush_handle, prepare_batch_after against append_memory_entries).
Memory == INSTANCE InMemoryStore WITH entries <- log, leaf <- InferredLeaf(log)
ActsAsMemory == Memory!Created /\ [][Memory!Next]_vars

\* What is shown of the branches is what is below them: loading the leaf of a
\* branch shows its root behind the row it parts from, its last row and its rows
\* are those of its subtree, one choice at most is the one shown, and a branch
\* lies within its parent.
BranchesExact ==
  \A root \in Roots(log) :
    LET up == VisibleParents(log)[root]
        within == {id \in Rows(log) : root \in ToSet(Path(log, id))}
        stats == Stats(log)[root]
        shown == Preview(log, root)
        above == BranchParent(log, root)
    IN /\ stats.ids = within /\ stats.latest = Max(within)
       /\ At(log, stats.leaf).kind # "leaf" /\ root \in ToSet(Path(log, stats.leaf))
       /\ IF up = Nothing THEN shown[1] = root ELSE shown[1] = up /\ shown[2] = root
       /\ above # Nothing => within \subseteq Stats(log)[above].ids
       /\ up # Nothing => LET choices == Snapshot(log, stats.leaf).choices[up]
                          IN choices = {} \/ {c \in choices : c.shown} = {[root |-> root, shown |-> TRUE]}
===============================================================================
