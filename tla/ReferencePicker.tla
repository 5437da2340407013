---------------------------- MODULE ReferencePicker ----------------------------
(***************************************************************************)
(* The composer of a draft (ui/reference_picker/mod.rs): a $ token opens a *)
(* popup, whose hits a search in the background brings; a chat is taken at *)
(* once, a message when an exact read has found it.  The popup follows the *)
(* token, searches and reads answer late, and a submit clears the draft.   *)
(***************************************************************************)
EXTENDS Naturals, Sequences, FiniteSets
LOCAL INSTANCE SequencesExt

CONSTANTS
  None,        \* no value
  Blank,       \* the query of a token that is a $ alone
  Queries,     \* the other queries
  Hits,        \* what a search may bring: sequences of <<session, entry>>
  MaxSearches, \* bound on the searches that are begun
  MaxReads     \* bound on the exact reads

VARIABLES
  store,     \* whether the chats can be searched at all
  token,     \* None, or the query of the token the caret is in
  search,    \* query, results, status, generation; of: the query the results are of
  cursor,    \* the highlighted row, from 0
  expanded,  \* None or a session
  task,      \* None, or the search that runs: generation, query
  drafts,    \* the references of the draft, <<session>> or <<session, entry>>
  selected,
  pending,   \* the messages a read is to confirm
  reads,     \* the reads that run: ref, number
  begun    \* reads begun so far

popup == <<token, search, cursor, expanded, task>>
draft == <<drafts, selected, pending, reads, begun>>
vars == <<store, popup, draft>>

Init ==
  /\ store \in BOOLEAN
  /\ token = None /\ cursor = 0 /\ expanded = None /\ task = None
  /\ search = [query |-> Blank, results |-> <<>>, status |-> "idle", generation |-> 0, of |-> Blank]
  /\ drafts = <<>> /\ selected = {} /\ pending = {} /\ reads = {} /\ begun = 0
-------------------------------------------------------------------------------
(* The rows of the popup.                                                   *)

\* group_search_results: the sessions, in the order they are first met.
Groups(results) ==
    LET first == SelectSeq([i \in DOMAIN results |-> i],
                           LAMBDA i : \A j \in 1 .. i - 1 : results[j][1] # results[i][1])
    IN [g \in DOMAIN first |-> results[first[g]][1]]

\* visible_completion_rows: a row for each session, and below the expanded one
\* its messages (hit 0 is the session itself).
Rows(results, open) ==
    LET hits(s) == SelectSeq([i \in DOMAIN results |-> i], LAMBDA i : results[i][1] = s)
        messages(s) == [k \in DOMAIN hits(s) |-> [session |-> s, hit |-> hits(s)[k]]]
    IN FlattenSeq([g \in DOMAIN Groups(results) |->
                     <<[session |-> Groups(results)[g], hit |-> 0]>>
                     \o (IF Groups(results)[g] = open THEN messages(Groups(results)[g]) ELSE <<>>)])

Visible == Rows(search.results, expanded)

\* active_dollar_token: what the text before the caret may make of the token:
\* none, a $ alone, or a query.
Tokens == {None, Blank} \cup Queries
IsOpen == token # None
OnRow == IsOpen /\ cursor < Len(Visible)
Highlighted == Visible[cursor + 1]

\* Where the session's own row is, once another one or none is expanded.
PlaceOf(s, open) ==
    LET rows == Rows(search.results, open)
    IN (CHOOSE i \in DOMAIN rows : rows[i] = [session |-> s, hit |-> 0]) - 1
-------------------------------------------------------------------------------
(* The search.                                                              *)

\* ReferenceSearch::begin.
Begun(q) == [query |-> q, results |-> <<>>, generation |-> search.generation + 1, of |-> q,
             status |-> IF q = Blank THEN "idle" ELSE IF store THEN "searching" ELSE "failed"]

\* sync_completion_with_input and start_search: a token that changed begins a
\* search; a blank one begins none, and leaves the old one running.
Type ==
  \E t \in Tokens :
    /\ t # token /\ (t # None => search.generation < MaxSearches)
    /\ token' = t /\ cursor' = 0 /\ expanded' = None
    /\ IF t = None THEN task' = None /\ UNCHANGED search
       ELSE /\ search' = Begun(t)
            /\ task' = IF t # Blank /\ store THEN [generation |-> search'.generation, query |-> t] ELSE task
    /\ UNCHANGED <<store, draft>>

\* Mutant: whatever a search brings is shown.
AnyAnswer(generation) == TRUE

\* The search that answers is the latest.
Current(generation) == generation = search.generation

\* apply_search and fail.
SearchAnswers ==
  /\ task # None /\ task' = None
  /\ IF Current(task.generation)
     THEN \/ \E page \in Hits : search' = [search EXCEPT !.results = page, !.of = task.query, !.status = "ready"]
          \/ search' = [search EXCEPT !.status = "failed"]
     ELSE UNCHANGED search
  /\ cursor' = IF IsOpen THEN 0 ELSE cursor
  /\ UNCHANGED <<store, token, expanded, draft>>
-------------------------------------------------------------------------------
(* The keys and clicks of the popup.                                        *)

\* move_completion_cursor: the rows may have become fewer than the cursor says.
Move ==
  /\ IsOpen /\ Visible # <<>>
  /\ LET last == Len(Visible) - 1
         at == IF cursor > last THEN last ELSE cursor
     IN cursor' \in {IF at = last THEN last ELSE at + 1, IF at = 0 THEN 0 ELSE at - 1}
  /\ UNCHANGED <<store, token, search, expanded, task, draft>>

\* expand_highlighted_session: the cursor stays at its number.
ExpandRow ==
  /\ OnRow /\ Highlighted.hit = 0
  /\ IF expanded = Highlighted.session THEN cursor' = cursor + 1 /\ UNCHANGED expanded
     ELSE expanded' = Highlighted.session /\ UNCHANGED cursor
  /\ UNCHANGED <<store, token, search, task, draft>>

\* collapse_highlighted_session.
CollapseRow ==
  /\ OnRow /\ expanded = Highlighted.session
  /\ expanded' = None
  /\ cursor' = IF Highlighted.hit = 0 THEN cursor ELSE PlaceOf(expanded, None)
  /\ UNCHANGED <<store, token, search, task, draft>>

\* The arrow of a session's row, which moves the cursor there.
ClickArrow ==
  /\ IsOpen
  /\ \E g \in DOMAIN Groups(search.results) :
       LET s == Groups(search.results)[g]
       IN /\ expanded' = IF expanded = s THEN None ELSE s
          /\ cursor' = PlaceOf(s, expanded')
  /\ UNCHANGED <<store, token, search, task, draft>>

\* close_completion_popup: the search that runs is cancelled; the results stay,
\* and so does the cursor, which only an open popup reads.
Closed == token' = None /\ expanded' = None /\ task' = None /\ UNCHANGED <<search, cursor>>

\* dismiss_completion.
Dismiss == IsOpen /\ Closed /\ UNCHANGED <<store, draft>>
-------------------------------------------------------------------------------
(* The references of the draft.                                             *)

Holding(kind) == IF kind \in selected THEN UNCHANGED <<drafts, selected>>
                 ELSE drafts' = Append(drafts, kind) /\ selected' = selected \cup {kind}

\* complete_session: a chat is taken as it is.
TakeSession(s) ==
  /\ Closed /\ Holding(<<s>>)
  /\ UNCHANGED <<store, pending, reads, begun>>

\* complete_message and handle_select: a message is read first, once.
TakeMessage(ref) ==
  /\ Closed
  /\ IF ref \in selected \cup pending \/ ~store THEN UNCHANGED <<pending, reads, begun>>
     ELSE /\ begun < MaxReads /\ begun' = begun + 1
          /\ pending' = pending \cup {ref}
          /\ reads' = reads \cup {[ref |-> ref, number |-> begun]}
  /\ UNCHANGED <<store, drafts, selected>>

\* confirm_completion, of the row under the cursor, and a click on any row.
Confirm ==
  /\ IsOpen
  /\ \E i \in DOMAIN Visible : LET row == Visible[i]
                               IN IF row.hit = 0 THEN TakeSession(row.session)
                                  ELSE TakeMessage(search.results[row.hit])

\* Mutant: every answer adds its reference.
AddEveryAnswer(r) ==
  /\ pending' = pending \ {r.ref}
  /\ drafts' = Append(drafts, r.ref) /\ selected' = selected \cup {r.ref}

\* The read found the message.
ReadConfirms(r) == pending' = pending \ {r.ref} /\ Holding(r.ref)

\* apply_read: the message, or why it cannot be referred to (it is too large,
\* its chat or its branch is gone, the file is corrupt, the read failed).
ReadAnswers ==
  \E r \in reads :
    /\ reads' = reads \ {r}
    /\ ReadConfirms(r) \/ (pending' = pending \ {r.ref} /\ UNCHANGED <<drafts, selected>>)
    /\ UNCHANGED <<store, popup, begun>>

\* remove_draft.
Without(kind) == SelectSeq(drafts, LAMBDA d : d # kind)
RemoveDraft ==
  \E kind \in selected :
    /\ drafts' = Without(kind) /\ selected' = selected \ {kind}
    /\ pending' = pending \ {kind}
    /\ UNCHANGED <<store, popup, reads, begun>>

\* Mutant: what was selected outlives the draft.
ClearChipsOnly ==
  /\ Closed
  /\ drafts' = <<>> /\ pending' = {}
  /\ UNCHANGED <<store, selected, reads, begun>>

\* clear_after_submit: the reads that run are not cancelled.
ClearAfterSubmit ==
  /\ Closed
  /\ drafts' = <<>> /\ selected' = {} /\ pending' = {}
  /\ UNCHANGED <<store, reads, begun>>

Next == \/ Type \/ SearchAnswers \/ Move \/ ExpandRow \/ CollapseRow \/ ClickArrow \/ Dismiss
        \/ Confirm \/ ReadAnswers \/ RemoveDraft \/ ClearAfterSubmit
Spec == Init /\ [][Next]_vars
-------------------------------------------------------------------------------
\* An open popup is about its token: the hits were searched for with this
\* query, a blank one shows none, the expanded session is among the hits, and
\* while it says that it searches a search runs that will answer
\* (ReferenceSearch, sync_completion_with_input, start_search).
PopupFollows ==
  IsOpen =>
    /\ search.query = token /\ (token = Blank <=> search.status = "idle")
    /\ search.results # <<>> => search.of = token /\ search.status = "ready"
    /\ expanded # None => expanded \in {search.results[i][1] : i \in DOMAIN search.results}
    /\ search.status = "searching" =>
         task # None /\ task.generation = search.generation /\ task.query = token

\* The chips are the selection, each once, whichever reads outlive a submit or a
\* removal; and a message that blocks its own selection is one that is being
\* read and is no chip yet, so that it never stays blocked (handle_select,
\* apply_read, remove_draft, clear_after_submit).
ChipsExact ==
  /\ ToSet(drafts) = selected /\ Cardinality(selected) = Len(drafts)
  /\ pending \cap selected = {} /\ pending \subseteq {r.ref : r \in reads}
===============================================================================
