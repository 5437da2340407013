----------------------------- MODULE InMemoryStore -----------------------------
(***************************************************************************)
(* One session of the in-memory store (session/memory): what a store of    *)
(* sessions promises, with nothing that can fail or be lost.  The entries  *)
(* of a call are those it adds.                                            *)
(***************************************************************************)
EXTENDS SessionEntries
LOCAL INSTANCE SequencesExt

VARIABLES
  entries,    \* the entries, none when there is no session
  leaf        \* the entry the next one goes behind

Init == entries = <<>> /\ leaf = Nothing

\* append_memory_entries: each behind the one before, all of them or none.
AppendMemoryEntries(known, tip, batch) ==
    /\ \A i \in DOMAIN batch : batch[i].parent = IF i = 1 THEN tip ELSE LeafAfter(batch[i - 1])
    /\ AcceptsAll(known, batch)
    /\ entries' = known \o batch
    /\ leaf' = IF batch = <<>> THEN tip ELSE LeafAfter(Last(batch))

Added(known) == SubSeq(entries', Len(known) + 1, Len(entries'))

\* create_session and create_session_with_entries.
CreateSession ==
    entries = <<>> /\ AppendMemoryEntries(<<Header>>, 1, Added(<<Header>>))

\* append.
AppendEntries ==
    entries # <<>> /\ AppendMemoryEntries(entries, leaf, Added(entries))

\* set_leaf: a marker of an entry that exists, or of none.
SetLeaf ==
    /\ entries # <<>>
    /\ \E target \in Ids(entries) \cup {Nothing} :
         AppendMemoryEntries(entries, leaf,
             <<[id |-> Len(entries) + 1, parent |-> leaf, kind |-> "leaf", target |-> target]>>)

DeleteSession == entries' = <<>> /\ leaf' = Nothing

Next == CreateSession \/ AppendEntries \/ SetLeaf \/ DeleteSession
Created == entries = <<Header>> /\ leaf = 1
Spec == Init /\ [][Next]_<<entries, leaf>>
===============================================================================
