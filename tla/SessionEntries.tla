---------------------------- MODULE SessionEntries ----------------------------
(***************************************************************************)
(* The entries of one session, the graph their parents make, and what an   *)
(* append accepts (session/tree/validation.rs).  An entry's id is its      *)
(* place in the log; texts are named by the entry they are in.             *)
(***************************************************************************)
EXTENDS Naturals, Sequences, FiniteSets
LOCAL INSTANCE SequencesExt
LOCAL INSTANCE FiniteSetsExt

CONSTANTS
  Nothing,    \* no value
  Domain      \* "chat" or "agent"

Header == [id |-> 1, parent |-> Nothing, kind |-> "header"]
Ids(entries) == {entries[i].id : i \in DOMAIN entries}
At(entries, id) == entries[CHOOSE i \in DOMAIN entries : entries[i].id = id]
IsMessage(entries, id) == id \in Ids(entries) /\ At(entries, id).kind = "message"

\* From the header down to an entry; of a parent that is no entry there is none.
PathOf(entries) ==
    LET path[i \in DOMAIN entries] ==
          LET above == {j \in 1 .. i - 1 : entries[j].id = entries[i].parent}
          IN IF above = {} THEN <<entries[i].id>> ELSE Append(path[Max(above)], entries[i].id)
    IN path
Path(entries, id) == PathOf(entries)[CHOOSE i \in DOMAIN entries : entries[i].id = id]
Onward(entries, id) == IF id \in Ids(entries) THEN ToSet(Path(entries, id)) ELSE {}

\* Mutant: a compaction may keep any message of the session.
AcceptsAnyMessage(entries, e) ==
    /\ e.id \notin Ids(entries) /\ e.kind # "header" /\ e.parent \in Ids(entries)
    /\ e.kind = "compaction" => IsMessage(entries, e.target)
    /\ e.kind = "summary" => e.target \in Ids(entries)
    /\ e.kind = "leaf" => e.target \in Ids(entries) \cup {Nothing}
    /\ e.kind \in {"reference", "replay"} => Domain = "agent"

\* validate_entries of the index that appends are checked with.
Accepts(entries, e) ==
    /\ e.id \notin Ids(entries) /\ e.kind # "header" /\ e.parent \in Ids(entries)
    /\ e.kind = "compaction" => IsMessage(entries, e.target) /\ e.target \in Onward(entries, e.parent)
    /\ e.kind = "summary" => e.target \in Ids(entries)
    /\ e.kind = "leaf" => e.target \in Ids(entries) \cup {Nothing}
    /\ e.kind \in {"reference", "replay"} => Domain = "agent"

AcceptsAll(entries, batch) ==
    \A i \in DOMAIN batch : Accepts(entries \o SubSeq(batch, 1, i - 1), batch[i])

\* validate_session_entries, of a whole log.
Before(entries, i) == Ids(SubSeq(entries, 1, i - 1))
ValidLog(entries) ==
    /\ entries # <<>> /\ entries[1].kind = "header" /\ entries[1].parent = Nothing
    /\ Cardinality(Ids(entries)) = Len(entries)
    /\ \A i \in 2 .. Len(entries) :
         LET e == entries[i]
         IN /\ e.kind # "header" /\ e.parent \in Before(entries, i)
            /\ e.kind = "summary" => e.target \in Before(entries, i)
            /\ e.kind = "leaf" /\ e.target # Nothing => e.target \in Before(entries, i)
            /\ e.kind \in {"reference", "replay"} => Domain = "agent"
            /\ e.kind = "compaction" => /\ IsMessage(entries, e.target)
                                        /\ e.target \in Onward(entries, e.parent)

LeafAfter(e) == IF e.kind = "leaf" /\ e.target # Nothing THEN e.target ELSE e.id
===============================================================================
