---------------------------- MODULE ConversationHost ----------------------------
(***************************************************************************)
(* The open conversations of a workspace (shell/app/conversation_host.rs): *)
(* a list in opening order, an index from a session to the view that shows *)
(* it, and the active view.  A view is a number, in order of creation.     *)
(***************************************************************************)
EXTENDS Naturals, Sequences
LOCAL INSTANCE SequencesExt

CONSTANT None

NoConversations == [list |-> <<>>, index |-> [s \in {} |-> None], active |-> None]

Conversation(id, session, project) == [id |-> id, session |-> session, project |-> project]

Views(h) == {h.list[i].id : i \in DOMAIN h.list}
Place(h, v) == CHOOSE i \in DOMAIN h.list : h.list[i].id = v
ConversationOf(h, v) == h.list[Place(h, v)]
SessionOf(h, v) == ConversationOf(h, v).session

OpenedTarget(h, s) == IF s \in DOMAIN h.index THEN h.index[s] ELSE None

Indexed(index, s, v) == [t \in DOMAIN index \cup {s} |-> IF t = s THEN v ELSE index[t]]
Unindexed(index, sessions) == [t \in DOMAIN index \ sessions |-> index[t]]

PushAndActivate(h, c) ==
    [list |-> Append(h.list, c), active |-> c.id,
     index |-> IF c.session = None THEN h.index ELSE Indexed(h.index, c.session, c.id)]

\* bind_session answers whether it changed anything.
Binds(h, v, s) == v \in Views(h) /\ SessionOf(h, v) # s
BindSession(h, v, s) ==
    [h EXCEPT !.list = [i \in DOMAIN @ |-> IF @[i].id = v THEN [@[i] EXCEPT !.session = s] ELSE @[i]],
              !.index = Indexed(@, s, v)]

\* select_target and set_active.
SetActive(h, v) == IF v \in Views(h) THEN [h EXCEPT !.active = v] ELSE h

\* Mutant: the index keeps the session of a removed conversation.
RemoveKeepingIndex(h, v) ==
    [list |-> SelectSeq(h.list, LAMBDA c : c.id # v), index |-> h.index,
     active |-> IF h.active = v THEN None ELSE h.active]

RemoveView(h, v) ==
    [list |-> SelectSeq(h.list, LAMBDA c : c.id # v),
     index |-> Unindexed(h.index, {SessionOf(h, v)}),
     active |-> IF h.active = v THEN None ELSE h.active]

\* The view that takes the place of the one removed from place i, or the one
\* before it.
SelectNeighbor(h, i) ==
    [h EXCEPT !.active = IF i <= Len(h.list) THEN h.list[i].id
                         ELSE IF i > 1 THEN h.list[i - 1].id ELSE None]

\* retain, for the conversations of the other projects.
RetainOthers(h, project) ==
    [list |-> SelectSeq(h.list, LAMBDA c : c.project # project),
     index |-> Unindexed(h.index, {c.session : c \in {d \in ToSet(h.list) : d.project = project}}),
     active |-> IF h.active # None /\ ConversationOf(h, h.active).project = project THEN None ELSE h.active]

-------------------------------------------------------------------------------
\* Every view is listed once, the active one is listed, and the index leads
\* from a session to a listed view that shows it.
HostOK(h) ==
    /\ \A i, j \in DOMAIN h.list : h.list[i].id = h.list[j].id => i = j
    /\ h.active \in Views(h) \cup {None}
    /\ \A s \in DOMAIN h.index : h.index[s] \in Views(h) /\ SessionOf(h, h.index[s]) = s
===============================================================================
