--------------------------- MODULE ChatController ---------------------------
(***************************************************************************)
(* The durable lifecycle of one conversation: ChatSessionController in     *)
(* session/chat/mod.rs over the session store it is given.  Every          *)
(* operation runs under the controller's lock, so it is a set of possible  *)
(* outcomes of one step: the controller and the store afterwards, and the  *)
(* answer.                                                                 *)
(*                                                                         *)
(* The store is what the local store shows a single session: an append     *)
(* that answers an error may have written nothing, may have queued its     *)
(* batch in the recorder, or may have written it and failed afterwards; a  *)
(* create or a delete may have done its work on the source and failed in   *)
(* the catalog.                                                            *)
(***************************************************************************)
EXTENDS Naturals, Sequences
Sets == INSTANCE FiniteSetsExt

CONSTANTS
  MaxFailures,  \* bound on failing store calls
  None          \* no value

ASSUME FailuresAssumption == MaxFailures \in Nat

Fact(turn, kind, val) == [turn |-> turn, kind |-> kind, val |-> val]

\* What a user sends: a text to a model.
Message(text, model) == [text |-> text, model |-> model]

Has(facts, f) == \E i \in DOMAIN facts : facts[i] = f

HasTurn(facts, t) == \E i \in DOMAIN facts : facts[i].turn = t

(***************************************************************************)
(* The store, seen from one session.  at: "absent"; "hidden", a published  *)
(* source the catalog does not list; "there"; "gone", a catalog row whose  *)
(* source was removed.  queue: the recorder's exact pending batch.         *)
(***************************************************************************)
EmptyStore == [at |-> "absent", facts |-> <<>>, queue |-> <<>>, failures |-> 0]

Answers(st, ok) == [st |-> st, ok |-> ok]

\* The failing outcomes sts, as long as calls may still fail.
Failing(st, sts) ==
  IF st.failures < MaxFailures
  THEN {Answers([s EXCEPT !.failures = st.failures + 1], FALSE) : s \in sts}
  ELSE {}

Written(st, facts) == [st EXCEPT !.facts = @ \o st.queue \o facts, !.queue = <<>>]

AppendCall(st, facts) ==
  IF st.at # "there"
  THEN {Answers(st, FALSE)}
  ELSE {Answers(Written(st, facts), TRUE)}
       \cup Failing(st, {st,
                         [st EXCEPT !.queue = @ \o facts],
                         [Written(st, <<>>) EXCEPT !.queue = facts],
                         Written(st, facts)})

CreateCall(st, facts) ==
  IF st.at # "absent"
  THEN {Answers(st, FALSE)}
  ELSE {Answers([st EXCEPT !.at = "there", !.facts = facts], TRUE)}
       \cup Failing(st, {st} \cup
                        {[st EXCEPT !.at = a, !.facts = facts] :
                          a \in {"hidden", "there"}})

\* A flush drains the recorder and repairs the catalog.
FlushCall(st) ==
  LET drained == [Written(st, <<>>) EXCEPT
                    !.at = CASE st.at = "hidden" -> "there"
                             [] st.at = "gone"   -> "absent"
                             [] OTHER            -> st.at]
  IN  {Answers(drained, TRUE)} \cup Failing(st, {st, Written(st, <<>>)})

LoadCall(st) ==
  {Answers(st, st.at = "there")}
    \cup (IF st.at = "there" THEN Failing(st, {st}) ELSE {})

NotFound(st) == st.at \in {"absent", "hidden"}

DeleteCall(st) ==
  LET removed == [st EXCEPT !.facts = <<>>, !.queue = <<>>]
  IN  {Answers([removed EXCEPT !.at = "absent"], TRUE)}
      \cup Failing(st, {st} \cup (IF st.at = "absent" THEN {}
                                  ELSE {[removed EXCEPT !.at = "gone"]}))
-----------------------------------------------------------------------------
(***************************************************************************)
(* The controller.  model: the one it takes to be the session's.  pend:    *)
(* the pending turn, which keeps its first-turn header or the change of    *)
(* the model, its user message and its terminal until each is durable.     *)
(***************************************************************************)
FreshController == [deleted |-> FALSE, bound |-> FALSE, model |-> None, pend |-> None]

PendingTurn(t, m, created, changed) ==
  [turn |-> t, msg |-> m, created |-> created, changed |-> changed,
   user |-> FALSE, term |-> None]

Out(c, st, answer) == [c |-> c, st |-> st, answer |-> answer]

User(p) == Fact(p.turn, "user", p.msg)

\* The header of a new session names its model; a later turn that changes it says so.
UserEntries(p) ==
  (IF p.changed THEN <<Fact(0, "config", p.msg.model)>> ELSE <<>>) \o <<User(p)>>

CreatedEntries(p) == <<Fact(0, "header", p.msg.model)>> \o UserEntries(p)

\* Fault: the controller learns of a model only when it creates or restores.
BegunWithModel(c, st) == Out([c EXCEPT !.pend = [@ EXCEPT !.user = TRUE]], st, "ok")

Result(t, x) == Fact(t, "result", x)

\* finish_pending_user
Begun(c, st) ==
  Out([c EXCEPT !.pend = [@ EXCEPT !.user = TRUE], !.model = c.pend.msg.model], st, "ok")

MarkCreated(c) ==
  [c EXCEPT !.bound = TRUE, !.model = c.pend.msg.model, !.pend = [@ EXCEPT !.created = TRUE]]

AppendPendingUser(c, st) ==
  {IF o.ok THEN Begun(c, o.st) ELSE Out(c, o.st, "storage") :
     o \in AppendCall(st, UserEntries(c.pend))}

CreatePendingSession(c, st) ==
  {IF o.ok THEN Begun(MarkCreated(c), o.st) ELSE Out(c, o.st, "storage") :
     o \in CreateCall(st, CreatedEntries(c.pend))}

\* resume_pending_start, once the session is known to exist
ResumeUser(c, st) ==
  UNION {IF ~ o.ok                         THEN {Out(c, o.st, "storage")}
         ELSE IF Has(o.st.facts, User(c.pend)) THEN {Begun(c, o.st)}
         ELSE AppendPendingUser(c, o.st) : o \in LoadCall(st)}

ResumeCreated(c, st) ==
  UNION {IF o.ok              THEN ResumeUser(MarkCreated(c), o.st)
         ELSE IF NotFound(o.st) THEN CreatePendingSession(c, o.st)
         ELSE {Out(c, o.st, "storage")} : o \in LoadCall(st)}

ResumePendingStart(c, st) ==
  UNION {IF ~ o.ok               THEN {Out(c, o.st, "storage")}
         ELSE IF c.pend.created  THEN ResumeUser(c, o.st)
         ELSE ResumeCreated(c, o.st) : o \in FlushCall(st)}

StartTurn(c, st, t, m) ==
  LET d == [c EXCEPT !.pend = PendingTurn(t, m, c.bound, c.bound /\ c.model # m.model)]
  IN  IF c.bound THEN AppendPendingUser(d, st) ELSE CreatePendingSession(d, st)

BeginTurn(c, st, t, m) ==
  IF c.deleted THEN {Out(c, st, "deleted")}
  ELSE IF c.pend # None
  THEN IF ~ c.pend.user /\ c.pend.turn = t /\ c.pend.msg = m
       THEN ResumePendingStart(c, st)
       ELSE {Out(c, st, "in progress")}
  ELSE IF ~ c.bound THEN StartTurn(c, st, t, m)
  ELSE UNION {IF ~ o.ok                     THEN {Out(c, o.st, "storage")}
              ELSE IF HasTurn(o.st.facts, t) THEN {Out(c, o.st, "used")}
              ELSE StartTurn(c, o.st, t, m) : o \in LoadCall(st)}

AppendPendingTerminal(c, st) ==
  {IF o.ok THEN Out([c EXCEPT !.pend = None], o.st, "ok")
   ELSE Out(c, o.st, "storage") :
     o \in AppendCall(st, <<Result(c.pend.turn, c.pend.term)>>)}

\* Fault: a retry appends the terminal without looking for it first.
ResumeTerminalBlindly(c, st) ==
  UNION {IF o.ok THEN AppendPendingTerminal(c, o.st)
         ELSE {Out(c, o.st, "storage")} : o \in FlushCall(st)}

\* resume_pending_terminal
ResumePendingTerminal(c, st) ==
  UNION {IF ~ f.ok THEN {Out(c, f.st, "storage")}
         ELSE UNION {IF ~ o.ok THEN {Out(c, o.st, "storage")}
                     ELSE IF Has(o.st.facts, Result(c.pend.turn, c.pend.term))
                     THEN {Out([c EXCEPT !.pend = None], o.st, "ok")}
                     ELSE AppendPendingTerminal(c, o.st) : o \in LoadCall(f.st)} :
           f \in FlushCall(st)}

FinishTurn(c, st, t, x) ==
  IF c.deleted THEN {Out(c, st, "deleted")}
  ELSE IF c.pend = None
  THEN IF ~ c.bound THEN {Out(c, st, "no turn")}
       ELSE {IF ~ o.ok THEN Out(c, o.st, "storage")
             ELSE IF Has(o.st.facts, Result(t, x)) THEN Out(c, o.st, "ok")
             ELSE Out(c, o.st, "no turn") : o \in LoadCall(st)}
  ELSE IF c.pend.turn # t \/ ~ c.pend.user THEN {Out(c, st, "mismatch")}
  ELSE IF c.pend.term = None
  THEN AppendPendingTerminal([c EXCEPT !.pend = [@ EXCEPT !.term = x]], st)
  ELSE IF c.pend.term # x THEN {Out(c, st, "mismatch")}
  ELSE ResumePendingTerminal(c, st)

\* Fault: a deleted controller starts over.
DeleteForgets(c, st) ==
  {IF o.ok THEN Out(FreshController, o.st, "ok") ELSE Out(c, o.st, "storage") :
     o \in DeleteCall(st)}

DeleteSession(c, st) ==
  IF c.deleted THEN {Out(c, st, "ok")}
  ELSE IF ~ c.bound /\ c.pend = None
  THEN {Out([FreshController EXCEPT !.deleted = TRUE], st, "ok")}
  ELSE {IF o.ok THEN Out([FreshController EXCEPT !.deleted = TRUE], o.st, "ok")
        ELSE Out(c, o.st, "storage") : o \in DeleteCall(st)}

\* The model of a log: what the header or the last change of it says.
ModelOf(facts) ==
  facts[Sets!Max({i \in DOMAIN facts : facts[i].kind \in {"header", "config"}})].val

\* restore
Restore(c, st) ==
  IF c.deleted THEN {Out(c, st, "deleted")}
  ELSE IF c.pend # None THEN {Out(c, st, "in progress")}
  ELSE {IF o.ok THEN Out([c EXCEPT !.bound = TRUE, !.model = ModelOf(o.st.facts)], o.st, "ok")
        ELSE Out(c, o.st, "storage") : o \in LoadCall(st)}

\* Fault: the next turn is the one behind the last that was ended.
NextTurnIdOfResults(facts) ==
  1 + Sets!Max({0} \cup {facts[i].turn : i \in {j \in DOMAIN facts : facts[j].kind = "result"}})

\* next_turn_id_for and its successor: behind every turn the log mentions.
NextTurnId(facts) == 1 + Sets!Max({0} \cup {facts[i].turn : i \in DOMAIN facts})
=============================================================================
