----------------------------- MODULE TurnsProofs -----------------------------
(***************************************************************************)
(* Proofs about the turns of a conversation, for all bounds.               *)
(*                                                                         *)
(* The first half is about ChatController over one store: LedgerOK says    *)
(* what the pending turn knows of the log, the part of it that is still in *)
(* the recorder's queue included, and every operation keeps it whatever    *)
(* call of the store fails.  The second half is about the runtime, its     *)
(* workers and the channels between them: who is going to end a turn.      *)
(***************************************************************************)
EXTENDS MCTurns, SequenceTheorems, FiniteSetTheorems, TLAPS, WellFoundedInduction

Turns == (1 .. MaxSubmits) \cup (1 .. MaxTurns)
Messages == [text : Texts \cup {"text"}, model : Models \cup Selections]
Terms == Outcomes \cup {"completed"}

Facts == [turn : Nat, kind : {"header", "config", "user", "result"},
          val : Models \cup Selections \cup Messages \cup Terms]

Stores == [at : {"absent", "hidden", "there", "gone"}, facts : Seq(Facts),
           queue : Seq(Facts), failures : Nat]

Controllers == [deleted : BOOLEAN, bound : BOOLEAN,
                model : Models \cup Selections \cup {None}, pend : {None} \cup Pendings]

\* The facts a session has or is going to have.
LogOf(st) == st.facts \o st.queue

Told(st) == Range(LogOf(st))

Once(s) ==
  \A i, j \in DOMAIN s :
    s[i].turn = s[j].turn /\ s[i].kind = s[j].kind /\ s[i].kind \in {"user", "result"} => i = j

Follows(s) ==
  \A i \in DOMAIN s : s[i].kind = "result" => \E j \in 1 .. i - 1 : s[j].turn = s[i].turn

SoundLog(s) == s \in Seq(Facts) /\ Once(s) /\ Follows(s)

\* The controller waits for the terminal of a turn that was begun.
Waiting(c) == c.pend # None /\ c.pend.user

\* What a pending turn knows of the facts F of its session.
PendOK(p, F) ==
  /\ p.term # None => p.user
  /\ ~ p.user => \A f \in F : f.turn = p.turn => f = User(p)
  /\ p.user /\ p.term = None => \A f \in F : f.turn = p.turn => f.kind # "result"
  /\ p.term # None => \A f \in F : f.turn = p.turn /\ f.kind = "result" => f = Result(p.turn, p.term)

LedgerOK(c, st) ==
  /\ st \in Stores /\ c \in Controllers /\ SoundLog(LogOf(st))
  /\ st.at # "there" => st.queue = <<>>
  /\ st.at \in {"absent", "gone"} => st.facts = <<>>
  /\ c.deleted => c.pend = None /\ ~ c.bound /\ st.at = "absent"
  /\ c.pend = None => st.queue = <<>> /\ (~ c.bound => st.at = "absent")
  /\ c.pend # None => /\ c.bound <=> c.pend.created
                      /\ c.pend.user => c.bound
                      /\ c.pend.user /\ c.pend.term = None => st.queue = <<>>
                      /\ c.pend.user /\ st.at = "there" => \E f \in Told(st) : f.turn = c.pend.turn
                      /\ PendOK(c.pend, Told(st))
  /\ c.bound => st.at # "hidden"

\* The turns b were begun: each is in the log of a session that is there, with
\* its terminal or as the one the controller waits for.
BegunIn(c, st, b) ==
  \A t \in b :
    c.deleted \/ (c.bound /\ (st.at = "there" =>
      /\ \E f \in Told(st) : f.turn = t
      /\ \/ \E f \in Told(st) : f.turn = t /\ f.kind = "result"
         \/ Waiting(c) /\ c.pend.turn = t))
-----------------------------------------------------------------------------
(***************************************************************************)
(* Logs.                                                                   *)
(***************************************************************************)
LEMMA LogTypes ==
  ASSUME NEW st \in Stores
  PROVE  /\ st.facts \in Seq(Facts) /\ st.queue \in Seq(Facts)
         /\ LogOf(st) \in Seq(Facts) /\ Told(st) \subseteq Facts
         /\ st.queue = <<>> => LogOf(st) = st.facts
<1>1. st.facts \in Seq(Facts) /\ st.queue \in Seq(Facts)
  BY DEF Stores
<1>2. LogOf(st) \in Seq(Facts)
  BY <1>1, ConcatProperties DEF LogOf
<1>3. Told(st) \subseteq Facts
  BY <1>2 DEF Told, Range
<1>4. st.queue = <<>> => LogOf(st) = st.facts
  BY <1>1, ConcatEmptySeq DEF LogOf
<1>. QED BY <1>1, <1>2, <1>3, <1>4

(* A fact goes behind a sound log, if its turn has none of its kind yet,    *)
(* and a terminal only behind its turn.                                     *)
LEMMA PutFact ==
  ASSUME NEW s, SoundLog(s), NEW f \in Facts,
         f.kind \in {"user", "result"} =>
           \A g \in Range(s) : g.turn = f.turn => g.kind # f.kind,
         f.kind = "result" => \E g \in Range(s) : g.turn = f.turn
  PROVE  /\ SoundLog(s \o <<f>>)
         /\ Range(s \o <<f>>) = Range(s) \cup {f}
<1> DEFINE r == s \o <<f>>
<1>1. s \in Seq(Facts) /\ Len(s) \in Nat /\ DOMAIN s = 1 .. Len(s)
  BY DEF SoundLog
<1>2. /\ r \in Seq(Facts) /\ DOMAIN r = 1 .. Len(s) + 1
      /\ \A i \in 1 .. Len(s) : r[i] = s[i]
      /\ r[Len(s) + 1] = f
  BY <1>1
<1>3. \A i \in DOMAIN r : i \in DOMAIN s \/ i = Len(s) + 1
  BY <1>1, <1>2
<1> HIDE DEF r
<1>. /\ f.kind \in {"user", "result"} =>
          \A i \in DOMAIN s : s[i].turn = f.turn => s[i].kind # f.kind
     /\ f.kind = "result" => \E i \in DOMAIN s : s[i].turn = f.turn
  BY DEF Range
<1>4. Once(r)
  BY <1>1, <1>2, <1>3 DEF Once, SoundLog
<1>5. Follows(r)
  <2> SUFFICES ASSUME NEW i \in DOMAIN r, r[i].kind = "result"
               PROVE  \E j \in 1 .. i - 1 : r[j].turn = r[i].turn
    BY DEF Follows
  <2>1. CASE i \in DOMAIN s
    <3>1. PICK j \in 1 .. i - 1 : s[j].turn = s[i].turn
      BY <1>1, <1>2, <2>1 DEF SoundLog, Follows
    <3>. QED BY <1>1, <1>2, <2>1, <3>1
  <2>2. CASE i = Len(s) + 1
    BY <1>1, <1>2, <2>2
  <2>. QED BY <1>3, <2>1, <2>2
<1>6. \A g : (\E i \in DOMAIN r : r[i] = g) <=> (g = f \/ \E i \in DOMAIN s : s[i] = g)
  BY <1>1, <1>2, <1>3
<1>7. Range(r) = Range(s) \cup {f}
  BY <1>6 DEF Range
<1>. QED BY <1>2, <1>4, <1>5, <1>7 DEF r, SoundLog

\* The records of a user's entries are facts.
LEMMA EntryTypes ==
  ASSUME NEW p \in Pendings
  PROVE  /\ User(p) \in Facts /\ Fact(0, "config", p.msg.model) \in Facts
         /\ Fact(0, "header", p.msg.model) \in Facts
         /\ UserEntries(p) \in Seq(Facts) /\ CreatedEntries(p) \in Seq(Facts)
         /\ p.term # None => Result(p.turn, p.term) \in Facts
         /\ p.turn \in Nat \ {0} /\ p # None
<1>1. /\ p.msg \in Messages /\ p.msg.model \in Models \cup Selections
      /\ p.turn \in Nat \ {0}
      /\ p.term # None => p.term \in Terms
  BY TurnAssumption, RestoreAssumption DEF Pendings, Messages, Terms
<1>2. /\ User(p) \in Facts /\ Fact(0, "config", p.msg.model) \in Facts
      /\ Fact(0, "header", p.msg.model) \in Facts
      /\ p.term # None => Result(p.turn, p.term) \in Facts
  BY <1>1 DEF User, Fact, Facts, Result
<1>3. <<>> \in Seq(Facts) /\ \A f \in Facts : <<f>> \in Seq(Facts)
  OBVIOUS
<1>4. UserEntries(p) \in Seq(Facts)
  BY <1>2, <1>3, ConcatProperties DEF UserEntries
<1>5. CreatedEntries(p) \in Seq(Facts)
  <2>1. <<Fact(0, "header", p.msg.model)>> \in Seq(Facts)
    BY <1>2, <1>3
  <2>. QED BY <1>4, <2>1, ConcatProperties DEF CreatedEntries
<1>. QED BY <1>1, <1>2, <1>4, <1>5, RestoreAssumption

\* The changed model goes before the user's message.
Changed(p) == IF p.changed THEN {Fact(0, "config", p.msg.model)} ELSE {}

LEMMA PutUser ==
  ASSUME NEW s, SoundLog(s), NEW p \in Pendings,
         \A g \in Range(s) : g.turn = p.turn => g.kind # "user"
  PROVE  /\ SoundLog(s \o UserEntries(p))
         /\ Range(s \o UserEntries(p)) = Range(s) \cup Changed(p) \cup {User(p)}
<1> DEFINE f == Fact(0, "config", p.msg.model)
           r == IF p.changed THEN s \o <<f>> ELSE s
<1>1. f \in Facts /\ User(p) \in Facts /\ s \in Seq(Facts) /\ p.turn # 0
  BY EntryTypes DEF SoundLog
<1>2. f.kind = "config" /\ User(p).kind = "user" /\ User(p).turn = p.turn /\ f.turn = 0
  BY DEF Fact, User
<1>3. SoundLog(r) /\ Range(r) = Range(s) \cup Changed(p)
  BY <1>1, <1>2, PutFact DEF Changed
<1>4. \A g \in Range(r) : g.turn = p.turn => g.kind # "user"
  BY <1>1, <1>2, <1>3 DEF Changed
<1>5. s \o UserEntries(p) = r \o <<User(p)>>
  <2>1. <<f>> \in Seq(Facts) /\ <<User(p)>> \in Seq(Facts)
    BY <1>1
  <2>2. CASE p.changed
    <3>1. s \o (<<f>> \o <<User(p)>>) = (s \o <<f>>) \o <<User(p)>>
      BY <1>1, <2>1, ConcatAssociative
    <3>. QED BY <2>2, <3>1 DEF UserEntries
  <2>3. CASE ~ p.changed
    <3>1. <<>> \o <<User(p)>> = <<User(p)>>
      BY <2>1, ConcatEmptySeq
    <3>. QED BY <2>3, <3>1 DEF UserEntries
  <2>. QED BY <2>2, <2>3
<1> HIDE DEF r, f
<1>6. SoundLog(r \o <<User(p)>>) /\ Range(r \o <<User(p)>>) = Range(r) \cup {User(p)}
  BY <1>1, <1>2, <1>3, <1>4, PutFact
<1>. QED BY <1>3, <1>5, <1>6

(* The first log of a session.                                              *)
LEMMA PutFirst ==
  ASSUME NEW p \in Pendings
  PROVE  /\ SoundLog(CreatedEntries(p))
         /\ Range(CreatedEntries(p)) =
              {Fact(0, "header", p.msg.model)} \cup Changed(p) \cup {User(p)}
<1> DEFINE f == Fact(0, "header", p.msg.model)
<1>1. f \in Facts /\ f.kind = "header" /\ f.turn = 0 /\ p.turn # 0
  BY EntryTypes DEF Fact
<1>2. SoundLog(<<>>) /\ Range(<<>>) = {}
  BY DEF SoundLog, Once, Follows, Range
<1> HIDE DEF f
<1>3. SoundLog(<<>> \o <<f>>) /\ Range(<<>> \o <<f>>) = {f}
  <2>1. f.kind \notin {"user", "result"}
    BY <1>1
  <2>2. SoundLog(<<>> \o <<f>>) /\ Range(<<>> \o <<f>>) = Range(<<>>) \cup {f}
    BY <1>1, <1>2, <2>1, PutFact
  <2>. QED BY <1>2, <2>2
<1>4. <<>> \o <<f>> = <<f>>
  <2>1. <<f>> \in Seq(Facts)
    BY <1>1
  <2>. QED BY <2>1, ConcatEmptySeq
<1>5. /\ SoundLog(<<f>> \o UserEntries(p))
      /\ Range(<<f>> \o UserEntries(p)) = {f} \cup Changed(p) \cup {User(p)}
  BY <1>1, <1>3, <1>4, PutUser
<1>. QED BY <1>5 DEF CreatedEntries, f
-----------------------------------------------------------------------------
(***************************************************************************)
(* The calls of the store.                                                 *)
(***************************************************************************)
SameLog(s, r) == LogOf(r) = LogOf(s) /\ r.queue \in {s.queue, <<>>}

(* A failing call answers no, and leaves one of its outcomes.               *)
Alike(s, r) == r.at = s.at /\ r.facts = s.facts /\ r.queue = s.queue

LEMMA FailingCalls ==
  ASSUME NEW st \in Stores, NEW S, \A s \in S : s \in Stores, NEW o \in Failing(st, S)
  PROVE  /\ o.st \in Stores /\ o.ok = FALSE
         /\ \E s \in S : Alike(s, o.st)
<1>1. st.failures + 1 \in Nat
  BY DEF Stores
<1>2. PICK s \in S : o = Answers([s EXCEPT !.failures = st.failures + 1], FALSE)
  BY DEF Failing
<1>3. s \in Stores
  OBVIOUS
<1>4. o.st = [s EXCEPT !.failures = st.failures + 1] /\ o.ok = FALSE
  BY <1>2 DEF Answers
<1>5. o.st \in Stores /\ Alike(s, o.st)
  BY <1>1, <1>3, <1>4 DEF Stores, Alike
<1>. QED BY <1>4, <1>5

LEMMA WrittenIs ==
  ASSUME NEW st \in Stores, NEW new \in Seq(Facts)
  PROVE  /\ Written(st, new) \in Stores
         /\ Written(st, new).at = st.at /\ Written(st, new).queue = <<>>
         /\ Written(st, new).facts = LogOf(st) \o new
<1>1. st.facts \o st.queue \in Seq(Facts) /\ (st.facts \o st.queue) \o new \in Seq(Facts)
  <2>1. st.facts \in Seq(Facts) /\ st.queue \in Seq(Facts)
    BY DEF Stores
  <2>. QED BY <2>1, ConcatProperties
<1>2. <<>> \in Seq(Facts)
  OBVIOUS
<1> DEFINE all == (st.facts \o st.queue) \o new
<1>3. Written(st, new) = [st EXCEPT !.facts = all, !.queue = <<>>]
  BY DEF Written
<1>4. all \in Seq(Facts) /\ all = LogOf(st) \o new
  BY <1>1 DEF LogOf
<1> HIDE DEF all
<1>5. PICK r : r = [st EXCEPT !.facts = all, !.queue = <<>>]
  OBVIOUS
<1>6. r \in Stores /\ r.at = st.at /\ r.queue = <<>> /\ r.facts = all
  BY <1>2, <1>4, <1>5 DEF Stores
<1>. QED BY <1>3, <1>4, <1>5, <1>6

LEMMA AnswerIs ==
  ASSUME NEW s, NEW b \in BOOLEAN
  PROVE  Answers(s, b).st = s /\ Answers(s, b).ok = b
  BY DEF Answers

(* What is put behind something is not put behind nothing.                  *)
LEMMA LongerIsNotEmpty ==
  ASSUME NEW s \in Seq(Facts), NEW t \in Seq(Facts), s # <<>>
  PROVE  s \o t # <<>>
<1>1. Len(s) # 0 /\ Len(s) \in Nat /\ Len(t) \in Nat
  BY EmptySeq, LenProperties
<1>2. Len(s \o t) = Len(s) + Len(t)
  BY ConcatProperties
<1>3. Len(s \o t) # 0
  BY <1>1, <1>2
<1>4. Len(<<>>) = 0
  OBVIOUS
<1>. QED BY <1>3, <1>4

(* An append is done, or leaves its batch in the queue, or nothing.         *)
LEMMA AppendCalls ==
  ASSUME NEW st \in Stores, st.queue = <<>>, NEW new \in Seq(Facts),
         NEW o \in AppendCall(st, new)
  PROVE  /\ o.st \in Stores /\ o.ok \in BOOLEAN /\ o.st.at = st.at
         /\ SameLog(st, o.st) \/ LogOf(o.st) = LogOf(st) \o new
         /\ o.ok => LogOf(o.st) = LogOf(st) \o new /\ o.st.queue = <<>>
         /\ st.at # "there" => ~ o.ok /\ SameLog(st, o.st)
         /\ st.facts # <<>> => o.st.facts # <<>>
<1> DEFINE S == {st, [st EXCEPT !.queue = @ \o new],
                 [Written(st, <<>>) EXCEPT !.queue = new], Written(st, new)}
<1>1. /\ LogOf(st) = st.facts /\ st.facts \in Seq(Facts) /\ <<>> \in Seq(Facts)
      /\ <<>> \o new = new /\ st.facts \o new \in Seq(Facts)
      /\ st.facts \o <<>> = st.facts /\ (st.facts \o new) \o <<>> = st.facts \o new
      /\ st.facts # <<>> => st.facts \o new # <<>>
  BY LongerIsNotEmpty, LogTypes, ConcatEmptySeq, ConcatProperties
<1>2. CASE st.at # "there"
  <2>1. o = Answers(st, FALSE)
    BY <1>2 DEF AppendCall
  <2>2. o.st = st /\ o.ok = FALSE
    BY <2>1, AnswerIs
  <2>. QED BY <1>2, <2>2 DEF SameLog
<1>3. CASE st.at = "there"
  <2>1. o = Answers(Written(st, new), TRUE) \/ o \in Failing(st, S)
    BY <1>3 DEF AppendCall
  <2>2. /\ Written(st, new) \in Stores /\ Written(st, new).at = st.at
        /\ Written(st, new).queue = <<>> /\ Written(st, new).facts = st.facts \o new
    BY <1>1, WrittenIs
  <2>3. PICK r : r = [st EXCEPT !.queue = st.queue \o new]
    OBVIOUS
  <2>4. r \in Stores /\ r.at = st.at /\ r.queue = new /\ r.facts = st.facts
    BY <1>1, <2>3 DEF Stores
  <2>5. PICK v : v = Written(st, <<>>)
    OBVIOUS
  <2>6. v \in Stores /\ v.at = st.at /\ v.queue = <<>> /\ v.facts = st.facts
    BY <1>1, <2>5, WrittenIs
  <2>7. PICK u : u = [v EXCEPT !.queue = new]
    OBVIOUS
  <2>8. u \in Stores /\ u.at = st.at /\ u.queue = new /\ u.facts = st.facts
    BY <2>6, <2>7 DEF Stores
  <2>9. S = {st, r, u, Written(st, new)}
    BY <2>3, <2>5, <2>7
  <2> HIDE DEF S
  <2>10. CASE o = Answers(Written(st, new), TRUE)
    <3>1. o.st = Written(st, new) /\ o.ok = TRUE
      BY <2>10, AnswerIs
    <3>. QED BY <1>1, <1>3, <2>2, <3>1 DEF LogOf
  <2>11. CASE o \in Failing(st, S)
    <3>1. \A s \in S : s \in Stores
      BY <2>2, <2>4, <2>8, <2>9
    <3>2. /\ o.st \in Stores /\ o.ok = FALSE
          /\ \E s \in S : Alike(s, o.st)
      BY <2>11, <3>1, FailingCalls
    <3>3. \/ Alike(st, o.st) \/ Alike(r, o.st) \/ Alike(u, o.st) \/ Alike(Written(st, new), o.st)
      BY <2>9, <3>2
    <3>. QED BY <1>1, <1>3, <2>2, <2>4, <2>8, <3>2, <3>3 DEF Alike, LogOf, SameLog
  <2>. QED BY <2>1, <2>10, <2>11
<1>. QED BY <1>2, <1>3

(* A flush keeps the log; if it succeeds nothing waits in the queue.        *)
LEMMA FlushCalls ==
  ASSUME NEW st \in Stores, NEW o \in FlushCall(st)
  PROVE  /\ o.st \in Stores /\ o.ok \in BOOLEAN /\ SameLog(st, o.st)
         /\ o.ok => /\ o.st.queue = <<>> /\ o.st.at \in {"absent", "there"}
                    /\ st.at \in {"hidden", "there"} => o.st.at = "there"
                    /\ st.at \in {"absent", "gone"} => o.st.at = "absent"
         /\ ~ o.ok => o.st.at = st.at
         /\ st.facts # <<>> => o.st.facts # <<>>
<1>1. /\ LogOf(st) \in Seq(Facts) /\ LogOf(st) \o <<>> = LogOf(st) /\ <<>> \in Seq(Facts)
      /\ st.facts \in Seq(Facts) /\ st.queue \in Seq(Facts)
      /\ st.facts # <<>> => LogOf(st) # <<>>
  <2>1. st.facts \in Seq(Facts) /\ st.queue \in Seq(Facts) /\ LogOf(st) \in Seq(Facts)
    BY LogTypes
  <2>2. st.facts # <<>> => LogOf(st) # <<>>
    BY <2>1, LongerIsNotEmpty DEF LogOf
  <2>. QED BY <2>1, <2>2, ConcatEmptySeq
<1>2. PICK v : v = Written(st, <<>>)
  OBVIOUS
<1>3. v \in Stores /\ v.at = st.at /\ v.queue = <<>> /\ v.facts = LogOf(st)
  BY <1>1, <1>2, WrittenIs
<1>4. PICK b : b = CASE st.at = "hidden" -> "there" [] st.at = "gone" -> "absent" [] OTHER -> st.at
  OBVIOUS
<1>5. /\ b \in {"absent", "there"}
      /\ st.at \in {"hidden", "there"} => b = "there"
      /\ st.at \in {"absent", "gone"} => b = "absent"
  BY <1>4 DEF Stores
<1>6. PICK d : d = [v EXCEPT !.at = b]
  OBVIOUS
<1>7. d \in Stores /\ d.at = b /\ d.queue = <<>> /\ d.facts = LogOf(st)
  BY <1>3, <1>5, <1>6 DEF Stores
<1>8. o = Answers(d, TRUE) \/ o \in Failing(st, {st, v})
  BY <1>2, <1>4, <1>6 DEF FlushCall
<1>9. CASE o = Answers(d, TRUE)
  <2>1. o.st = d /\ o.ok = TRUE
    BY <1>9, AnswerIs
  <2>. QED BY <1>1, <1>5, <1>7, <2>1 DEF SameLog, LogOf
<1>10. CASE o \in Failing(st, {st, v})
  <2> DEFINE S == {st, v}
  <2>0. \A s \in S : s \in Stores
    BY <1>3
  <2> HIDE DEF S
  <2>1. /\ o.st \in Stores /\ o.ok = FALSE
        /\ \E s \in S : Alike(s, o.st)
    <3>1. o \in Failing(st, S)
      BY <1>10 DEF S
    <3>. QED BY <2>0, <3>1, FailingCalls
  <2>2. Alike(st, o.st) \/ Alike(v, o.st)
    BY <2>1 DEF S
  <2>. QED BY <1>1, <1>3, <2>1, <2>2 DEF SameLog, LogOf, Alike
<1>. QED BY <1>8, <1>9, <1>10

(* A load changes nothing, and succeeds only on a session that is there.    *)
LEMMA LoadCalls ==
  ASSUME NEW st \in Stores, NEW o \in LoadCall(st)
  PROVE  /\ o.st \in Stores /\ o.ok \in BOOLEAN /\ SameLog(st, o.st) /\ Alike(st, o.st)
         /\ o.ok => st.at = "there"
<1>1. CASE o = Answers(st, st.at = "there")
  <2>1. o.st = st /\ o.ok = (st.at = "there")
    BY <1>1, AnswerIs
  <2>. QED BY <2>1 DEF SameLog, Alike
<1>2. CASE o \in Failing(st, {st})
  <2> DEFINE S == {st}
  <2>0. \A s \in S : s \in Stores
    OBVIOUS
  <2> HIDE DEF S
  <2>1. /\ o.st \in Stores /\ o.ok = FALSE
        /\ \E s \in S : Alike(s, o.st)
    <3>1. o \in Failing(st, S)
      BY <1>2 DEF S
    <3>. QED BY <2>0, <3>1, FailingCalls
  <2>2. Alike(st, o.st)
    BY <2>1 DEF S
  <2>. QED BY <2>1, <2>2 DEF SameLog, Alike, LogOf
<1>. QED BY <1>1, <1>2 DEF LoadCall

(* A create writes its whole batch or nothing, and nothing where there is a *)
(* session.                                                                 *)
LEMMA CreateCalls ==
  ASSUME NEW st \in Stores, NEW new \in Seq(Facts), NEW o \in CreateCall(st, new),
         st.at = "absent" => st.queue = <<>>
  PROVE  /\ o.st \in Stores /\ o.ok \in BOOLEAN
         /\ \/ SameLog(st, o.st) /\ Alike(st, o.st) /\ ~ o.ok
            \/ /\ st.at = "absent" /\ LogOf(o.st) = new /\ o.st.queue = <<>>
               /\ o.st.at \in {"hidden", "there"}
               /\ o.ok => o.st.at = "there"
<1>1. CASE st.at # "absent"
  <2>1. o = Answers(st, FALSE)
    BY <1>1 DEF CreateCall
  <2>2. o.st = st /\ o.ok = FALSE
    BY <2>1, AnswerIs
  <2>. QED BY <2>2 DEF SameLog, Alike
<1>2. CASE st.at = "absent"
  <2> DEFINE S == {st} \cup {[st EXCEPT !.at = a, !.facts = new] : a \in {"hidden", "there"}}
  <2>1. PICK r : r = [st EXCEPT !.at = "hidden", !.facts = new]
    OBVIOUS
  <2>2. PICK v : v = [st EXCEPT !.at = "there", !.facts = new]
    OBVIOUS
  <2>3. /\ r \in Stores /\ r.at = "hidden" /\ r.facts = new /\ r.queue = <<>>
        /\ v \in Stores /\ v.at = "there" /\ v.facts = new /\ v.queue = <<>>
        /\ new \o <<>> = new
    <3>1. st.queue = <<>> /\ new \o <<>> = new
      BY <1>2, ConcatEmptySeq
    <3>2. r \in Stores /\ r.at = "hidden" /\ r.facts = new /\ r.queue = st.queue
      BY <2>1 DEF Stores
    <3>3. v \in Stores /\ v.at = "there" /\ v.facts = new /\ v.queue = st.queue
      BY <2>2 DEF Stores
    <3>. QED BY <3>1, <3>2, <3>3
  <2>4. S = {st, r, v}
    BY <2>1, <2>2
  <2>5. o = Answers(v, TRUE) \/ o \in Failing(st, S)
    BY <1>2, <2>2 DEF CreateCall
  <2> HIDE DEF S
  <2>6. CASE o = Answers(v, TRUE)
    <3>1. o.st = v /\ o.ok = TRUE
      BY <2>6, AnswerIs
    <3>. QED BY <1>2, <2>3, <3>1 DEF LogOf
  <2>7. CASE o \in Failing(st, S)
    <3>1. \A s \in S : s \in Stores
      BY <2>3, <2>4
    <3>2. /\ o.st \in Stores /\ o.ok = FALSE
          /\ \E s \in S : Alike(s, o.st)
      BY <2>7, <3>1, FailingCalls
    <3>3. Alike(st, o.st) \/ Alike(r, o.st) \/ Alike(v, o.st)
      BY <2>4, <3>2
    <3>. QED BY <1>2, <2>3, <3>2, <3>3 DEF Alike, LogOf, SameLog
  <2>. QED BY <2>5, <2>6, <2>7
<1>. QED BY <1>1, <1>2

(* A delete takes the log with it, or leaves the session as it was.         *)
LEMMA DeleteCalls ==
  ASSUME NEW st \in Stores, NEW o \in DeleteCall(st)
  PROVE  /\ o.st \in Stores /\ o.ok \in BOOLEAN
         /\ \/ o.st.at = "absent" /\ o.st.facts = <<>> /\ o.st.queue = <<>>
            \/ /\ ~ o.ok /\ o.st.at = "gone" /\ o.st.facts = <<>> /\ o.st.queue = <<>>
               /\ st.at # "absent"
            \/ ~ o.ok /\ Alike(st, o.st) /\ SameLog(st, o.st)
<1> DEFINE e == [st EXCEPT !.facts = <<>>, !.queue = <<>>]
<1>1. <<>> \in Seq(Facts)
  OBVIOUS
<1>2. PICK v : v = e
  OBVIOUS
<1>3. v \in Stores /\ v.at = st.at /\ v.facts = <<>> /\ v.queue = <<>>
  BY <1>1, <1>2 DEF Stores
<1>4. PICK r : r = [v EXCEPT !.at = "absent"]
  OBVIOUS
<1>5. PICK g : g = [v EXCEPT !.at = "gone"]
  OBVIOUS
<1>6. /\ r \in Stores /\ r.at = "absent" /\ r.facts = <<>> /\ r.queue = <<>>
      /\ g \in Stores /\ g.at = "gone" /\ g.facts = <<>> /\ g.queue = <<>>
  BY <1>3, <1>4, <1>5 DEF Stores
<1> DEFINE S == {st} \cup (IF st.at = "absent" THEN {} ELSE {g})
<1>7. o = Answers(r, TRUE) \/ o \in Failing(st, S)
  BY <1>2, <1>4, <1>5 DEF DeleteCall
<1>8. CASE o = Answers(r, TRUE)
  <2>1. o.st = r /\ o.ok = TRUE
    BY <1>8, AnswerIs
  <2>. QED BY <1>6, <2>1
<1>9. CASE o \in Failing(st, S)
  <2>1. \A s \in S : s \in Stores
    BY <1>6
  <2> HIDE DEF S
  <2>2. /\ o.st \in Stores /\ o.ok = FALSE
        /\ \E s \in S : Alike(s, o.st)
    BY <1>9, <2>1, FailingCalls
  <2>3. Alike(st, o.st) \/ (st.at # "absent" /\ Alike(g, o.st))
    BY <2>2 DEF S
  <2>. QED BY <1>6, <2>2, <2>3 DEF Alike, LogOf, SameLog
<1>. QED BY <1>7, <1>8, <1>9
-----------------------------------------------------------------------------
(***************************************************************************)
(* The changes of the controller.                                          *)
(***************************************************************************)
LEMMA ControllerTypes ==
  ASSUME NEW c \in Controllers
  PROVE  /\ c.deleted \in BOOLEAN /\ c.bound \in BOOLEAN
         /\ c.model \in Models \cup Selections \cup {None}
         /\ c.pend # None => /\ c.pend \in Pendings
                             /\ c.pend.user \in BOOLEAN /\ c.pend.created \in BOOLEAN
                             /\ c.pend.turn \in Nat \ {0} /\ c.pend.msg.model \in Models \cup Selections
<1>1. /\ c.deleted \in BOOLEAN /\ c.bound \in BOOLEAN
      /\ c.model \in Models \cup Selections \cup {None}
      /\ c.pend # None => c.pend \in Pendings
  BY DEF Controllers
<1>2. ASSUME c.pend # None
      PROVE  /\ c.pend.user \in BOOLEAN /\ c.pend.created \in BOOLEAN
             /\ c.pend.turn \in Nat \ {0} /\ c.pend.msg.model \in Models \cup Selections
  BY <1>1, <1>2, TurnAssumption, RestoreAssumption DEF Pendings
<1>. QED BY <1>1, <1>2

LEMMA BegunIs ==
  ASSUME NEW c \in Controllers, c.pend # None, NEW st
  PROVE  LET o == Begun(c, st)
         IN  /\ o.st = st /\ o.answer = "ok"
             /\ o.c \in Controllers /\ o.c.deleted = c.deleted /\ o.c.bound = c.bound
             /\ o.c.pend \in Pendings /\ o.c.pend.turn = c.pend.turn /\ o.c.pend.user = TRUE
             /\ o.c.pend.term = c.pend.term /\ o.c.pend.created = c.pend.created
             /\ User(o.c.pend) = User(c.pend)
<1> DEFINE p == [c.pend EXCEPT !.user = TRUE]
           d == [c EXCEPT !.pend = p, !.model = c.pend.msg.model]
<1>1. c.pend \in Pendings /\ c.pend.msg.model \in Models \cup Selections
  BY ControllerTypes
<1>2. /\ p \in Pendings /\ p.turn = c.pend.turn /\ p.user = TRUE /\ p.term = c.pend.term
      /\ p.created = c.pend.created /\ p.msg = c.pend.msg
  BY <1>1 DEF Pendings
<1>3. Begun(c, st) = Out(d, st, "ok")
  BY DEF Begun
<1> HIDE DEF p
<1>4. d \in Controllers /\ d.deleted = c.deleted /\ d.bound = c.bound /\ d.pend = p
  BY <1>1, <1>2 DEF Controllers
<1> HIDE DEF d
<1>. QED BY <1>2, <1>3, <1>4 DEF Out, User

LEMMA MarkCreatedIs ==
  ASSUME NEW c \in Controllers, c.pend # None
  PROVE  LET d == MarkCreated(c)
         IN  /\ d \in Controllers /\ d.deleted = c.deleted /\ d.bound = TRUE
             /\ d.pend \in Pendings /\ d.pend # None
             /\ d.pend.turn = c.pend.turn /\ d.pend.user = c.pend.user
             /\ d.pend.term = c.pend.term /\ d.pend.created = TRUE
             /\ User(d.pend) = User(c.pend)
<1> DEFINE p == [c.pend EXCEPT !.created = TRUE]
           d == [c EXCEPT !.bound = TRUE, !.model = c.pend.msg.model, !.pend = p]
<1>1. c.pend \in Pendings /\ c.pend.msg.model \in Models \cup Selections
  BY ControllerTypes
<1>2. /\ p \in Pendings /\ p.turn = c.pend.turn /\ p.user = c.pend.user /\ p.term = c.pend.term
      /\ p.created = TRUE /\ p.msg = c.pend.msg
  BY <1>1 DEF Pendings
<1>3. MarkCreated(c) = d
  BY DEF MarkCreated
<1> HIDE DEF p
<1>4. d \in Controllers /\ d.deleted = c.deleted /\ d.bound = TRUE /\ d.pend = p
  BY <1>1, <1>2 DEF Controllers
<1>5. p # None
  BY <1>2, RestoreAssumption
<1> HIDE DEF d
<1>. QED BY <1>2, <1>3, <1>4, <1>5 DEF User

WithPend(c, p) == [c EXCEPT !.pend = p]

LEMMA EndedIs ==
  ASSUME NEW c \in Controllers
  PROVE  LET d == WithPend(c, None)
         IN  d \in Controllers /\ d.deleted = c.deleted /\ d.bound = c.bound /\ d.pend = None
BY DEF Controllers, WithPend

WithTerm(p, x) == [p EXCEPT !.term = x]

LEMMA TermIs ==
  ASSUME NEW c \in Controllers, c.pend # None, NEW x \in Terms
  PROVE  LET d == WithPend(c, WithTerm(c.pend, x))
         IN  /\ d \in Controllers /\ d.deleted = c.deleted /\ d.bound = c.bound
             /\ d.pend \in Pendings /\ d.pend # None
             /\ d.pend.turn = c.pend.turn /\ d.pend.user = c.pend.user
             /\ d.pend.term = x /\ d.pend.created = c.pend.created
             /\ User(d.pend) = User(c.pend)
<1> DEFINE p == [c.pend EXCEPT !.term = x]
           d == [c EXCEPT !.pend = p]
<1>1. c.pend \in Pendings
  BY ControllerTypes
<1>2. /\ p \in Pendings /\ p.turn = c.pend.turn /\ p.user = c.pend.user /\ p.term = x
      /\ p.created = c.pend.created /\ p.msg = c.pend.msg
  BY <1>1 DEF Pendings, Terms
<1> HIDE DEF p
<1>4. d \in Controllers /\ d.deleted = c.deleted /\ d.bound = c.bound /\ d.pend = p
  BY <1>1, <1>2 DEF Controllers
<1>5. p # None
  BY <1>2, RestoreAssumption
<1>6. d = WithPend(c, WithTerm(c.pend, x))
  BY DEF p, WithPend, WithTerm
<1> HIDE DEF d
<1>. QED BY <1>2, <1>4, <1>5, <1>6 DEF User

Started(c, t, m) == WithPend(c, PendingTurn(t, m, c.bound, c.bound /\ c.model # m.model))

LEMMA StartedIs ==
  ASSUME NEW c \in Controllers, NEW t \in Turns, NEW m \in Messages
  PROVE  LET d == Started(c, t, m)
         IN  /\ d \in Controllers /\ d.deleted = c.deleted /\ d.bound = c.bound
             /\ d.pend \in Pendings /\ d.pend # None
             /\ d.pend.turn = t /\ d.pend.user = FALSE
             /\ d.pend.term = None /\ d.pend.created = c.bound
<1> DEFINE p == PendingTurn(t, m, c.bound, c.bound /\ c.model # m.model)
           d == [c EXCEPT !.pend = p]
<1>1. c.bound \in BOOLEAN
  BY ControllerTypes
<1>2. /\ p \in Pendings /\ p.turn = t /\ p.user = FALSE /\ p.term = None /\ p.created = c.bound
  BY <1>1 DEF Pendings, Turns, Messages, PendingTurn
<1> HIDE DEF p
<1>4. d \in Controllers /\ d.deleted = c.deleted /\ d.bound = c.bound /\ d.pend = p
  BY <1>1, <1>2 DEF Controllers
<1>5. p # None
  BY <1>2, RestoreAssumption
<1>6. d = Started(c, t, m)
  BY DEF p, WithPend, Started
<1> HIDE DEF d
<1>. QED BY <1>2, <1>4, <1>5, <1>6

\* What a call leaves of a store whose log it keeps.
Kept(s, r) ==
  /\ r \in Stores /\ SameLog(s, r)
  /\ \/ r.at = s.at
     \/ s.at = "hidden" /\ r.at = "there"
     \/ s.at = "gone" /\ r.at = "absent"

LEMMA LedgerTypes ==
  ASSUME NEW c, NEW st, LedgerOK(c, st)
  PROVE  /\ c \in Controllers /\ st \in Stores /\ SoundLog(LogOf(st))
         /\ Told(st) = Range(LogOf(st)) /\ st.at \in {"absent", "hidden", "there", "gone"}
         /\ st.queue = <<>> => LogOf(st) = st.facts
         /\ st.at \in {"absent", "gone"} => LogOf(st) = <<>> /\ Told(st) = {}
<1>1. c \in Controllers /\ st \in Stores /\ SoundLog(LogOf(st))
  BY DEF LedgerOK
<1>2. st.queue = <<>> => LogOf(st) = st.facts
  BY <1>1, LogTypes
<1>3. Range(<<>>) = {}
  BY DEF Range
<1>4. st.at \in {"absent", "gone"} => st.queue = <<>> /\ st.facts = <<>>
  BY DEF LedgerOK
<1>5. st.at \in {"absent", "hidden", "there", "gone"}
  BY <1>1 DEF Stores
<1>. QED BY <1>1, <1>2, <1>3, <1>4, <1>5 DEF Told

LEMMA LedgerKept ==
  ASSUME NEW c, NEW s, NEW r, LedgerOK(c, s), Kept(s, r), NEW b
  PROVE  LedgerOK(c, r) /\ (BegunIn(c, s, b) => BegunIn(c, r, b))
<1>1. /\ c \in Controllers /\ s \in Stores /\ r \in Stores /\ LogOf(r) = LogOf(s)
      /\ Told(r) = Told(s) /\ r.queue \in {s.queue, <<>>}
  BY LedgerTypes DEF Kept, SameLog, Told
<1>2. s.at \in {"absent", "gone"} => r.at \in {"absent", "gone"} /\ r.facts = <<>>
  <2>1. r.queue = <<>> => LogOf(r) = r.facts
    BY <1>1, LogTypes
  <2>2. s.at \in {"absent", "gone"} => s.queue = <<>> /\ LogOf(s) = <<>>
    BY LedgerTypes DEF LedgerOK
  <2>. QED BY <1>1, <2>1, <2>2 DEF Kept
<1>3. c.bound => s.at # "hidden"
  BY DEF LedgerOK
<1>4. LedgerOK(c, r)
  BY <1>1, <1>2, <1>3 DEF LedgerOK, Kept
<1>5. BegunIn(c, s, b) => BegunIn(c, r, b)
  BY <1>1, <1>2, <1>3 DEF BegunIn, Kept
<1>. QED BY <1>4, <1>5

-----------------------------------------------------------------------------
(***************************************************************************)
(* begin_turn and its retries.                                             *)
(***************************************************************************)
\* A turn that is not begun, with the turns b behind it, and what an attempt to
\* begin it leads to.
Trying(c, st, b) ==
  LedgerOK(c, st) /\ BegunIn(c, st, b) /\ ~ c.deleted /\ c.pend # None /\ ~ c.pend.user

Tried(c, o, b) ==
  /\ LedgerOK(o.c, o.st) /\ o.answer \in {"ok", "storage"}
  /\ ~ o.c.deleted /\ o.c.pend # None /\ o.c.pend.turn = c.pend.turn /\ o.c.pend.term = None
  /\ o.c.pend.user <=> o.answer = "ok"
  /\ o.answer = "ok" => c.pend.turn \notin b /\ BegunIn(o.c, o.st, b \cup {c.pend.turn})
  /\ o.answer # "ok" => BegunIn(o.c, o.st, b)

LEMMA TryingTypes ==
  ASSUME NEW c, NEW st, NEW b, Trying(c, st, b)
  PROVE  /\ c \in Controllers /\ st \in Stores /\ LedgerOK(c, st) /\ BegunIn(c, st, b)
         /\ c.deleted = FALSE /\ c.bound \in BOOLEAN /\ c.pend # None /\ c.pend \in Pendings
         /\ c.pend.user = FALSE /\ c.pend.term = None
         /\ c.bound <=> c.pend.created
         /\ \A f \in Told(st) : f.turn = c.pend.turn => f = User(c.pend)
         /\ User(c.pend).turn = c.pend.turn /\ User(c.pend).kind = "user"
<1>1. LedgerOK(c, st) /\ BegunIn(c, st, b) /\ ~ c.deleted /\ c.pend # None /\ ~ c.pend.user
  BY DEF Trying
<1>2. c \in Controllers /\ st \in Stores
  BY <1>1, LedgerTypes
<1>3. c.pend \in Pendings /\ c.pend.user \in BOOLEAN /\ c.deleted \in BOOLEAN /\ c.bound \in BOOLEAN
  BY <1>1, <1>2, ControllerTypes
<1>4. PendOK(c.pend, Told(st)) /\ (c.bound <=> c.pend.created)
  BY <1>1 DEF LedgerOK
<1>5. /\ c.pend.term = None
      /\ \A f \in Told(st) : f.turn = c.pend.turn => f = User(c.pend)
  BY <1>1, <1>4 DEF PendOK
<1>6. User(c.pend).turn = c.pend.turn /\ User(c.pend).kind = "user"
  BY DEF User, Fact
<1>. QED BY <1>1, <1>2, <1>3, <1>4, <1>5, <1>6

\* A call that kept the log leaves the turn as it was.
LEMMA StillTrying ==
  ASSUME NEW c, NEW st, NEW b, Trying(c, st, b), NEW r, Kept(st, r)
  PROVE  Trying(c, r, b)
BY LedgerKept DEF Trying

LEMMA NotTried ==
  ASSUME NEW c, NEW st, NEW b, Trying(c, st, b)
  PROVE  Tried(c, Out(c, st, "storage"), b)
<1>1. PICK o : o = Out(c, st, "storage")
  OBVIOUS
<1>2. o.c = c /\ o.st = st /\ o.answer = "storage"
  BY <1>1 DEF Out
<1>3. Tried(c, o, b)
  BY <1>2, TryingTypes DEF Tried
<1>. QED BY <1>1, <1>3

\* The user's fact is in the log: the turn begins.
LEMMA TriedOnce ==
  ASSUME NEW c, NEW st, NEW b, Trying(c, st, b), c.bound, st.at = "there", st.queue = <<>>,
         \E f \in Told(st) : f.turn = c.pend.turn
  PROVE  Tried(c, Begun(c, st), b)
<1>1. PICK o : o = Begun(c, st)
  OBVIOUS
<1>2. /\ o.st = st /\ o.answer = "ok"
      /\ o.c \in Controllers /\ o.c.deleted = FALSE /\ o.c.bound
      /\ o.c.pend \in Pendings /\ o.c.pend.turn = c.pend.turn /\ o.c.pend.user = TRUE
      /\ o.c.pend.term = None /\ o.c.pend.created = c.pend.created /\ c.pend.created
  <2>1. /\ c \in Controllers /\ c.pend # None /\ c.deleted = FALSE
        /\ c.pend.term = None /\ c.pend.created
    BY TryingTypes
  <2>. QED BY <1>1, <2>1, BegunIs
<1>3. o.c.pend # None
  BY <1>2, RestoreAssumption
<1>4. \A f \in Told(st) : f.turn = c.pend.turn => f.kind # "result"
  BY TryingTypes
<1>5. PendOK(o.c.pend, Told(st))
  BY <1>2, <1>4 DEF PendOK
<1>6. LedgerOK(o.c, st)
  BY <1>2, <1>3, <1>5, TryingTypes DEF LedgerOK
<1>7. /\ c.pend.turn \notin b
      /\ \A t \in b : /\ \E f \in Told(st) : f.turn = t
                      /\ \E f \in Told(st) : f.turn = t /\ f.kind = "result"
  <2>1. BegunIn(c, st, b) /\ c.deleted = FALSE /\ c.pend.user = FALSE
    BY TryingTypes
  <2>2. \A t \in b : /\ \E f \in Told(st) : f.turn = t
                     /\ \E f \in Told(st) : f.turn = t /\ f.kind = "result"
    BY <2>1 DEF BegunIn, Waiting
  <2>. QED BY <1>4, <2>2
<1>8. BegunIn(o.c, st, b \cup {c.pend.turn})
  <2> SUFFICES ASSUME NEW t \in b \cup {c.pend.turn}
               PROVE  /\ \E f \in Told(st) : f.turn = t
                      /\ \/ \E f \in Told(st) : f.turn = t /\ f.kind = "result"
                         \/ Waiting(o.c) /\ o.c.pend.turn = t
    BY <1>2 DEF BegunIn
  <2>1. CASE t = c.pend.turn
    BY <1>2, <1>3, <2>1 DEF Waiting
  <2>2. CASE t \in b
    BY <1>7, <2>2
  <2>. QED BY <2>1, <2>2
<1>9. Tried(c, o, b)
  BY <1>2, <1>3, <1>6, <1>7, <1>8 DEF Tried
<1>. QED BY <1>1, <1>9

LEMMA AppendsUser ==
  ASSUME NEW c, NEW st, NEW b, Trying(c, st, b), c.bound, st.queue = <<>>,
         \A f \in Told(st) : f.turn # c.pend.turn,
         NEW o \in AppendPendingUser(c, st)
  PROVE  Tried(c, o, b)
<1>1. PICK a \in AppendCall(st, UserEntries(c.pend)) :
        o = IF a.ok THEN Begun(c, a.st) ELSE Out(c, a.st, "storage")
  BY DEF AppendPendingUser
<1>2. c \in Controllers /\ st \in Stores /\ c.pend \in Pendings /\ LedgerOK(c, st)
  BY TryingTypes
<1>3. UserEntries(c.pend) \in Seq(Facts)
  BY <1>2, EntryTypes
<1>4. /\ a.st \in Stores /\ a.ok \in BOOLEAN /\ a.st.at = st.at
      /\ SameLog(st, a.st) \/ LogOf(a.st) = LogOf(st) \o UserEntries(c.pend)
      /\ a.ok => LogOf(a.st) = LogOf(st) \o UserEntries(c.pend) /\ a.st.queue = <<>>
      /\ st.at # "there" => ~ a.ok /\ SameLog(st, a.st)
  BY <1>2, <1>3, AppendCalls
<1>5. CASE SameLog(st, a.st) /\ ~ a.ok
  <2>1. Kept(st, a.st)
    BY <1>4, <1>5 DEF Kept
  <2>2. o = Out(c, a.st, "storage")
    BY <1>1, <1>5
  <2>. QED BY <2>1, <2>2, StillTrying, NotTried
<1>6. CASE LogOf(a.st) = LogOf(st) \o UserEntries(c.pend) /\ st.at = "there"
  <2>1. /\ SoundLog(LogOf(a.st))
        /\ Told(a.st) = Told(st) \cup Changed(c.pend) \cup {User(c.pend)}
    <3>1. SoundLog(LogOf(st)) /\ Told(st) = Range(LogOf(st))
      BY <1>2, LedgerTypes
    <3>. QED BY <1>2, <1>6, <3>1, PutUser DEF Told
  <2>2. \A f \in Changed(c.pend) : f.turn # c.pend.turn
    <3>1. c.pend.turn # 0
      BY <1>2, ControllerTypes, TryingTypes
    <3>. QED BY <3>1 DEF Changed, Fact
  <2>3. /\ \A f \in Told(a.st) : f.turn = c.pend.turn => f = User(c.pend)
        /\ \E f \in Told(a.st) : f.turn = c.pend.turn
        /\ Told(st) \subseteq Told(a.st)
    BY <2>1, <2>2, TryingTypes
  <2>4. LedgerOK(c, a.st)
    <3>1. PendOK(c.pend, Told(a.st))
      BY <2>3, TryingTypes DEF PendOK
    <3>. QED BY <1>2, <1>4, <1>6, <2>1, <3>1, TryingTypes DEF LedgerOK
  <2>5. BegunIn(c, a.st, b)
    <3>1. BegunIn(c, st, b) /\ Told(st) \subseteq Told(a.st) /\ a.st.at = st.at
      BY <1>4, <2>3, TryingTypes
    <3>. QED BY <3>1 DEF BegunIn
  <2>6. Trying(c, a.st, b)
    BY <2>4, <2>5, TryingTypes DEF Trying
  <2>7. CASE a.ok
    <3>1. o = Begun(c, a.st)
      BY <1>1, <2>7
    <3>. QED BY <1>4, <1>6, <2>3, <2>6, <2>7, <3>1, TriedOnce
  <2>8. CASE ~ a.ok
    <3>1. o = Out(c, a.st, "storage")
      BY <1>1, <2>8
    <3>. QED BY <2>6, <3>1, NotTried
  <2>. QED BY <2>7, <2>8
<1>. QED BY <1>4, <1>5, <1>6

LEMMA CreatesSession ==
  ASSUME NEW c, NEW st, NEW b, Trying(c, st, b), ~ c.bound,
         NEW o \in CreatePendingSession(c, st)
  PROVE  Tried(c, o, b)
<1>1. PICK a \in CreateCall(st, CreatedEntries(c.pend)) :
        o = IF a.ok THEN Begun(MarkCreated(c), a.st) ELSE Out(c, a.st, "storage")
  BY DEF CreatePendingSession
<1>2. /\ c \in Controllers /\ st \in Stores /\ c.pend \in Pendings /\ LedgerOK(c, st)
      /\ c.deleted = FALSE /\ c.pend # None /\ c.pend.user = FALSE /\ c.pend.term = None
      /\ ~ c.pend.created /\ BegunIn(c, st, b)
  BY TryingTypes
<1>3. CreatedEntries(c.pend) \in Seq(Facts) /\ (st.at = "absent" => st.queue = <<>>)
  BY <1>2, EntryTypes DEF LedgerOK
<1>4. /\ a.st \in Stores /\ a.ok \in BOOLEAN
      /\ \/ SameLog(st, a.st) /\ Alike(st, a.st) /\ ~ a.ok
         \/ /\ st.at = "absent" /\ LogOf(a.st) = CreatedEntries(c.pend) /\ a.st.queue = <<>>
            /\ a.st.at \in {"hidden", "there"}
            /\ a.ok => a.st.at = "there"
  BY <1>2, <1>3, CreateCalls
<1>5. b = {}
  BY <1>2 DEF BegunIn
<1>6. CASE SameLog(st, a.st) /\ Alike(st, a.st) /\ ~ a.ok
  <2>1. Kept(st, a.st)
    BY <1>4, <1>6 DEF Kept, Alike
  <2>2. o = Out(c, a.st, "storage")
    BY <1>1, <1>6
  <2>. QED BY <2>1, <2>2, StillTrying, NotTried
<1>7. CASE /\ st.at = "absent" /\ LogOf(a.st) = CreatedEntries(c.pend) /\ a.st.queue = <<>>
           /\ a.st.at \in {"hidden", "there"}
           /\ a.ok => a.st.at = "there"
  <2>1. /\ SoundLog(LogOf(a.st))
        /\ Told(a.st) = {Fact(0, "header", c.pend.msg.model)} \cup Changed(c.pend) \cup {User(c.pend)}
    BY <1>2, <1>7, PutFirst DEF Told
  <2>2. /\ \A f \in Told(a.st) : f.turn = c.pend.turn => f = User(c.pend)
        /\ \E f \in Told(a.st) : f.turn = c.pend.turn
    <3>1. c.pend.turn # 0
      BY <1>2, ControllerTypes
    <3>2. Fact(0, "header", c.pend.msg.model).turn = 0 /\ \A f \in Changed(c.pend) : f.turn = 0
      BY DEF Changed, Fact
    <3>3. User(c.pend).turn = c.pend.turn
      BY DEF User, Fact
    <3>. QED BY <2>1, <3>1, <3>2, <3>3
  <2>3. CASE a.ok
    <3>1. PICK d : d = MarkCreated(c)
      OBVIOUS
    <3>2. /\ d \in Controllers /\ d.deleted = FALSE /\ d.bound = TRUE
          /\ d.pend \in Pendings /\ d.pend # None
          /\ d.pend.turn = c.pend.turn /\ d.pend.user = FALSE
          /\ d.pend.term = None /\ d.pend.created = TRUE
          /\ User(d.pend) = User(c.pend)
      BY <1>2, <3>1, MarkCreatedIs
    <3>3. PendOK(d.pend, Told(a.st))
      BY <2>2, <3>2 DEF PendOK
    <3>4. LedgerOK(d, a.st)
      BY <1>4, <1>7, <2>1, <2>3, <3>2, <3>3 DEF LedgerOK
    <3>5. Trying(d, a.st, b)
      BY <1>5, <3>2, <3>4 DEF Trying, BegunIn
    <3>6. Tried(d, Begun(d, a.st), b)
      BY <1>7, <2>2, <2>3, <3>2, <3>5, TriedOnce
    <3>. QED BY <1>1, <2>3, <3>1, <3>2, <3>6 DEF Tried
  <2>4. CASE ~ a.ok
    <3>1. PendOK(c.pend, Told(a.st))
      BY <1>2, <2>2 DEF PendOK
    <3>2. LedgerOK(c, a.st)
      BY <1>2, <1>4, <1>7, <2>1, <3>1 DEF LedgerOK
    <3>3. Trying(c, a.st, b)
      BY <1>2, <1>5, <3>2 DEF Trying, BegunIn
    <3>4. o = Out(c, a.st, "storage")
      BY <1>1, <2>4
    <3>. QED BY <3>3, <3>4, NotTried
  <2>. QED BY <2>3, <2>4
<1>. QED BY <1>4, <1>6, <1>7

LEMMA ResumesUser ==
  ASSUME NEW c, NEW st, NEW b, Trying(c, st, b), c.bound, st.queue = <<>>,
         NEW o \in ResumeUser(c, st)
  PROVE  Tried(c, o, b)
<1>1. PICK a \in LoadCall(st) :
        o \in IF ~ a.ok THEN {Out(c, a.st, "storage")}
              ELSE IF Has(a.st.facts, User(c.pend)) THEN {Begun(c, a.st)}
              ELSE AppendPendingUser(c, a.st)
  BY DEF ResumeUser
<1>2. st \in Stores
  BY TryingTypes
<1>3. /\ a.st \in Stores /\ a.ok \in BOOLEAN /\ SameLog(st, a.st) /\ Alike(st, a.st)
      /\ a.ok => st.at = "there"
  BY <1>2, LoadCalls
<1>4. Trying(c, a.st, b) /\ a.st.queue = <<>> /\ (a.ok => a.st.at = "there")
  <2>1. Kept(st, a.st)
    BY <1>3 DEF Kept, Alike
  <2>. QED BY <1>3, <2>1, StillTrying DEF Alike
<1>5. /\ \A f \in Told(a.st) : f.turn = c.pend.turn => f = User(c.pend)
      /\ User(c.pend).turn = c.pend.turn
  BY <1>4, TryingTypes
<1>6. Has(a.st.facts, User(c.pend)) <=> User(c.pend) \in Told(a.st)
  <2>1. LogOf(a.st) = a.st.facts
    BY <1>3, <1>4, LogTypes
  <2>. QED BY <2>1 DEF Has, Told, Range
<1>7. CASE ~ a.ok
  BY <1>1, <1>4, <1>7, NotTried
<1>8. CASE a.ok /\ Has(a.st.facts, User(c.pend))
  BY <1>1, <1>4, <1>5, <1>6, <1>8, TriedOnce
<1>9. CASE a.ok /\ ~ Has(a.st.facts, User(c.pend))
  <2>1. \A f \in Told(a.st) : f.turn # c.pend.turn
    BY <1>5, <1>6, <1>9
  <2>2. o \in AppendPendingUser(c, a.st)
    BY <1>1, <1>9
  <2>. QED BY <1>4, <2>1, <2>2, AppendsUser
<1>. QED BY <1>7, <1>8, <1>9

LEMMA ResumesCreated ==
  ASSUME NEW c, NEW st, NEW b, Trying(c, st, b), ~ c.bound, st.queue = <<>>,
         NEW o \in ResumeCreated(c, st)
  PROVE  Tried(c, o, b)
<1>1. PICK a \in LoadCall(st) :
        o \in IF a.ok THEN ResumeUser(MarkCreated(c), a.st)
              ELSE IF NotFound(a.st) THEN CreatePendingSession(c, a.st)
              ELSE {Out(c, a.st, "storage")}
  BY DEF ResumeCreated
<1>2. /\ c \in Controllers /\ st \in Stores /\ c.pend \in Pendings /\ LedgerOK(c, st)
      /\ c.deleted = FALSE /\ c.pend # None /\ c.pend.user = FALSE /\ c.pend.term = None
      /\ ~ c.pend.created /\ BegunIn(c, st, b)
  BY TryingTypes
<1>3. /\ a.st \in Stores /\ a.ok \in BOOLEAN /\ SameLog(st, a.st) /\ Alike(st, a.st)
      /\ a.ok => st.at = "there"
  BY <1>2, LoadCalls
<1>4. Trying(c, a.st, b) /\ a.st.queue = <<>> /\ (a.ok => a.st.at = "there")
  <2>1. Kept(st, a.st)
    BY <1>3 DEF Kept, Alike
  <2>. QED BY <1>3, <2>1, StillTrying DEF Alike
<1>5. CASE a.ok
  <2>1. PICK d : d = MarkCreated(c)
    OBVIOUS
  <2>2. /\ d \in Controllers /\ d.deleted = FALSE /\ d.bound = TRUE
        /\ d.pend \in Pendings /\ d.pend # None
        /\ d.pend.turn = c.pend.turn /\ d.pend.user = FALSE
        /\ d.pend.term = None /\ d.pend.created = TRUE
        /\ User(d.pend) = User(c.pend)
    BY <1>2, <2>1, MarkCreatedIs
  <2>3. /\ \A f \in Told(a.st) : f.turn = c.pend.turn => f = User(c.pend)
        /\ LedgerOK(c, a.st) /\ BegunIn(c, a.st, b)
    BY <1>4, TryingTypes
  <2>4. PendOK(d.pend, Told(a.st))
    BY <2>2, <2>3 DEF PendOK
  <2>5. LedgerOK(d, a.st)
    BY <1>4, <1>5, <2>2, <2>3, <2>4 DEF LedgerOK
  <2>6. b = {}
    BY <1>2 DEF BegunIn
  <2>7. Trying(d, a.st, b)
    BY <2>2, <2>5, <2>6 DEF Trying, BegunIn
  <2>8. o \in ResumeUser(d, a.st)
    BY <1>1, <1>5, <2>1
  <2>9. Tried(d, o, b)
    BY <1>4, <2>2, <2>7, <2>8, ResumesUser
  <2>. QED BY <2>2, <2>9 DEF Tried
<1>6. CASE ~ a.ok /\ NotFound(a.st)
  <2>1. o \in CreatePendingSession(c, a.st)
    BY <1>1, <1>6
  <2>. QED BY <1>4, <2>1, CreatesSession
<1>7. CASE ~ a.ok /\ ~ NotFound(a.st)
  BY <1>1, <1>4, <1>7, NotTried
<1>. QED BY <1>5, <1>6, <1>7

LEMMA ResumesStart ==
  ASSUME NEW c, NEW st, NEW b, Trying(c, st, b), NEW o \in ResumePendingStart(c, st)
  PROVE  Tried(c, o, b)
<1>1. PICK a \in FlushCall(st) :
        o \in IF ~ a.ok THEN {Out(c, a.st, "storage")}
              ELSE IF c.pend.created THEN ResumeUser(c, a.st)
              ELSE ResumeCreated(c, a.st)
  BY DEF ResumePendingStart
<1>2. st \in Stores /\ (c.bound <=> c.pend.created)
  BY TryingTypes
<1>3. /\ a.st \in Stores /\ a.ok \in BOOLEAN /\ SameLog(st, a.st)
      /\ a.ok => /\ a.st.queue = <<>> /\ a.st.at \in {"absent", "there"}
                 /\ st.at \in {"hidden", "there"} => a.st.at = "there"
                 /\ st.at \in {"absent", "gone"} => a.st.at = "absent"
      /\ ~ a.ok => a.st.at = st.at
  BY <1>2, FlushCalls
<1>4. Trying(c, a.st, b)
  <2>1. Kept(st, a.st)
    BY <1>2, <1>3 DEF Kept, Stores
  <2>. QED BY <2>1, StillTrying
<1>5. CASE ~ a.ok
  BY <1>1, <1>4, <1>5, NotTried
<1>6. CASE a.ok /\ c.pend.created
  <2>1. o \in ResumeUser(c, a.st)
    BY <1>1, <1>6
  <2>. QED BY <1>2, <1>3, <1>4, <1>6, <2>1, ResumesUser
<1>7. CASE a.ok /\ ~ c.pend.created
  <2>1. o \in ResumeCreated(c, a.st)
    BY <1>1, <1>7
  <2>. QED BY <1>2, <1>3, <1>4, <1>7, <2>1, ResumesCreated
<1>. QED BY <1>5, <1>6, <1>7

\* What a begin leads to: the turn t waits for its terminal and was not one of
\* b, or nothing that was begun has changed.
BeginTold(c, o, t, b) ==
  /\ LedgerOK(o.c, o.st) /\ (o.c.deleted <=> c.deleted)
  /\ o.answer \in {"ok", "deleted", "storage", "used", "in progress"}
  /\ o.answer = "deleted" => c.deleted
  /\ o.answer = "ok" => /\ t \notin b /\ BegunIn(o.c, o.st, b \cup {t})
                        /\ ~ Waiting(c)
                        /\ Waiting(o.c) /\ o.c.pend.turn = t /\ o.c.pend.term = None
  /\ o.answer # "ok" => /\ BegunIn(o.c, o.st, b)
                        /\ Waiting(o.c) => o.c.pend = c.pend

LEMMA StartsTurn ==
  ASSUME NEW c, NEW st, NEW b, LedgerOK(c, st), BegunIn(c, st, b), ~ c.deleted, c.pend = None,
         NEW t \in Turns, NEW m \in Messages,
         c.bound => \A f \in Told(st) : f.turn # t,
         NEW o \in StartTurn(c, st, t, m)
  PROVE  BeginTold(c, o, t, b)
<1>1. PICK d : d = Started(c, t, m)
  OBVIOUS
<1>2. o \in IF c.bound THEN AppendPendingUser(d, st) ELSE CreatePendingSession(d, st)
  BY <1>1 DEF StartTurn, WithPend, Started
<1>3. c \in Controllers /\ st \in Stores /\ c.deleted = FALSE
  BY LedgerTypes, ControllerTypes
<1>4. /\ d \in Controllers /\ d.deleted = FALSE /\ d.bound = c.bound
      /\ d.pend \in Pendings /\ d.pend # None
      /\ d.pend.turn = t /\ d.pend.user = FALSE
      /\ d.pend.term = None /\ d.pend.created = c.bound
  BY <1>1, <1>3, StartedIs
<1>5. \A f \in Told(st) : f.turn # t
  BY LedgerTypes DEF LedgerOK
<1>6. PendOK(d.pend, Told(st))
  BY <1>4, <1>5 DEF PendOK
<1>7. LedgerOK(d, st)
  BY <1>4, <1>6 DEF LedgerOK
<1>8. BegunIn(d, st, b)
  BY <1>3, <1>4 DEF BegunIn, Waiting
<1>9. Trying(d, st, b) /\ st.queue = <<>>
  BY <1>4, <1>7, <1>8 DEF Trying, LedgerOK
<1>10. Tried(d, o, b)
  <2>1. CASE c.bound
    <3>1. o \in AppendPendingUser(d, st)
      BY <1>2, <2>1
    <3>. QED BY <1>4, <1>5, <1>9, <2>1, <3>1, AppendsUser
  <2>2. CASE ~ c.bound
    <3>1. o \in CreatePendingSession(d, st)
      BY <1>2, <2>2
    <3>. QED BY <1>4, <1>9, <2>2, <3>1, CreatesSession
  <2>. QED BY <2>1, <2>2
<1>. QED BY <1>3, <1>4, <1>10 DEF Tried, BeginTold, Waiting

LEMMA BeginsTurn ==
  ASSUME NEW c, NEW st, NEW b, LedgerOK(c, st), BegunIn(c, st, b),
         NEW t \in Turns, NEW m \in Messages, NEW o \in BeginTurn(c, st, t, m)
  PROVE  BeginTold(c, o, t, b)
<1>0. c \in Controllers /\ st \in Stores /\ c.deleted \in BOOLEAN /\ c.bound \in BOOLEAN
  BY LedgerTypes, ControllerTypes
<1>1. ASSUME NEW r, Kept(st, r), NEW a \in {"deleted", "storage", "used", "in progress"},
             a = "deleted" => c.deleted, o = Out(c, r, a)
      PROVE  BeginTold(c, o, t, b)
  <2>1. o.c = c /\ o.st = r /\ o.answer = a
    BY <1>1 DEF Out
  <2>2. LedgerOK(c, r) /\ BegunIn(c, r, b)
    BY <1>1, LedgerKept
  <2>. QED BY <1>1, <2>1, <2>2 DEF BeginTold
<1>2. Kept(st, st)
  BY <1>0 DEF Kept, SameLog
<1>3. CASE c.deleted
  <2>1. o = Out(c, st, "deleted")
    BY <1>3 DEF BeginTurn
  <2>. QED BY <1>1, <1>2, <1>3, <2>1
<1>4. CASE ~ c.deleted /\ c.pend # None /\ ~ c.pend.user /\ c.pend.turn = t /\ c.pend.msg = m
  <2>1. o \in ResumePendingStart(c, st)
    BY <1>4 DEF BeginTurn
  <2>2. Trying(c, st, b)
    BY <1>4 DEF Trying
  <2>3. Tried(c, o, b)
    BY <2>1, <2>2, ResumesStart
  <2>. QED BY <1>0, <1>4, <2>3 DEF Tried, BeginTold, Waiting
<1>5. CASE ~ c.deleted /\ c.pend # None /\ ~ (~ c.pend.user /\ c.pend.turn = t /\ c.pend.msg = m)
  <2>1. o = Out(c, st, "in progress")
    BY <1>5 DEF BeginTurn
  <2>. QED BY <1>1, <1>2, <2>1
<1>6. CASE ~ c.deleted /\ c.pend = None /\ ~ c.bound
  <2>1. o \in StartTurn(c, st, t, m)
    BY <1>6 DEF BeginTurn
  <2>. QED BY <1>6, <2>1, StartsTurn
<1>7. CASE ~ c.deleted /\ c.pend = None /\ c.bound
  <2>1. PICK a \in LoadCall(st) :
          o \in IF ~ a.ok THEN {Out(c, a.st, "storage")}
                ELSE IF HasTurn(a.st.facts, t) THEN {Out(c, a.st, "used")}
                ELSE StartTurn(c, a.st, t, m)
    BY <1>7 DEF BeginTurn
  <2>2. Kept(st, a.st) /\ a.ok \in BOOLEAN
    BY <1>0, LoadCalls DEF Kept, Alike
  <2>3. CASE ~ a.ok
    <3>1. o = Out(c, a.st, "storage")
      BY <2>1, <2>3
    <3>. QED BY <1>1, <2>2, <3>1
  <2>4. CASE a.ok /\ HasTurn(a.st.facts, t)
    <3>1. o = Out(c, a.st, "used")
      BY <2>1, <2>4
    <3>. QED BY <1>1, <2>2, <3>1
  <2>5. CASE a.ok /\ ~ HasTurn(a.st.facts, t)
    <3>1. o \in StartTurn(c, a.st, t, m)
      BY <2>1, <2>5
    <3>2. LedgerOK(c, a.st) /\ BegunIn(c, a.st, b)
      BY <2>2, LedgerKept
    <3>3. LogOf(a.st) = a.st.facts
      BY <1>7, <3>2, LedgerTypes DEF LedgerOK
    <3>4. \A f \in Told(a.st) : f.turn # t
      BY <2>5, <3>3 DEF HasTurn, Told, Range
    <3>. QED BY <1>7, <3>1, <3>2, <3>4, StartsTurn
  <2>. QED BY <2>2, <2>3, <2>4, <2>5
<1>. QED BY <1>0, <1>3, <1>4, <1>5, <1>6, <1>7

-----------------------------------------------------------------------------
(***************************************************************************)
(* finish_turn, its retry, and delete.                                     *)
(***************************************************************************)
\* A turn with its terminal on the way, and what an attempt to append it leads to.
Ending(c, st, b) == LedgerOK(c, st) /\ BegunIn(c, st, b) /\ Waiting(c) /\ c.pend.term # None

Ended(c, o, b) ==
  /\ LedgerOK(o.c, o.st) /\ BegunIn(o.c, o.st, b) /\ (o.c.deleted <=> c.deleted)
  /\ o.answer \in {"ok", "storage"}
  /\ o.answer = "ok" => o.c.pend = None
  /\ o.answer # "ok" => o.c = c

LEMMA EndingTypes ==
  ASSUME NEW c, NEW st, NEW b, Ending(c, st, b)
  PROVE  /\ c \in Controllers /\ st \in Stores /\ LedgerOK(c, st) /\ BegunIn(c, st, b)
         /\ c.deleted = FALSE /\ c.bound = TRUE /\ c.pend # None /\ c.pend \in Pendings
         /\ c.pend.user = TRUE /\ c.pend.term # None
         /\ st.at = "there" => \E f \in Told(st) : f.turn = c.pend.turn
         /\ \A f \in Told(st) : f.turn = c.pend.turn /\ f.kind = "result" =>
              f = Result(c.pend.turn, c.pend.term)
         /\ Result(c.pend.turn, c.pend.term) \in Facts
         /\ Result(c.pend.turn, c.pend.term).turn = c.pend.turn
         /\ Result(c.pend.turn, c.pend.term).kind = "result"
<1>1. LedgerOK(c, st) /\ BegunIn(c, st, b) /\ c.pend # None /\ c.pend.user /\ c.pend.term # None
  BY DEF Ending, Waiting
<1>2. c \in Controllers /\ st \in Stores
  BY <1>1, LedgerTypes
<1>3. c.pend \in Pendings /\ c.pend.user \in BOOLEAN /\ c.deleted \in BOOLEAN /\ c.bound \in BOOLEAN
  BY <1>1, <1>2, ControllerTypes
<1>4. /\ PendOK(c.pend, Told(st)) /\ c.bound /\ ~ c.deleted
      /\ st.at = "there" => \E f \in Told(st) : f.turn = c.pend.turn
  BY <1>1 DEF LedgerOK
<1>5. \A f \in Told(st) : f.turn = c.pend.turn /\ f.kind = "result" =>
              f = Result(c.pend.turn, c.pend.term)
  BY <1>1, <1>4 DEF PendOK
<1>6. /\ Result(c.pend.turn, c.pend.term) \in Facts
      /\ Result(c.pend.turn, c.pend.term).turn = c.pend.turn
      /\ Result(c.pend.turn, c.pend.term).kind = "result"
  BY <1>1, <1>3, EntryTypes DEF Result, Fact
<1>. QED BY <1>1, <1>2, <1>3, <1>4, <1>5, <1>6

LEMMA StillEnding ==
  ASSUME NEW c, NEW st, NEW b, Ending(c, st, b), NEW r, Kept(st, r)
  PROVE  Ending(c, r, b)
BY LedgerKept DEF Ending

LEMMA NotEnded ==
  ASSUME NEW c, NEW st, NEW b, Ending(c, st, b)
  PROVE  Ended(c, Out(c, st, "storage"), b)
<1>1. PICK o : o = Out(c, st, "storage")
  OBVIOUS
<1>2. o.c = c /\ o.st = st /\ o.answer = "storage"
  BY <1>1 DEF Out
<1>3. Ended(c, o, b)
  BY <1>2, EndingTypes DEF Ended
<1>. QED BY <1>1, <1>3

\* The terminal is in the log: the controller lets go of the turn.
LEMMA EndedOnce ==
  ASSUME NEW c, NEW st, NEW b, Ending(c, st, b), st.queue = <<>>,
         st.at = "there" => \E f \in Told(st) : f.turn = c.pend.turn /\ f.kind = "result"
  PROVE  Ended(c, Out(WithPend(c, None), st, "ok"), b)
<1>1. PICK d : d = WithPend(c, None)
  OBVIOUS
<1>2. /\ c \in Controllers /\ st \in Stores /\ LedgerOK(c, st) /\ BegunIn(c, st, b)
      /\ c.deleted = FALSE /\ c.bound = TRUE
  BY EndingTypes
<1>3. d \in Controllers /\ d.deleted = FALSE /\ d.bound = TRUE /\ d.pend = None
  BY <1>1, <1>2, EndedIs
<1>4. LedgerOK(d, st)
  BY <1>2, <1>3 DEF LedgerOK
<1>5. BegunIn(d, st, b)
  <2> SUFFICES ASSUME NEW t \in b, st.at = "there"
               PROVE  /\ \E f \in Told(st) : f.turn = t
                      /\ \E f \in Told(st) : f.turn = t /\ f.kind = "result"
    BY <1>3 DEF BegunIn
  <2>. QED BY <1>2 DEF BegunIn
<1>6. PICK o : o = Out(d, st, "ok")
  OBVIOUS
<1>7. o.c = d /\ o.st = st /\ o.answer = "ok"
  BY <1>6 DEF Out
<1>8. Ended(c, o, b)
  BY <1>2, <1>3, <1>4, <1>5, <1>7 DEF Ended
<1>. QED BY <1>1, <1>6, <1>8

LEMMA AppendsTerminal ==
  ASSUME NEW c, NEW st, NEW b, Ending(c, st, b), st.queue = <<>>,
         \A f \in Told(st) : f.turn = c.pend.turn => f.kind # "result",
         NEW o \in AppendPendingTerminal(c, st)
  PROVE  Ended(c, o, b)
<1>1. PICK f : f = Result(c.pend.turn, c.pend.term)
  OBVIOUS
<1>2. PICK a \in AppendCall(st, <<f>>) :
        o = IF a.ok THEN Out(WithPend(c, None), a.st, "ok") ELSE Out(c, a.st, "storage")
  BY <1>1 DEF AppendPendingTerminal, WithPend
<1>3. /\ c \in Controllers /\ st \in Stores /\ LedgerOK(c, st) /\ BegunIn(c, st, b)
      /\ c.deleted = FALSE /\ c.bound = TRUE /\ c.pend # None /\ c.pend \in Pendings
      /\ c.pend.user = TRUE /\ c.pend.term # None
      /\ st.at = "there" => \E g \in Told(st) : g.turn = c.pend.turn
      /\ f \in Facts /\ f.turn = c.pend.turn /\ f.kind = "result"
  BY <1>1, EndingTypes
<1>4. <<f>> \in Seq(Facts)
  BY <1>3
<1>5. /\ a.st \in Stores /\ a.ok \in BOOLEAN /\ a.st.at = st.at
      /\ SameLog(st, a.st) \/ LogOf(a.st) = LogOf(st) \o <<f>>
      /\ a.ok => LogOf(a.st) = LogOf(st) \o <<f>> /\ a.st.queue = <<>>
      /\ st.at # "there" => ~ a.ok /\ SameLog(st, a.st)
  BY <1>3, <1>4, AppendCalls
<1>6. CASE SameLog(st, a.st) /\ ~ a.ok
  <2>1. Kept(st, a.st)
    BY <1>5, <1>6 DEF Kept
  <2>2. o = Out(c, a.st, "storage")
    BY <1>2, <1>6
  <2>. QED BY <2>1, <2>2, StillEnding, NotEnded
<1>7. CASE LogOf(a.st) = LogOf(st) \o <<f>> /\ st.at = "there"
  <2>1. SoundLog(LogOf(a.st)) /\ Told(a.st) = Told(st) \cup {f}
    <3>1. SoundLog(LogOf(st)) /\ Told(st) = Range(LogOf(st))
      BY <1>3, LedgerTypes
    <3>2. /\ \A g \in Range(LogOf(st)) : g.turn = f.turn => g.kind # f.kind
          /\ \E g \in Range(LogOf(st)) : g.turn = f.turn
      BY <1>3, <1>7, <3>1
    <3>3. /\ SoundLog(LogOf(st) \o <<f>>)
          /\ Range(LogOf(st) \o <<f>>) = Range(LogOf(st)) \cup {f}
      BY <1>3, <3>1, <3>2, PutFact
    <3>. QED BY <1>7, <3>1, <3>3 DEF Told
  <2>2. /\ \A g \in Told(a.st) : g.turn = c.pend.turn /\ g.kind = "result" => g = f
        /\ \E g \in Told(a.st) : g.turn = c.pend.turn /\ g.kind = "result"
        /\ Told(st) \subseteq Told(a.st)
    BY <1>3, <2>1
  <2>3. PendOK(c.pend, Told(a.st))
    BY <1>1, <1>3, <2>2 DEF PendOK
  <2>4. LedgerOK(c, a.st)
    BY <1>3, <1>5, <1>7, <2>1, <2>2, <2>3 DEF LedgerOK
  <2>5. BegunIn(c, a.st, b)
    BY <1>3, <1>5, <2>2 DEF BegunIn
  <2>6. Ending(c, a.st, b)
    BY <1>3, <2>4, <2>5 DEF Ending, Waiting
  <2>7. CASE a.ok
    <3>1. o = Out(WithPend(c, None), a.st, "ok")
      BY <1>2, <2>7
    <3>. QED BY <1>5, <2>2, <2>6, <2>7, <3>1, EndedOnce
  <2>8. CASE ~ a.ok
    <3>1. o = Out(c, a.st, "storage")
      BY <1>2, <2>8
    <3>. QED BY <2>6, <3>1, NotEnded
  <2>. QED BY <2>7, <2>8
<1>. QED BY <1>5, <1>6, <1>7

LEMMA ResumesTerminal ==
  ASSUME NEW c, NEW st, NEW b, Ending(c, st, b), NEW o \in ResumePendingTerminal(c, st)
  PROVE  Ended(c, o, b)
<1>1. PICK r : r = Result(c.pend.turn, c.pend.term)
  OBVIOUS
<1>2. PICK a \in FlushCall(st) :
        o \in IF ~ a.ok THEN {Out(c, a.st, "storage")}
              ELSE UNION {IF ~ l.ok THEN {Out(c, l.st, "storage")}
                          ELSE IF Has(l.st.facts, r) THEN {Out(WithPend(c, None), l.st, "ok")}
                          ELSE AppendPendingTerminal(c, l.st) : l \in LoadCall(a.st)}
  BY <1>1 DEF ResumePendingTerminal, WithPend
<1>3. st \in Stores
  BY EndingTypes
<1>4. /\ a.st \in Stores /\ a.ok \in BOOLEAN /\ SameLog(st, a.st)
      /\ a.ok => /\ a.st.queue = <<>> /\ a.st.at \in {"absent", "there"}
                 /\ st.at \in {"hidden", "there"} => a.st.at = "there"
                 /\ st.at \in {"absent", "gone"} => a.st.at = "absent"
      /\ ~ a.ok => a.st.at = st.at
  BY <1>3, FlushCalls
<1>5. Ending(c, a.st, b)
  <2>1. Kept(st, a.st)
    BY <1>3, <1>4 DEF Kept, Stores
  <2>. QED BY <2>1, StillEnding
<1>6. CASE ~ a.ok
  BY <1>2, <1>5, <1>6, NotEnded
<1>7. CASE a.ok
  <2>1. PICK l \in LoadCall(a.st) :
          o \in IF ~ l.ok THEN {Out(c, l.st, "storage")}
                ELSE IF Has(l.st.facts, r) THEN {Out(WithPend(c, None), l.st, "ok")}
                ELSE AppendPendingTerminal(c, l.st)
    BY <1>2, <1>7
  <2>2. /\ l.st \in Stores /\ l.ok \in BOOLEAN /\ SameLog(a.st, l.st) /\ Alike(a.st, l.st)
        /\ l.ok => a.st.at = "there"
    BY <1>4, LoadCalls
  <2>3. Ending(c, l.st, b) /\ l.st.queue = <<>>
    <3>1. Kept(a.st, l.st)
      BY <2>2 DEF Kept, Alike
    <3>. QED BY <1>4, <1>5, <1>7, <2>2, <3>1, StillEnding DEF Alike
  <2>4. Has(l.st.facts, r) <=> r \in Told(l.st)
    <3>1. LogOf(l.st) = l.st.facts
      BY <2>2, <2>3, LogTypes
    <3>. QED BY <3>1 DEF Has, Told, Range
  <2>5. /\ \A f \in Told(l.st) : f.turn = c.pend.turn /\ f.kind = "result" => f = r
        /\ r.turn = c.pend.turn /\ r.kind = "result"
    BY <1>1, <2>3, EndingTypes
  <2>6. CASE ~ l.ok
    BY <2>1, <2>3, <2>6, NotEnded
  <2>7. CASE l.ok /\ Has(l.st.facts, r)
    <3>1. o = Out(WithPend(c, None), l.st, "ok")
      BY <2>1, <2>7
    <3>2. \E f \in Told(l.st) : f.turn = c.pend.turn /\ f.kind = "result"
      BY <2>4, <2>5, <2>7
    <3>. QED BY <2>3, <3>1, <3>2, EndedOnce
  <2>8. CASE l.ok /\ ~ Has(l.st.facts, r)
    <3>1. o \in AppendPendingTerminal(c, l.st)
      BY <2>1, <2>8
    <3>2. \A f \in Told(l.st) : f.turn = c.pend.turn => f.kind # "result"
      BY <2>4, <2>5, <2>8
    <3>. QED BY <2>3, <3>1, <3>2, AppendsTerminal
  <2>. QED BY <2>2, <2>6, <2>7, <2>8
<1>. QED BY <1>4, <1>6, <1>7

\* What a finish leads to: the turn is ended, or it still waits, perhaps with the
\* terminal x now.
FinishTold(c, o, t, x, b) ==
  /\ LedgerOK(o.c, o.st) /\ BegunIn(o.c, o.st, b) /\ (o.c.deleted <=> c.deleted)
  /\ o.answer \in {"ok", "deleted", "storage", "no turn", "mismatch"}
  /\ o.answer = "deleted" => c.deleted
  /\ o.answer = "ok" => o.c.pend = None /\ (c.pend = None \/ (Waiting(c) /\ c.pend.turn = t))
  /\ o.answer # "ok" =>
       \/ o.c.pend = c.pend
       \/ /\ Waiting(c) /\ c.pend.turn = t /\ c.pend.term = None
          /\ Waiting(o.c) /\ o.c.pend.turn = t /\ o.c.pend.term = x

LEMMA FinishesTurn ==
  ASSUME NEW c, NEW st, NEW b, LedgerOK(c, st), BegunIn(c, st, b),
         NEW t, NEW x \in Terms, NEW o \in FinishTurn(c, st, t, x)
  PROVE  FinishTold(c, o, t, x, b)
<1>0. c \in Controllers /\ st \in Stores /\ c.deleted \in BOOLEAN /\ c.bound \in BOOLEAN
  BY LedgerTypes, ControllerTypes
<1>x. x # None
  BY TurnAssumption, RestoreAssumption DEF Terms
<1>1. ASSUME NEW r, Kept(st, r), NEW a \in {"deleted", "storage", "no turn", "mismatch"},
             a = "deleted" => c.deleted, o = Out(c, r, a)
      PROVE  FinishTold(c, o, t, x, b)
  <2>1. o.c = c /\ o.st = r /\ o.answer = a
    BY <1>1 DEF Out
  <2>2. LedgerOK(c, r) /\ BegunIn(c, r, b)
    BY <1>1, LedgerKept
  <2>. QED BY <1>1, <2>1, <2>2 DEF FinishTold
<1>2. Kept(st, st)
  BY <1>0 DEF Kept, SameLog
<1>3. CASE c.deleted
  <2>1. o = Out(c, st, "deleted")
    BY <1>3 DEF FinishTurn
  <2>. QED BY <1>1, <1>2, <1>3, <2>1
<1>4. CASE ~ c.deleted /\ c.pend = None /\ ~ c.bound
  <2>1. o = Out(c, st, "no turn")
    BY <1>4 DEF FinishTurn
  <2>. QED BY <1>1, <1>2, <2>1
<1>5. CASE ~ c.deleted /\ c.pend = None /\ c.bound
  <2>1. PICK l \in LoadCall(st) :
          o = IF ~ l.ok THEN Out(c, l.st, "storage")
              ELSE IF Has(l.st.facts, Result(t, x)) THEN Out(c, l.st, "ok")
              ELSE Out(c, l.st, "no turn")
    BY <1>5 DEF FinishTurn
  <2>2. Kept(st, l.st) /\ l.ok \in BOOLEAN
    BY <1>0, LoadCalls DEF Kept, Alike
  <2>3. CASE o = Out(c, l.st, "ok")
    <3>1. o.c = c /\ o.st = l.st /\ o.answer = "ok"
      BY <2>3 DEF Out
    <3>2. LedgerOK(c, l.st) /\ BegunIn(c, l.st, b)
      BY <2>2, LedgerKept
    <3>. QED BY <1>5, <3>1, <3>2 DEF FinishTold
  <2>4. CASE o = Out(c, l.st, "storage")
    BY <1>1, <2>2, <2>4
  <2>5. CASE o = Out(c, l.st, "no turn")
    BY <1>1, <2>2, <2>5
  <2>. QED BY <2>1, <2>3, <2>4, <2>5
<1>6. CASE ~ c.deleted /\ c.pend # None /\ (c.pend.turn # t \/ ~ c.pend.user)
  <2>1. o = Out(c, st, "mismatch")
    BY <1>6 DEF FinishTurn
  <2>. QED BY <1>1, <1>2, <2>1
<1>7. CASE ~ c.deleted /\ c.pend # None /\ c.pend.turn = t /\ c.pend.user /\ c.pend.term = None
  <2>1. PICK d : d = WithPend(c, WithTerm(c.pend, x))
    OBVIOUS
  <2>2. o \in AppendPendingTerminal(d, st)
    BY <1>7, <2>1 DEF FinishTurn, WithPend, WithTerm
  <2>3. /\ d \in Controllers /\ d.deleted = c.deleted /\ d.bound = c.bound
        /\ d.pend \in Pendings /\ d.pend # None
        /\ d.pend.turn = t /\ d.pend.user = c.pend.user
        /\ d.pend.term = x /\ d.pend.created = c.pend.created
    BY <1>0, <1>7, <2>1, TermIs
  <2>4. /\ \A f \in Told(st) : f.turn = t => f.kind # "result"
        /\ st.queue = <<>>
        /\ st.at = "there" => \E f \in Told(st) : f.turn = t
        /\ c.bound /\ c.pend.created
    BY <1>7 DEF LedgerOK, PendOK
  <2>5. PendOK(d.pend, Told(st))
    BY <1>7, <1>x, <2>3, <2>4 DEF PendOK
  <2>6. LedgerOK(d, st)
    BY <1>7, <1>x, <2>3, <2>4, <2>5 DEF LedgerOK
  <2>7. BegunIn(d, st, b)
    BY <1>7, <2>3 DEF BegunIn, Waiting
  <2>8. Ending(d, st, b)
    BY <1>7, <1>x, <2>3, <2>6, <2>7 DEF Ending, Waiting
  <2>9. Ended(d, o, b)
    BY <2>2, <2>3, <2>4, <2>8, AppendsTerminal
  <2>. QED BY <1>7, <2>3, <2>9 DEF Ended, FinishTold, Waiting
<1>8. CASE /\ ~ c.deleted /\ c.pend # None /\ c.pend.turn = t /\ c.pend.user
           /\ c.pend.term # None /\ c.pend.term # x
  <2>1. o = Out(c, st, "mismatch")
    BY <1>8 DEF FinishTurn
  <2>. QED BY <1>1, <1>2, <2>1
<1>9. CASE /\ ~ c.deleted /\ c.pend # None /\ c.pend.turn = t /\ c.pend.user
           /\ c.pend.term # None /\ c.pend.term = x
  <2>1. o \in ResumePendingTerminal(c, st)
    BY <1>9 DEF FinishTurn
  <2>2. Ending(c, st, b)
    BY <1>9 DEF Ending, Waiting
  <2>3. Ended(c, o, b)
    BY <2>1, <2>2, ResumesTerminal
  <2>. QED BY <1>9, <2>3 DEF Ended, FinishTold, Waiting
<1>. QED BY <1>0, <1>3, <1>4, <1>5, <1>6, <1>7, <1>8, <1>9

LEMMA DeletesSession ==
  ASSUME NEW c, NEW st, NEW b, LedgerOK(c, st), BegunIn(c, st, b), NEW o \in DeleteSession(c, st)
  PROVE  /\ LedgerOK(o.c, o.st) /\ BegunIn(o.c, o.st, b)
         /\ c.deleted => o.c = c
         /\ o.answer = "ok" => o.c.deleted
         /\ o.answer # "ok" => o.c = c
<1> DEFINE d == [FreshController EXCEPT !.deleted = TRUE]
<1>0. c \in Controllers /\ st \in Stores /\ c.deleted \in BOOLEAN /\ c.bound \in BOOLEAN
  BY LedgerTypes, ControllerTypes
<1>1. d \in Controllers /\ d.deleted = TRUE /\ d.bound = FALSE /\ d.pend = None
  BY DEF FreshController, Controllers
<1>2. ASSUME NEW r \in Stores, r.at = "absent", r.queue = <<>>, r.facts = <<>>
      PROVE  SoundLog(LogOf(r)) /\ Told(r) = {} /\ LedgerOK(d, r) /\ BegunIn(d, r, b)
  <2>1. LogOf(r) = <<>>
    BY <1>2, LogTypes
  <2>2. SoundLog(LogOf(r)) /\ Told(r) = {}
    BY <2>1 DEF SoundLog, Once, Follows, Told, Range
  <2>. QED BY <1>1, <1>2, <2>2 DEF LedgerOK, BegunIn
<1>3. CASE c.deleted
  <2>1. o = Out(c, st, "ok")
    BY <1>3 DEF DeleteSession
  <2>2. o.c = c /\ o.st = st /\ o.answer = "ok"
    BY <2>1 DEF Out
  <2>. QED BY <1>3, <2>2
<1>4. CASE ~ c.deleted /\ ~ c.bound /\ c.pend = None
  <2>1. o = Out(d, st, "ok")
    BY <1>4 DEF DeleteSession
  <2>2. o.c = d /\ o.st = st /\ o.answer = "ok"
    BY <2>1 DEF Out
  <2>3. st.at = "absent" /\ st.queue = <<>> /\ st.facts = <<>>
    BY <1>4 DEF LedgerOK
  <2>. QED BY <1>0, <1>1, <1>2, <1>4, <2>2, <2>3
<1>5. CASE ~ c.deleted /\ ~ (~ c.bound /\ c.pend = None)
  <2>1. PICK a \in DeleteCall(st) :
          o = IF a.ok THEN Out(d, a.st, "ok") ELSE Out(c, a.st, "storage")
    BY <1>5 DEF DeleteSession
  <2>2. /\ a.st \in Stores /\ a.ok \in BOOLEAN
        /\ \/ a.st.at = "absent" /\ a.st.facts = <<>> /\ a.st.queue = <<>>
           \/ /\ ~ a.ok /\ a.st.at = "gone" /\ a.st.facts = <<>> /\ a.st.queue = <<>>
              /\ st.at # "absent"
           \/ ~ a.ok /\ Alike(st, a.st) /\ SameLog(st, a.st)
    BY <1>0, DeleteCalls
  <2>3. CASE a.ok
    <3>1. o = Out(d, a.st, "ok")
      BY <2>1, <2>3
    <3>2. o.c = d /\ o.st = a.st /\ o.answer = "ok"
      BY <3>1 DEF Out
    <3>3. LedgerOK(d, a.st) /\ BegunIn(d, a.st, b)
      BY <1>2, <2>2, <2>3
    <3>. QED BY <1>1, <1>5, <3>2, <3>3
  <2>4. CASE ~ a.ok
    <3>1. o = Out(c, a.st, "storage")
      BY <2>1, <2>4
    <3>2. o.c = c /\ o.st = a.st /\ o.answer = "storage"
      BY <3>1 DEF Out
    <3>3. CASE Alike(st, a.st) /\ SameLog(st, a.st)
      <4>1. Kept(st, a.st)
        BY <2>2, <3>3 DEF Kept, Alike
      <4>2. LedgerOK(c, a.st) /\ BegunIn(c, a.st, b)
        BY <4>1, LedgerKept
      <4>. QED BY <1>5, <3>2, <4>2
    <3>4. CASE a.st.at \in {"absent", "gone"} /\ a.st.facts = <<>> /\ a.st.queue = <<>>
      <4>1. LogOf(a.st) = <<>>
        BY <2>2, <3>4, LogTypes
      <4>2. SoundLog(LogOf(a.st)) /\ Told(a.st) = {}
        BY <4>1 DEF SoundLog, Once, Follows, Told, Range
      <4>3. /\ ~ (~ c.bound /\ c.pend = None)
            /\ c.pend # None => PendOK(c.pend, Told(a.st))
        BY <1>5, <4>2 DEF LedgerOK, PendOK
      <4>4. LedgerOK(c, a.st)
        BY <1>0, <1>5, <2>2, <3>4, <4>2, <4>3 DEF LedgerOK
      <4>5. BegunIn(c, a.st, b)
        BY <3>4 DEF BegunIn
      <4>. QED BY <1>5, <3>2, <4>4, <4>5
    <3>. QED BY <2>2, <2>4, <3>3, <3>4
  <2>. QED BY <2>2, <2>3, <2>4
<1>. QED BY <1>0, <1>3, <1>4, <1>5

-----------------------------------------------------------------------------
(***************************************************************************)
(* The runtime, its workers and the channels between them.                 *)
(***************************************************************************)
Submitted == [text : Texts, model : Models]

WorkerRecs ==
  [pc : {"free", "begin", "await", "over"}, turn : 0 .. MaxSubmits,
   msg : {None} \cup Submitted, gen : Nat, retry : Terminals,
   cmd : Outcomes \cup {"open", "dropped"}, tries : Nat, beginTask : BOOLEAN,
   answer : {"none", "ok", "deleted", "storage", "used", "in progress", "retry failed"},
   retried : BOOLEAN, endTask : {"none", "terminal", "detached"}, about : 0 .. MaxSubmits,
   result : {"none", "disconnected", "ok", "deleted", "storage", "no turn", "mismatch"}]

RuntimeRecs ==
  [gen : Nat, persisting : BOOLEAN, generating : BOOLEAN,
   delReq : BOOLEAN, delPend : BOOLEAN, shutdown : BOOLEAN,
   turn : 0 .. MaxSubmits, pterm : Terminals,
   coord : Workers \cup {None}, next : 1 .. MaxSubmits + 1,
   reply : Nat, started : Nat, alive : BOOLEAN]

TypeInv ==
  /\ rt \in RuntimeRecs /\ worker \in [Workers -> WorkerRecs]
  /\ deletion \in {"none", "queued", "ok", "failed", "closing"}
  /\ begun \subseteq 1 .. MaxSubmits /\ gaveUp \subseteq begun
  /\ submits \in 0 .. MaxSubmits
  /\ accepting \in BOOLEAN /\ sealed \in BOOLEAN

LedgerInv == LedgerOK(ctl, store) /\ BegunIn(ctl, store, begun)

\* Somebody is going to end the turn the controller waits for, or gave up on it.
Awaited ==
  /\ Waiting(ctl) =>
       \/ ctl.pend.turn \in gaveUp
       \/ \E w \in Workers : worker[w].pc = "await" /\ worker[w].turn = ctl.pend.turn
  /\ sealed => ~ accepting /\ \A w \in Workers : worker[w].pc \notin {"begin", "await"}

\* What a worker is about: it was begun, and an answer is kept until it is heard.
WorkerOK(w) ==
  LET v == worker[w]
  IN  /\ v.pc = "free" => /\ ~ v.beginTask /\ v.endTask = "none" /\ v.answer = "none"
                          /\ v.result = "none" /\ v.about = 0 /\ v.retry = None
      /\ v.pc = "over" => v.beginTask \/ v.endTask # "none"
      /\ v.pc = "begin" => /\ v.answer = "none" /\ v.result = "none" /\ v.turn # 0
                           /\ ~ v.retried /\ v.msg \in Submitted
                           /\ v.endTask # "none" => v.beginTask
      /\ v.pc = "await" => v.turn \in begun /\ v.result = "none" /\ v.answer \in {"none", "ok"}
      /\ v.answer = "ok" => v.turn \in begun
      /\ v.endTask = "terminal" => v.about = v.turn /\ v.about # 0 /\ v.pc # "begin"
      /\ v.endTask = "detached" => v.about \in {0, v.turn}
      /\ v.endTask # "none" => v.cmd \in Outcomes
      /\ v.about # 0 => v.about \in begun
      /\ v.retry # None => v.retry.turn \in begun
      /\ v.result \in {"ok", "deleted"} =>
           v.turn \in begun /\ ~ (Waiting(ctl) /\ ctl.pend.turn = v.turn)

Task(v) == v.beginTask \/ v.endTask = "terminal"

Said(v) == IF v.cmd = "dropped" THEN "cancelled" ELSE v.cmd

\* A worker that may still have something to say of the turn t.
Holds(v, t) ==
  \/ v.pc = "await" /\ v.turn = t
  \/ v.pc = "begin" /\ v.retry # None /\ v.retry.turn = t
  \/ v.endTask # "none" /\ v.about = t

\* What it says is that the terminal of t is x.
Voices(v, t, x) ==
  /\ v.pc = "await" /\ v.turn = t /\ v.cmd # "open" => Said(v) = x
  /\ v.pc = "begin" /\ v.retry # None /\ v.retry.turn = t => v.retry.term = x
  /\ v.endTask # "none" /\ v.about = t => v.cmd = x

\* A worker the entity hears.
HeardOK(w) ==
  LET v == worker[w]
  IN  /\ v.pc = "begin" => v.beginTask
      /\ v.pc = "await" /\ v.beginTask => v.answer = "ok"
      /\ v.beginTask => /\ v.about = 0 /\ rt.turn = 0 /\ v.gen <= rt.gen
                        /\ v.gen = rt.gen <=> rt.coord = w
                        /\ v.gen # rt.gen => v.cmd = "cancelled" \/ v.pc = "over"
      /\ v.beginTask /\ v.answer = "ok" => /\ Waiting(ctl) => ctl.pend.turn = v.turn
                                           /\ ~ HoldsTerminal(v.turn)
      /\ v.beginTask /\ v.retried /\ v.answer # "ok" => ~ Waiting(ctl)
      /\ v.endTask = "terminal" => rt.turn = v.about

\* Two workers: one answer at most is waited for, and nobody else speaks of a
\* turn that has just begun or has its terminal on the way.
PairOK(w, u) ==
  /\ ~ (Task(worker[w]) /\ Task(worker[u]))
  /\ worker[w].beginTask /\ worker[w].answer = "ok" => ~ Holds(worker[u], worker[w].turn)
  /\ worker[w].endTask = "terminal" =>
       ~ (worker[u].endTask = "detached" /\ worker[u].about = worker[w].about)

\* The worker of the turn that is in progress.
Own(w) ==
  /\ worker[w].pc = "await"
  /\ Waiting(ctl) /\ ctl.pend.turn = worker[w].turn /\ ctl.pend.term = None
  /\ ~ HoldsTerminal(worker[w].turn)
  /\ \A u \in Workers \ {w} : ~ Holds(worker[u], worker[w].turn)

CoordOK ==
  rt.coord # None =>
    /\ worker[rt.coord].cmd = "open" /\ worker[rt.coord].endTask = "none"
    /\ worker[rt.coord].beginTask \/ rt.generating \/ worker[rt.coord].pc = "free"
    /\ rt.generating \/ worker[rt.coord].answer = "ok" => Own(rt.coord)
    /\ ~ rt.delReq /\ ~ rt.delPend /\ ~ rt.shutdown

ForegroundOK ==
  /\ rt.turn # 0 => rt.turn \in begun
  /\ rt.pterm # None => rt.pterm.turn \in begun
  /\ rt.persisting <=> \E w \in Workers : Task(worker[w])
  /\ rt.next <= submits + 1
  /\ \A w \in Workers : worker[w].beginTask => rt.next <= submits
  /\ rt.generating => /\ rt.coord # None /\ ~ rt.persisting /\ rt.turn # 0
                      /\ worker[rt.coord].turn = rt.turn
  /\ deletion # "none" => rt.delPend
  /\ rt.delPend => rt.delReq
  /\ deletion \in {"ok", "closing"} => ctl.deleted
  /\ rt.reply <= rt.gen /\ rt.started <= rt.gen
  /\ rt.reply = rt.gen /\ rt.reply # 0 => rt.generating
  /\ Waiting(ctl) => rt.turn \in {0, ctl.pend.turn}
  /\ ~ rt.shutdown /\ ~ rt.persisting /\ ~ rt.generating /\ rt.turn # 0 =>
       rt.pterm = PendingTerminal(rt.turn, "cancelled")

\* The turn the controller waits for is going to end as x: it is kept for the
\* next submit, its terminal is on the way, it is going to be cancelled since its
\* begin was too late, or it is in progress.
Answered(x) ==
  /\ ctl.pend.term \in {None, x}
  /\ \A w \in Workers : Voices(worker[w], ctl.pend.turn, x)
  /\ \/ /\ rt.pterm = PendingTerminal(ctl.pend.turn, x)
        /\ \A w \in Workers : worker[w].endTask # "terminal"
     \/ \E w \in Workers : worker[w].endTask = "terminal" /\ worker[w].about = ctl.pend.turn
     \/ /\ ~ HoldsTerminal(ctl.pend.turn) /\ x = "cancelled"
        /\ \E w \in Workers : worker[w].beginTask /\ worker[w].answer = "ok"
     \/ ~ HoldsTerminal(ctl.pend.turn) /\ rt.generating

Responsible == ~ rt.shutdown /\ Waiting(ctl) => \E x \in Outcomes : Answered(x)

HeardInv ==
  rt.alive => /\ \A w \in Workers : HeardOK(w)
              /\ \A w, u \in Workers : w # u => PairOK(w, u)
              /\ CoordOK /\ ForegroundOK

TurnsInv ==
  /\ TypeInv /\ LedgerInv /\ Awaited
  /\ \A w \in Workers : WorkerOK(w)
  /\ HeardInv
  /\ rt.alive => Responsible

\* The foreground hears of a deletion only when the controller has marked it.
DeletedFirst == deletion \in {"ok", "closing"} => ctl.deleted

LEMMA FreeIs ==
  /\ Free \in WorkerRecs
  /\ Free.pc = "free" /\ Free.turn = 0 /\ Free.msg = None /\ Free.gen = 0 /\ Free.retry = None
  /\ Free.cmd = "open" /\ Free.tries = 0 /\ Free.beginTask = FALSE /\ Free.answer = "none"
  /\ Free.retried = FALSE /\ Free.endTask = "none" /\ Free.about = 0 /\ Free.result = "none"
BY TurnAssumption DEF Free, WorkerRecs, Terminals

LEMMA SettleIs ==
  ASSUME NEW v \in WorkerRecs
  PROVE  /\ Settle(v) \in WorkerRecs
         /\ \/ v.pc \notin {"free", "over"} \/ v.beginTask \/ v.endTask # "none"
            \/ Settle(v) = Free
         /\ Settle(v) = v \/ (Settle(v) = Free /\ ~ v.beginTask /\ v.endTask = "none"
                              /\ v.pc \in {"free", "over"})
BY FreeIs DEF Settle

LEMMA NextWorkerFree ==
  ASSUME FreeWorkers # {}
  PROVE  NextWorker \in Workers /\ worker[NextWorker].pc = "free"
BY DEF NextWorker, FreeWorkers

\* A worker that a submit spawns, and one that brings a terminal.
Beginner(t, m, g, p) ==
  [Free EXCEPT !.pc = "begin", !.turn = t, !.msg = m, !.gen = g, !.retry = p,
               !.beginTask = TRUE]

Bringer(t, x, task) ==
  [Free EXCEPT !.pc = "await", !.turn = t, !.cmd = x, !.endTask = task, !.about = t]

IsBeginner(v, t, m, g, p) ==
  /\ v \in WorkerRecs /\ v.pc = "begin" /\ v.turn = t /\ v.msg = m /\ v.gen = g
  /\ v.retry = p /\ v.beginTask = TRUE /\ v.cmd = "open" /\ v.tries = 0
  /\ v.answer = "none" /\ v.retried = FALSE /\ v.endTask = "none" /\ v.about = 0
  /\ v.result = "none"

IsBringer(v, t, x, task) ==
  /\ v \in WorkerRecs /\ v.pc = "await" /\ v.turn = t /\ v.gen = 0
  /\ v.retry = None /\ v.beginTask = FALSE /\ v.cmd = x /\ v.tries = 0
  /\ v.answer = "none" /\ v.retried = FALSE /\ v.endTask = task /\ v.about = t
  /\ v.result = "none"

LEMMA BeginnerIs ==
  ASSUME NEW t \in 0 .. MaxSubmits, NEW m \in Submitted, NEW g \in Nat, NEW p \in Terminals
  PROVE  IsBeginner(Beginner(t, m, g, p), t, m, g, p)
<1>1. PICK v : v = Beginner(t, m, g, p)
  OBVIOUS
<1>2. v \in WorkerRecs
  BY <1>1, FreeIs DEF WorkerRecs, Beginner
<1>3. /\ v.pc = "begin" /\ v.turn = t /\ v.msg = m /\ v.gen = g
      /\ v.retry = p /\ v.beginTask = TRUE /\ v.cmd = "open" /\ v.tries = 0
      /\ v.answer = "none" /\ v.retried = FALSE /\ v.endTask = "none" /\ v.about = 0
      /\ v.result = "none"
  BY <1>1 DEF Free, Beginner
<1>4. IsBeginner(v, t, m, g, p)
  BY <1>2, <1>3 DEF IsBeginner
<1>. QED BY <1>1, <1>4

LEMMA BringerIs ==
  ASSUME NEW t \in 0 .. MaxSubmits, NEW x \in Outcomes, NEW task \in {"terminal", "detached"}
  PROVE  IsBringer(Bringer(t, x, task), t, x, task)
<1>1. PICK v : v = Bringer(t, x, task)
  OBVIOUS
<1>2. v \in WorkerRecs
  BY <1>1, FreeIs DEF WorkerRecs, Bringer
<1>3. /\ v.pc = "await" /\ v.turn = t /\ v.gen = 0
      /\ v.retry = None /\ v.beginTask = FALSE /\ v.cmd = x /\ v.tries = 0
      /\ v.answer = "none" /\ v.retried = FALSE /\ v.endTask = task /\ v.about = t
      /\ v.result = "none"
  BY <1>1 DEF Free, Bringer
<1>4. IsBringer(v, t, x, task)
  BY <1>2, <1>3 DEF IsBringer
<1>. QED BY <1>1, <1>4

LEMMA RuntimeTypes ==
  ASSUME TypeInv
  PROVE  /\ rt \in RuntimeRecs /\ worker \in [Workers -> WorkerRecs] /\ MaxSubmits \in Nat
         /\ rt.gen \in Nat /\ rt.turn \in 0 .. MaxSubmits /\ rt.pterm \in Terminals
         /\ rt.coord \in Workers \cup {None} /\ rt.next \in 1 .. MaxSubmits + 1
         /\ rt.reply \in Nat /\ rt.started \in Nat
         /\ rt.persisting \in BOOLEAN /\ rt.generating \in BOOLEAN /\ rt.alive \in BOOLEAN
         /\ rt.delReq \in BOOLEAN /\ rt.delPend \in BOOLEAN /\ rt.shutdown \in BOOLEAN
         /\ submits \in 0 .. MaxSubmits
BY TurnAssumption DEF TypeInv, RuntimeRecs

LEMMA WorkerTypes ==
  ASSUME TypeInv, NEW w \in Workers
  PROVE  /\ worker[w] \in WorkerRecs
         /\ worker[w].beginTask \in BOOLEAN /\ worker[w].retried \in BOOLEAN
         /\ worker[w].gen \in Nat /\ worker[w].turn \in 0 .. MaxSubmits
         /\ worker[w].about \in 0 .. MaxSubmits /\ worker[w].retry \in Terminals
         /\ worker[w].pc \in {"free", "begin", "await", "over"}
         /\ worker[w].cmd \in Outcomes \cup {"open", "dropped"}
         /\ worker[w].endTask \in {"none", "terminal", "detached"}
         /\ worker[w].tries \in Nat
BY DEF TypeInv, WorkerRecs

LEMMA WorkerKept ==
  ASSUME NEW u, WorkerOK(u), worker'[u] = worker[u], begun' = begun, ctl' = ctl
  PROVE  WorkerOK(u)'
BY DEF WorkerOK

LEMMA LedgerSame ==
  ASSUME LedgerInv, ctl' = ctl, store' = store, begun' = begun
  PROVE  LedgerInv'
BY DEF LedgerInv

-----------------------------------------------------------------------------
(***************************************************************************)
(* Submit.                                                                 *)
(***************************************************************************)
\* A submit spawns a worker that finishes the kept terminal and begins the turn.
LEMMA SubmitKeeps ==
  ASSUME TurnsInv, NEW m \in Submitted, Submit(m)
  PROVE  TurnsInv'
<1>0. /\ TypeInv /\ LedgerInv /\ Awaited
      /\ \A w \in Workers : WorkerOK(w)
      /\ rt.alive /\ (\A w \in Workers : HeardOK(w)) /\ CoordOK /\ ForegroundOK
      /\ \A w, u \in Workers : w # u => PairOK(w, u)
      /\ Responsible
  BY DEF TurnsInv, Submit, HeardInv
<1>1. PICK n : n = NextWorker
  OBVIOUS
<1>2. n \in Workers /\ worker[n].pc = "free"
  BY <1>1, NextWorkerFree DEF Submit
<1>3. PICK v : v = Beginner(rt.next, m, rt.gen + 1, rt.pterm)
  OBVIOUS
<1>4. /\ submits < MaxSubmits /\ accepting /\ rt.turn = 0
      /\ ~ rt.generating /\ ~ rt.persisting /\ ~ rt.delReq /\ ~ rt.delPend /\ ~ rt.shutdown
      /\ submits' = submits + 1
      /\ worker' = [worker EXCEPT ![n] = v]
      /\ rt' = [rt EXCEPT !.gen = @ + 1, !.persisting = TRUE, !.coord = n]
      /\ deletion' = deletion /\ ctl' = ctl /\ store' = store /\ begun' = begun
      /\ gaveUp' = gaveUp /\ accepting' = accepting /\ sealed' = sealed
  BY <1>1, <1>3 DEF Submit, durable, Beginner
<1>5. /\ rt \in RuntimeRecs /\ worker \in [Workers -> WorkerRecs] /\ submits \in 0 .. MaxSubmits
      /\ rt.pterm \in Terminals /\ rt.next \in 1 .. MaxSubmits + 1 /\ MaxSubmits \in Nat
      /\ rt.gen \in Nat /\ rt.reply \in Nat /\ rt.started \in Nat
  BY <1>0, RuntimeTypes
<1>6. rt.next <= submits + 1
  BY <1>0 DEF ForegroundOK
<1>g. PICK g \in Nat : g = rt.gen + 1
  BY <1>5
<1>7. /\ v \in WorkerRecs /\ v.pc = "begin" /\ v.turn = rt.next /\ v.msg = m /\ v.gen = g
      /\ v.retry = rt.pterm /\ v.beginTask = TRUE /\ v.cmd = "open" /\ v.tries = 0
      /\ v.answer = "none" /\ v.retried = FALSE /\ v.endTask = "none" /\ v.about = 0
      /\ v.result = "none"
  <2>1. rt.next \in 0 .. MaxSubmits
    BY <1>4, <1>5, <1>6
  <2>2. IsBeginner(Beginner(rt.next, m, g, rt.pterm), rt.next, m, g, rt.pterm)
    BY <1>5, <2>1, BeginnerIs
  <2>3. v = Beginner(rt.next, m, g, rt.pterm)
    BY <1>3, <1>g
  <2>. QED BY <2>2, <2>3 DEF IsBeginner
<1>8. /\ rt' \in RuntimeRecs /\ rt'.gen = g /\ rt'.persisting = TRUE /\ rt'.coord = n
      /\ rt'.generating = rt.generating /\ rt'.delReq = rt.delReq /\ rt'.delPend = rt.delPend
      /\ rt'.shutdown = rt.shutdown /\ rt'.turn = rt.turn /\ rt'.pterm = rt.pterm
      /\ rt'.next = rt.next /\ rt'.reply = rt.reply /\ rt'.started = rt.started
      /\ rt'.alive = rt.alive
  <2>1. rt' = [rt EXCEPT !.gen = g, !.persisting = TRUE, !.coord = n]
    BY <1>4, <1>g
  <2>. QED BY <1>2, <1>5, <2>1 DEF RuntimeRecs
<1>9. /\ worker' \in [Workers -> WorkerRecs] /\ worker'[n] = v
      /\ \A u \in Workers \ {n} : worker'[u] = worker[u]
  BY <1>2, <1>4, <1>5, <1>7
<1>10. TypeInv'
  <2>1. submits' \in 0 .. MaxSubmits
    BY <1>4, <1>5
  <2>. QED BY <1>0, <1>4, <1>8, <1>9, <2>1 DEF TypeInv
<1>11. LedgerInv'
  BY <1>0, <1>4, LedgerSame
<1>12. Awaited'
  BY <1>0, <1>2, <1>4, <1>9 DEF Awaited
<1>13. \A w \in Workers : WorkerOK(w)'
  <2>1. WorkerOK(n)'
    <3>1. v.turn # 0 /\ (v.retry # None => v.retry.turn \in begun)
      BY <1>0, <1>5, <1>7 DEF ForegroundOK
    <3>. QED BY <1>4, <1>7, <1>9, <3>1 DEF WorkerOK
  <2>2. \A w \in Workers \ {n} : WorkerOK(w)'
    BY <1>0, <1>4, <1>9, WorkerKept
  <2>. QED BY <2>1, <2>2
<1>14. \A w \in Workers : HeardOK(w)'
  <2>1. HeardOK(n)'
    BY <1>4, <1>7, <1>8, <1>9, <1>g DEF HeardOK
  <2>2. ASSUME NEW w \in Workers \ {n}
        PROVE  HeardOK(w)'
    <3>1. HeardOK(w) /\ ~ Task(worker[w]) /\ worker'[w] = worker[w]
      BY <1>0, <1>4, <1>9 DEF ForegroundOK
    <3>. QED BY <1>4, <1>8, <3>1 DEF HeardOK, Task, HoldsTerminal, PendingTerminal
  <2>. QED BY <2>1, <2>2
<1>15. ASSUME NEW w \in Workers, NEW u \in Workers, w # u
       PROVE  PairOK(w, u)'
  <2>1. \A q \in Workers \ {n} : ~ Task(worker'[q])
    BY <1>0, <1>4, <1>9 DEF ForegroundOK
  <2>. QED BY <1>7, <1>9, <1>15, <2>1 DEF PairOK, Task
<1>16. CoordOK'
  BY <1>2, <1>4, <1>7, <1>8, <1>9 DEF CoordOK
<1>17. ForegroundOK'
  BY <1>0, <1>2, <1>4, <1>5, <1>6, <1>7, <1>8, <1>9, <1>g DEF ForegroundOK, Task
<1>18. Responsible'
  <2> SUFFICES ASSUME Waiting(ctl)
               PROVE  \E x \in Outcomes : Answered(x)'
    BY <1>4 DEF Responsible
  <2>1. PICK x \in Outcomes : Answered(x)
    BY <1>0, <1>4 DEF Responsible
  <2>2. \A w \in Workers : ~ Task(worker[w])
    BY <1>0, <1>4 DEF ForegroundOK
  <2>3. /\ ctl.pend.term \in {None, x} /\ rt.pterm = PendingTerminal(ctl.pend.turn, x)
        /\ \A w \in Workers : Voices(worker[w], ctl.pend.turn, x)
    BY <1>4, <2>1, <2>2 DEF Answered, Task
  <2>4. \A w \in Workers : Voices(worker'[w], ctl.pend.turn, x)
    BY <1>7, <1>9, <2>3 DEF Voices, PendingTerminal
  <2>5. Answered(x)'
    BY <1>4, <1>7, <1>8, <1>9, <2>2, <2>3, <2>4 DEF Answered, Task
  <2>. QED BY <2>5
<1>. QED BY <1>10, <1>11, <1>12, <1>13, <1>14, <1>15, <1>16, <1>17, <1>18 DEF TurnsInv, HeardInv

-----------------------------------------------------------------------------
(***************************************************************************)
(* The steps that leave the workers alone.                                 *)
(***************************************************************************)
\* What the entity and its workers are told of does not change.
LEMMA WorkersKept ==
  ASSUME NEW f, f = worker, worker' = f, ctl' = ctl, begun' = begun, rt'.turn = rt.turn,
         rt'.coord = rt.coord, rt'.gen = rt.gen, rt'.pterm = rt.pterm
  PROVE  /\ \A w \in Workers : WorkerOK(w) => WorkerOK(w)'
         /\ \A w \in Workers : HeardOK(w) => HeardOK(w)'
         /\ \A w, u \in Workers : PairOK(w, u) => PairOK(w, u)'
<1>1. \A w \in Workers : worker'[w] = worker[w]
  OBVIOUS
<1>. QED BY <1>1 DEF WorkerOK, HeardOK, PairOK, HoldsTerminal

\* The turn still ends as x.
LEMMA AnsweredKept ==
  ASSUME worker' = worker, ctl' = ctl, rt'.generating = rt.generating, rt'.pterm = rt.pterm,
         NEW x, Answered(x)
  PROVE  Answered(x)'
BY DEF Answered, HoldsTerminal

\* The generation of a turn starts.
LEMMA StartGenerationKeeps ==
  ASSUME TurnsInv, StartGeneration
  PROVE  TurnsInv'
<1>0. /\ TypeInv /\ LedgerInv /\ Awaited
      /\ \A w \in Workers : WorkerOK(w)
      /\ rt.alive /\ (\A w \in Workers : HeardOK(w)) /\ CoordOK /\ ForegroundOK
      /\ \A w, u \in Workers : w # u => PairOK(w, u)
      /\ Responsible
  BY DEF TurnsInv, StartGeneration, HeardInv
<1>1. /\ rt \in RuntimeRecs /\ rt.gen \in Nat /\ rt.reply \in Nat /\ rt.started \in Nat
  BY <1>0, RuntimeTypes
<1>2. PICK r \in Nat : r = IF rt.started = rt.gen /\ rt.generating THEN rt.gen ELSE rt.reply
  BY <1>1
<1>3. /\ rt.started # 0
      /\ rt' = [rt EXCEPT !.started = 0, !.reply = r]
      /\ worker' = worker /\ deletion' = deletion /\ ctl' = ctl /\ store' = store
      /\ begun' = begun /\ gaveUp' = gaveUp /\ accepting' = accepting /\ sealed' = sealed
      /\ submits' = submits
  BY <1>2 DEF StartGeneration, durable, world
<1>4. /\ rt' \in RuntimeRecs /\ rt'.gen = rt.gen /\ rt'.persisting = rt.persisting
      /\ rt'.coord = rt.coord
      /\ rt'.generating = rt.generating /\ rt'.delReq = rt.delReq /\ rt'.delPend = rt.delPend
      /\ rt'.shutdown = rt.shutdown /\ rt'.turn = rt.turn /\ rt'.pterm = rt.pterm
      /\ rt'.next = rt.next /\ rt'.reply = r /\ rt'.started = 0
      /\ rt'.alive = rt.alive
  BY <1>1, <1>3 DEF RuntimeRecs
<1>5. TypeInv'
  BY <1>0, <1>3, <1>4 DEF TypeInv
<1>6. LedgerInv'
  BY <1>0, <1>3, LedgerSame
<1>7. Awaited'
  BY <1>0, <1>3 DEF Awaited
<1>8. /\ \A w \in Workers : WorkerOK(w)'
      /\ \A w \in Workers : HeardOK(w)'
      /\ \A w, u \in Workers : w # u => PairOK(w, u)'
  BY <1>0, <1>3, <1>4, WorkersKept
<1>9. CoordOK'
  BY <1>0, <1>3, <1>4 DEF CoordOK, Own, HoldsTerminal
<1>10. ForegroundOK'
  <2>1. r <= rt.gen /\ (r = rt.gen /\ r # 0 => rt.generating)
    BY <1>0, <1>1, <1>2 DEF ForegroundOK
  <2>. QED BY <1>0, <1>1, <1>3, <1>4, <2>1 DEF ForegroundOK
<1>11. Responsible'
  BY <1>0, <1>3, <1>4, AnsweredKept DEF Responsible
<1>. QED BY <1>5, <1>6, <1>7, <1>8, <1>9, <1>10, <1>11 DEF TurnsInv, HeardInv

\* The foreground hears what became of the deletion.
LEMMA DeleteAnsweredKeeps ==
  ASSUME TurnsInv, DeleteAnswered
  PROVE  TurnsInv'
<1>0. /\ TypeInv /\ LedgerInv /\ Awaited
      /\ \A w \in Workers : WorkerOK(w)
      /\ rt.alive /\ (\A w \in Workers : HeardOK(w)) /\ CoordOK /\ ForegroundOK
      /\ \A w, u \in Workers : w # u => PairOK(w, u)
      /\ Responsible
  BY DEF TurnsInv, DeleteAnswered, HeardInv
<1>1. rt \in RuntimeRecs
  BY <1>0, RuntimeTypes
<1>2. /\ worker' = worker /\ ctl' = ctl /\ store' = store
      /\ begun' = begun /\ gaveUp' = gaveUp /\ accepting' = accepting /\ sealed' = sealed
      /\ submits' = submits
  BY DEF DeleteAnswered, durable, world
<1>3. rt.delPend /\ rt.coord = None /\ ~ rt.generating
  BY <1>0 DEF DeleteAnswered, ForegroundOK, CoordOK
<1>4. /\ rt' \in RuntimeRecs /\ rt'.gen = rt.gen /\ rt'.persisting = rt.persisting
      /\ rt'.coord = rt.coord /\ rt'.generating = rt.generating
      /\ rt'.shutdown = rt.shutdown /\ rt'.turn = rt.turn /\ rt'.pterm = rt.pterm
      /\ rt'.next = rt.next /\ rt'.reply = rt.reply /\ rt'.started = rt.started
      /\ rt'.alive = rt.alive
      /\ deletion' \in {"closing", "none"}
      /\ deletion' = "closing" => rt'.delPend /\ ctl.deleted
      /\ rt'.delPend => rt'.delReq
  <2>1. CASE deletion = "ok"
    <3>1. deletion' = "closing" /\ rt' = rt
      BY <2>1 DEF DeleteAnswered
    <3>. QED BY <1>0, <1>1, <1>3, <2>1, <3>1 DEF ForegroundOK
  <2>2. CASE deletion # "ok"
    <3>1. /\ deletion' = "none"
          /\ rt' = [rt EXCEPT !.delReq = FALSE, !.delPend = FALSE, !.coord = None,
                              !.generating = FALSE]
      BY <2>2 DEF DeleteAnswered
    <3>2. /\ rt' \in RuntimeRecs /\ rt'.gen = rt.gen /\ rt'.persisting = rt.persisting
          /\ rt'.coord = None /\ rt'.generating = FALSE
          /\ rt'.shutdown = rt.shutdown /\ rt'.turn = rt.turn /\ rt'.pterm = rt.pterm
          /\ rt'.next = rt.next /\ rt'.reply = rt.reply /\ rt'.started = rt.started
          /\ rt'.alive = rt.alive /\ rt'.delPend = FALSE
      BY <1>1, <3>1 DEF RuntimeRecs
    <3>. QED BY <1>1, <1>3, <3>1, <3>2 DEF RuntimeRecs
  <2>. QED BY <2>1, <2>2
<1>5. TypeInv'
  BY <1>0, <1>2, <1>4 DEF TypeInv
<1>6. LedgerInv'
  BY <1>0, <1>2, LedgerSame
<1>7. Awaited'
  BY <1>0, <1>2 DEF Awaited
<1>8. /\ \A w \in Workers : WorkerOK(w)'
      /\ \A w \in Workers : HeardOK(w)'
      /\ \A w, u \in Workers : w # u => PairOK(w, u)'
  BY <1>0, <1>2, <1>4, WorkersKept
<1>9. CoordOK'
  BY <1>3, <1>4 DEF CoordOK
<1>10. ForegroundOK'
  BY <1>0, <1>2, <1>3, <1>4 DEF ForegroundOK
<1>11. Responsible'
  BY <1>0, <1>2, <1>4, AnsweredKept DEF Responsible
<1>. QED BY <1>5, <1>6, <1>7, <1>8, <1>9, <1>10, <1>11 DEF TurnsInv, HeardInv

\* The scope of a deleted conversation closes, or fails to.
LEMMA ScopeClosedKeeps ==
  ASSUME TurnsInv, ScopeClosed
  PROVE  TurnsInv'
<1>0. /\ TypeInv /\ LedgerInv /\ Awaited
      /\ \A w \in Workers : WorkerOK(w)
      /\ rt.alive /\ (\A w \in Workers : HeardOK(w)) /\ CoordOK /\ ForegroundOK
      /\ \A w, u \in Workers : w # u => PairOK(w, u)
      /\ Responsible
  BY DEF TurnsInv, ScopeClosed, HeardInv
<1>1. rt \in RuntimeRecs
  BY <1>0, RuntimeTypes
<1>2. /\ worker' = worker /\ ctl' = ctl /\ store' = store /\ deletion' = "none"
      /\ begun' = begun /\ gaveUp' = gaveUp /\ accepting' = accepting /\ sealed' = sealed
      /\ submits' = submits
  BY DEF ScopeClosed, durable, world
<1>3. rt.delPend /\ rt.coord = None /\ ~ rt.generating
  BY <1>0 DEF ScopeClosed, ForegroundOK, CoordOK
<1>4. /\ rt' \in RuntimeRecs /\ rt'.gen = rt.gen /\ rt'.persisting = rt.persisting
      /\ rt'.coord = rt.coord /\ rt'.generating = rt.generating
      /\ rt'.shutdown = rt.shutdown /\ rt'.turn = rt.turn /\ rt'.pterm = rt.pterm
      /\ rt'.next = rt.next /\ rt'.reply = rt.reply /\ rt'.started = rt.started
      /\ rt'.alive = rt.alive /\ rt'.delPend = FALSE
  <2>1. PICK closed \in BOOLEAN : rt' = [rt EXCEPT !.delPend = FALSE, !.delReq = closed]
    BY DEF ScopeClosed
  <2>. QED BY <1>1, <2>1 DEF RuntimeRecs
<1>5. TypeInv'
  BY <1>0, <1>2, <1>4 DEF TypeInv
<1>6. LedgerInv'
  BY <1>0, <1>2, LedgerSame
<1>7. Awaited'
  BY <1>0, <1>2 DEF Awaited
<1>8. /\ \A w \in Workers : WorkerOK(w)'
      /\ \A w \in Workers : HeardOK(w)'
      /\ \A w, u \in Workers : w # u => PairOK(w, u)'
  BY <1>0, <1>2, <1>4, WorkersKept
<1>9. CoordOK'
  BY <1>3, <1>4 DEF CoordOK
<1>10. ForegroundOK'
  BY <1>0, <1>2, <1>3, <1>4 DEF ForegroundOK
<1>11. Responsible'
  BY <1>0, <1>2, <1>4, AnsweredKept DEF Responsible
<1>. QED BY <1>5, <1>6, <1>7, <1>8, <1>9, <1>10, <1>11 DEF TurnsInv, HeardInv

\* The application exits.
LEMMA ExitKeeps ==
  ASSUME TurnsInv, StopAccepting \/ Seal \/ UNCHANGED vars
  PROVE  TurnsInv'
<1>0. TypeInv /\ LedgerInv /\ Awaited /\ (\A w \in Workers : WorkerOK(w)) /\ HeardInv
  BY DEF TurnsInv
<1>1. /\ rt' = rt /\ worker' = worker /\ ctl' = ctl /\ store' = store /\ deletion' = deletion
      /\ begun' = begun /\ gaveUp' = gaveUp /\ submits' = submits
      /\ accepting' \in BOOLEAN /\ sealed' \in BOOLEAN
      /\ sealed' /\ ~ sealed => ~ accepting' /\ Running = {}
      /\ accepting' => accepting
  <2>1. accepting \in BOOLEAN /\ sealed \in BOOLEAN
    BY <1>0 DEF TypeInv
  <2>2. CASE StopAccepting
    BY <2>1, <2>2 DEF StopAccepting, durable
  <2>3. CASE Seal
    BY <2>1, <2>3 DEF Seal, durable
  <2>4. CASE UNCHANGED vars
    BY <2>1, <2>4 DEF vars, durable, world
  <2>. QED BY <2>2, <2>3, <2>4
<1>2. TypeInv'
  BY <1>0, <1>1 DEF TypeInv
<1>3. LedgerInv'
  BY <1>0, <1>1, LedgerSame
<1>4. Awaited'
  BY <1>0, <1>1 DEF Awaited, Running, TypeInv
<1>5. \A w \in Workers : WorkerOK(w)'
  BY <1>0, <1>1, WorkersKept
<1>6. HeardInv'
  <2>1. CoordOK => CoordOK'
    BY <1>1 DEF CoordOK, Own, HoldsTerminal
  <2>2. ForegroundOK => ForegroundOK'
    BY <1>1 DEF ForegroundOK
  <2>. QED BY <1>0, <1>1, <2>1, <2>2, WorkersKept DEF HeardInv
<1>7. rt'.alive => Responsible'
  BY <1>1, AnsweredKept DEF Responsible, TurnsInv
<1>. QED BY <1>2, <1>3, <1>4, <1>5, <1>6, <1>7 DEF TurnsInv

\* The session is deleted under the controller lock.
LEMMA DeleteKeeps ==
  ASSUME TurnsInv, Delete
  PROVE  TurnsInv'
<1>0. TypeInv /\ LedgerInv /\ Awaited /\ (\A w \in Workers : WorkerOK(w)) /\ HeardInv
  BY DEF TurnsInv
<1>1. PICK o \in DeleteSession(ctl, store) :
        /\ ctl' = o.c /\ store' = o.st
        /\ deletion' = IF ~ rt.alive THEN "none"
                       ELSE IF o.answer = "ok" THEN "ok" ELSE "failed"
  BY DEF Delete
<1>2. /\ rt' = rt /\ worker' = worker /\ deletion = "queued"
      /\ begun' = begun /\ gaveUp' = gaveUp /\ submits' = submits
      /\ accepting' = accepting /\ sealed' = sealed
  BY DEF Delete, durable, world
<1>3. /\ LedgerOK(o.c, o.st) /\ BegunIn(o.c, o.st, begun)
      /\ o.answer = "ok" => o.c.deleted
      /\ o.answer # "ok" => o.c = ctl
  BY <1>0, DeletesSession DEF LedgerInv
<1>4. Waiting(ctl') => ctl' = ctl
  BY <1>1, <1>3 DEF LedgerOK, Waiting
<1>5. TypeInv'
  BY <1>0, <1>1, <1>2 DEF TypeInv
<1>6. LedgerInv'
  BY <1>1, <1>2, <1>3 DEF LedgerInv
<1>7. Awaited'
  BY <1>0, <1>2, <1>4 DEF Awaited
<1>8. \A w \in Workers : WorkerOK(w)'
  BY <1>0, <1>2, <1>4 DEF WorkerOK
<1>9. ASSUME rt.alive
      PROVE  HeardInv' /\ Responsible'
  <2>0. /\ (\A w \in Workers : HeardOK(w)) /\ CoordOK /\ ForegroundOK
        /\ \A w, u \in Workers : w # u => PairOK(w, u)
        /\ Responsible
    BY <1>9 DEF TurnsInv, HeardInv
  <2>1. rt.delPend /\ rt.coord = None /\ ~ rt.generating
    BY <1>2, <2>0 DEF ForegroundOK, CoordOK
  <2>2. \A w \in Workers : HeardOK(w)'
    BY <1>2, <1>4, <2>0 DEF HeardOK, HoldsTerminal
  <2>3. \A w, u \in Workers : w # u => PairOK(w, u)'
    BY <1>2, <2>0 DEF PairOK
  <2>4. CoordOK'
    BY <1>2, <2>1 DEF CoordOK
  <2>5. ForegroundOK'
    BY <1>1, <1>2, <1>3, <1>4, <2>0, <2>1 DEF ForegroundOK
  <2>6. Responsible'
    <3>1. CASE Waiting(ctl')
      BY <1>2, <1>4, <2>0, <3>1, AnsweredKept DEF Responsible
    <3>2. CASE ~ Waiting(ctl')
      BY <3>2 DEF Responsible
    <3>. QED BY <3>1, <3>2
  <2>. QED BY <2>2, <2>3, <2>4, <2>5, <2>6 DEF HeardInv
<1>. QED
  BY <1>2, <1>5, <1>6, <1>7, <1>8, <1>9 DEF TurnsInv, HeardInv

-----------------------------------------------------------------------------
(***************************************************************************)
(* The release of the entity.                                              *)
(***************************************************************************)
\* The entity is gone: no task of v is left, and its command channel is c.
Unheeded(v, c) == [v EXCEPT !.beginTask = FALSE, !.endTask = "none", !.cmd = c]

\* What is left of a worker nobody hears any more.
LEMMA UnheededIs ==
  ASSUME NEW v \in WorkerRecs, NEW c \in Outcomes \cup {"open", "dropped"}
  PROVE  /\ Unheeded(v, c) \in WorkerRecs
         /\ Unheeded(v, c).pc = v.pc /\ Unheeded(v, c).turn = v.turn /\ Unheeded(v, c).msg = v.msg
         /\ Unheeded(v, c).retry = v.retry /\ Unheeded(v, c).answer = v.answer
         /\ Unheeded(v, c).retried = v.retried /\ Unheeded(v, c).about = v.about
         /\ Unheeded(v, c).result = v.result
         /\ Unheeded(v, c).beginTask = FALSE /\ Unheeded(v, c).endTask = "none"
BY DEF Unheeded, WorkerRecs

\* A free worker is about nothing.
LEMMA FreeOK ==
  ASSUME NEW w \in Workers, worker'[w] = Free
  PROVE  WorkerOK(w)'
BY FreeIs DEF WorkerOK

\* The entity is dropped: the workers go on unheard, and cancel what was open.
LEMMA ReleaseKeeps ==
  ASSUME TurnsInv, Release
  PROVE  TurnsInv'
<1>0. /\ TypeInv /\ LedgerInv /\ Awaited
      /\ \A w \in Workers : WorkerOK(w)
  BY DEF TurnsInv
<1>1. /\ rt \in RuntimeRecs /\ worker \in [Workers -> WorkerRecs]
  BY <1>0, RuntimeTypes
<1>2. /\ rt' = [rt EXCEPT !.alive = FALSE, !.coord = None, !.reply = 0, !.started = 0]
      /\ deletion' = (IF deletion = "queued" THEN deletion ELSE "none")
      /\ ctl' = ctl /\ store' = store /\ begun' = begun /\ gaveUp' = gaveUp
      /\ accepting' = accepting /\ sealed' = sealed /\ submits' = submits
  BY DEF Release, durable, world
<1>3. rt' \in RuntimeRecs /\ rt'.alive = FALSE
  BY <1>1, <1>2 DEF RuntimeRecs
<1>4. ASSUME NEW w \in Workers
      PROVE  \E c \in Outcomes \cup {"open", "dropped"} :
               worker'[w] = Settle(Unheeded(worker[w], c))
  <2>1. PICK c : c = IF w = rt.coord THEN DropCoordinator(w) ELSE worker[w].cmd
    OBVIOUS
  <2>2. worker'[w] = Settle(Unheeded(worker[w], c))
    BY <2>1 DEF Release, Unheeded
  <2>3. c \in Outcomes \cup {"open", "dropped"}
    BY <1>0, <2>1, WorkerTypes DEF DropCoordinator
  <2>. QED BY <2>2, <2>3
<1>5. ASSUME NEW w \in Workers
      PROVE  /\ worker'[w] \in WorkerRecs /\ WorkerOK(w)'
             /\ worker[w].pc \in {"begin", "await"} =>
                  worker'[w].pc = worker[w].pc /\ worker'[w].turn = worker[w].turn
             /\ worker'[w].pc \in {"begin", "await"} => worker[w].pc \in {"begin", "await"}
  <2>1. PICK c \in Outcomes \cup {"open", "dropped"} : worker'[w] = Settle(Unheeded(worker[w], c))
    BY <1>4
  <2>2. PICK q : q = Unheeded(worker[w], c)
    OBVIOUS
  <2>3. worker[w] \in WorkerRecs /\ worker[w].pc \in {"free", "begin", "await", "over"}
    BY <1>0, WorkerTypes
  <2>4. /\ q \in WorkerRecs /\ q.pc = worker[w].pc /\ q.turn = worker[w].turn
        /\ q.msg = worker[w].msg
        /\ q.retry = worker[w].retry /\ q.answer = worker[w].answer
        /\ q.retried = worker[w].retried /\ q.about = worker[w].about
        /\ q.result = worker[w].result /\ q.beginTask = FALSE /\ q.endTask = "none"
    BY <2>2, <2>3, UnheededIs
  <2>5. CASE q.pc \in {"free", "over"}
    <3>1. worker'[w] = Free
      BY <2>1, <2>2, <2>4, <2>5 DEF Settle
    <3>. QED BY <2>4, <2>5, <3>1, FreeIs, FreeOK
  <2>6. CASE q.pc \in {"begin", "await"}
    <3>1. worker'[w] = q
      BY <2>1, <2>2, <2>6 DEF Settle
    <3>2. WorkerOK(w)
      BY <1>0
    <3>3. WorkerOK(w)'
      BY <1>2, <2>4, <2>6, <3>1, <3>2 DEF WorkerOK
    <3>. QED BY <2>4, <2>6, <3>1, <3>3
  <2>. QED BY <2>3, <2>4, <2>5, <2>6
<1>6. worker' \in [Workers -> WorkerRecs]
  <2>1. PICK f : f = [w \in Workers |-> worker'[w]]
    OBVIOUS
  <2>2. worker' = f
    BY <2>1 DEF Release
  <2>. QED BY <1>5, <2>1, <2>2
<1>7. TypeInv'
  <2>1. deletion' \in {"none", "queued", "ok", "failed", "closing"}
    BY <1>2
  <2>. QED BY <1>0, <1>2, <1>3, <1>6, <2>1 DEF TypeInv
<1>8. LedgerInv'
  BY <1>0, <1>2, LedgerSame
<1>9. Awaited'
  BY <1>0, <1>2, <1>5 DEF Awaited
<1>. QED BY <1>3, <1>5, <1>7, <1>8, <1>9 DEF TurnsInv, HeardInv

-----------------------------------------------------------------------------
(***************************************************************************)
(* The result of a terminal.                                               *)
(***************************************************************************)
\* The foreground has heard the result of the terminal.
Told1(v) == [v EXCEPT !.endTask = "none"]

\* A worker that was heard is free, unless its begin is still to be heard.
LEMMA Told1Is ==
  ASSUME NEW v \in WorkerRecs, v.pc = "over"
  PROVE  /\ Settle(Told1(v)) \in WorkerRecs
         /\ ~ v.beginTask => Settle(Told1(v)) = Free
         /\ v.beginTask => Settle(Told1(v)) = Told1(v)
         /\ Told1(v) \in WorkerRecs
         /\ Told1(v).pc = v.pc /\ Told1(v).turn = v.turn /\ Told1(v).msg = v.msg
         /\ Told1(v).gen = v.gen /\ Told1(v).retry = v.retry /\ Told1(v).cmd = v.cmd
         /\ Told1(v).beginTask = v.beginTask /\ Told1(v).answer = v.answer
         /\ Told1(v).retried = v.retried /\ Told1(v).about = v.about
         /\ Told1(v).result = v.result /\ Told1(v).endTask = "none"
<1>1. PICK q : q = Told1(v)
  OBVIOUS
<1>2. /\ q \in WorkerRecs
      /\ q.pc = v.pc /\ q.turn = v.turn /\ q.msg = v.msg
      /\ q.gen = v.gen /\ q.retry = v.retry /\ q.cmd = v.cmd
      /\ q.beginTask = v.beginTask /\ q.answer = v.answer
      /\ q.retried = v.retried /\ q.about = v.about
      /\ q.result = v.result /\ q.endTask = "none"
  BY <1>1 DEF Told1, WorkerRecs
<1>3. Settle(q) \in WorkerRecs
  BY <1>2, SettleIs
<1>4. (~ v.beginTask => Settle(q) = Free) /\ (v.beginTask => Settle(q) = q)
  BY <1>2 DEF Settle
<1>. QED BY <1>1, <1>2, <1>3, <1>4

\* finish_terminal: the terminal is written, or kept for the next submit.
LEMMA TerminalAnsweredKeeps ==
  ASSUME TurnsInv, NEW w \in Workers, TerminalAnswered(w)
  PROVE  TurnsInv'
<1>0. /\ TypeInv /\ LedgerInv /\ Awaited
      /\ \A u \in Workers : WorkerOK(u)
      /\ rt.alive /\ (\A u \in Workers : HeardOK(u)) /\ CoordOK /\ ForegroundOK
      /\ \A a, u \in Workers : a # u => PairOK(a, u)
      /\ Responsible
  BY DEF TurnsInv, TerminalAnswered, HeardInv
<1>1. PICK v : v = worker[w]
  OBVIOUS
<1>2. PICK p : p = IF v.result \in {"ok", "deleted"} THEN None
                   ELSE PendingTerminal(v.about, v.cmd)
  OBVIOUS
<1>3. /\ v.endTask = "terminal" /\ v.result # "none"
      /\ worker' = [worker EXCEPT ![w] = Settle(Told1(v))]
      /\ deletion' = deletion /\ ctl' = ctl /\ store' = store /\ begun' = begun
      /\ gaveUp' = gaveUp /\ accepting' = accepting /\ sealed' = sealed /\ submits' = submits
  BY <1>1 DEF TerminalAnswered, durable, world, Told1
<1>4. /\ rt \in RuntimeRecs /\ worker \in [Workers -> WorkerRecs] /\ MaxSubmits \in Nat
      /\ submits \in 0 .. MaxSubmits /\ rt.next \in 1 .. MaxSubmits + 1
      /\ v \in WorkerRecs /\ v.about \in 0 .. MaxSubmits
      /\ v.pc \in {"free", "begin", "await", "over"} /\ v.beginTask \in BOOLEAN
  BY <1>0, <1>1, RuntimeTypes, WorkerTypes
<1>5. /\ v.pc = "over" /\ v.about = v.turn /\ v.about # 0 /\ v.about \in begun
      /\ v.cmd \in Outcomes /\ rt.turn = v.about /\ ~ v.beginTask
      /\ v.result \in {"ok", "deleted"} => ~ (Waiting(ctl) /\ ctl.pend.turn = v.turn)
  <2>1. WorkerOK(w) /\ HeardOK(w)
    BY <1>0
  <2>. QED BY <1>1, <1>3, <1>4, <2>1 DEF WorkerOK, HeardOK
<1>6. p \in Terminals /\ (p # None => p.turn \in begun)
  <2>1. v.about \in 1 .. MaxSubmits
    BY <1>4, <1>5
  <2>. QED BY <1>2, <1>5, <2>1 DEF PendingTerminal, Terminals
<1>8. /\ rt' \in RuntimeRecs /\ rt'.gen = rt.gen /\ rt'.persisting = FALSE
      /\ rt'.coord = rt.coord
      /\ rt'.generating = rt.generating /\ rt'.delReq = rt.delReq /\ rt'.delPend = rt.delPend
      /\ rt'.shutdown = rt.shutdown /\ rt'.turn = 0 /\ rt'.pterm = p
      /\ rt'.next = rt.next /\ rt'.reply = rt.reply /\ rt'.started = rt.started
      /\ rt'.alive = rt.alive
  <2>1. PICK r : r = [rt EXCEPT !.persisting = FALSE, !.turn = 0, !.pterm = None]
    OBVIOUS
  <2>2. /\ r \in RuntimeRecs /\ r.gen = rt.gen /\ r.persisting = FALSE
        /\ r.coord = rt.coord
        /\ r.generating = rt.generating /\ r.delReq = rt.delReq /\ r.delPend = rt.delPend
        /\ r.shutdown = rt.shutdown /\ r.turn = 0 /\ r.pterm = None
        /\ r.next = rt.next /\ r.reply = rt.reply /\ r.started = rt.started
        /\ r.alive = rt.alive
    <3>1. None \in Terminals
      BY DEF Terminals
    <3>2. PICK n \in Terminals : n = None
      BY <3>1
    <3>3. PICK z \in 0 .. MaxSubmits : z = 0
      BY <1>4
    <3>4. r = [rt EXCEPT !.persisting = FALSE, !.turn = z, !.pterm = n]
      BY <2>1, <3>2, <3>3
    <3>5. /\ r \in RuntimeRecs /\ r.gen = rt.gen /\ r.persisting = FALSE
          /\ r.coord = rt.coord
          /\ r.generating = rt.generating /\ r.delReq = rt.delReq /\ r.delPend = rt.delPend
          /\ r.shutdown = rt.shutdown /\ r.turn = z /\ r.pterm = n
          /\ r.next = rt.next /\ r.reply = rt.reply /\ r.started = rt.started
          /\ r.alive = rt.alive
      BY <1>4, <3>4 DEF RuntimeRecs
    <3>. QED BY <3>2, <3>3, <3>5
  <2>3. CASE v.result \in {"ok", "deleted"}
    <3>1. rt' = r
      BY <1>1, <2>1, <2>3 DEF TerminalAnswered
    <3>. QED BY <1>2, <2>2, <2>3, <3>1
  <2>4. CASE v.result \notin {"ok", "deleted"}
    <3>1. rt' = [r EXCEPT !.pterm = p, !.turn = 0]
      BY <1>1, <1>2, <2>1, <2>4 DEF TerminalAnswered, KeepTerminal
    <3>. QED BY <1>4, <1>6, <2>2, <3>1 DEF RuntimeRecs
  <2>. QED BY <2>3, <2>4
<1>9. /\ worker' \in [Workers -> WorkerRecs] /\ worker'[w] = Free
      /\ \A u \in Workers \ {w} : worker'[u] = worker[u]
  <2>1. Settle(Told1(v)) = Free /\ Settle(Told1(v)) \in WorkerRecs
    BY <1>4, <1>5, Told1Is
  <2>. QED BY <1>3, <1>4, <2>1
<1>n. \A u \in Workers : ~ Task(worker'[u])
  <2>1. Task(worker[w])
    BY <1>1, <1>3 DEF Task
  <2>2. \A u \in Workers \ {w} : ~ Task(worker[u])
    BY <1>0, <2>1 DEF PairOK
  <2>3. ~ Task(Free)
    BY FreeIs DEF Task
  <2>. QED BY <1>9, <2>2, <2>3
<1>g. ~ rt.generating
  BY <1>0, <1>1, <1>3 DEF ForegroundOK, Task
<1>10. TypeInv'
  BY <1>0, <1>3, <1>8, <1>9 DEF TypeInv
<1>11. LedgerInv'
  BY <1>0, <1>3, LedgerSame
<1>12. Awaited'
  BY <1>0, <1>1, <1>3, <1>5, <1>9, FreeIs DEF Awaited
<1>13. \A u \in Workers : WorkerOK(u)'
  BY <1>0, <1>3, <1>9, WorkerKept, FreeOK
<1>14. \A u \in Workers : HeardOK(u)'
  <2>1. \A u \in Workers : worker'[u].pc # "begin"
    BY <1>0, <1>9, <1>n, FreeIs DEF HeardOK, Task
  <2>. QED BY <1>n, <2>1 DEF HeardOK, Task
<1>15. \A a, u \in Workers : a # u => PairOK(a, u)'
  BY <1>n DEF PairOK, Task
<1>16. CoordOK'
  <2>1. ASSUME rt.coord # None
        PROVE  /\ rt.coord # w /\ rt.coord \in Workers /\ worker[rt.coord].pc = "free"
               /\ worker[rt.coord].answer = "none"
    <3>1. rt.coord # w /\ rt.coord \in Workers
      BY <1>0, <1>1, <1>3, <2>1, RuntimeTypes DEF CoordOK
    <3>2. worker[rt.coord].pc = "free"
      BY <1>0, <1>g, <1>n, <1>9, <2>1, <3>1 DEF CoordOK, Task
    <3>. QED BY <1>0, <3>1, <3>2 DEF WorkerOK
  <2>. QED BY <1>0, <1>8, <1>9, <1>g, <2>1 DEF CoordOK
<1>17. ForegroundOK'
  BY <1>0, <1>3, <1>4, <1>6, <1>8, <1>g, <1>n DEF ForegroundOK, Task
<1>18. Responsible'
  <2> SUFFICES ASSUME Waiting(ctl), ~ rt.shutdown
               PROVE  \E x \in Outcomes : Answered(x)'
    BY <1>3, <1>8 DEF Responsible
  <2>1. PICK x \in Outcomes : Answered(x)
    BY <1>0 DEF Responsible
  <2>2. ctl.pend.turn = v.about
    BY <1>0, <1>5 DEF ForegroundOK
  <2>3. v.cmd = x
    BY <1>1, <1>3, <2>1, <2>2 DEF Answered, Voices
  <2>4. p = PendingTerminal(ctl.pend.turn, x)
    BY <1>2, <1>5, <2>2, <2>3
  <2>5. \A u \in Workers : Voices(worker'[u], ctl.pend.turn, x)
    <3>1. Voices(Free, ctl.pend.turn, x)
      BY FreeIs DEF Voices
    <3>. QED BY <1>9, <2>1, <3>1 DEF Answered
  <2>6. Answered(x)'
    BY <1>3, <1>8, <1>n, <2>1, <2>4, <2>5 DEF Answered, Task
  <2>. QED BY <2>6
<1>. QED BY <1>10, <1>11, <1>12, <1>13, <1>14, <1>15, <1>16, <1>17, <1>18 DEF TurnsInv, HeardInv

-----------------------------------------------------------------------------
(***************************************************************************)
(* The result of a detached terminal.                                      *)
(***************************************************************************)
\* The controller waits for a turn that was begun.
LEMMA WaitingBegun ==
  ASSUME TypeInv, Awaited, \A w \in Workers : WorkerOK(w), Waiting(ctl)
  PROVE  /\ ctl.pend.turn \in begun /\ ctl.pend.turn \in 1 .. MaxSubmits /\ ctl.pend.turn # 0
         /\ \A x \in Outcomes : PendingTerminal(ctl.pend.turn, x) # None
<1>1. ctl.pend.turn \in begun
  BY DEF Awaited, WorkerOK, TypeInv
<1>2. ctl.pend.turn \in 1 .. MaxSubmits
  BY <1>1 DEF TypeInv
<1>3. ASSUME NEW x \in Outcomes
      PROVE  PendingTerminal(ctl.pend.turn, x) # None
  <2>1. PendingTerminal(ctl.pend.turn, x) \in [turn : 1 .. MaxSubmits, term : Outcomes]
    BY <1>2 DEF PendingTerminal
  <2>. QED BY <2>1, TurnAssumption
<1>. QED BY <1>1, <1>2, <1>3, TurnAssumption

\* The detached observer: its terminal is written, or kept where there is room.
LEMMA DetachedAnsweredKeeps ==
  ASSUME TurnsInv, NEW w \in Workers, DetachedAnswered(w)
  PROVE  TurnsInv'
<1>0. /\ TypeInv /\ LedgerInv /\ Awaited
      /\ \A u \in Workers : WorkerOK(u)
      /\ rt.alive /\ (\A u \in Workers : HeardOK(u)) /\ CoordOK /\ ForegroundOK
      /\ \A a, u \in Workers : a # u => PairOK(a, u)
      /\ Responsible
  BY DEF TurnsInv, DetachedAnswered, HeardInv
<1>1. PICK v : v = worker[w]
  OBVIOUS
<1>2. PICK t : t = v.about
  OBVIOUS
<1>3. /\ v.endTask = "detached" /\ v.result # "none"
      /\ worker' = [worker EXCEPT ![w] = Settle(Told1(v))]
      /\ deletion' = deletion /\ ctl' = ctl /\ store' = store /\ begun' = begun
      /\ gaveUp' = gaveUp /\ accepting' = accepting /\ sealed' = sealed /\ submits' = submits
  BY <1>1 DEF DetachedAnswered, durable, world, Told1
<1>4. /\ rt \in RuntimeRecs /\ worker \in [Workers -> WorkerRecs] /\ MaxSubmits \in Nat
      /\ submits \in 0 .. MaxSubmits /\ rt.next \in 1 .. MaxSubmits + 1
      /\ rt.turn \in 0 .. MaxSubmits /\ rt.pterm \in Terminals
      /\ v \in WorkerRecs /\ t \in 0 .. MaxSubmits
      /\ v.pc \in {"free", "begin", "await", "over"} /\ v.beginTask \in BOOLEAN
  BY <1>0, <1>1, <1>2, RuntimeTypes, WorkerTypes
<1>5. /\ v.pc = "over" /\ t \in {0, v.turn} /\ (t # 0 => t \in begun)
      /\ v.cmd \in Outcomes /\ (v.beginTask => t = 0)
      /\ v.result \in {"ok", "deleted"} => ~ (Waiting(ctl) /\ ctl.pend.turn = v.turn)
  <2>1. WorkerOK(w) /\ HeardOK(w)
    BY <1>0
  <2>. QED BY <1>1, <1>2, <1>3, <1>4, <2>1 DEF WorkerOK, HeardOK
<1>w. Waiting(ctl) => /\ ctl.pend.turn # 0
                      /\ \A x \in Outcomes : PendingTerminal(ctl.pend.turn, x) # None
  BY <1>0, WaitingBegun
<1>6. \E y \in 0 .. MaxSubmits, p \in Terminals :
        /\ rt' = [rt EXCEPT !.turn = y, !.pterm = p]
        /\ \/ /\ v.result \in {"ok", "deleted"}
              /\ y = IF rt.turn = t THEN 0 ELSE rt.turn
              /\ p = IF HoldsTerminal(t) THEN None ELSE rt.pterm
           \/ /\ v.result \notin {"ok", "deleted"}
              /\ t # 0 /\ rt.turn \in {0, t} /\ (rt.pterm = None \/ HoldsTerminal(t))
              /\ y = 0 /\ p = PendingTerminal(t, v.cmd)
           \/ /\ v.result \notin {"ok", "deleted"}
              /\ y = rt.turn /\ p = rt.pterm
              /\ ~ (/\ t # 0 /\ rt.turn \in {0, t} /\ (rt.pterm = None \/ HoldsTerminal(t)))
  <2>1. CASE v.result \in {"ok", "deleted"}
    <3>1. PICK y : y = IF rt.turn = t THEN 0 ELSE rt.turn
      OBVIOUS
    <3>2. PICK p : p = IF HoldsTerminal(t) THEN None ELSE rt.pterm
      OBVIOUS
    <3>3. rt' = [rt EXCEPT !.turn = y, !.pterm = p]
      BY <1>1, <1>2, <2>1, <3>1, <3>2 DEF DetachedAnswered
    <3>4. y \in 0 .. MaxSubmits /\ p \in Terminals
      <4>1. None \in Terminals
        BY DEF Terminals
      <4>. QED BY <1>4, <3>1, <3>2, <4>1
    <3>. QED BY <2>1, <3>1, <3>2, <3>3, <3>4
  <2>2. CASE /\ v.result \notin {"ok", "deleted"}
             /\ t # 0 /\ rt.turn \in {0, t} /\ (rt.pterm = None \/ HoldsTerminal(t))
    <3>1. PICK y : y = 0
      OBVIOUS
    <3>2. PICK p : p = PendingTerminal(t, v.cmd)
      OBVIOUS
    <3>3. rt' = [rt EXCEPT !.pterm = p, !.turn = y]
      BY <1>1, <1>2, <2>2, <3>1, <3>2 DEF DetachedAnswered, KeepDetached, KeepTerminal
    <3>4. y \in 0 .. MaxSubmits /\ p \in Terminals
      <4>1. t \in 1 .. MaxSubmits
        BY <1>4, <2>2
      <4>. QED BY <1>4, <1>5, <3>1, <3>2, <4>1 DEF Terminals, PendingTerminal
    <3>5. rt' = [rt EXCEPT !.turn = y, !.pterm = p]
      BY <1>4, <3>3, <3>4 DEF RuntimeRecs
    <3>. QED BY <2>2, <3>1, <3>2, <3>5, <3>4
  <2>3. CASE /\ v.result \notin {"ok", "deleted"}
             /\ ~ (t # 0 /\ rt.turn \in {0, t} /\ (rt.pterm = None \/ HoldsTerminal(t)))
    <3>1. rt' = rt
      BY <1>1, <1>2, <2>3 DEF DetachedAnswered, KeepDetached
    <3>2. PICK y \in 0 .. MaxSubmits : y = rt.turn
      BY <1>4
    <3>3. PICK p \in Terminals : p = rt.pterm
      BY <1>4
    <3>4. rt' = [rt EXCEPT !.turn = y, !.pterm = p]
      BY <1>4, <3>1, <3>2, <3>3 DEF RuntimeRecs
    <3>. QED BY <2>3, <3>2, <3>3, <3>4
  <2>. QED BY <2>1, <2>2, <2>3
<1>7. PICK y \in 0 .. MaxSubmits, p \in Terminals :
        /\ rt' = [rt EXCEPT !.turn = y, !.pterm = p]
        /\ \/ /\ v.result \in {"ok", "deleted"}
              /\ y = IF rt.turn = t THEN 0 ELSE rt.turn
              /\ p = IF HoldsTerminal(t) THEN None ELSE rt.pterm
           \/ /\ v.result \notin {"ok", "deleted"}
              /\ t # 0 /\ rt.turn \in {0, t} /\ (rt.pterm = None \/ HoldsTerminal(t))
              /\ y = 0 /\ p = PendingTerminal(t, v.cmd)
           \/ /\ v.result \notin {"ok", "deleted"}
              /\ y = rt.turn /\ p = rt.pterm
              /\ ~ (/\ t # 0 /\ rt.turn \in {0, t} /\ (rt.pterm = None \/ HoldsTerminal(t)))
  BY <1>6
<1>8. /\ rt' \in RuntimeRecs /\ rt'.gen = rt.gen /\ rt'.persisting = rt.persisting
      /\ rt'.coord = rt.coord
      /\ rt'.generating = rt.generating /\ rt'.delReq = rt.delReq /\ rt'.delPend = rt.delPend
      /\ rt'.shutdown = rt.shutdown /\ rt'.turn = y /\ rt'.pterm = p
      /\ rt'.next = rt.next /\ rt'.reply = rt.reply /\ rt'.started = rt.started
      /\ rt'.alive = rt.alive
  BY <1>4, <1>7 DEF RuntimeRecs
<1>q. PICK q : q = Settle(Told1(v))
  OBVIOUS
<1>9. /\ worker' \in [Workers -> WorkerRecs] /\ worker'[w] = q
      /\ \A u \in Workers \ {w} : worker'[u] = worker[u]
      /\ q.endTask = "none" /\ q.beginTask = v.beginTask /\ q.pc \in {"free", "over"}
      /\ q = Free \/ (/\ v.beginTask /\ q.pc = v.pc /\ q.turn = v.turn /\ q.gen = v.gen
                      /\ q.cmd = v.cmd
                      /\ q.msg = v.msg /\ q.retry = v.retry /\ q.answer = v.answer
                      /\ q.retried = v.retried /\ q.about = v.about /\ q.result = v.result)
  <2>1. /\ q \in WorkerRecs /\ (~ v.beginTask => q = Free) /\ (v.beginTask => q = Told1(v))
    BY <1>4, <1>5, <1>q, Told1Is
  <2>2. CASE ~ v.beginTask
    BY <1>3, <1>4, <1>q, <2>1, <2>2, FreeIs
  <2>3. CASE v.beginTask
    <3>1. /\ q.pc = v.pc /\ q.turn = v.turn /\ q.msg = v.msg
          /\ q.gen = v.gen /\ q.retry = v.retry /\ q.cmd = v.cmd
          /\ q.beginTask = v.beginTask /\ q.answer = v.answer
          /\ q.retried = v.retried /\ q.about = v.about
          /\ q.result = v.result /\ q.endTask = "none"
      <4>1. PICK r : r = Told1(v)
        OBVIOUS
      <4>2. /\ r.pc = v.pc /\ r.turn = v.turn /\ r.msg = v.msg
            /\ r.gen = v.gen /\ r.retry = v.retry /\ r.cmd = v.cmd
            /\ r.beginTask = v.beginTask /\ r.answer = v.answer
            /\ r.retried = v.retried /\ r.about = v.about
            /\ r.result = v.result /\ r.endTask = "none"
        BY <1>4, <1>5, <4>1, Told1Is
      <4>. QED BY <2>1, <2>3, <4>1, <4>2
    <3>. QED BY <1>3, <1>4, <1>5, <1>q, <2>1, <2>3, <3>1
  <2>. QED BY <1>4, <2>2, <2>3
<1>h. \A i : ~ Holds(q, i)
  BY <1>9 DEF Holds
<1>a. /\ \A u \in Workers : worker'[u].beginTask = worker[u].beginTask
      /\ \A u \in Workers : worker[u].beginTask => /\ worker'[u].answer = worker[u].answer
                                                   /\ worker'[u].turn = worker[u].turn
      /\ \A u \in Workers : worker'[u].endTask = "terminal" <=> worker[u].endTask = "terminal"
      /\ \A u \in Workers : worker[u].endTask = "terminal" => worker'[u] = worker[u]
      /\ \A u \in Workers : Task(worker'[u]) <=> Task(worker[u])
  <2>1. q.beginTask => q.answer = v.answer /\ q.turn = v.turn
    BY <1>9, FreeIs
  <2>2. Task(q) <=> Task(v)
    BY <1>3, <1>9 DEF Task
  <2>. QED BY <1>1, <1>3, <1>9, <2>1, <2>2
<1>10. TypeInv'
  BY <1>0, <1>3, <1>8, <1>9 DEF TypeInv
<1>11. LedgerInv'
  BY <1>0, <1>3, LedgerSame
<1>12. Awaited'
  BY <1>0, <1>1, <1>3, <1>5, <1>9 DEF Awaited
<1>13. \A u \in Workers : WorkerOK(u)'
  <2>1. WorkerOK(w)'
    <3>1. CASE q = Free
      BY <1>9, <3>1, FreeOK
    <3>2. CASE q # Free
      <4>1. WorkerOK(w)
        BY <1>0
      <4>. QED BY <1>1, <1>2, <1>3, <1>5, <1>9, <3>2, <4>1 DEF WorkerOK
    <3>. QED BY <3>1, <3>2
  <2>. QED BY <1>0, <1>3, <1>9, <2>1, WorkerKept
<1>14. \A u \in Workers : HeardOK(u)'
  <2>1. HeardOK(w)'
    <3>1. CASE q = Free
      BY <1>9, <3>1, FreeIs DEF HeardOK
    <3>2. CASE q # Free
      <4>1. HeardOK(w) /\ v.beginTask /\ t = 0
        BY <1>0, <1>5, <1>9, <3>2
      <4>2. y = 0 /\ rt.turn = 0
        BY <1>1, <1>7, <4>1 DEF HeardOK
      <4>3. p = None \/ p = rt.pterm
        BY <1>7, <4>1
      <4>. QED BY <1>1, <1>3, <1>5, <1>8, <1>9, <3>2, <4>1, <4>2, <4>3 DEF HeardOK, HoldsTerminal
    <3>. QED BY <3>1, <3>2
  <2>2. ASSUME NEW u \in Workers \ {w}
        PROVE  HeardOK(u)'
    <3>1. HeardOK(u) /\ PairOK(u, w) /\ worker'[u] = worker[u]
      BY <1>0, <1>9
    <3>2. rt.turn = 0 => y = 0
      BY <1>7
    <3>3. worker[u].endTask = "terminal" => y = worker[u].about
      <4>1. WorkerOK(u)
        BY <1>0
      <4>2. worker[u].endTask = "terminal" => rt.turn = worker[u].about /\ rt.turn # 0 /\ rt.turn # t
        BY <1>1, <1>2, <1>3, <3>1, <4>1 DEF WorkerOK, HeardOK, PairOK
      <4>. QED BY <1>7, <4>2
    <3>4. worker[u].beginTask /\ worker[u].answer = "ok" =>
            ~ (p # None /\ p.turn = worker[u].turn)
      <4>1. worker[u].beginTask /\ worker[u].answer = "ok" =>
              ~ HoldsTerminal(worker[u].turn) /\ t # worker[u].turn
        BY <1>1, <1>2, <1>3, <3>1 DEF HeardOK, PairOK, Holds
      <4>. QED BY <1>7, <4>1 DEF HoldsTerminal, PendingTerminal
    <3>. QED BY <1>3, <1>8, <3>1, <3>2, <3>3, <3>4 DEF HeardOK, HoldsTerminal
  <2>. QED BY <2>1, <2>2
<1>15. ASSUME NEW a \in Workers, NEW u \in Workers, a # u
       PROVE  PairOK(a, u)'
  <2>1. PairOK(a, u)
    BY <1>0, <1>15
  <2>2. \A i : Holds(worker'[u], i) => Holds(worker[u], i)
    BY <1>9, <1>h
  <2>3. worker'[u].endTask = "detached" => worker'[u] = worker[u]
    BY <1>9
  <2>. QED BY <1>a, <2>1, <2>2, <2>3 DEF PairOK
<1>c. rt.coord # None =>
        /\ rt.coord # w /\ rt.coord \in Workers /\ worker'[rt.coord] = worker[rt.coord]
        /\ Own(rt.coord) => t # worker[rt.coord].turn
  <2>1. rt.coord # None => rt.coord # w /\ rt.coord \in Workers
    BY <1>0, <1>1, <1>3, RuntimeTypes DEF CoordOK
  <2>. QED BY <1>1, <1>2, <1>3, <1>9, <2>1 DEF Own, Holds
<1>16. CoordOK'
  <2>1. rt.coord # None /\ Own(rt.coord) => Own(rt.coord)'
    <3>1. rt.coord # None /\ Own(rt.coord) => ~ (p # None /\ p.turn = worker[rt.coord].turn)
      BY <1>7, <1>c DEF Own, HoldsTerminal, PendingTerminal
    <3>. QED BY <1>3, <1>8, <1>9, <1>c, <1>h, <3>1 DEF Own, HoldsTerminal
  <2>. QED BY <1>0, <1>8, <1>c, <2>1 DEF CoordOK
<1>17. ForegroundOK'
  <2>1. y # 0 => y = rt.turn
    BY <1>7
  <2>2. p # None => p.turn \in begun
    BY <1>0, <1>5, <1>7 DEF ForegroundOK, PendingTerminal
  <2>3. rt.generating => y = rt.turn
    BY <1>0, <1>7, <1>c DEF ForegroundOK, CoordOK
  <2>4. y # 0 /\ rt.pterm = PendingTerminal(y, "cancelled") => p = rt.pterm
    BY <1>7 DEF HoldsTerminal, PendingTerminal
  <2>. QED BY <1>0, <1>3, <1>8, <1>a, <1>c, <2>1, <2>2, <2>3, <2>4 DEF ForegroundOK
<1>18. Responsible'
  <2> SUFFICES ASSUME Waiting(ctl), ~ rt.shutdown
               PROVE  \E x \in Outcomes : Answered(x)'
    BY <1>3, <1>8 DEF Responsible
  <2>1. PICK x \in Outcomes : Answered(x)
    BY <1>0 DEF Responsible
  <2>2. PICK i : i = ctl.pend.turn
    OBVIOUS
  <2>3. /\ i # 0 /\ ctl.pend.term \in {None, x}
        /\ \A u \in Workers : Voices(worker'[u], i, x)
    <3>1. Voices(q, i, x)
      BY <1>9 DEF Voices
    <3>. QED BY <1>9, <1>w, <2>1, <2>2, <3>1 DEF Answered
  <2>4. rt.turn \in {0, i}
    BY <1>0, <2>2 DEF ForegroundOK
  <2>5. t = i => v.cmd = x
    BY <1>1, <1>2, <1>3, <2>1, <2>2 DEF Answered, Voices
  <2>6. \/ rt.pterm = PendingTerminal(i, x) /\ \A u \in Workers : worker[u].endTask # "terminal"
        \/ \E u \in Workers : worker[u].endTask = "terminal" /\ worker[u].about = i
        \/ /\ ~ HoldsTerminal(i) /\ x = "cancelled"
           /\ \E u \in Workers : worker[u].beginTask /\ worker[u].answer = "ok"
        \/ ~ HoldsTerminal(i) /\ rt.generating
    BY <2>1, <2>2 DEF Answered
  <2>a. \A u \in Workers : worker[u].endTask = "terminal" /\ worker[u].about = i => t # i /\ rt.turn = i
    <3>1. ASSUME NEW u \in Workers, worker[u].endTask = "terminal", worker[u].about = i
          PROVE  t # i /\ rt.turn = i
      <4>1. u # w /\ HeardOK(u)
        BY <1>0, <1>1, <1>3, <3>1
      <4>2. PairOK(u, w)
        BY <1>0, <4>1
      <4>. QED BY <1>1, <1>2, <1>3, <3>1, <4>1, <4>2 DEF HeardOK, PairOK
    <3>. QED BY <3>1
  <2>b. \A u \in Workers : worker[u].beginTask /\ worker[u].answer = "ok" => t # i
    <3>1. ASSUME NEW u \in Workers, worker[u].beginTask, worker[u].answer = "ok", t = i
          PROVE  FALSE
      <4>1. HeardOK(u) /\ worker[u].turn = i /\ worker[u].about = 0
        BY <1>0, <2>2, <3>1 DEF HeardOK
      <4>2. u # w
        BY <1>1, <1>2, <2>3, <3>1, <4>1
      <4>3. PairOK(u, w)
        BY <1>0, <4>2
      <4>. QED BY <1>1, <1>2, <1>3, <3>1, <4>1, <4>3 DEF PairOK, Holds
    <3>. QED BY <3>1
  <2>d. rt.generating => rt.turn = i /\ t # i
    <3>1. rt.generating => rt.turn # 0 /\ rt.coord # None /\ worker[rt.coord].turn = rt.turn
      BY <1>0 DEF ForegroundOK
    <3>2. rt.generating => Own(rt.coord)
      BY <1>0, <3>1 DEF CoordOK
    <3>. QED BY <1>c, <2>4, <3>1, <3>2
  <2>7. CASE v.result \in {"ok", "deleted"}
    <3>1. t # i
      BY <1>5, <2>2, <2>3, <2>7
    <3>2. rt.pterm = PendingTerminal(i, x) => p = rt.pterm
      BY <1>7, <2>7, <3>1 DEF HoldsTerminal, PendingTerminal
    <3>3. ~ HoldsTerminal(i) => ~ (p # None /\ p.turn = i)
      BY <1>7, <2>7 DEF HoldsTerminal
    <3>4. Answered(x)'
      BY <1>3, <1>8, <1>a, <2>2, <2>3, <2>6, <3>2, <3>3 DEF Answered, HoldsTerminal
    <3>. QED BY <3>4
  <2>8. CASE /\ v.result \notin {"ok", "deleted"}
             /\ t # 0 /\ rt.turn \in {0, t} /\ (rt.pterm = None \/ HoldsTerminal(t))
    <3>1. y = 0 /\ p = PendingTerminal(t, v.cmd)
      BY <1>7, <2>8
    <3>2. CASE t = i
      <4>1. p = PendingTerminal(i, x)
        BY <2>5, <3>1, <3>2
      <4>2. \A u \in Workers : worker[u].endTask # "terminal"
        BY <2>6, <2>a, <2>b, <2>d, <3>2
      <4>3. Answered(x)'
        BY <1>3, <1>8, <1>a, <2>2, <2>3, <4>1, <4>2 DEF Answered
      <4>. QED BY <4>3
    <3>3. CASE t # i
      <4>1. /\ ~ HoldsTerminal(i) /\ x = "cancelled"
            /\ \E u \in Workers : worker[u].beginTask /\ worker[u].answer = "ok"
        BY <1>w, <2>2, <2>3, <2>6, <2>8, <2>a, <2>d, <3>3 DEF HoldsTerminal, PendingTerminal
      <4>2. p.turn # i
        BY <3>1, <3>3 DEF PendingTerminal
      <4>3. Answered(x)'
        BY <1>3, <1>8, <1>a, <2>2, <2>3, <4>1, <4>2 DEF Answered, HoldsTerminal
      <4>. QED BY <4>3
    <3>. QED BY <3>2, <3>3
  <2>9. CASE /\ v.result \notin {"ok", "deleted"}
             /\ ~ (t # 0 /\ rt.turn \in {0, t} /\ (rt.pterm = None \/ HoldsTerminal(t)))
    <3>1. p = rt.pterm
      BY <1>7, <2>9
    <3>2. Answered(x)'
      BY <1>3, <1>8, <1>a, <2>2, <2>3, <2>6, <3>1 DEF Answered, HoldsTerminal
    <3>. QED BY <3>2
  <2>. QED BY <2>7, <2>8, <2>9
<1>. QED BY <1>10, <1>11, <1>12, <1>13, <1>14, <1>15, <1>16, <1>17, <1>18 DEF TurnsInv, HeardInv

-----------------------------------------------------------------------------
(***************************************************************************)
(* The end of a generation.                                                *)
(***************************************************************************)
\* A worker that got its terminal over the channel.
Commanded(v, x, task, t) == [v EXCEPT !.cmd = x, !.endTask = task, !.about = t]

IsCommanded(q, v, x, task, t) ==
  /\ q \in WorkerRecs /\ q.pc = v.pc /\ q.turn = v.turn /\ q.msg = v.msg
  /\ q.gen = v.gen /\ q.retry = v.retry /\ q.tries = v.tries
  /\ q.beginTask = v.beginTask /\ q.answer = v.answer
  /\ q.retried = v.retried /\ q.result = v.result
  /\ q.cmd = x /\ q.endTask = task /\ q.about = t

\* A worker that is sent a terminal, and only that worker, is commanded.
LEMMA CommandIs ==
  ASSUME TypeInv, NEW w \in Workers, NEW x \in Outcomes, NEW task \in {"terminal", "detached"},
         NEW t \in 0 .. MaxSubmits
  PROVE  /\ Command(w, x, task, t) = [worker EXCEPT ![w] = Commanded(worker[w], x, task, t)]
         /\ IsCommanded(Commanded(worker[w], x, task, t), worker[w], x, task, t)
         /\ Command(w, x, task, t) \in [Workers -> WorkerRecs]
<1>1. worker \in [Workers -> WorkerRecs] /\ worker[w] \in WorkerRecs
  BY WorkerTypes DEF TypeInv
<1>2. PICK v : v = worker[w]
  OBVIOUS
<1>3. PICK q : q = Commanded(v, x, task, t)
  OBVIOUS
<1>4. /\ q \in WorkerRecs /\ q.pc = v.pc /\ q.turn = v.turn /\ q.msg = v.msg
      /\ q.gen = v.gen /\ q.retry = v.retry /\ q.tries = v.tries
      /\ q.beginTask = v.beginTask /\ q.answer = v.answer
      /\ q.retried = v.retried /\ q.result = v.result
      /\ q.cmd = x /\ q.endTask = task /\ q.about = t
  BY <1>1, <1>2, <1>3 DEF Commanded, WorkerRecs
<1>5. IsCommanded(q, v, x, task, t)
  BY <1>4 DEF IsCommanded
<1>6. Command(w, x, task, t) = [worker EXCEPT ![w] = q]
  BY <1>1, <1>2, <1>3 DEF Command, Commanded, WorkerRecs
<1>. QED BY <1>1, <1>2, <1>3, <1>4, <1>5, <1>6

\* A generation ends, and its terminal is sent to the worker or to a new one.
LEMMA GenerationEndsKeeps ==
  ASSUME TurnsInv, NEW x \in Outcomes, GenerationEnds(x)
  PROVE  TurnsInv'
<1>0. /\ TypeInv /\ LedgerInv /\ Awaited
      /\ \A w \in Workers : WorkerOK(w)
      /\ rt.alive /\ (\A w \in Workers : HeardOK(w)) /\ CoordOK /\ ForegroundOK
      /\ \A w, u \in Workers : w # u => PairOK(w, u)
      /\ Responsible
  BY DEF TurnsInv, GenerationEnds, HeardInv
<1>1. /\ deletion' = deletion /\ ctl' = ctl /\ store' = store
      /\ begun' = begun /\ gaveUp' = gaveUp /\ accepting' = accepting /\ sealed' = sealed
      /\ submits' = submits /\ rt.reply # 0
  BY DEF GenerationEnds, durable, world
<1>2. /\ rt \in RuntimeRecs /\ worker \in [Workers -> WorkerRecs] /\ MaxSubmits \in Nat
      /\ rt.gen \in Nat /\ rt.turn \in 0 .. MaxSubmits /\ rt.coord \in Workers \cup {None}
      /\ rt.reply \in Nat /\ rt.started \in Nat
  BY <1>0, RuntimeTypes
<1>3. CASE rt.reply # rt.gen
  <2>1. rt' = [rt EXCEPT !.reply = 0] /\ worker' = worker
    BY <1>3 DEF GenerationEnds
  <2>2. PICK z \in Nat : z = 0
    OBVIOUS
  <2>3. /\ rt' \in RuntimeRecs /\ rt'.gen = rt.gen /\ rt'.persisting = rt.persisting
        /\ rt'.coord = rt.coord
        /\ rt'.generating = rt.generating /\ rt'.delReq = rt.delReq /\ rt'.delPend = rt.delPend
        /\ rt'.shutdown = rt.shutdown /\ rt'.turn = rt.turn /\ rt'.pterm = rt.pterm
        /\ rt'.next = rt.next /\ rt'.reply = z /\ rt'.started = rt.started
        /\ rt'.alive = rt.alive
    BY <1>2, <2>1, <2>2 DEF RuntimeRecs
  <2>5. TypeInv'
    BY <1>0, <1>1, <2>1, <2>3 DEF TypeInv
  <2>6. LedgerInv'
    BY <1>0, <1>1, LedgerSame
  <2>7. Awaited'
    BY <1>0, <1>1, <2>1 DEF Awaited
  <2>8. /\ \A w \in Workers : WorkerOK(w)'
        /\ \A w \in Workers : HeardOK(w)'
        /\ \A w, u \in Workers : w # u => PairOK(w, u)'
    BY <1>0, <1>1, <2>1, <2>3, WorkersKept
  <2>9. CoordOK'
    BY <1>0, <1>1, <2>1, <2>3 DEF CoordOK, Own, HoldsTerminal
  <2>10. ForegroundOK'
    BY <1>0, <1>1, <1>2, <2>1, <2>2, <2>3 DEF ForegroundOK
  <2>11. Responsible'
    BY <1>0, <1>1, <2>1, <2>3, AnsweredKept DEF Responsible
  <2>. QED BY <2>5, <2>6, <2>7, <2>8, <2>9, <2>10, <2>11 DEF TurnsInv, HeardInv
<1>4. CASE rt.reply = rt.gen
  <2>1. /\ rt.generating /\ rt.coord \in Workers /\ rt.coord # None /\ rt.turn # 0
        /\ ~ rt.persisting
        /\ worker[rt.coord].turn = rt.turn /\ rt.turn \in begun
    BY <1>0, <1>1, <1>2, <1>4 DEF ForegroundOK
  <2>2. PICK c \in Workers : c = rt.coord
    BY <2>1
  <2>3. PICK v : v = worker[c]
    OBVIOUS
  <2>4. PICK t \in 1 .. MaxSubmits : t = rt.turn
    BY <1>2, <2>1
  <2>5. /\ v.cmd = "open" /\ v.endTask = "none" /\ ~ rt.delReq /\ ~ rt.delPend /\ ~ rt.shutdown
        /\ Own(c)
    BY <1>0, <2>1, <2>2, <2>3 DEF CoordOK
  <2>6. /\ v.pc = "await" /\ v.turn = t /\ Waiting(ctl) /\ ctl.pend.turn = t
        /\ ctl.pend.term = None /\ ~ HoldsTerminal(t)
        /\ \A u \in Workers \ {c} : ~ Holds(worker[u], t)
    BY <2>1, <2>2, <2>3, <2>4, <2>5 DEF Own
  <2>7. \A u \in Workers : ~ Task(worker[u])
    BY <1>0, <2>1 DEF ForegroundOK
  <2>8. /\ rt' = [[rt EXCEPT !.reply = 0, !.generating = FALSE]
                    EXCEPT !.persisting = TRUE, !.coord = None]
        /\ worker' = Command(c, x, "terminal", t)
    BY <1>4, <2>1, <2>2, <2>3, <2>4, <2>5, <2>6 DEF GenerationEnds, Listening, Running
  <2>9. /\ rt' \in RuntimeRecs /\ rt'.gen = rt.gen /\ rt'.persisting = TRUE
        /\ rt'.coord = None
        /\ rt'.generating = FALSE /\ rt'.delReq = rt.delReq /\ rt'.delPend = rt.delPend
        /\ rt'.shutdown = rt.shutdown /\ rt'.turn = t /\ rt'.pterm = rt.pterm
        /\ rt'.next = rt.next /\ rt'.reply = 0 /\ rt'.started = rt.started
        /\ rt'.alive = rt.alive
    <3>1. PICK z \in Nat : z = 0
      OBVIOUS
    <3>2. PICK n \in Workers \cup {None} : n = None
      OBVIOUS
    <3>3. PICK r : r = [rt EXCEPT !.reply = z, !.generating = FALSE]
      OBVIOUS
    <3>4. /\ r \in RuntimeRecs /\ r.gen = rt.gen /\ r.persisting = rt.persisting
          /\ r.coord = rt.coord
          /\ r.generating = FALSE /\ r.delReq = rt.delReq /\ r.delPend = rt.delPend
          /\ r.shutdown = rt.shutdown /\ r.turn = rt.turn /\ r.pterm = rt.pterm
          /\ r.next = rt.next /\ r.reply = z /\ r.started = rt.started
          /\ r.alive = rt.alive
      BY <1>2, <3>1, <3>3 DEF RuntimeRecs
    <3>5. rt' = [r EXCEPT !.persisting = TRUE, !.coord = n]
      BY <2>8, <3>1, <3>2, <3>3
    <3>6. /\ rt' \in RuntimeRecs /\ rt'.gen = r.gen /\ rt'.persisting = TRUE
          /\ rt'.coord = n
          /\ rt'.generating = r.generating /\ rt'.delReq = r.delReq /\ rt'.delPend = r.delPend
          /\ rt'.shutdown = r.shutdown /\ rt'.turn = r.turn /\ rt'.pterm = r.pterm
          /\ rt'.next = r.next /\ rt'.reply = r.reply /\ rt'.started = r.started
          /\ rt'.alive = r.alive
      BY <3>2, <3>4, <3>5 DEF RuntimeRecs
    <3>. QED BY <2>4, <3>1, <3>2, <3>4, <3>6
  <2>10. PICK q : q = Commanded(v, x, "terminal", t)
    OBVIOUS
  <2>11. /\ worker' \in [Workers -> WorkerRecs] /\ worker'[c] = q
         /\ \A u \in Workers \ {c} : worker'[u] = worker[u]
         /\ IsCommanded(q, v, x, "terminal", t)
    <3>1. /\ Command(c, x, "terminal", t) = [worker EXCEPT ![c] = Commanded(worker[c], x, "terminal", t)]
          /\ IsCommanded(Commanded(worker[c], x, "terminal", t), worker[c], x, "terminal", t)
          /\ Command(c, x, "terminal", t) \in [Workers -> WorkerRecs]
      <4>1. t \in 0 .. MaxSubmits
        BY <1>2
      <4>. QED BY <1>0, <4>1, CommandIs
    <3>. QED BY <1>2, <2>3, <2>8, <2>10, <3>1
  <2>12. /\ q.pc = "await" /\ q.turn = t /\ q.beginTask = v.beginTask /\ q.answer = v.answer
         /\ q.retry = v.retry /\ q.result = v.result /\ q.cmd = x /\ q.endTask = "terminal"
         /\ q.about = t /\ ~ q.beginTask
    <3>1. ~ v.beginTask
      BY <2>3, <2>7 DEF Task
    <3>. QED BY <2>6, <2>11, <3>1 DEF IsCommanded
  <2>13. TypeInv'
    BY <1>0, <1>1, <2>9, <2>11 DEF TypeInv
  <2>14. LedgerInv'
    BY <1>0, <1>1, LedgerSame
  <2>15. Awaited'
    BY <1>0, <1>1, <2>3, <2>6, <2>11, <2>12 DEF Awaited
  <2>16. \A w \in Workers : WorkerOK(w)'
    <3>1. WorkerOK(c)'
      <4>1. WorkerOK(c)
        BY <1>0
      <4>2. t \in begun /\ t # 0
        BY <2>1, <2>4, TurnAssumption
      <4>. QED BY <1>1, <2>3, <2>6, <2>11, <2>12, <4>1, <4>2 DEF WorkerOK
    <3>. QED BY <1>0, <1>1, <2>11, <3>1, WorkerKept
  <2>17. \A w \in Workers : HeardOK(w)'
    <3>1. HeardOK(c)'
      BY <2>9, <2>11, <2>12 DEF HeardOK
    <3>2. ASSUME NEW w \in Workers \ {c}
          PROVE  HeardOK(w)'
      <4>1. HeardOK(w) /\ ~ Task(worker[w]) /\ worker'[w] = worker[w]
        BY <1>0, <2>7, <2>11
      <4>. QED BY <4>1 DEF HeardOK, Task
    <3>. QED BY <3>1, <3>2
  <2>18. ASSUME NEW w \in Workers, NEW u \in Workers, w # u
         PROVE  PairOK(w, u)'
    <3>1. \A a \in Workers \ {c} : ~ Task(worker'[a]) /\ ~ Holds(worker'[a], t)
      BY <2>6, <2>7, <2>11
    <3>. QED BY <2>11, <2>12, <2>18, <3>1 DEF PairOK, Task, Holds
  <2>19. CoordOK'
    BY <2>9 DEF CoordOK
  <2>20. ForegroundOK'
    <3>1. /\ \E w \in Workers : Task(worker'[w])
          /\ \A w \in Workers : ~ worker'[w].beginTask
      BY <2>7, <2>11, <2>12 DEF Task
    <3>. QED BY <1>0, <1>1, <1>2, <2>1, <2>4, <2>5, <2>6, <2>9, <3>1 DEF ForegroundOK
  <2>21. Responsible'
    <3>1. \A w \in Workers : Voices(worker'[w], t, x)
      <4>1. Voices(q, t, x)
        BY <2>12, TurnAssumption DEF Voices, Said
      <4>2. \A w \in Workers \ {c} : Voices(worker'[w], t, x)
        BY <2>6, <2>11 DEF Voices, Holds
      <4>. QED BY <2>11, <4>1, <4>2
    <3>2. Answered(x)'
      BY <1>1, <2>6, <2>11, <2>12, <3>1 DEF Answered
    <3>. QED BY <3>2 DEF Responsible
  <2>. QED BY <2>13, <2>14, <2>15, <2>16, <2>17, <2>18, <2>19, <2>20, <2>21 DEF TurnsInv, HeardInv
<1>. QED BY <1>3, <1>4

-----------------------------------------------------------------------------
(***************************************************************************)
(* Shutdown and deletion of a conversation.                                *)
(***************************************************************************)
\* What happens to the worker c when the turn is taken from the coordinator: c is
\* the coordinator and is told to cancel, or it is spawned to bring p.
Cancels(c, q) ==
  /\ rt.coord = c /\ worker[c].pc \in {"begin", "await"}
  /\ IsCommanded(q, worker[c], "cancelled", "detached", rt.turn)

Brings(c, q, p) ==
  /\ rt.coord = None /\ ~ rt.persisting /\ p # None /\ accepting /\ worker[c].pc = "free"
  /\ IsBringer(q, p.turn, p.term, "detached")

\* Detach cancels the turn of the coordinator, brings the kept terminal to a new
\* worker, or does nothing.
LEMMA DetachIs ==
  ASSUME TypeInv, FreeWorkers # {}, NEW p \in Terminals, Detach(p)
  PROVE  /\ worker' \in [Workers -> WorkerRecs]
         /\ \/ /\ worker' = worker
               /\ rt.coord # None => worker[rt.coord].pc \notin {"begin", "await"}
               /\ rt.coord = None /\ ~ rt.persisting /\ p # None => ~ accepting
            \/ \E c \in Workers :
                 /\ \A u \in Workers \ {c} : worker'[u] = worker[u]
                 /\ Cancels(c, worker'[c]) \/ Brings(c, worker'[c], p)
<1>1. /\ worker \in [Workers -> WorkerRecs] /\ rt.turn \in 0 .. MaxSubmits
      /\ rt.coord \in Workers \cup {None} /\ MaxSubmits \in Nat
      /\ rt.persisting \in BOOLEAN /\ accepting \in BOOLEAN
  BY RuntimeTypes DEF TypeInv
<1>2. CASE rt.coord # None /\ Listening(rt.coord)
  <2>1. PICK c \in Workers : c = rt.coord
    BY <1>1, <1>2
  <2>2. worker' = Command(c, "cancelled", "detached", rt.turn)
    BY <1>2, <2>1 DEF Detach
  <2>3. /\ Command(c, "cancelled", "detached", rt.turn)
             = [worker EXCEPT ![c] = Commanded(worker[c], "cancelled", "detached", rt.turn)]
        /\ IsCommanded(Commanded(worker[c], "cancelled", "detached", rt.turn), worker[c],
                       "cancelled", "detached", rt.turn)
        /\ Command(c, "cancelled", "detached", rt.turn) \in [Workers -> WorkerRecs]
    BY <1>1, CommandIs, TurnAssumption
  <2>4. PICK q : q = Commanded(worker[c], "cancelled", "detached", rt.turn)
    OBVIOUS
  <2>5. /\ worker' = [worker EXCEPT ![c] = q] /\ worker' \in [Workers -> WorkerRecs]
        /\ IsCommanded(q, worker[c], "cancelled", "detached", rt.turn)
    BY <2>2, <2>3, <2>4
  <2>6. worker'[c] = q /\ \A u \in Workers \ {c} : worker'[u] = worker[u]
    BY <1>1, <2>5
  <2>7. worker[c].pc \in {"begin", "await"}
    BY <1>2, <2>1 DEF Listening, Running
  <2>. QED BY <2>1, <2>5, <2>6, <2>7 DEF Cancels
<1>3. CASE rt.coord # None /\ ~ Listening(rt.coord)
  <2>1. worker' = worker
    BY <1>3 DEF Detach
  <2>. QED BY <1>1, <1>3, <2>1 DEF Listening, Running
<1>4. CASE rt.coord = None /\ ~ rt.persisting /\ p # None /\ accepting
  <2>1. PICK c \in Workers : c = NextWorker /\ worker[c].pc = "free"
    BY NextWorkerFree
  <2>2. PICK q : q = Bringer(p.turn, p.term, "detached")
    OBVIOUS
  <2>3. worker' = [worker EXCEPT ![c] = q]
    BY <1>4, <2>1, <2>2 DEF Detach, Spawn, Bringer
  <2>4. p.turn \in 0 .. MaxSubmits /\ p.term \in Outcomes
    BY <1>1, <1>4 DEF Terminals
  <2>5. IsBringer(q, p.turn, p.term, "detached")
    BY <2>2, <2>4, BringerIs
  <2>6. q \in WorkerRecs
    BY <2>5 DEF IsBringer
  <2>7. /\ worker'[c] = q /\ \A u \in Workers \ {c} : worker'[u] = worker[u]
        /\ worker' \in [Workers -> WorkerRecs]
    BY <1>1, <2>3, <2>6
  <2>. QED BY <1>4, <2>1, <2>5, <2>7 DEF Brings
<1>5. CASE rt.coord = None /\ ~ (~ rt.persisting /\ p # None /\ accepting)
  <2>1. worker' = worker
    BY <1>5 DEF Detach
  <2>. QED BY <1>1, <1>5, <2>1
<1>. QED BY <1>2, <1>3, <1>4, <1>5

\* What shutdown and deletion have in common keeps what the workers are about.
LEMMA DetachKeeps ==
  ASSUME TypeInv, Awaited, \A w \in Workers : WorkerOK(w), \A w \in Workers : HeardOK(w),
         \A w, u \in Workers : w # u => PairOK(w, u), CoordOK, ForegroundOK,
         FreeWorkers # {}, NEW p \in Terminals, p # None => p.turn \in begun, Detach(p),
         ctl' = ctl, begun' = begun, gaveUp' = gaveUp, accepting' = accepting, sealed' = sealed,
         rt'.gen = rt.gen + 1, rt'.coord = None, rt'.turn = rt.turn,
         rt.turn = 0 => rt'.pterm \in {None, rt.pterm}
  PROVE  /\ worker' \in [Workers -> WorkerRecs] /\ Awaited'
         /\ \A w \in Workers : WorkerOK(w)'
         /\ \A w \in Workers : HeardOK(w)'
         /\ \A w, u \in Workers : w # u => PairOK(w, u)'
         /\ \A u \in Workers : worker'[u].beginTask = worker[u].beginTask
         /\ \A u \in Workers : worker[u].beginTask => worker'[u].answer = worker[u].answer
         /\ \A u \in Workers : Task(worker'[u]) <=> Task(worker[u])
         /\ \A u \in Workers : worker'[u].endTask = "terminal" <=> worker[u].endTask = "terminal"
         /\ \A u \in Workers : worker[u].endTask = "terminal" => worker'[u] = worker[u]
<1>1. /\ worker \in [Workers -> WorkerRecs] /\ rt.turn \in 0 .. MaxSubmits
      /\ rt.coord \in Workers \cup {None} /\ MaxSubmits \in Nat /\ rt.gen \in Nat
      /\ rt.persisting \in BOOLEAN /\ begun \subseteq 1 .. MaxSubmits
  BY RuntimeTypes DEF TypeInv
<1>2. worker' \in [Workers -> WorkerRecs]
  BY DetachIs
<1>3. None \notin Workers
  BY TurnAssumption
<1>4. CASE worker' = worker /\ (rt.coord # None => worker[rt.coord].pc \notin {"begin", "await"})
  <2>1. Awaited'
    BY <1>4 DEF Awaited
  <2>2. \A w \in Workers : WorkerOK(w)'
    BY <1>4, WorkerKept
  <2>3. ASSUME NEW w \in Workers
        PROVE  HeardOK(w)'
    <3>1. HeardOK(w) /\ worker'[w] = worker[w] /\ worker[w].gen \in Nat
          /\ WorkerOK(w) /\ worker[w].pc \in {"free", "begin", "await", "over"}
      BY <1>4, WorkerTypes
    <3>2. worker[w].beginTask => worker[w].gen # rt.gen + 1 /\ worker[w].gen <= rt.gen + 1
      BY <1>1, <3>1 DEF HeardOK
    <3>3. worker[w].beginTask => worker[w].cmd = "cancelled" \/ worker[w].pc = "over"
      BY <1>3, <1>4, <3>1 DEF HeardOK, WorkerOK
    <3>4. worker[w].beginTask => rt'.pterm \in {None, rt.pterm}
      BY <3>1 DEF HeardOK
    <3>. QED BY <1>3, <3>1, <3>2, <3>3, <3>4 DEF HeardOK, HoldsTerminal
  <2>4. \A w, u \in Workers : w # u => PairOK(w, u)'
    BY <1>4 DEF PairOK
  <2>. QED BY <1>2, <1>4, <2>1, <2>2, <2>3, <2>4
<1>5. ASSUME NEW c \in Workers, \A u \in Workers \ {c} : worker'[u] = worker[u],
             Cancels(c, worker'[c])
      PROVE  /\ Awaited' /\ (\A w \in Workers : WorkerOK(w)')
             /\ \A w \in Workers : HeardOK(w)'
             /\ \A w, u \in Workers : w # u => PairOK(w, u)'
             /\ \A u \in Workers : worker'[u].beginTask = worker[u].beginTask
             /\ \A u \in Workers : worker[u].beginTask => worker'[u].answer = worker[u].answer
             /\ \A u \in Workers : Task(worker'[u]) <=> Task(worker[u])
             /\ \A u \in Workers : worker'[u].endTask = "terminal" <=> worker[u].endTask = "terminal"
             /\ \A u \in Workers : worker[u].endTask = "terminal" => worker'[u] = worker[u]
  <2>1. PICK v : v = worker[c]
    OBVIOUS
  <2>2. PICK q : q = worker'[c]
    OBVIOUS
  <2>3. /\ rt.coord = c /\ c # None /\ v.pc \in {"begin", "await"}
        /\ q.pc = v.pc /\ q.turn = v.turn /\ q.msg = v.msg
        /\ q.gen = v.gen /\ q.retry = v.retry
        /\ q.beginTask = v.beginTask /\ q.answer = v.answer
        /\ q.retried = v.retried /\ q.result = v.result
        /\ q.cmd = "cancelled" /\ q.endTask = "detached" /\ q.about = rt.turn
    BY <1>3, <1>5, <2>1, <2>2 DEF Cancels, IsCommanded
  <2>4. /\ v.cmd = "open" /\ v.endTask = "none"
        /\ v.beginTask \/ rt.generating
        /\ WorkerOK(c) /\ HeardOK(c)
    BY <2>1, <2>3 DEF CoordOK
  <2>5. /\ rt.turn \in {0, v.turn} /\ (rt.turn # 0 => rt.turn \in begun)
        /\ v.gen \in Nat /\ q.gen \in Nat
    BY <2>1, <2>3, <2>4, WorkerTypes DEF HeardOK, ForegroundOK
  <2>6. Awaited'
    BY <1>5, <2>1, <2>2, <2>3 DEF Awaited
  <2>7. \A w \in Workers : WorkerOK(w)'
    <3>1. WorkerOK(c)'
      <4>1. q.pc = "begin" => q.beginTask
        BY <2>1, <2>3, <2>4 DEF HeardOK
      <4>. QED BY <2>1, <2>2, <2>3, <2>4, <2>5, <4>1, TurnAssumption DEF WorkerOK
    <3>. QED BY <1>5, <3>1, WorkerKept
  <2>8. /\ \A u \in Workers : worker'[u].beginTask = worker[u].beginTask
        /\ \A u \in Workers : worker[u].beginTask => worker'[u].answer = worker[u].answer
        /\ \A u \in Workers : worker'[u].turn = worker[u].turn
        /\ \A u \in Workers : Task(worker'[u]) <=> Task(worker[u])
        /\ \A u \in Workers : worker'[u].endTask = "terminal" <=> worker[u].endTask = "terminal"
        /\ \A u \in Workers : worker[u].endTask = "terminal" => worker'[u] = worker[u]
    BY <1>5, <2>1, <2>2, <2>3, <2>4 DEF Task
  <2>9. \A w \in Workers : HeardOK(w)'
    <3>1. HeardOK(c)'
      <4>1. (v.gen <= rt.gen /\ rt.turn = 0) \/ ~ v.beginTask
        BY <2>1, <2>4 DEF HeardOK
      <4>2. v.beginTask => v.gen # rt.gen + 1 /\ v.gen <= rt.gen + 1 /\ rt'.pterm \in {None, rt.pterm}
        BY <1>1, <2>5, <4>1
      <4>. QED BY <1>3, <2>1, <2>2, <2>3, <2>4, <4>1, <4>2 DEF HeardOK, HoldsTerminal
    <3>2. ASSUME NEW w \in Workers \ {c}
          PROVE  HeardOK(w)'
      <4>1. HeardOK(w) /\ worker'[w] = worker[w] /\ worker[w].gen \in Nat
        BY <1>5, WorkerTypes
      <4>2. worker[w].beginTask => worker[w].gen # rt.gen + 1 /\ worker[w].gen <= rt.gen + 1
        BY <1>1, <4>1 DEF HeardOK
      <4>3. worker[w].beginTask => worker[w].cmd = "cancelled" \/ worker[w].pc = "over"
        BY <2>3, <4>1 DEF HeardOK
      <4>4. worker[w].beginTask => rt'.pterm \in {None, rt.pterm}
        BY <4>1 DEF HeardOK
      <4>. QED BY <1>3, <4>1, <4>2, <4>3, <4>4 DEF HeardOK, HoldsTerminal
    <3>. QED BY <3>1, <3>2
  <2>10. ASSUME NEW a \in Workers, NEW u \in Workers, a # u
         PROVE  PairOK(a, u)'
    <3>1. PairOK(a, u) /\ WorkerOK(a) /\ HeardOK(a)
      BY <2>10
    <3>2. worker[a].beginTask /\ worker[a].answer = "ok" => ~ Holds(worker'[u], worker[a].turn)
      <4>1. worker[a].beginTask /\ worker[a].answer = "ok" =>
              worker[a].turn # 0 /\ rt.turn = 0 /\ ~ Holds(worker[u], worker[a].turn)
        BY <1>1, <3>1 DEF WorkerOK, HeardOK, PairOK
      <4>2. u = c => \A i : Holds(worker'[u], i) => Holds(worker[u], i) \/ i = rt.turn
        BY <2>1, <2>2, <2>3 DEF Holds
      <4>. QED BY <1>5, <4>1, <4>2
    <3>3. worker[a].endTask = "terminal" => u # c
      <4>1. worker[a].endTask = "terminal" => ~ rt.generating
        BY DEF ForegroundOK, Task
      <4>2. worker[a].endTask = "terminal" => ~ worker[u].beginTask
        BY <3>1 DEF PairOK, Task
      <4>. QED BY <2>1, <2>4, <4>1, <4>2
    <3>. QED BY <1>5, <2>8, <3>1, <3>2, <3>3 DEF PairOK
  <2>. QED BY <2>6, <2>7, <2>8, <2>9, <2>10
<1>6. ASSUME NEW c \in Workers, \A u \in Workers \ {c} : worker'[u] = worker[u],
             Brings(c, worker'[c], p)
      PROVE  /\ Awaited' /\ (\A w \in Workers : WorkerOK(w)')
             /\ \A w \in Workers : HeardOK(w)'
             /\ \A w, u \in Workers : w # u => PairOK(w, u)'
             /\ \A u \in Workers : worker'[u].beginTask = worker[u].beginTask
             /\ \A u \in Workers : worker[u].beginTask => worker'[u].answer = worker[u].answer
             /\ \A u \in Workers : Task(worker'[u]) <=> Task(worker[u])
             /\ \A u \in Workers : worker'[u].endTask = "terminal" <=> worker[u].endTask = "terminal"
             /\ \A u \in Workers : worker[u].endTask = "terminal" => worker'[u] = worker[u]
  <2>1. PICK q : q = worker'[c]
    OBVIOUS
  <2>2. /\ ~ rt.persisting /\ p # None /\ accepting /\ worker[c].pc = "free"
        /\ q.pc = "await" /\ q.turn = p.turn
        /\ q.retry = None /\ q.beginTask = FALSE /\ q.cmd = p.term
        /\ q.answer = "none" /\ q.retried = FALSE /\ q.endTask = "detached" /\ q.about = p.turn
        /\ q.result = "none" /\ p.turn \in begun /\ p.term \in Outcomes
    BY <1>6, <2>1 DEF Brings, IsBringer, Terminals
  <2>3. \A u \in Workers : ~ Task(worker[u])
    BY <2>2 DEF ForegroundOK
  <2>4. \A u \in Workers : ~ Task(worker'[u])
    BY <1>6, <2>1, <2>2, <2>3 DEF Task
  <2>5. worker[c].beginTask = FALSE
    BY <2>3, WorkerTypes DEF Task
  <2>6. Awaited'
    BY <1>6, <2>1, <2>2 DEF Awaited
  <2>7. \A w \in Workers : WorkerOK(w)'
    <3>1. WorkerOK(c)'
      BY <2>1, <2>2 DEF WorkerOK
    <3>. QED BY <1>6, <3>1, WorkerKept
  <2>8. \A w \in Workers : HeardOK(w)'
    <3>1. \A w \in Workers : worker'[w].pc # "begin"
      BY <1>6, <2>1, <2>2, <2>3 DEF HeardOK, Task
    <3>. QED BY <2>4, <3>1 DEF HeardOK, Task
  <2>9. \A w, u \in Workers : w # u => PairOK(w, u)'
    BY <2>4 DEF PairOK, Task
  <2>10. \A u \in Workers : worker'[u].beginTask = worker[u].beginTask
    BY <1>6, <2>1, <2>2, <2>5
  <2>. QED BY <2>3, <2>4, <2>6, <2>7, <2>8, <2>9, <2>10 DEF Task
<1>7. \/ worker' = worker /\ (rt.coord # None => worker[rt.coord].pc \notin {"begin", "await"})
      \/ \E c \in Workers :
           /\ \A u \in Workers \ {c} : worker'[u] = worker[u]
           /\ Cancels(c, worker'[c]) \/ Brings(c, worker'[c], p)
  BY DetachIs
<1>. QED BY <1>2, <1>4, <1>5, <1>6, <1>7

\* The reply stops.
LEMMA StopReplyIs ==
  ASSUME NEW r \in RuntimeRecs
  PROVE  /\ StopReply(r) \in RuntimeRecs /\ StopReply(r).gen = r.gen
         /\ StopReply(r).persisting = r.persisting /\ StopReply(r).coord = None
         /\ StopReply(r).generating = FALSE /\ StopReply(r).delReq = r.delReq
         /\ StopReply(r).delPend = r.delPend
         /\ StopReply(r).shutdown = r.shutdown /\ StopReply(r).turn = r.turn
         /\ StopReply(r).pterm = r.pterm
         /\ StopReply(r).next = r.next /\ StopReply(r).reply = 0 /\ StopReply(r).started = r.started
         /\ StopReply(r).alive = r.alive
<1>1. PICK z \in Nat : z = 0
  OBVIOUS
<1>2. PICK n \in Workers \cup {None} : n = None
  OBVIOUS
<1>3. PICK s : s = [r EXCEPT !.reply = z, !.generating = FALSE, !.coord = n]
  OBVIOUS
<1>4. /\ s \in RuntimeRecs /\ s.gen = r.gen
      /\ s.persisting = r.persisting /\ s.coord = n
      /\ s.generating = FALSE /\ s.delReq = r.delReq
      /\ s.delPend = r.delPend
      /\ s.shutdown = r.shutdown /\ s.turn = r.turn
      /\ s.pterm = r.pterm
      /\ s.next = r.next /\ s.reply = z /\ s.started = r.started
      /\ s.alive = r.alive
  BY <1>1, <1>2, <1>3 DEF RuntimeRecs
<1>5. s = StopReply(r)
  BY <1>1, <1>2, <1>3 DEF StopReply
<1>. QED BY <1>1, <1>2, <1>4, <1>5

\* prepare_for_shutdown: nothing is kept for a submit any more.
LEMMA PrepareForShutdownKeeps ==
  ASSUME TurnsInv, PrepareForShutdown
  PROVE  TurnsInv'
<1>0. /\ TypeInv /\ LedgerInv /\ Awaited
      /\ \A u \in Workers : WorkerOK(u)
      /\ rt.alive /\ (\A u \in Workers : HeardOK(u)) /\ CoordOK /\ ForegroundOK
      /\ \A a, u \in Workers : a # u => PairOK(a, u)
  BY DEF TurnsInv, PrepareForShutdown, HeardInv
<1>1. /\ rt \in RuntimeRecs /\ worker \in [Workers -> WorkerRecs] /\ MaxSubmits \in Nat
      /\ rt.gen \in Nat /\ rt.turn \in 0 .. MaxSubmits /\ rt.pterm \in Terminals
      /\ rt.started \in Nat
  BY <1>0, RuntimeTypes
<1>2. PICK p : p = IF rt.pterm = None /\ rt.turn # 0
                   THEN PendingTerminal(rt.turn, "cancelled") ELSE rt.pterm
  OBVIOUS
<1>3. PICK k : k = IF rt.coord = None /\ ~ rt.persisting THEN None ELSE rt.pterm
  OBVIOUS
<1>4. PICK g \in Nat : g = rt.gen + 1
  BY <1>1
<1>5. PICK r : r = [rt EXCEPT !.shutdown = TRUE, !.gen = g, !.pterm = k]
  OBVIOUS
<1>6. /\ ~ rt.shutdown /\ FreeWorkers # {} /\ Detach(p)
      /\ deletion' = deletion /\ ctl' = ctl /\ store' = store
      /\ begun' = begun /\ gaveUp' = gaveUp /\ accepting' = accepting /\ sealed' = sealed
      /\ submits' = submits
  BY <1>2 DEF PrepareForShutdown, durable, world
<1>7. rt' = StopReply(r)
  BY <1>3, <1>4, <1>5 DEF PrepareForShutdown
<1>8. /\ p \in Terminals /\ (p # None => p.turn \in begun)
      /\ k \in Terminals /\ (k # None => k.turn \in begun) /\ k \in {None, rt.pterm}
  <2>1. None \in Terminals
    BY DEF Terminals
  <2>2. rt.turn # 0 => PendingTerminal(rt.turn, "cancelled") \in Terminals
    BY <1>1, TurnAssumption DEF Terminals, PendingTerminal
  <2>3. rt.turn # 0 => rt.turn \in begun /\ PendingTerminal(rt.turn, "cancelled").turn = rt.turn
    BY <1>0 DEF ForegroundOK, PendingTerminal
  <2>. QED BY <1>0, <1>1, <1>2, <1>3, <2>1, <2>2, <2>3 DEF ForegroundOK
<1>9. /\ rt' \in RuntimeRecs /\ rt'.gen = g /\ rt'.persisting = rt.persisting
      /\ rt'.coord = None
      /\ rt'.generating = FALSE /\ rt'.delReq = rt.delReq /\ rt'.delPend = rt.delPend
      /\ rt'.shutdown = TRUE /\ rt'.turn = rt.turn /\ rt'.pterm = k
      /\ rt'.next = rt.next /\ rt'.reply = 0 /\ rt'.started = rt.started
      /\ rt'.alive = rt.alive
  <2>1. /\ r \in RuntimeRecs /\ r.gen = g /\ r.persisting = rt.persisting
        /\ r.delReq = rt.delReq /\ r.delPend = rt.delPend
        /\ r.shutdown = TRUE /\ r.turn = rt.turn /\ r.pterm = k
        /\ r.next = rt.next /\ r.started = rt.started
        /\ r.alive = rt.alive
    BY <1>1, <1>5, <1>8 DEF RuntimeRecs
  <2>2. PICK s : s = StopReply(r)
    OBVIOUS
  <2>3. /\ s \in RuntimeRecs /\ s.gen = r.gen
        /\ s.persisting = r.persisting /\ s.coord = None
        /\ s.generating = FALSE /\ s.delReq = r.delReq
        /\ s.delPend = r.delPend
        /\ s.shutdown = r.shutdown /\ s.turn = r.turn
        /\ s.pterm = r.pterm
        /\ s.next = r.next /\ s.reply = 0 /\ s.started = r.started
        /\ s.alive = r.alive
    BY <2>1, <2>2, StopReplyIs
  <2>. QED BY <1>7, <2>1, <2>2, <2>3
<1>10. /\ worker' \in [Workers -> WorkerRecs] /\ Awaited'
       /\ \A w \in Workers : WorkerOK(w)'
       /\ \A w \in Workers : HeardOK(w)'
       /\ \A w, u \in Workers : w # u => PairOK(w, u)'
       /\ \A u \in Workers : worker'[u].beginTask = worker[u].beginTask
       /\ \A u \in Workers : Task(worker'[u]) <=> Task(worker[u])
  BY <1>0, <1>4, <1>6, <1>8, <1>9, DetachKeeps
<1>11. TypeInv'
  BY <1>0, <1>6, <1>9, <1>10 DEF TypeInv
<1>12. LedgerInv'
  BY <1>0, <1>6, LedgerSame
<1>13. CoordOK'
  BY <1>9 DEF CoordOK
<1>14. ForegroundOK'
  BY <1>0, <1>1, <1>4, <1>6, <1>8, <1>9, <1>10 DEF ForegroundOK
<1>15. Responsible'
  BY <1>9 DEF Responsible
<1>. QED BY <1>10, <1>11, <1>12, <1>13, <1>14, <1>15 DEF TurnsInv, HeardInv

\* request_delete: the turn in progress is kept as cancelled.
LEMMA RequestDeleteKeeps ==
  ASSUME TurnsInv, RequestDelete
  PROVE  TurnsInv'
<1>0. /\ TypeInv /\ LedgerInv /\ Awaited
      /\ \A u \in Workers : WorkerOK(u)
      /\ rt.alive /\ (\A u \in Workers : HeardOK(u)) /\ CoordOK /\ ForegroundOK
      /\ \A a, u \in Workers : a # u => PairOK(a, u)
      /\ Responsible
  BY DEF TurnsInv, RequestDelete, HeardInv
<1>1. /\ rt \in RuntimeRecs /\ worker \in [Workers -> WorkerRecs] /\ MaxSubmits \in Nat
      /\ rt.gen \in Nat /\ rt.turn \in 0 .. MaxSubmits /\ rt.pterm \in Terminals
      /\ rt.started \in Nat /\ rt.coord \in Workers \cup {None}
  BY <1>0, RuntimeTypes
<1>2. PICK p : p = IF rt.turn # 0 THEN PendingTerminal(rt.turn, "cancelled") ELSE rt.pterm
  OBVIOUS
<1>4. PICK g \in Nat : g = rt.gen + 1
  BY <1>1
<1>5. PICK r : r = [rt EXCEPT !.delReq = TRUE, !.delPend = TRUE, !.gen = g, !.pterm = p]
  OBVIOUS
<1>6. /\ ~ rt.shutdown /\ FreeWorkers # {} /\ Detach(p) /\ accepting
      /\ deletion' = "queued" /\ ctl' = ctl /\ store' = store
      /\ begun' = begun /\ gaveUp' = gaveUp /\ accepting' = accepting /\ sealed' = sealed
      /\ submits' = submits
  BY <1>2 DEF RequestDelete, durable
<1>7. rt' = StopReply(r)
  BY <1>2, <1>4, <1>5 DEF RequestDelete
<1>8. /\ p \in Terminals /\ (p # None => p.turn \in begun)
      /\ rt.turn = 0 => p = rt.pterm
  <2>2. rt.turn # 0 => PendingTerminal(rt.turn, "cancelled") \in Terminals
    BY <1>1, TurnAssumption DEF Terminals, PendingTerminal
  <2>3. rt.turn # 0 => rt.turn \in begun /\ PendingTerminal(rt.turn, "cancelled").turn = rt.turn
    BY <1>0 DEF ForegroundOK, PendingTerminal
  <2>. QED BY <1>0, <1>1, <1>2, <2>2, <2>3 DEF ForegroundOK
<1>9. /\ rt' \in RuntimeRecs /\ rt'.gen = g /\ rt'.persisting = rt.persisting
      /\ rt'.coord = None
      /\ rt'.generating = FALSE /\ rt'.delReq = TRUE /\ rt'.delPend = TRUE
      /\ rt'.shutdown = rt.shutdown /\ rt'.turn = rt.turn /\ rt'.pterm = p
      /\ rt'.next = rt.next /\ rt'.reply = 0 /\ rt'.started = rt.started
      /\ rt'.alive = rt.alive
  <2>1. /\ r \in RuntimeRecs /\ r.gen = g /\ r.persisting = rt.persisting
        /\ r.delReq = TRUE /\ r.delPend = TRUE
        /\ r.shutdown = rt.shutdown /\ r.turn = rt.turn /\ r.pterm = p
        /\ r.next = rt.next /\ r.started = rt.started
        /\ r.alive = rt.alive
    BY <1>1, <1>5, <1>8 DEF RuntimeRecs
  <2>2. PICK s : s = StopReply(r)
    OBVIOUS
  <2>3. /\ s \in RuntimeRecs /\ s.gen = r.gen
        /\ s.persisting = r.persisting /\ s.coord = None
        /\ s.generating = FALSE /\ s.delReq = r.delReq
        /\ s.delPend = r.delPend
        /\ s.shutdown = r.shutdown /\ s.turn = r.turn
        /\ s.pterm = r.pterm
        /\ s.next = r.next /\ s.reply = 0 /\ s.started = r.started
        /\ s.alive = r.alive
    BY <2>1, <2>2, StopReplyIs
  <2>. QED BY <1>7, <2>1, <2>2, <2>3
<1>10. /\ worker' \in [Workers -> WorkerRecs] /\ Awaited'
       /\ \A w \in Workers : WorkerOK(w)'
       /\ \A w \in Workers : HeardOK(w)'
       /\ \A w, u \in Workers : w # u => PairOK(w, u)'
       /\ \A u \in Workers : worker'[u].beginTask = worker[u].beginTask
       /\ \A u \in Workers : worker[u].beginTask => worker'[u].answer = worker[u].answer
       /\ \A u \in Workers : Task(worker'[u]) <=> Task(worker[u])
       /\ \A u \in Workers : worker'[u].endTask = "terminal" <=> worker[u].endTask = "terminal"
       /\ \A u \in Workers : worker[u].endTask = "terminal" => worker'[u] = worker[u]
  BY <1>0, <1>4, <1>6, <1>8, <1>9, DetachKeeps
<1>11. TypeInv'
  BY <1>0, <1>6, <1>9, <1>10 DEF TypeInv
<1>12. LedgerInv'
  BY <1>0, <1>6, LedgerSame
<1>13. CoordOK'
  BY <1>9 DEF CoordOK
<1>14. ForegroundOK'
  BY <1>0, <1>1, <1>2, <1>4, <1>6, <1>8, <1>9, <1>10 DEF ForegroundOK
<1>15. Responsible'
  <2> SUFFICES ASSUME Waiting(ctl)
               PROVE  \E x \in Outcomes : Answered(x)'
    BY <1>6 DEF Responsible
  <2>0. PICK x \in Outcomes : Answered(x)
    BY <1>0, <1>6 DEF Responsible
  <2>1. PICK i : i = ctl.pend.turn
    OBVIOUS
  <2>2. /\ i \in 1 .. MaxSubmits /\ i # 0 /\ \A y \in Outcomes : PendingTerminal(i, y) # None
    BY <1>0, <2>1, WaitingBegun
  <2>3. rt.turn \in {0, i}
    BY <1>0, <2>1 DEF ForegroundOK
  <2>4. \/ worker' = worker
        \/ \E c \in Workers :
             /\ \A u \in Workers \ {c} : worker'[u] = worker[u]
             /\ Cancels(c, worker'[c]) \/ Brings(c, worker'[c], p)
    BY <1>0, <1>6, <1>8, DetachIs
  <2>t. "cancelled" \in Outcomes /\ "cancelled" \notin {"dropped", "open"}
    BY TurnAssumption
  <2>5. ASSUME NEW c \in Workers, rt.coord = c, Own(c),
               \A u \in Workers \ {c} : worker'[u] = worker[u],
               worker'[c].pc = "await", worker'[c].cmd = "cancelled",
               worker'[c].turn = worker[c].turn, worker'[c].about \in {0, i},
               \/ rt.generating
               \/ worker[c].beginTask /\ worker[c].answer = "ok" /\ rt.turn = 0
        PROVE  Answered("cancelled")'
    <3>1. /\ i = worker[c].turn /\ ctl.pend.term = None /\ ~ HoldsTerminal(i)
          /\ \A u \in Workers \ {c} : ~ Holds(worker[u], i)
      BY <2>1, <2>5 DEF Own
    <3>2. \A u \in Workers : Voices(worker'[u], i, "cancelled")
      <4>1. Voices(worker'[c], i, "cancelled")
        BY <2>5, <2>t DEF Voices, Said
      <4>2. \A u \in Workers \ {c} : Voices(worker'[u], i, "cancelled")
        BY <2>5, <3>1 DEF Holds, Voices
      <4>. QED BY <4>1, <4>2
    <3>3. CASE rt.generating
      <4>1. /\ \A u \in Workers : worker'[u].endTask # "terminal"
            /\ rt.turn # 0
        BY <1>0, <1>10, <3>3 DEF ForegroundOK, Task
      <4>2. p = PendingTerminal(i, "cancelled")
        BY <1>2, <2>3, <4>1
      <4>. QED BY <1>6, <1>9, <2>1, <3>1, <3>2, <4>1, <4>2 DEF Answered
    <3>4. CASE worker[c].beginTask /\ worker[c].answer = "ok" /\ rt.turn = 0
      <4>1. worker'[c].beginTask /\ worker'[c].answer = "ok" /\ p = rt.pterm
        BY <1>8, <1>10, <3>4
      <4>. QED BY <1>6, <1>9, <2>1, <3>1, <3>2, <4>1 DEF Answered, HoldsTerminal
    <3>. QED BY <2>5, <3>3, <3>4
  <2>6. ASSUME ~ rt.generating, \A u \in Workers : Voices(worker'[u], i, x)
        PROVE  Answered(x)'
    <3>1. rt.turn # 0 => rt.turn = i /\ \A u \in Workers : ~ worker[u].beginTask
      BY <1>0, <2>3 DEF HeardOK
    <3>2. rt.turn # 0 /\ (\A u \in Workers : worker[u].endTask # "terminal") =>
            rt.pterm = PendingTerminal(i, "cancelled")
      BY <1>0, <1>6, <2>6, <3>1 DEF ForegroundOK, Task
    <3>3. CASE /\ rt.pterm = PendingTerminal(i, x)
               /\ \A u \in Workers : worker[u].endTask # "terminal"
      <4>1. p = rt.pterm
        BY <1>2, <3>1, <3>2, <3>3
      <4>. QED BY <1>6, <1>9, <1>10, <2>0, <2>1, <2>6, <3>3, <4>1 DEF Answered
    <3>4. CASE \E u \in Workers : worker[u].endTask = "terminal" /\ worker[u].about = i
      <4>1. \E u \in Workers : worker'[u].endTask = "terminal" /\ worker'[u].about = i
        BY <1>10, <3>4
      <4>. QED BY <1>6, <2>0, <2>1, <2>6, <4>1 DEF Answered
    <3>5. CASE /\ ~ HoldsTerminal(i) /\ x = "cancelled"
               /\ \E u \in Workers : worker[u].beginTask /\ worker[u].answer = "ok"
      <4>1. /\ p = rt.pterm
            /\ \E u \in Workers : worker'[u].beginTask /\ worker'[u].answer = "ok"
        BY <1>8, <1>10, <3>1, <3>5
      <4>. QED BY <1>6, <1>9, <2>0, <2>1, <2>6, <3>5, <4>1 DEF Answered, HoldsTerminal
    <3>. QED BY <2>0, <2>1, <2>6, <3>3, <3>4, <3>5 DEF Answered
  <2>7. CASE worker' = worker /\ ~ rt.generating
    <3>1. \A u \in Workers : Voices(worker'[u], i, x)
      BY <2>0, <2>1, <2>7 DEF Answered
    <3>. QED BY <2>6, <2>7, <3>1
  <2>8. CASE worker' = worker /\ rt.generating
    <3>1. PICK c \in Workers : c = rt.coord /\ worker[c].pc = "await"
      BY <1>0, <1>1, <2>8 DEF ForegroundOK, CoordOK, Own
    <3>2. Listening(rt.coord)
      BY <3>1 DEF Listening, Running
    <3>3. worker' = Command(c, "cancelled", "detached", rt.turn)
      BY <1>0, <1>6, <2>8, <3>1, <3>2 DEF Detach, ForegroundOK
    <3>4. IsCommanded(worker'[c], worker[c], "cancelled", "detached", rt.turn)
      <4>1. /\ Command(c, "cancelled", "detached", rt.turn)
                 = [worker EXCEPT ![c] = Commanded(worker[c], "cancelled", "detached", rt.turn)]
            /\ IsCommanded(Commanded(worker[c], "cancelled", "detached", rt.turn), worker[c],
                           "cancelled", "detached", rt.turn)
        <5>1. TypeInv /\ c \in Workers /\ "cancelled" \in Outcomes /\ rt.turn \in 0 .. MaxSubmits
          BY <1>0, <1>1, <2>t, <3>1
        <5>. QED BY <5>1, CommandIs
      <4>. QED BY <1>1, <3>3, <4>1
    <3>5. worker'[c].endTask = "detached" /\ worker[c].endTask = "none"
      BY <1>0, <2>8, <3>1, <3>4 DEF IsCommanded, CoordOK, ForegroundOK
    <3>. QED BY <2>8, <3>5
  <2>9. ASSUME NEW c \in Workers, \A u \in Workers \ {c} : worker'[u] = worker[u],
               Cancels(c, worker'[c])
        PROVE  \E y \in Outcomes : Answered(y)'
    <3>1. /\ rt.coord = c /\ c # None /\ worker[c].pc \in {"begin", "await"}
          /\ worker'[c].pc = worker[c].pc /\ worker'[c].turn = worker[c].turn
          /\ worker'[c].retry = worker[c].retry
          /\ worker'[c].cmd = "cancelled" /\ worker'[c].endTask = "detached"
          /\ worker'[c].about = rt.turn
      BY <2>9, TurnAssumption DEF Cancels, IsCommanded
    <3>2. CASE rt.generating
      <4>1. Own(c)
        BY <1>0, <3>1, <3>2 DEF CoordOK
      <4>2. worker[c].pc = "await"
        BY <4>1 DEF Own
      <4>3. Answered("cancelled")'
        BY <2>3, <2>5, <2>9, <3>1, <3>2, <4>1, <4>2
      <4>. QED BY <2>t, <4>3
    <3>3. CASE ~ rt.generating
      <4>1. worker[c].beginTask /\ rt.turn = 0
        BY <1>0, <3>1, <3>3 DEF CoordOK, HeardOK
      <4>2. CASE worker[c].answer = "ok"
        <5>1. Own(c)
          BY <1>0, <3>1, <4>2 DEF CoordOK
        <5>2. worker[c].pc = "await"
          BY <5>1 DEF Own
        <5>3. Answered("cancelled")'
          BY <2>3, <2>5, <2>9, <3>1, <4>1, <4>2, <5>1, <5>2
        <5>. QED BY <2>t, <5>3
      <4>3. CASE worker[c].answer # "ok"
        <5>1. worker[c].pc = "begin"
          BY <1>0, <3>1, <4>1, <4>3 DEF HeardOK
        <5>2. Voices(worker'[c], i, x)
          BY <2>0, <2>1, <2>2, <3>1, <4>1, <5>1 DEF Answered, Voices
        <5>3. \A u \in Workers : Voices(worker'[u], i, x)
          BY <2>0, <2>1, <2>9, <5>2 DEF Answered
        <5>. QED BY <2>6, <3>3, <5>3
      <4>. QED BY <4>2, <4>3
    <3>. QED BY <3>2, <3>3
  <2>10. ASSUME NEW c \in Workers, \A u \in Workers \ {c} : worker'[u] = worker[u],
                Brings(c, worker'[c], p)
         PROVE  \E y \in Outcomes : Answered(y)'
    <3>1. /\ rt.coord = None /\ ~ rt.persisting /\ p # None
          /\ worker'[c].pc = "await" /\ worker'[c].turn = p.turn
          /\ worker'[c].cmd = p.term /\ worker'[c].endTask = "detached"
          /\ worker'[c].about = p.turn
      BY <2>10 DEF Brings, IsBringer
    <3>2. ~ rt.generating /\ \A u \in Workers : ~ Task(worker[u])
      BY <1>0, <3>1 DEF ForegroundOK
    <3>3. rt.pterm = PendingTerminal(i, x)
      BY <2>0, <2>1, <3>2 DEF Answered, Task
    <3>4. p = rt.pterm
      <4>1. rt.turn # 0 => rt.pterm = PendingTerminal(rt.turn, "cancelled")
        BY <1>0, <1>6, <3>1, <3>2 DEF ForegroundOK
      <4>. QED BY <1>2, <4>1
    <3>5. p.turn = i /\ p.term = x
      BY <3>3, <3>4 DEF PendingTerminal
    <3>6. Voices(worker'[c], i, x)
      BY <3>1, <3>5, TurnAssumption DEF Voices, Said
    <3>7. \A u \in Workers : Voices(worker'[u], i, x)
      BY <2>0, <2>1, <2>10, <3>6 DEF Answered
    <3>. QED BY <2>6, <3>2, <3>7
  <2>. QED BY <2>4, <2>7, <2>8, <2>9, <2>10
<1>. QED BY <1>10, <1>11, <1>12, <1>13, <1>14, <1>15 DEF TurnsInv, HeardInv

-----------------------------------------------------------------------------
(***************************************************************************)
(* The answer to a begin.                                                  *)
(***************************************************************************)
\* The foreground has heard the answer to the begin; the command channel is d.
Told2(v, d) == [v EXCEPT !.beginTask = FALSE, !.cmd = d]

\* A worker whose begin was heard.
LEMMA Told2Is ==
  ASSUME NEW v \in WorkerRecs, NEW d \in Outcomes \cup {"open", "dropped"}
  PROVE  /\ Settle(Told2(v, d)) \in WorkerRecs
         /\ \/ Settle(Told2(v, d)) = Free /\ v.pc \in {"free", "over"} /\ v.endTask = "none"
            \/ /\ v.pc \notin {"free", "over"} \/ v.endTask # "none"
               /\ Settle(Told2(v, d)).pc = v.pc /\ Settle(Told2(v, d)).turn = v.turn
               /\ Settle(Told2(v, d)).msg = v.msg
               /\ Settle(Told2(v, d)).gen = v.gen /\ Settle(Told2(v, d)).retry = v.retry
               /\ Settle(Told2(v, d)).cmd = d /\ Settle(Told2(v, d)).beginTask = FALSE
               /\ Settle(Told2(v, d)).answer = v.answer
               /\ Settle(Told2(v, d)).retried = v.retried /\ Settle(Told2(v, d)).about = v.about
               /\ Settle(Told2(v, d)).result = v.result
               /\ Settle(Told2(v, d)).endTask = v.endTask
<1>1. PICK q : q = Told2(v, d)
  OBVIOUS
<1>2. /\ q \in WorkerRecs
      /\ q.pc = v.pc /\ q.turn = v.turn /\ q.msg = v.msg
      /\ q.gen = v.gen /\ q.retry = v.retry /\ q.cmd = d
      /\ q.beginTask = FALSE /\ q.answer = v.answer
      /\ q.retried = v.retried /\ q.about = v.about
      /\ q.result = v.result /\ q.endTask = v.endTask
  BY <1>1 DEF Told2, WorkerRecs
<1>3. Settle(q) \in WorkerRecs
  BY <1>2, SettleIs
<1>4. \/ Settle(q) = Free /\ v.pc \in {"free", "over"} /\ v.endTask = "none"
      \/ Settle(q) = q /\ (v.pc \notin {"free", "over"} \/ v.endTask # "none")
  BY <1>2 DEF Settle
<1>. QED BY <1>1, <1>2, <1>3, <1>4

\* finish_begin_persistence: the turn starts, or is cancelled if it is too late.
LEMMA BeginAnsweredKeeps ==
  ASSUME TurnsInv, NEW w \in Workers, BeginAnswered(w)
  PROVE  TurnsInv'
<1>0. /\ TypeInv /\ LedgerInv /\ Awaited
      /\ \A u \in Workers : WorkerOK(u)
      /\ rt.alive /\ (\A u \in Workers : HeardOK(u)) /\ CoordOK /\ ForegroundOK
      /\ \A a, u \in Workers : a # u => PairOK(a, u)
      /\ Responsible
  BY DEF TurnsInv, BeginAnswered, HeardInv
<1>1. PICK v : v = worker[w]
  OBVIOUS
<1>2. /\ rt \in RuntimeRecs /\ worker \in [Workers -> WorkerRecs] /\ MaxSubmits \in Nat
      /\ rt.gen \in Nat /\ rt.turn \in 0 .. MaxSubmits /\ rt.pterm \in Terminals
      /\ rt.started \in Nat /\ rt.coord \in Workers \cup {None} /\ rt.reply \in Nat
      /\ rt.next \in 1 .. MaxSubmits + 1 /\ submits \in 0 .. MaxSubmits
      /\ v \in WorkerRecs /\ v.gen \in Nat /\ v.turn \in 0 .. MaxSubmits
      /\ v.cmd \in Outcomes \cup {"open", "dropped"} /\ v.retried \in BOOLEAN
      /\ v.pc \in {"free", "begin", "await", "over"}
      /\ begun \subseteq 1 .. MaxSubmits /\ None \notin Workers
  BY <1>0, <1>1, RuntimeTypes, WorkerTypes, TurnAssumption DEF TypeInv
<1>3. PICK k : k = IF v.retried THEN None ELSE rt.pterm
  OBVIOUS
<1>4. PICK d : d = IF rt.coord = w /\ (v.gen # rt.gen \/ v.answer \notin {"ok", "deleted"})
                   THEN DropCoordinator(w) ELSE v.cmd
  OBVIOUS
<1>5. PICK q : q = Settle(Told2(v, d))
  OBVIOUS
<1>6. /\ v.beginTask /\ v.answer # "none"
      /\ worker' = [worker EXCEPT ![w] = q]
      /\ deletion' = deletion /\ ctl' = ctl /\ store' = store /\ begun' = begun
      /\ gaveUp' = gaveUp /\ accepting' = accepting /\ sealed' = sealed /\ submits' = submits
  <2>1. /\ v.beginTask /\ v.answer # "none"
        /\ deletion' = deletion /\ ctl' = ctl /\ store' = store /\ begun' = begun
        /\ gaveUp' = gaveUp /\ accepting' = accepting /\ sealed' = sealed /\ submits' = submits
    BY <1>1 DEF BeginAnswered, durable, world
  <2>2. worker' = [worker EXCEPT ![w] =
          Settle([worker[w] EXCEPT !.beginTask = FALSE,
                    !.cmd = IF rt.coord = w /\ (worker[w].gen # rt.gen \/ worker[w].answer \notin {"ok", "deleted"})
                            THEN DropCoordinator(w) ELSE worker[w].cmd])]
    BY DEF BeginAnswered
  <2>3. worker' = [worker EXCEPT ![w] = Settle([v EXCEPT !.beginTask = FALSE, !.cmd = d])]
    <3>1. CASE rt.coord = w /\ (v.gen # rt.gen \/ v.answer \notin {"ok", "deleted"})
      BY <1>1, <1>4, <2>2, <3>1
    <3>2. CASE ~ (rt.coord = w /\ (v.gen # rt.gen \/ v.answer \notin {"ok", "deleted"}))
      BY <1>1, <1>4, <2>2, <3>2
    <3>. QED BY <3>1, <3>2
  <2>. QED BY <1>5, <2>1, <2>3 DEF Told2
<1>7. /\ v.pc \in {"await", "over"} /\ (v.pc = "await" => v.answer = "ok")
      /\ v.answer = "ok" => v.turn \in begun
      /\ v.about = 0 /\ rt.turn = 0 /\ v.gen <= rt.gen /\ v.endTask # "terminal"
      /\ (v.gen = rt.gen <=> rt.coord = w)
      /\ v.answer = "ok" /\ Waiting(ctl) => ctl.pend.turn = v.turn /\ ~ HoldsTerminal(v.turn)
      /\ v.retried /\ v.answer # "ok" => ~ Waiting(ctl)
  <2>1. WorkerOK(w) /\ HeardOK(w)
    BY <1>0
  <2>. QED BY <1>1, <1>2, <1>6, <2>1 DEF WorkerOK, HeardOK
<1>8. v.gen = rt.gen =>
        /\ rt.coord # None /\ v.cmd = "open" /\ v.endTask = "none"
        /\ ~ rt.delReq /\ ~ rt.delPend /\ ~ rt.shutdown
        /\ v.answer = "ok" => Own(w)
  BY <1>0, <1>1, <1>2, <1>7 DEF CoordOK
<1>9. /\ d \in Outcomes \cup {"open", "dropped"}
      /\ d = v.cmd \/ (v.endTask = "none" /\ v.answer # "ok")
      /\ v.answer \in {"ok", "deleted"} => d = v.cmd
  <2>1. CASE rt.coord = w /\ v.answer \notin {"ok", "deleted"}
    <3>1. d = DropCoordinator(w) /\ v.gen = rt.gen
      BY <1>4, <1>7, <2>1
    <3>2. d = "dropped" /\ v.endTask = "none"
      BY <1>1, <1>8, <3>1 DEF DropCoordinator
    <3>. QED BY <2>1, <3>2
  <2>2. CASE ~ (rt.coord = w /\ v.answer \notin {"ok", "deleted"})
    <3>1. d = v.cmd
      BY <1>4, <1>7, <2>2
    <3>. QED BY <1>2, <2>2, <3>1
  <2>. QED BY <2>1, <2>2
<1>10. /\ worker' \in [Workers -> WorkerRecs] /\ worker'[w] = q
       /\ \A u \in Workers \ {w} : worker'[u] = worker[u]
       /\ \/ q = Free /\ v.pc = "over" /\ v.endTask = "none"
          \/ /\ v.pc = "await" \/ v.endTask # "none"
             /\ q.pc = v.pc /\ q.turn = v.turn /\ q.msg = v.msg
             /\ q.gen = v.gen /\ q.retry = v.retry /\ q.cmd = d
             /\ q.beginTask = FALSE /\ q.answer = v.answer
             /\ q.retried = v.retried /\ q.about = v.about
             /\ q.result = v.result /\ q.endTask = v.endTask
  <2>1. /\ q \in WorkerRecs
        /\ \/ q = Free /\ v.pc \in {"free", "over"} /\ v.endTask = "none"
           \/ /\ v.pc \notin {"free", "over"} \/ v.endTask # "none"
              /\ q.pc = v.pc /\ q.turn = v.turn /\ q.msg = v.msg
              /\ q.gen = v.gen /\ q.retry = v.retry /\ q.cmd = d
              /\ q.beginTask = FALSE /\ q.answer = v.answer
              /\ q.retried = v.retried /\ q.about = v.about
              /\ q.result = v.result /\ q.endTask = v.endTask
    <3>1. v \in WorkerRecs /\ d \in Outcomes \cup {"open", "dropped"}
      BY <1>2, <1>9
    <3>. QED BY <1>5, <3>1, Told2Is
  <2>2. /\ worker' \in [Workers -> WorkerRecs] /\ worker'[w] = q
        /\ \A u \in Workers \ {w} : worker'[u] = worker[u]
    BY <1>2, <1>6, <2>1
  <2>. QED BY <1>7, <2>1, <2>2
<1>11. \A u \in Workers : ~ Task(worker'[u])
  <2>1. \A u \in Workers \ {w} : ~ Task(worker[u])
    BY <1>0, <1>1, <1>6 DEF PairOK, Task
  <2>2. ~ Task(q)
    BY <1>7, <1>10, FreeIs DEF Task
  <2>. QED BY <1>10, <2>1, <2>2
<1>12. ~ rt.generating
  BY <1>0, <1>1, <1>6 DEF ForegroundOK, Task
<1>13. k \in Terminals /\ (k # None => k.turn \in begun) /\ k \in {None, rt.pterm}
  <2>1. None \in Terminals
    BY DEF Terminals
  <2>. QED BY <1>0, <1>2, <1>3, <2>1 DEF ForegroundOK
<1>14. /\ rt' \in RuntimeRecs /\ rt'.gen = rt.gen /\ rt'.persisting = FALSE
       /\ rt'.delReq = rt.delReq /\ rt'.delPend = rt.delPend
       /\ rt'.shutdown = rt.shutdown /\ rt'.reply = rt.reply /\ rt'.alive = rt.alive
       /\ \/ /\ v.gen # rt.gen /\ v.answer = "ok"
             /\ rt'.turn = 0 /\ rt'.pterm = PendingTerminal(v.turn, "cancelled")
             /\ rt'.coord = None /\ rt'.generating = FALSE /\ rt'.next = rt.next
             /\ rt'.started = rt.started
          \/ /\ v.answer # "ok"
             /\ rt'.turn = 0 /\ rt'.pterm = k
             /\ rt'.coord = None \/ (rt'.coord = w /\ v.gen = rt.gen /\ v.answer = "deleted")
             /\ rt'.generating = FALSE /\ rt'.next = rt.next
             /\ rt'.started = rt.started
          \/ /\ v.gen = rt.gen /\ v.answer = "ok"
             /\ rt'.turn = v.turn /\ rt'.pterm = k
             /\ rt'.coord = w /\ rt'.generating = TRUE /\ rt'.next = rt.next + 1
             /\ rt'.started = v.gen
  <2>1. PICK z \in 0 .. MaxSubmits : z = 0
    BY <1>2
  <2>2. PICK n \in Workers \cup {None} : n = None
    OBVIOUS
  <2>3. PICK r : r = [rt EXCEPT !.persisting = FALSE, !.pterm = k, !.turn = z]
    OBVIOUS
  <2>4. /\ r \in RuntimeRecs /\ r.gen = rt.gen /\ r.persisting = FALSE
        /\ r.coord = rt.coord
        /\ r.generating = rt.generating /\ r.delReq = rt.delReq /\ r.delPend = rt.delPend
        /\ r.shutdown = rt.shutdown /\ r.turn = z /\ r.pterm = k
        /\ r.next = rt.next /\ r.reply = rt.reply /\ r.started = rt.started
        /\ r.alive = rt.alive
    BY <1>2, <1>13, <2>3 DEF RuntimeRecs
  <2>5. rt' = IF v.gen # rt.gen
              THEN [StaleBegin(r, v) EXCEPT !.coord = None, !.generating = FALSE]
              ELSE IF rt.shutdown \/ rt.delReq THEN r
              ELSE IF v.answer \notin {"ok", "deleted"} THEN [r EXCEPT !.coord = None]
              ELSE IF v.answer = "ok" /\ rt.coord # None
              THEN [r EXCEPT !.generating = TRUE, !.turn = v.turn,
                             !.next = @ + 1, !.started = v.gen]
              ELSE r
    <3>1. r = [rt EXCEPT !.persisting = FALSE,
                         !.pterm = IF v.retried THEN None ELSE @,
                         !.turn  = IF v.retried THEN 0 ELSE @]
      BY <1>3, <1>7, <2>1, <2>3
    <3>. QED BY <1>1, <3>1 DEF BeginAnswered
  <2>6. CASE v.gen # rt.gen /\ v.answer = "ok"
    <3>1. PICK p : p = PendingTerminal(v.turn, "cancelled")
      OBVIOUS
    <3>2. p \in Terminals
      BY <1>2, <1>7, <2>6, <3>1, TurnAssumption DEF PendingTerminal, Terminals
    <3>3. PICK s : s = [r EXCEPT !.pterm = p, !.turn = z]
      OBVIOUS
    <3>4. /\ s \in RuntimeRecs /\ s.gen = r.gen /\ s.persisting = r.persisting
          /\ s.delReq = r.delReq /\ s.delPend = r.delPend
          /\ s.shutdown = r.shutdown /\ s.turn = z /\ s.pterm = p
          /\ s.next = r.next /\ s.reply = r.reply /\ s.started = r.started
          /\ s.alive = r.alive
      BY <2>4, <3>2, <3>3 DEF RuntimeRecs
    <3>5. s = StaleBegin(r, v)
      BY <2>1, <2>6, <3>1, <3>3 DEF StaleBegin
    <3>6. rt' = [s EXCEPT !.coord = n, !.generating = FALSE]
      BY <2>2, <2>5, <2>6, <3>5
    <3>7. /\ rt' \in RuntimeRecs /\ rt'.gen = s.gen /\ rt'.persisting = s.persisting
          /\ rt'.coord = n /\ rt'.generating = FALSE
          /\ rt'.delReq = s.delReq /\ rt'.delPend = s.delPend
          /\ rt'.shutdown = s.shutdown /\ rt'.turn = s.turn /\ rt'.pterm = s.pterm
          /\ rt'.next = s.next /\ rt'.reply = s.reply /\ rt'.started = s.started
          /\ rt'.alive = s.alive
      BY <3>4, <3>6 DEF RuntimeRecs
    <3>. QED BY <2>1, <2>2, <2>4, <2>6, <3>1, <3>4, <3>7
  <2>7. CASE v.answer # "ok" /\ (v.gen # rt.gen \/ v.answer \notin {"ok", "deleted"})
    <3>1. /\ rt' = [r EXCEPT !.coord = n, !.generating = FALSE]
          \/ rt' = [r EXCEPT !.coord = n]
      BY <1>8, <2>2, <2>5, <2>7 DEF StaleBegin
    <3>2. /\ rt' \in RuntimeRecs /\ rt'.gen = r.gen /\ rt'.persisting = r.persisting
          /\ rt'.coord = n /\ rt'.generating \in {FALSE, r.generating}
          /\ rt'.delReq = r.delReq /\ rt'.delPend = r.delPend
          /\ rt'.shutdown = r.shutdown /\ rt'.turn = r.turn /\ rt'.pterm = r.pterm
          /\ rt'.next = r.next /\ rt'.reply = r.reply /\ rt'.started = r.started
          /\ rt'.alive = r.alive
      BY <2>4, <3>1 DEF RuntimeRecs
    <3>3. rt.generating = FALSE
      BY <1>2, <1>12 DEF RuntimeRecs
    <3>. QED BY <2>1, <2>2, <2>4, <2>7, <3>2, <3>3
  <2>8. CASE v.gen = rt.gen /\ v.answer = "deleted"
    <3>1. rt' = r
      BY <2>5, <2>8
    <3>2. rt.generating = FALSE
      BY <1>2, <1>12 DEF RuntimeRecs
    <3>. QED BY <1>7, <2>1, <2>4, <2>8, <3>1, <3>2
  <2>9. CASE v.gen = rt.gen /\ v.answer = "ok"
    <3>1. rt.next <= submits
      BY <1>0, <1>1, <1>6 DEF ForegroundOK
    <3>2. PICK e \in 1 .. MaxSubmits + 1 : e = rt.next + 1
      BY <1>2, <3>1
    <3>3. rt' = [r EXCEPT !.generating = TRUE, !.turn = v.turn, !.next = e, !.started = v.gen]
      BY <1>8, <2>4, <2>5, <2>9, <3>2
    <3>4. /\ rt' \in RuntimeRecs /\ rt'.gen = r.gen /\ rt'.persisting = r.persisting
          /\ rt'.coord = r.coord /\ rt'.generating = TRUE
          /\ rt'.delReq = r.delReq /\ rt'.delPend = r.delPend
          /\ rt'.shutdown = r.shutdown /\ rt'.turn = v.turn /\ rt'.pterm = r.pterm
          /\ rt'.next = e /\ rt'.reply = r.reply /\ rt'.started = v.gen
          /\ rt'.alive = r.alive
      BY <1>2, <2>4, <3>3 DEF RuntimeRecs
    <3>. QED BY <1>7, <2>4, <2>9, <3>2, <3>4
  <2>. QED BY <2>6, <2>7, <2>8, <2>9
<1>o. v.gen = rt.gen /\ v.answer = "ok" =>
        /\ Own(w) /\ v.pc = "await" /\ q.pc = "await" /\ q.turn = v.turn /\ q.cmd = "open"
        /\ q.endTask = "none" /\ q.retry = v.retry /\ v.turn \in begun /\ v.turn # 0
  BY <1>1, <1>2, <1>7, <1>8, <1>9, <1>10 DEF Own
<1>15. TypeInv'
  BY <1>0, <1>6, <1>10, <1>14 DEF TypeInv
<1>16. LedgerInv'
  BY <1>0, <1>6, LedgerSame
<1>17. Awaited'
  BY <1>0, <1>1, <1>6, <1>7, <1>10, FreeIs DEF Awaited
<1>18. \A u \in Workers : WorkerOK(u)'
  <2>1. WorkerOK(w)'
    <3>1. CASE q = Free
      BY <1>10, <3>1, FreeOK
    <3>2. CASE q # Free
      <4>1. WorkerOK(w)
        BY <1>0
      <4>. QED BY <1>1, <1>6, <1>7, <1>9, <1>10, <3>2, <4>1 DEF WorkerOK
    <3>. QED BY <3>1, <3>2
  <2>. QED BY <1>0, <1>6, <1>10, <2>1, WorkerKept
<1>19. \A u \in Workers : HeardOK(u)'
  <2>1. \A u \in Workers : worker'[u].pc # "begin"
    BY <1>0, <1>7, <1>10, <1>11, FreeIs DEF HeardOK, Task
  <2>. QED BY <1>11, <2>1 DEF HeardOK, Task
<1>20. \A a, u \in Workers : a # u => PairOK(a, u)'
  BY <1>11 DEF PairOK, Task
<1>21. CoordOK'
  <2>1. CASE v.gen = rt.gen /\ v.answer = "ok"
    <3>1. Own(w)'
      BY <1>1, <1>6, <1>10, <1>13, <1>14, <1>o, <2>1 DEF Own, HoldsTerminal
    <3>. QED BY <1>8, <1>10, <1>14, <1>o, <2>1, <3>1 DEF CoordOK
  <2>2. CASE v.gen = rt.gen /\ v.answer = "deleted"
    <3>1. q = Free
      BY <1>7, <1>8, <1>10, <2>2
    <3>. QED BY <1>8, <1>10, <1>14, <2>2, <3>1, FreeIs DEF CoordOK
  <2>3. CASE v.gen # rt.gen \/ v.answer \notin {"ok", "deleted"}
    BY <1>14, <2>3 DEF CoordOK
  <2>. QED BY <2>1, <2>2, <2>3
<1>22. ForegroundOK'
  <2>1. /\ rt'.turn # 0 => rt'.turn \in begun /\ rt'.generating
        /\ rt'.pterm # None => rt'.pterm.turn \in begun
        /\ rt'.started <= rt.gen
        /\ Waiting(ctl) => rt'.turn \in {0, ctl.pend.turn}
    BY <1>0, <1>7, <1>13, <1>14 DEF ForegroundOK, PendingTerminal
  <2>2. rt'.next <= submits + 1
    <3>1. rt.next <= submits
      BY <1>0, <1>1, <1>6 DEF ForegroundOK
    <3>. QED BY <1>2, <1>14, <3>1
  <2>3. rt'.generating => /\ rt'.coord # None /\ rt'.turn # 0
                          /\ worker'[rt'.coord].turn = rt'.turn
    BY <1>2, <1>10, <1>14, <1>o
  <2>4. rt.reply <= rt.gen /\ ~ (rt.reply = rt.gen /\ rt.reply # 0)
    BY <1>0, <1>12 DEF ForegroundOK
  <2>. QED BY <1>0, <1>6, <1>11, <1>14, <2>1, <2>2, <2>3, <2>4 DEF ForegroundOK, Task
<1>23. Responsible'
  <2> SUFFICES ASSUME Waiting(ctl), ~ rt.shutdown
               PROVE  \E x \in Outcomes : Answered(x)'
    BY <1>6, <1>14 DEF Responsible
  <2>0. PICK x \in Outcomes : Answered(x)
    BY <1>0 DEF Responsible
  <2>1. PICK i : i = ctl.pend.turn
    OBVIOUS
  <2>2. PendingTerminal(i, x) # None
    BY <1>0, <2>1, WaitingBegun
  <2>3. \A u \in Workers : worker[u].endTask # "terminal"
    BY <1>0, <1>1, <1>6, <1>7 DEF PairOK, Task
  <2>4. CASE v.answer # "ok"
    <3>1. rt.pterm = PendingTerminal(i, x)
      <4>1. \A u \in Workers : ~ (worker[u].beginTask /\ worker[u].answer = "ok")
        BY <1>0, <1>1, <1>6, <2>4 DEF PairOK, Task
      <4>. QED BY <1>12, <2>0, <2>1, <2>3, <4>1 DEF Answered
    <3>2. rt'.pterm = rt.pterm
      BY <1>3, <1>7, <1>14, <2>4
    <3>3. \A u \in Workers : Voices(worker'[u], i, x)
      <4>1. Voices(v, i, x)
        BY <1>1, <2>0, <2>1 DEF Answered
      <4>2. Voices(q, i, x)
        BY <1>7, <1>9, <1>10, <2>4, <4>1, FreeIs DEF Voices
      <4>. QED BY <1>10, <2>0, <2>1, <4>2 DEF Answered
    <3>4. Answered(x)'
      BY <1>6, <1>11, <2>0, <2>1, <3>1, <3>2, <3>3 DEF Answered, Task
    <3>. QED BY <3>4
  <2>5. CASE v.answer = "ok"
    <3>1. /\ i = v.turn /\ ~ HoldsTerminal(i)
          /\ \A u \in Workers \ {w} : ~ Holds(worker[u], i)
      <4>1. i = v.turn /\ ~ HoldsTerminal(i)
        BY <1>7, <2>1, <2>5
      <4>2. \A u \in Workers \ {w} : ~ Holds(worker[u], v.turn)
        BY <1>0, <1>1, <1>6, <2>5 DEF PairOK
      <4>. QED BY <4>1, <4>2
    <3>2. x = "cancelled" /\ ctl.pend.term \in {None, "cancelled"}
      <4>1. rt.pterm # PendingTerminal(i, x)
        BY <2>2, <3>1 DEF HoldsTerminal, PendingTerminal
      <4>. QED BY <1>12, <2>0, <2>1, <2>3, <4>1 DEF Answered
    <3>3. \A u \in Workers : Voices(worker'[u], i, x)
      <4>1. Voices(v, i, x)
        BY <1>1, <2>0, <2>1 DEF Answered
      <4>2. Voices(q, i, x)
        BY <1>9, <1>10, <2>5, <4>1, FreeIs DEF Voices, Said
      <4>. QED BY <1>10, <2>0, <2>1, <4>2 DEF Answered
    <3>4. CASE v.gen # rt.gen
      <4>1. rt'.pterm = PendingTerminal(i, x)
        BY <1>14, <2>5, <3>1, <3>2, <3>4
      <4>2. Answered(x)'
        BY <1>6, <1>11, <2>0, <2>1, <3>3, <4>1 DEF Answered, Task
      <4>. QED BY <4>2
    <3>5. CASE v.gen = rt.gen
      <4>1. rt'.generating /\ ~ (rt'.pterm # None /\ rt'.pterm.turn = i)
        BY <1>13, <1>14, <2>5, <3>1, <3>5 DEF HoldsTerminal
      <4>2. Answered(x)'
        BY <1>6, <2>0, <2>1, <3>3, <4>1 DEF Answered, HoldsTerminal
      <4>. QED BY <4>2
    <3>. QED BY <3>4, <3>5
  <2>. QED BY <2>4, <2>5
<1>. QED BY <1>15, <1>16, <1>17, <1>18, <1>19, <1>20, <1>21, <1>22, <1>23 DEF TurnsInv, HeardInv

-----------------------------------------------------------------------------
(***************************************************************************)
(* The worker's begin.                                                     *)
(***************************************************************************)
\* What the worker v learns of the store: a turn it began is new and the only one
\* waited for, and one it could not begin leaves at most the older turn waiting.
RetryTold(v, r) ==
  /\ LedgerOK(r.o.c, r.o.st) /\ (r.o.c.deleted <=> ctl.deleted) /\ r.retried \in BOOLEAN
  /\ r.o.answer \in {"ok", "deleted", "storage", "used", "in progress", "retry failed"}
  /\ r.o.answer = "ok" => /\ v.turn \notin begun /\ BegunIn(r.o.c, r.o.st, begun \cup {v.turn})
                          /\ Waiting(r.o.c) /\ r.o.c.pend.turn = v.turn /\ r.o.c.pend.term = None
  /\ r.o.answer # "ok" => BegunIn(r.o.c, r.o.st, begun)
  /\ r.o.answer # "ok" /\ r.retried => ~ Waiting(r.o.c)
  /\ r.o.answer # "ok" /\ Waiting(r.o.c) =>
       /\ Waiting(ctl) /\ r.o.c.pend.turn = ctl.pend.turn
       /\ \/ r.o.c.pend.term = ctl.pend.term
          \/ /\ v.retry # None /\ v.retry.turn = ctl.pend.turn
             /\ r.o.c.pend.term = v.retry.term

\* A finish that failed tells a retry of it as much.
LEMMA FinishOut ==
  ASSUME NEW c, NEW st, NEW t, NEW x, NEW o \in FinishTurn(c, st, t, x)
  PROVE  \E d, s, a : o = Out(d, s, a)
<1>1. ASSUME NEW d, NEW s, o \in AppendPendingTerminal(d, s)
      PROVE  \E e, u, a : o = Out(e, u, a)
  BY <1>1 DEF AppendPendingTerminal
<1>2. ASSUME o \in ResumePendingTerminal(c, st)
      PROVE  \E e, u, a : o = Out(e, u, a)
  <2>1. PICK f \in FlushCall(st) :
          o \in IF ~ f.ok THEN {Out(c, f.st, "storage")}
                ELSE UNION {IF ~ l.ok THEN {Out(c, l.st, "storage")}
                            ELSE IF Has(l.st.facts, Result(c.pend.turn, c.pend.term))
                            THEN {Out([c EXCEPT !.pend = None], l.st, "ok")}
                            ELSE AppendPendingTerminal(c, l.st) : l \in LoadCall(f.st)}
    BY <1>2 DEF ResumePendingTerminal
  <2>2. CASE ~ f.ok
    BY <2>1, <2>2
  <2>3. CASE f.ok
    <3>1. PICK l \in LoadCall(f.st) :
            o \in IF ~ l.ok THEN {Out(c, l.st, "storage")}
                  ELSE IF Has(l.st.facts, Result(c.pend.turn, c.pend.term))
                  THEN {Out([c EXCEPT !.pend = None], l.st, "ok")}
                  ELSE AppendPendingTerminal(c, l.st)
      BY <2>1, <2>3
    <3>2. CASE o \in AppendPendingTerminal(c, l.st)
      BY <1>1, <3>2
    <3>3. CASE o \notin AppendPendingTerminal(c, l.st)
      BY <3>1, <3>3
    <3>. QED BY <3>2, <3>3
  <2>. QED BY <2>2, <2>3
<1>3. CASE c.deleted \/ (c.pend # None /\ (c.pend.turn # t \/ ~ c.pend.user))
  BY <1>3 DEF FinishTurn
<1>4. CASE ~ c.deleted /\ c.pend = None
  BY <1>4 DEF FinishTurn
<1>5. CASE ~ c.deleted /\ c.pend # None /\ c.pend.turn = t /\ c.pend.user /\ c.pend.term = None
  BY <1>1, <1>5 DEF FinishTurn
<1>6. CASE ~ c.deleted /\ c.pend # None /\ c.pend.turn = t /\ c.pend.user /\ c.pend.term # None
  BY <1>2, <1>6 DEF FinishTurn
<1>. QED BY <1>3, <1>4, <1>5, <1>6

\* The kept terminal first and then the new turn, whichever of them fails.
LEMMA RetryTells ==
  ASSUME LedgerInv, NEW v, v.turn \in Turns, v.msg \in Messages,
         v.retry # None => v.retry.term \in Terms, NEW r \in RetryThenBegin(v)
  PROVE  RetryTold(v, r)
<1>0. LedgerOK(ctl, store) /\ BegunIn(ctl, store, begun)
  BY DEF LedgerInv
<1>1. CASE v.retry = None
  <2>1. PICK b \in BeginTurn(ctl, store, v.turn, v.msg) : r = Outcome(b, FALSE)
    BY <1>1 DEF RetryThenBegin, Out
  <2>2. r.o = b /\ r.retried = FALSE
    BY <2>1 DEF Outcome
  <2>3. BeginTold(ctl, b, v.turn, begun)
    BY <1>0, BeginsTurn
  <2>. QED BY <2>2, <2>3 DEF BeginTold, RetryTold, Waiting
<1>2. CASE v.retry # None
  <2>1. PICK o \in FinishTurn(ctl, store, v.retry.turn, v.retry.term) :
          r \in IF o.answer = "ok"
                THEN {Outcome(b, TRUE) : b \in BeginTurn(o.c, o.st, v.turn, v.msg)}
                ELSE {Outcome([o EXCEPT !.answer = Refused(@)], FALSE)}
    BY <1>2 DEF RetryThenBegin
  <2>2. FinishTold(ctl, o, v.retry.turn, v.retry.term, begun)
    BY <1>0, <1>2, FinishesTurn
  <2>3. CASE o.answer = "ok"
    <3>1. PICK b \in BeginTurn(o.c, o.st, v.turn, v.msg) : r = Outcome(b, TRUE)
      BY <2>1, <2>3
    <3>2. r.o = b /\ r.retried = TRUE
      BY <3>1 DEF Outcome
    <3>3. /\ LedgerOK(o.c, o.st) /\ BegunIn(o.c, o.st, begun) /\ (o.c.deleted <=> ctl.deleted)
          /\ o.c.pend = None
      BY <2>2, <2>3 DEF FinishTold
    <3>4. BeginTold(o.c, b, v.turn, begun)
      BY <3>3, BeginsTurn
    <3>5. b.answer # "ok" => ~ Waiting(b.c)
      BY <3>3, <3>4 DEF BeginTold, Waiting
    <3>. QED BY <3>2, <3>3, <3>4, <3>5 DEF BeginTold, RetryTold
  <2>4. CASE o.answer # "ok"
    <3>1. r = Outcome([o EXCEPT !.answer = Refused(@)], FALSE)
      BY <2>1, <2>4
    <3>2. PICK b : b = [o EXCEPT !.answer = Refused(o.answer)]
      OBVIOUS
    <3>3. r.o = b /\ r.retried = FALSE
      BY <3>1, <3>2 DEF Outcome
    <3>4. b.c = o.c /\ b.st = o.st /\ b.answer = Refused(o.answer)
      <4>1. PICK c, st, a : o = Out(c, st, a)
        BY FinishOut
      <4>. QED BY <3>2, <4>1 DEF Out
    <3>5. b.answer \in {"deleted", "retry failed"}
      BY <3>4 DEF Refused
    <3>6. /\ LedgerOK(b.c, b.st) /\ BegunIn(b.c, b.st, begun) /\ (b.c.deleted <=> ctl.deleted)
          /\ \/ b.c.pend = ctl.pend
             \/ /\ Waiting(ctl) /\ ctl.pend.turn = v.retry.turn /\ ctl.pend.term = None
                /\ Waiting(b.c) /\ b.c.pend.turn = v.retry.turn /\ b.c.pend.term = v.retry.term
      BY <2>2, <2>4, <3>4 DEF FinishTold
    <3>. QED BY <1>2, <3>3, <3>5, <3>6 DEF RetryTold, Waiting
  <2>. QED BY <2>3, <2>4
<1>. QED BY <1>1, <1>2

\* A worker whose begin was answered a, on its way to pc with the channel d.
AfterBegin(v, pc, d, a, retried, result) ==
  [v EXCEPT !.pc = pc, !.cmd = d, !.answer = a, !.retried = retried, !.result = result]

IsAfterBegin(q, v, pc, d, a, retried, result) ==
  /\ q \in WorkerRecs /\ q.pc = pc /\ q.turn = v.turn /\ q.msg = v.msg
  /\ q.gen = v.gen /\ q.retry = v.retry /\ q.cmd = d
  /\ q.beginTask = v.beginTask /\ q.answer = a
  /\ q.retried = retried /\ q.about = v.about
  /\ q.result = result /\ q.endTask = v.endTask

\* What a begin does to its worker.
LEMMA AfterBeginIs ==
  ASSUME NEW v \in WorkerRecs, NEW pc \in {"await", "over"}, NEW d \in Outcomes \cup {"open", "dropped"},
         NEW a \in {"ok", "deleted", "storage", "used", "in progress", "retry failed"},
         NEW retried \in BOOLEAN, NEW result \in {"none", "disconnected"}
  PROVE  IsAfterBegin(AfterBegin(v, pc, d, a, retried, result), v, pc, d, a, retried, result)
<1>1. PICK q : q = AfterBegin(v, pc, d, a, retried, result)
  OBVIOUS
<1>2. q \in WorkerRecs
  <2>1. PICK b \in {"free", "begin", "await", "over"} : b = pc
    OBVIOUS
  <2>2. PICK e \in {"none", "ok", "deleted", "storage", "used", "in progress", "retry failed"} : e = a
    OBVIOUS
  <2>3. PICK s \in {"none", "disconnected", "ok", "deleted", "storage", "no turn", "mismatch"} : s = result
    OBVIOUS
  <2>4. q = [v EXCEPT !.pc = b, !.cmd = d, !.answer = e, !.retried = retried, !.result = s]
    BY <1>1, <2>1, <2>2, <2>3 DEF AfterBegin
  <2>5. PICK y : y = [v EXCEPT !.pc = b, !.cmd = d]
    OBVIOUS
  <2>6. y \in WorkerRecs
    BY <2>5 DEF WorkerRecs
  <2>7. PICK z : z = [y EXCEPT !.answer = e, !.retried = retried]
    OBVIOUS
  <2>8. z \in WorkerRecs
    BY <2>6, <2>7 DEF WorkerRecs
  <2>9. PICK x : x = [z EXCEPT !.result = s]
    OBVIOUS
  <2>10. x \in WorkerRecs
    BY <2>8, <2>9 DEF WorkerRecs
  <2>11. q = x
    BY <2>4, <2>5, <2>7, <2>9 DEF WorkerRecs
  <2>. QED BY <2>10, <2>11
<1>3. /\ q.pc = pc /\ q.turn = v.turn /\ q.msg = v.msg
      /\ q.gen = v.gen /\ q.retry = v.retry /\ q.cmd = d
      /\ q.beginTask = v.beginTask /\ q.answer = a
      /\ q.retried = retried /\ q.about = v.about
      /\ q.result = result /\ q.endTask = v.endTask
  BY <1>1 DEF AfterBegin, WorkerRecs
<1>4. IsAfterBegin(q, v, pc, d, a, retried, result)
  BY <1>2, <1>3 DEF IsAfterBegin
<1>. QED BY <1>1, <1>4

\* The worker w was told r of its begin, and q is what became of it.
BeginIs(w, r, q) ==
  /\ ctl' = r.o.c /\ store' = r.o.st
  /\ begun' = IF r.o.answer = "ok" THEN begun \cup {worker[w].turn} ELSE begun
  /\ worker' \in [Workers -> WorkerRecs] /\ worker'[w] = q
  /\ \A u \in Workers \ {w} : worker'[u] = worker[u]
  /\ r.o.answer = "ok" /\ worker[w].beginTask =>
       IsAfterBegin(q, worker[w], "await", worker[w].cmd, "ok", r.retried, worker[w].result)
  /\ r.o.answer = "ok" /\ ~ worker[w].beginTask =>
       IsAfterBegin(q, worker[w], "await", "dropped", "ok", r.retried, worker[w].result)
  /\ r.o.answer # "ok" =>
       \/ q = Free /\ ~ worker[w].beginTask /\ worker[w].endTask = "none"
       \/ /\ worker[w].beginTask \/ worker[w].endTask # "none"
          /\ IsAfterBegin(q, worker[w], "over", worker[w].cmd, r.o.answer, r.retried, "disconnected")

\* A worker begins its turn and goes on to wait for the terminal, or ends.
LEMMA WorkerBeginsIs ==
  ASSUME TypeInv, LedgerInv, NEW w \in Workers, WorkerOK(w), WorkerBegins(w)
  PROVE  \E r \in RetryThenBegin(worker[w]) :
           RetryTold(worker[w], r) /\ \E q : BeginIs(w, r, q)
<1>1. PICK v : v = worker[w]
  OBVIOUS
<1>2. PICK r \in RetryThenBegin(worker[w]) :
        LET ok == r.o.answer = "ok"
            y  == [worker[w] EXCEPT !.answer = r.o.answer, !.retried = r.retried]
        IN  /\ ctl' = r.o.c /\ store' = r.o.st
            /\ begun' = IF ok THEN begun \cup {y.turn} ELSE begun
            /\ worker' = [worker EXCEPT ![w] =
                 IF ok /\ y.beginTask THEN [y EXCEPT !.pc = "await"]
                 ELSE IF ok THEN Unheard(y)
                 ELSE Settle([y EXCEPT !.pc = "over", !.result = "disconnected"])]
  BY DEF WorkerBegins
<1>3. /\ v \in WorkerRecs /\ v.turn \in 0 .. MaxSubmits /\ v.turn # 0 /\ v.pc = "begin"
      /\ v.msg \in Submitted /\ v.retry \in Terminals /\ v.result = "none"
      /\ v.cmd \in Outcomes \cup {"open", "dropped"}
      /\ worker \in [Workers -> WorkerRecs] /\ MaxSubmits \in Nat
  <2>1. v.pc = "begin"
    BY <1>1 DEF WorkerBegins
  <2>2. v.msg \in Submitted /\ v.turn # 0 /\ v.result = "none"
    BY <1>1, <2>1 DEF WorkerOK
  <2>. QED BY <1>1, <2>1, <2>2, WorkerTypes, RuntimeTypes
<1>4. RetryTold(v, r)
  <2>1. v.turn \in Turns
    BY <1>3 DEF Turns
  <2>2. v.msg \in Messages
    BY <1>3 DEF Submitted, Messages
  <2>3. v.retry # None => v.retry.term \in Terms
    BY <1>3 DEF Terminals, Terms
  <2>. QED BY <1>1, <1>2, <2>1, <2>2, <2>3, RetryTells
<1>5. /\ r.o.answer \in {"ok", "deleted", "storage", "used", "in progress", "retry failed"}
      /\ r.retried \in BOOLEAN
  BY <1>4 DEF RetryTold
<1>6. PICK y : y = [v EXCEPT !.answer = r.o.answer, !.retried = r.retried]
  OBVIOUS
<1>7. y \in WorkerRecs /\ y.turn = v.turn /\ y.beginTask = v.beginTask /\ y.endTask = v.endTask
  BY <1>3, <1>5, <1>6 DEF WorkerRecs
<1>8. /\ ctl' = r.o.c /\ store' = r.o.st
      /\ begun' = (IF r.o.answer = "ok" THEN begun \cup {worker[w].turn} ELSE begun)
  BY <1>1, <1>2, <1>6, <1>7
<1>9. PICK q : q = IF r.o.answer = "ok" /\ y.beginTask THEN [y EXCEPT !.pc = "await"]
                   ELSE IF r.o.answer = "ok" THEN Unheard(y)
                   ELSE Settle([y EXCEPT !.pc = "over", !.result = "disconnected"])
  OBVIOUS
<1>10. worker' = [worker EXCEPT ![w] = q]
  BY <1>1, <1>2, <1>6, <1>9
<1>11. /\ r.o.answer = "ok" /\ v.beginTask =>
            IsAfterBegin(q, v, "await", v.cmd, "ok", r.retried, v.result)
       /\ r.o.answer = "ok" /\ ~ v.beginTask =>
            IsAfterBegin(q, v, "await", "dropped", "ok", r.retried, v.result)
       /\ r.o.answer # "ok" =>
            \/ q = Free /\ ~ v.beginTask /\ v.endTask = "none"
            \/ /\ v.beginTask \/ v.endTask # "none"
               /\ IsAfterBegin(q, v, "over", v.cmd, r.o.answer, r.retried, "disconnected")
       /\ q \in WorkerRecs
  <2>1. CASE r.o.answer = "ok" /\ v.beginTask
    <3>1. q = AfterBegin(v, "await", v.cmd, "ok", r.retried, v.result)
      <4>1. q = [y EXCEPT !.pc = "await"]
        BY <1>7, <1>9, <2>1
      <4>2. [y EXCEPT !.pc = "await"] = AfterBegin(v, "await", v.cmd, r.o.answer, r.retried, v.result)
        BY <1>3, <1>6, <1>7 DEF AfterBegin, WorkerRecs
      <4>. QED BY <2>1, <4>1, <4>2
    <3>2. IsAfterBegin(q, v, "await", v.cmd, "ok", r.retried, v.result)
      BY <1>3, <1>5, <2>1, <3>1, AfterBeginIs
    <3>. QED BY <2>1, <3>2 DEF IsAfterBegin
  <2>2. CASE r.o.answer = "ok" /\ ~ v.beginTask
    <3>1. q = AfterBegin(v, "await", "dropped", "ok", r.retried, v.result)
      <4>1. q = [y EXCEPT !.pc = "await", !.cmd = "dropped"]
        BY <1>7, <1>9, <2>2 DEF Unheard
      <4>2. [y EXCEPT !.pc = "await", !.cmd = "dropped"]
              = AfterBegin(v, "await", "dropped", r.o.answer, r.retried, v.result)
        BY <1>3, <1>6, <1>7 DEF AfterBegin, WorkerRecs
      <4>. QED BY <2>2, <4>1, <4>2
    <3>2. IsAfterBegin(q, v, "await", "dropped", "ok", r.retried, v.result)
      BY <1>3, <1>5, <2>2, <3>1, AfterBeginIs
    <3>. QED BY <2>2, <3>2 DEF IsAfterBegin
  <2>3. CASE r.o.answer # "ok"
    <3>1. PICK z : z = AfterBegin(v, "over", v.cmd, r.o.answer, r.retried, "disconnected")
      OBVIOUS
    <3>2. z = [y EXCEPT !.pc = "over", !.result = "disconnected"]
      BY <1>3, <1>6, <1>7, <3>1 DEF AfterBegin, WorkerRecs
    <3>3. IsAfterBegin(z, v, "over", v.cmd, r.o.answer, r.retried, "disconnected")
      BY <1>3, <1>5, <3>1, AfterBeginIs
    <3>4. q = Settle(z)
      BY <1>9, <2>3, <3>2
    <3>5. z \in WorkerRecs /\ z.pc = "over" /\ z.beginTask = v.beginTask /\ z.endTask = v.endTask
      BY <3>3 DEF IsAfterBegin
    <3>6. CASE ~ v.beginTask /\ v.endTask = "none"
      <4>1. q = Free
        BY <3>4, <3>5, <3>6 DEF Settle
      <4>. QED BY <2>3, <3>6, <4>1, FreeIs
    <3>7. CASE ~ (~ v.beginTask /\ v.endTask = "none")
      <4>1. q = z
        BY <3>4, <3>5, <3>7 DEF Settle
      <4>. QED BY <2>3, <3>3, <3>5, <3>7, <4>1
    <3>. QED BY <3>6, <3>7
  <2>. QED BY <2>1, <2>2, <2>3
<1>12. /\ worker' \in [Workers -> WorkerRecs] /\ worker'[w] = q
       /\ \A u \in Workers \ {w} : worker'[u] = worker[u]
  BY <1>3, <1>10, <1>11
<1>13. BeginIs(w, r, q)
  BY <1>1, <1>8, <1>11, <1>12 DEF BeginIs
<1>. QED BY <1>1, <1>2, <1>4, <1>13

\* The worker's begin under the controller lock.
LEMMA WorkerBeginsKeeps ==
  ASSUME TurnsInv, NEW w \in Workers, WorkerBegins(w)
  PROVE  TurnsInv'
<1>0. /\ TypeInv /\ LedgerInv /\ Awaited
      /\ \A u \in Workers : WorkerOK(u)
      /\ HeardInv
  BY DEF TurnsInv
<1>1. PICK v : v = worker[w]
  OBVIOUS
<1>2. /\ worker \in [Workers -> WorkerRecs] /\ MaxSubmits \in Nat
      /\ v.turn \in 0 .. MaxSubmits /\ v.about \in 0 .. MaxSubmits
      /\ v.beginTask \in BOOLEAN /\ v.endTask \in {"none", "terminal", "detached"}
      /\ begun \subseteq 1 .. MaxSubmits /\ gaveUp \subseteq begun
  BY <1>0, <1>1, RuntimeTypes, WorkerTypes DEF TypeInv
<1>3. PICK r \in RetryThenBegin(v) : RetryTold(v, r) /\ \E q : BeginIs(w, r, q)
  BY <1>0, <1>1, WorkerBeginsIs
<1>4. PICK q : BeginIs(w, r, q)
  BY <1>3
<1>5. /\ v.pc = "begin"
      /\ rt' = rt /\ deletion' = deletion /\ gaveUp' = gaveUp /\ submits' = submits
      /\ accepting' = accepting /\ sealed' = sealed
  BY <1>1 DEF WorkerBegins, world
<1>6. /\ v.answer = "none" /\ v.result = "none" /\ v.turn # 0
      /\ (v.endTask # "none" => v.beginTask) /\ v.endTask # "terminal"
      /\ (v.retry # None => v.retry.turn \in begun)
  BY <1>0, <1>1, <1>5 DEF WorkerOK
<1>7. /\ ctl' = r.o.c /\ store' = r.o.st
      /\ r.o.answer = "ok" => begun' = begun \cup {v.turn}
      /\ r.o.answer # "ok" => begun' = begun
      /\ worker' \in [Workers -> WorkerRecs] /\ worker'[w] = q
      /\ \A u \in Workers \ {w} : worker'[u] = worker[u]
  BY <1>1, <1>4 DEF BeginIs
<1>8. /\ LedgerOK(ctl', store') /\ (ctl'.deleted <=> ctl.deleted)
      /\ BegunIn(ctl', store', begun')
      /\ r.o.answer = "ok" => /\ v.turn \notin begun
                              /\ Waiting(ctl') /\ ctl'.pend.turn = v.turn
                              /\ ctl'.pend.term = None
      /\ r.o.answer # "ok" /\ r.retried => ~ Waiting(ctl')
      /\ r.o.answer # "ok" /\ Waiting(ctl') =>
           /\ Waiting(ctl) /\ ctl'.pend.turn = ctl.pend.turn
           /\ \/ ctl'.pend.term = ctl.pend.term
              \/ /\ v.retry # None /\ v.retry.turn = ctl.pend.turn
                 /\ ctl'.pend.term = v.retry.term
  BY <1>3, <1>7 DEF RetryTold
<1>9. /\ v.beginTask =>
           /\ q.turn = v.turn /\ q.gen = v.gen /\ q.retry = v.retry /\ q.cmd = v.cmd
           /\ q.beginTask = v.beginTask /\ q.answer = r.o.answer /\ q.retried = r.retried
           /\ q.about = v.about /\ q.endTask = v.endTask
           /\ r.o.answer = "ok" => q.pc = "await" /\ q.result = "none"
           /\ r.o.answer # "ok" => q.pc = "over" /\ q.result = "disconnected"
      /\ ~ v.beginTask /\ r.o.answer = "ok" =>
           /\ q.turn = v.turn /\ q.retry = v.retry
           /\ q.beginTask = v.beginTask /\ q.answer = r.o.answer
           /\ q.about = v.about /\ q.endTask = "none"
           /\ q.pc = "await" /\ q.result = "none"
      /\ ~ v.beginTask /\ r.o.answer # "ok" => q = Free
  BY <1>1, <1>4, <1>6 DEF BeginIs, IsAfterBegin
<1>10. TypeInv'
  <2>1. begun' \subseteq 1 .. MaxSubmits /\ gaveUp' \subseteq begun'
    <3>1. v.turn \in 1 .. MaxSubmits
      BY <1>2, <1>6
    <3>2. begun' = begun \/ begun' = begun \cup {v.turn}
      BY <1>7
    <3>3. begun \subseteq begun' /\ begun' \subseteq 1 .. MaxSubmits
      BY <1>2, <3>1, <3>2
    <3>. QED BY <1>2, <1>5, <3>3
  <2>. QED BY <1>0, <1>5, <1>7, <2>1 DEF TypeInv
<1>11. LedgerInv'
  BY <1>8 DEF LedgerInv
<1>12. Awaited'
  <2>1. ~ sealed
    BY <1>0, <1>1, <1>5 DEF Awaited
  <2>2. CASE r.o.answer = "ok"
    <3>1. worker'[w].pc = "await" /\ worker'[w].turn = ctl'.pend.turn
      BY <1>7, <1>8, <1>9, <2>2
    <3>. QED BY <1>5, <2>1, <3>1 DEF Awaited
  <2>3. CASE r.o.answer # "ok"
    BY <1>0, <1>1, <1>5, <1>7, <1>8, <2>1, <2>3 DEF Awaited
  <2>. QED BY <2>2, <2>3
<1>13. \A u \in Workers : WorkerOK(u)'
  <2>1. WorkerOK(w)'
    <3>1. CASE ~ v.beginTask /\ r.o.answer # "ok"
      BY <1>7, <1>9, <3>1, FreeOK
    <3>2. CASE v.beginTask \/ r.o.answer = "ok"
      <4>1. WorkerOK(w)
        BY <1>0
      <4>. QED BY <1>1, <1>5, <1>6, <1>7, <1>9, <3>2, <4>1 DEF WorkerOK
    <3>. QED BY <1>2, <3>1, <3>2
  <2>2. ASSUME NEW u \in Workers \ {w}
        PROVE  WorkerOK(u)'
    <3>1. WorkerOK(u) /\ worker'[u] = worker[u]
      BY <1>0, <1>7
    <3>2. begun \subseteq begun'
      BY <1>7
    <3>3. worker[u].turn \in begun /\ ~ (Waiting(ctl) /\ ctl.pend.turn = worker[u].turn) =>
            ~ (Waiting(ctl') /\ ctl'.pend.turn = worker[u].turn)
      BY <1>8
    <3>. QED BY <3>1, <3>2, <3>3 DEF WorkerOK
  <2>. QED BY <2>1, <2>2
<1>14. ASSUME rt.alive
       PROVE  HeardInv' /\ Responsible'
  <2>0. /\ (\A u \in Workers : HeardOK(u)) /\ CoordOK /\ ForegroundOK
        /\ \A a, u \in Workers : a # u => PairOK(a, u)
        /\ Responsible
    BY <1>14 DEF TurnsInv, HeardInv
  <2>1. /\ v.beginTask /\ v.about = 0 /\ rt.turn = 0
        /\ (v.gen = rt.gen <=> rt.coord = w)
        /\ v.gen # rt.gen => v.cmd = "cancelled"
    BY <1>1, <1>5, <2>0 DEF HeardOK
  <2>2. /\ \A u \in Workers \ {w} : ~ Task(worker'[u])
        /\ Task(worker[w]) /\ q.endTask # "terminal" /\ q.beginTask
    <3>1. Task(worker[w])
      BY <1>1, <2>1 DEF Task
    <3>2. \A u \in Workers \ {w} : ~ Task(worker[u])
      BY <2>0, <3>1 DEF PairOK
    <3>3. q.endTask # "terminal" /\ q.beginTask
      BY <1>6, <1>9, <2>1
    <3>. QED BY <1>7, <3>1, <3>2, <3>3
  <2>3. \A u \in Workers \ {w} : \A i : Holds(worker'[u], i) => i \in begun \/ i = 0
    BY <1>0, <1>7 DEF WorkerOK, Holds
  <2>4. r.o.answer = "ok" => /\ \A u \in Workers \ {w} : ~ Holds(worker'[u], v.turn)
                             /\ ~ HoldsTerminal(v.turn)
    BY <1>6, <1>8, <2>0, <2>3 DEF ForegroundOK, HoldsTerminal
  <2>5. ~ rt.generating
    BY <2>0, <2>2 DEF ForegroundOK
  <2>6. \A u \in Workers : HeardOK(u)'
    <3>1. HeardOK(w)'
      BY <1>1, <1>5, <1>7, <1>8, <1>9, <2>0, <2>1, <2>2, <2>4 DEF HeardOK, HoldsTerminal
    <3>2. ASSUME NEW u \in Workers \ {w}
          PROVE  HeardOK(u)'
      <4>1. HeardOK(u) /\ ~ Task(worker'[u]) /\ worker'[u] = worker[u]
        BY <1>7, <2>0, <2>2
      <4>. QED BY <1>5, <4>1 DEF HeardOK, Task
    <3>. QED BY <3>1, <3>2
  <2>7. ASSUME NEW a \in Workers, NEW u \in Workers, a # u
        PROVE  PairOK(a, u)'
    BY <1>7, <1>9, <2>1, <2>2, <2>4, <2>7 DEF PairOK, Task
  <2>8. CoordOK'
    <3>1. CASE rt.coord = w
      <4>1. r.o.answer = "ok" => Own(w)'
        BY <1>5, <1>7, <1>8, <1>9, <2>1, <2>4 DEF Own, HoldsTerminal
      <4>. QED BY <1>1, <1>5, <1>7, <1>9, <2>0, <2>1, <2>5, <3>1, <4>1 DEF CoordOK
    <3>2. CASE rt.coord # w /\ rt.coord # None
      <4>1. rt.coord \in Workers \ {w}
        BY <1>0, <3>2, RuntimeTypes
      <4>2. worker[rt.coord].pc = "free"
        BY <1>7, <2>0, <2>2, <2>5, <3>2, <4>1 DEF CoordOK, Task
      <4>3. worker[rt.coord].answer # "ok"
        BY <1>0, <4>1, <4>2 DEF WorkerOK
      <4>. QED BY <1>5, <1>7, <2>0, <2>5, <3>2, <4>1, <4>2, <4>3 DEF CoordOK
    <3>3. CASE rt.coord = None
      BY <1>5, <3>3 DEF CoordOK
    <3>. QED BY <3>1, <3>2, <3>3
  <2>9. ForegroundOK'
    <3>1. \E u \in Workers : Task(worker'[u])
      BY <1>7, <2>2 DEF Task
    <3>2. rt.persisting
      BY <2>0, <2>2 DEF ForegroundOK
    <3>3. \A u \in Workers : worker'[u].beginTask => worker[u].beginTask
      BY <1>1, <1>7, <2>1
    <3>4. begun \subseteq begun'
      BY <1>7
    <3>. QED BY <1>5, <1>8, <2>0, <2>1, <2>5, <3>1, <3>2, <3>3, <3>4 DEF ForegroundOK
  <2>10. Responsible'
    <3> SUFFICES ASSUME Waiting(ctl'), ~ rt.shutdown
                 PROVE  \E x \in Outcomes : Answered(x)'
      BY <1>5 DEF Responsible
    <3>1. CASE r.o.answer = "ok"
      <4>1. /\ ctl'.pend.turn = v.turn /\ ctl'.pend.term = None
        BY <1>8, <3>1
      <4>2. \A u \in Workers : Voices(worker'[u], v.turn, "cancelled")
        <5>1. q.cmd \in {"open", "cancelled"}
          BY <1>1, <1>9, <2>0, <2>1, TurnAssumption DEF CoordOK
        <5>2. Voices(q, v.turn, "cancelled")
          BY <1>6, <1>9, <2>1, <3>1, <5>1 DEF Voices, Said
        <5>3. \A u \in Workers \ {w} : Voices(worker'[u], v.turn, "cancelled")
          BY <2>4, <3>1 DEF Voices, Holds
        <5>. QED BY <1>7, <5>2, <5>3
      <4>3. Answered("cancelled")'
        BY <1>5, <1>7, <1>9, <2>1, <2>4, <3>1, <4>1, <4>2 DEF Answered, HoldsTerminal
      <4>. QED BY <4>3, TurnAssumption
    <3>2. CASE r.o.answer # "ok"
      <4>1. Waiting(ctl) /\ ctl'.pend.turn = ctl.pend.turn
        BY <1>8, <3>2
      <4>2. PICK x \in Outcomes : Answered(x)
        BY <2>0, <4>1 DEF Responsible
      <4>3. PICK i : i = ctl.pend.turn
        OBVIOUS
      <4>4. \A u \in Workers : Voices(worker[u], i, x)
        BY <4>2, <4>3 DEF Answered
      <4>5. ctl'.pend.term \in {None, x}
        BY <1>1, <1>5, <1>8, <3>2, <4>2, <4>3, <4>4 DEF Answered, Voices
      <4>6. \A u \in Workers : Voices(worker'[u], i, x)
        <5>1. Voices(q, i, x)
          BY <1>1, <1>9, <2>1, <3>2, <4>4 DEF Voices
        <5>. QED BY <1>7, <4>4, <5>1
      <4>7. rt.pterm = PendingTerminal(i, x)
        <5>1. \A u \in Workers : worker[u].endTask # "terminal"
          BY <1>1, <1>6, <1>7, <2>2 DEF Task
        <5>2. \A u \in Workers : ~ (worker[u].beginTask /\ worker[u].answer = "ok")
          BY <1>1, <1>6, <1>7, <2>2 DEF Task
        <5>. QED BY <2>5, <4>2, <4>3, <5>1, <5>2 DEF Answered
      <4>8. \A u \in Workers : worker'[u].endTask # "terminal"
        BY <1>7, <2>2 DEF Task
      <4>9. Answered(x)'
        BY <1>5, <4>1, <4>3, <4>5, <4>6, <4>7, <4>8 DEF Answered
      <4>. QED BY <4>9
    <3>. QED BY <3>1, <3>2
  <2>. QED BY <2>6, <2>7, <2>8, <2>9, <2>10 DEF HeardInv
<1>. QED BY <1>5, <1>10, <1>11, <1>12, <1>13, <1>14 DEF TurnsInv, HeardInv

-----------------------------------------------------------------------------
(***************************************************************************)
(* The worker's attempts at the terminal.                                  *)
(***************************************************************************)
\* A worker after one more attempt at the terminal, over with a result or not.
Tried1(v) == [v EXCEPT !.tries = @ + 1]

TriedOut(v, a) == [v EXCEPT !.tries = @ + 1, !.pc = "over", !.result = a]

IsTried(q, v) ==
  /\ q \in WorkerRecs /\ q.turn = v.turn /\ q.msg = v.msg
  /\ q.gen = v.gen /\ q.retry = v.retry /\ q.cmd = v.cmd
  /\ q.beginTask = v.beginTask /\ q.answer = v.answer
  /\ q.retried = v.retried /\ q.about = v.about /\ q.endTask = v.endTask

\* One more is a number.
LEMMA OneMore == \A n \in Nat : n + 1 \in Nat
OBVIOUS

\* What an attempt at the terminal does to its worker.
LEMMA TriedIs ==
  ASSUME NEW v \in WorkerRecs, NEW a \in {"ok", "deleted", "storage", "no turn", "mismatch"}
  PROVE  /\ IsTried(Tried1(v), v) /\ Tried1(v).pc = v.pc /\ Tried1(v).result = v.result
         /\ IsTried(TriedOut(v, a), v) /\ TriedOut(v, a).pc = "over" /\ TriedOut(v, a).result = a
<1>0. v.tries \in Nat
  BY DEF WorkerRecs
<1>1. PICK n \in Nat : n = v.tries + 1
  BY <1>0, OneMore
<1>2. PICK y : y = Tried1(v)
  OBVIOUS
<1>3. y = [v EXCEPT !.tries = n]
  BY <1>1, <1>2 DEF Tried1
<1>4. /\ y \in WorkerRecs /\ y.turn = v.turn /\ y.msg = v.msg
      /\ y.gen = v.gen /\ y.retry = v.retry /\ y.cmd = v.cmd
      /\ y.beginTask = v.beginTask /\ y.answer = v.answer
      /\ y.retried = v.retried /\ y.about = v.about /\ y.endTask = v.endTask
      /\ y.pc = v.pc /\ y.result = v.result
  BY <1>3 DEF WorkerRecs
<1>5. PICK s \in {"none", "disconnected", "ok", "deleted", "storage", "no turn", "mismatch"} : s = a
  OBVIOUS
<1>6. PICK x : x = [y EXCEPT !.pc = "over"]
  OBVIOUS
<1>x. /\ x \in WorkerRecs /\ x.turn = v.turn /\ x.msg = v.msg
      /\ x.gen = v.gen /\ x.retry = v.retry /\ x.cmd = v.cmd
      /\ x.beginTask = v.beginTask /\ x.answer = v.answer
      /\ x.retried = v.retried /\ x.about = v.about /\ x.endTask = v.endTask
      /\ x.pc = "over"
  BY <1>4, <1>6 DEF WorkerRecs
<1>z. PICK z : z = [x EXCEPT !.result = s]
  OBVIOUS
<1>7. /\ z \in WorkerRecs /\ z.turn = v.turn /\ z.msg = v.msg
      /\ z.gen = v.gen /\ z.retry = v.retry /\ z.cmd = v.cmd
      /\ z.beginTask = v.beginTask /\ z.answer = v.answer
      /\ z.retried = v.retried /\ z.about = v.about /\ z.endTask = v.endTask
      /\ z.pc = "over" /\ z.result = s
  BY <1>x, <1>z DEF WorkerRecs
<1>8. z = TriedOut(v, a)
  BY <1>1, <1>3, <1>5, <1>6, <1>z DEF TriedOut, WorkerRecs
<1>. QED BY <1>2, <1>4, <1>5, <1>7, <1>8 DEF IsTried

\* The worker w was answered o, and q is what became of it.
FinishIs(w, o, q) ==
  /\ ctl' = o.c /\ store' = o.st
  /\ worker' \in [Workers -> WorkerRecs] /\ worker'[w] = q
  /\ \A u \in Workers \ {w} : worker'[u] = worker[u]
  /\ \/ q = Free /\ ~ worker[w].beginTask /\ worker[w].endTask = "none"
     \/ /\ worker[w].beginTask \/ worker[w].endTask # "none"
        /\ IsTried(q, worker[w]) /\ q.pc = "over" /\ q.result = o.answer
     \/ /\ IsTried(q, worker[w]) /\ q.pc = "await" /\ q.result = worker[w].result
        /\ o.answer \notin {"ok", "deleted"}
  /\ gaveUp' \in {gaveUp, gaveUp \cup {worker[w].turn}}
  /\ o.answer \notin {"ok", "deleted"} /\ q.pc # "await" => worker[w].turn \in gaveUp'

\* A worker ends with the answer to its attempt, or has one attempt left.
LEMMA WorkerFinishesIs ==
  ASSUME TypeInv, LedgerInv, NEW w \in Workers, WorkerFinishes(w)
  PROVE  /\ Said(worker[w]) \in Outcomes
         /\ \E o : /\ FinishTold(ctl, o, worker[w].turn, Said(worker[w]), begun)
                   /\ \E q : FinishIs(w, o, q)
<1>1. PICK v : v = worker[w]
  OBVIOUS
<1>2. v.pc = "await" /\ Said(v) \in Outcomes
  BY <1>1 DEF WorkerFinishes, TerminalOf, Said
<1>3. PICK o \in FinishTurn(ctl, store, v.turn, Said(v)) :
        LET y    == [v EXCEPT !.tries = @ + 1]
            done == o.answer \in {"ok", "deleted"}
        IN  /\ ctl' = o.c /\ store' = o.st
            /\ worker' = [worker EXCEPT ![w] =
                 IF done \/ y.tries = 2
                 THEN Settle([y EXCEPT !.pc = "over", !.result = o.answer])
                 ELSE y]
            /\ gaveUp' = IF ~ done /\ y.tries = 2 THEN gaveUp \cup {y.turn} ELSE gaveUp
  BY <1>1 DEF WorkerFinishes, TerminalOf, Said
<1>4. FinishTold(ctl, o, v.turn, Said(v), begun)
  BY <1>2, FinishesTurn DEF LedgerInv, Terms
<1>5. o.answer \in {"ok", "deleted", "storage", "no turn", "mismatch"}
  BY <1>4 DEF FinishTold
<1>6. v \in WorkerRecs /\ worker \in [Workers -> WorkerRecs]
  BY <1>1, RuntimeTypes, WorkerTypes
<1>7. PICK y : y = Tried1(v)
  OBVIOUS
<1>8. PICK z : z = TriedOut(v, o.answer)
  OBVIOUS
<1>9. /\ IsTried(y, v) /\ y.pc = v.pc /\ y.result = v.result
      /\ IsTried(z, v) /\ z.pc = "over" /\ z.result = o.answer
  BY <1>5, <1>6, <1>7, <1>8, TriedIs
<1>10. z = [y EXCEPT !.pc = "over", !.result = o.answer]
  BY <1>6, <1>7, <1>8 DEF Tried1, TriedOut, WorkerRecs
<1>11. PICK over \in BOOLEAN : over <=> (o.answer \in {"ok", "deleted"} \/ y.tries = 2)
  OBVIOUS
<1>12. PICK q : q = IF over THEN Settle(z) ELSE y
  OBVIOUS
<1>13. /\ ctl' = o.c /\ store' = o.st
       /\ worker' = [worker EXCEPT ![w] = q]
       /\ o.answer \notin {"ok", "deleted"} /\ over => gaveUp' = gaveUp \cup {v.turn}
       /\ ~ (o.answer \notin {"ok", "deleted"} /\ over) => gaveUp' = gaveUp
  <2>1. [v EXCEPT !.tries = @ + 1] = y /\ y.turn = v.turn
    BY <1>7, <1>9 DEF Tried1, IsTried
  <2>. QED BY <1>3, <1>10, <1>11, <1>12, <2>1
<1>14. z \in WorkerRecs /\ z.beginTask = v.beginTask /\ z.endTask = v.endTask /\ y \in WorkerRecs
  BY <1>9 DEF IsTried
<1>15. /\ \/ q = Free /\ ~ v.beginTask /\ v.endTask = "none" /\ over
          \/ /\ v.beginTask \/ v.endTask # "none"
             /\ IsTried(q, v) /\ q.pc = "over" /\ q.result = o.answer /\ over
          \/ /\ IsTried(q, v) /\ q.pc = "await" /\ q.result = v.result
             /\ ~ over
       /\ q \in WorkerRecs
  <2>1. CASE ~ over
    <3>1. q = y
      BY <1>12, <2>1
    <3>. QED BY <1>2, <1>9, <1>14, <2>1, <3>1
  <2>2. CASE over /\ ~ v.beginTask /\ v.endTask = "none"
    <3>1. q = Free
      BY <1>9, <1>12, <1>14, <2>2 DEF Settle
    <3>. QED BY <2>2, <3>1, FreeIs
  <2>3. CASE over /\ ~ (~ v.beginTask /\ v.endTask = "none")
    <3>1. q = z
      BY <1>9, <1>12, <1>14, <2>3 DEF Settle
    <3>. QED BY <1>9, <1>14, <2>3, <3>1
  <2>. QED BY <2>1, <2>2, <2>3
<1>16. /\ worker' \in [Workers -> WorkerRecs] /\ worker'[w] = q
       /\ \A u \in Workers \ {w} : worker'[u] = worker[u]
  BY <1>6, <1>13, <1>15
<1>17. ~ over => o.answer \notin {"ok", "deleted"}
  BY <1>11
<1>18. FinishIs(w, o, q)
  BY <1>1, <1>13, <1>15, <1>16, <1>17 DEF FinishIs
<1>. QED BY <1>1, <1>2, <1>4, <1>18

\* persist_terminal_with_retry under the controller lock.
LEMMA WorkerFinishesKeeps ==
  ASSUME TurnsInv, NEW w \in Workers, WorkerFinishes(w)
  PROVE  TurnsInv'
<1>0. /\ TypeInv /\ LedgerInv /\ Awaited
      /\ \A u \in Workers : WorkerOK(u)
      /\ HeardInv
  BY DEF TurnsInv
<1>1. PICK v : v = worker[w]
  OBVIOUS
<1>2. PICK o : FinishTold(ctl, o, v.turn, Said(v), begun) /\ \E q : FinishIs(w, o, q)
  BY <1>0, <1>1, WorkerFinishesIs
<1>3. PICK q : FinishIs(w, o, q)
  BY <1>2
<1>4. /\ v.pc = "await" /\ v.cmd # "open" /\ Said(v) \in Outcomes
      /\ rt' = rt /\ deletion' = deletion /\ begun' = begun /\ submits' = submits
      /\ accepting' = accepting /\ sealed' = sealed
  <2>1. Said(v) \in Outcomes
    BY <1>0, <1>1, WorkerFinishesIs
  <2>. QED BY <1>1, <2>1, TurnAssumption DEF WorkerFinishes, world, Said
<1>5. /\ ctl' = o.c /\ store' = o.st
      /\ worker' \in [Workers -> WorkerRecs] /\ worker'[w] = q
      /\ \A u \in Workers \ {w} : worker'[u] = worker[u]
      /\ gaveUp' \in {gaveUp, gaveUp \cup {v.turn}}
      /\ o.answer \notin {"ok", "deleted"} /\ q.pc # "await" => v.turn \in gaveUp'
  BY <1>1, <1>3 DEF FinishIs
<1>6. v.turn \in begun /\ v.result = "none" /\ v.answer \in {"none", "ok"}
  BY <1>0, <1>1, <1>4 DEF WorkerOK
<1>7. /\ LedgerOK(ctl', store') /\ BegunIn(ctl', store', begun')
      /\ (ctl'.deleted <=> ctl.deleted)
      /\ o.answer = "deleted" => ~ Waiting(ctl')
      /\ o.answer = "ok" => ~ Waiting(ctl') /\ (Waiting(ctl) => ctl.pend.turn = v.turn)
      /\ Waiting(ctl') => /\ o.answer # "ok" /\ Waiting(ctl) /\ ctl'.pend.turn = ctl.pend.turn
                          /\ \/ ctl'.pend.term = ctl.pend.term
                             \/ ctl.pend.turn = v.turn /\ ctl'.pend.term = Said(v)
      /\ Waiting(ctl) /\ ctl.pend.turn # v.turn => ctl'.pend = ctl.pend
  BY <1>2, <1>4, <1>5 DEF FinishTold, LedgerOK, Waiting
<1>8. /\ \/ q = Free /\ ~ v.beginTask /\ v.endTask = "none"
         \/ /\ v.beginTask \/ v.endTask # "none"
            /\ IsTried(q, v) /\ q.pc = "over" /\ q.result = o.answer
         \/ /\ IsTried(q, v) /\ q.pc = "await" /\ q.result = v.result
  BY <1>1, <1>3 DEF FinishIs
<1>9. /\ q.beginTask = v.beginTask /\ q.endTask = v.endTask
      /\ \A i : Holds(q, i) => Holds(v, i)
      /\ \A i, x : Voices(v, i, x) => Voices(q, i, x)
      /\ q = Free \/ (q.turn = v.turn /\ q.answer = v.answer /\ q.about = v.about
                      /\ q.gen = v.gen /\ q.cmd = v.cmd /\ q.retried = v.retried)
      /\ q.pc # "begin" /\ (q = Free => ~ v.beginTask /\ v.endTask = "none")
  <2>1. CASE q = Free /\ ~ v.beginTask /\ v.endTask = "none"
    <3>1. v.beginTask \in BOOLEAN
      BY <1>0, <1>1, WorkerTypes
    <3>. QED BY <2>1, <3>1, FreeIs DEF Holds, Voices
  <2>2. CASE IsTried(q, v) /\ q.pc \in {"over", "await"} /\ (v.beginTask \/ v.endTask # "none")
    <3>1. q # Free
      BY <2>2, FreeIs DEF IsTried
    <3>. QED BY <1>4, <2>2, <3>1 DEF IsTried, Holds, Voices, Said
  <2>3. CASE IsTried(q, v) /\ q.pc = "await"
    <3>1. q # Free
      BY <2>3, FreeIs
    <3>. QED BY <1>4, <2>3, <3>1 DEF IsTried, Holds, Voices, Said
  <2>. QED BY <1>8, <2>1, <2>2, <2>3
<1>10. TypeInv'
  <2>1. gaveUp' \subseteq begun'
    BY <1>0, <1>4, <1>5, <1>6 DEF TypeInv
  <2>. QED BY <1>0, <1>4, <1>5, <2>1 DEF TypeInv
<1>11. LedgerInv'
  BY <1>7 DEF LedgerInv
<1>12. Awaited'
  <2>1. ~ sealed
    BY <1>0, <1>1, <1>4 DEF Awaited
  <2>2. ASSUME Waiting(ctl')
        PROVE  \/ ctl'.pend.turn \in gaveUp'
               \/ \E u \in Workers : worker'[u].pc = "await" /\ worker'[u].turn = ctl'.pend.turn
    <3>1. /\ o.answer \notin {"ok", "deleted"} /\ Waiting(ctl)
          /\ ctl'.pend.turn = ctl.pend.turn /\ gaveUp \subseteq gaveUp'
      BY <1>5, <1>7, <2>2
    <3>2. CASE ctl.pend.turn \in gaveUp
      BY <3>1, <3>2
    <3>3. CASE \E u \in Workers : worker[u].pc = "await" /\ worker[u].turn = ctl.pend.turn
      <4>1. PICK u \in Workers : worker[u].pc = "await" /\ worker[u].turn = ctl.pend.turn
        BY <3>3
      <4>2. CASE u = w
        <5>1. v.turn = ctl.pend.turn
          BY <1>1, <4>1, <4>2
        <5>2. CASE q.pc = "await"
          <6>1. q.turn = v.turn
            BY <1>9, <5>2, FreeIs
          <6>. QED BY <1>5, <3>1, <5>1, <5>2, <6>1
        <5>3. CASE q.pc # "await"
          BY <1>5, <3>1, <5>1, <5>3
        <5>. QED BY <5>2, <5>3
      <4>3. CASE u # w
        BY <1>5, <3>1, <4>1, <4>3
      <4>. QED BY <4>2, <4>3
    <3>. QED BY <1>0, <3>1, <3>2, <3>3 DEF Awaited
  <2>. QED BY <1>4, <2>1, <2>2 DEF Awaited
<1>13. \A u \in Workers : WorkerOK(u)'
  <2>1. WorkerOK(w)'
    <3>1. CASE q = Free
      BY <1>5, <3>1, FreeOK
    <3>2. CASE /\ v.beginTask \/ v.endTask # "none"
               /\ IsTried(q, v) /\ q.pc = "over" /\ q.result = o.answer
      <4>1. WorkerOK(w)
        BY <1>0
      <4>2. o.answer \in {"ok", "deleted"} => ~ Waiting(ctl')
        BY <1>7
      <4>. QED BY <1>1, <1>4, <1>5, <1>6, <3>2, <4>1, <4>2 DEF WorkerOK, IsTried
    <3>3. CASE IsTried(q, v) /\ q.pc = "await" /\ q.result = v.result
      <4>1. WorkerOK(w)
        BY <1>0
      <4>. QED BY <1>1, <1>4, <1>5, <1>6, <3>3, <4>1 DEF WorkerOK, IsTried
    <3>. QED BY <1>8, <3>1, <3>2, <3>3
  <2>2. ASSUME NEW u \in Workers \ {w}
        PROVE  WorkerOK(u)'
    <3>1. WorkerOK(u) /\ worker'[u] = worker[u]
      BY <1>0, <1>5
    <3>2. ~ (Waiting(ctl) /\ ctl.pend.turn = worker[u].turn) =>
            ~ (Waiting(ctl') /\ ctl'.pend.turn = worker[u].turn)
      BY <1>7
    <3>. QED BY <1>4, <3>1, <3>2 DEF WorkerOK
  <2>. QED BY <2>1, <2>2
<1>14. ASSUME rt.alive
       PROVE  HeardInv' /\ Responsible'
  <2>0. /\ (\A u \in Workers : HeardOK(u)) /\ CoordOK /\ ForegroundOK
        /\ \A a, u \in Workers : a # u => PairOK(a, u)
        /\ Responsible
    BY <1>14 DEF TurnsInv, HeardInv
  <2>1. \A u \in Workers : /\ worker'[u].beginTask = worker[u].beginTask
                           /\ worker'[u].endTask = worker[u].endTask
                           /\ (Task(worker'[u]) <=> Task(worker[u]))
                           /\ \A i : Holds(worker'[u], i) => Holds(worker[u], i)
    BY <1>1, <1>5, <1>9 DEF Task
  <2>2. \A u \in Workers : worker[u].beginTask \/ worker[u].endTask # "none" =>
          /\ worker'[u].turn = worker[u].turn /\ worker'[u].answer = worker[u].answer
          /\ worker'[u].about = worker[u].about
    BY <1>1, <1>5, <1>9
  <2>3. rt.coord # w
    BY <1>1, <1>4, <2>0, TurnAssumption DEF CoordOK
  <2>6. \A u \in Workers : HeardOK(u)'
    <3>1. HeardOK(w)'
      <4>1. HeardOK(w)
        BY <2>0
      <4>2. CASE q = Free
        BY <1>5, <4>2, FreeIs DEF HeardOK
      <4>3. CASE q # Free
        BY <1>1, <1>4, <1>5, <1>7, <1>9, <4>1, <4>3 DEF HeardOK, HoldsTerminal
      <4>. QED BY <4>2, <4>3
    <3>2. ASSUME NEW u \in Workers \ {w}
          PROVE  HeardOK(u)'
      <4>1. HeardOK(u) /\ worker'[u] = worker[u]
        BY <1>5, <2>0
      <4>. QED BY <1>4, <1>7, <4>1 DEF HeardOK, HoldsTerminal
    <3>. QED BY <3>1, <3>2
  <2>7. ASSUME NEW a \in Workers, NEW u \in Workers, a # u
        PROVE  PairOK(a, u)'
    <3>1. PairOK(a, u)
      BY <2>0, <2>7
    <3>2. /\ worker'[a].beginTask = worker[a].beginTask /\ worker'[a].endTask = worker[a].endTask
          /\ worker'[u].endTask = worker[u].endTask
          /\ (Task(worker'[a]) <=> Task(worker[a])) /\ (Task(worker'[u]) <=> Task(worker[u]))
          /\ \A i : Holds(worker'[u], i) => Holds(worker[u], i)
      BY <2>1
    <3>3. /\ worker[a].beginTask \/ worker[a].endTask # "none" =>
               /\ worker'[a].turn = worker[a].turn /\ worker'[a].answer = worker[a].answer
               /\ worker'[a].about = worker[a].about
          /\ worker[u].endTask # "none" => worker'[u].about = worker[u].about
      BY <2>2
    <3>. QED BY <3>1, <3>2, <3>3 DEF PairOK
  <2>8. CoordOK'
    <3> SUFFICES ASSUME rt.coord # None
                 PROVE  CoordOK'
      BY <1>4 DEF CoordOK
    <3>1. rt.coord \in Workers \ {w}
      BY <1>0, <2>3, RuntimeTypes
    <3>2. worker'[rt.coord] = worker[rt.coord]
      BY <1>5, <3>1
    <3>3. Own(rt.coord) => Own(rt.coord)'
      <4> SUFFICES ASSUME Own(rt.coord)
                   PROVE  Own(rt.coord)'
        OBVIOUS
      <4>1. Waiting(ctl) /\ ctl.pend.turn = worker[rt.coord].turn /\ ctl.pend.term = None
        BY DEF Own
      <4>2. v.turn # ctl.pend.turn
        BY <1>1, <1>4, <2>3, <4>1 DEF Own, Holds
      <4>3. ctl'.pend = ctl.pend
        BY <1>7, <4>1, <4>2
      <4>4. \A u \in Workers \ {rt.coord} : ~ Holds(worker'[u], worker[rt.coord].turn)
        BY <2>1 DEF Own
      <4>. QED BY <1>4, <3>2, <4>3, <4>4 DEF Own, Waiting, HoldsTerminal
    <3>. QED BY <1>4, <2>0, <3>2, <3>3 DEF CoordOK
  <2>9. ForegroundOK'
    <3>1. rt.generating => worker'[rt.coord] = worker[rt.coord]
      BY <1>0, <1>5, <2>0, <2>3, RuntimeTypes DEF ForegroundOK
    <3>2. (\E u \in Workers : Task(worker'[u])) <=> \E u \in Workers : Task(worker[u])
      BY <2>1
    <3>3. \A u \in Workers : worker'[u].beginTask => worker[u].beginTask
      BY <2>1
    <3>. QED BY <1>4, <1>7, <2>0, <3>1, <3>2, <3>3 DEF ForegroundOK
  <2>10. Responsible'
    <3> SUFFICES ASSUME Waiting(ctl'), ~ rt.shutdown
                 PROVE  \E x \in Outcomes : Answered(x)'
      BY <1>4 DEF Responsible
    <3>1. Waiting(ctl) /\ ctl'.pend.turn = ctl.pend.turn
      BY <1>7
    <3>2. PICK x \in Outcomes : Answered(x)
      BY <2>0, <3>1 DEF Responsible
    <3>3. PICK i : i = ctl.pend.turn
      OBVIOUS
    <3>4. \A u \in Workers : Voices(worker[u], i, x)
      BY <3>2, <3>3 DEF Answered
    <3>5. ctl'.pend.term \in {None, x}
      <4>1. v.turn = i => Said(v) = x
        BY <1>1, <1>4, <3>4 DEF Voices
      <4>2. ctl.pend.term \in {None, x}
        BY <3>2 DEF Answered
      <4>. QED BY <1>7, <3>3, <4>1, <4>2
    <3>6. \A u \in Workers : Voices(worker'[u], i, x)
      BY <1>1, <1>5, <1>9, <3>4
    <3>7. Answered(x)'
      BY <1>4, <2>1, <2>2, <3>1, <3>2, <3>3, <3>5, <3>6 DEF Answered, HoldsTerminal
    <3>. QED BY <3>7
  <2>. QED BY <2>6, <2>7, <2>8, <2>9, <2>10 DEF HeardInv
<1>. QED BY <1>4, <1>10, <1>11, <1>12, <1>13, <1>14 DEF TurnsInv, HeardInv

-----------------------------------------------------------------------------
(***************************************************************************)
(* The specification.                                                      *)
(***************************************************************************)
(* At the start nothing was begun, and nobody waits for anything.           *)
LEMMA InitTurns == Init => TurnsInv /\ DeletedFirst
<1> SUFFICES ASSUME Init
             PROVE  TurnsInv /\ DeletedFirst
  OBVIOUS
<1>1. PICK e : e = EmptyStore
  OBVIOUS
<1>2. e \in Stores /\ e.at = "absent" /\ e.facts = <<>> /\ e.queue = <<>>
  BY <1>1 DEF EmptyStore, Stores
<1>3. PICK c : c = FreshController
  OBVIOUS
<1>4. c \in Controllers /\ c.deleted = FALSE /\ c.bound = FALSE /\ c.pend = None
  BY <1>3 DEF FreshController, Controllers
<1>5. LogOf(e) = <<>>
  BY <1>2, LogTypes
<1>6. SoundLog(LogOf(e))
  BY <1>5 DEF SoundLog, Once, Follows
<1>7. ctl = c /\ store = e /\ begun = {} /\ gaveUp = {} /\ rt = IdleRuntime
      /\ worker = [w \in Workers |-> Free] /\ deletion = "none" /\ submits = 0
      /\ accepting = TRUE /\ sealed = FALSE
  BY <1>1, <1>3 DEF Init
<1>8. LedgerInv
  BY <1>2, <1>4, <1>6, <1>7 DEF LedgerInv, LedgerOK, BegunIn
<1>9. PICK r : r = IdleRuntime
  OBVIOUS
<1>10. /\ MaxSubmits \in Nat /\ None \in Terminals
  BY TurnAssumption DEF Terminals
<1>11. /\ r \in RuntimeRecs /\ r.gen = 0 /\ r.persisting = FALSE /\ r.generating = FALSE
       /\ r.delReq = FALSE /\ r.delPend = FALSE /\ r.shutdown = FALSE /\ r.turn = 0
       /\ r.pterm = None /\ r.coord = None /\ r.next = 1 /\ r.reply = 0 /\ r.started = 0
  BY <1>9, <1>10 DEF IdleRuntime, RuntimeRecs
<1>12. \A w \in Workers : worker[w] = Free
  BY <1>7
<1>13. TypeInv
  <2>1. worker \in [Workers -> WorkerRecs]
    BY <1>7, FreeIs
  <2>2. submits \in 0 .. MaxSubmits
    BY <1>7, <1>10
  <2>. QED BY <1>7, <1>9, <1>11, <2>1, <2>2 DEF TypeInv
<1>14. ~ Waiting(ctl)
  BY <1>4, <1>7 DEF Waiting
<1>15. Awaited
  BY <1>7, <1>14 DEF Awaited
<1>16. \A w \in Workers : WorkerOK(w) /\ HeardOK(w)
  BY <1>12, FreeIs DEF WorkerOK, HeardOK
<1>17. \A w, u \in Workers : PairOK(w, u)
  BY <1>12, FreeIs DEF PairOK, Task
<1>18. CoordOK
  BY <1>7, <1>9, <1>11 DEF CoordOK
<1>19. ForegroundOK
  <2>1. \A w \in Workers : ~ Task(worker[w])
    BY <1>12, FreeIs DEF Task
  <2>. QED BY <1>7, <1>9, <1>11, <1>14, <2>1 DEF ForegroundOK, Task
<1>20. Responsible
  BY <1>14 DEF Responsible
<1>. QED BY <1>7, <1>8, <1>13, <1>15, <1>16, <1>17, <1>18, <1>19, <1>20
     DEF TurnsInv, HeardInv, DeletedFirst

(* Every step keeps the invariant.                                          *)
LEMMA NextTurns ==
  ASSUME TurnsInv, [Next]_vars
  PROVE  TurnsInv'
<1>1. ASSUME NEW text \in Texts, NEW model \in Models, Submit(Message(text, model))
      PROVE  TurnsInv'
  <2>1. PICK m : m = Message(text, model)
    OBVIOUS
  <2>2. m \in Submitted
    BY <2>1 DEF Message, Submitted
  <2>. QED BY <1>1, <2>1, <2>2, SubmitKeeps
<1>2. ASSUME NEW x \in Outcomes, GenerationEnds(x)
      PROVE  TurnsInv'
  BY <1>2, GenerationEndsKeeps
<1>3. CASE ForegroundStep
  BY <1>3, StartGenerationKeeps, DeleteAnsweredKeeps, ScopeClosedKeeps, BeginAnsweredKeeps,
     TerminalAnsweredKeeps, DetachedAnsweredKeeps DEF ForegroundStep
<1>4. CASE RequestDelete
  BY <1>4, RequestDeleteKeeps
<1>5. CASE PrepareForShutdown
  BY <1>5, PrepareForShutdownKeeps
<1>6. CASE Release
  BY <1>6, ReleaseKeeps
<1>7. ASSUME NEW w \in Workers, WorkerStep(w)
      PROVE  TurnsInv'
  BY <1>7, WorkerBeginsKeeps, WorkerFinishesKeeps DEF WorkerStep
<1>8. CASE Delete
  BY <1>8, DeleteKeeps
<1>9. CASE StopAccepting \/ Seal \/ UNCHANGED vars
  BY <1>9, ExitKeeps
<1>. QED BY <1>1, <1>2, <1>3, <1>4, <1>5, <1>6, <1>7, <1>8, <1>9 DEF Next

(* A controller that marked its session deleted stays that way, and the     *)
(* foreground hears of the deletion only behind it.                         *)
LEMMA StaysDeleted ==
  ASSUME TurnsInv, DeletedFirst, [Next]_vars
  PROVE  (ctl.deleted => ctl'.deleted) /\ DeletedFirst'
<1>0. TypeInv /\ LedgerInv /\ \A w \in Workers : WorkerOK(w)
  BY DEF TurnsInv
<1>1. CASE ctl' = ctl /\ deletion' = deletion
  BY <1>1 DEF DeletedFirst
<1>2. CASE ctl' = ctl /\ deletion' \in {"none", "queued"}
  BY <1>2 DEF DeletedFirst
<1>3. CASE DeleteAnswered
  <2>1. ctl' = ctl /\ deletion \in {"ok", "failed"}
        /\ (deletion = "ok" \/ deletion' = "none")
    BY <1>3 DEF DeleteAnswered, durable
  <2>. QED BY <2>1 DEF DeletedFirst
<1>4. CASE Release
  <2>1. ctl' = ctl /\ deletion' \in {"none", "queued"}
    BY <1>4 DEF Release, durable
  <2>. QED BY <1>2, <2>1
<1>5. CASE Delete
  <2>1. PICK o \in DeleteSession(ctl, store) :
          /\ ctl' = o.c
          /\ deletion' = IF ~ rt.alive THEN "none"
                         ELSE IF o.answer = "ok" THEN "ok" ELSE "failed"
    BY <1>5 DEF Delete
  <2>2. (ctl.deleted => o.c = ctl) /\ (o.answer = "ok" => o.c.deleted)
    BY <1>0, DeletesSession DEF LedgerInv
  <2>. QED BY <2>1, <2>2 DEF DeletedFirst
<1>6. ASSUME NEW w \in Workers, WorkerStep(w)
      PROVE  (ctl.deleted => ctl'.deleted) /\ DeletedFirst'
  <2>1. deletion' = deletion
    BY <1>6 DEF WorkerStep, WorkerBegins, WorkerFinishes
  <2>2. CASE WorkerBegins(w)
    <3>1. PICK r : RetryTold(worker[w], r) /\ \E q : BeginIs(w, r, q)
      BY <1>0, <2>2, WorkerBeginsIs
    <3>2. ctl' = r.o.c /\ (r.o.c.deleted <=> ctl.deleted)
      BY <3>1 DEF BeginIs, RetryTold
    <3>. QED BY <2>1, <3>2 DEF DeletedFirst
  <2>3. CASE WorkerFinishes(w)
    <3>1. PICK o : /\ FinishTold(ctl, o, worker[w].turn, Said(worker[w]), begun)
                   /\ \E q : FinishIs(w, o, q)
      BY <1>0, <2>3, WorkerFinishesIs
    <3>2. ctl' = o.c /\ (o.c.deleted <=> ctl.deleted)
      BY <3>1 DEF FinishIs, FinishTold
    <3>. QED BY <2>1, <3>2 DEF DeletedFirst
  <2>. QED BY <1>6, <2>2, <2>3 DEF WorkerStep
<1>7. CASE \E text \in Texts, model \in Models : Submit(Message(text, model))
  <2>1. ctl' = ctl /\ deletion' = deletion
    BY <1>7 DEF Submit, durable
  <2>. QED BY <1>1, <2>1
<1>8. CASE \E x \in Outcomes : GenerationEnds(x)
  <2>1. ctl' = ctl /\ deletion' = deletion
    BY <1>8 DEF GenerationEnds, durable
  <2>. QED BY <1>1, <2>1
<1>9. CASE StartGeneration \/ ScopeClosed \/ PrepareForShutdown \/ RequestDelete
  <2>1. ctl' = ctl /\ (deletion' = deletion \/ deletion' \in {"none", "queued"})
    BY <1>9 DEF StartGeneration, ScopeClosed, PrepareForShutdown, RequestDelete, durable
  <2>. QED BY <1>1, <1>2, <2>1
<1>10. CASE \E w \in Workers : BeginAnswered(w) \/ TerminalAnswered(w) \/ DetachedAnswered(w)
  <2>1. ctl' = ctl /\ deletion' = deletion
    BY <1>10 DEF BeginAnswered, TerminalAnswered, DetachedAnswered, durable
  <2>. QED BY <1>1, <2>1
<1>11. CASE StopAccepting \/ Seal \/ UNCHANGED vars
  <2>1. ctl' = ctl /\ deletion' = deletion
    BY <1>11 DEF StopAccepting, Seal, vars, durable
  <2>. QED BY <1>1, <2>1
<1>. QED BY <1>3, <1>4, <1>5, <1>6, <1>7, <1>8, <1>9, <1>10, <1>11 DEF Next, ForegroundStep

(* The facts of a turn in a sound log: at most one of its user facts and    *)
(* terminals, and exactly one if there is one.                              *)
LEMMA CountsOnce ==
  ASSUME LedgerInv, NEW t, NEW kind \in {"user", "result"}
  PROVE  /\ Count(t, kind) <= 1
         /\ (\E f \in Told(store) : f.turn = t /\ f.kind = kind) => Count(t, kind) = 1
<1> DEFINE S == {i \in DOMAIN History : History[i].turn = t /\ History[i].kind = kind}
<1>1. History = LogOf(store) /\ Once(History)
  BY DEF History, LogOf, LedgerInv, LedgerOK, SoundLog
<1>2. \A i, j \in S : i = j
  BY <1>1 DEF Once
<1>3. Count(t, kind) = Cardinality(S)
  BY DEF Count
<1>n. S = {} => ~ \E f \in Told(store) : f.turn = t /\ f.kind = kind
  BY <1>1 DEF Told, Range
<1> HIDE DEF S
<1>4. CASE S = {}
  <2>1. Count(t, kind) = 0
    BY <1>3, <1>4, FS_EmptySet
  <2>2. ~ \E f \in Told(store) : f.turn = t /\ f.kind = kind
    BY <1>n, <1>4
  <2>. QED BY <2>1, <2>2
<1>5. CASE S # {}
  <2>1. PICK i : i \in S
    BY <1>5
  <2>2. S = {i}
    BY <1>2, <2>1
  <2>3. Count(t, kind) = 1
    BY <1>3, <2>2, FS_Singleton
  <2>. QED BY <2>3
<1>. QED BY <1>4, <1>5

LEMMA TurnsHolds == TurnsInv => TurnInv
<1> SUFFICES ASSUME TurnsInv
             PROVE  TurnInv
  OBVIOUS
<1>1. TypeInv /\ LedgerInv
  BY DEF TurnsInv
<1>2. TypeOK
  <2>1. \A w \in Workers : /\ worker[w].pc \in {"free", "begin", "await", "over"}
                           /\ worker[w].cmd \in Outcomes \cup {"open", "dropped"}
                           /\ worker[w].endTask \in {"none", "terminal", "detached"}
    BY <1>1, WorkerTypes
  <2>2. begun \subseteq Nat
    BY <1>1, RuntimeTypes DEF TypeInv
  <2>. QED BY <1>1, <2>1, <2>2 DEF TypeOK, TypeInv, RuntimeRecs
<1>3. \A t \in 1 .. MaxSubmits : Count(t, "user") <= 1 /\ Count(t, "result") <= 1
  BY <1>1, CountsOnce
<1>4. Follows(History)
  BY <1>1 DEF History, LogOf, LedgerInv, LedgerOK, SoundLog
<1>. QED BY <1>2, <1>3, <1>4 DEF TurnInv, OneTerminalPerTurn, Follows

LEMMA NobodyStranded == TurnsInv => NoStrandedTurn
<1> SUFFICES ASSUME TurnsInv, Quiet, rt.alive, ~ rt.shutdown, Waiting(ctl)
             PROVE  /\ rt.pterm # None /\ rt.pterm.turn = ctl.pend.turn
                    /\ ctl.pend.term \in {None, rt.pterm.term}
  BY DEF NoStrandedTurn, Waiting
<1>1. \A w \in Workers : worker[w].pc = "free" /\ ~ worker[w].beginTask /\ worker[w].endTask = "none"
  BY DEF Quiet, TurnsInv, WorkerOK
<1>2. ~ rt.generating
  <2>1. rt.generating => rt.coord \in Workers /\ Own(rt.coord)
    BY RuntimeTypes DEF TurnsInv, HeardInv, ForegroundOK, CoordOK
  <2>. QED BY <1>1, <2>1 DEF Own
<1>3. PICK x \in Outcomes : Answered(x)
  BY DEF TurnsInv, Responsible
<1>4. rt.pterm = PendingTerminal(ctl.pend.turn, x)
  BY <1>1, <1>2, <1>3 DEF Answered
<1>5. ctl.pend.turn \in 1 .. MaxSubmits
  BY <1>1 DEF TurnsInv, Awaited, TypeInv
<1>6. rt.pterm # None
  BY <1>4, <1>5, TurnAssumption DEF PendingTerminal
<1>. QED BY <1>3, <1>4, <1>6 DEF Answered, PendingTerminal

LEMMA SealedAllEnded == TurnsInv => SealedTurnsEnded
<1> SUFFICES ASSUME TurnsInv, sealed, store.at = "there", NEW t \in begun \ gaveUp
             PROVE  Count(t, "result") = 1
  BY DEF SealedTurnsEnded
<1>1. LedgerInv /\ Awaited
  BY DEF TurnsInv
<1>2. ~ ctl.deleted
  BY <1>1 DEF LedgerInv, LedgerOK
<1>3. ~ (Waiting(ctl) /\ ctl.pend.turn = t)
  BY <1>1 DEF Awaited
<1>4. \E f \in Told(store) : f.turn = t /\ f.kind = "result"
  BY <1>1, <1>2, <1>3 DEF LedgerInv, BegunIn
<1>. QED BY <1>1, <1>4, CountsOnce

-----------------------------------------------------------------------------
(* The runtime, its workers and the durable controller, whatever fails and  *)
(* whoever is gone: the inductive invariant (submit, the workers of         *)
(* TurnPersistenceCoordinator, finish_begin_persistence, finish_terminal,   *)
(* prepare_for_shutdown, request_delete and the release of the entity).     *)
THEOREM TurnsInvariant == Spec => [](TurnsInv /\ DeletedFirst)
<1>1. TurnsInv /\ DeletedFirst /\ [Next]_vars => (TurnsInv /\ DeletedFirst)'
  BY NextTurns, StaysDeleted
<1>. QED BY <1>1, InitTurns, PTL DEF Spec

(* A turn has one user fact and one terminal at most, and its terminal is   *)
(* behind it, however often begin_turn and finish_turn were retried.        *)
THEOREM OneTerminalEach == Spec => []TurnInv
BY TurnsInvariant, TurnsHolds, PTL

(* When nothing runs, a runtime that still takes submits holds the terminal *)
(* the controller waits for, so the next begin_turn can finish that turn.   *)
THEOREM StrandsNoTurn == Spec => []NoStrandedTurn
BY TurnsInvariant, NobodyStranded, PTL

(* A store that shut down has the terminal of every turn it saw begin,      *)
(* unless the session is deleted or a worker failed twice to write it       *)
(* (persist_terminal_with_retry).                                           *)
THEOREM SealsEndedTurns == Spec => []SealedTurnsEnded
BY TurnsInvariant, SealedAllEnded, PTL

(* After a delete that was answered Ok no begin, terminal or retry brings   *)
(* the session back (ChatSessionController's deleted flag).                 *)
THEOREM NothingBringsItBack == Spec => DeletedStaysDeleted
<1>1. TurnsInv /\ DeletedFirst /\ ctl.deleted /\ [Next]_vars => ctl'.deleted
  BY StaysDeleted
<1>2. TurnsInv /\ DeletedFirst /\ deletion = "ok" => ctl.deleted
  BY DEF DeletedFirst
<1>3. TurnsInv /\ ctl.deleted => store.at = "absent"
  BY DEF TurnsInv, LedgerInv, LedgerOK
<1>4. ctl'.deleted <=> (ctl.deleted)'
  OBVIOUS
<1>5. Spec => [][Next]_vars
  BY PTL DEF Spec
<1>. QED BY <1>1, <1>2, <1>3, <1>4, <1>5, TurnsInvariant, PTL DEF DeletedStaysDeleted

-----------------------------------------------------------------------------
(***************************************************************************)
(* The model a log names.                                                  *)
(***************************************************************************)
Naming == {"header", "config"}

\* What s names up to its place i is m.
Named(s, i, m) ==
  \E j \in 1 .. i : /\ s[j].kind \in Naming /\ s[j].val = m
                    /\ \A k \in j + 1 .. i : s[k].kind \notin Naming

\* Every message stands behind the model it was sent to.
Spoken(s) ==
  \A i \in DOMAIN s : /\ s[i].kind = "user" => Named(s, i, s[i].val.model)
                      /\ s[i].kind \in Naming => s[i].val \in Models \cup Selections

LEMMA NameFact ==
  ASSUME NEW s \in Seq(Facts), NEW f \in Facts, NEW r, r = s \o <<f>>
  PROVE  /\ r \in Seq(Facts) /\ Len(r) = Len(s) + 1 /\ r[Len(r)] = f
         /\ \A i \in 1 .. Len(s) : r[i] = s[i]
         /\ \A i \in 1 .. Len(s) : \A m : Named(s, i, m) => Named(r, i, m)
         /\ f.kind \in Naming => Named(r, Len(r), f.val)
         /\ f.kind \notin Naming => \A m : Named(s, Len(s), m) => Named(r, Len(r), m)
<1>1. /\ r \in Seq(Facts) /\ Len(r) = Len(s) + 1 /\ r[Len(s) + 1] = f
      /\ \A i \in 1 .. Len(s) : r[i] = s[i]
      /\ Len(s) \in Nat
  OBVIOUS
<1>2. \A i \in 1 .. Len(s) : \A m : Named(s, i, m) => Named(r, i, m)
  <2> SUFFICES ASSUME NEW i \in 1 .. Len(s), NEW m, Named(s, i, m)
               PROVE  Named(r, i, m)
    OBVIOUS
  <2>1. PICK j \in 1 .. i : /\ s[j].kind \in Naming /\ s[j].val = m
                            /\ \A k \in j + 1 .. i : s[k].kind \notin Naming
    BY DEF Named
  <2>2. \A k \in 1 .. i : r[k] = s[k]
    BY <1>1
  <2>3. /\ r[j].kind \in Naming /\ r[j].val = m
        /\ \A k \in j + 1 .. i : r[k].kind \notin Naming
    BY <2>1, <2>2
  <2>. QED BY <2>3 DEF Named
<1>3. f.kind \in Naming => Named(r, Len(r), f.val)
  BY <1>1 DEF Named
<1>4. ASSUME f.kind \notin Naming, NEW m, Named(s, Len(s), m)
      PROVE  Named(r, Len(r), m)
  <2>1. PICK j \in 1 .. Len(s) : /\ s[j].kind \in Naming /\ s[j].val = m
                                 /\ \A k \in j + 1 .. Len(s) : s[k].kind \notin Naming
    BY <1>4 DEF Named
  <2>2. \A k \in j + 1 .. Len(r) : k \in j + 1 .. Len(s) \/ k = Len(s) + 1
    BY <1>1
  <2>3. \A k \in j + 1 .. Len(r) : r[k].kind \notin Naming
    BY <1>1, <1>4, <2>1, <2>2
  <2>. QED BY <1>1, <2>1, <2>3 DEF Named
<1>. QED BY <1>1, <1>2, <1>3, <1>4

LEMMA NewName ==
  ASSUME NEW s \in Seq(Facts), NEW f \in Facts, f.kind \in Naming
  PROVE  Named(s \o <<f>>, Len(s \o <<f>>), f.val)
<1>1. PICK r : r = s \o <<f>>
  OBVIOUS
<1>2. f.kind \in Naming => Named(r, Len(r), f.val)
  BY <1>1, NameFact
<1>. QED BY <1>1, <1>2

LEMMA SameName ==
  ASSUME NEW s \in Seq(Facts), NEW f \in Facts, f.kind \notin Naming,
         NEW m, Named(s, Len(s), m)
  PROVE  Named(s \o <<f>>, Len(s \o <<f>>), m)
<1>1. PICK r : r = s \o <<f>>
  OBVIOUS
<1>2. f.kind \notin Naming => \A n : Named(s, Len(s), n) => Named(r, Len(r), n)
  BY <1>1, NameFact
<1>. QED BY <1>1, <1>2

LEMMA SpokenFact ==
  ASSUME NEW s \in Seq(Facts), Spoken(s), NEW f \in Facts,
         f.kind = "user" => Named(s, Len(s), f.val.model),
         f.kind \in Naming => f.val \in Models \cup Selections
  PROVE  Spoken(s \o <<f>>)
<1>1. PICK r : r = s \o <<f>>
  OBVIOUS
<1>2. /\ r \in Seq(Facts) /\ Len(r) = Len(s) + 1 /\ r[Len(r)] = f
      /\ \A i \in 1 .. Len(s) : r[i] = s[i]
      /\ \A i \in 1 .. Len(s) : \A m : Named(s, i, m) => Named(r, i, m)
      /\ f.kind \notin Naming => \A m : Named(s, Len(s), m) => Named(r, Len(r), m)
  <2>1. /\ r \in Seq(Facts) /\ Len(r) = Len(s) + 1 /\ r[Len(r)] = f
        /\ \A i \in 1 .. Len(s) : r[i] = s[i]
    BY <1>1, NameFact
  <2>2. \A i \in 1 .. Len(s) : \A m : Named(s, i, m) => Named(r, i, m)
    BY <1>1, NameFact
  <2>3. f.kind \notin Naming => \A m : Named(s, Len(s), m) => Named(r, Len(r), m)
    BY <1>1, NameFact
  <2>. QED BY <2>1, <2>2, <2>3
<1>3. ASSUME NEW i \in DOMAIN r
      PROVE  /\ r[i].kind = "user" => Named(r, i, r[i].val.model)
             /\ r[i].kind \in Naming => r[i].val \in Models \cup Selections
  <2>1. i \in 1 .. Len(s) \/ i = Len(r)
    BY <1>2
  <2>2. CASE i \in 1 .. Len(s)
    BY <1>2, <2>2 DEF Spoken
  <2>3. CASE i = Len(r)
    <3>1. f.kind = "user" => f.kind \notin Naming
      BY DEF Naming
    <3>. QED BY <1>2, <2>3, <3>1
  <2>. QED BY <2>1, <2>2, <2>3
<1>4. Spoken(r)
  BY <1>3 DEF Spoken
<1>. QED BY <1>1, <1>4

LEMMA SpokenUser ==
  ASSUME NEW s \in Seq(Facts), Spoken(s), NEW p \in Pendings,
         p.changed \/ Named(s, Len(s), p.msg.model)
  PROVE  LET r == s \o UserEntries(p)
         IN  r \in Seq(Facts) /\ Spoken(r) /\ Named(r, Len(r), p.msg.model)
<1> DEFINE f == Fact(0, "config", p.msg.model)
           v == IF p.changed THEN s \o <<f>> ELSE s
<1>1. /\ f \in Facts /\ User(p) \in Facts /\ f.kind = "config" /\ f.val = p.msg.model
      /\ User(p).kind = "user" /\ User(p).val = p.msg
      /\ p.msg.model \in Models \cup Selections
  BY EntryTypes DEF Fact, User, Pendings
<1>2. s \o UserEntries(p) = v \o <<User(p)>>
  <2>1. <<f>> \in Seq(Facts) /\ <<User(p)>> \in Seq(Facts)
    BY <1>1
  <2>2. CASE p.changed
    <3>1. s \o (<<f>> \o <<User(p)>>) = (s \o <<f>>) \o <<User(p)>>
      BY <1>1, <2>1, ConcatAssociative
    <3>. QED BY <2>2, <3>1 DEF UserEntries
  <2>3. CASE ~ p.changed
    <3>1. <<>> \o <<User(p)>> = <<User(p)>>
      BY <2>1, ConcatEmptySeq
    <3>. QED BY <2>3, <3>1 DEF UserEntries
  <2>. QED BY <2>2, <2>3
<1>3. "config" \in Naming /\ "user" \notin Naming
  BY DEF Naming
<1>4. v \in Seq(Facts) /\ Spoken(v) /\ Named(v, Len(v), p.msg.model)
  <2>1. CASE p.changed
    <3>1. PICK r : r = s \o <<f>>
      OBVIOUS
    <3> HIDE DEF f
    <3>2. r \in Seq(Facts) /\ Named(r, Len(r), p.msg.model)
      <4>1. r \in Seq(Facts)
        BY <1>1, <3>1
      <4>2. Named(r, Len(r), f.val)
        BY <1>1, <1>3, <3>1, NewName
      <4>. QED BY <1>1, <4>1, <4>2
    <3>3. Spoken(r)
      BY <1>1, <3>1, SpokenFact
    <3>. QED BY <2>1, <3>1, <3>2, <3>3
  <2>2. CASE ~ p.changed
    BY <2>2
  <2>. QED BY <2>1, <2>2
<1> HIDE DEF v, f
<1>5. PICK r : r = v \o <<User(p)>>
  OBVIOUS
<1>6. r \in Seq(Facts) /\ Named(r, Len(r), p.msg.model)
  <2>1. r \in Seq(Facts)
    BY <1>1, <1>4, <1>5
  <2>2. \A m : Named(v, Len(v), m) => Named(r, Len(r), m)
    BY <1>1, <1>3, <1>4, <1>5, SameName
  <2>. QED BY <1>4, <2>1, <2>2
<1>7. Spoken(r)
  BY <1>1, <1>3, <1>4, <1>5, SpokenFact
<1>. QED BY <1>2, <1>5, <1>6, <1>7

LEMMA SpokenFirst ==
  ASSUME NEW p \in Pendings
  PROVE  LET r == CreatedEntries(p)
         IN  /\ r \in Seq(Facts) /\ Spoken(r) /\ Named(r, Len(r), p.msg.model)
             /\ r # <<>> /\ r[1].kind = "header"
<1> DEFINE f == Fact(0, "header", p.msg.model)
<1>1. /\ f \in Facts /\ f.kind = "header" /\ f.val = p.msg.model
      /\ p.msg.model \in Models \cup Selections /\ UserEntries(p) \in Seq(Facts)
  BY EntryTypes DEF Fact, Pendings
<1> HIDE DEF f
<1>2. PICK s : s = <<f>>
  OBVIOUS
<1>3. s \in Seq(Facts) /\ Len(s) = 1 /\ s[1] = f
  BY <1>1, <1>2
<1>4. Named(s, Len(s), p.msg.model) /\ Spoken(s)
  BY <1>1, <1>3 DEF Named, Spoken, Naming
<1>5. PICK r : r = s \o UserEntries(p)
  OBVIOUS
<1>6. r \in Seq(Facts) /\ Spoken(r) /\ Named(r, Len(r), p.msg.model)
  BY <1>3, <1>4, <1>5, SpokenUser
<1>7. Len(r) >= 1 /\ r[1] = f
  <2>1. Len(s) \in Nat /\ Len(UserEntries(p)) \in Nat /\ Len(r) = Len(s) + Len(UserEntries(p))
    BY <1>1, <1>3, <1>5, ConcatProperties, LenProperties
  <2>2. r[1] = s[1]
    BY <1>1, <1>3, <1>5, <2>1, ConcatProperties
  <2>. QED BY <1>3, <2>1, <2>2
<1>. QED BY <1>1, <1>2, <1>5, <1>6, <1>7 DEF CreatedEntries, f

LEMMA CutLog ==
  ASSUME NEW s \in Seq(Facts), NEW t \in Seq(Facts)
  PROVE  /\ Spoken(s \o t) => Spoken(s)
         /\ SoundLog(s \o t) => SoundLog(s)
         /\ Range(s) \subseteq Range(s \o t)
<1>1. PICK r : r = s \o t
  OBVIOUS
<1>2. /\ r \in Seq(Facts) /\ \A i \in 1 .. Len(s) : r[i] = s[i]
      /\ DOMAIN s = 1 .. Len(s) /\ DOMAIN s \subseteq DOMAIN r
      /\ Len(s) \in Nat
  BY <1>1
<1>3. ASSUME Spoken(r)
      PROVE  Spoken(s)
  <2> SUFFICES ASSUME NEW i \in DOMAIN s
               PROVE  /\ s[i].kind = "user" => Named(s, i, s[i].val.model)
                      /\ s[i].kind \in Naming => s[i].val \in Models \cup Selections
    BY DEF Spoken
  <2>1. /\ r[i].kind = "user" => Named(r, i, r[i].val.model)
        /\ r[i].kind \in Naming => r[i].val \in Models \cup Selections
        /\ r[i] = s[i]
    BY <1>2, <1>3 DEF Spoken
  <2>2. \A m : Named(r, i, m) => Named(s, i, m)
    <3>1. \A k \in 1 .. i : r[k] = s[k]
      BY <1>2
    <3>. QED BY <1>2, <3>1 DEF Named
  <2>. QED BY <2>1, <2>2
<1>4. ASSUME SoundLog(r)
      PROVE  SoundLog(s)
  <2>1. Once(s)
    <3> SUFFICES ASSUME NEW i \in DOMAIN s, NEW j \in DOMAIN s, s[i].turn = s[j].turn,
                        s[i].kind = s[j].kind, s[i].kind \in {"user", "result"}
                 PROVE  i = j
      BY DEF Once
    <3>1. r[i] = s[i] /\ r[j] = s[j] /\ i \in DOMAIN r /\ j \in DOMAIN r
      BY <1>2
    <3>. QED BY <1>4, <3>1 DEF SoundLog, Once
  <2>2. Follows(s)
    <3> SUFFICES ASSUME NEW i \in DOMAIN s, s[i].kind = "result"
                 PROVE  \E j \in 1 .. i - 1 : s[j].turn = s[i].turn
      BY DEF Follows
    <3>1. r[i] = s[i] /\ i \in DOMAIN r
      BY <1>2
    <3>2. PICK j \in 1 .. i - 1 : r[j].turn = r[i].turn
      BY <1>4, <3>1 DEF SoundLog, Follows
    <3>3. r[j] = s[j]
      BY <1>2
    <3>. QED BY <3>1, <3>2, <3>3
  <2>. QED BY <2>1, <2>2 DEF SoundLog
<1>5. Range(s) \subseteq Range(r)
  BY <1>2 DEF Range
<1>. QED BY <1>1, <1>3, <1>4, <1>5
(* What the highest of a set of numbers is.                                 *)
LEMMA MaxIs ==
  ASSUME NEW T, T \subseteq Nat, NEW j \in T, \A y \in T : j >= y
  PROVE  Sets!Max(T) = j
<1>1. \A x \in T : (\A y \in T : x >= y) => x = j
  OBVIOUS
<1>. QED BY <1>1 DEF Sets!Max

LEMMA MaxOf ==
  ASSUME NEW n \in Nat, NEW T, T \subseteq 0 .. n, T # {}
  PROVE  Sets!Max(T) \in T /\ \A y \in T : Sets!Max(T) >= y
<1> DEFINE U == {n - x : x \in T}
<1>1. U \subseteq Nat /\ U # {}
  <2>1. \A x \in T : n - x \in Nat
    <3>1. \A x \in 0 .. n : n - x \in Nat
      OBVIOUS
    <3>. QED BY <3>1
  <2>. QED BY <2>1
<1>0. (\A y \in U : \E x \in T : y = n - x) /\ (\A x \in T : n - x \in U)
  OBVIOUS
<1> HIDE DEF U
<1>2. PICK u \in U : \A y \in U : ~ (<<y, u>> \in OpToRel(<, Nat))
  BY <1>1, WFMin, NatLessThanWellFounded
<1>3. \A y \in U : u <= y
  <2> SUFFICES ASSUME NEW y \in U, y < u PROVE FALSE
    BY <1>1
  <2>1. <<y, u>> \in OpToRel(<, Nat)
    BY <1>1 DEF OpToRel
  <2>. QED BY <2>1, <1>2
<1>4. PICK x \in T : u = n - x
  BY <1>0
<1>5. \A y \in T : x >= y
  <2> TAKE y \in T
  <2>1. u <= n - y
    BY <1>0, <1>3
  <2>2. x \in Int /\ y \in Int
    OBVIOUS
  <2>. QED BY <2>1, <2>2, <1>4
<1>6. T \subseteq Nat
  OBVIOUS
<1>. QED BY <1>5, <1>6, MaxIs

LEMMA ModelIs ==
  ASSUME NEW s \in Seq(Facts)
  PROVE  /\ \A m : Named(s, Len(s), m) => ModelOf(s) = m
         /\ \A i \in 1 .. Len(s) : \A m : Named(s, i, m) => ModelOf(SubSeq(s, 1, i)) = m
         /\ s # <<>> /\ s[1].kind = "header" => Named(s, Len(s), ModelOf(s))
<1>1. ASSUME NEW r \in Seq(Facts), NEW m, Named(r, Len(r), m)
      PROVE  ModelOf(r) = m
  <2> DEFINE T == {i \in DOMAIN r : r[i].kind \in {"header", "config"}}
  <2>1. PICK j \in 1 .. Len(r) : /\ r[j].kind \in Naming /\ r[j].val = m
                                 /\ \A k \in j + 1 .. Len(r) : r[k].kind \notin Naming
    BY <1>1 DEF Named
  <2>2. T \subseteq Nat /\ j \in T /\ \A y \in T : j >= y
    BY <2>1 DEF Naming
  <2> HIDE DEF T
  <2>3. Sets!Max(T) = j
    BY <2>2, MaxIs
  <2>. QED BY <2>1, <2>3 DEF ModelOf, T
<1>2. ASSUME NEW i \in 1 .. Len(s), NEW m, Named(s, i, m)
      PROVE  ModelOf(SubSeq(s, 1, i)) = m
  <2>1. PICK r : r = SubSeq(s, 1, i)
    OBVIOUS
  <2>2. r \in Seq(Facts) /\ Len(r) = i /\ \A k \in 1 .. i : r[k] = s[k]
    BY <2>1
  <2>3. PICK j \in 1 .. i : /\ s[j].kind \in Naming /\ s[j].val = m
                            /\ \A k \in j + 1 .. i : s[k].kind \notin Naming
    BY <1>2 DEF Named
  <2>4. Named(r, Len(r), m)
    BY <2>2, <2>3 DEF Named
  <2>. QED BY <1>1, <2>1, <2>2, <2>4
<1>3. ASSUME s # <<>>, s[1].kind = "header"
      PROVE  Named(s, Len(s), ModelOf(s))
  <2> DEFINE T == {i \in DOMAIN s : s[i].kind \in {"header", "config"}}
  <2>1. T \subseteq 0 .. Len(s) /\ 1 \in T /\ Len(s) \in Nat /\ T \subseteq 1 .. Len(s)
    BY <1>3
  <2>2. PICK j : j = Sets!Max(T)
    OBVIOUS
  <2>3. j \in T /\ \A y \in T : j >= y
    <3> HIDE DEF T
    <3>. QED BY <2>1, <2>2, MaxOf
  <2>4. ModelOf(s) = s[j].val
    BY <2>2 DEF ModelOf
  <2>5. \A k \in j + 1 .. Len(s) : s[k].kind \notin Naming
    BY <2>1, <2>3 DEF Naming
  <2>. QED BY <2>1, <2>3, <2>4, <2>5 DEF Named, Naming
<1>. QED BY <1>1, <1>2, <1>3

-----------------------------------------------------------------------------
(***************************************************************************)
(* The model the controller takes for the session's.                       *)
(***************************************************************************)
Headed(st) == st.facts # <<>> /\ st.facts[1].kind = "header"

\* The log of a session with turns up to n.
LogSpeaks(st, n) ==
  /\ Spoken(LogOf(st)) /\ st.at # "gone" /\ (st.at # "absent" => Headed(st))
  /\ \A f \in Told(st) : f.turn <= n

\* What the controller knows of the model its log names.
SaysModel(c, st) ==
  LET s == LogOf(st)
  IN  /\ c.bound => st.at = "there"
      /\ c.bound /\ (c.pend = None \/ c.pend.user) => Named(s, Len(s), c.model)
      /\ c.pend # None /\ ~ c.pend.user =>
           \/ User(c.pend) \in Told(st) /\ Named(s, Len(s), c.pend.msg.model)
           \/ /\ c.bound /\ User(c.pend) \notin Told(st) /\ Named(s, Len(s), c.model)
              /\ c.pend.changed \/ c.model = c.pend.msg.model
           \/ ~ c.bound /\ st.at = "absent"

Speaks(c, st, n) == LedgerOK(c, st) /\ ~ c.deleted /\ LogSpeaks(st, n) /\ SaysModel(c, st)

LEMMA HeadedKept ==
  ASSUME NEW s \in Stores, NEW r \in Stores, Headed(s), r.facts # <<>>,
         NEW new \in Seq(Facts), LogOf(r) = LogOf(s) \/ LogOf(r) = LogOf(s) \o new
  PROVE  Headed(r)
<1>1. /\ s.facts \in Seq(Facts) /\ s.queue \in Seq(Facts) /\ LogOf(s) \in Seq(Facts)
      /\ r.facts \in Seq(Facts) /\ r.queue \in Seq(Facts)
  BY LogTypes
<1>2. Len(s.facts) >= 1 /\ Len(r.facts) >= 1
  BY <1>1 DEF Headed
<1>3. LogOf(s)[1] = s.facts[1] /\ LogOf(r)[1] = r.facts[1] /\ Len(LogOf(s)) >= 1
  <2>1. \A t \in Seq(Facts), u \in Seq(Facts) :
          Len(t) >= 1 => (t \o u)[1] = t[1] /\ Len(t \o u) >= 1
    <3> TAKE t \in Seq(Facts), u \in Seq(Facts)
    <3>1. Len(t) \in Nat /\ Len(u) \in Nat
      BY LenProperties
    <3>. QED BY <3>1, ConcatProperties
  <2>. QED BY <1>1, <1>2, <2>1 DEF LogOf
<1>4. LogOf(r)[1] = LogOf(s)[1]
  BY <1>1, <1>3
<1>. QED BY <1>3, <1>4 DEF Headed

\* A call that keeps the log.
LEMMA SpeaksKept ==
  ASSUME NEW c, NEW s, NEW r, NEW n, Speaks(c, s, n), Kept(s, r),
         s.facts # <<>> => r.facts # <<>>
  PROVE  Speaks(c, r, n)
<1>1. /\ s \in Stores /\ r \in Stores /\ LogOf(r) = LogOf(s) /\ Told(r) = Told(s)
      /\ LedgerOK(c, s) /\ LedgerOK(c, r)
  BY LedgerTypes, LedgerKept DEF Speaks, Kept, SameLog, Told
<1>2. r.at = s.at \/ (s.at = "hidden" /\ r.at = "there")
  BY DEF Speaks, LogSpeaks, Kept
<1>3. <<>> \in Seq(Facts)
  OBVIOUS
<1>4. r.at # "absent" => Headed(r)
  <2>1. r.at # "absent" => Headed(s) /\ r.facts # <<>>
    BY <1>2 DEF Speaks, LogSpeaks, Headed
  <2>. QED BY <1>1, <1>3, <2>1, HeadedKept
<1>5. LogSpeaks(r, n)
  BY <1>1, <1>2, <1>4 DEF Speaks, LogSpeaks
<1>6. SaysModel(c, r)
  <2>1. c.bound => s.at = "there" /\ r.at = "there"
    BY <1>2 DEF Speaks, SaysModel
  <2>2. s.at = "absent" => r.at = "absent"
    BY <1>2
  <2>. QED BY <1>1, <2>1, <2>2 DEF Speaks, SaysModel
<1>. QED BY <1>1, <1>5, <1>6 DEF Speaks

-----------------------------------------------------------------------------
(* begin_turn.                                                              *)
TryingSays(c, st, n) == Speaks(c, st, n) /\ Trying(c, st, {}) /\ c.pend.turn <= n

LEMMA TryingSaysTypes ==
  ASSUME NEW c, NEW st, NEW n, TryingSays(c, st, n)
  PROVE  /\ c \in Controllers /\ st \in Stores /\ LedgerOK(c, st) /\ Trying(c, st, {})
         /\ c.deleted = FALSE /\ c.bound \in BOOLEAN /\ c.pend # None /\ c.pend \in Pendings
         /\ c.pend.user = FALSE /\ c.pend.term = None /\ (c.bound <=> c.pend.created)
         /\ LogSpeaks(st, n) /\ SaysModel(c, st) /\ LogOf(st) \in Seq(Facts)
         /\ Told(st) = Range(LogOf(st))
         /\ \A f \in Told(st) : f.turn = c.pend.turn => f = User(c.pend)
         /\ User(c.pend).turn = c.pend.turn
BY TryingTypes, LogTypes DEF TryingSays, Speaks, Told

LEMMA StillSays ==
  ASSUME NEW c, NEW s, NEW r, NEW n, TryingSays(c, s, n), Kept(s, r),
         s.facts # <<>> => r.facts # <<>>
  PROVE  TryingSays(c, r, n)
BY SpeaksKept, StillTrying DEF TryingSays

LEMMA NotBegun ==
  ASSUME NEW c, NEW st, NEW n, NEW o, Speaks(c, st, n), o = Out(c, st, "storage")
  PROVE  Speaks(o.c, o.st, n) /\ o.answer # "used"
BY DEF Out

LEMMA BegunModel ==
  ASSUME NEW c \in Controllers, c.pend # None, NEW st
  PROVE  Begun(c, st).c.model = c.pend.msg.model /\ Begun(c, st).answer = "ok"
<1> DEFINE p == [c.pend EXCEPT !.user = TRUE]
           d == [c EXCEPT !.pend = p, !.model = c.pend.msg.model]
<1>1. Begun(c, st) = Out(d, st, "ok")
  BY DEF Begun
<1> HIDE DEF p
<1>2. d.model = c.pend.msg.model
  BY DEF Controllers
<1> HIDE DEF d
<1>. QED BY <1>1, <1>2 DEF Out

LEMMA SaysBegun ==
  ASSUME NEW c, NEW st, NEW n, TryingSays(c, st, n), c.bound, st.queue = <<>>,
         User(c.pend) \in Told(st), Named(LogOf(st), Len(LogOf(st)), c.pend.msg.model),
         NEW o, o = Begun(c, st)
  PROVE  Speaks(o.c, o.st, n) /\ o.answer # "used"
<1>1. st.at = "there"
  BY TryingSaysTypes DEF SaysModel
<1>2. Tried(c, o, {})
  BY <1>1, TryingSaysTypes, TriedOnce
<1>3. /\ o.st = st /\ o.c.model = c.pend.msg.model /\ o.answer = "ok"
      /\ o.c.pend \in Pendings /\ o.c.pend.user = TRUE /\ o.c.bound
  <2>1. c \in Controllers /\ c.pend # None /\ c.bound
    BY TryingSaysTypes
  <2>2. /\ o.st = st /\ o.c.pend \in Pendings /\ o.c.pend.user = TRUE /\ o.c.bound = c.bound
    BY <2>1, BegunIs
  <2>3. o.c.model = c.pend.msg.model /\ o.answer = "ok"
    BY <2>1, BegunModel
  <2>. QED BY <2>1, <2>2, <2>3
<1>4. SaysModel(o.c, o.st)
  BY <1>1, <1>3 DEF SaysModel
<1>. QED BY <1>2, <1>3, <1>4, TryingSaysTypes DEF Speaks, Tried

LEMMA SaysAppended ==
  ASSUME NEW c, NEW st, NEW n \in Nat, TryingSays(c, st, n), c.bound, st.queue = <<>>,
         User(c.pend) \notin Told(st), NEW o \in AppendPendingUser(c, st)
  PROVE  Speaks(o.c, o.st, n) /\ o.answer # "used"
<1>1. PICK a \in AppendCall(st, UserEntries(c.pend)) :
        o = IF a.ok THEN Begun(c, a.st) ELSE Out(c, a.st, "storage")
  BY DEF AppendPendingUser
<1>2. /\ c \in Controllers /\ st \in Stores /\ c.pend \in Pendings /\ LedgerOK(c, st)
      /\ c.pend # None /\ c.pend.user = FALSE
  BY TryingSaysTypes
<1>3. UserEntries(c.pend) \in Seq(Facts)
  BY <1>2, EntryTypes
<1>4. /\ a.st \in Stores /\ a.ok \in BOOLEAN /\ a.st.at = st.at
      /\ SameLog(st, a.st) \/ LogOf(a.st) = LogOf(st) \o UserEntries(c.pend)
      /\ a.ok => LogOf(a.st) = LogOf(st) \o UserEntries(c.pend) /\ a.st.queue = <<>>
      /\ st.at # "there" => ~ a.ok /\ SameLog(st, a.st)
      /\ st.facts # <<>> => a.st.facts # <<>>
  BY <1>2, <1>3, AppendCalls
<1>5. CASE SameLog(st, a.st) /\ ~ a.ok
  <2>1. Kept(st, a.st)
    BY <1>4, <1>5 DEF Kept
  <2>2. TryingSays(c, a.st, n)
    BY <1>4, <2>1, StillSays
  <2>3. o = Out(c, a.st, "storage")
    BY <1>1, <1>5
  <2>. QED BY <2>2, <2>3, NotBegun DEF TryingSays
<1>6. CASE LogOf(a.st) = LogOf(st) \o UserEntries(c.pend) /\ st.at = "there"
  <2>1. /\ Named(LogOf(st), Len(LogOf(st)), c.model)
        /\ c.pend.changed \/ c.model = c.pend.msg.model
        /\ Spoken(LogOf(st)) /\ LogOf(st) \in Seq(Facts) /\ Headed(st)
    BY <1>2, <1>6, TryingSaysTypes DEF SaysModel, LogSpeaks
  <2>2. /\ Spoken(LogOf(a.st))
        /\ Named(LogOf(a.st), Len(LogOf(a.st)), c.pend.msg.model)
    BY <1>2, <1>6, <2>1, SpokenUser
  <2>3. /\ SoundLog(LogOf(a.st))
        /\ Told(a.st) = Told(st) \cup Changed(c.pend) \cup {User(c.pend)}
    <3>1. SoundLog(LogOf(st)) /\ Told(st) = Range(LogOf(st))
      BY <1>2, LedgerTypes
    <3>2. \A f \in Told(st) : f.turn # c.pend.turn
      BY TryingSaysTypes
    <3>. QED BY <1>2, <1>6, <3>1, <3>2, PutUser DEF Told
  <2>4. \A f \in Changed(c.pend) : f.turn = 0
    BY DEF Changed, Fact
  <2>5. \A f \in Told(a.st) : f.turn <= n
    <3>1. /\ c.pend.turn <= n /\ User(c.pend).turn = c.pend.turn
          /\ \A f \in Told(st) : f.turn <= n
      BY TryingSaysTypes DEF LogSpeaks, TryingSays
    <3>. QED BY <2>3, <2>4, <3>1
  <2>6. LogSpeaks(a.st, n)
    <3>1. Headed(a.st)
      BY <1>2, <1>3, <1>4, <1>6, <2>1, HeadedKept DEF Headed
    <3>. QED BY <1>4, <1>6, <2>2, <2>5, <3>1 DEF LogSpeaks
  <2>7. SaysModel(c, a.st) /\ User(c.pend) \in Told(a.st)
    BY <1>2, <1>4, <1>6, <2>2, <2>3 DEF SaysModel
  <2>8. LedgerOK(c, a.st)
    <3>1. \A f \in Told(a.st) : f.turn = c.pend.turn => f = User(c.pend)
      <4>1. c.pend.turn # 0
        BY <1>2, ControllerTypes
      <4>. QED BY <2>3, <2>4, <4>1, TryingSaysTypes
    <3>2. PendOK(c.pend, Told(a.st))
      BY <1>2, <3>1, TryingSaysTypes DEF PendOK
    <3>. QED BY <1>2, <1>4, <1>6, <2>3, <3>2, TryingSaysTypes DEF LedgerOK
  <2>9. TryingSays(c, a.st, n)
    BY <2>6, <2>7, <2>8, TryingSaysTypes DEF TryingSays, Speaks, Trying, BegunIn
  <2>10. CASE a.ok
    <3>1. o = Begun(c, a.st)
      BY <1>1, <2>10
    <3>. QED BY <1>4, <2>2, <2>7, <2>9, <2>10, <3>1, SaysBegun
  <2>11. CASE ~ a.ok
    <3>1. o = Out(c, a.st, "storage")
      BY <1>1, <2>11
    <3>. QED BY <2>9, <3>1, NotBegun DEF TryingSays
  <2>. QED BY <2>10, <2>11
<1>. QED BY <1>4, <1>5, <1>6

LEMMA MarkedSays ==
  ASSUME NEW c, NEW st, NEW n, TryingSays(c, st, n), ~ c.bound, st.at = "there",
         User(c.pend) \in Told(st), NEW d, d = MarkCreated(c)
  PROVE  TryingSays(d, st, n) /\ d.bound /\ User(d.pend) \in Told(st)
         /\ Named(LogOf(st), Len(LogOf(st)), d.pend.msg.model)
<1>1. c \in Controllers /\ c.pend # None /\ c.pend \in Pendings
  BY TryingSaysTypes
<1>2. /\ d \in Controllers /\ d.deleted = c.deleted /\ d.bound = TRUE
      /\ d.pend \in Pendings /\ d.pend # None
      /\ d.pend.turn = c.pend.turn /\ d.pend.user = c.pend.user
      /\ d.pend.term = c.pend.term /\ d.pend.created = TRUE
      /\ User(d.pend) = User(c.pend)
  BY <1>1, MarkCreatedIs
<1>3. d.pend.msg = c.pend.msg
  BY <1>2 DEF User, Fact
<1>4. Named(LogOf(st), Len(LogOf(st)), c.pend.msg.model)
  BY TryingSaysTypes DEF SaysModel
<1>5. SaysModel(d, st)
  BY <1>2, <1>3, <1>4, TryingSaysTypes DEF SaysModel
<1>6. LedgerOK(d, st)
  <2>1. PendOK(d.pend, Told(st))
    BY <1>2, TryingSaysTypes DEF PendOK
  <2>. QED BY <1>2, <2>1, TryingSaysTypes DEF LedgerOK
<1>7. Trying(d, st, {})
  BY <1>2, <1>6, TryingSaysTypes DEF Trying, BegunIn
<1>. QED BY <1>2, <1>3, <1>4, <1>5, <1>6, <1>7, TryingSaysTypes DEF TryingSays, Speaks

LEMMA SaysCreated ==
  ASSUME NEW c, NEW st, NEW n \in Nat, TryingSays(c, st, n), ~ c.bound, st.at = "absent",
         NEW o \in CreatePendingSession(c, st)
  PROVE  Speaks(o.c, o.st, n) /\ o.answer # "used"
<1>1. PICK a \in CreateCall(st, CreatedEntries(c.pend)) :
        o = IF a.ok THEN Begun(MarkCreated(c), a.st) ELSE Out(c, a.st, "storage")
  BY DEF CreatePendingSession
<1>2. /\ c \in Controllers /\ st \in Stores /\ c.pend \in Pendings /\ LedgerOK(c, st)
      /\ c.deleted = FALSE /\ c.pend # None /\ c.pend.user = FALSE /\ c.pend.term = None
      /\ ~ c.pend.created
  BY TryingSaysTypes
<1>3. CreatedEntries(c.pend) \in Seq(Facts) /\ (st.at = "absent" => st.queue = <<>>)
  BY <1>2, EntryTypes DEF LedgerOK
<1>4. /\ a.st \in Stores /\ a.ok \in BOOLEAN
      /\ \/ SameLog(st, a.st) /\ Alike(st, a.st) /\ ~ a.ok
         \/ /\ st.at = "absent" /\ LogOf(a.st) = CreatedEntries(c.pend) /\ a.st.queue = <<>>
            /\ a.st.at \in {"hidden", "there"}
            /\ a.ok => a.st.at = "there"
  BY <1>2, <1>3, CreateCalls
<1>5. CASE SameLog(st, a.st) /\ Alike(st, a.st) /\ ~ a.ok
  <2>1. Kept(st, a.st) /\ (st.facts # <<>> => a.st.facts # <<>>)
    BY <1>4, <1>5 DEF Kept, Alike
  <2>2. TryingSays(c, a.st, n)
    BY <2>1, StillSays
  <2>3. o = Out(c, a.st, "storage")
    BY <1>1, <1>5
  <2>. QED BY <2>2, <2>3, NotBegun DEF TryingSays
<1>6. CASE /\ LogOf(a.st) = CreatedEntries(c.pend) /\ a.st.queue = <<>>
           /\ a.st.at \in {"hidden", "there"}
           /\ a.ok => a.st.at = "there"
  <2>1. /\ SoundLog(LogOf(a.st))
        /\ Told(a.st) = {Fact(0, "header", c.pend.msg.model)} \cup Changed(c.pend) \cup {User(c.pend)}
    BY <1>2, <1>6, PutFirst DEF Told
  <2>2. Fact(0, "header", c.pend.msg.model).turn = 0 /\ \A f \in Changed(c.pend) : f.turn = 0
    BY DEF Changed, Fact
  <2>3. c.pend.turn # 0 /\ c.pend.turn <= n /\ User(c.pend).turn = c.pend.turn
    BY <1>2, ControllerTypes, TryingSaysTypes DEF TryingSays
  <2>4. /\ \A f \in Told(a.st) : f.turn = c.pend.turn => f = User(c.pend)
        /\ \A f \in Told(a.st) : f.turn <= n
    BY <2>1, <2>2, <2>3
  <2>5. /\ Spoken(LogOf(a.st)) /\ Named(LogOf(a.st), Len(LogOf(a.st)), c.pend.msg.model)
        /\ Headed(a.st)
    <3>1. LogOf(a.st) = a.st.facts
      BY <1>4, <1>6, LogTypes
    <3>. QED BY <1>2, <1>6, <3>1, SpokenFirst DEF Headed
  <2>6. LogSpeaks(a.st, n) /\ SaysModel(c, a.st)
    BY <1>2, <1>6, <2>1, <2>4, <2>5 DEF LogSpeaks, SaysModel
  <2>7. LedgerOK(c, a.st)
    <3>1. PendOK(c.pend, Told(a.st))
      BY <1>2, <2>4 DEF PendOK
    <3>. QED BY <1>2, <1>4, <1>6, <2>1, <3>1 DEF LedgerOK
  <2>8. TryingSays(c, a.st, n)
    BY <1>2, <2>3, <2>6, <2>7 DEF TryingSays, Speaks, Trying, BegunIn
  <2>9. CASE a.ok
    <3>1. PICK d : d = MarkCreated(c)
      OBVIOUS
    <3>2. /\ TryingSays(d, a.st, n) /\ d.bound /\ User(d.pend) \in Told(a.st)
          /\ Named(LogOf(a.st), Len(LogOf(a.st)), d.pend.msg.model)
      BY <1>6, <2>1, <2>8, <2>9, <3>1, MarkedSays
    <3>3. o = Begun(d, a.st)
      BY <1>1, <2>9, <3>1
    <3>. QED BY <1>6, <3>2, <3>3, SaysBegun
  <2>10. CASE ~ a.ok
    <3>1. o = Out(c, a.st, "storage")
      BY <1>1, <2>10
    <3>. QED BY <2>8, <3>1, NotBegun DEF TryingSays
  <2>. QED BY <2>9, <2>10
<1>. QED BY <1>4, <1>5, <1>6

LEMMA SaysResumedUser ==
  ASSUME NEW c, NEW st, NEW n \in Nat, TryingSays(c, st, n), c.bound, st.queue = <<>>,
         NEW o \in ResumeUser(c, st)
  PROVE  Speaks(o.c, o.st, n) /\ o.answer # "used"
<1>1. PICK a \in LoadCall(st) :
        o \in IF ~ a.ok THEN {Out(c, a.st, "storage")}
              ELSE IF Has(a.st.facts, User(c.pend)) THEN {Begun(c, a.st)}
              ELSE AppendPendingUser(c, a.st)
  BY DEF ResumeUser
<1>2. st \in Stores
  BY TryingSaysTypes
<1>3. /\ a.st \in Stores /\ a.ok \in BOOLEAN /\ SameLog(st, a.st) /\ Alike(st, a.st)
      /\ a.ok => st.at = "there"
  BY <1>2, LoadCalls
<1>4. TryingSays(c, a.st, n) /\ a.st.queue = <<>>
  <2>1. Kept(st, a.st) /\ (st.facts # <<>> => a.st.facts # <<>>)
    BY <1>3 DEF Kept, Alike
  <2>. QED BY <1>3, <2>1, StillSays DEF Alike
<1>5. Has(a.st.facts, User(c.pend)) <=> User(c.pend) \in Told(a.st)
  <2>1. LogOf(a.st) = a.st.facts
    BY <1>3, <1>4, LogTypes
  <2>. QED BY <2>1 DEF Has, Told, Range
<1>6. CASE ~ a.ok
  <2>1. o = Out(c, a.st, "storage")
    BY <1>1, <1>6
  <2>. QED BY <1>4, <2>1, NotBegun DEF TryingSays
<1>7. CASE a.ok /\ Has(a.st.facts, User(c.pend))
  <2>1. o = Begun(c, a.st)
    BY <1>1, <1>7
  <2>2. Named(LogOf(a.st), Len(LogOf(a.st)), c.pend.msg.model)
    <3>1. SaysModel(c, a.st) /\ c.pend # None /\ ~ c.pend.user /\ c.bound
      BY <1>4, TryingSaysTypes
    <3>. QED BY <1>5, <1>7, <3>1 DEF SaysModel
  <2>. QED BY <1>4, <1>5, <1>7, <2>1, <2>2, SaysBegun
<1>8. CASE a.ok /\ ~ Has(a.st.facts, User(c.pend))
  <2>1. o \in AppendPendingUser(c, a.st)
    BY <1>1, <1>8
  <2>. QED BY <1>4, <1>5, <1>8, <2>1, SaysAppended
<1>. QED BY <1>6, <1>7, <1>8

LEMMA SaysResumedCreated ==
  ASSUME NEW c, NEW st, NEW n \in Nat, TryingSays(c, st, n), ~ c.bound, st.queue = <<>>,
         st.at \in {"absent", "there"}, NEW o \in ResumeCreated(c, st)
  PROVE  Speaks(o.c, o.st, n) /\ o.answer # "used"
<1>1. PICK a \in LoadCall(st) :
        o \in IF a.ok THEN ResumeUser(MarkCreated(c), a.st)
              ELSE IF NotFound(a.st) THEN CreatePendingSession(c, a.st)
              ELSE {Out(c, a.st, "storage")}
  BY DEF ResumeCreated
<1>2. st \in Stores
  BY TryingSaysTypes
<1>3. /\ a.st \in Stores /\ a.ok \in BOOLEAN /\ SameLog(st, a.st) /\ Alike(st, a.st)
      /\ a.ok => st.at = "there"
  BY <1>2, LoadCalls
<1>4. TryingSays(c, a.st, n) /\ a.st.queue = <<>> /\ a.st.at = st.at
  <2>1. Kept(st, a.st) /\ (st.facts # <<>> => a.st.facts # <<>>)
    BY <1>3 DEF Kept, Alike
  <2>. QED BY <1>3, <2>1, StillSays DEF Alike
<1>5. CASE a.ok
  <2>1. PICK d : d = MarkCreated(c)
    OBVIOUS
  <2>2. User(c.pend) \in Told(a.st)
    <3>1. SaysModel(c, a.st) /\ c.pend # None /\ ~ c.pend.user
      BY <1>4, TryingSaysTypes
    <3>. QED BY <1>3, <1>4, <1>5, <3>1 DEF SaysModel
  <2>3. TryingSays(d, a.st, n) /\ d.bound
    BY <1>3, <1>4, <1>5, <2>1, <2>2, MarkedSays
  <2>4. o \in ResumeUser(d, a.st)
    BY <1>1, <1>5, <2>1
  <2>. QED BY <1>4, <2>3, <2>4, SaysResumedUser
<1>6. CASE ~ a.ok /\ NotFound(a.st)
  <2>1. o \in CreatePendingSession(c, a.st) /\ a.st.at = "absent"
    BY <1>1, <1>4, <1>6 DEF NotFound
  <2>. QED BY <1>4, <2>1, SaysCreated
<1>7. CASE ~ a.ok /\ ~ NotFound(a.st)
  <2>1. o = Out(c, a.st, "storage")
    BY <1>1, <1>7
  <2>. QED BY <1>4, <2>1, NotBegun DEF TryingSays
<1>. QED BY <1>5, <1>6, <1>7

LEMMA SaysResumed ==
  ASSUME NEW c, NEW st, NEW n \in Nat, TryingSays(c, st, n), NEW o \in ResumePendingStart(c, st)
  PROVE  Speaks(o.c, o.st, n) /\ o.answer # "used"
<1>1. PICK a \in FlushCall(st) :
        o \in IF ~ a.ok THEN {Out(c, a.st, "storage")}
              ELSE IF c.pend.created THEN ResumeUser(c, a.st)
              ELSE ResumeCreated(c, a.st)
  BY DEF ResumePendingStart
<1>2. st \in Stores /\ (c.bound <=> c.pend.created)
  BY TryingSaysTypes
<1>3. /\ a.st \in Stores /\ a.ok \in BOOLEAN /\ SameLog(st, a.st)
      /\ a.ok => /\ a.st.queue = <<>> /\ a.st.at \in {"absent", "there"}
                 /\ st.at \in {"hidden", "there"} => a.st.at = "there"
                 /\ st.at \in {"absent", "gone"} => a.st.at = "absent"
      /\ ~ a.ok => a.st.at = st.at
      /\ st.facts # <<>> => a.st.facts # <<>>
  BY <1>2, FlushCalls
<1>4. TryingSays(c, a.st, n)
  <2>1. Kept(st, a.st)
    BY <1>2, <1>3 DEF Kept, Stores
  <2>. QED BY <1>3, <2>1, StillSays
<1>5. CASE ~ a.ok
  <2>1. o = Out(c, a.st, "storage")
    BY <1>1, <1>5
  <2>. QED BY <1>4, <2>1, NotBegun DEF TryingSays
<1>6. CASE a.ok /\ c.pend.created
  <2>1. o \in ResumeUser(c, a.st)
    BY <1>1, <1>6
  <2>. QED BY <1>2, <1>3, <1>4, <1>6, <2>1, SaysResumedUser
<1>7. CASE a.ok /\ ~ c.pend.created
  <2>1. o \in ResumeCreated(c, a.st)
    BY <1>1, <1>7
  <2>. QED BY <1>2, <1>3, <1>4, <1>7, <2>1, SaysResumedCreated
<1>. QED BY <1>5, <1>6, <1>7

LEMMA StartedModel ==
  ASSUME NEW c \in Controllers, NEW t, NEW m, NEW d, d = Started(c, t, m)
  PROVE  /\ d.model = c.model /\ d.pend.msg = m
         /\ d.pend.changed <=> c.bound /\ c.model # m.model
<1>1. PICK p : p = PendingTurn(t, m, c.bound, c.bound /\ c.model # m.model)
  OBVIOUS
<1>2. p.msg = m /\ (p.changed <=> c.bound /\ c.model # m.model)
  BY <1>1 DEF PendingTurn
<1>3. d = [c EXCEPT !.pend = p]
  BY <1>1 DEF Started, WithPend
<1>4. d.pend = p /\ d.model = c.model
  BY <1>3 DEF Controllers
<1>. QED BY <1>2, <1>4

LEMMA SaysStarted ==
  ASSUME NEW c, NEW st, NEW n \in Nat, Speaks(c, st, n), c.pend = None,
         NEW t \in Turns, t <= n, NEW m \in Messages, \A f \in Told(st) : f.turn # t,
         NEW o \in StartTurn(c, st, t, m)
  PROVE  /\ Speaks(o.c, o.st, n) /\ o.answer # "used"
         /\ o.c.pend # None /\ o.c.pend.turn = t
<1>1. PICK d : d = Started(c, t, m)
  OBVIOUS
<1>2. o \in IF c.bound THEN AppendPendingUser(d, st) ELSE CreatePendingSession(d, st)
  BY <1>1 DEF StartTurn, WithPend, Started
<1>3. c \in Controllers /\ st \in Stores /\ c.deleted = FALSE /\ LedgerOK(c, st)
  BY LedgerTypes, ControllerTypes DEF Speaks
<1>4. /\ d \in Controllers /\ d.deleted = FALSE /\ d.bound = c.bound
      /\ d.pend \in Pendings /\ d.pend # None
      /\ d.pend.turn = t /\ d.pend.user = FALSE
      /\ d.pend.term = None /\ d.pend.created = c.bound
  BY <1>1, <1>3, StartedIs
<1>5. /\ d.model = c.model /\ d.pend.msg = m
      /\ d.pend.changed <=> c.bound /\ c.model # m.model
  BY <1>1, <1>3, StartedModel
<1>6. PendOK(d.pend, Told(st))
  BY <1>4 DEF PendOK
<1>7. LedgerOK(d, st) /\ st.queue = <<>> /\ (~ c.bound => st.at = "absent")
  BY <1>3, <1>4, <1>6 DEF LedgerOK
<1>8. User(d.pend) \notin Told(st)
  BY <1>4 DEF User, Fact
<1>9. SaysModel(d, st)
  BY <1>4, <1>5, <1>7, <1>8 DEF Speaks, SaysModel
<1>10. TryingSays(d, st, n)
  BY <1>4, <1>7, <1>9 DEF TryingSays, Trying, Speaks, BegunIn
<1>11. CASE c.bound
  <2>1. o \in AppendPendingUser(d, st)
    BY <1>2, <1>11
  <2>2. Tried(d, o, {})
    BY <1>4, <1>7, <1>10, <1>11, <2>1, AppendsUser DEF TryingSays
  <2>. QED BY <1>4, <1>7, <1>8, <1>10, <1>11, <2>1, <2>2, SaysAppended DEF Tried
<1>12. CASE ~ c.bound
  <2>1. o \in CreatePendingSession(d, st)
    BY <1>2, <1>12
  <2>2. Tried(d, o, {})
    BY <1>4, <1>10, <1>12, <2>1, CreatesSession DEF TryingSays
  <2>. QED BY <1>4, <1>7, <1>10, <1>12, <2>1, <2>2, SaysCreated DEF Tried
<1>. QED BY <1>11, <1>12

\* begin_turn with an id behind those in the log, or the one that is pending.
LEMMA SaysBegins ==
  ASSUME NEW c, NEW st, NEW n \in Nat, Speaks(c, st, n),
         NEW t \in Turns, t <= n, c.pend = None => \A f \in Told(st) : f.turn # t,
         c.pend # None => ~ c.pend.user /\ c.pend.turn = t,
         NEW m \in Messages, NEW o \in BeginTurn(c, st, t, m)
  PROVE  /\ Speaks(o.c, o.st, n) /\ o.answer # "used"
         /\ o.c.pend # None => o.c.pend.turn = t
         /\ o.c.pend = None => c.pend = None /\ Told(o.st) = Told(st)
<1>0. c \in Controllers /\ st \in Stores /\ ~ c.deleted /\ c.bound \in BOOLEAN /\ LedgerOK(c, st)
  BY LedgerTypes, ControllerTypes DEF Speaks
<1>1. CASE c.pend # None /\ c.pend.msg = m
  <2>1. o \in ResumePendingStart(c, st)
    BY <1>0, <1>1 DEF BeginTurn
  <2>2. TryingSays(c, st, n)
    BY <1>0, <1>1 DEF TryingSays, Trying, BegunIn
  <2>3. Tried(c, o, {})
    BY <2>1, <2>2, ResumesStart DEF TryingSays
  <2>4. Speaks(o.c, o.st, n) /\ o.answer # "used"
    BY <2>1, <2>2, SaysResumed
  <2>5. o.c.pend # None /\ o.c.pend.turn = c.pend.turn
    BY <2>3 DEF Tried
  <2>. QED BY <1>1, <2>4, <2>5
<1>2. CASE c.pend # None /\ c.pend.msg # m
  <2>1. o = Out(c, st, "in progress")
    BY <1>0, <1>2 DEF BeginTurn
  <2>. QED BY <1>2, <2>1 DEF Out
<1>3. CASE c.pend = None /\ ~ c.bound
  <2>1. o \in StartTurn(c, st, t, m)
    BY <1>0, <1>3 DEF BeginTurn
  <2>. QED BY <1>3, <2>1, SaysStarted
<1>4. CASE c.pend = None /\ c.bound
  <2>1. PICK a \in LoadCall(st) :
          o \in IF ~ a.ok THEN {Out(c, a.st, "storage")}
                ELSE IF HasTurn(a.st.facts, t) THEN {Out(c, a.st, "used")}
                ELSE StartTurn(c, a.st, t, m)
    BY <1>0, <1>4 DEF BeginTurn
  <2>2. /\ Kept(st, a.st) /\ (st.facts # <<>> => a.st.facts # <<>>) /\ Told(a.st) = Told(st)
        /\ a.ok \in BOOLEAN /\ a.st.queue = st.queue /\ a.st \in Stores
    BY <1>0, LoadCalls DEF Kept, Alike, SameLog, Told
  <2>3. Speaks(c, a.st, n)
    BY <2>2, SpeaksKept
  <2>4. ~ HasTurn(a.st.facts, t)
    <3>1. LogOf(a.st) = a.st.facts
      BY <1>0, <1>4, <2>2, LogTypes DEF LedgerOK
    <3>. QED BY <1>4, <2>2, <3>1 DEF HasTurn, Told, Range
  <2>5. CASE ~ a.ok
    <3>1. o = Out(c, a.st, "storage")
      BY <2>1, <2>5
    <3>2. o.c = c /\ o.st = a.st /\ o.answer = "storage"
      BY <3>1 DEF Out
    <3>. QED BY <1>4, <2>2, <2>3, <3>2
  <2>6. CASE a.ok
    <3>1. o \in StartTurn(c, a.st, t, m)
      BY <2>1, <2>4, <2>6
    <3>. QED BY <1>4, <2>2, <2>3, <3>1, SaysStarted
  <2>. QED BY <2>2, <2>5, <2>6
<1>. QED BY <1>0, <1>1, <1>2, <1>3, <1>4

-----------------------------------------------------------------------------
(* finish_turn.                                                             *)
LEMMA SaysEnded ==
  ASSUME NEW c, NEW st, NEW n \in Nat, Speaks(c, st, n), Ending(c, st, {}), st.queue = <<>>,
         \E f \in Told(st) : f.turn = c.pend.turn /\ f.kind = "result",
         NEW o, o = Out(WithPend(c, None), st, "ok")
  PROVE  Speaks(o.c, o.st, n)
<1>1. PICK d : d = WithPend(c, None)
  OBVIOUS
<1>2. /\ c \in Controllers /\ c.bound = TRUE /\ c.pend # None /\ c.pend.user = TRUE
  BY EndingTypes
<1>3. d.model = c.model /\ d.pend = None /\ d.bound = c.bound
  BY <1>1, <1>2 DEF WithPend, Controllers
<1>4. o.c = d /\ o.st = st
  BY <1>1 DEF Out
<1>5. SaysModel(d, st)
  BY <1>2, <1>3 DEF Speaks, SaysModel
<1>6. LedgerOK(o.c, o.st) /\ ~ o.c.deleted
  BY EndedOnce, EndingTypes DEF Ended
<1>. QED BY <1>4, <1>5, <1>6 DEF Speaks

LEMMA SaysTerminal ==
  ASSUME NEW c, NEW st, NEW n \in Nat, Speaks(c, st, n), Ending(c, st, {}), st.queue = <<>>,
         c.pend.turn <= n,
         \A f \in Told(st) : f.turn = c.pend.turn => f.kind # "result",
         NEW o \in AppendPendingTerminal(c, st)
  PROVE  Speaks(o.c, o.st, n)
<1>1. PICK f : f = Result(c.pend.turn, c.pend.term)
  OBVIOUS
<1>2. PICK a \in AppendCall(st, <<f>>) :
        o = IF a.ok THEN Out(WithPend(c, None), a.st, "ok") ELSE Out(c, a.st, "storage")
  BY <1>1 DEF AppendPendingTerminal, WithPend
<1>3. /\ c \in Controllers /\ st \in Stores /\ LedgerOK(c, st)
      /\ c.deleted = FALSE /\ c.bound = TRUE /\ c.pend # None /\ c.pend.user = TRUE
      /\ f \in Facts /\ f.turn = c.pend.turn /\ f.kind = "result"
  BY <1>1, EndingTypes
<1>4. <<f>> \in Seq(Facts)
  BY <1>3
<1>5. /\ a.st \in Stores /\ a.ok \in BOOLEAN /\ a.st.at = st.at
      /\ SameLog(st, a.st) \/ LogOf(a.st) = LogOf(st) \o <<f>>
      /\ a.ok => LogOf(a.st) = LogOf(st) \o <<f>> /\ a.st.queue = <<>>
      /\ st.at # "there" => ~ a.ok /\ SameLog(st, a.st)
      /\ st.facts # <<>> => a.st.facts # <<>>
  BY <1>3, <1>4, AppendCalls
<1>6. Ended(c, o, {})
  BY AppendsTerminal
<1>7. CASE SameLog(st, a.st) /\ ~ a.ok
  <2>1. Kept(st, a.st)
    BY <1>5, <1>7 DEF Kept
  <2>2. o = Out(c, a.st, "storage")
    BY <1>2, <1>7
  <2>. QED BY <1>5, <2>1, <2>2, SpeaksKept, NotBegun
<1>8. CASE LogOf(a.st) = LogOf(st) \o <<f>> /\ st.at = "there"
  <2>1. /\ Named(LogOf(st), Len(LogOf(st)), c.model) /\ Spoken(LogOf(st)) /\ Headed(st)
        /\ LogOf(st) \in Seq(Facts)
    BY <1>3, <1>8, LogTypes DEF Speaks, SaysModel, LogSpeaks
  <2>2. /\ Spoken(LogOf(a.st)) /\ Named(LogOf(a.st), Len(LogOf(a.st)), c.model)
        /\ Told(a.st) = Told(st) \cup {f}
    <3>1. f.kind \notin Naming /\ f.kind # "user"
      BY <1>3 DEF Naming
    <3>2. PICK s : s = LogOf(st)
      OBVIOUS
    <3>3. PICK r : r = LogOf(a.st)
      OBVIOUS
    <3>4. Spoken(r) /\ Named(r, Len(r), c.model)
      <4>1. s \in Seq(Facts) /\ Spoken(s) /\ Named(s, Len(s), c.model) /\ r = s \o <<f>>
        BY <1>8, <2>1, <3>2, <3>3
      <4>2. Spoken(r)
        BY <1>3, <3>1, <4>1, SpokenFact
      <4>3. Named(r, Len(r), c.model)
        BY <1>3, <3>1, <4>1, SameName
      <4>. QED BY <4>2, <4>3
    <3>5. Range(r) = Range(s) \cup {f}
      <4>1. SoundLog(s) /\ Told(st) = Range(s)
        BY <1>3, <3>2, LedgerTypes
      <4>2. \E g \in Range(s) : g.turn = f.turn
        <5>1. \E g \in Told(st) : g.turn = c.pend.turn
          BY <1>8, EndingTypes
        <5>. QED BY <1>3, <4>1, <5>1
      <4>3. \A g \in Range(s) : g.turn = f.turn => g.kind # f.kind
        BY <1>3, <4>1
      <4>4. r = s \o <<f>>
        BY <1>8, <3>2, <3>3
      <4>. QED BY <1>3, <4>1, <4>2, <4>3, <4>4, PutFact
    <3>. QED BY <3>2, <3>3, <3>4, <3>5 DEF Told
  <2>3. LogSpeaks(a.st, n)
    <3>1. Headed(a.st)
      BY <1>3, <1>4, <1>5, <1>8, <2>1, HeadedKept DEF Headed
    <3>. QED BY <1>3, <1>5, <1>8, <2>2, <3>1 DEF LogSpeaks, Speaks
  <2>4. SaysModel(c, a.st)
    BY <1>3, <1>5, <1>8, <2>2 DEF SaysModel
  <2>5. CASE a.ok
    <3>1. PICK d : d = WithPend(c, None)
      OBVIOUS
    <3>2. o = Out(d, a.st, "ok") /\ d.model = c.model /\ d.pend = None /\ d.bound = c.bound
      BY <1>2, <1>3, <2>5, <3>1 DEF WithPend, Controllers
    <3>3. o.c = d /\ o.st = a.st
      BY <3>2 DEF Out
    <3>4. SaysModel(d, a.st)
      BY <1>3, <1>5, <1>8, <2>2, <3>2 DEF SaysModel
    <3>. QED BY <1>3, <1>6, <2>3, <3>3, <3>4 DEF Speaks, Ended
  <2>6. CASE ~ a.ok
    <3>1. o.c = c /\ o.st = a.st
      BY <1>2, <2>6 DEF Out
    <3>. QED BY <1>3, <1>6, <2>3, <2>4, <3>1 DEF Speaks, Ended
  <2>. QED BY <1>5, <2>5, <2>6
<1>. QED BY <1>5, <1>7, <1>8

LEMMA SaysFinishes ==
  ASSUME NEW c, NEW st, NEW n \in Nat, Speaks(c, st, n), Waiting(c), c.pend.turn <= n,
         NEW x \in Terms, NEW o \in FinishTurn(c, st, c.pend.turn, x)
  PROVE  Speaks(o.c, o.st, n)
<1>0. /\ c \in Controllers /\ st \in Stores /\ ~ c.deleted /\ LedgerOK(c, st) /\ x # None
      /\ c.pend # None /\ c.pend.user /\ c.bound
  BY LedgerTypes, TurnAssumption, RestoreAssumption DEF Speaks, LedgerOK, Waiting, Terms
<1>1. CASE c.pend.term = None
  <2>1. PICK d : d = WithPend(c, WithTerm(c.pend, x))
    OBVIOUS
  <2>2. o \in AppendPendingTerminal(d, st)
    BY <1>0, <1>1, <2>1 DEF FinishTurn, WithPend, WithTerm
  <2>3. /\ d \in Controllers /\ d.deleted = c.deleted /\ d.bound = c.bound
        /\ d.pend \in Pendings /\ d.pend # None
        /\ d.pend.turn = c.pend.turn /\ d.pend.user = c.pend.user
        /\ d.pend.term = x /\ d.pend.created = c.pend.created
    BY <1>0, <2>1, TermIs
  <2>4. d.model = c.model
    BY <1>0, <2>1 DEF WithPend, Controllers
  <2>5. /\ \A f \in Told(st) : f.turn = c.pend.turn => f.kind # "result"
        /\ st.queue = <<>>
    BY <1>0, <1>1 DEF LedgerOK, PendOK
  <2>6. PendOK(d.pend, Told(st))
    BY <1>0, <2>3, <2>5 DEF PendOK
  <2>7. LedgerOK(d, st)
    BY <1>0, <2>3, <2>5, <2>6 DEF LedgerOK
  <2>8. Ending(d, st, {})
    BY <1>0, <2>3, <2>7 DEF Ending, Waiting, BegunIn
  <2>9. Speaks(d, st, n)
    BY <1>0, <2>3, <2>4, <2>7 DEF Speaks, SaysModel
  <2>. QED BY <2>2, <2>3, <2>5, <2>8, <2>9, SaysTerminal
<1>2. CASE c.pend.term # None /\ c.pend.term # x
  <2>1. o = Out(c, st, "mismatch")
    BY <1>0, <1>2 DEF FinishTurn
  <2>. QED BY <2>1 DEF Out
<1>3. CASE c.pend.term # None /\ c.pend.term = x
  <2>1. PICK r : r = Result(c.pend.turn, c.pend.term)
    OBVIOUS
  <2>2. Ending(c, st, {})
    BY <1>0, <1>3 DEF Ending, Waiting, BegunIn
  <2>3. o \in ResumePendingTerminal(c, st)
    BY <1>0, <1>3 DEF FinishTurn
  <2>4. PICK a \in FlushCall(st) :
          o \in IF ~ a.ok THEN {Out(c, a.st, "storage")}
                ELSE UNION {IF ~ l.ok THEN {Out(c, l.st, "storage")}
                            ELSE IF Has(l.st.facts, r) THEN {Out(WithPend(c, None), l.st, "ok")}
                            ELSE AppendPendingTerminal(c, l.st) : l \in LoadCall(a.st)}
    BY <2>1, <2>3 DEF ResumePendingTerminal, WithPend
  <2>5. /\ a.st \in Stores /\ a.ok \in BOOLEAN /\ Kept(st, a.st)
        /\ a.ok => a.st.queue = <<>>
        /\ st.facts # <<>> => a.st.facts # <<>>
    BY <1>0, FlushCalls DEF Kept, Stores
  <2>6. Speaks(c, a.st, n) /\ Ending(c, a.st, {})
    BY <2>2, <2>5, SpeaksKept, StillEnding
  <2>7. CASE ~ a.ok
    <3>1. o = Out(c, a.st, "storage")
      BY <2>4, <2>7
    <3>. QED BY <2>6, <3>1, NotBegun
  <2>8. CASE a.ok
    <3>1. PICK l \in LoadCall(a.st) :
            o \in IF ~ l.ok THEN {Out(c, l.st, "storage")}
                  ELSE IF Has(l.st.facts, r) THEN {Out(WithPend(c, None), l.st, "ok")}
                  ELSE AppendPendingTerminal(c, l.st)
      BY <2>4, <2>8
    <3>2. /\ l.st \in Stores /\ l.ok \in BOOLEAN /\ Kept(a.st, l.st)
          /\ l.st.queue = <<>> /\ (a.st.facts # <<>> => l.st.facts # <<>>)
      BY <2>5, <2>8, LoadCalls DEF Kept, Alike
    <3>3. Speaks(c, l.st, n) /\ Ending(c, l.st, {})
      BY <2>6, <3>2, SpeaksKept, StillEnding
    <3>4. Has(l.st.facts, r) <=> r \in Told(l.st)
      <4>1. LogOf(l.st) = l.st.facts
        BY <3>2, LogTypes
      <4>. QED BY <4>1 DEF Has, Told, Range
    <3>5. /\ \A f \in Told(l.st) : f.turn = c.pend.turn /\ f.kind = "result" => f = r
          /\ r.turn = c.pend.turn /\ r.kind = "result"
      BY <2>1, <3>3, EndingTypes
    <3>6. CASE ~ l.ok
      <4>1. o = Out(c, l.st, "storage")
        BY <3>1, <3>6
      <4>. QED BY <3>3, <4>1, NotBegun
    <3>7. CASE l.ok /\ Has(l.st.facts, r)
      <4>1. o = Out(WithPend(c, None), l.st, "ok")
        BY <3>1, <3>7
      <4>2. \E f \in Told(l.st) : f.turn = c.pend.turn /\ f.kind = "result"
        BY <3>4, <3>5, <3>7
      <4>. QED BY <3>2, <3>3, <4>1, <4>2, SaysEnded
    <3>8. CASE l.ok /\ ~ Has(l.st.facts, r)
      <4>1. o \in AppendPendingTerminal(c, l.st)
        BY <3>1, <3>8
      <4>2. \A f \in Told(l.st) : f.turn = c.pend.turn => f.kind # "result"
        BY <3>4, <3>5, <3>8
      <4>. QED BY <3>2, <3>3, <4>1, <4>2, SaysTerminal
    <3>. QED BY <3>2, <3>6, <3>7, <3>8
  <2>. QED BY <2>5, <2>7, <2>8
<1>. QED BY <1>1, <1>2, <1>3

-----------------------------------------------------------------------------
(***************************************************************************)
(* The conversation over several runs takes the controller's operations    *)
(* from the same module.                                                   *)
(***************************************************************************)
LEMMA SameWords ==
  /\ \A t, k, v : Restored!Fact(t, k, v) = Fact(t, k, v)
  /\ \A t, m : Restored!Message(t, m) = Message(t, m)
  /\ \A s, f : Restored!Has(s, f) = Has(s, f)
  /\ \A s, t : Restored!HasTurn(s, t) = HasTurn(s, t)
  /\ \A s, b : Restored!Answers(s, b) = Answers(s, b)
  /\ \A c, s, a : Restored!Out(c, s, a) = Out(c, s, a)
  /\ \A s : Restored!NotFound(s) = NotFound(s)
  /\ \A s, f : Restored!Written(s, f) = Written(s, f)
  /\ \A t, m, b, d : Restored!PendingTurn(t, m, b, d) = PendingTurn(t, m, b, d)
  /\ Restored!EmptyStore = EmptyStore /\ Restored!FreshController = FreshController
BY DEF Restored!Fact, Fact, Restored!Message, Message, Restored!Has, Has,
       Restored!HasTurn, HasTurn, Restored!Answers, Answers, Restored!Out, Out,
       Restored!NotFound, NotFound, Restored!Written, Written,
       Restored!PendingTurn, PendingTurn, Restored!EmptyStore, EmptyStore,
       Restored!FreshController, FreshController

LEMMA SameFailing == \A s, S : Restored!Failing(s, S) = Failing(s, S)
BY SameWords DEF Restored!Failing, Failing

LEMMA SameCalls ==
  /\ \A s, f : Restored!AppendCall(s, f) = AppendCall(s, f)
  /\ \A s, f : Restored!CreateCall(s, f) = CreateCall(s, f)
  /\ \A s : Restored!FlushCall(s) = FlushCall(s)
  /\ \A s : Restored!LoadCall(s) = LoadCall(s)
<1>1. \A s, f : Restored!AppendCall(s, f) = AppendCall(s, f)
  BY SameWords, SameFailing DEF Restored!AppendCall, AppendCall
<1>2. \A s, f : Restored!CreateCall(s, f) = CreateCall(s, f)
  BY SameWords, SameFailing DEF Restored!CreateCall, CreateCall
<1>3. \A s : Restored!FlushCall(s) = FlushCall(s)
  BY SameWords, SameFailing DEF Restored!FlushCall, FlushCall
<1>4. \A s : Restored!LoadCall(s) = LoadCall(s)
  BY SameWords, SameFailing DEF Restored!LoadCall, LoadCall
<1>. QED BY <1>1, <1>2, <1>3, <1>4

LEMMA SameEntries ==
  /\ \A p : Restored!User(p) = User(p)
  /\ \A p : Restored!UserEntries(p) = UserEntries(p)
  /\ \A p : Restored!CreatedEntries(p) = CreatedEntries(p)
  /\ \A t, x : Restored!Result(t, x) = Result(t, x)
  /\ \A c, s : Restored!Begun(c, s) = Begun(c, s)
  /\ \A c : Restored!MarkCreated(c) = MarkCreated(c)
<1>1. \A p : Restored!User(p) = User(p)
  BY SameWords DEF Restored!User, User
<1>2. \A p : Restored!UserEntries(p) = UserEntries(p)
  BY SameWords, <1>1 DEF Restored!UserEntries, UserEntries
<1>3. \A p : Restored!CreatedEntries(p) = CreatedEntries(p)
  BY SameWords, <1>2 DEF Restored!CreatedEntries, CreatedEntries
<1>4. \A t, x : Restored!Result(t, x) = Result(t, x)
  BY SameWords DEF Restored!Result, Result
<1>5. \A c, s : Restored!Begun(c, s) = Begun(c, s)
  BY SameWords DEF Restored!Begun, Begun
<1>6. \A c : Restored!MarkCreated(c) = MarkCreated(c)
  BY DEF Restored!MarkCreated, MarkCreated
<1>. QED BY <1>1, <1>2, <1>3, <1>4, <1>5, <1>6

LEMMA SameBegin ==
  \A c, s, t, m : Restored!BeginTurn(c, s, t, m) = BeginTurn(c, s, t, m)
<1>1. \A c, s : Restored!AppendPendingUser(c, s) = AppendPendingUser(c, s)
  BY SameWords, SameCalls, SameEntries DEF Restored!AppendPendingUser, AppendPendingUser
<1>2. \A c, s : Restored!CreatePendingSession(c, s) = CreatePendingSession(c, s)
  BY SameWords, SameCalls, SameEntries DEF Restored!CreatePendingSession, CreatePendingSession
<1>3. \A c, s : Restored!ResumeUser(c, s) = ResumeUser(c, s)
  BY <1>1, SameWords, SameCalls, SameEntries DEF Restored!ResumeUser, ResumeUser
<1>4. \A c, s : Restored!ResumeCreated(c, s) = ResumeCreated(c, s)
  BY <1>2, <1>3, SameWords, SameCalls, SameEntries DEF Restored!ResumeCreated, ResumeCreated
<1>5. \A c, s : Restored!ResumePendingStart(c, s) = ResumePendingStart(c, s)
  BY <1>3, <1>4, SameWords, SameCalls DEF Restored!ResumePendingStart, ResumePendingStart
<1>6. \A c, s, t, m : Restored!StartTurn(c, s, t, m) = StartTurn(c, s, t, m)
  BY <1>1, <1>2, SameWords DEF Restored!StartTurn, StartTurn
<1>7. TAKE c, s, t, m
<1> DEFINE A(o) == IF ~ o.ok                     THEN {Out(c, o.st, "storage")}
                   ELSE IF HasTurn(o.st.facts, t) THEN {Out(c, o.st, "used")}
                   ELSE StartTurn(c, o.st, t, m)
           B(o) == IF ~ o.ok                     THEN {Restored!Out(c, o.st, "storage")}
                   ELSE IF Restored!HasTurn(o.st.facts, t) THEN {Restored!Out(c, o.st, "used")}
                   ELSE Restored!StartTurn(c, o.st, t, m)
<1>8. \A o : A(o) = B(o)
  BY <1>6, SameWords
<1>9. UNION {B(o) : o \in Restored!LoadCall(s)} = UNION {A(o) : o \in LoadCall(s)}
  <2> HIDE DEF A, B
  <2>. QED BY <1>8, SameCalls
<1> DEFINE u == UNION {A(o) : o \in LoadCall(s)}
           v == UNION {B(o) : o \in Restored!LoadCall(s)}
<1>10. PICK w : w = u /\ w = v
  BY <1>9
<1> HIDE DEF u, v
<1>11. PICK d : d = {Out(c, s, "deleted")} /\ d = {Restored!Out(c, s, "deleted")}
  BY SameWords
<1>12. PICK e : e = {Out(c, s, "in progress")} /\ e = {Restored!Out(c, s, "in progress")}
  BY SameWords
<1>13. PICK r : r = ResumePendingStart(c, s) /\ r = Restored!ResumePendingStart(c, s)
  BY <1>5
<1>14. PICK b : b = StartTurn(c, s, t, m) /\ b = Restored!StartTurn(c, s, t, m)
  BY <1>6
<1> DEFINE Same == IF c.deleted THEN d
                   ELSE IF c.pend # None
                   THEN IF ~ c.pend.user /\ c.pend.turn = t /\ c.pend.msg = m THEN r ELSE e
                   ELSE IF ~ c.bound THEN b ELSE w
<1>15. BeginTurn(c, s, t, m) = Same
  BY <1>10, <1>11, <1>12, <1>13, <1>14 DEF BeginTurn, u
<1>16. Restored!BeginTurn(c, s, t, m) = Same
  BY <1>10, <1>11, <1>12, <1>13, <1>14 DEF Restored!BeginTurn, v
<1> HIDE DEF Same
<1>. QED BY <1>15, <1>16

LEMMA SameFinish ==
  \A c, s, t, x : Restored!FinishTurn(c, s, t, x) = FinishTurn(c, s, t, x)
<1>1. \A c, s : Restored!AppendPendingTerminal(c, s) = AppendPendingTerminal(c, s)
  BY SameWords, SameCalls, SameEntries DEF Restored!AppendPendingTerminal, AppendPendingTerminal
<1>2. \A c, s : Restored!ResumePendingTerminal(c, s) = ResumePendingTerminal(c, s)
  BY <1>1, SameWords, SameCalls, SameEntries DEF Restored!ResumePendingTerminal, ResumePendingTerminal
<1>3. TAKE c, s, t, x
<1> DEFINE A(o) == IF ~ o.ok THEN Out(c, o.st, "storage")
                   ELSE IF Has(o.st.facts, Result(t, x)) THEN Out(c, o.st, "ok")
                   ELSE Out(c, o.st, "no turn")
           B(o) == IF ~ o.ok THEN Restored!Out(c, o.st, "storage")
                   ELSE IF Restored!Has(o.st.facts, Restored!Result(t, x))
                   THEN Restored!Out(c, o.st, "ok")
                   ELSE Restored!Out(c, o.st, "no turn")
<1>4. \A o : A(o) = B(o)
  BY SameWords, SameEntries
<1>5. {B(o) : o \in Restored!LoadCall(s)} = {A(o) : o \in LoadCall(s)}
  <2> HIDE DEF A, B
  <2>. QED BY <1>4, SameCalls
<1> DEFINE u == {A(o) : o \in LoadCall(s)}
           v == {B(o) : o \in Restored!LoadCall(s)}
<1>6. PICK w : w = u /\ w = v
  BY <1>5
<1> HIDE DEF u, v
<1>7. PICK d : d = {Out(c, s, "deleted")} /\ d = {Restored!Out(c, s, "deleted")}
  BY SameWords
<1>8. PICK e : e = {Out(c, s, "no turn")} /\ e = {Restored!Out(c, s, "no turn")}
  BY SameWords
<1>9. PICK g : g = {Out(c, s, "mismatch")} /\ g = {Restored!Out(c, s, "mismatch")}
  BY SameWords
<1>10. PICK r : r = ResumePendingTerminal(c, s) /\ r = Restored!ResumePendingTerminal(c, s)
  BY <1>2
<1>11. PICK k : k = [c EXCEPT !.pend = [@ EXCEPT !.term = x]]
  OBVIOUS
<1>12. PICK b : b = AppendPendingTerminal(k, s) /\ b = Restored!AppendPendingTerminal(k, s)
  BY <1>1
<1> DEFINE Same == IF c.deleted THEN d
                   ELSE IF c.pend = None THEN IF ~ c.bound THEN e ELSE w
                   ELSE IF c.pend.turn # t \/ ~ c.pend.user THEN g
                   ELSE IF c.pend.term = None THEN b
                   ELSE IF c.pend.term # x THEN g
                   ELSE r
<1>13. FinishTurn(c, s, t, x) = Same
  BY <1>6, <1>7, <1>8, <1>9, <1>10, <1>11, <1>12 DEF FinishTurn, u, A
<1>14. Restored!FinishTurn(c, s, t, x) = Same
  BY <1>6, <1>7, <1>8, <1>9, <1>10, <1>11, <1>12 DEF Restored!FinishTurn, v, B
<1> HIDE DEF Same
<1>. QED BY <1>13, <1>14

LEMMA SameRestore ==
  /\ \A s : Restored!ModelOf(s) = ModelOf(s)
  /\ \A s : Restored!NextTurnId(s) = NextTurnId(s)
  /\ \A c, s : Restored!Restore(c, s) = Restore(c, s)
<1>1. \A S : Restored!Sets!Max(S) = Sets!Max(S)
  BY DEF Restored!Sets!Max, Sets!Max
<1>2. \A s : Restored!ModelOf(s) = ModelOf(s)
  BY <1>1 DEF Restored!ModelOf, ModelOf
<1>3. \A s : Restored!NextTurnId(s) = NextTurnId(s)
  BY <1>1 DEF Restored!NextTurnId, NextTurnId
<1>4. \A c, s : Restored!Restore(c, s) = Restore(c, s)
  BY <1>2, SameWords, SameCalls DEF Restored!Restore, Restore
<1>. QED BY <1>2, <1>3, <1>4
-----------------------------------------------------------------------------
(***************************************************************************)
(* The conversation over several runs.                                     *)
(***************************************************************************)
Talks == [at : {"closed", "loaded", "idle", "generating"}, next : Nat, turn : Nat,
          state : Seq(Facts)]

\* What a start finds.
Found(st) ==
  /\ st \in Stores /\ st.queue = <<>> /\ st.at \in {"absent", "there"}
  /\ st.at = "absent" => st.facts = <<>>
  /\ SoundLog(st.facts) /\ LogSpeaks(st, MaxTurns)

\* The inductive invariant: the runtime's next turn is behind the log, unless it
\* is the one the controller tries to begin.
RestoreInv ==
  /\ talk \in Talks /\ selection \in Models \cup Selections /\ ~ refused
  /\ talk.at \in {"closed", "loaded"} => controller = FreshController /\ Found(saved)
  /\ talk.at = "loaded" => saved.at = "there" /\ talk.state = saved.facts
  /\ talk.at = "idle" =>
       /\ Speaks(controller, saved, talk.next) /\ talk.next \in 1 .. MaxTurns + 1
       /\ controller.pend = None => \A f \in Told(saved) : f.turn # talk.next
       /\ controller.pend # None => /\ talk.next <= MaxTurns
                                    /\ ~ controller.pend.user /\ controller.pend.turn = talk.next
  /\ talk.at = "generating" =>
       /\ talk.turn \in 1 .. MaxTurns /\ talk.next = talk.turn + 1
       /\ Speaks(controller, saved, talk.turn)
       /\ Waiting(controller) /\ controller.pend.turn = talk.turn

LEMMA Loosely ==
  ASSUME NEW c, NEW st, NEW m, NEW n, Speaks(c, st, m), \A f \in Told(st) : f.turn <= n
  PROVE  Speaks(c, st, n)
BY DEF Speaks, LogSpeaks

LEMMA TurnNumbers ==
  ASSUME NEW st \in Stores
  PROVE  \A f \in Told(st) : f.turn \in Nat
<1>1. Told(st) \subseteq Facts
  BY LogTypes
<1>. QED BY <1>1 DEF Facts

LEMMA RestoreStarts == Restored!Init => RestoreInv
<1> SUFFICES ASSUME Restored!Init
             PROVE  RestoreInv
  OBVIOUS
<1>1. /\ saved = EmptyStore /\ controller = FreshController
      /\ talk = [at |-> "idle", next |-> 1, turn |-> 0, state |-> <<>>]
      /\ selection \in Selections /\ refused = FALSE
  BY SameWords DEF Restored!Init, Restored!Talk
<1>2. /\ saved \in Stores /\ saved.at = "absent" /\ saved.facts = <<>> /\ saved.queue = <<>>
      /\ controller \in Controllers /\ controller.deleted = FALSE /\ controller.bound = FALSE
      /\ controller.pend = None
  BY <1>1 DEF EmptyStore, FreshController, Stores, Controllers
<1>3. LogOf(saved) = <<>> /\ Told(saved) = {}
  BY <1>2, LogTypes DEF Told, Range
<1>4. LedgerOK(controller, saved)
  BY <1>2, <1>3 DEF LedgerOK, SoundLog, Once, Follows
<1>5. Speaks(controller, saved, 1)
  BY <1>2, <1>3, <1>4 DEF Speaks, LogSpeaks, SaysModel, Spoken
<1>6. talk \in Talks /\ talk.at = "idle" /\ talk.next = 1
  BY <1>1 DEF Talks
<1>. QED BY <1>1, <1>2, <1>3, <1>5, <1>6, RestoreAssumption DEF RestoreInv

LEMMA BeginGoesOn == RestoreInv /\ Restored!Begin => RestoreInv'
<1> SUFFICES ASSUME RestoreInv, Restored!Begin
             PROVE  RestoreInv'
  OBVIOUS
<1>1. /\ talk \in Talks /\ talk.at = "idle" /\ talk.next \in 1 .. MaxTurns /\ MaxTurns \in Nat
      /\ selection \in Models \cup Selections /\ ~ refused
      /\ Speaks(controller, saved, talk.next)
      /\ controller.pend = None => \A f \in Told(saved) : f.turn # talk.next
      /\ controller.pend # None => ~ controller.pend.user /\ controller.pend.turn = talk.next
  BY RestoreAssumption DEF RestoreInv, Restored!Begin
<1>2. PICK o \in BeginTurn(controller, saved, talk.next, Message("text", selection)) :
        /\ controller' = o.c /\ saved' = o.st
        /\ talk' = IF o.answer = "ok"
                   THEN [talk EXCEPT !.at = "generating", !.turn = talk.next, !.next = talk.next + 1]
                   ELSE talk
        /\ refused' = (refused \/ o.answer = "used") /\ selection' = selection
  BY SameBegin, SameWords DEF Restored!Begin
<1>3. PICK t : t = talk.next
  OBVIOUS
<1>4. PICK m : m = Message("text", selection)
  OBVIOUS
<1>5. t \in Turns /\ m \in Messages /\ t \in Nat /\ t \in 1 .. MaxTurns /\ t <= t
  BY <1>1, <1>3, <1>4 DEF Turns, Messages, Message
<1>6. /\ Speaks(o.c, o.st, t) /\ o.answer # "used"
      /\ o.c.pend # None => o.c.pend.turn = t
      /\ o.c.pend = None => controller.pend = None /\ Told(o.st) = Told(saved)
  BY <1>1, <1>2, <1>3, <1>4, <1>5, SaysBegins
<1>7. BeginTold(controller, o, t, {})
  <2>1. LedgerOK(controller, saved) /\ BegunIn(controller, saved, {})
    BY <1>1 DEF Speaks, BegunIn
  <2>. QED BY <1>2, <1>3, <1>4, <1>5, <2>1, BeginsTurn
<1>8. CASE o.answer = "ok"
  <2>1. Waiting(o.c) /\ o.c.pend.turn = t
    BY <1>7, <1>8 DEF BeginTold
  <2>2. PICK n \in Nat : n = t + 1
    BY <1>5
  <2>3. talk' = [talk EXCEPT !.at = "generating", !.turn = t, !.next = n]
    BY <1>2, <1>3, <1>8, <2>2
  <2>4. talk' \in Talks /\ talk'.at = "generating" /\ talk'.turn = t /\ talk'.next = n
    BY <1>1, <1>5, <2>3 DEF Talks
  <2>. QED BY <1>1, <1>2, <1>5, <1>6, <2>1, <2>2, <2>4 DEF RestoreInv
<1>9. CASE o.answer # "ok"
  <2>1. talk' = talk
    BY <1>2, <1>9
  <2>2. o.c.pend # None => ~ o.c.pend.user
    BY <1>1, <1>7, <1>9 DEF BeginTold, Waiting
  <2>3. /\ o.c.pend = None => \A f \in Told(o.st) : f.turn # t
        /\ o.c.pend # None => t <= MaxTurns /\ ~ o.c.pend.user /\ o.c.pend.turn = t
    BY <1>1, <1>3, <1>5, <1>6, <2>2
  <2>4. talk'.at = "idle" /\ talk'.next = t /\ talk' \in Talks /\ t \in 1 .. MaxTurns + 1
    BY <1>1, <1>3, <1>5, <2>1
  <2>5. controller' = o.c /\ saved' = o.st /\ selection' = selection /\ ~ refused'
    BY <1>1, <1>2, <1>6
  <2>. QED BY <1>1, <1>6, <2>3, <2>4, <2>5 DEF RestoreInv
<1>. QED BY <1>8, <1>9

LEMMA FinishGoesOn == RestoreInv /\ Restored!Finish => RestoreInv'
<1> SUFFICES ASSUME RestoreInv, Restored!Finish
             PROVE  RestoreInv'
  OBVIOUS
<1>1. /\ talk \in Talks /\ talk.at = "generating" /\ talk.turn \in 1 .. MaxTurns /\ MaxTurns \in Nat
      /\ talk.next = talk.turn + 1
      /\ selection \in Models \cup Selections /\ ~ refused
      /\ Speaks(controller, saved, talk.turn)
      /\ Waiting(controller) /\ controller.pend.turn = talk.turn
  BY RestoreAssumption DEF RestoreInv, Restored!Finish
<1>2. PICK o \in FinishTurn(controller, saved, controller.pend.turn, "completed") :
        /\ controller' = o.c /\ saved' = o.st
        /\ talk' = IF o.answer = "ok" THEN [talk EXCEPT !.at = "idle", !.turn = 0] ELSE talk
        /\ refused' = refused /\ selection' = selection
  BY <1>1, SameFinish DEF Restored!Finish
<1>3. PICK t \in Nat : t = talk.turn /\ talk.next = t + 1 /\ t \in 1 .. MaxTurns
  BY <1>1
<1>4. "completed" \in Terms
  BY DEF Terms
<1>5. Speaks(o.c, o.st, t)
  BY <1>1, <1>2, <1>3, <1>4, SaysFinishes
<1>6. FinishTold(controller, o, t, "completed", {})
  <2>1. LedgerOK(controller, saved) /\ BegunIn(controller, saved, {})
    BY <1>1 DEF Speaks, BegunIn
  <2>. QED BY <1>1, <1>2, <1>3, <1>4, <2>1, FinishesTurn
<1>7. \A f \in Told(o.st) : f.turn <= t /\ f.turn \in Nat
  BY <1>5, LedgerTypes, TurnNumbers DEF Speaks, LogSpeaks
<1>8. CASE o.answer = "ok"
  <2>1. talk' \in Talks /\ talk'.at = "idle" /\ talk'.next = t + 1
    BY <1>1, <1>2, <1>3, <1>8 DEF Talks
  <2>2. \A f \in Told(o.st) : f.turn <= t + 1 /\ f.turn # t + 1
    BY <1>7
  <2>3. Speaks(o.c, o.st, t + 1)
    BY <1>5, <2>2, Loosely
  <2>4. o.c.pend = None
    BY <1>6, <1>8 DEF FinishTold
  <2>. QED BY <1>1, <1>2, <1>3, <2>1, <2>2, <2>3, <2>4 DEF RestoreInv
<1>9. CASE o.answer # "ok"
  <2>1. talk' = talk
    BY <1>2, <1>9
  <2>2. Waiting(o.c) /\ o.c.pend.turn = t
    BY <1>1, <1>3, <1>6, <1>9 DEF FinishTold, Waiting
  <2>. QED BY <1>1, <1>2, <1>3, <1>5, <2>1, <2>2 DEF RestoreInv
<1>. QED BY <1>8, <1>9

\* What the next start finds of a store with turns that may have begun.
LEMMA StopGoesOn ==
  ASSUME RestoreInv, NEW st \in Stores, LogOf(st) = LogOf(saved),
         st.at = saved.at \/ (saved.at = "hidden" /\ st.at = "there"),
         saved.facts # <<>> => st.facts # <<>>, Restored!Stop(st)
  PROVE  RestoreInv'
<1>1. /\ saved' = Restored!Reopened(st) /\ controller' = FreshController
      /\ talk' = [at |-> "closed", next |-> 1, turn |-> 0, state |-> <<>>]
      /\ selection' = selection /\ refused' = refused
  BY SameWords DEF Restored!Stop, Restored!Talk
<1>2. /\ saved \in Stores /\ SoundLog(LogOf(saved)) /\ MaxTurns \in Nat
      /\ Spoken(LogOf(saved)) /\ saved.at # "gone" /\ (saved.at # "absent" => Headed(saved))
      /\ \A f \in Told(saved) : f.turn <= MaxTurns
      /\ saved.at = "absent" => saved.facts = <<>> /\ LogOf(saved) = <<>>
  <2>1. CASE talk.at \in {"closed", "loaded"}
    <3>1. Found(saved)
      BY <2>1 DEF RestoreInv
    <3>. QED BY <3>1, LogTypes, RestoreAssumption DEF Found, LogSpeaks
  <2>2. CASE talk.at \in {"idle", "generating"}
    <3>1. PICK n : Speaks(controller, saved, n)
      BY <2>2 DEF RestoreInv
    <3>2. LedgerOK(controller, saved) /\ LogSpeaks(saved, n)
      BY <3>1 DEF Speaks
    <3>3. \A f \in Told(saved) : f.turn <= MaxTurns
      <4>1. CASE talk.at = "generating"
        <5>1. \A f \in Told(saved) : f.turn <= talk.turn /\ f.turn \in Nat
          BY <3>2, <4>1, LedgerTypes, TurnNumbers DEF RestoreInv, Speaks, LogSpeaks
        <5>. QED BY <4>1, <5>1, RestoreAssumption DEF RestoreInv
      <4>2. CASE talk.at = "idle"
        <5>1. /\ \A f \in Told(saved) : f.turn <= talk.next /\ f.turn \in Nat
              /\ talk.next \in 1 .. MaxTurns + 1
              /\ \/ talk.next <= MaxTurns
                 \/ \A f \in Told(saved) : f.turn # talk.next
          BY <3>2, <4>2, LedgerTypes, TurnNumbers DEF RestoreInv, Speaks, LogSpeaks
        <5>. QED BY <5>1, RestoreAssumption
      <4>. QED BY <2>2, <4>1, <4>2
    <3>. QED BY <3>2, <3>3, LedgerTypes, RestoreAssumption DEF LogSpeaks, LedgerOK
  <2>. QED BY <2>1, <2>2 DEF RestoreInv, Talks
<1>3. PICK r : r = saved'
  OBVIOUS
<1>4. /\ r \in Stores /\ r.queue = <<>> /\ r.facts = st.facts
      /\ r.at = IF st.at = "hidden" THEN "there" ELSE st.at
  <2>1. PICK a \in {"absent", "hidden", "there", "gone"} :
          a = IF st.at = "hidden" THEN "there" ELSE st.at
    BY DEF Stores
  <2>2. <<>> \in Seq(Facts)
    OBVIOUS
  <2>3. r = [st EXCEPT !.queue = <<>>, !.at = a]
    BY <1>1, <1>3, <2>1 DEF Restored!Reopened
  <2>. QED BY <2>1, <2>2, <2>3 DEF Stores
<1>5. /\ st.facts \in Seq(Facts) /\ st.queue \in Seq(Facts) /\ LogOf(r) = st.facts
      /\ Told(r) = Range(st.facts) /\ r.at \in {"absent", "there"}
  <2>1. r.at \in {"absent", "there"}
    BY <1>2, <1>4 DEF Stores
  <2>. QED BY <1>4, <2>1, LogTypes DEF Told
<1>6. /\ Spoken(st.facts) /\ SoundLog(st.facts) /\ Range(st.facts) \subseteq Told(saved)
  BY <1>2, <1>5, CutLog DEF LogOf, Told
<1>7. r.at = "there" => Headed(r)
  <2>1. r.at = "there" => Headed(saved) /\ st.facts # <<>>
    BY <1>2, <1>4 DEF Headed
  <2>2. r.at = "there" => Headed(st)
    BY <1>2, <1>5, <2>1, HeadedKept
  <2>. QED BY <1>4, <2>2 DEF Headed
<1>8. r.at = "absent" => r.facts = <<>>
  <2>1. ASSUME st.at = "absent"
        PROVE  st.facts = <<>>
    <3>1. LogOf(st) = <<>>
      BY <1>2, <2>1
    <3>. QED BY <1>5, <3>1 DEF LogOf
  <2>. QED BY <1>4, <2>1
<1>9. Found(r)
  BY <1>2, <1>4, <1>5, <1>6, <1>7, <1>8 DEF Found, LogSpeaks
<1>10. talk' \in Talks /\ talk'.at = "closed"
  <2>1. <<>> \in Seq(Facts)
    OBVIOUS
  <2>. QED BY <1>1, <2>1 DEF Talks
<1>. QED BY <1>1, <1>3, <1>9, <1>10 DEF RestoreInv

LEMMA SavedStore == RestoreInv => saved \in Stores
<1> SUFFICES ASSUME RestoreInv
             PROVE  saved \in Stores
  OBVIOUS
<1>1. CASE talk.at \in {"closed", "loaded"}
  BY <1>1 DEF RestoreInv, Found
<1>2. CASE talk.at \in {"idle", "generating"}
  BY <1>2, LedgerTypes DEF RestoreInv, Speaks
<1>. QED BY <1>1, <1>2 DEF RestoreInv, Talks

LEMMA ExitGoesOn == RestoreInv /\ (Restored!Crash \/ Restored!Exit) => RestoreInv'
<1> SUFFICES ASSUME RestoreInv, Restored!Crash \/ Restored!Exit
             PROVE  RestoreInv'
  OBVIOUS
<1>1. saved \in Stores
  BY SavedStore
<1>2. CASE Restored!Crash
  BY <1>1, <1>2, StopGoesOn DEF Restored!Crash
<1>3. CASE Restored!Exit
  <2>1. PICK o \in FlushCall(saved) : o.ok /\ Restored!Stop(o.st)
    BY <1>3, SameCalls DEF Restored!Exit
  <2>2. /\ o.st \in Stores /\ LogOf(o.st) = LogOf(saved)
        /\ saved.facts # <<>> => o.st.facts # <<>>
        /\ saved.at \in {"hidden", "there"} => o.st.at = "there"
        /\ saved.at \in {"absent", "gone"} => o.st.at = "absent"
    BY <1>1, <2>1, FlushCalls DEF SameLog
  <2>3. saved.at # "gone"
    BY DEF RestoreInv, Found, Speaks, LogSpeaks, Talks
  <2>4. o.st.at = saved.at \/ (saved.at = "hidden" /\ o.st.at = "there")
    BY <1>1, <2>2, <2>3 DEF Stores
  <2>. QED BY <2>1, <2>2, <2>4, StopGoesOn
<1>. QED BY <1>2, <1>3

LEMMA FoundKept ==
  ASSUME NEW s, NEW r \in Stores, Found(s), Alike(s, r)
  PROVE  Found(r)
<1>1. LogOf(r) = LogOf(s) /\ Told(r) = Told(s)
  BY DEF LogOf, Told, Alike
<1>. QED BY <1>1 DEF Found, LogSpeaks, Headed, Alike

LEMMA LoadGoesOn == RestoreInv /\ Restored!Load => RestoreInv'
<1> SUFFICES ASSUME RestoreInv, Restored!Load
             PROVE  RestoreInv'
  OBVIOUS
<1>1. /\ talk.at = "closed" /\ talk \in Talks /\ Found(saved) /\ controller = FreshController
      /\ selection \in Models \cup Selections /\ ~ refused /\ saved.at = "there"
  BY DEF RestoreInv, Restored!Load
<1>2. PICK o \in LoadCall(saved) :
        /\ saved' = o.st /\ controller' = controller /\ selection' = selection /\ refused' = refused
        /\ talk' = IF o.ok THEN [[at |-> "loaded", next |-> 1, turn |-> 0, state |-> <<>>]
                                    EXCEPT !.state = saved.facts]
                   ELSE talk
  BY SameCalls DEF Restored!Load, Restored!Talk
<1>3. o.st \in Stores /\ Alike(saved, o.st)
  BY <1>1, LoadCalls DEF Found
<1>4. Found(o.st)
  BY <1>1, <1>3, FoundKept
<1>5. CASE o.ok
  <2>1. /\ talk'.at = "loaded" /\ talk'.state = saved.facts /\ talk' \in Talks
    <3>1. saved.facts \in Seq(Facts)
      BY <1>1, LogTypes DEF Found
    <3>2. talk' = [at |-> "loaded", next |-> 1, turn |-> 0, state |-> saved.facts]
      BY <1>2, <1>5
    <3>. QED BY <3>1, <3>2 DEF Talks
  <2>. QED BY <1>1, <1>2, <1>3, <1>4, <2>1 DEF RestoreInv, Alike
<1>6. CASE ~ o.ok
  BY <1>1, <1>2, <1>4, <1>6 DEF RestoreInv
<1>. QED BY <1>5, <1>6

LEMMA RestoreGoesOn == RestoreInv /\ Restored!RestoreSession => RestoreInv'
<1> SUFFICES ASSUME RestoreInv, Restored!RestoreSession
             PROVE  RestoreInv'
  OBVIOUS
<1>1. /\ talk.at = "loaded" /\ Found(saved) /\ controller = FreshController
      /\ selection \in Models \cup Selections /\ ~ refused /\ saved.at = "there"
      /\ talk.state = saved.facts /\ saved \in Stores
  BY DEF RestoreInv, Restored!RestoreSession, Found
<1>2. PICK o \in Restore(controller, saved) :
        /\ saved' = o.st /\ refused' = refused
        /\ IF o.answer = "ok"
           THEN /\ controller' = o.c /\ selection' = o.c.model
                /\ talk' = [at |-> "idle", next |-> NextTurnId(talk.state), turn |-> 0, state |-> <<>>]
           ELSE /\ controller' = FreshController /\ selection' = selection
                /\ talk' = [at |-> "closed", next |-> 1, turn |-> 0, state |-> <<>>]
  BY SameRestore, SameWords DEF Restored!RestoreSession, Restored!Talk
<1>3. /\ FreshController \in Controllers /\ FreshController.deleted = FALSE
      /\ FreshController.pend = None /\ FreshController.bound = FALSE
  BY DEF FreshController, Controllers
<1>4. PICK a \in LoadCall(saved) :
        o = IF a.ok THEN Out([FreshController EXCEPT !.bound = TRUE, !.model = ModelOf(a.st.facts)],
                             a.st, "ok")
            ELSE Out(FreshController, a.st, "storage")
  BY <1>1, <1>2, <1>3 DEF Restore
<1>5. a.st \in Stores /\ Alike(saved, a.st) /\ Found(a.st) /\ a.st.at = "there" /\ a.st.facts = saved.facts
  BY <1>1, LoadCalls, FoundKept DEF Alike
<1>6. CASE ~ a.ok
  <2>1. o.st = a.st /\ o.answer = "storage"
    BY <1>4, <1>6 DEF Out
  <2>2. <<>> \in Seq(Facts)
    OBVIOUS
  <2>3. talk' \in Talks /\ talk'.at = "closed"
    <3>1. talk' = [at |-> "closed", next |-> 1, turn |-> 0, state |-> <<>>]
      BY <1>2, <2>1
    <3>. QED BY <2>2, <3>1 DEF Talks
  <2>. QED BY <1>1, <1>2, <1>5, <2>1, <2>3 DEF RestoreInv
<1>7. CASE a.ok
  <2>1. PICK m : m = ModelOf(saved.facts)
    OBVIOUS
  <2>2. PICK c : c = [FreshController EXCEPT !.bound = TRUE, !.model = m]
    OBVIOUS
  <2>3. o.c = c /\ o.st = a.st /\ o.answer = "ok"
    BY <1>4, <1>5, <1>7, <2>1, <2>2 DEF Out
  <2>4. /\ saved.facts \in Seq(Facts) /\ LogOf(a.st) = saved.facts
        /\ Told(a.st) = Range(saved.facts) /\ SoundLog(saved.facts)
        /\ Spoken(saved.facts) /\ saved.facts # <<>> /\ saved.facts[1].kind = "header"
        /\ a.st.queue = <<>>
    BY <1>1, <1>5, LogTypes DEF Found, LogSpeaks, Headed, Told
  <2>5. Named(saved.facts, Len(saved.facts), m)
    BY <2>1, <2>4, ModelIs
  <2>6. m \in Models \cup Selections
    <3>1. PICK j \in 1 .. Len(saved.facts) : saved.facts[j].kind \in Naming /\ saved.facts[j].val = m
      BY <2>5 DEF Named
    <3>. QED BY <2>4, <3>1 DEF Spoken
  <2>7. c \in Controllers /\ c.deleted = FALSE /\ c.bound = TRUE /\ c.pend = None /\ c.model = m
    BY <1>3, <2>2, <2>6 DEF Controllers
  <2>8. LedgerOK(c, a.st)
    BY <1>5, <2>4, <2>7 DEF LedgerOK
  <2>9. SaysModel(c, a.st)
    BY <1>5, <2>4, <2>5, <2>7 DEF SaysModel
  <2>10. Speaks(c, a.st, MaxTurns)
    BY <1>5, <2>7, <2>8, <2>9 DEF Speaks, Found
  <2>11. PICK n \in 1 .. MaxTurns + 1 :
           n = NextTurnId(saved.facts) /\ \A f \in Range(saved.facts) : f.turn < n
    <3> DEFINE T == {0} \cup {saved.facts[i].turn : i \in DOMAIN saved.facts}
    <3>1. \A i \in DOMAIN saved.facts : saved.facts[i].turn \in 0 .. MaxTurns
      <4>1. \A f \in Range(saved.facts) : f.turn <= MaxTurns /\ f.turn \in Nat
        BY <1>5, <2>4, TurnNumbers DEF Found, LogSpeaks
      <4>. QED BY <4>1, RestoreAssumption DEF Range
    <3>2. T \subseteq 0 .. MaxTurns /\ T # {} /\ MaxTurns \in Nat
      BY <3>1, RestoreAssumption
    <3>3. PICK k : k = Sets!Max(T)
      OBVIOUS
    <3>4. k \in T /\ \A y \in T : k >= y
      <4> HIDE DEF T
      <4>. QED BY <3>2, <3>3, MaxOf
    <3>5. NextTurnId(saved.facts) = 1 + k
      BY <3>3 DEF NextTurnId
    <3>6. \A f \in Range(saved.facts) : f.turn \in T
      BY DEF Range
    <3> HIDE DEF T
    <3>7. k \in 0 .. MaxTurns /\ \A f \in Range(saved.facts) : f.turn <= k /\ f.turn \in 0 .. MaxTurns
      BY <3>2, <3>4, <3>6
    <3>8. 1 + k \in 1 .. MaxTurns + 1 /\ \A f \in Range(saved.facts) : f.turn < 1 + k
      BY <3>2, <3>7
    <3>. QED BY <3>5, <3>8
  <2>12. \A f \in Told(a.st) : f.turn <= n /\ f.turn # n
    <3>1. \A f \in Told(a.st) : f.turn \in Nat
      BY <1>5, TurnNumbers
    <3>. QED BY <2>4, <2>11, <3>1
  <2>13. Speaks(c, a.st, n)
    BY <2>10, <2>12, Loosely
  <2>14. talk' \in Talks /\ talk'.at = "idle" /\ talk'.next = n
    <3>1. <<>> \in Seq(Facts) /\ n \in Nat
      BY <2>11, RestoreAssumption
    <3>2. talk' = [at |-> "idle", next |-> n, turn |-> 0, state |-> <<>>]
      BY <1>1, <1>2, <2>3, <2>11
    <3>. QED BY <3>1, <3>2 DEF Talks
  <2>. QED BY <1>1, <1>2, <2>3, <2>6, <2>7, <2>11, <2>12, <2>13, <2>14 DEF RestoreInv
<1>. QED BY <1>6, <1>7

LEMMA RestoreMoves == RestoreInv /\ [Restored!Next]_restoreVars => RestoreInv'
<1> SUFFICES ASSUME RestoreInv, [Restored!Next]_restoreVars
             PROVE  RestoreInv'
  OBVIOUS
<1>1. CASE \E model \in Selections : Restored!Choose(model)
  <2>1. /\ selection' \in Models \cup Selections
        /\ UNCHANGED <<saved, controller, talk, stops, refused>>
    BY <1>1 DEF Restored!Choose
  <2>. QED BY <2>1 DEF RestoreInv
<1>2. CASE UNCHANGED restoreVars
  BY <1>2 DEF restoreVars, RestoreInv
<1>. QED BY <1>1, <1>2, BeginGoesOn, FinishGoesOn, ExitGoesOn, LoadGoesOn, RestoreGoesOn
         DEF Restored!Next

LEMMA GoesOnHolds == RestoreInv => Restored!GoesOn
<1> SUFFICES ASSUME RestoreInv
             PROVE  Restored!GoesOn
  OBVIOUS
<1>1. saved \in Stores /\ saved.facts \in Seq(Facts) /\ saved.queue \in Seq(Facts)
  BY SavedStore, LogTypes
<1>2. Spoken(saved.facts)
  <2>1. Spoken(LogOf(saved))
    BY DEF RestoreInv, Found, Speaks, LogSpeaks, Talks
  <2>. QED BY <1>1, <2>1, CutLog DEF LogOf
<1>3. ASSUME NEW i \in DOMAIN saved.facts, saved.facts[i].kind = "user"
      PROVE  saved.facts[i].val.model = Restored!NamedAt(i)
  <2>1. Named(saved.facts, i, saved.facts[i].val.model) /\ i \in 1 .. Len(saved.facts)
    BY <1>1, <1>2, <1>3 DEF Spoken
  <2>2. ModelOf(SubSeq(saved.facts, 1, i)) = saved.facts[i].val.model
    BY <1>1, <2>1, ModelIs
  <2>. QED BY <2>2, SameRestore DEF Restored!NamedAt
<1>4. ASSUME controller.bound, controller.pend = None
      PROVE  controller.model = ModelOf(saved.facts)
  <2>1. talk.at \in {"idle", "generating"}
    BY <1>4 DEF RestoreInv, Talks, FreshController
  <2>2. PICK n : Speaks(controller, saved, n)
    BY <2>1 DEF RestoreInv
  <2>3. LogOf(saved) = saved.facts
    BY <1>1, <1>4, <2>2, LogTypes DEF Speaks, LedgerOK
  <2>4. Named(saved.facts, Len(saved.facts), controller.model)
    BY <1>4, <2>2, <2>3 DEF Speaks, SaysModel
  <2>. QED BY <1>1, <2>4, ModelIs
<1>. QED BY <1>3, <1>4, SameRestore DEF Restored!GoesOn, RestoreInv

-----------------------------------------------------------------------------
(* The parts of the model that is checked move as their specifications say. *)
LEMMA PartsMove ==
  /\ MCInit => Init /\ Restored!Init
  /\ [MCNext]_<<part, vars, restoreVars>> => [Next]_vars /\ [Restored!Next]_restoreVars
BY DEF MCInit, MCNext

(* A turn is begun once and ended once, and a conversation goes on where    *)
(* its log stands: whatever a crash or a failing call left of the last      *)
(* turn, a restored conversation asks for no turn id that is used, and its  *)
(* controller takes the model its log names (begin_turn, finish_turn,       *)
(* resume_pending_start, resume_pending_terminal, restore and               *)
(* next_turn_id_for).                                                       *)
THEOREM ConversationGoesOn == MCSpec => []TurnsHold
<1>1. TurnsInv /\ DeletedFirst /\ [Next]_vars => (TurnsInv /\ DeletedFirst)'
  BY NextTurns, StaysDeleted
<1>2. TurnsInv /\ RestoreInv => TurnsHold
  BY TurnsHolds, GoesOnHolds DEF TurnsHold
<1>. QED BY <1>1, <1>2, InitTurns, RestoreStarts, RestoreMoves, PartsMove, PTL DEF MCSpec
=============================================================================
