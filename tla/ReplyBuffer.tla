----------------------------- MODULE ReplyBuffer -----------------------------
(***************************************************************************)
(* The queue between a generation and the view: chat/assistant/mod.rs and  *)
(* buffer.rs.  Deltas are merged, paced and cut at grapheme boundaries; a  *)
(* timer shows them frame by frame and the terminal shows the rest before  *)
(* it is delivered.  A delta is a record: its block, and the units of its  *)
(* text - "base" begins a grapheme, "mark" joins the one before it - or    *)
(* the single unit "edge" of a block's start or finish.                    *)
(***************************************************************************)
EXTENDS Naturals, Sequences, FiniteSets
LOCAL INSTANCE SequencesExt

CONSTANTS
    Deltas,         \* the deltas a generation sends
    MaxDeltas,      \* how many of them (bound of the model)
    MaxEntries,     \* MAX_PENDING_QUEUE_ENTRIES
    DirectFollow,   \* DIRECT_FOLLOW_CHUNK_GRAPHEMES
    MinVisible,     \* MIN_VISIBLE_GRAPHEMES_PER_COMMIT
    MaxVisible,     \* MAX_VISIBLE_GRAPHEMES_PER_COMMIT
    TargetFrames    \* PACING_TARGET_FRAMES

VARIABLES
    flow,      \* "running", "draining" after the terminal, "finished", "dropped"
    q,          \* deltas: the queued entries, each with its grapheme count
    backlog,    \* pending_graphemes
    scheduled,  \* flush_scheduled
    paced,      \* paced
    held,       \* held_tail_once
    timer,      \* a flush task is alive
    sends,      \* deltas the generation sent
    pushed,     \* history: the units queued so far
    shown       \* the units published to the runtime, in order

vars == <<flow, q, backlog, scheduled, paced, held, timer, sends, pushed, shown>>

Text(d) == d.units # <<"edge">>
Begins(us, i) == i = 1 \/ us[i] # "mark"
Starts(us) == {i \in DOMAIN us : Begins(us, i)}
Graphemes(us) == Cardinality(Starts(us))
LastStart(us) == CHOOSE i \in Starts(us) : \A j \in Starts(us) : j <= i
\* Mutant: a prefix is cut after n units, wherever that is in a grapheme.
PrefixUnits(us, n) == n

\* Where the first n graphemes of us end.
PrefixEnd(us, n) ==
    IF n = 0 THEN 0 ELSE IF n = Graphemes(us) THEN Len(us)
    ELSE CHOOSE i \in DOMAIN us :
           Begins(us, i + 1) /\ Cardinality({j \in Starts(us) : j <= i}) = n

\* take_prefix: the first n graphemes of an entry, and what is left of it.
Prefix(e, n) == [e EXCEPT !.units = SubSeq(@, 1, PrefixEnd(@, n))]
Rest(e, n) == IF n = 0 THEN e
              ELSE [e EXCEPT !.units = SubSeq(@, PrefixEnd(@, n) + 1, Len(@)), !.n = @ - n, !.cut = TRUE]

Units(d) == [i \in DOMAIN d.units |-> [block |-> d.block, u |-> d.units[i]]]
Flat(entries) == FoldLeft(LAMBDA us, e : us \o Units(e), <<>>, entries)

Entry(d) == [block |-> d.block, units |-> d.units, cut |-> FALSE, n |-> IF Text(d) THEN Graphemes(d.units) ELSE 0]

-------------------------------------------------------------------------------
(* push: merge with the last entry of the same block, else a new entry.     *)

Mergeable(d) == q # <<>> /\ Text(Last(q)) /\ Text(d) /\ Last(q).block = d.block

\* Only the final pending grapheme can combine with the new text.
Appended(e, us) ==
    [e EXCEPT !.units = @ \o us,
              !.n = IF us = <<>> THEN @
                    ELSE IF @ = 0 THEN Graphemes(us)
                    ELSE @ - 1 + Graphemes(SubSeq(e.units, LastStart(e.units), Len(e.units)) \o us)]

Queued(d) == IF Mergeable(d) THEN Front(q) \o <<Appended(Last(q), d.units)>>
             ELSE Append(q, Entry(d))

Joined(d) == IF Mergeable(d) THEN backlog - Last(q).n + Appended(Last(q), d.units).n
             ELSE backlog + Entry(d).n

-------------------------------------------------------------------------------
(* take_frame: what one commit shows.                                       *)

Least(a, b) == IF a < b THEN a ELSE b
Greatest(a, b) == IF a < b THEN b ELSE a

Pacing(b, p) == p \/ b > MaxVisible
Budget(b, p) ==
    IF Pacing(b, p) /\ b > 0
    THEN Least(b, Least(MaxVisible, Greatest(MinVisible, (b + TargetFrames - 1) \div TargetFrames)))
    ELSE b

\* Entries are shown whole while the budget lasts; the one it ends in, or the
\* last one when its final grapheme is held back once, is cut.
Frame(entries, b, p, h, final) ==
    LET budget == Budget(b, p)
        sum[i \in 0..Len(entries)] == IF i = 0 THEN 0 ELSE sum[i - 1] + entries[i].n
        holds(i) == i = Len(entries) /\ ~final /\ ~h /\ entries[i].n > 0
        stops == {i \in DOMAIN entries : holds(i) \/ sum[i] > budget}
        k == CHOOSE i \in stops : \A j \in stops : i <= j
        room == budget - sum[k - 1]
        available == IF holds(k) THEN entries[k].n - 1 ELSE entries[k].n
        n == Least(available, room)
    IN IF stops = {} THEN [q |-> <<>>, vis |-> Flat(entries), backlog |-> 0, held |-> FALSE]
       ELSE [q |-> <<Rest(entries[k], n)>> \o SubSeq(entries, k + 1, Len(entries)),
             vis |-> Flat(SubSeq(entries, 1, k - 1)) \o Units(Prefix(entries[k], n)),
             backlog |-> b - sum[k - 1] - n,
             held |-> h \/ (holds(k) /\ room > 0 /\ n = available)]

\* Mutant: a frame that empties the queue leaves its timer marked as scheduled.
PublishScheduled(f, p, unscheduled) ==
    /\ q' = f.q /\ backlog' = f.backlog
    /\ shown' = shown \o f.vis
    /\ held' = (f.q # <<>> /\ f.held) /\ paced' = (f.q # <<>> /\ p)
    /\ scheduled' = unscheduled

\* The frame is published to the runtime; an empty queue forgets its pacing.
Publish(f, p, unscheduled) ==
    /\ q' = f.q /\ backlog' = f.backlog
    /\ shown' = shown \o f.vis
    /\ held' = (f.q # <<>> /\ f.held)
    /\ paced' = (f.q # <<>> /\ p)
    /\ scheduled' = IF f.q = <<>> THEN FALSE ELSE unscheduled

-------------------------------------------------------------------------------
Init ==
    /\ flow = "running"
    /\ q = <<>> /\ backlog = 0
    /\ scheduled = FALSE /\ paced = FALSE /\ held = FALSE /\ timer = FALSE
    /\ sends = 0 /\ pushed = <<>> /\ shown = <<>>

\* queue_delta: a full queue is flushed at once and its timer replaced; a first
\* delta starts the timer.
Push(d) ==
    LET entries == Queued(d)
        b == Joined(d)
        p == paced \/ (Text(d) /\ Graphemes(d.units) > DirectFollow)
    IN /\ flow = "running" /\ sends < MaxDeltas
       /\ sends' = sends + 1
       /\ pushed' = pushed \o Units(d)
       /\ IF Len(entries) >= MaxEntries
          THEN \E f \in {Frame(entries, b, p, FALSE, FALSE)} :
                  Publish(f, Pacing(b, p), TRUE) /\ timer' = (f.q # <<>>)
          ELSE /\ q' = entries /\ backlog' = b /\ paced' = p /\ held' = FALSE
               /\ scheduled' = TRUE /\ timer' = (timer \/ ~scheduled)
               /\ UNCHANGED shown
       /\ UNCHANGED flow

\* spawn_flush_task: one frame per tick, until a frame empties the queue.
FlushTick ==
    /\ timer /\ flow = "running"
    /\ \E f \in {Frame(q, backlog, paced, held, FALSE)} :
          Publish(f, Pacing(backlog, paced), scheduled) /\ timer' = (f.q # <<>>)
    /\ UNCHANGED <<flow, sends, pushed>>

\* The generation finished, or was stopped and cancelled: the timer is dropped
\* and the reply task paces what is left.
Terminal ==
    /\ flow = "running"
    /\ flow' = "draining" /\ timer' = FALSE
    /\ UNCHANGED <<q, backlog, scheduled, paced, held, sends, pushed, shown>>

DrainTick ==
    /\ flow = "draining" /\ q # <<>>
    /\ \E f \in {Frame(q, backlog, paced, held, TRUE)} :
          Publish(f, Pacing(backlog, paced), scheduled)
    /\ UNCHANGED <<flow, timer, sends, pushed>>

\* finish_generation, after the queue is empty.
Finish ==
    /\ flow = "draining" /\ q = <<>>
    /\ flow' = "finished"
    /\ UNCHANGED <<q, backlog, scheduled, paced, held, timer, sends, pushed, shown>>

\* The runtime was released: the reply task is dropped with its timer.
Release ==
    /\ flow \in {"running", "draining"}
    /\ flow' = "dropped" /\ timer' = FALSE
    /\ UNCHANGED <<q, backlog, scheduled, paced, held, sends, pushed, shown>>

Next ==
    \/ \E d \in Deltas : Push(d)
    \/ FlushTick \/ Terminal \/ DrainTick \/ Finish \/ Release
    \/ flow \in {"finished", "dropped"} /\ UNCHANGED vars

\* Timers fire and the reply task is polled; the provider need not send more.
Fairness == WF_vars(FlushTick) /\ WF_vars(DrainTick) /\ WF_vars(Finish)
Spec == Init /\ [][Next]_vars /\ Fairness

-------------------------------------------------------------------------------
(* Merging, pacing, prefixes and flushes lose, repeat and reorder nothing,  *)
(* the grapheme count kept across merges and cuts is the real one, a cut     *)
(* never parts a mark from what it joins, and the outcome is delivered after *)
(* everything was shown (push, take_frame, stream_reply).                    *)
NothingLost ==
    /\ shown \o Flat(q) = pushed
    /\ backlog = FoldLeft(LAMBDA n, e : n + e.n, 0, q)
    /\ \A i \in DOMAIN q :
          /\ Text(q[i]) => q[i].n = Graphemes(q[i].units)
          /\ q[i].cut => q[i].units[1] # "mark"
    /\ flow = "finished" => shown = pushed

(* What is queued is shown, unless the conversation goes away: a queue that *)
(* is not empty always has a timer or the draining reply task (queue_delta, *)
(* spawn_flush_task).                                                       *)
EverythingShown == (q # <<>>) ~> (q = <<>> \/ flow = "dropped")
===============================================================================
