---------------------------- MODULE ProtocolStream ----------------------------
(***************************************************************************)
(* The two provider protocols as state machines over decoded SSE frames:   *)
(* llm/protocol/chat_completions and llm/protocol/responses.  A frame      *)
(* yields canonical events, perhaps a terminal, or an error that drops the *)
(* events of that frame.  A text is the number of its fragments, so one    *)
(* text is a prefix of another when it is not longer.                      *)
(***************************************************************************)
EXTENDS Naturals, Sequences
LOCAL INSTANCE SequencesExt
LOCAL INSTANCE FiniteSetsExt

CONSTANTS
    None,       \* no kind, no open block, no tool index or id
    Slots,      \* output indices of a Responses stream
    ToolIds     \* call ids a Chat Completions stream sends

ASSUME NoneIsNoValue == None \notin Slots /\ None \notin ToolIds

Event(e, k, ix, n) == [e |-> e, k |-> k, ix |-> ix, n |-> n]

(***************************************************************************)
(* A step works on a result r: the adapter state s, the events emitted so  *)
(* far, whether the frame was refused and the terminal it ended with.      *)
(***************************************************************************)
Fresh(s) == [s |-> s, ev |-> <<>>, err |-> FALSE, term |-> None]
Refused(r) == [r EXCEPT !.err = TRUE]
Emit(r, e, k, ix, n) == [r EXCEPT !.ev = Append(@, Event(e, k, ix, n))]
Ended(r, status) == [r EXCEPT !.term = status, !.s.terminal = TRUE]

(***************************************************************************)
(* Chat Completions.  Blocks get the next content index when they open;    *)
(* at most one text and one reasoning block are open.                      *)
(***************************************************************************)
ChatNew == [ terminal |-> FALSE, done |-> FALSE, reason |-> FALSE,
             open |-> [k \in {"text", "reasoning"} |-> None], next |-> 0,
             tools |-> <<>>, ids |-> <<>>, nextTool |-> 0 ]

Close(r, k) ==
    IF r.s.open[k] = None THEN r
    ELSE Emit([r EXCEPT !.s.open[k] = None], "finished", k, r.s.open[k], 0)

\* start_text and start_reasoning: the other block ends first.
Opened(r, k) ==
    LET c == Close(r, IF k = "text" THEN "reasoning" ELSE "text") IN
    IF c.s.open[k] # None THEN c
    ELSE Emit([c EXCEPT !.s.open[k] = c.s.next, !.s.next = @ + 1],
              "started", k, c.s.next, 0)

ChatDelta(r, k) == LET o == Opened(r, k) IN Emit(o, "delta", k, o.s.open[k], 1)

\* The accumulator a tool fragment belongs to: its index, else the one its id
\* was last given, else its position in the chunk.
ToolSlot(s, frag, pos) ==
    IF frag.index # None THEN frag.index
    ELSE IF frag.id = None THEN pos - 1
    ELSE IF frag.id \in DOMAIN s.ids THEN s.ids[frag.id] ELSE s.nextTool

With(f, x, v) == [y \in DOMAIN f \cup {x} |-> IF y = x THEN v ELSE f[y]]

AccumulateTool(r, frag, pos) ==
    LET s == r.s
        slot == ToolSlot(s, frag, pos)
        new == slot \notin DOMAIN s.tools
        tool == IF new THEN [ix |-> s.next, n |-> 0] ELSE s.tools[slot]
        known == [s EXCEPT
            !.tools = With(@, slot, [tool EXCEPT !.n = @ + 1]),
            !.next = IF new THEN @ + 1 ELSE @,
            !.ids = IF frag.id = None THEN @ ELSE With(@, frag.id, slot),
            !.nextTool =
                IF frag.index # None THEN Max({@, frag.index + 1})
                ELSE IF frag.id # None /\ frag.id \notin DOMAIN s.ids THEN @ + 1
                ELSE @]
        started == IF new THEN Emit([r EXCEPT !.s = known], "started", "tool", tool.ix, 0)
                   ELSE [r EXCEPT !.s = known]
    IN Emit(started, "delta", "tool", tool.ix, 1)

AccumulateTools(r, frags) ==
    IF frags = <<>> THEN r
    ELSE FoldLeftDomain(LAMBDA acc, i : AccumulateTool(acc, frags[i], i),
                        Close(Close(r, "text"), "reasoning"), frags)

\* finish_parts: close what is open and complete every tool call.
FinishParts(r) ==
    LET slots == SetToSortSeq(DOMAIN r.s.tools, <)
    IN FoldLeft(LAMBDA acc, t : Emit(acc, "finished", "tool", r.s.tools[t].ix, r.s.tools[t].n),
                Close(Close(r, "text"), "reasoning"), slots)

ChatTerminal(r) ==
    IF r.s.done /\ r.s.reason /\ ~r.s.terminal THEN Ended(r, "completed") ELSE r

ChatChunk(s, f) ==
    LET texted == IF f.text THEN ChatDelta(Fresh(s), "text") ELSE Fresh(s)
        reasoned == IF f.reasoning THEN ChatDelta(texted, "reasoning") ELSE texted
        tooled == AccumulateTools(reasoned, f.tools)
    IN IF f.finish THEN FinishParts([tooled EXCEPT !.s.reason = TRUE]) ELSE tooled

ChatIngest(s, f) ==
    CASE f.t = "done" -> ChatTerminal(Fresh([s EXCEPT !.done = TRUE]))
      [] f.t # "done" /\ (s.terminal \/ f.t = "bad") -> Refused(Fresh(s))
      [] OTHER -> ChatTerminal(ChatChunk(s, f))

\* A stream may end without [DONE], not without a finish reason.
ChatEof(s) ==
    IF s.terminal THEN Fresh(s)
    ELSE IF s.reason THEN Ended(Fresh(s), "completed") ELSE Refused(Fresh(s))

(***************************************************************************)
(* Responses.  Every event names its output index; the item at an index    *)
(* has one kind and one text, reasoning or call.                           *)
(***************************************************************************)
ResponsesNew ==
    [ terminal |-> FALSE, started |-> FALSE,
      kinds |-> [i \in Slots |-> None], doneItems |-> {},
      openText |-> {}, text |-> [i \in Slots |-> 0], doneText |-> {},
      openReas |-> {}, reas |-> [i \in Slots |-> 0], doneReas |-> {}, enc |-> {},
      calls |-> {}, doneArgs |-> {}, doneCalls |-> {} ]

\* finish_reasoning_for_output: an item that only has encrypted reasoning gets
\* an empty block of its own.
FinishReasoning(r, i) ==
    LET ended(q) == Emit([q EXCEPT !.s.doneReas = @ \cup {i}, !.s.openReas = @ \ {i}],
                         "finished", "reasoning", i, 0)
    IN IF i \in r.s.doneReas THEN r
       ELSE IF i \in r.s.openReas THEN ended(r)
       ELSE IF i \in r.s.enc THEN ended(Emit(r, "started", "reasoning", i, 0))
       ELSE r

FinishOtherReasoning(r, i) ==
    FoldLeft(FinishReasoning, r, SetToSortSeq(r.s.openReas \ {i}, <))

Expected(r, i, kind) == r.s.kinds[i] = kind /\ i \notin r.s.doneItems

ItemAdded(r, f) ==
    LET i == f.ix
        added == FinishOtherReasoning([r EXCEPT !.s.kinds[i] = f.kind], i)
    IN IF r.s.kinds[i] # None \/ i \in r.s.doneItems THEN Refused(r)
       ELSE CASE f.kind = "tool" ->
                   Emit([added EXCEPT !.s.calls = @ \cup {i}], "started", "tool", i, 0)
              [] f.kind = "reasoning" /\ f.enc -> [added EXCEPT !.s.enc = @ \cup {i}]
              [] OTHER -> added

TextDelta(r, f) ==
    LET i == f.ix
        open == IF i \in r.s.openText THEN r
                ELSE Emit([r EXCEPT !.s.openText = @ \cup {i}], "started", "text", i, 0)
    IN IF ~Expected(r, i, "text") \/ i \in r.s.doneText THEN Refused(r)
       ELSE Emit([open EXCEPT !.s.text[i] = @ + f.n], "delta", "text", i, f.n)

ReasoningDelta(r, f) ==
    LET i == f.ix
        open == IF i \in r.s.openReas THEN r
                ELSE Emit([r EXCEPT !.s.openReas = @ \cup {i}], "started", "reasoning", i, 0)
    IN IF ~Expected(r, i, "reasoning") \/ i \in r.s.doneReas THEN Refused(r)
       ELSE Emit([open EXCEPT !.s.reas[i] = @ + f.n], "delta", "reasoning", i, f.n)

\* The end of a summary part adds a separator to a block that is open.
PartDone(r, f) ==
    IF ~Expected(r, f.ix, "reasoning") THEN Refused(r)
    ELSE IF f.ix \notin r.s.openReas THEN r
    ELSE Emit([r EXCEPT !.s.reas[f.ix] = @ + 1], "delta", "reasoning", f.ix, 1)

ArgumentsDelta(r, f) ==
    IF ~Expected(r, f.ix, "tool") \/ f.ix \in r.s.doneArgs THEN Refused(r)
    ELSE Emit(r, "delta", "tool", f.ix, 1)

ArgumentsDone(r, f) ==
    IF ~Expected(r, f.ix, "tool") \/ f.ix \in r.s.doneArgs THEN Refused(r)
    ELSE [r EXCEPT !.s.doneArgs = @ \cup {f.ix}]

EmitFunction(r, i) ==
    LET started == IF i \in r.s.calls THEN r ELSE Emit(r, "started", "tool", i, 0)
    IN Emit([started EXCEPT !.s.calls = @ \ {i}, !.s.doneCalls = @ \cup {i}],
            "finished", "tool", i, 1)

\* Mutant: the whole text is sent behind what was streamed.
CaptureWholeMessage(r, i, n) ==
    IF n = 0 THEN r ELSE
    LET begun == IF r.s.text[i] = 0 THEN Emit(r, "started", "text", i, 0) ELSE r
        sent == Emit([begun EXCEPT !.s.text[i] = n], "delta", "text", i, n)
    IN Emit([sent EXCEPT !.s.openText = @ \ {i}, !.s.doneText = @ \cup {i}], "finished", "text", i, 0)

\* The text of a complete message: the suffix that was not streamed is sent,
\* a text that does not extend the streamed one is refused.
CaptureMessage(r, i, n) ==
    LET had == r.s.text[i]
        begun == IF had = 0 /\ n > 0 THEN Emit(r, "started", "text", i, 0) ELSE r
        sent == IF n > had THEN Emit([begun EXCEPT !.s.text[i] = n], "delta", "text", i, n - had)
                ELSE begun
    IN IF n < had THEN Refused(r)
       ELSE IF i \in r.s.doneText \/ (i \notin r.s.openText /\ n = 0) THEN sent
       ELSE Emit([sent EXCEPT !.s.openText = @ \ {i}, !.s.doneText = @ \cup {i}],
                 "finished", "text", i, 0)

\* The reasoning of a complete item: an extension is streamed, any other text
\* replaces the block once it is closed; an empty one keeps what was streamed.
CaptureReasoning(r, i, n, enc) ==
    LET had == r.s.reas[i]
        differs == n > 0 /\ n # had
        replays == enc /\ i \notin r.s.enc
        known == [r EXCEPT !.s.enc = IF enc THEN @ \cup {i} ELSE @,
                           !.s.reas[i] = IF differs THEN n ELSE @]
        open == IF i \in r.s.openReas THEN known
                ELSE Emit([known EXCEPT !.s.openReas = @ \cup {i}], "started", "reasoning", i, 0)
        extended == IF differs /\ n > had THEN Emit(open, "delta", "reasoning", i, n - had)
                    ELSE known
        closed == FinishReasoning(extended, i)
        replaced == Emit(known, "snapshot", "reasoning", i, known.s.reas[i])
    IN IF i \in r.s.doneReas THEN IF differs \/ replays THEN replaced ELSE known
       ELSE IF differs /\ n < had /\ i \in closed.s.doneReas
            THEN Emit(closed, "snapshot", "reasoning", i, n)
       ELSE closed

ItemDone(r, f) ==
    LET i == f.ix
        fresh == r.s.kinds[i] = None
        known == IF fresh THEN FinishOtherReasoning([r EXCEPT !.s.kinds[i] = f.kind], i) ELSE r
        captured ==
            CASE f.kind = "tool" -> IF i \in r.s.doneCalls THEN known ELSE EmitFunction(known, i)
              [] f.kind = "text" -> CaptureMessage(known, i, f.n)
              [] f.kind = "reasoning" -> CaptureReasoning(known, i, f.n, f.enc)
    IN IF i \in r.s.doneItems \/ ~(fresh \/ r.s.kinds[i] = f.kind) THEN Refused(r)
       ELSE [captured EXCEPT !.s.doneItems = @ \cup {i}]

\* The output of the terminal frame; items are indexed by their position.
CaptureItem(r, i, item) ==
    CASE r.err -> r
      [] ~r.err /\ item.kind = "reasoning" -> CaptureReasoning(r, i, item.n, item.enc)
      [] ~r.err /\ item.kind = "text" -> CaptureMessage(r, i, item.n)
      [] OTHER -> IF i \in r.s.doneCalls THEN r
                  ELSE ItemDone(r, [ix |-> i, kind |-> "tool", n |-> 0, enc |-> FALSE])

CaptureOutput(r, output) ==
    FoldLeftDomain(LAMBDA acc, p : CaptureItem(acc, p - 1, output[p]), r, output)

\* Mutant: a reasoning block that is still open is forgotten.
CloseOpenTexts(r) ==
    LET texts == FoldLeft(LAMBDA acc, i : Emit(acc, "finished", "text", i, 0),
                          r, SetToSortSeq(r.s.openText, <))
    IN [texts EXCEPT !.s.doneText = @ \cup r.s.openText, !.s.openText = {}]

CloseOpenParts(r) ==
    LET texts == FoldLeft(LAMBDA acc, i : Emit(acc, "finished", "text", i, 0),
                          r, SetToSortSeq(r.s.openText, <))
        reasons == FoldLeft(LAMBDA acc, i : Emit(acc, "finished", "reasoning", i, 0),
                            texts, SetToSortSeq(r.s.openReas, <))
    IN [reasons EXCEPT !.s.doneText = @ \cup r.s.openText, !.s.openText = {},
                       !.s.doneReas = @ \cup r.s.openReas, !.s.openReas = {}]

TerminalFrame(r, f) ==
    LET captured == CaptureOutput([r EXCEPT !.s.started = TRUE], f.output)
    IN IF captured.err THEN captured
       ELSE Ended(CloseOpenParts(captured), IF f.t = "completed" THEN "completed" ELSE "failed")

ResponsesIngest(s, f) ==
    LET r == Fresh(s) IN
    CASE s.terminal \/ f.t = "bad" -> Refused(r)
      [] ~s.terminal /\ f.t = "created" ->
           IF s.started THEN Refused(r) ELSE [r EXCEPT !.s.started = TRUE]
      [] ~s.terminal /\ f.t \in {"completed", "failed"} -> TerminalFrame(r, f)
      [] OTHER ->
           IF ~s.started THEN Refused(r)
           ELSE CASE f.t = "added" -> ItemAdded(r, f)
                  [] f.t = "text" -> TextDelta(r, f)
                  [] f.t = "reasoning" -> ReasoningDelta(r, f)
                  [] f.t = "partDone" -> PartDone(r, f)
                  [] f.t = "args" -> ArgumentsDelta(r, f)
                  [] f.t = "argsDone" -> ArgumentsDone(r, f)
                  [] f.t = "itemDone" -> ItemDone(r, f)

ResponsesEof(s) == IF s.terminal THEN Fresh(s) ELSE Refused(Fresh(s))
===============================================================================
