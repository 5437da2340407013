------------------------------ MODULE LlmStream ------------------------------
(***************************************************************************)
(* One generation from its request to its outcome: llm/gateway over        *)
(* llm/transport and a protocol adapter, with the consumer that            *)
(* chat/assistant gives it and the live transcript chat/mod.rs builds.     *)
(***************************************************************************)
EXTENDS ProtocolStream, TLC
LOCAL INSTANCE SequencesExt
LOCAL INSTANCE FiniteSetsExt

CONSTANTS
    Protocols,      \* "chat", "responses"
    MaxFrames,      \* frames each of the two attempts delivers at most
    Chunks,         \* chunks of a Chat Completions stream
    Items           \* frames of a Responses stream

VARIABLES
    proto,      \* the protocol of the profile the selection resolved to
    phase,      \* where the transport stands: "idle", "connect", "body", "ended"
    attempt,    \* the attempt the transport is making
    frames,     \* frames of this attempt that reached the session
    escaped,    \* the attempts of which a frame reached the session
    adapter,    \* state of the protocol session
    late,       \* the provider sent content after its finish reason
    blocks,     \* the assembler: content index -> canonical block
    seen,       \* the live transcript: parts built from the delivered events
    told,       \* terminals the observer was told of, in order
    started,    \* generations the observer was told of
    outcome,    \* what the consumer got as Finished, None before
    dropped     \* the generation was dropped

vars == <<proto, phase, attempt, frames, escaped, adapter, late, blocks, seen, told,
          started, outcome, dropped>>

-------------------------------------------------------------------------------
(* The assembler and the transcript: two folds over the same events.         *)

Block(k) == [k |-> k, n |-> 0, fin |-> FALSE]

\* MessageAssembler::observe: what it refuses, and what it does otherwise.
Refuses(bs, v) ==
    LET there == v.ix \in DOMAIN bs
        same == there /\ bs[v.ix].k = v.k
    IN CASE v.e = "started" -> there /\ ~same
         [] v.e = "delta" -> v.k # "tool" /\ ~(same /\ ~bs[v.ix].fin)
         [] v.e = "finished" -> ~same /\ (there \/ v.k # "tool")
         [] v.e = "snapshot" -> ~(same /\ bs[v.ix].fin)

Assemble(bs, v) ==
    LET put(c) == With(bs, v.ix, c) IN
    CASE v.e = "started" -> IF v.ix \in DOMAIN bs THEN bs ELSE put(Block(v.k))
      [] v.e = "delta" -> IF v.k = "tool" THEN bs ELSE put([bs[v.ix] EXCEPT !.n = @ + v.n])
      [] v.e = "finished" -> put(IF v.k = "tool" THEN [k |-> "tool", n |-> 1, fin |-> TRUE]
                                 ELSE [bs[v.ix] EXCEPT !.fin = TRUE])
      [] v.e = "snapshot" -> put([bs[v.ix] EXCEPT !.n = v.n])

\* A frame's events up to the first refused one.
Assembled(bs, evs) ==
    FoldLeft(LAMBDA acc, v : IF acc.err \/ Refuses(acc.bs, v) THEN [acc EXCEPT !.err = TRUE]
                             ELSE [acc EXCEPT !.bs = Assemble(@, v)],
             [bs |-> bs, err |-> FALSE], evs)

\* The blocks of the canonical message.  It also keeps a reasoning block that has
\* no text and only what a later request replays, of which the view has nothing.
Visible(bs) == {i \in DOMAIN bs : bs[i].n > 0}
MessageOf(bs) == {<<i, bs[i].k, bs[i].n>> : i \in Visible(bs)}

\* ChatView's start_stream_*, append_stream_*, finish_stream_*, update_stream_*:
\* parts are found by index, kind and id, and never refuse an event.
PartOf(ps, v) == {p \in ps : p.ix = v.ix /\ p.k = v.k}
Replace(ps, v, f(_)) == {IF p \in PartOf(ps, v) THEN f(p) ELSE p : p \in ps}
NewPart(v) == [ix |-> v.ix, k |-> v.k, n |-> 0, fin |-> FALSE]

Begin(ps, v) == IF PartOf(ps, v) = {} THEN ps \cup {NewPart(v)} ELSE ps
Extend(ps, v) ==
    IF v.n = 0 THEN ps
    ELSE Replace(Begin(ps, v), v, LAMBDA p : IF p.fin THEN p ELSE [p EXCEPT !.n = @ + v.n])
Finish(ps, v) == Replace(ps, v, LAMBDA p : [p EXCEPT !.fin = TRUE])
FinishTool(ps, v) == Replace(Begin(ps, v), v, LAMBDA p : [p EXCEPT !.n = 1, !.fin = TRUE])
Snapshot(ps, v) == Replace(ps, v, LAMBDA p : IF p.fin THEN [p EXCEPT !.n = v.n] ELSE p)

\* project_stream_delta and semantic_event: arguments of a tool call are not
\* projected, every other event reaches its handler.
Project(ps, v) ==
    CASE v.e = "started" -> Begin(ps, v)
      [] v.e = "delta" /\ v.k = "tool" -> ps
      [] v.e = "delta" /\ v.k # "tool" -> Extend(ps, v)
      [] v.e = "finished" /\ v.k = "tool" -> FinishTool(ps, v)
      [] v.e = "finished" /\ v.k # "tool" -> Finish(ps, v)
      [] v.e = "snapshot" -> Snapshot(ps, v)

Transcript(ps) == {<<p.ix, p.k, p.n>> : p \in {q \in ps : q.n > 0}}

-------------------------------------------------------------------------------
Init ==
    /\ proto \in Protocols
    /\ phase = "idle" /\ attempt = 1 /\ frames = 0 /\ escaped = {}
    /\ adapter = IF proto = "chat" THEN ChatNew ELSE ResponsesNew
    /\ late = FALSE /\ blocks = <<>> /\ seen = {}
    /\ told = <<>> /\ started = 0 /\ outcome = None
    /\ dropped = FALSE

finished == told # <<>>

\* The observer and the consumer hear of one terminal.
Tell(status, bs) == told' = Append(told, [status |-> status, message |-> MessageOf(bs)])
Deliver(status, bs) == outcome' = [status |-> status, message |-> MessageOf(bs)]
Quiet == UNCHANGED <<told, outcome>>

\* Setup failures have no lifecycle: the selection, the messages or the model
\* name were refused before a generation existed.
PrepareFails ==
    /\ phase = "idle"
    /\ phase' = "ended" /\ dropped' = TRUE
    /\ UNCHANGED <<proto, attempt, frames, escaped, adapter, late, blocks, seen, told,
                   started, outcome>>

Prepare ==
    /\ phase = "idle"
    /\ phase' = "connect" /\ started' = started + 1
    /\ UNCHANGED <<proto, attempt, frames, escaped, adapter, late, blocks, seen, told,
                   outcome, dropped>>

Running == phase \in {"connect", "body"} /\ ~dropped

Body ==
    /\ Running /\ phase = "connect"
    /\ phase' = "body" /\ frames' = 0
    /\ UNCHANGED <<proto, attempt, escaped, adapter, late, blocks, seen, told, started,
                   outcome, dropped>>

Retry ==
    /\ attempt' = attempt + 1 /\ phase' = "connect" /\ frames' = 0
    /\ UNCHANGED <<proto, escaped, adapter, late, blocks, seen, told, started, outcome, dropped>>

\* The transport gives up: fail_with, unless the session has ended.
GiveUp ==
    /\ phase' = "ended"
    /\ IF finished THEN Quiet
       ELSE Tell("failed", blocks) /\ Deliver("failed", blocks)
    /\ UNCHANGED <<proto, attempt, frames, escaped, adapter, late, blocks, seen, started,
                   dropped>>

\* send fails, or the status is an error.  A connection error is retried once,
\* a status error only when it is a retryable one.
ConnectFails(retryable) ==
    /\ Running /\ phase = "connect"
    /\ IF attempt = 1 /\ retryable THEN Retry ELSE GiveUp

\* A read fails, or the body ends: a retry is safe only while no frame escaped.
BodyInterrupted ==
    /\ Running /\ phase = "body"
    /\ IF attempt = 1 /\ frames = 0 THEN Retry ELSE GiveUp

\* A frame too large or not UTF-8 is never retried.
BodyMalformed ==
    /\ Running /\ phase = "body"
    /\ GiveUp

\* finish_eof when the body ends after its last frame.
Eof ==
    /\ Running /\ phase = "body" /\ ~(attempt = 1 /\ frames = 0)
    /\ \E r \in {IF proto = "chat" THEN ChatEof(adapter) ELSE ResponsesEof(adapter)} :
       \E status \in {IF r.err THEN "failed" ELSE r.term} :
          adapter' = r.s /\ Tell(status, blocks) /\ Deliver(status, blocks)
    /\ phase' = "ended"
    /\ UNCHANGED <<proto, attempt, frames, escaped, late, blocks, seen, started, dropped>>

Content(f) == f.t = "chunk" /\ (f.text \/ f.reasoning \/ f.tools # <<>>)

Ingest(f) == IF proto = "chat" THEN ChatIngest(adapter, f) ELSE ResponsesIngest(adapter, f)

\* ingest_sse_data and the consumer's answer: it stops after a terminal, and at
\* a content event when the overflowing queue finds its runtime released.  A
\* frame refused by the adapter or by the assembler ends the generation; the
\* consumer sees none of its events.
Frame(f, stops) ==
    /\ Running /\ phase = "body" /\ frames < MaxFrames[attempt]
    /\ \E r \in {Ingest(f)} :
       \E a \in {Assembled(blocks, IF r.err THEN <<>> ELSE r.ev)} :
       \E failed \in {r.err \/ a.err} :
       \E status \in {IF failed THEN "failed" ELSE r.term} :
       /\ stops => ~failed /\ r.ev # <<>>
       /\ frames' = frames + 1 /\ escaped' = escaped \cup {attempt}
       /\ adapter' = r.s /\ blocks' = a.bs
       /\ late' = (late \/ (proto = "chat" /\ adapter.reason /\ Content(f)))
       /\ seen' = IF failed \/ stops THEN seen ELSE FoldLeft(Project, seen, r.ev)
       /\ phase' = IF stops \/ status # None THEN "ended" ELSE phase
       /\ IF stops THEN Tell(IF status = None THEN "cancelled" ELSE status, a.bs) /\ UNCHANGED outcome
          ELSE IF status = None THEN Quiet ELSE Tell(status, a.bs) /\ Deliver(status, a.bs)
       /\ UNCHANGED <<proto, attempt, started, dropped>>

\* The stop button aborts the run; a generation that has not ended is cancelled.
Stop ==
    /\ Running
    /\ phase' = "ended"
    /\ Tell("cancelled", blocks) /\ Deliver("cancelled", blocks)
    /\ UNCHANGED <<proto, attempt, frames, escaped, adapter, late, blocks, seen, started,
                   dropped>>

\* Mutant: the drop reports a cancellation whatever the generation told before.
DropTellsAgain ==
    /\ phase # "idle" /\ ~dropped /\ dropped' = TRUE
    /\ phase' = "ended"
    /\ Tell("cancelled", blocks)
    /\ UNCHANGED <<proto, attempt, frames, escaped, adapter, late, blocks, seen, started,
                   outcome>>

\* The reply task is dropped at any of its suspensions, or has returned: the
\* session's Drop cancels what has not ended.
Drop ==
    /\ phase # "idle" /\ ~dropped /\ dropped' = TRUE
    /\ phase' = "ended"
    /\ IF finished THEN UNCHANGED told ELSE Tell("cancelled", blocks)
    /\ UNCHANGED <<proto, attempt, frames, escaped, adapter, late, blocks, seen, started,
                   outcome>>

Done == dropped /\ UNCHANGED vars

Next ==
    \/ PrepareFails \/ Prepare \/ Body
    \/ \E retryable \in BOOLEAN : ConnectFails(retryable)
    \/ BodyInterrupted \/ BodyMalformed \/ Eof
    \/ \E f \in IF proto = "chat" THEN Chunks ELSE Items, stops \in BOOLEAN : Frame(f, stops)
    \/ Stop \/ Drop
    \/ Done

Spec == Init /\ [][Next]_vars

-------------------------------------------------------------------------------
(* Every generation that was started reports one terminal, whichever of     *)
(* completion, failure, stop, a consumer that went away and Drop comes      *)
(* first, the consumer is told the same as the observer, and a request is   *)
(* sent again only while nothing of its answer reached the session: no      *)
(* outcome and no output twice (GatewaySession::finish, cancel and Drop;    *)
(* HttpTransport::stream).                                                  *)
OneOutcome ==
    /\ Len(told) <= started
    /\ dropped => Len(told) = started
    /\ outcome # None => told = <<outcome>>
    /\ 1 \in escaped => attempt = 1

(* The transcript built live from the events is the message of the outcome, *)
(* unless the generation failed, whatever it failed of; and what the        *)
(* adapter holds as streamed, from which it computes the suffix a complete  *)
(* item still adds, is what the assembler holds (capture_text_part,         *)
(* capture_reasoning_item against MessageAssembler and ChatView).           *)
LiveIsCanonical ==
    /\ outcome # None /\ outcome.status # "failed" => Transcript(seen) = outcome.message
    /\ proto = "responses" /\ ~finished =>
         \A i \in DOMAIN blocks :
            /\ blocks[i].k = "text" => blocks[i].n = adapter.text[i]
            /\ blocks[i].k = "reasoning" => blocks[i].n = adapter.reas[i]

(* When a generation completes, no text or reasoning block is left open,    *)
(* unless a Chat Completions provider sent content after its finish reason  *)
(* (finish_parts, close_open_parts).                                        *)
BlocksClosed ==
    outcome # None /\ outcome.status = "completed" /\ ~late =>
        \A p \in seen : p.k # "tool" => p.fin
===============================================================================
