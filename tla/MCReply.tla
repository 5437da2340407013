----------------------------- MODULE MCReply ----------------------------------
(***************************************************************************)
(* A conversation's view in three parts, one per initial state: the stream *)
(* from the provider to the transcript (LlmStream), the queue that paces   *)
(* it to the view (ReplyBuffer) and the composer of the next message       *)
(* (ReferencePicker); and two small parts of the process that share the    *)
(* run: the session domains (SessionStores) and the log (DiagnosticLog).   *)
(* The values of the stream are frames a provider can send, among          *)
(* them the ones compatible endpoints get wrong (fragments without index,  *)
(* items that are completed late, twice or with another text).             *)
(***************************************************************************)
EXTENDS LlmStream

CONSTANTS Deltas, MaxDeltas, MaxEntries, DirectFollow, MinVisible, MaxVisible, TargetFrames,
          Blank, Queries, Hits, MaxSearches, MaxReads, MaxWrites,
          Loggers, QueueCapacity, BatchSize, MaxBytes, Backups, MaxDisplayLines,
          Earlier, MaxRecords, MaxProcesses

VARIABLES half, flow, q, backlog, scheduled, paced, held, timer, sends, pushed, shown,
          store, token, search, cursor, expanded, task, drafts, selected, pending, reads, begun,
          opener, stores, expired, slow, core, thread, call,
          accepted, lost, process, sender, shutting, asking, queue,
          worker, hand, buffer, unflushed, turn, files, page

Queue == INSTANCE ReplyBuffer
Picker == INSTANCE ReferencePicker
Both == INSTANCE SessionStores WITH worker <- thread
Log == INSTANCE DiagnosticLog

ASSUME LogAssumption == Log!Parameters

MCHits == {<<>>, <<<<"s", 1>>>>, <<<<"s", 1>>, <<"r", 1>>, <<"s", 2>>>>}

MCFrames == <<4, 1>>

Frag(i, d) == [index |-> i, id |-> d]
MCFragments == {<<Frag(0, "x")>>, <<Frag(None, "x")>>, <<Frag(None, None)>>,
                <<Frag(None, "y"), Frag(None, "x")>>}
Chunk(text, reasoning, tools, finish) ==
    [t |-> "chunk", text |-> text, reasoning |-> reasoning, tools |-> tools, finish |-> finish]
MCChunks ==
    {[t |-> "done"], [t |-> "bad"]}
    \cup {Chunk(a, b, <<>>, c) : a, b, c \in BOOLEAN}
    \cup {Chunk(FALSE, FALSE, fs, c) : fs \in MCFragments, c \in BOOLEAN}
    \cup {Chunk(TRUE, FALSE, <<Frag(None, "x")>>, FALSE)}

Item(k, n, enc) == [kind |-> k, n |-> n, enc |-> enc]
MCItemsDone == {Item("text", n, FALSE) : n \in 0..2} \cup {Item("tool", 0, FALSE)}
               \cup {Item("reasoning", n, FALSE) : n \in 0..2} \cup {Item("reasoning", 1, TRUE)}
MCOutputs == {<<>>} \cup {<<d>> : d \in MCItemsDone} \cup {<<Item("reasoning", 1, FALSE), d>> : d \in MCItemsDone}
MCItems ==
    {[t |-> "created"], [t |-> "bad"], [t |-> "failed", output |-> <<Item("text", 1, FALSE)>>]}
    \cup [t : {"added"}, ix : Slots, kind : {"text", "tool", "reasoning"}, enc : {FALSE}]
    \cup [t : {"added"}, ix : {0}, kind : {"reasoning"}, enc : {TRUE}]
    \cup [t : {"text"}, ix : Slots, n : 0..1]
    \cup [t : {"reasoning", "partDone", "args", "argsDone"}, ix : Slots, n : {1}]
    \cup {[t |-> "itemDone", ix |-> i] @@ d : i \in Slots, d \in MCItemsDone}
    \cup [t : {"completed"}, output : MCOutputs]
D(b, us) == [block |-> b, units |-> us]
MCDeltas == {D(0, <<"edge">>), D(0, <<>>), D(0, <<"base">>), D(0, <<"mark">>),
             D(0, <<"base", "mark", "base">>), D(1, <<"base">>), D(1, <<"mark", "base">>)}

queueVars == <<flow, q, backlog, scheduled, paced, held, timer, sends, pushed, shown>>

pickerVars == <<store, token, search, cursor, expanded, task, drafts, selected, pending, reads, begun>>

storesVars == <<opener, stores, expired, slow, core, thread, call>>

logVars == <<accepted, lost, process, sender, shutting, asking, queue,
             worker, hand, buffer, unflushed, turn, files, page>>

MCInit ==
    /\ Init /\ Queue!Init /\ Picker!Init /\ Both!Init /\ Log!Init
    /\ half \in {"stream", "queue", "composer", "stores", "log"}
    /\ half # "stream" => proto = "chat"
    /\ half # "composer" => store

MCNext ==
    \/ half = "stream" /\ Next /\ UNCHANGED <<half, queueVars, pickerVars, storesVars, logVars>>
    \/ half = "queue" /\ Queue!Next /\ UNCHANGED <<half, vars, pickerVars, storesVars, logVars>>
    \/ half = "composer" /\ Picker!Next /\ UNCHANGED <<half, vars, queueVars, storesVars, logVars>>
    \/ half = "stores" /\ Both!Next /\ UNCHANGED <<half, vars, queueVars, pickerVars, logVars>>
    \/ half = "log" /\ Log!Next /\ UNCHANGED <<half, vars, queueVars, pickerVars, storesVars>>

MCSpec ==
    /\ MCInit /\ [][MCNext]_<<half, vars, queueVars, pickerVars, storesVars, logVars>>
    /\ Queue!Fairness

(* A reply ends once, and so does the opening, the flush or the shutdown of *)
(* the two session domains, of which none is answered for by the other      *)
(* (LlmStream!OneOutcome, SessionStores!DomainsHold: the session of the     *)
(* gateway and its Drop, open_with, flush, shutdown).                       *)
OutcomesTold == OneOutcome /\ (half = "stores" => Both!DomainsHold)

(* A reply is shown as it will be kept, and leaves no block open            *)
(* (LlmStream!LiveIsCanonical, LlmStream!BlocksClosed: the protocol         *)
(* adapters, MessageAssembler, ChatView).                                   *)
TranscriptInv == LiveIsCanonical /\ BlocksClosed

(* The popup is about its token and the chips are the selection             *)
(* (ReferencePicker!PopupFollows, ReferencePicker!ChipsExact:               *)
(* sync_completion_with_input, apply_search, handle_select, apply_read).    *)
ComposerInv == half = "composer" => Picker!PopupFollows /\ Picker!ChipsExact

(* What was handed over arrives, in order and once: the deltas that are     *)
(* merged and paced (ReplyBuffer!NothingLost) and the records of the log    *)
(* (DiagnosticLog!LogHolds).                                                *)
NothingLost ==
    /\ Queue!NothingLost
    /\ half = "log" => Log!LogHolds

(* What is queued is shown unless the conversation goes away                *)
(* (ReplyBuffer!EverythingShown: queue_delta, spawn_flush_task).            *)
EverythingShown == Queue!EverythingShown
===============================================================================
