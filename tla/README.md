# A TLA+ model of Nostra

Nostra is a desktop chat client written in Rust on GPUI. It stores every
conversation as an append-only JSONL file, indexes the files in SQLite, runs
generations on exchangeable providers, and mounts its services as components
with reversible effects. This directory holds TLA+ models of the parts whose
correctness depends on order, failure and concurrency, the TLC configurations
that check them on small instances, and theorems that TLAPS proves for every
instance: about the durable recorder, the barrier of a domain, the reconciler
and the composition root, the local store, and the turns of a conversation.

Paths below are relative to `src/src/` of the repository.

## 1. Inventory

| Component | State it keeps | Operations | What makes it correct | Here |
|---|---|---|---|---|
| Durable recorder (`session/recorder.rs`, `session/jsonl.rs`) | file, identities and leaf known to the writer, exact pending batch | append, set leaf, flush, shutdown, drop, abandon | the file always loads; what is acknowledged is durable; a failed batch is neither lost, repeated nor overtaken | modelled |
| Entry validation and session tree (`session/tree/`) | identities, branch structure | validate an entry, resolve a branch, rows and branches that are shown | what is accepted loads at every leaf | modelled |
| Domain core (`session/service/core.rs`, `capabilities.rs`) | accepting / active / closed, store mutex | mutate, authorized task, read, flush, shutdown | nothing enters the store behind its final flush | modelled |
| Session domains (`session/service/domains.rs`) | chat and agent, each opening, ready or unavailable | open under a deadline, flush and shut down both | each domain reports its own outcome | modelled |
| Conversation controller (`session/chat/mod.rs`) | pending turn and terminal, bound session, model, deleted flag | begin_turn, finish_turn, resume, restore, delete | a retry never writes a fact twice | modelled |
| Conversation runtime (`chat/persistence/`, `chat/conversation_runtime.rs`) | generation counter, pending terminal, tasks and channels | submit, end of a generation, delete, shutdown, release | every turn begun is ended; deleted stays deleted | modelled |
| Restore (`chat/persistence/restore.rs`) | next turn id, model | restore a session | it goes on where the log stands | modelled |
| Local store (`session/local/`) | handles, projection intents | create, append, set_leaf, flush, repair, delete, evict, reads | a file on disk is listed or an obligation to list it exists | partly |
| Catalog (`session/catalog/`) | rows, projects, intents, repair key, marker file | open, project, apply repair, delete, lists, searches | the obligation goes only after what it is for is done; a row is what a rebuild would write | partly |
| In-memory store (`session/memory/`) | map of sessions | same interface | what the local store has to look like | modelled |
| Domain types, references (`session/domain/`, `session/reference/`) | - | entry kinds, exact read, search | - | partly |
| Reconciler (`runtime/reconcile.rs`) | desired state, active and candidate mount, stop attempt, last failure | set_desired, retry, reconcile, cancel, drop | no effect is lost; settled means settled | modelled |
| Effect scopes and scope tree (`runtime/effect.rs`, `scope.rs`) | owned effects; tree of scopes | own, dispose, release on drop; open, close | newest first, children before parents; a failed stop blocks what is older | modelled |
| Capability slots, registries (`runtime/capability.rs`, `contribution.rs`, `workspace.rs`, `dependency.rs`) | slot of each capability; layers of definitions | install, replace, revoke, resolve; register, revoke | one provider per slot; a registration revokes itself only | modelled |
| Composition, generation admission (`runtime/composition.rs`, `generation_mount.rs`, `provider.rs`, `diagnostics.rs`) | active provider, candidate, mounted service, permits; published snapshot | build and clean up, replace, close; start and end a generation; subscribe | a provider is taken apart only when nobody uses it | partly |
| Application exit (`runtime/exit.rs`) | one shared exit report | run once, wait | the durable shutdown runs once, everyone is answered | modelled |
| Assistant, LLM gateway (`chat/assistant/`, `llm/`) | adapter, assembler, live transcript, paced queue | start, events, cancel, retry, flush | one outcome; what is shown is what is kept | modelled |
| Settings and preferences (`providers.rs`, `preferences.rs`, `settings/`, `ui/model_select/`) | two documents with their files; page, picker and conversations | edit, select, save | the parts agree with the catalog; what was saved stays saved | modelled |
| Logging (`logging/`, `settings/logs.rs`) | queue, buffer, rotated files, viewer | record, drain, rotate, shut down, reload | accepted records are kept in order | modelled |
| Workspaces of the shell (`shell/app/`) | open conversations, catalogs, background tasks | choose, restore, page, refresh, star, delete | no late answer takes the pane or a list | modelled |
| Composer, reference picker (`ui/reference_picker/`) | token, popup, drafts, chips | type, search, select, read, submit | popup and chips are about the draft that is there | modelled |
| User interface (`ui/`, views of `chat/`) | views | rendering | - | not modelled: no protocol |

How they interact. The runtime (foreground thread) calls the controller from
detached background workers and hears from them over one-shot channels; the
controller, under its own mutex, calls a session domain; the domain core
admits the call with an operation slot and takes the store mutex; the local
store turns it into durable steps on the recorder (which has its own thread)
and the catalog. A generation runs on its own thread through a protocol adapter
and the transport; its deltas pass a paced queue to the view. The workspaces
read the catalog in the background and restore conversations from it. At exit
the runtime detaches its turns, the domain cores stop admitting and drain, and
the composition root takes its components apart. Beside this, consumers call
the generation service, whose provider the composition root can replace under
them, and the settings window edits the documents everyone observes.

What is hard: partial writes and failed syncs; the process or the machine
stopping between two durable steps; retries of calls whose effect is unknown;
answers that arrive after the world has moved on; entities that vanish with
their ends of the channels; waits that need somebody else to give a slot or a
permit back; futures dropped at an await and polled again; rollbacks that fail
themselves; provider streams that repeat, omit or reorder their fragments.
`PROJECT.json` lists each hazard at its line, with the properties that guard
it, or the reason why none does.

## 2. Modules

`A <- B` reads "B extends A"; a module in brackets is an instance.

```
DurableLog  <--refines--  JsonlRecorder  <-  JsonlRecorderProofs

SessionEntries <- SessionTree  --refines-->  InMemoryStore
LocalStore     <- MCLocalStore     [SessionTree, CatalogPages]   <-  LocalStoreProofs
SessionTree    <- MCLeafMarker

ChatController <- ConversationRestore
ChatController <- TurnPersistence  <- MCTurns        [ConversationRestore]  <-  TurnsProofs

EffectScope    <- Reconciler       <- MCReplacement  [CompositionRoot]
MCReplacement  <- ReplacementProofs
EffectScope    <- ScopeTree, Startup
StoreBarrier   <- MCRuntime        [ScopeTree, Startup, AppExit, Registry, SnapshotFeed,
                                    CapabilitySlots, LiveDocument]   <-  RuntimeProofs
ProtocolStream <- LlmStream        <- MCReply        [ReplyBuffer, ReferencePicker,
                                                      SessionStores, DiagnosticLog]   <-  ReplyProofs
ConversationHost <- ChatWorkspace  <- MCShell        [ProjectWorkspace, ProviderCatalog,
                                                      ModelSettings]
ConversationHost <- ProjectWorkspace <- MCOpenPane
```

Each module opens with what it stands for; `PROJECT.json` maps each definition
to its lines. Definitions under a comment `Fault:` are not part of any
specification: each is a plausible bug, put in place of a definition to show
that a property notices it.

An `MC` module puts several specifications into one run, one per initial state:
a variable (`part`, `view`, `half`) says which of them moves, the others stay
where they start. The parts do not interact; their state spaces are added, not
multiplied. Where components do interact, one module takes the other by the
outcomes it can have: TurnPersistence the session domain and the store,
LocalStore the recorder, SessionStores the barrier of one domain.

### Session storage

**JsonlRecorder.** One action per stage of `run_worker`: `AppendBatch`,
`SetLeaf`, `Flush`, `Drop`, `Abandon`, `Abort` start a command; `Reconcile`,
`Rewrite`, `Resync` are `persist_pending` (the exact batch is matched against
the reopened file, only the missing suffix is written, and a batch found whole
is synced again); `Write`, `Sync`, `FlushFile` are the ordinary path; each has
its failing twin. The file is a sequence of records of which the first `synced`
are stable, and `tail` says how its bytes end. `Crash` keeps any prefix that
contains the stable records; `Open` repairs the tail. `ForeignAppend` is another
well-behaved program. A sync that succeeds after one that failed counts as
durable. The command queue (64 places) is not modelled because a single
synchronous owner uses it, and the successor of a recorder is opened only after
the old worker ended (the 5 s after which `Drop` stops waiting are not modelled).

**DurableLog.** What the recorder promises: stable storage only grows at its
end, holds no fact twice, and holds everything acknowledged.

**LocalStore.** One session in the directory, its row, its obligations, and the
processes that share them. Each operation is the sequence of its durable steps,
so that it can fail, the process can be killed (`Kill`) or the machine can lose
power (`PowerLoss`) between any two; `LoseIndex` removes the index while no
process runs. Facts are a set of ids; a power loss keeps any set of unsynced
facts and either version of an unsynced directory entry. `EnsureHandle` reloads
a handle whose stamp no longer matches the file. Intents are labelled by who
left them: a process, "orphan" for one that ended, "repair". Other sessions
appear only through `Evict`. Not modelled: reopening an index that is replaced
while a store is open, symbolic links, duplicate sources, two writers whose
bytes interleave, a create over a name that is unlinked but not yet synced.

**SessionEntries, SessionTree, InMemoryStore.** The entries inside one file.
`SessionEntries` holds the kinds of entries, both validators
(`validate_session_entries` over a whole file, `AppendValidationState` entry by
entry), the resolution of a leaf and of the messages behind a compaction, and
the projection a catalog row is made from. `SessionTree` is the store with one
open handle: appends of single entries and batches, set_leaf, flush, a failing
write of the file (the batch stays with the recorder) or of the catalog (the row
is no longer trusted), and a reload. Beside the state it defines what is read:
the active branch, the rows and branch choices of the views, the search of
messages and the exact read. `InMemoryStore` is the abstract store: what a
caller may rely on when nothing is ever lost.

**CatalogPages.** The rows of many sessions and the projects: keyset pages of
the SQLite catalog, `Lists` of the store in memory, and a reader that takes one
page after another while sessions are created, touched and deleted.

**StoreBarrier.** Threads around one `SharedStoreCore`: mutators, the threads of
`start_flush` and `start_shutdown` with their waiting callers, tasks with a
`SessionOperationGuard`, and readers. Any store call hangs (it just never steps),
fails or panics, which poisons the mutex. Poisoning of the small
`OperationState` mutex is left out, as nothing panics under it; a panic in an
authorized call releases lock and slot in one step.

**SessionStores.** The two domains side by side: the openers with their
deadline, the capabilities handed out, flush and shutdown as a thread per domain
and one caller who waits for both in order. A domain that failed to open, hangs
or is poisoned is reported by name; the barrier inside it is StoreBarrier.

### Conversations

**ChatController.** `ChatSessionController` as operators from a controller and a
store to the set of possible results (controller, store, answer); every
operation runs under the controller's lock. A failing append may have written
nothing, queued its batch in the recorder, or written it; a failing create or
delete may have done its work on the file. `BeginTurn` writes the fact of a
changed model before the user's fact, in one batch; `Restore` takes model, turns
and pending state from a log.

**TurnPersistence.** The handlers of `ConversationRuntime` (one step each, on the
foreground thread), the detached workers of `TurnPersistenceCoordinator`, and
their channels. `Submit`, `BeginAnswered`, `GenerationEnds`, `TerminalAnswered`,
`DetachedAnswered`, `PrepareForShutdown`, `RequestDelete`, `DeleteAnswered`,
`ScopeClosed` and `Release` are foreground steps; `WorkerBegins`,
`WorkerFinishes` and `Delete` run in the background; `StopAccepting` and `Seal`
are the store's shutdown as StoreBarrier shows it. Releasing the entity is the
window being closed. Branches of `GenerationEnds` that the runtime keeps
defensively and cannot reach are kept as well.

**ConversationRestore.** The same controller over several runs of the
application: turns begin and end, the application crashes (at any point of a
turn; what only the recorder's queue holds is gone) or exits, the user chooses
another model, a new runtime reads the log and goes on with the next turn id and
the model of the log.

**ProtocolStream, LlmStream.** The adapters of both provider protocols as
operators from an adapter and a decoded frame to an adapter and canonical
events, with their errors; then one generation: the transport that retries until
a frame has reached the session, the session with its two threads of control
(the consumer may cancel, or drop the handle), the assembler of the final
message, and the transcript the view builds from the events. Text is its length
in fragments. Not modelled: the encoding of requests, metrics, SSE bytes.

**ReplyBuffer.** The queue between generation and view: deltas that are merged,
the direct path, the paced path with its timer, cuts at grapheme boundaries, and
the outcome, which is held until the queue is shown.

**ReferencePicker.** The composer: the `$` token and its popup, searches in the
background that answer for a query that is no longer there, exact reads that
answer after the draft changed, chips, a pasted reference, and the submit.

### Runtime

**EffectScope.** Pure operators on one scope: `Unwound` undoes what is newer than
the newest asynchronous owner (`Barrier`), `Popped` removes an owner that
stopped, `Abandoned` is what a drop leaves in force.

**Reconciler.** `ScopeLocalReconciler`. A step is the code between two awaits or
one turn of the loop. The desired state changes, or `retry` is called, at every
await and inside the callbacks of the lifecycle; `Cancel` drops the future at an
await and leaves the interruption its guard records; `Drop` drops the
reconciler. A mount is named by the revision it was prepared for. `begun` and
`live` are history: the transitions begun, and the effects in force. The type is
crate-private and today driven by its tests. Panics are not modelled.

**ScopeTree.** The application, its window and the window's conversations as
scopes with effects and a capability slot. A close takes the tree out of its
owner, closes children first and newest first, waits at each asynchronous
effect, fails anywhere, is retried or dropped; a scope opened meanwhile is
refused.

**CompositionRoot.** `replace_generation_provider` and `close` on a built root,
with consumer threads on the stable `MountedGenerationService`. `Quiesce` closes
admission and `Release` of the last permit wakes it; `RollBackPending` and
`Quiesced` begin to take an instance apart, `StopAnswers` is one stop that
answers Ok. `Cancel` drops the future at any await. `inst` keeps every instance
ever prepared, so that one the root lost would still be seen. The other
components close in one step (`OthersFail`, `CloseEnds`), the durable exit that
precedes them either fails (`ExitFails`) or goes on. Nothing in the application
calls `replace_generation_provider` yet; it is public and has tests.

**Startup.** `CompositionRootBuilder::build`: preparation, contributions,
activation, audit, each of which may fail, and `StartupCleanup`, which undoes
what was done in reverse, may fail itself, and is tried once more by `settle`.

**AppExit.** Several callers of the one exit: the first runs it, with a thread
for the sessions and one for the preferences, until a deadline; all are given
one report.

**Registry, CapabilitySlots, SnapshotFeed.** Scoped definitions that shadow each
other and are revoked by their own token, and refused when a counter has
reached its width; exclusive slots whose provider is installed, replaced and revoked by its
own registration, with a resolver that remembers what it resolved; the published
snapshot with subscribers that poll, register a waker, come and go.

### Shell and settings

**ConversationHost, ChatWorkspace, ProjectWorkspace.** The open conversations of
a workspace with their index; the Chat workspace with its history sidebar; the
Project workspace with projects, lists and deletions of whole projects. A
background task is a record in the slot that holds it: it has not been read,
has read, or failed; its continuation is an action; replacing or clearing the
slot drops it, and a delete that has begun in a thread (`erase`, `strays`) still
happens. Commands of the user and failures are bounded.

**ProviderCatalog, ModelSettings.** Every edit of the document, the check of a
selection before a request, and the three who work on it: the page of the
settings window with its text fields, the conversations, and the picker in the
title bar. A click on a button blurs the field that had the focus first; that is
how the toolkit orders them and the model relies on it.

**LiveDocument.** Preferences and providers, in memory and on disk, each a line
and a number of changes: saves on the foreground thread that may fail, the exit's
snapshot on a thread of its own, the settings window that reverts a preview while
it closes, crashes and restarts. Both loads fall back to the defaults when the
file cannot be read or parsed, for whatever reason; such a start begins a new
line (`Loaded`) and leaves the file as it is until the run saves something.

**DiagnosticLog.** Threads, a bounded queue that drops when it is full, the
writer with its batch and flush deadline, rotation as a sequence of renames,
shutdown within a deadline, restarts and crashes, and the viewer, which reads
the files one by one while they rotate.

## 3. Runs

| Run | Parts and bounds | Properties |
|---|---|---|
| `recorder` | 3 own records, batches of up to 2, 1 crash, 1 foreign append | `TypeOK`, `SourceLoads`, `OneChain`, `PendingReported`, `PendingKept`, `ImplementsDurableLog` |
| `store` | row: 1 process started 3 times, 3 facts, 1 power loss, 1 index loss; tree: 5 entries, 1 failing write; lists: 3 sets of sessions, 2 changes, pages of 1 | `RowInv`, `ConfirmedDeleteIsFinal`, `FlushSettles`; `TreeInv`, `AppendsExtend`, `ActsAsMemory`; `ListsInv` |
| `delete_retry` | as the row part of `store` | finding 2 |
| `shared_store` | 2 processes, 3 starts, 3 facts, no losses | finding 3 |
| `leaf_marker` | 4 entries, callers may make a marker the leaf | finding 4 |
| `turns` | turns: 2 submits, 2 texts, 2 delete requests, 3 workers, 2 failing store calls; restore: 3 turns, 2 stops, 2 models | `TurnsHold`, `NoStrandedTurn`, `SealedTurnsEnded`, `DeletedStaysDeleted`, `ShutdownDrains` |
| `turn_id_reuse` | 2 submits, 1 delete request, 1 failing call | finding 1 |
| `replacement` | reconciler: 2 desired states, 3 revisions, 2 effects per mount; root: 2 providers, 2 consumers, 3 instances | `MountsOwned`, `LifoUndo`, `OncePerRevision`, `QuietDisposal`, `AnswersHold`, `ClosesClean`, `CallsReturn` |
| `reply` | stream: the frames of `MCReply` for either protocol, 4 in the first attempt, 1 in its retry; queue: 4 deltas, 3 places; composer: 3 searches, 2 reads; log: 3 full files of 2 records and 3 new records, 2 processes; domains: 1 mutation each | `OutcomesTold`; `TranscriptInv`; `NothingLost`, `EverythingShown`; `ComposerInv` |
| `runtime` | scopes: 3, 2 effects; start: 2 effects a step, 2 contributions; exit: 3 callers; registry: 3 scopes, counters up to 5; feed: 2 subscribers, 4 snapshots; barrier: 1 mutator, 1 flush, 1 task, 1 reader, 2 shutdowns; slots: 2 scopes, 2 providers, 3 generations; documents: 2 changes, 2 restarts | `RuntimeOwned`, `UndoneInOrder`, `WaitersServed`, `BarrierHolds`, `SavedStays` |
| `shell` | chat: 4 sessions, pages of 1, 3 commands, 1 fault; projects: 3 of which 2 known, the same bounds; settings: 2 conversations, 3 models, 2 changes | `ShellInv`, `ChoiceWins`, `ShellLoadsEnd`; `SettingsInv`, `NoNewDuplicates` |
| `open_pane` | 2 projects, 3 sessions, 6 commands, no faults | finding 5 |

A property of an `MC` module that joins several parts is the conjunction of what
each of them has to say; the comment before it names the conjuncts:

| Property | Conjuncts |
|---|---|
| `RowInv` | `Recoverable`: a file on disk is in its row or an obligation to rebuild it exists; `CatalogInv`: no row without a file unless it will be looked at again |
| `TreeInv` | `LogLoads`, `RowExact`, `SearchExact`, `BranchesExact` |
| `ListsInv` | `PagesExact`, `ListsAgree` |
| `TurnsHold` | `TurnInv` (`OneTerminalPerTurn`: at most one user fact and one terminal per turn, in order), `GoesOn` (a restored conversation uses no id twice and goes on with the model of its log) |
| `MountsOwned` | `ReconcilerInv`, `RootInv`: one thing is published, every effect in force has an owner; and `SnapshotTrue`: the snapshot names what is mounted and what is still held (a candidate of the same provider as an active one that is still held is not reported apart from it, as in the code) |
| `AnswersHold`, `CallsReturn` | `SettledExact`, `AnswersTrue`; `ReconcileEnds`, `CallsEnd` |
| `OutcomesTold` | `OneOutcome` of a stream; `DomainsHold` of the two session domains |
| `TranscriptInv` | `LiveIsCanonical`, `BlocksClosed` |
| `NothingLost` | `NothingLost` of the queue; `LogHolds` |
| `ComposerInv` | `PopupFollows`, `ChipsExact` |
| `RuntimeOwned` | `StartupExact`, `OneExit`, `OwnersKeep`, `SlotsHold` |
| `UndoneInOrder` | `ScopesOwned` (always), `InnerFirst`, `UndoneInReverse`, `RevisionTells` |
| `WaitersServed` | `CallersAnswered`, `SubscribersCatchUp`, `ShutdownCloses` |
| `BarrierHolds` | `SlotsExact`, `NothingBehindTheBarrier`, `NoReadAfterSeal` |
| `ShellInv` | `ListedOnce`, `DraftShown`, `RowsDistinct` and, in `TypeOK`, the agreement of list, index and active view (`HostOK`) |
| `ChoiceWins`, `ShellLoadsEnd` | `NewestChoiceWins`, `ActiveFollowsOpen`; `LoadsEnd` of either workspace |

Why the bounds are enough for the cases that matter. Recorder: a batch of two
can be cut between its records, and a third record can queue behind it while it
waits; one crash and one foreign append can fall into any stage. Row: three
starts let a process create and stop, a second repair and stop in the middle,
and a third observe; three facts are one durable, one pending and one new. Tree:
five entries hold a header, two branches and a compaction or summary with its
target; one failing write is followed by the reload or the retry. Lists: three
sessions with two timestamps contain a tie and a project with two sessions, and
pages of one put a change between any two rows. Turns: the second submit resumes
what the first left; two failures cover a worker that fails both attempts, or a
begin and its retry; the third worker is a detached terminal of the previous
turn. Restore: a turn before, between and after two stops. Reconciler: of three
revisions the first mounts, the second replaces it and is interrupted, the third
comes back to the first; two effects put a synchronous one before or behind an
asynchronous barrier (the theorems are about any number). Root: three instances are the built one, a candidate that
fails and a third that succeeds; two consumers can hold a permit and a stale
service at once. Barrier: a mutator and a task contend for the mutex while one
shutdown drains and the second is refused. Stream: four frames interleave two
blocks and complete them late, twice or with another text; the first attempt can
fail before or behind its first frame, and a retry starts as the first did. Queue: four deltas overflow three places.
Log: three full files are one more than are kept. Shell: four sessions are two
pages beyond the first and a new one; three commands are a choice, one that
overtakes it, and a deletion of either.

Deadlock is checked in `recorder` and `reply`. It is switched off where the
system may stop: turns, store and shell run out of their bounds, a reconciler may
be dropped, and a closed root with idle consumers has nothing left to do.

### Fairness

- `StoreBarrier`: only `Receive \/ GiveUp` of a waiting caller is fair; it has a
  deadline (`recv_timeout`). Every other step may hang for ever, and
  `ShutdownCloses` holds all the same.
- `AppExit`: the runner goes on until its deadline passes (`Finish`,
  `DeadlinePasses`), hears what its threads send (`Hear`), and a waiting caller is
  woken (`Answered`). The two threads themselves may hang.
- `TurnPersistence`: the executors run each spawned task (`WorkerStep(w)`,
  `ForegroundStep`, `Delete`), and the shutdown goes on when the last slot is
  back (`Seal`). Submits, deletes, the end of a generation and the release of the
  entity are not fair: the user need not do any of them.
- `Reconciler`: a polled future goes on (`Loop`), and what it awaits answers, be
  it with an error (`Answer`), which the contract of `AsyncStop` and of the
  lifecycle asks. New desired states and cancellation are not fair.
- `CompositionRoot`: a polled call goes on (`Call`), and a generation that was
  started ends, is cancelled or is dropped (`Release(c)`); without it the wait
  in `close_and_wait`, which has no deadline, need not end.
- `ReplyBuffer`: the timers fire (`FlushTick`, `DrainTick`) and the generation
  ends (`Finish`), which the transport's timeouts give.
- `SnapshotFeed`: a subscriber that was woken is polled again (`PollAgain`).
- `ChatWorkspace`, `ProjectWorkspace`: a background read answers, with rows or
  an error, and its continuation runs. Commands of the user are not fair.

### Reading some properties

- `Recoverable` says that a file on disk is either fully in its row or some
  obligation (an intent, the repair key, the marker, a missing index) will make a
  later process look. It holds for one process and fails for two (finding 3).
- `NoStrandedTurn` speaks of a runtime that still takes submits. One that was
  released or prepared for its shutdown leaves its terminals to detached workers,
  which `SealedTurnsEnded` is about.
- A row of a session that is gone is excused after a lost index: the intents are
  lost with it, and the repair that follows does not sync directories.
- `AppendsExtend` holds as long as callers choose visible rows as the leaf, and
  fails for callers that choose a marker (finding 4).
- `PagesExact` promises nothing for a row that moves behind the cursor between
  two pages. A page that was read before a deletion and is applied after it
  lists the session again until the next refresh; `ShellInv` allows it.
- `LiveIsCanonical` excuses every generation that failed, not only one that was
  refused by its adapter: the view may then show more than is kept, and says that
  it failed. A reasoning block without a text, which only a later request needs,
  is on neither side of it.
- `PendingKept` lets a batch go when its owner lost the file (`Abandon`), with a
  crash, and with a worker that ends after a last attempt that failed: its owner
  was told of the failure, and nobody retries.
- `SavedStays` is about documents a start can read. A start that cannot goes on
  with the defaults, and the first save of that run, at the latest the one of the
  exit for the preferences, replaces the whole file, so that a read that failed
  once costs everything saved before (`preferences.rs:604`, `providers.rs:416`).
  The comment of `providers.rs:408` says that a corrupt file is left on disk; it
  is, until then. `Replaces` states the exception: it takes a run that could not
  read the document, and nothing else puts another or an older one in its place.
- `LogHolds` is about the files. What the viewer shows may miss records while a
  rotation is under way.
- `ShutdownCloses` has the exception `poisoned`: after a panic, `lock()` itself
  refuses everybody.
- A flush that times out closes its domain (`GiveUp`), so a later shutdown is
  refused. That is what the code does, and no property forbids it.

## 4. Findings

1. **A turn id is used twice** (`turn_id_reuse`, `NoTurnIdReused`). A begin that
   commits but is answered stale behind a delete request keeps its terminal and
   does not advance `next_turn_id` (`chat/persistence/lifecycle.rs:115`). If the
   delete fails, the next submit ends the old turn and begins the same id again,
   which the controller refuses, now and for every later submit.
2. **A delete answered Ok is undone by a power loss** (`delete_retry`,
   `AnsweredDeleteIsFinal`). The retry of a delete whose directory sync failed
   finds neither row nor file and answers Ok without syncing
   (`session/local/deletion.rs:20`).
3. **The repair of one process clears the intents of another** (`shared_store`,
   `Recoverable`). The pending batch of the other reaches the file afterwards
   with no obligation left (`session/catalog/mod.rs:389`).
4. **An append goes behind a marker that a load does not stop at** (`leaf_marker`,
   `AppendsExtend`). `set_leaf` accepts a marker; the writer makes it the parent
   of what follows, while a load takes the marker's own target
   (`session/jsonl.rs:469`), and the row is extended although the batch does not
   extend that leaf. No view chooses a marker, so only the interface reaches it.
5. **The sidebar marks a conversation the pane does not show** (`open_pane`,
   `OpenIsShown`). A draft the user has left becomes durable and takes `open` of
   the catalog, while another conversation is on screen
   (`shell/app/project_workspace.rs:341`).

Each run finds its counterexample in the model of the code as it is;
`PROJECT.json` quotes the sentence of the repository it contradicts.

## 5. Proofs

All theorems are about every value of the constants, under the named
assumptions of the modules, which only say what kind of thing a constant is:
`BoundsAssumption` (bounds are naturals), `PartsAssumption` (so are those of the
runtime's parts, and `None` is none of their records), `BarrierAssumption` (finite, disjoint
sets of threads), `ReconcilerAssumption` and `NoneIsNoMount`, `RootAssumption`,
`StoreAssumption` and `FailuresAssumption`, `TurnAssumption` and
`RestoreAssumption`, `LogAssumption` (capacities, sizes and backups are not zero,
as `writer.rs` has them, and `None` is no record). TLC evaluates each of them on a run. One theorem needs more
and says so in its statement (`Procs = {p}`, below).

| Module | Theorems | Says |
|---|---|---|
| `JsonlRecorderProofs` | `RecorderTypes`, `RecorderInvariant`, `RecorderLoads`, `RecorderNeverForks`, `RecorderReportsPending`, `RecorderKeepsPending`, `RecorderImplementsDurableLog` | every property of the run `recorder`: the types, `SourceLoads`, `OneChain`, `PendingReported`, `PendingKept` and the refinement of `DurableLog` |
| `RuntimeProofs` | `BarrierInvariant`, `BarrierIsKept` | `BarrierHolds`: nothing enters a store behind its final flush |
| `RuntimeProofs` | `RuntimeInvariant`, `OwnedByRuntime`, `DocumentsStaySaved`, `StartUndoneInReverse` | `RuntimeOwned` of start, exit, registries and slots; `SavedStays` of the documents; of `UndoneInOrder` the part of the start |
| `ReplacementProofs` | `ReconcilerInvariant`, `SettledIsTrue`, `UndoneNewestFirst`, `TriedOnce` | `ReconcilerInv`, `SettledExact`, `LifoUndo`, `OncePerRevision` of the reconciler alone |
| `ReplacementProofs` | `RootInvariant`, `MountsStayOwned`, `NothingRunsOnRuins`, `AnswersAreTrue`, `ClosingLeavesNothing` | `MountsOwned`, `QuietDisposal`, `AnswersHold`, `ClosesClean` of reconciler and composition root |
| `LocalStoreProofs` | `StoreInvariant`, `CatalogStaysSound`, `DeletedForGood`, `AloneNothingIsLost`, `AloneFlushSettles` | `CatalogInv` and `ConfirmedDeleteIsFinal` for any number of processes; `RowInv` and `FlushSettles` for one |
| `ReplyProofs` | `OutcomesInvariant`, `OutcomesAreTold` | `OutcomesTold`: a generation ends once, and neither session domain is answered for by the other |
| `ReplyProofs` | `LogInvariant`, `LogKeepsTheNewest` | of `NothingLost` the part of the log |
| `TurnsProofs` | `TurnsInvariant`, `OneTerminalEach`, `StrandsNoTurn`, `SealsEndedTurns`, `NothingBringsItBack`, `ConversationGoesOn` | `TurnsHold`, `NoStrandedTurn`, `SealedTurnsEnded`, `DeletedStaysDeleted` |

### The recorder

What it promises is not inductive. A step that acknowledges a batch sees only
that its sync succeeded, not that every record of the batch is in the synced
part of the file; a step that writes a batch sees only that the writer accepted
it, not that the file holds none of it. `Inv` adds what the stages know:

- `FreshInv`: identities in the file are below `nextId` and not repeated; the
  pending and the prepared batch are disjoint, and the prepared one is not in the
  file before it is written;
- `CleanInv`: wherever the worker is about to write, the file ends cleanly, and
  there is a pending batch exactly in the stages that work on one;
- `StageInv`: at `rewrite` the missing suffix and the file together hold the
  batch and do not overlap, at `resync` the file holds it, behind it what was
  recovered is stable;
- `acked \subseteq StableIds`.

The proof has one lemma per conjunct, with one step per action under it, over
lemmas on concatenation and prefixes of sequences of records. A step of the
recorder that satisfies `Inv` then maps to a step of `DurableLog` or a stutter.
`PendingReported` needs in addition that the flag is down wherever nothing is
pending, and that a batch at its sync is not empty (`ReportInv`). `SourceLoads`
needs more: a batch is prepared long before it is written, behind another batch
that may be written in part, cut by a crash or refused. `GroundInv` says of the
file, the pending batch, the prepared one and the missing suffix what their
records may refer to. `OneChain` needs to relate the writer's leaf to the end of
what it has written, stage by stage (`ChainInv`, with `WrittenTo` for where the
records of a batch will hang once they are in the file), and holds as long as
nobody else has written to the file.

### The barrier

`BarrierInv` is `BarrierShape` (what each thread's stage says of lock and slot),
`SlotsExact` (the counter is the number of threads that hold a slot, a fact about
cardinalities), and `DrainedInv`: from the moment the shutdown saw the counter at
zero no thread can be on its way in, and until the domain is closed the thread
that flushed keeps everybody else off the store. The last one is what makes the
check in `close` and the check in `admit` exclude each other.

### The parts of the runtime

`RuntimeInv` joins one invariant for each part; the others do not move while one
does. `StartInv`: each stage owns the effects it brought into force and no
others, a stage the build has not come to owns none (`AheadInv`), and a
capability that is published is withdrawn by the newest owner of its stage
(`PublishedInv`), so that it cannot stay published when the cleanup is through.
`ExitInv`: one caller runs the exit, and no report says more than was heard.
`RegistryInv`: the entries of a scope and the tokens that name them correspond
one to one (`EntriesOwned`); that a batch names no id twice comes from a count,
hence a lemma on cardinalities. `SlotInv`: the lease of a slot and the only
registration that was neither replaced nor revoked name each other, and what a
component remembers of a slot is never newer than what the slot has counted
(`SnapshotInv`), which is why a vacancy cannot make an old fingerprint fit a new
lease. `DocumentInv`: as long as the exit's thread may still write, its snapshot
is no older than what was kept before and no newer than what is live
(`SaverInv`).

That the start is undone in reverse is about one step of the cleanup and all the
effects still in force, so it needs to know where each of them stands:
`RanksInv` says that a stage that was built later owns only effects that came
later, that while build goes on as many are in force as have come, and that the
cleanup, a failed stop and its retry included, walks back through the stages in
the order they were built.

### The outcomes

`OutcomesInv` has two parts. `StreamShape` says that a phase that runs has told
nothing, that one that has ended has told once unless nothing was started, and
that a frame escapes only in the body of the first attempt as long as that
attempt lasts; it says nothing of what adapter and assembler make of a frame, so
the theorem holds whatever a provider sends. `DomainsInv` is about threads that
outlive the call that began them. A flush that ran into its deadline leaves its
thread behind; a later call must not take that thread's answer for its own.
`ThreadsAccounted` says that such a thread has closed its domain, so that the
next call is refused instead of begun; `ShutdownStages` that no mutation is left
once a shutdown seals, since it asked the domain to refuse them first; and
`DeadlineInv` that whoever is failed for a deadline had not answered when it
passed. None of them is visible in `DomainsHold` itself.

### The diagnostic log

`LogInv` says where every record is that was accepted. `Ledger` orders the files,
the buffer, the record in the writer's hand and the queue one behind the other
and leaves three ways not to be there: in `lost`, or older than all the files
keep while some file keeps something; `FilesInv` says which place a rotation has
made free so far, so that what it drops is the oldest, and never the only file
there is; `WriterInv` what is still unflushed at each stage. `LoadInv` is about
the page, which reads the files one by one while the writer goes on: without a
rotation it has read all that is behind the file it reads next, and of the
active file an initial piece. That the files put together are in order
(`FlattenSeq` of `Kept`) rests on one lemma about putting pieces together
(`PiecesRise`), by the least number of pieces for which it would fail.

### Reconciler and composition root

`RecInv` of the reconciler: every effect in force belongs to the active mount,
the candidate, or the stop that is tried (`NoneLost`, `ScopesInv`), each stage
holds exactly the mounts its next step expects (`StagesInv`), and revisions and
transitions never run ahead of what was desired (`RevisionsInv`, `BegunInv`,
which `OncePerRevision` rests on). Cancellation at an await is what makes it
necessary: the interrupted call leaves its mount to the next one.

`RootIInv` of the root says what a call may assume where it stands (`CallInv`),
that the mounted generation and the open slot are the active instance as long as
it is whole (`LeadsInv`), and that whatever an instance still has in force is
reachable for an undo: only the active instance and the pending one, candidate or
rollback, own anything (`ActivatedInv`, `OwnedInv`). `ConsumersInv` is what
`QuietDisposal` rests on: who runs, runs on the active and whole instance, and a
consumer that only fetched an older one finds its admission closed. A stop takes
the instance apart only once its users are gone (`CallInv` at `quiesce` and
`dispose`).

### The local store

`StoreInv` is the types, `OneAtATime` (who holds the process's lock is alone
between two durable steps), `StageInv` (what each stage of each operation knows),
`LinkInv` (a directory entry that a power loss could take back is somebody's
duty, as long as no intent was lost), `NoGhostRow`
(a row without a file has an obligation) and `DeleteInv` (behind a delete that
was answered, with its directory synced, nothing on disk can bring the session
back). It holds for any set of processes, crashes, power losses and lost indexes.

That every fact on disk is listed or owed (`Recoverable`) is false for two
processes: the run `shared_store` has the counterexample. `AloneNothingIsLost`
and `AloneFlushSettles` therefore assume `Procs = {p}`, one process at a time,
started any number of times, and `RecoverInv` says which obligation covers which
fact at each stage of a repair, an append, a flush and a start (`Covered`), and
what a start has still to find when an obligation was forgotten (`Forgotten`).

### The turns

The first half is about the controller over a store whose calls fail as they
like. `LedgerOK` says what the pending turn knows of its session's log, the part
that is still in the recorder's queue included (`LogOf`), and each operation
keeps it, whatever the call it makes did before it failed. From it follow that a
retry finds the fact it looks for, that a turn has one user fact and one
terminal, and that a deleted controller writes nothing more.

The second half is about who will end a turn. `TurnsInv` says of each worker
what it works for and what the controller will find (`WorkerOK`), of each channel
what is going to be received from it (`HeardOK`, `PairOK`), of the coordinator
and the foreground what they hold (`CoordOK`, `ForegroundOK`), and of the turn
the controller waits for that somebody is `Responsible` for it and that all who
may still speak of it say the same terminal (`Answered`). The last part is what a
late answer, a failed delete or a second submit could break, and it is why a
finish never meets a turn that ended otherwise.

`ConversationGoesOn` adds the conversation over several runs: `RestoreInv` says
that the next turn id is behind every id in the log (or is the one the pending
turn tries), and that the controller's model is the one its log names, through a
begin that failed with its batch written, queued or lost, crashes that cut the
queue, and restores. Both halves share the lemmas on the controller's calls; the
equalities `Restored!X = X` carry them over to the instance.

### Only model-checked

- All liveness (`ShutdownDrains`, `CallsReturn`, `WaitersServed`,
  `EverythingShown`, `ShellLoadsEnd`, `ChoiceWins` where it is about a choice
  that is answered later): leads-to under fairness and `ENABLED` are outside what
  the prover does.
- What recursive definitions compute: `TreeInv`, `ListsInv`, `AppendsExtend`,
  `ActsAsMemory` (branches, projections and pages are recursive over entries),
  `UndoneInOrder` of the scopes (the close order is recursive over the tree).
- What filters and folds over sequences keep: `TranscriptInv`, `NothingLost` of
  the reply's queue (that of the log is proved), `ComposerInv`, `ShellInv`, `SettingsInv`, `NoNewDuplicates`. Their actions drop
  members of sequences with `SelectSeq` or join them with a fold; the provers
  know no facts about either, and proving some needs an induction over the
  sequence.

## 6. Not modelled

The user interface. Within the modelled components: byte contents and encoding
of records, requests and SSE frames, wording, metrics and traversal counters;
lengths of strings and the validation of identifiers; symbolic links, duplicate
sources and the staging files of an abandoned create in the session directory;
an index that is replaced while a store is open; shortcuts, appearance values, window geometry and confirmation
popovers; panics outside `StoreBarrier`. The two halves of one `MC` module do not
interact there: where the code composes them (a workspace with the runtimes of
its conversations, an exit with the barriers of both domains), each module takes
the other by the outcomes it may have.

## 7. Plan

1. Theorems: `PopupFollows` of the composer, over facts about `FlattenSeq`;
   `RevisionTells` of the registry.
2. Abstract specifications: a store that is listed or owed (for `LocalStore`), a
   turn that is begun, ended once or deleted (for `TurnPersistence`), one exit
   (for `AppExit`).
3. Compositions: `AppExit` over two instances of `StoreBarrier`; `ChatWorkspace`
   over `ConversationRestore`.
