--------------------------- MODULE TurnPersistence --------------------------
(***************************************************************************)
(* One conversation from submit to durable terminal:                       *)
(* ConversationRuntime (chat/conversation_runtime.rs), its persistence     *)
(* handlers (chat/persistence/lifecycle.rs) and the detached workers of    *)
(* TurnPersistenceCoordinator (chat/persistence/mod.rs), over              *)
(* ChatController.                                                         *)
(*                                                                         *)
(* The runtime lives on the foreground thread: each handler is one step.   *)
(* A worker runs in the background, holds one operation slot of the store  *)
(* until it ends, takes the controller lock for each call, and talks to    *)
(* the foreground over one-shot channels.  The entity may be released at   *)
(* any time, which closes its ends of the channels.                        *)
(***************************************************************************)
EXTENDS ChatController, FiniteSets

CONSTANTS
  Texts,        \* user messages
  Models,       \* and the models they are sent to
  Outcomes,     \* terminals a generation can produce
  Workers,      \* bound on the workers that run at a time
  MaxSubmits,   \* bound on submits
  MaxDeletes    \* bound on delete requests

ASSUME TurnAssumption ==
  /\ IsFiniteSet(Workers)
  /\ MaxSubmits \in Nat /\ MaxDeletes \in Nat
  /\ "cancelled" \in Outcomes
  /\ {None, "open", "dropped"} \cap Outcomes = {}
  /\ None \notin Workers
  /\ \A p \in [turn : 1 .. MaxSubmits, term : Outcomes] : p # None

VARIABLES
  rt,        \* the ConversationRuntime entity
  worker,    \* the detached persistence workers
  deletion,  \* the background delete: "none", "queued", "ok", "failed",
             \* or "closing" while the scope waits for the workers
  ctl, store,
  accepting, \* the store hands out operation slots
  sealed,    \* the store shut down
  begun,     \* turns whose begin was answered Ok
  gaveUp,    \* turns whose terminal failed in both attempts of a worker
  reused,    \* a begin was refused because its turn id is durable already
  submits, deletes

durable == <<ctl, store, begun, gaveUp, reused>>
world   == <<accepting, sealed, submits, deletes>>
vars    == <<rt, worker, deletion, durable, world>>

\* A worker.  cmd: what came over its command channel.  beginTask: the
\* foreground waits for the answer to its begin; endTask: it waits for the
\* result of the terminal, as finish_terminal or as a detached observer of
\* the turn about.
Free == [pc |-> "free", turn |-> 0, msg |-> None, gen |-> 0, retry |-> None,
         cmd |-> "open", tries |-> 0,
         beginTask |-> FALSE, answer |-> "none", retried |-> FALSE,
         endTask |-> "none", about |-> 0, result |-> "none"]

IdleRuntime ==
  [gen |-> 0, persisting |-> FALSE, generating |-> FALSE, delReq |-> FALSE,
   delPend |-> FALSE, shutdown |-> FALSE, turn |-> 0, pterm |-> None,
   coord |-> None, next |-> 1, reply |-> 0, started |-> 0, alive |-> TRUE]

Running == {w \in Workers : worker[w].pc \in {"begin", "await"}}

FreeWorkers == {w \in Workers : worker[w].pc = "free"}

\* The worker the next spawn uses; which one makes no difference.
NextWorker == CHOOSE w \in FreeWorkers : TRUE

PendingTerminal(t, x) == [turn |-> t, term |-> x]

\* A worker that ended keeps its place while an answer waits to be heard.
Settle(v) ==
  IF v.pc \in {"free", "over"} /\ ~ v.beginTask /\ v.endTask = "none" THEN Free ELSE v
-----------------------------------------------------------------------------
Init ==
  /\ rt = IdleRuntime
  /\ worker = [w \in Workers |-> Free]
  /\ deletion = "none"
  /\ ctl = FreshController /\ store = EmptyStore
  /\ begun = {} /\ gaveUp = {} /\ reused = FALSE
  /\ accepting = TRUE /\ sealed = FALSE
  /\ submits = 0 /\ deletes = 0

(***************************************************************************)
(* The foreground: begin_turn and the answer to it.                        *)
(***************************************************************************)
\* A submit that is refused leaves everything as it was.
Submit(m) ==
  /\ submits < MaxSubmits /\ FreeWorkers # {}
  /\ rt.alive
  /\ ~ (rt.generating \/ rt.persisting \/ rt.delReq \/ rt.delPend \/ rt.shutdown)
  /\ rt.turn = 0
  /\ accepting
  /\ submits' = submits + 1
  /\ worker' = [worker EXCEPT ![NextWorker] =
       [Free EXCEPT !.pc = "begin", !.turn = rt.next, !.msg = m,
                    !.gen = rt.gen + 1, !.retry = rt.pterm, !.beginTask = TRUE]]
  /\ rt' = [rt EXCEPT !.gen = @ + 1, !.persisting = TRUE, !.coord = NextWorker]
  /\ UNCHANGED <<deletion, durable, accepting, sealed, deletes>>

\* The coordinator of w is dropped, and its command channel with it.
DropCoordinator(w) == IF worker[w].cmd = "open" THEN "dropped" ELSE worker[w].cmd

\* Fault: a begin that succeeded after its generation was over is forgotten.
StaleForgotten(r, v) == r

\* A stale begin that succeeded leaves a turn to cancel.
StaleBegin(r, v) ==
  IF v.answer = "ok"
  THEN [r EXCEPT !.pterm = PendingTerminal(v.turn, "cancelled"), !.turn = 0]
  ELSE r

\* finish_begin_persistence
BeginAnswered(w) ==
  LET v == worker[w]
      r == [rt EXCEPT !.persisting = FALSE,
                      !.pterm = IF v.retried THEN None ELSE @,
                      !.turn  = IF v.retried THEN 0 ELSE @]
      stale  == v.gen # rt.gen
      failed == v.answer \notin {"ok", "deleted"}
  IN  /\ rt.alive /\ v.beginTask /\ v.answer # "none"
      /\ rt' = IF stale
               THEN [StaleBegin(r, v) EXCEPT !.coord = None, !.generating = FALSE]
               ELSE IF rt.shutdown \/ rt.delReq THEN r
               ELSE IF failed THEN [r EXCEPT !.coord = None]
               ELSE IF v.answer = "ok" /\ rt.coord # None
               THEN [r EXCEPT !.generating = TRUE, !.turn = v.turn,
                              !.next = @ + 1, !.started = v.gen]
               ELSE r
      /\ worker' = [worker EXCEPT ![w] =
           Settle([v EXCEPT !.beginTask = FALSE,
                     !.cmd = IF rt.coord = w /\ (stale \/ failed)
                             THEN DropCoordinator(w) ELSE v.cmd])]
      /\ UNCHANGED <<deletion, durable, world>>

\* TurnStarted reaches the view, which starts the generation of that turn.
StartGeneration ==
  /\ rt.alive /\ rt.started # 0
  /\ rt' = [rt EXCEPT !.started = 0,
              !.reply = IF rt.started = rt.gen /\ rt.generating THEN rt.gen ELSE @]
  /\ UNCHANGED <<worker, deletion, durable, world>>

(***************************************************************************)
(* Dispatching a terminal.                                                 *)
(***************************************************************************)
\* The worker's end of the channel is open until the worker ends.
Listening(w) == w \in Running

Command(w, x, task, t) ==
  [worker EXCEPT ![w].cmd = x, ![w].endTask = task, ![w].about = t]

\* for_terminal, with the terminal already on its way
Spawn(t, x, task) ==
  [worker EXCEPT ![NextWorker] =
     [Free EXCEPT !.pc = "await", !.turn = t, !.cmd = x,
                  !.endTask = task, !.about = t]]

KeepTerminal(r, t, x) == [r EXCEPT !.pterm = PendingTerminal(t, x), !.turn = 0]

\* finish_generation (or finish_generation_request_failed) and finish_terminal
GenerationEnds(x) ==
  LET r == [rt EXCEPT !.reply = 0, !.generating = FALSE]
      over == [r EXCEPT !.pterm = None, !.coord = None]
  IN  /\ rt.alive /\ rt.reply # 0 /\ FreeWorkers # {}
      /\ IF rt.reply # rt.gen THEN rt' = [rt EXCEPT !.reply = 0] /\ UNCHANGED worker
         ELSE IF rt.delReq \/ rt.shutdown
         THEN rt' = [over EXCEPT !.turn = 0] /\ UNCHANGED worker
         ELSE IF rt.turn = 0 THEN rt' = over /\ UNCHANGED worker
         ELSE IF rt.coord = None /\ accepting
         THEN /\ rt' = [r EXCEPT !.persisting = TRUE]
              /\ worker' = Spawn(rt.turn, x, "terminal")
         ELSE IF rt.coord # None /\ Listening(rt.coord)
         THEN /\ rt' = [r EXCEPT !.persisting = TRUE, !.coord = None]
              /\ worker' = Command(rt.coord, x, "terminal", rt.turn)
         ELSE rt' = KeepTerminal([r EXCEPT !.coord = None], rt.turn, x) /\ UNCHANGED worker
      /\ UNCHANGED <<deletion, durable, world>>

\* Fault: the terminal that could not be written is not kept.
TerminalFailedForgets(w) ==
  /\ rt.alive
  /\ worker[w].endTask = "terminal" /\ worker[w].result # "none"
  /\ rt' = [rt EXCEPT !.persisting = FALSE, !.turn = 0, !.pterm = None]
  /\ worker' = [worker EXCEPT ![w] = Settle([@ EXCEPT !.endTask = "none"])]
  /\ UNCHANGED <<deletion, durable, world>>

TerminalAnswered(w) ==
  /\ rt.alive
  /\ worker[w].endTask = "terminal" /\ worker[w].result # "none"
  /\ LET r == [rt EXCEPT !.persisting = FALSE, !.turn = 0, !.pterm = None]
     IN  rt' = IF worker[w].result \in {"ok", "deleted"} THEN r
               ELSE KeepTerminal(r, worker[w].about, worker[w].cmd)
  /\ worker' = [worker EXCEPT ![w] = Settle([@ EXCEPT !.endTask = "none"])]
  /\ UNCHANGED <<deletion, durable, world>>

HoldsTerminal(t) == rt.pterm # None /\ rt.pterm.turn = t

\* Fault: a terminal of no turn is kept as well.
KeepDetachedUnnamed(t, x) ==
  IF rt.turn \in {0, t} /\ (rt.pterm = None \/ HoldsTerminal(t))
  THEN KeepTerminal(rt, t, x)
  ELSE rt

\* A terminal that failed is kept, unless a newer turn has the place.
KeepDetached(t, x) ==
  IF /\ t # 0
     /\ rt.turn \in {0, t}
     /\ rt.pterm = None \/ HoldsTerminal(t)
  THEN KeepTerminal(rt, t, x)
  ELSE rt

\* The observer persist_terminal_detached leaves behind.
DetachedAnswered(w) ==
  LET t == worker[w].about
  IN  /\ rt.alive
      /\ worker[w].endTask = "detached" /\ worker[w].result # "none"
      /\ rt' = IF worker[w].result \in {"ok", "deleted"}
               THEN [rt EXCEPT !.turn = IF @ = t THEN 0 ELSE @,
                               !.pterm = IF HoldsTerminal(t) THEN None ELSE @]
               ELSE KeepDetached(t, worker[w].cmd)
      /\ worker' = [worker EXCEPT ![w] = Settle([@ EXCEPT !.endTask = "none"])]
      /\ UNCHANGED <<deletion, durable, world>>

\* What prepare_for_shutdown and request_delete have in common: a turn with a
\* coordinator is cancelled, else the terminal in pterm gets a worker.
Detach(pterm) ==
  worker' = IF rt.coord # None
            THEN IF Listening(rt.coord)
                 THEN Command(rt.coord, "cancelled", "detached", rt.turn)
                 ELSE worker
            ELSE IF ~ rt.persisting /\ pterm # None /\ accepting
            THEN Spawn(pterm.turn, pterm.term, "detached")
            ELSE worker

StopReply(r) == [r EXCEPT !.reply = 0, !.generating = FALSE, !.coord = None]

PrepareForShutdown ==
  /\ rt.alive /\ ~ rt.shutdown /\ FreeWorkers # {}
  /\ Detach(IF rt.pterm = None /\ rt.turn # 0
            THEN PendingTerminal(rt.turn, "cancelled") ELSE rt.pterm)
  /\ rt' = StopReply([rt EXCEPT !.shutdown = TRUE, !.gen = @ + 1,
                        !.pterm = IF rt.coord = None /\ ~ rt.persisting
                                  THEN None ELSE @])
  /\ UNCHANGED <<deletion, durable, world>>

(***************************************************************************)
(* Deletion.                                                               *)
(***************************************************************************)
RequestDelete ==
  /\ deletes < MaxDeletes /\ FreeWorkers # {} /\ deletion = "none"
  /\ rt.alive /\ ~ rt.delPend /\ ~ rt.shutdown
  /\ accepting
  /\ deletes' = deletes + 1
  /\ LET pterm == IF rt.turn # 0 THEN PendingTerminal(rt.turn, "cancelled")
                  ELSE rt.pterm
     IN  /\ Detach(pterm)
         /\ rt' = StopReply([rt EXCEPT !.delReq = TRUE, !.delPend = TRUE,
                               !.gen = @ + 1, !.pterm = pterm])
  /\ deletion' = "queued"
  /\ UNCHANGED <<durable, accepting, sealed, submits>>

\* In the background, under the controller lock.
Delete ==
  /\ deletion = "queued"
  /\ \E o \in DeleteSession(ctl, store) :
       /\ ctl' = o.c /\ store' = o.st
       /\ deletion' = IF ~ rt.alive THEN "none"
                      ELSE IF o.answer = "ok" THEN "ok" ELSE "failed"
  /\ UNCHANGED <<rt, worker, begun, gaveUp, reused, world>>

DeleteAnswered ==
  /\ rt.alive /\ deletion \in {"ok", "failed"}
  /\ IF deletion = "ok"
     THEN deletion' = "closing" /\ UNCHANGED rt
     ELSE /\ deletion' = "none"
          /\ rt' = [rt EXCEPT !.delReq = FALSE, !.delPend = FALSE, !.coord = None,
                              !.generating = FALSE]
  /\ UNCHANGED <<worker, durable, world>>

\* close_scope_when_quiescent: the workers' leases are back; closing the
\* scope may fail, and then the conversation stays.
ScopeClosed ==
  /\ rt.alive /\ deletion = "closing"
  /\ Running = {}
  /\ deletion' = "none"
  /\ \E closed \in BOOLEAN :
       rt' = [rt EXCEPT !.delPend = FALSE, !.delReq = closed]
  /\ UNCHANGED <<worker, durable, world>>

\* The entity is dropped with its channels and its foreground tasks.
Release ==
  /\ rt.alive
  /\ rt' = [rt EXCEPT !.alive = FALSE, !.coord = None, !.reply = 0, !.started = 0]
  /\ worker' = [w \in Workers |->
       Settle([worker[w] EXCEPT !.beginTask = FALSE, !.endTask = "none",
                 !.cmd = IF w = rt.coord THEN DropCoordinator(w) ELSE @])]
  /\ deletion' = IF deletion = "queued" THEN deletion ELSE "none"
  /\ UNCHANGED <<durable, world>>
-----------------------------------------------------------------------------
(***************************************************************************)
(* The workers.                                                            *)
(***************************************************************************)
Outcome(o, retried) == [o |-> o, retried |-> retried]

Refused(answer) == IF answer = "deleted" THEN answer ELSE "retry failed"

\* Under the controller lock: the terminal kept from an earlier turn first,
\* then the new turn.
RetryThenBegin(v) ==
  LET Begin(o, retried) ==
        {Outcome(b, retried) : b \in BeginTurn(o.c, o.st, v.turn, v.msg)}
  IN  IF v.retry = None
      THEN Begin(Out(ctl, store, "ok"), FALSE)
      ELSE UNION {IF o.answer = "ok" THEN Begin(o, TRUE)
                  ELSE {Outcome([o EXCEPT !.answer = Refused(@)], FALSE)} :
                    o \in FinishTurn(ctl, store, v.retry.turn, v.retry.term)}

\* Fault: a begin that succeeded unheard ends without a terminal.
UnheardForgotten(v) == Settle([v EXCEPT !.pc = "over"])

\* Nobody hears that the begin succeeded: the turn is cancelled at once.
Unheard(v) == [v EXCEPT !.pc = "await", !.cmd = "dropped"]

\* A begin that failed ends the worker, and with it the result channel.
WorkerBegins(w) ==
  /\ worker[w].pc = "begin"
  /\ \E r \in RetryThenBegin(worker[w]) :
       LET ok == r.o.answer = "ok"
           v  == [worker[w] EXCEPT !.answer = r.o.answer, !.retried = r.retried]
       IN  /\ ctl' = r.o.c /\ store' = r.o.st
           /\ begun' = IF ok THEN begun \cup {v.turn} ELSE begun
           /\ reused' = (reused \/ r.o.answer = "used")
           /\ worker' = [worker EXCEPT ![w] =
                IF ok /\ v.beginTask THEN [v EXCEPT !.pc = "await"]
                ELSE IF ok THEN Unheard(v)
                ELSE Settle([v EXCEPT !.pc = "over", !.result = "disconnected"])]
  /\ UNCHANGED <<rt, deletion, gaveUp, world>>

\* Fault: a worker whose command sender was dropped waits for ever.
NoTerminalWhenDropped(w) == worker[w].cmd

\* A dropped sender stands for a cancelled turn.
TerminalOf(w) == IF worker[w].cmd = "dropped" THEN "cancelled" ELSE worker[w].cmd

\* persist_terminal_with_retry: two attempts, unless the session is deleted.
WorkerFinishes(w) ==
  /\ worker[w].pc = "await" /\ TerminalOf(w) \in Outcomes
  /\ \E o \in FinishTurn(ctl, store, worker[w].turn, TerminalOf(w)) :
       LET v    == [worker[w] EXCEPT !.tries = @ + 1]
           done == o.answer \in {"ok", "deleted"}
       IN  /\ ctl' = o.c /\ store' = o.st
           /\ worker' = [worker EXCEPT ![w] =
                IF done \/ v.tries = 2
                THEN Settle([v EXCEPT !.pc = "over", !.result = o.answer])
                ELSE v]
           /\ gaveUp' = IF ~ done /\ v.tries = 2 THEN gaveUp \cup {v.turn} ELSE gaveUp
  /\ UNCHANGED <<rt, deletion, begun, reused, world>>

(***************************************************************************)
(* The application exits: it prepares its conversations, then shuts the    *)
(* store down, which waits for the operation slots (StoreBarrier).         *)
(***************************************************************************)
StopAccepting ==
  /\ accepting /\ (rt.shutdown \/ ~ rt.alive)
  /\ accepting' = FALSE
  /\ UNCHANGED <<rt, worker, deletion, durable, sealed, submits, deletes>>

Seal ==
  /\ ~ accepting /\ ~ sealed
  /\ Running = {} /\ deletion # "queued"
  /\ sealed' = TRUE
  /\ UNCHANGED <<rt, worker, deletion, durable, accepting, submits, deletes>>

WorkerStep(w) == WorkerBegins(w) \/ WorkerFinishes(w)

ForegroundStep ==
  \/ StartGeneration \/ DeleteAnswered \/ ScopeClosed
  \/ \E w \in Workers :
       BeginAnswered(w) \/ TerminalAnswered(w) \/ DetachedAnswered(w)

Next ==
  \/ \E text \in Texts, model \in Models : Submit(Message(text, model))
  \/ \E x \in Outcomes : GenerationEnds(x)
  \/ ForegroundStep
  \/ RequestDelete \/ PrepareForShutdown \/ Release
  \/ \E w \in Workers : WorkerStep(w)
  \/ Delete \/ StopAccepting \/ Seal

\* The executors run every spawned task, and the store's shutdown goes on when
\* the last slot is back.
Fairness ==
  /\ \A w \in Workers : WF_vars(WorkerStep(w))
  /\ WF_vars(ForegroundStep) /\ WF_vars(Delete)
  /\ WF_vars(Seal)

Spec == Init /\ [][Next]_vars /\ Fairness
-----------------------------------------------------------------------------
(***************************************************************************)
(* Properties.                                                             *)
(***************************************************************************)
Terminals == [turn : 1 .. MaxSubmits, term : Outcomes] \cup {None}

TypeOK ==
  /\ rt \in [gen : Nat, persisting : BOOLEAN, generating : BOOLEAN,
             delReq : BOOLEAN, delPend : BOOLEAN, shutdown : BOOLEAN,
             turn : 0 .. MaxSubmits, pterm : Terminals,
             coord : Workers \cup {None}, next : 1 .. MaxSubmits + 1,
             reply : Nat, started : Nat, alive : BOOLEAN]
  /\ \A w \in Workers :
       /\ worker[w].pc \in {"free", "begin", "await", "over"}
       /\ worker[w].cmd \in Outcomes \cup {"open", "dropped"}
       /\ worker[w].endTask \in {"none", "terminal", "detached"}
  /\ deletion \in {"none", "queued", "ok", "failed", "closing"}
  /\ begun \subseteq Nat /\ gaveUp \subseteq begun

History == store.facts \o store.queue

Count(t, kind) == Cardinality({i \in DOMAIN History :
                                 History[i].turn = t /\ History[i].kind = kind})

\* Every turn has at most one user fact and at most one terminal, and the
\* terminal follows its user fact, however often begin and terminal were
\* retried, by the worker, the next submit, a delete or the shutdown.
OneTerminalPerTurn ==
  /\ \A t \in 1 .. MaxSubmits : Count(t, "user") <= 1 /\ Count(t, "result") <= 1
  /\ \A i \in DOMAIN History : History[i].kind = "result" =>
       \E j \in 1 .. i - 1 : History[j].turn = History[i].turn

\* The invariant of the turns' facts: well-typed, and one terminal each.
TurnInv == TypeOK /\ OneTerminalPerTurn

Quiet ==
  /\ \A w \in Workers : worker[w].pc = "free"
  /\ deletion = "none"
  /\ rt.started = 0 /\ rt.reply = 0

\* A turn that was begun is never stranded in the controller, where it would
\* refuse every later turn: when nothing runs, a runtime that takes submits holds
\* the terminal the controller still waits for, so the next submit can finish it.
\* (One that has been shut down takes none, and may hold that of an older turn.)
NoStrandedTurn ==
  Quiet /\ rt.alive /\ ~ rt.shutdown /\ ctl.pend # None => (ctl.pend.user =>
    /\ rt.pterm # None /\ rt.pterm.turn = ctl.pend.turn
    /\ ctl.pend.term \in {None, rt.pterm.term})

\* When the store has shut down, every turn it saw begin has its terminal,
\* unless the session is deleted or a worker failed twice to write it.
SealedTurnsEnded ==
  sealed /\ store.at = "there" =>
    \A t \in begun \ gaveUp : Count(t, "result") = 1

\* After a successful delete nothing brings the session back: no begin,
\* terminal or retry that was queued before it or submitted behind it.
DeletedStaysDeleted == [](deletion = "ok" => [](store.at = "absent"))

\* Shutdown drains: once the store hands out no more slots every worker comes
\* to its end, whatever became of the entity at the other ends of its channels.
ShutdownDrains == ~ accepting ~> sealed

\* A send never reuses the id of a durable turn.
NoTurnIdReused == ~ reused
=============================================================================
