---------------------------- MODULE StoreBarrier ----------------------------
(***************************************************************************)
(* The shutdown barrier of one session domain: SharedStoreCore and its     *)
(* guards in session/service/core.rs.  Threads share one store behind a    *)
(* mutex.  A mutation first takes an operation slot, so that shutdown,     *)
(* which stops handing out slots and waits for them to come back, performs *)
(* its final flush behind every mutation that was admitted.  Store calls   *)
(* may hang, fail or panic; whoever waits for a flush or a shutdown gives  *)
(* up at a deadline and closes the domain.                                 *)
(***************************************************************************)
EXTENDS Naturals, FiniteSets

CONSTANTS
  Mutators,   \* threads that call a mutating capability directly
  Flushers,   \* threads start_flush spawns
  Tasks,      \* background tasks that hold a SessionOperationGuard
  Readers,    \* threads that only read
  Shutters,   \* threads start_shutdown spawns
  None        \* no thread

Threads == Mutators \cup Flushers \cup Tasks \cup Readers \cup Shutters

ASSUME BarrierAssumption ==
  /\ IsFiniteSet(Threads)
  /\ None \notin Threads
  /\ Mutators \cap (Flushers \cup Tasks \cup Readers \cup Shutters) = {}
  /\ Flushers \cap (Tasks \cup Readers \cup Shutters) = {}
  /\ Tasks \cap (Readers \cup Shutters) = {}
  /\ Readers \cap Shutters = {}

VARIABLES
  accepting, active, closed,   \* OperationState
  holder,     \* who holds the store mutex
  poisoned,   \* the mutex was dropped by a panicking thread
  pc,         \* where each thread is
  call,       \* what the caller of a flush or a shutdown got
  unsaved,    \* the store holds a mutation no flush has covered
  sealed      \* the final store.shutdown() returned Ok

state == <<accepting, active, closed>>
vars == <<state, holder, poisoned, pc, call, unsaved, sealed>>

Requesters == Flushers \cup Shutters

Goto(t, stage) == pc' = [pc EXCEPT ![t] = stage]

(***************************************************************************)
(* The operation state; its own mutex makes each of these one step.        *)
(***************************************************************************)
ReserveSlot ==
  /\ accepting /\ ~ closed
  /\ active' = active + 1
  /\ UNCHANGED <<accepting, closed>>

Refusing == (~ accepting \/ closed) /\ UNCHANGED state

\* Fault: a slot is given back twice when the guard is dropped.
ReleaseSlotTwice ==
  /\ active' = IF active > 1 THEN active - 2 ELSE 0
  /\ UNCHANGED <<accepting, closed>>

ReleaseSlot ==
  /\ active' = IF active > 0 THEN active - 1 ELSE 0
  /\ UNCHANGED <<accepting, closed>>

\* Fault: the domain stops accepting but stays open.
MarkRefusing == accepting' = FALSE /\ UNCHANGED <<active, closed>>

MarkClosed == accepting' = FALSE /\ closed' = TRUE /\ UNCHANGED active

Acquire(t) == holder = None /\ ~ poisoned /\ holder' = t

Blocked == holder = None /\ poisoned
-----------------------------------------------------------------------------
Init ==
  /\ accepting = TRUE /\ active = 0 /\ closed = FALSE
  /\ holder = None /\ poisoned = FALSE
  /\ pc = [t \in Threads |-> "idle"]
  /\ call = [c \in Requesters |-> "none"]
  /\ unsaved = FALSE /\ sealed = FALSE

(***************************************************************************)
(* lock_mutation without a permit: slot, then mutex, then the store call.  *)
(* StoreMutationGuard gives the slot back before its mutex guard is        *)
(* dropped.                                                                *)
(***************************************************************************)
Reserve(t) ==
  /\ pc[t] = IF t \in Flushers THEN "spawned" ELSE "idle"
  /\ \/ ReserveSlot /\ Goto(t, IF t \in Tasks THEN "reserved" ELSE "queued")
     \/ Refusing /\ Goto(t, IF t \in Flushers THEN "failed" ELSE "idle")
  /\ UNCHANGED <<holder, poisoned, call, unsaved, sealed>>

EnterMutation(t) ==
  /\ pc[t] = "queued"
  /\ Acquire(t)
  /\ Goto(t, "inside")
  /\ UNCHANGED <<state, poisoned, call, unsaved, sealed>>

PoisonedMutation(t) ==
  /\ pc[t] = "queued"
  /\ Blocked
  /\ ReleaseSlot
  /\ Goto(t, IF t \in Flushers THEN "failed" ELSE "idle")
  /\ UNCHANGED <<holder, poisoned, call, unsaved, sealed>>

\* The store call returns, and the slot goes back; a panic unwinds the same
\* way.  A call that fails may have changed the store before it failed.
StoreCall(t) ==
  /\ pc[t] = "inside"
  /\ \E outcome \in {"leaving", "leavingFailed", "unwinding"} :
       /\ Goto(t, outcome)
       /\ unsaved' = (t \notin Flushers \/ (unsaved /\ outcome # "leaving"))
  /\ ReleaseSlot
  /\ UNCHANGED <<holder, poisoned, call, sealed>>

LeaveMutation(t) ==
  /\ pc[t] \in {"leaving", "leavingFailed", "unwinding"}
  /\ holder' = None
  /\ poisoned' = (poisoned \/ pc[t] = "unwinding")
  /\ Goto(t, IF t \notin Flushers THEN "idle"
             ELSE CASE pc[t] = "leaving"       -> "ok"
                    [] pc[t] = "leavingFailed" -> "failed"
                    [] pc[t] = "unwinding"     -> "gone")
  /\ UNCHANGED <<state, call, unsaved, sealed>>

(***************************************************************************)
(* A background task: one reservation, any number of authorized calls.     *)
(***************************************************************************)
EnterAuthorized(t) ==
  /\ pc[t] = "reserved"
  /\ Acquire(t)
  /\ Goto(t, "authorized")
  /\ UNCHANGED <<state, poisoned, call, unsaved, sealed>>

\* The call returns; releases_slot is FALSE, only the mutex is given back.
AuthorizedCall(t) ==
  /\ pc[t] = "authorized"
  /\ unsaved' = TRUE
  /\ holder' = None
  /\ \/ Goto(t, "reserved") /\ UNCHANGED <<state, poisoned>>
     \/ Goto(t, "idle") /\ ReleaseSlot /\ poisoned' = TRUE   \* a panic
  /\ UNCHANGED <<call, sealed>>

\* SessionOperationGuard is dropped, or its future is.
DropGuard(t) ==
  /\ pc[t] = "reserved"
  /\ ReleaseSlot
  /\ Goto(t, "idle")
  /\ UNCHANGED <<holder, poisoned, call, unsaved, sealed>>

(***************************************************************************)
(* lock and lock_catalog: a spinning try_lock between two looks at closed. *)
(***************************************************************************)
StartRead(t) ==
  /\ pc[t] = "idle"
  /\ Goto(t, "look")
  /\ UNCHANGED <<state, holder, poisoned, call, unsaved, sealed>>

Refused(t) == IF t \in Shutters THEN "failed" ELSE "idle"

Look(t) ==
  /\ pc[t] = "look"
  /\ Goto(t, IF closed THEN Refused(t) ELSE "try")
  /\ UNCHANGED <<state, holder, poisoned, call, unsaved, sealed>>

TryLock(t) ==
  /\ pc[t] = "try"
  /\ \/ Acquire(t) /\ Goto(t, "recheck")
     \/ Blocked /\ Goto(t, Refused(t)) /\ UNCHANGED holder
     \/ holder # None /\ Goto(t, "look") /\ UNCHANGED holder
  /\ UNCHANGED <<state, poisoned, call, unsaved, sealed>>

\* Fault: the lock is used without a second look.
RecheckNothing(t) ==
  /\ pc[t] = "recheck"
  /\ Goto(t, IF t \in Readers THEN "reading" ELSE "sealing")
  /\ UNCHANGED <<holder, state, poisoned, call, unsaved, sealed>>

Recheck(t) ==
  /\ pc[t] = "recheck"
  /\ IF closed
     THEN Goto(t, Refused(t)) /\ holder' = None
     ELSE /\ Goto(t, IF t \in Readers THEN "reading" ELSE "sealing")
          /\ UNCHANGED holder
  /\ UNCHANGED <<state, poisoned, call, unsaved, sealed>>

Read(t) ==
  /\ pc[t] = "reading"
  /\ holder' = None
  /\ \E panics \in BOOLEAN : poisoned' = (poisoned \/ panics)
  /\ Goto(t, "idle")
  /\ UNCHANGED <<state, call, unsaved, sealed>>

(***************************************************************************)
(* start_flush and receive_maintenance.                                    *)
(***************************************************************************)
StartFlush(t) ==
  /\ pc[t] = "idle" /\ ~ closed
  /\ Goto(t, "spawned")
  /\ call' = [call EXCEPT ![t] = "waiting"]
  /\ UNCHANGED <<state, holder, poisoned, unsaved, sealed>>

(***************************************************************************)
(* start_shutdown, finish_shutdown on its thread, and receive_shutdown.    *)
(***************************************************************************)
\* begin_shutdown.  The call fails when the thread cannot be spawned.
StartShutdown(t) ==
  /\ pc[t] = "idle" /\ call[t] = "none"
  /\ accepting /\ ~ closed
  /\ \/ /\ accepting' = FALSE /\ UNCHANGED <<active, closed>>
        /\ Goto(t, "drain")
        /\ call' = [call EXCEPT ![t] = "waiting"]
     \/ /\ MarkClosed
        /\ call' = [call EXCEPT ![t] = "failed"]
        /\ UNCHANGED pc
  /\ UNCHANGED <<holder, poisoned, unsaved, sealed>>

ShutdownRefused(t) ==
  /\ pc[t] = "idle" /\ call[t] = "none"
  /\ Refusing
  /\ call' = [call EXCEPT ![t] = "failed"]
  /\ UNCHANGED <<holder, poisoned, pc, unsaved, sealed>>

\* Fault: the final flush does not wait for the slots.
DrainNothing(t) ==
  /\ pc[t] = "drain"
  /\ Goto(t, IF closed THEN "failed" ELSE "look")
  /\ UNCHANGED <<state, holder, poisoned, call, unsaved, sealed>>

Drain(t) ==
  /\ pc[t] = "drain" /\ active = 0
  /\ Goto(t, IF closed THEN "failed" ELSE "look")
  /\ UNCHANGED <<state, holder, poisoned, call, unsaved, sealed>>

DrainTimeout(t) ==
  /\ pc[t] = "drain" /\ active > 0
  /\ MarkClosed
  /\ Goto(t, "failed")
  /\ UNCHANGED <<holder, poisoned, call, unsaved, sealed>>

\* Fault: the store lock is dropped before the domain is marked closed.
SealUnlocked(t) ==
  /\ pc[t] = "sealing"
  /\ holder' = None /\ sealed' = TRUE /\ unsaved' = FALSE
  /\ Goto(t, "sealedOk")
  /\ UNCHANGED <<state, poisoned, call>>

\* store.shutdown() returns, or panics: then the channel disconnects.
Seal(t) ==
  /\ pc[t] = "sealing"
  /\ \/ /\ sealed' = TRUE /\ unsaved' = FALSE
        /\ Goto(t, "sealedOk")
        /\ UNCHANGED <<holder, poisoned>>
     \/ /\ Goto(t, "sealedFailed")
        /\ UNCHANGED <<holder, poisoned, sealed, unsaved>>
     \/ /\ Goto(t, "gone")
        /\ holder' = None /\ poisoned' = TRUE
        /\ UNCHANGED <<sealed, unsaved>>
  /\ UNCHANGED <<state, call>>

CloseAfterSeal(t) ==
  /\ pc[t] \in {"sealedOk", "sealedFailed"}
  /\ MarkClosed
  /\ Goto(t, IF pc[t] = "sealedOk" THEN "unlockOk" ELSE "unlockFailed")
  /\ UNCHANGED <<holder, poisoned, call, unsaved, sealed>>

Unlock(t) ==
  /\ pc[t] \in {"unlockOk", "unlockFailed"}
  /\ holder' = None
  /\ Goto(t, IF pc[t] = "unlockOk" THEN "ok" ELSE "failed")
  /\ UNCHANGED <<state, poisoned, call, unsaved, sealed>>

\* The waiting caller gets the answer of its thread ...
Receive(t) ==
  /\ call[t] = "waiting" /\ pc[t] \in {"ok", "failed"}
  /\ call' = [call EXCEPT ![t] = pc[t]]
  /\ Goto(t, IF t \in Flushers THEN "idle" ELSE "over")
  /\ UNCHANGED <<state, holder, poisoned, unsaved, sealed>>

\* ... or its deadline passes, or the thread is gone.
GiveUp(t) ==
  /\ call[t] = "waiting"
  /\ MarkClosed
  /\ call' = [call EXCEPT ![t] = "failed"]
  /\ UNCHANGED <<holder, poisoned, pc, unsaved, sealed>>
-----------------------------------------------------------------------------
MutationStep(t) ==
  \/ Reserve(t) \/ EnterMutation(t) \/ PoisonedMutation(t)
  \/ StoreCall(t) \/ LeaveMutation(t)

TaskStep(t) ==
  \/ Reserve(t) \/ EnterAuthorized(t) \/ AuthorizedCall(t) \/ DropGuard(t)

LockStep(t) == Look(t) \/ TryLock(t) \/ Recheck(t)

ShutdownStep(t) ==
  \/ Drain(t) \/ DrainTimeout(t) \/ LockStep(t)
  \/ Seal(t) \/ CloseAfterSeal(t) \/ Unlock(t)

Next ==
  \/ \E t \in Mutators \cup Flushers : MutationStep(t)
  \/ \E t \in Tasks : TaskStep(t)
  \/ \E t \in Readers : StartRead(t) \/ LockStep(t) \/ Read(t)
  \/ \E t \in Flushers : StartFlush(t)
  \/ \E t \in Shutters : StartShutdown(t) \/ ShutdownRefused(t) \/ ShutdownStep(t)
  \/ \E t \in Requesters : Receive(t) \/ GiveUp(t)

\* Only the deadline of a waiting caller is certain to act: every other step
\* may hang in a store call or behind one.
Fairness == \A t \in Requesters : WF_vars(Receive(t) \/ GiveUp(t))

Spec == Init /\ [][Next]_vars /\ Fairness
-----------------------------------------------------------------------------
(***************************************************************************)
(* Properties.                                                             *)
(***************************************************************************)
Stages == {"idle", "spawned", "reserved", "queued", "inside", "leaving",
           "leavingFailed", "unwinding", "authorized", "look", "try", "recheck",
           "reading", "drain", "sealing", "sealedOk", "sealedFailed",
           "unlockOk", "unlockFailed", "gone", "ok", "failed", "over"}

Locked == {"inside", "leaving", "leavingFailed", "unwinding", "authorized",
           "recheck", "reading", "sealing", "sealedOk", "sealedFailed",
           "unlockOk", "unlockFailed"}

SlotHolders == {t \in Threads : pc[t] \in {"reserved", "queued", "inside", "authorized"}}

\* The variables keep their types, and the mutex is held by the thread that
\* is past it.
TypeOK ==
  /\ accepting \in BOOLEAN /\ active \in Nat /\ closed \in BOOLEAN
  /\ holder \in Threads \cup {None} /\ poisoned \in BOOLEAN
  /\ pc \in [Threads -> Stages]
  /\ call \in [Requesters -> {"none", "waiting", "ok", "failed"}]
  /\ unsaved \in BOOLEAN /\ sealed \in BOOLEAN
  /\ \A t \in Threads : holder = t <=> pc[t] \in Locked

\* The counter is exact: no slot leaks on an error, a poisoned mutex or a
\* panic, which would make every shutdown time out, and none is given back
\* twice, which would let a shutdown overtake a mutation.
SlotsExact == active = Cardinality(SlotHolders)

\* After the final flush the store never holds an unsaved mutation: every
\* mutation that was admitted is behind it, none enters afterwards.
NothingBehindTheBarrier == sealed => ~ unsaved

\* No read reaches the store after its final flush: it finds the domain
\* closed when it gets the lock, because closing happens under that lock.
NoReadAfterSeal == sealed => \A t \in Readers : pc[t] # "reading"

\* The barrier (SharedStoreCore and its guards).
BarrierHolds == TypeOK /\ SlotsExact /\ NothingBehindTheBarrier /\ NoReadAfterSeal

\* A shutdown that has begun ends with the domain closed whatever hangs,
\* unless a panic poisoned the store (then lock() alone refuses everyone).
ShutdownCloses == ~ accepting ~> (closed \/ poisoned)
=============================================================================
