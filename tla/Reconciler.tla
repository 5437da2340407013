------------------------------ MODULE Reconciler ------------------------------
(***************************************************************************)
(* ScopeLocalReconciler (runtime/reconcile.rs): one future brings the      *)
(* mounted component to the desired state, through a candidate that is     *)
(* prepared beside the active mount, published after the active mount has  *)
(* stopped, and rolled back when it fails.  Whoever holds a target handle  *)
(* changes the desired state while the future waits, and the future can be *)
(* dropped at every await and polled again later.                          *)
(*                                                                         *)
(* A step is the code between two awaits, or one turn of the loop.  A      *)
(* mount is named by the revision its candidate was prepared for.          *)
(***************************************************************************)
EXTENDS EffectScope

CONSTANTS
  Desired,     \* desired states
  None,        \* no desired state, no mount
  MaxRev,      \* bound on revisions of the target
  MaxEffects   \* bound on the effects of one mount

ASSUME ReconcilerAssumption ==
  /\ None \notin Desired
  /\ MaxRev \in Nat \ {0} /\ MaxEffects \in Nat

VARIABLES
  target,        \* the shared desired state and its revision
  active,        \* None or the active mount
  candidate,     \* None or the candidate mount
  stop_attempt,  \* a stop of the active mount has begun
  last_failure,  \* the revision of the last failure, 0 for none
  pc,            \* where the future is
  at,            \* the revision of the transition in flight
  status,        \* what the last call returned
  live,          \* the effects in force
  begun          \* the transitions that were begun

vars == <<target, active, candidate, stop_attempt, last_failure, pc, at, status, live, begun>>

Revisions == 1 .. MaxRev

Effects == [mount : Revisions, n : 1 .. MaxEffects, kind : {"sync", "async"}, published : BOOLEAN]

Mounts == [desired : Desired, mount : Revisions, effects : ScopesOf(Effects)]

Candidates ==
  [rev : Revisions, desired : Desired, effects : ScopesOf(Effects),
   phase : {"preparing", "prepared", "rolling_back"}, failure : 0 .. MaxRev]

ASSUME NoneIsNoMount == None \notin Mounts \cup Candidates

\* What the environment may do happens while the future waits, inside a
\* callback of the lifecycle, or while no future exists.
Interruptible == pc \in {"idle", "stopping", "rolling_back", "preparing", "activating"}

Init ==
  /\ target \in [rev : {1}, desired : Desired \cup {None}]
  /\ active = None /\ candidate = None
  /\ stop_attempt = FALSE
  /\ last_failure = 0
  /\ pc = "idle" /\ at = 0
  /\ status = None
  /\ live = {} /\ begun = {}

(***************************************************************************)
(* The target handle.                                                      *)
(***************************************************************************)
SetDesired(d) ==
  /\ Interruptible /\ target.rev < MaxRev
  /\ d # target.desired
  /\ target' = [rev |-> target.rev + 1, desired |-> d]
  /\ UNCHANGED <<active, candidate, stop_attempt, last_failure, pc, at, status, live, begun>>

Retry ==
  /\ Interruptible /\ target.rev < MaxRev
  /\ target' = [target EXCEPT !.rev = @ + 1]
  /\ UNCHANGED <<active, candidate, stop_attempt, last_failure, pc, at, status, live, begun>>

(***************************************************************************)
(* The loop.                                                               *)
(***************************************************************************)
Reconcile ==
  /\ pc = "idle"
  /\ pc' = "loop" /\ status' = None
  /\ UNCHANGED <<target, active, candidate, stop_attempt, last_failure, at, live, begun>>

Return(result) ==
  /\ pc' = "idle" /\ status' = result
  /\ UNCHANGED <<target, at, live, begun>>

Failed(rev) == [kind |-> "failed", rev |-> rev]

\* A failure of this very revision stands until the target changes.
Refuse ==
  /\ pc = "loop" /\ last_failure = target.rev
  /\ Return(Failed(target.rev))
  /\ UNCHANGED <<active, candidate, stop_attempt, last_failure>>

\* A turn of the loop that goes on clears an older failure.
Turn == pc = "loop" /\ last_failure # target.rev /\ last_failure' = 0

ActiveDesired == IF active = None THEN None ELSE active.desired

Phase == IF candidate = None THEN "none" ELSE candidate.phase

\* A transition of a mount begins under the guard that reports it interrupted.
Begin(stage, mount) ==
  /\ pc' = stage /\ at' = target.rev
  /\ begun' = begun \cup {[rev |-> target.rev, stage |-> stage, mount |-> mount]}
  /\ UNCHANGED <<target, status>>

StopBegin ==
  /\ Turn /\ stop_attempt
  /\ Begin("stopping", active.mount)
  /\ active' = [active EXCEPT !.effects = Unwound(@)]
  /\ live' = live \ Undoable(active.effects)
  /\ UNCHANGED <<candidate, stop_attempt>>

\* An interrupted preparation, or a candidate prepared for an older revision.
Discard ==
  /\ Turn /\ ~ stop_attempt
  /\ \/ Phase = "preparing"
     \/ Phase = "prepared" /\ candidate.rev # target.rev
  /\ candidate' = [candidate EXCEPT !.phase = "rolling_back", !.failure = 0]
  /\ UNCHANGED <<target, active, stop_attempt, pc, at, status, live, begun>>

RollBackBegin ==
  /\ Turn /\ ~ stop_attempt /\ Phase = "rolling_back"
  /\ Begin("rolling_back", candidate.rev)
  /\ candidate' = [candidate EXCEPT !.effects = Unwound(@)]
  /\ live' = live \ Undoable(candidate.effects)
  /\ UNCHANGED <<active, stop_attempt>>

\* The active mount has to go: before a prepared candidate is published, or
\* because nothing is desired.
StopActive ==
  /\ Turn /\ ~ stop_attempt /\ active # None
  /\ \/ Phase = "prepared" /\ candidate.rev = target.rev
     \/ Phase = "none" /\ target.desired = None
  /\ stop_attempt' = TRUE
  /\ UNCHANGED <<target, active, candidate, pc, at, status, live, begun>>

ActivateBegin ==
  /\ Turn /\ ~ stop_attempt /\ active = None
  /\ Phase = "prepared" /\ candidate.rev = target.rev
  /\ Begin("activating", candidate.rev)
  /\ UNCHANGED <<active, candidate, stop_attempt, live>>

PrepareBegin ==
  /\ Turn /\ ~ stop_attempt /\ Phase = "none"
  /\ target.desired \notin {None, ActiveDesired}
  /\ Begin("preparing", target.rev)
  /\ candidate' = [rev |-> target.rev, desired |-> target.desired, effects |-> NewScope,
                   phase |-> "preparing", failure |-> 0]
  /\ UNCHANGED <<active, stop_attempt, live>>

\* Fault: the desired state is compared before the stop in progress.
SettleEagerly ==
  /\ Turn
  /\ Phase = "none" /\ target.desired = ActiveDesired
  /\ Return([kind |-> "settled", rev |-> target.rev])
  /\ UNCHANGED <<active, candidate, stop_attempt>>

Settle ==
  /\ Turn /\ ~ stop_attempt /\ Phase = "none"
  /\ target.desired = ActiveDesired
  /\ Return([kind |-> "settled", rev |-> target.rev])
  /\ UNCHANGED <<active, candidate, stop_attempt>>

(***************************************************************************)
(* Waiting.                                                                *)
(***************************************************************************)
\* Fail at the revision at: return it, or go on if the target has moved.
Report ==
  /\ last_failure' = at
  /\ IF target.rev = at THEN pc' = "idle" /\ status' = Failed(at)
     ELSE pc' = "loop" /\ UNCHANGED status
  /\ UNCHANGED <<target, at, begun>>

StopAnswers ==
  /\ pc = "stopping" /\ Awaiting(active.effects)
  /\ active' = [active EXCEPT !.effects = Unwound(Popped(@))]
  /\ live' = live \ ({Newest(active.effects)} \cup Undoable(Popped(active.effects)))
  /\ UNCHANGED <<target, candidate, stop_attempt, last_failure, pc, at, status, begun>>

StopEnds ==
  /\ pc = "stopping" /\ ~ Awaiting(active.effects)
  /\ active' = None /\ stop_attempt' = FALSE
  /\ pc' = "loop"
  /\ UNCHANGED <<target, candidate, last_failure, at, status, live, begun>>

\* Fault: a failed stop is not resumed.
StopFailsReset ==
  /\ pc = "stopping" /\ Awaiting(active.effects)
  /\ Report
  /\ stop_attempt' = FALSE
  /\ UNCHANGED <<active, candidate, live>>

\* Fault: a mount whose stop failed is given up.
StopFailsForgetting ==
  /\ pc = "stopping" /\ Awaiting(active.effects)
  /\ Report
  /\ active' = None /\ stop_attempt' = FALSE
  /\ UNCHANGED <<candidate, live>>

StopFails ==
  /\ pc = "stopping" /\ Awaiting(active.effects)
  /\ Report
  /\ UNCHANGED <<active, candidate, stop_attempt, live>>

RollBackAnswers ==
  /\ pc = "rolling_back" /\ Awaiting(candidate.effects)
  /\ candidate' = [candidate EXCEPT !.effects = Unwound(Popped(@))]
  /\ live' = live \ ({Newest(candidate.effects)} \cup Undoable(Popped(candidate.effects)))
  /\ UNCHANGED <<target, active, stop_attempt, last_failure, pc, at, status, begun>>

\* Fault: the failure that led to the rollback is not recorded.
RollBackEndsSilently ==
  /\ pc = "rolling_back" /\ ~ Awaiting(candidate.effects)
  /\ candidate' = None /\ pc' = "loop"
  /\ UNCHANGED <<target, active, stop_attempt, last_failure, at, status, live, begun>>

RollBackEnds ==
  /\ pc = "rolling_back" /\ ~ Awaiting(candidate.effects)
  /\ candidate' = None
  /\ IF candidate.failure = target.rev
     THEN last_failure' = target.rev /\ pc' = "idle" /\ status' = Failed(target.rev)
     ELSE pc' = "loop" /\ UNCHANGED <<last_failure, status>>
  /\ UNCHANGED <<target, active, stop_attempt, at, live, begun>>

\* Fault: a candidate whose rollback failed is given up.
RollBackFailsForgetting ==
  /\ pc = "rolling_back" /\ Awaiting(candidate.effects)
  /\ Report
  /\ candidate' = None
  /\ UNCHANGED <<active, stop_attempt, live>>

RollBackFails ==
  /\ pc = "rolling_back" /\ Awaiting(candidate.effects)
  /\ Report
  /\ candidate' = [candidate EXCEPT !.failure = at]
  /\ UNCHANGED <<active, stop_attempt, live>>

\* prepare and activate register what they do as they go.
Register(kind) ==
  /\ pc \in {"preparing", "activating"}
  /\ Len(candidate.effects.entries) < MaxEffects
  /\ LET e == [mount |-> candidate.rev, n |-> Len(candidate.effects.entries) + 1,
               kind |-> kind, published |-> pc = "activating"]
     IN /\ candidate' = [candidate EXCEPT !.effects = Owning(@, e)]
        /\ live' = live \cup {e}
  /\ UNCHANGED <<target, active, stop_attempt, last_failure, pc, at, status, begun>>

PrepareEnds ==
  /\ pc = "preparing"
  /\ candidate' = [candidate EXCEPT !.phase = "prepared"]
  /\ pc' = "loop"
  /\ UNCHANGED <<target, active, stop_attempt, last_failure, at, status, live, begun>>

\* A failed preparation or activation is rolled back before it is reported.
LifecycleFails ==
  /\ pc \in {"preparing", "activating"}
  /\ candidate' = [candidate EXCEPT !.phase = "rolling_back", !.failure = at]
  /\ pc' = "loop"
  /\ UNCHANGED <<target, active, stop_attempt, last_failure, at, status, live, begun>>

ActivateEnds ==
  /\ pc = "activating"
  /\ active' = [desired |-> candidate.desired, mount |-> candidate.rev, effects |-> candidate.effects]
  /\ candidate' = None
  /\ pc' = "loop"
  /\ UNCHANGED <<target, stop_attempt, last_failure, at, status, live, begun>>

(***************************************************************************)
(* The future is dropped at an await: the guard records the interruption.  *)
(***************************************************************************)
Cancel ==
  /\ \/ pc = "stopping" /\ Awaiting(active.effects)
     \/ pc = "rolling_back" /\ Awaiting(candidate.effects)
     \/ pc = "preparing"
  /\ pc' = "idle" /\ last_failure' = at
  /\ UNCHANGED <<target, active, candidate, stop_attempt, at, status, live, begun>>

\* The reconciler itself is dropped with whatever it still owns.
Drop ==
  /\ pc = "idle"
  /\ pc' = "dropped"
  /\ live' = (IF active = None THEN {} ELSE Abandoned(active.effects))
             \cup (IF candidate = None THEN {} ELSE Abandoned(candidate.effects))
  /\ active' = None /\ candidate' = None
  /\ UNCHANGED <<target, stop_attempt, last_failure, at, status, begun>>

Loop ==
  \/ Refuse \/ StopBegin \/ Discard \/ RollBackBegin \/ StopActive
  \/ ActivateBegin \/ PrepareBegin \/ Settle

\* The lifecycle and the stops answer.
Answer ==
  \/ StopAnswers \/ StopEnds \/ StopFails
  \/ RollBackAnswers \/ RollBackEnds \/ RollBackFails
  \/ PrepareEnds \/ LifecycleFails \/ ActivateEnds

Next ==
  \/ \E d \in Desired \cup {None} : SetDesired(d)
  \/ Retry \/ Reconcile \/ Loop \/ Answer
  \/ \E kind \in {"sync", "async"} : Register(kind)
  \/ Cancel \/ Drop

\* A polled future goes on, and the lifecycle it awaits answers.
Spec == Init /\ [][Next]_vars /\ WF_vars(Loop) /\ WF_vars(Answer)
-----------------------------------------------------------------------------

\* The types of the state.  A transition in flight has the mount it works on,
\* a stop attempt keeps its mount, and only a scope being disposed of is
\* below "active".
TypeOK ==
  /\ target \in [rev : Revisions, desired : Desired \cup {None}]
  /\ active \in Mounts \cup {None}
  /\ candidate \in Candidates \cup {None}
  /\ last_failure \in 0 .. MaxRev /\ at \in 0 .. MaxRev
  /\ live \subseteq Effects
  /\ pc \in {"idle", "loop", "stopping", "rolling_back", "preparing", "activating", "dropped"}
  /\ stop_attempt /\ pc # "dropped" => active # None
  /\ pc = "stopping" => stop_attempt
  /\ pc \in {"preparing", "activating"} => candidate # None /\ Accepting(candidate.effects)
  /\ active # None => (Accepting(active.effects) \/ stop_attempt)

\* Effects are undone newest first: nothing newer of the same mount stays in
\* force when an effect goes, on every path, a drop included.
LifoUndo ==
  [][\A e \in live \ live', f \in live' : f.mount = e.mount => f.n < e.n]_vars

\* What a component publishes is in force for one mount at a time: a new
\* candidate is activated only after the old mount has stopped completely.
OnePublished ==
  \A e, f \in live : e.published /\ f.published => e.mount = f.mount

\* Nothing in force is lost: until the reconciler is dropped, the active
\* mount or the candidate owns every effect, whatever failed or was cancelled.
NoneLost ==
  pc # "dropped" =>
    live = (IF active = None THEN {} ELSE Entries(active.effects))
           \cup (IF candidate = None THEN {} ELSE Entries(candidate.effects))

\* The invariant of the reconciler: the two above on well-typed states.
ReconcilerInv == TypeOK /\ OnePublished /\ NoneLost

\* A settled answer is the truth: the desired state of the current revision
\* is mounted, whole, and nothing else is in force.
SettledExact ==
  [][pc = "loop" /\ pc' = "idle" /\ status'.kind = "settled" =>
       /\ status'.rev = target.rev /\ candidate = None
       /\ IF target.desired = None THEN live = {}
          ELSE /\ active.desired = target.desired
               /\ Accepting(active.effects) /\ live = Entries(active.effects)]_vars

\* Each transition of a mount is tried at most once for one revision: a
\* failure or an interruption is final until the target changes.
OncePerRevision ==
  [][pc = "loop" /\ pc' \in {"stopping", "rolling_back", "preparing", "activating"} =>
       begun' # begun]_vars

\* A polled reconciliation ends, however the target moved and whatever failed.
ReconcileEnds == pc = "loop" ~> pc \in {"idle", "dropped"}
=============================================================================
