----------------------------- MODULE MCReplacement -----------------------------
(***************************************************************************)
(* The two ways the runtime replaces what is active, one per initial       *)
(* state: the reconciler, driven by a desired state and its revision, and  *)
(* the composition root, driven by calls.                                  *)
(***************************************************************************)
EXTENDS Reconciler

CONSTANTS Providers, Consumers, MaxInstances

VARIABLES part,
          inst, generation, provider, transition, failure, pending, mounted,
          slot, others, closed, op, waiting, con

Root == INSTANCE CompositionRoot

ASSUME RootAssumption == Root!Parameters

rootVars == <<inst, generation, provider, transition, failure, pending, mounted,
              slot, others, closed, op, waiting, con>>

\* The part that is not run starts in one of its initial states.
MCInit ==
  /\ Init /\ Root!Init
  /\ \/ /\ part = "reconciler"
        /\ provider = (CHOOSE p \in Providers : TRUE) /\ inst[1].prep = Owning(NewScope, Root!Prep("sync"))
     \/ part = "root" /\ target.desired = None

MCNext ==
  \/ part = "reconciler" /\ Next /\ UNCHANGED <<part, rootVars>>
  \/ part = "root" /\ Root!Next /\ UNCHANGED <<part, vars>>

MCSpec ==
  /\ MCInit /\ [][MCNext]_<<part, vars, rootVars>>
  /\ WF_vars(Loop) /\ WF_vars(Answer)
  /\ WF_rootVars(Root!Call) /\ \A c \in Consumers : WF_rootVars(Root!Release(c))

(* One thing is published, and every effect in force belongs to a mount or  *)
(* an instance that will undo it: Reconciler!ReconcilerInv and              *)
(* CompositionRoot!RootInv.                                                 *)
MountsOwned == ReconcilerInv /\ Root!RootInv

(* No instance is taken apart while a generation admitted by it runs        *)
(* (CompositionRoot!QuietDisposal).                                         *)
QuietDisposal == Root!QuietDisposal

(* What a caller is told is so: Reconciler!SettledExact for "settled",      *)
(* CompositionRoot!AnswersTrue for "replaced" and "unchanged".              *)
AnswersHold == SettledExact /\ Root!AnswersTrue

(* A close that reports success leaves nothing (CompositionRoot!ClosesClean). *)
ClosesClean == Root!ClosesClean

(* Every reconciliation and every call of the root ends while it is polled: *)
(* Reconciler!ReconcileEnds and CompositionRoot!CallsEnd.                   *)
CallsReturn == ReconcileEnds /\ Root!CallsEnd
==============================================================================
