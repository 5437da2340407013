------------------------------- MODULE Startup -------------------------------
(***************************************************************************)
(* The start of the runtime (CompositionRootBuilder::build in              *)
(* runtime/composition.rs): providers are prepared, contributions          *)
(* registered, providers activated and audited, or, at the first failure,  *)
(* everything done so far is undone by StartupCleanup.  A cleanup that     *)
(* fails stays owned by the error, whose settle tries it once more.        *)
(*                                                                         *)
(* The scope tree and the preference provider own nothing of their own     *)
(* here: the builder gives them a ready handle and registers no effect.    *)
(***************************************************************************)
EXTENDS EffectScope

CONSTANTS MaxOwn,      \* bound: effects one preparation or activation owns
          MaxMarkdown, \* contributions of the built-in extensions
          None

\* What the parameters are assumed to be.
Parameters == MaxOwn \in Nat /\ MaxMarkdown \in Nat

VARIABLES pc,      \* "build", "cleanup", or how they ended
          step,    \* the step of build in BuildOrder
          own,     \* the effect scope of every stage
          live,    \* the effects in force
          slots,   \* the capabilities that are published
          scopes,  \* the scope tree: "open" or "closed"
          retried  \* settle has tried the cleanup again
vars == <<pc, step, own, live, slots, scopes, retried>>

Services == {"generation", "session", "preferences"}
Prep(p) == <<"preparation", p>>
Act(p) == <<"activation", p>>
Markdown == <<"contributions", "markdown">>

\* What build does, in order.
BuildOrder ==
  <<Prep("generation"), Prep("session"), Prep("preferences"), Markdown,
    Act("session"), Act("preferences"), Act("generation")>>
Stages == {BuildOrder[i] : i \in DOMAIN BuildOrder}

\* Fault: the preferences are disposed of before what was activated on them.
SwappedCleanup ==
  <<Act("generation"), Act("session"), Act("preferences"), Markdown,
    Prep("preferences"), Prep("session"), Prep("generation")>>

\* What StartupCleanup::dispose undoes, in order.
CleanupOrder ==
  <<Act("generation"), Act("preferences"), Act("session"), Markdown,
    Prep("preferences"), Prep("session"), Prep("generation")>>

Init ==
  /\ pc = "build" /\ step = 1 /\ own = [s \in Stages |-> NewScope]
  /\ live = {} /\ slots = {} /\ scopes = "open" /\ retried = FALSE

Building == pc = "build" /\ step <= Len(BuildOrder)
At == BuildOrder[step]

\* The effects a stage comes to own, newest last: they are ranked by when
\* they came into force.
NewEffects(s, kinds) ==
  [i \in DOMAIN kinds |-> [stage |-> s, kind |-> kinds[i], rank |-> Cardinality(live) + i]]

Owns(s, kinds) ==
  LET es == NewEffects(s, kinds)
  IN /\ own' = [own EXCEPT ![s].entries = @ \o es]
     /\ live' = live \cup {es[i] : i \in DOMAIN es}

Kinds == UNION {[1 .. n -> {"sync", "async"}] : n \in 0 .. MaxOwn}

\* A provider is registered twice, the selected one not at all, or one
\* component for two capabilities: build ends before it owns anything.
RefuseProviders ==
  /\ pc = "build" /\ step = 1
  /\ pc' = "failed" /\ scopes' = "closed"
  /\ UNCHANGED <<step, own, live, slots, retried>>

\* The factory answers a handle and the effects of its preparation; the
\* preferences are ready and own none.
Prepare(kinds) ==
  /\ Building /\ At[1] = "preparation"
  /\ At[2] = "preferences" => kinds = <<>>
  /\ Owns(At, kinds)
  /\ step' = step + 1
  /\ UNCHANGED <<pc, slots, scopes, retried>>

\* A factory that fails has taken its own effects back.
PrepareFails ==
  /\ Building /\ At[1] = "preparation" /\ At[2] # "preferences"
  /\ pc' = "cleanup"
  /\ UNCHANGED <<step, own, live, slots, scopes, retried>>

\* One asynchronous owner for each contribution of the batch.
RegisterMarkdown ==
  /\ Building /\ At = Markdown
  /\ Owns(At, [i \in 1 .. MaxMarkdown |-> "async"])
  /\ step' = step + 1
  /\ UNCHANGED <<pc, slots, scopes, retried>>

\* The batch is refused as a whole.
RegisterFails ==
  /\ Building /\ At = Markdown
  /\ pc' = "cleanup"
  /\ UNCHANGED <<step, own, live, slots, scopes, retried>>

\* The activation callback owns effects, then the capability is published and
\* its registration is owned behind them.
Activate(kinds) ==
  /\ Building /\ At[1] = "activation"
  /\ At[2] = "preferences" => kinds = <<>>
  /\ Owns(At, Append(kinds, "async"))
  /\ slots' = slots \cup {At[2]}
  /\ step' = step + 1
  /\ UNCHANGED <<pc, scopes, retried>>

\* The callback fails behind some of its effects, which stay owned.
ActivateFails(kinds) ==
  /\ Building /\ At[1] = "activation" /\ At[2] # "preferences"
  /\ Owns(At, kinds)
  /\ pc' = "cleanup"
  /\ UNCHANGED <<step, slots, scopes, retried>>

Audited == pc = "build" /\ step = Len(BuildOrder) + 1

Publish ==
  /\ Audited /\ pc' = "published"
  /\ UNCHANGED <<step, own, live, slots, scopes, retried>>

\* The snapshot is invalid, or a component that must be active is not.
AuditFails ==
  /\ Audited /\ pc' = "cleanup"
  /\ UNCHANGED <<step, own, live, slots, scopes, retried>>
------------------------------------------------------------------------------
(* Cleanup.                                                                *)
\* The stages that are left, by their places in the order, and the next one.
Remaining == {i \in DOMAIN CleanupOrder : own[CleanupOrder[i]].state # "disposed"}
FirstRemaining == CleanupOrder[Min(Remaining)]

DisposeStage ==
  /\ pc = "cleanup" /\ Remaining # {}
  /\ LET s == FirstRemaining
     IN /\ ~ Awaiting(own[s])
        /\ own' = [own EXCEPT ![s] = Unwound(@)]
        /\ live' = live \ Undoable(own[s])
  /\ UNCHANGED <<step, pc, slots, scopes, retried>>

\* The owner at the barrier stopped: the last one of an activation, when it
\* published, is the registration, which withdraws the capability.
StopEnds ==
  /\ pc = "cleanup" /\ Remaining # {}
  /\ LET s == FirstRemaining
     IN /\ Awaiting(own[s])
        /\ own' = [own EXCEPT ![s] = Unwound(Popped(@))]
        /\ live' = live \ ({Newest(own[s])} \cup Undoable(Popped(own[s])))
        /\ slots' = IF s[1] = "activation" THEN slots \ {s[2]} ELSE slots
  /\ UNCHANGED <<step, pc, scopes, retried>>

\* The cleanup answers the error and stays owned by it.
StopFails ==
  /\ pc = "cleanup" /\ Remaining # {} /\ Awaiting(own[FirstRemaining])
  /\ pc' = "retained"
  /\ UNCHANGED <<step, own, live, slots, scopes, retried>>

\* Fault: settle goes on behind the stage that failed.
RetrySkipping ==
  /\ pc = "retained" /\ ~ retried
  /\ pc' = "cleanup" /\ retried' = TRUE
  /\ own' = [own EXCEPT ![FirstRemaining].state = "disposed"]
  /\ UNCHANGED <<step, live, slots, scopes>>

\* CompositionBuildError::settle runs the same cleanup again, once.
Retry ==
  /\ pc = "retained" /\ ~ retried
  /\ pc' = "cleanup" /\ retried' = TRUE
  /\ UNCHANGED <<step, own, live, slots, scopes>>

\* The scope tree closes last, and build answers why it failed.
CleanupEnds ==
  /\ pc = "cleanup" /\ Remaining = {}
  /\ scopes' = "closed" /\ pc' = "failed"
  /\ UNCHANGED <<step, own, live, slots, retried>>

Next ==
  \/ \E kinds \in Kinds : Prepare(kinds) \/ Activate(kinds) \/ ActivateFails(kinds)
  \/ RefuseProviders \/ RegisterMarkdown \/ PrepareFails \/ RegisterFails \/ Publish \/ AuditFails
  \/ DisposeStage \/ StopEnds \/ StopFails \/ Retry \/ CleanupEnds

Spec == Init /\ [][Next]_vars
------------------------------------------------------------------------------
(* Properties.                                                             *)
\* What was done last is undone first, across providers, contributions and
\* stages, failing stops and the retry (StartupCleanup::dispose).
UndoneInReverse == [][\A e \in live \ live' : \A f \in live' : f.rank < e.rank]_vars

\* A build that answers its failure has left nothing behind, one that still
\* owns a failed cleanup can account for all that is in force, and one that
\* succeeds has everything in force (build, finish_startup_failure, settle).
StartupExact ==
  /\ live = UNION {Entries(own[s]) : s \in Stages}
  /\ pc = "failed" => live = {} /\ slots = {} /\ scopes = "closed"
  /\ pc = "published" => /\ \A s \in Stages : Accepting(own[s])
                         /\ slots = Services /\ scopes = "open"
  /\ pc = "retained" => live # {} /\ scopes = "open"
=============================================================================
