--------------------------- MODULE CompositionRoot ---------------------------
(***************************************************************************)
(* The generation capability of the application (runtime/composition.rs,   *)
(* runtime/generation_mount.rs): replacing its provider and closing the    *)
(* root, while consumers start and run generations through the one stable  *)
(* service they hold.                                                      *)
(*                                                                         *)
(* A provider is prepared into an instance, which owns a preparation and   *)
(* an activation scope.  replace_generation_provider and close own the     *)
(* root exclusively; their future waits for running generations and for    *)
(* the stops of effects, and can be dropped at each of these awaits.       *)
(* Consumers run on other threads.  The table inst keeps every instance    *)
(* ever prepared, also one the root would no longer own.                   *)
(***************************************************************************)
EXTENDS EffectScope

CONSTANTS
  Providers,     \* registered generation providers
  Consumers,     \* threads that start generations
  None,
  MaxInstances   \* bound on prepared instances

\* What the parameters are assumed to be.
Parameters ==
  /\ MaxInstances \in Nat \ {0} /\ Providers # {}
  /\ None \notin Providers \cup Nat
  /\ None \notin [inst : Nat, state : {"prepared", "rolling_back"}]

VARIABLES
  inst,        \* the instances prepared so far
  generation,  \* the active instance, with its binding
  provider,    \* generation_provider
  transition,  \* a transition of the active provider is recorded
  failure,     \* a failure of the active provider is recorded
  pending,     \* None, or the prepared candidate and its state
  mounted,     \* the instance behind the consumers' service
  slot,        \* the instance published in the capability slot
  others,      \* the remaining components: "active" or "closed"
  closed,
  op,          \* the call in progress
  waiting,     \* its quiesce waits to be woken
  con          \* the consumers

root == <<generation, provider, transition, failure, pending, mounted, slot, others, closed>>
vars == <<inst, root, op, waiting, con>>

Instances == DOMAIN inst

\* Effects: one of the preparation, the activation's own, and the registration
\* in the capability slot.
Prep(kind) == [of |-> "preparation", kind |-> kind]
Act == [of |-> "activation", kind |-> "async"]
Registration == [of |-> "registration", kind |-> "async"]

InForce(i) == Entries(inst[i].prep) \cup Entries(inst[i].act)

Whole(i) == Accepting(inst[i].prep) /\ Accepting(inst[i].act)

Prepared(p, kind) ==
  [provider |-> p, accepting |-> TRUE,
   prep |-> Owning(NewScope, Prep(kind)), act |-> NewScope]

Users(i) == {c \in Consumers : con[c].inst = i /\ con[c].st \in {"reserved", "running"}}

Idle == [kind |-> "none", target |-> None, pc |-> "idle", then |-> "none", answer |-> "none"]

Init ==
  /\ \E p \in Providers, kind \in {"sync", "async"} :
       /\ inst = <<[Prepared(p, kind) EXCEPT !.act = Owning(Owning(NewScope, Act), Registration)]>>
       /\ provider = p
  /\ generation = 1 /\ mounted = 1 /\ slot = 1
  /\ transition = FALSE /\ failure = FALSE
  /\ pending = None
  /\ others = "active" /\ closed = FALSE
  /\ op = Idle /\ waiting = FALSE
  /\ con = [c \in Consumers |-> [st |-> "idle", inst |-> None]]

(***************************************************************************)
(* Disposal of an instance: the activation scope, then the preparation     *)
(* scope, as far as it goes without waiting.                               *)
(***************************************************************************)
Progress(r) ==
  IF Barrier(r.act) = 0 THEN [r EXCEPT !.act = Unwound(@), !.prep = Unwound(@)]
  ELSE [r EXCEPT !.act = Unwound(@)]

Held(r) == IF r.act.entries # <<>> THEN r.act ELSE r.prep

Gone(r) == Held(r).entries = <<>>

OwnerStopped(r) ==
  Progress(IF r.act.entries # <<>> THEN [r EXCEPT !.act = Popped(@)] ELSE [r EXCEPT !.prep = Popped(@)])

Goto(l) == op' = [op EXCEPT !.pc = l]

Answer(a) == op' = [Idle EXCEPT !.answer = a]

\* The instance the call is taking apart.
Victim == IF op.pc = "rollback" THEN pending.inst ELSE generation

\* stop() of the newest owner answers Ok; the registration's revokes its slot.
StopAnswers ==
  /\ op.pc \in {"rollback", "dispose"} /\ ~ Gone(inst[Victim])
  /\ inst' = [inst EXCEPT ![Victim] = OwnerStopped(@)]
  /\ slot' = IF Newest(Held(inst[Victim])) = Registration THEN None ELSE slot
  /\ UNCHANGED <<generation, provider, transition, failure, pending, mounted, others, closed,
                 op, waiting, con>>

(***************************************************************************)
(* replace_generation_provider.                                            *)
(***************************************************************************)
Serving(p) == provider = p /\ generation # None

\* Fault: a transition that was interrupted is not looked at.
ReplaceUnchangedEagerly(p) ==
  /\ op.pc = "idle"
  /\ Serving(p) /\ ~ failure
  /\ op' = [Idle EXCEPT !.target = p, !.answer = "unchanged"]
  /\ UNCHANGED <<inst, root, waiting, con>>

ReplaceUnchanged(p) ==
  /\ op.pc = "idle"
  /\ Serving(p) /\ ~ transition /\ ~ failure
  /\ op' = [Idle EXCEPT !.target = p, !.answer = "unchanged"]
  /\ UNCHANGED <<inst, root, waiting, con>>

\* The rollback of the pending candidate starts, and then the call goes on.
RollBackPending(call) ==
  /\ pending' = [pending EXCEPT !.state = "rolling_back"]
  /\ inst' = [inst EXCEPT ![pending.inst] = Progress(@)]
  /\ op' = [call EXCEPT !.pc = "rollback"]

\* Fault: a candidate whose rollback was interrupted is used again.
ReplaceReusing(p) ==
  /\ op.pc = "idle"
  /\ ~ (Serving(p) /\ ~ transition /\ ~ failure)
  /\ LET call == [Idle EXCEPT !.kind = "replace", !.target = p, !.then = "prepare"] IN
     IF pending # None /\ inst[pending.inst].provider # p
     THEN RollBackPending(call)
     ELSE op' = [call EXCEPT !.pc = "prepare"] /\ UNCHANGED <<inst, pending>>
  /\ UNCHANGED <<generation, provider, transition, failure, mounted, slot, others, closed,
                 waiting, con>>

Replace(p) ==
  /\ op.pc = "idle"
  /\ ~ (Serving(p) /\ ~ transition /\ ~ failure)
  /\ LET call == [Idle EXCEPT !.kind = "replace", !.target = p, !.then = "prepare"] IN
     IF pending # None /\ (inst[pending.inst].provider # p \/ pending.state = "rolling_back")
     THEN RollBackPending(call)
     ELSE op' = [call EXCEPT !.pc = "prepare"] /\ UNCHANGED <<inst, pending>>
  /\ UNCHANGED <<generation, provider, transition, failure, mounted, slot, others, closed,
                 waiting, con>>

\* Fault: a candidate whose rollback failed is given up.
RollBackFailsForgetting ==
  /\ op.pc = "rollback" /\ ~ Gone(inst[pending.inst])
  /\ Newest(Held(inst[pending.inst])) # Registration
  /\ pending' = None /\ Answer("error")
  /\ UNCHANGED <<inst, generation, provider, transition, failure, mounted, slot, others, closed,
                 waiting, con>>

RollBackFails ==
  /\ op.pc = "rollback" /\ ~ Gone(inst[pending.inst])
  /\ Newest(Held(inst[pending.inst])) # Registration
  /\ Answer("error")
  /\ UNCHANGED <<inst, root, waiting, con>>

RollBackEnds ==
  /\ op.pc = "rollback" /\ Gone(inst[pending.inst])
  /\ pending' = None
  /\ IF op.then = "fail" THEN failure' = TRUE /\ transition' = FALSE /\ Answer("error")
     ELSE Goto(op.then) /\ UNCHANGED <<failure, transition>>
  /\ UNCHANGED <<inst, generation, provider, mounted, slot, others, closed, waiting, con>>

\* A candidate kept from an interrupted call is used again.
Prepare ==
  /\ op.pc = "prepare"
  /\ \/ pending # None
        /\ Goto("stop") /\ UNCHANGED <<inst, pending>>
     \/ pending = None
        /\ Answer("error") /\ UNCHANGED <<inst, pending>>
     \/ /\ pending = None /\ Len(inst) < MaxInstances
        /\ \E kind \in {"sync", "async"} : inst' = Append(inst, Prepared(op.target, kind))
        /\ pending' = [inst |-> Len(inst) + 1, state |-> "prepared"]
        /\ Goto("stop")
  /\ UNCHANGED <<generation, provider, transition, failure, mounted, slot, others, closed,
                 waiting, con>>

\* close_and_wait: no new generation is admitted, and the call waits if any runs.
Quiesce ==
  /\ op.pc = "stop" /\ generation # None
  /\ inst' = [inst EXCEPT ![generation].accepting = FALSE]
  /\ waiting' = (Users(generation) # {})
  /\ transition' = TRUE /\ failure' = FALSE
  /\ Goto("quiesce")
  /\ UNCHANGED <<generation, provider, pending, mounted, slot, others, closed, con>>

NothingToStop ==
  /\ op.pc = "stop" /\ generation = None
  /\ failure' = IF op.kind = "replace" THEN FALSE ELSE failure
  /\ Goto(IF op.kind = "replace" THEN "activate" ELSE "others")
  /\ UNCHANGED <<inst, generation, provider, transition, pending, mounted, slot, others, closed,
                 waiting, con>>

Quiesced ==
  /\ op.pc = "quiesce" /\ ~ waiting
  /\ mounted' = None
  /\ inst' = [inst EXCEPT ![generation] = Progress(@)]
  /\ Goto("dispose")
  /\ UNCHANGED <<generation, provider, transition, failure, pending, slot, others, closed,
                 waiting, con>>

\* Fault: the successor is activated although the stop of the old one failed.
DisposeFailsGoingOn ==
  /\ op.pc = "dispose" /\ ~ Gone(inst[generation])
  /\ Newest(Held(inst[generation])) # Registration
  /\ generation' = None /\ transition' = FALSE /\ failure' = TRUE
  /\ Goto(IF op.kind = "replace" THEN "activate" ELSE "others")
  /\ UNCHANGED <<inst, provider, pending, mounted, slot, others, closed, waiting, con>>

DisposeFails ==
  /\ op.pc = "dispose" /\ ~ Gone(inst[generation])
  /\ Newest(Held(inst[generation])) # Registration
  /\ transition' = FALSE /\ failure' = TRUE
  /\ Answer("error")
  /\ UNCHANGED <<inst, generation, provider, pending, mounted, slot, others, closed, waiting, con>>

DisposeEnds ==
  /\ op.pc = "dispose" /\ Gone(inst[generation])
  /\ generation' = None /\ transition' = FALSE /\ failure' = FALSE
  /\ Goto(IF op.kind = "replace" THEN "activate" ELSE "others")
  /\ UNCHANGED <<inst, provider, pending, mounted, slot, others, closed, waiting, con>>

\* The candidate is activated, registered and mounted for the consumers.
Activate ==
  /\ op.pc = "activate" /\ slot = None /\ ~ closed
  /\ \E own \in {NewScope, Owning(NewScope, Act)} :
       inst' = [inst EXCEPT ![pending.inst].act = Owning(own, Registration)]
  /\ generation' = pending.inst /\ slot' = pending.inst /\ mounted' = pending.inst
  /\ pending' = None
  /\ provider' = op.target /\ transition' = FALSE /\ failure' = FALSE
  /\ op' = [Idle EXCEPT !.target = op.target, !.answer = "replaced"]
  /\ UNCHANGED <<others, closed, waiting, con>>

\* The activation fails before or after it registered its effect, or the
\* capability slot refuses it, as it does once the scopes are closed.
ActivateFails ==
  /\ op.pc = "activate"
  /\ \E own \in {NewScope, Owning(NewScope, Act)} :
       inst' = [inst EXCEPT ![pending.inst] = Progress([@ EXCEPT !.act = own])]
  /\ pending' = [pending EXCEPT !.state = "rolling_back"]
  /\ provider' = op.target /\ transition' = FALSE /\ failure' = FALSE
  /\ op' = [op EXCEPT !.pc = "rollback", !.then = "fail"]
  /\ UNCHANGED <<generation, mounted, slot, others, closed, waiting, con>>

(***************************************************************************)
(* close: the durable exit, the pending candidate, the active provider,    *)
(* the other components and the scopes, in this order.                     *)
(***************************************************************************)
\* Fault: only the active provider is closed.
CloseActiveOnly ==
  /\ op.pc = "idle" /\ ~ closed
  /\ op' = [Idle EXCEPT !.kind = "close", !.then = "stop", !.pc = "stop"]
  /\ UNCHANGED <<inst, root, waiting, con>>

Close ==
  /\ op.pc = "idle"
  /\ LET call == [Idle EXCEPT !.kind = "close", !.then = "stop"] IN
     IF closed THEN Answer("closed") /\ UNCHANGED <<inst, pending>>
     ELSE IF pending # None THEN RollBackPending(call)
     ELSE op' = [call EXCEPT !.pc = "stop"] /\ UNCHANGED <<inst, pending>>
  /\ UNCHANGED <<generation, provider, transition, failure, mounted, slot, others, closed,
                 waiting, con>>

\* The durable shutdown that precedes the scopes reports a failed domain.
ExitFails ==
  /\ op.pc = "idle" /\ ~ closed
  /\ Answer("error")
  /\ UNCHANGED <<inst, root, waiting, con>>

OthersFail ==
  /\ op.pc = "others"
  /\ Answer("error")
  /\ UNCHANGED <<inst, root, waiting, con>>

CloseEnds ==
  /\ op.pc = "others"
  /\ others' = "closed" /\ closed' = TRUE
  /\ generation' = None /\ pending' = None /\ mounted' = None
  /\ transition' = FALSE /\ failure' = FALSE
  /\ Answer("closed")
  /\ UNCHANGED <<inst, provider, slot, waiting, con>>

(***************************************************************************)
(* The future is dropped while it waits.                                   *)
(***************************************************************************)
Cancel ==
  /\ \/ op.pc \in {"rollback", "dispose"} /\ ~ Gone(inst[Victim])
     \/ op.pc = "quiesce" /\ waiting
     \/ op.pc = "others"
  /\ waiting' = FALSE
  /\ Answer("cancelled")
  /\ UNCHANGED <<inst, root, con>>

(***************************************************************************)
(* Consumers.                                                              *)
(***************************************************************************)
Consumer(c, st, i) == con' = [con EXCEPT ![c] = [st |-> st, inst |-> i]]

\* MountedGenerationService::start copies the current service, and calls it
\* after its lock is released.
Fetch(c) ==
  /\ con[c].st = "idle"
  /\ Consumer(c, IF mounted = None THEN "idle" ELSE "fetched", mounted)
  /\ UNCHANGED <<inst, root, op, waiting>>

\* Fault: admission counts the generation whether or not it accepts.
ReserveUnchecked(c) ==
  /\ con[c].st = "fetched"
  /\ Consumer(c, "reserved", con[c].inst)
  /\ UNCHANGED <<inst, root, op, waiting>>

Reserve(c) ==
  /\ con[c].st = "fetched"
  /\ IF inst[con[c].inst].accepting THEN Consumer(c, "reserved", con[c].inst)
     ELSE Consumer(c, "idle", None)
  /\ UNCHANGED <<inst, root, op, waiting>>

Start(c) ==
  /\ con[c].st = "reserved"
  /\ Consumer(c, "running", con[c].inst)
  /\ UNCHANGED <<inst, root, op, waiting>>

\* Fault: the last permit wakes nobody.
ReleaseQuietly(c) ==
  /\ con[c].st \in {"reserved", "running"}
  /\ Consumer(c, "idle", None)
  /\ UNCHANGED <<inst, root, op, waiting>>

\* The provider refuses to start, or the run ends, is cancelled or dropped:
\* the permit is released, and the last one wakes who waits.
Release(c) ==
  /\ con[c].st \in {"reserved", "running"}
  /\ Consumer(c, "idle", None)
  /\ waiting' = (waiting /\ ~ (/\ Users(con[c].inst) = {c}
                               /\ ~ inst[con[c].inst].accepting))
  /\ UNCHANGED <<inst, root, op>>

Call ==
  \/ StopAnswers \/ RollBackFails \/ RollBackEnds \/ Prepare
  \/ Quiesce \/ NothingToStop \/ Quiesced \/ DisposeFails \/ DisposeEnds
  \/ Activate \/ ActivateFails \/ OthersFail \/ CloseEnds

Next ==
  \/ \E p \in Providers : ReplaceUnchanged(p) \/ Replace(p)
  \/ ExitFails \/ Close \/ Call \/ Cancel
  \/ \E c \in Consumers : Fetch(c) \/ Reserve(c) \/ Start(c) \/ Release(c)

\* A polled call goes on, stops answer, and a generation that was started ends.
Spec == Init /\ [][Next]_vars /\ WF_vars(Call) /\ \A c \in Consumers : WF_vars(Release(c))
-----------------------------------------------------------------------------
Steps == {"idle", "rollback", "prepare", "stop", "quiesce", "dispose", "activate", "others"}

\* The types of the state; a call that takes an instance apart has one, only
\* the active one is registered, and only admission that is closed is waited for.
TypeOK ==
  /\ Len(inst) \in 1 .. MaxInstances
  /\ \A i \in Instances : inst[i].provider \in Providers /\ inst[i].accepting \in BOOLEAN
  /\ {generation, mounted, slot} \subseteq Instances \cup {None}
  /\ provider \in Providers
  /\ pending = None \/ pending \in [inst : Instances, state : {"prepared", "rolling_back"}]
  /\ op.pc \in Steps
  /\ op.pc = "rollback" => pending # None /\ pending.state = "rolling_back"
  /\ op.pc = "activate" => pending # None /\ generation = None /\ Whole(pending.inst)
  /\ op.pc \in {"quiesce", "dispose"} => generation # None /\ ~ inst[generation].accepting
  /\ slot # None => slot = generation
  /\ waiting => op.pc = "quiesce"

\* No generation is admitted to, or runs on, a provider that is being taken
\* apart: its effects are undone only after every permit has come back.
QuietDisposal ==
  \A c \in Consumers : con[c].st \in {"reserved", "running"} => Whole(con[c].inst)

\* Activations exclude each other: what one activation did is undone before
\* the next one is done.
OneActivated ==
  \A i, j \in Instances : Entries(inst[i].act) # {} /\ Entries(inst[j].act) # {} => i = j

\* Whatever failed or was cancelled, the root still owns every instance with
\* effects in force, so that a later call can undo them.
NoneLost ==
  \A i \in Instances :
    InForce(i) # {} => i = generation \/ (pending # None /\ pending.inst = i)

\* "replaced" and "unchanged" are answered only when the consumers' service
\* and the slot lead to a whole, accepting instance of that provider.
Served(p) ==
  /\ generation # None /\ mounted = generation /\ slot = generation
  /\ inst[generation].provider = p
  /\ inst[generation].accepting /\ Whole(generation)

AnswersTrue ==
  [][op' # op /\ op'.answer \in {"unchanged", "replaced"} =>
       \E p \in Providers : p = op'.target /\ Served(p)']_vars

\* A root that closes leaves nothing in force and nothing to start on.
ClosesClean ==
  [][closed' /\ ~ closed =>
       /\ \A i \in Instances : InForce(i) = {}
       /\ mounted' = None /\ slot' = None]_vars

(***************************************************************************)
(* What the next rebuild of the diagnostics snapshot reports of the        *)
(* generation providers: the one that is active or was last, and a         *)
(* candidate of another provider.  "unsettled" stands for the states of a  *)
(* recorded transition or failure, which a candidate always has.           *)
(***************************************************************************)
StateOf(recorded, active) ==
  IF recorded THEN "unsettled" ELSE IF active THEN "active" ELSE "disposed"

\* A component reported as disposed is given no resources at all.
Component(p, state, owns) ==
  [component |-> p, state |-> state, owns |-> state # "disposed" /\ owns]

\* A recorded transition or failure counts as a resource, besides the effects.
Owns(i, recorded) == recorded \/ InForce(i) # {}

PendingIsPrimary ==
  pending # None /\ generation = None /\ inst[pending.inst].provider = provider

Primary ==
  LET recorded == transition \/ failure \/ PendingIsPrimary IN
  Component(provider,
            StateOf(recorded, generation # None /\ Registration \in Entries(inst[generation].act)),
            IF generation # None THEN Owns(generation, transition \/ failure)
            ELSE PendingIsPrimary /\ Owns(pending.inst, pending.state = "rolling_back"))

Reported ==
  {Primary} \cup
  (IF pending # None /\ inst[pending.inst].provider # provider
   THEN {Component(inst[pending.inst].provider, "unsettled",
                   Owns(pending.inst, pending.state = "rolling_back"))}
   ELSE {})

\* RuntimeSnapshot::new takes one component per provider.
Accepted(components) ==
  \A c, d \in components : c.component = d.component => c = d

\* The snapshot can be built, so that no call fails at it; what it reports as
\* active is what serves; and whoever owns effects is not reported disposed,
\* whichever failed or dropped call left them.
SnapshotTrue ==
  /\ Accepted(Reported)
  /\ \A c \in Reported : c.state = "active" => Served(c.component)
  /\ \A i \in Instances : InForce(i) # {} =>
       \E c \in Reported : c.component = inst[i].provider /\ c.owns

\* The invariant of the root's instances, on well-typed states.
RootInv == TypeOK /\ OneActivated /\ NoneLost /\ SnapshotTrue

\* Every call ends while it is polled, the wait for running generations too.
CallsEnd == op.pc # "idle" ~> op.pc = "idle"
=============================================================================
