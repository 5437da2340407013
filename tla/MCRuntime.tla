------------------------------ MODULE MCRuntime ------------------------------
(***************************************************************************)
(* The parts of the runtime around its composition root, one per initial   *)
(* state: the scope tree, the start and its cleanup, the durable exit, the *)
(* barrier that exit waits for, the documents it saves, the registries,    *)
(* the feed of snapshots and the capability slots.                         *)
(***************************************************************************)
EXTENDS StoreBarrier

CONSTANTS MaxScopes, MaxEffects, MaxInstalls,
          MaxOwn, MaxMarkdown, Callers, Scopes, Ids, Orders, MaxRevision,
          Subscribers, Guards, MaxPublished,
          Capabilities, Providers, MaxGeneration, MaxHandles,
          MaxChanges, MaxRuns

VARIABLES part,
          nodes, next_id, tree, closing, live, tokens,
          stage, step, own, inForce, slots, scopes, retried,
          caller, answer, started, result, work, heard, late, runs,
          layers, revision, next_generation, registered, spent,
          current, source, sub, guard,
          leased, last, registrations, replaced, handles, snapshot,
          docs, onDisk, writing, todo, window, quit, saver, running, starts, kept

Tree == INSTANCE ScopeTree
Start == INSTANCE Startup WITH pc <- stage, live <- inForce
Exit == INSTANCE AppExit
Contributions == INSTANCE Registry WITH tokens <- registered
Feed == INSTANCE SnapshotFeed
Slot == INSTANCE CapabilitySlots WITH current <- leased, Scopes <- {0, 1}
Store == INSTANCE LiveDocument WITH live <- docs, disk <- onDisk, runs <- starts

ASSUME PartsAssumption ==
  Tree!Parameters /\ Start!Parameters /\ Contributions!Parameters /\ Slot!Parameters

treeVars == <<nodes, next_id, tree, closing, live, tokens>>
startVars == <<stage, step, own, inForce, slots, scopes, retried>>
exitVars == <<caller, answer, started, result, work, heard, late, runs>>
registryVars == <<layers, revision, next_generation, registered, spent>>
feedVars == <<current, source, sub, guard>>
slotVars == <<leased, last, registrations, replaced, handles, snapshot>>
storeVars == <<docs, onDisk, writing, todo, window, quit, saver, running, starts, kept>>

MCInit ==
  /\ part \in {"scopes", "start", "exit", "registry", "feed", "barrier", "slots", "documents"}
  /\ Init /\ Tree!Init /\ Start!Init /\ Exit!Init /\ Contributions!Init /\ Feed!Init /\ Slot!Init
  /\ Store!Init

MCNext ==
  \/ part = "scopes" /\ Tree!Next
     /\ UNCHANGED <<part, vars, startVars, exitVars, registryVars, feedVars, slotVars, storeVars>>
  \/ part = "start" /\ Start!Next
     /\ UNCHANGED <<part, vars, treeVars, exitVars, registryVars, feedVars, slotVars, storeVars>>
  \/ part = "exit" /\ Exit!Next
     /\ UNCHANGED <<part, vars, treeVars, startVars, registryVars, feedVars, slotVars, storeVars>>
  \/ part = "registry" /\ Contributions!Next
     /\ UNCHANGED <<part, vars, treeVars, startVars, exitVars, feedVars, slotVars, storeVars>>
  \/ part = "feed" /\ Feed!Next
     /\ UNCHANGED <<part, vars, treeVars, startVars, exitVars, registryVars, slotVars, storeVars>>
  \/ part = "barrier" /\ Next
     /\ UNCHANGED <<part, treeVars, startVars, exitVars, registryVars, feedVars, slotVars, storeVars>>
  \/ part = "slots" /\ Slot!Next
     /\ UNCHANGED <<part, vars, treeVars, startVars, exitVars, registryVars, feedVars, storeVars>>
  \/ part = "documents" /\ Store!Next
     /\ UNCHANGED <<part, vars, treeVars, startVars, exitVars, registryVars, feedVars, slotVars>>

mcVars == <<part, vars, treeVars, startVars, exitVars, registryVars, feedVars, slotVars, storeVars>>
MCSpec == MCInit /\ [][MCNext]_mcVars /\ Exit!Fairness /\ Feed!Fairness /\ Fairness

(* Everything in force has an owner who can undo it or revoke it, and an    *)
(* answer tells what was done: Startup!StartupExact, AppExit!OneExit,       *)
(* Registry!OwnersKeep, CapabilitySlots!SlotsHold.                          *)
RuntimeOwned ==
  /\ part = "start" => Start!StartupExact
  /\ part = "exit" => Exit!OneExit
  /\ part = "registry" => Contributions!OwnersKeep
  /\ part = "slots" => Slot!SlotsHold

(* The scopes stay a tree that owns what is in force, and undoing goes      *)
(* inwards out and backwards: ScopeTree!ScopesOwned and InnerFirst over     *)
(* scopes, Startup!UndoneInReverse over the steps of the start; and the     *)
(* revision of a registry tells its consumers (Registry!RevisionTells).     *)
UndoneInOrder ==
  /\ [](part = "scopes" => Tree!ScopesOwned)
  /\ Tree!InnerFirst /\ Start!UndoneInReverse /\ Contributions!RevisionTells

(* What was saved stays saved, through exits, late threads and crashes, as  *)
(* long as it can be read (LiveDocument!SavedStays:                         *)
(* PreferenceHandle::replace, snapshot_with, load).                         *)
SavedStays == Store!SavedStays

(* Who waits is served: AppExit!CallersAnswered for those who ask for the   *)
(* exit, SnapshotFeed!SubscribersCatchUp for those who follow the runtime,  *)
(* StoreBarrier!ShutdownCloses for those who wait for a domain.             *)
WaitersServed == Exit!CallersAnswered /\ Feed!SubscribersCatchUp /\ ShutdownCloses
==============================================================================
