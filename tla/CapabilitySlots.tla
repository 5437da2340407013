---------------------------- MODULE CapabilitySlots ----------------------------
(***************************************************************************)
(* The exclusive capability slots of the scopes (runtime/capability.rs)    *)
(* and the resolver of a component's required dependencies                 *)
(* (runtime/dependency.rs).  A provider publishes into a slot, is replaced *)
(* or revokes itself with its own registration; a component remembers what *)
(* it was activated with by a fingerprint of providers and generations.    *)
(***************************************************************************)
EXTENDS Naturals, FiniteSets

CONSTANTS None,
          Capabilities,
          Scopes,
          Providers,
          MaxGeneration,  \* the width of a generation (2^64 - 1 in the code)
          MaxHandles      \* bound on the publications

\* What the parameters are assumed to be.
Parameters == None \notin [provider : Providers, generation : Nat, handle : Nat]

Slots == Capabilities \X Scopes   \* a slot of a capability in every scope

VARIABLES
  current,        \* slot: the lease [provider, generation, handle], or None
  last,           \* slot: last_generation, 0 before the first
  registrations,  \* handed out: [slot, provider, generation, handle]
  replaced,       \* those whose publication a successor took over
  handles,        \* publications so far; each one's identity (registration)
  snapshot        \* what the component was activated with, or None

vars == <<current, last, registrations, replaced, handles, snapshot>>

Init ==
  /\ current = [s \in Slots |-> None]
  /\ last = [s \in Slots |-> 0]
  /\ registrations = {} /\ replaced = {} /\ handles = 0 /\ snapshot = None

\* Fault: a slot that is vacant counts from the start.
NextOfCurrent(s) == IF current[s] = None THEN 1 ELSE current[s].generation + 1

\* ComponentGeneration::next of the slot's last one, vacant or not.
NextGeneration(s) == last[s] + 1

Lease(s, p) == [provider |-> p, generation |-> NextGeneration(s), handle |-> handles + 1]
Registration(s, l) == [slot |-> s, provider |-> l.provider, generation |-> l.generation, handle |-> l.handle]

\* publish: refused, with nothing changed, when the generations are exhausted.
Publish(s, p) ==
  /\ NextGeneration(s) <= MaxGeneration /\ handles < MaxHandles
  /\ current' = [current EXCEPT ![s] = Lease(s, p)]
  /\ last' = [last EXCEPT ![s] = NextGeneration(s)]
  /\ registrations' = registrations \cup {Registration(s, Lease(s, p))}
  /\ handles' = handles + 1
  /\ UNCHANGED snapshot

\* A provider that prepared its handle takes a vacant slot, or explicitly
\* another provider's.
Install(s, p) == current[s] = None /\ Publish(s, p) /\ UNCHANGED replaced

Replace(s, p) ==
  /\ current[s] # None
  /\ Publish(s, p)
  /\ replaced' = replaced \cup {Registration(s, current[s])}

\* Fault: a registration revokes whatever its provider has there.
IsProviders(r, l) == l # None /\ r.provider = l.provider

\* The lease is the registration's own publication.
IsCurrent(r, l) ==
  l # None /\ r.provider = l.provider /\ r.generation = l.generation /\ r.handle = l.handle

\* revoke, also by a registration that was replaced: it is told FALSE.
Revoke(r) ==
  /\ r \in registrations \cup replaced
  /\ registrations' = registrations \ {r} /\ replaced' = replaced \ {r}
  /\ current' = IF IsCurrent(r, current[r.slot]) THEN [current EXCEPT ![r.slot] = None] ELSE current
  /\ UNCHANGED <<last, handles, snapshot>>

(***************************************************************************)
(* The resolver: include takes one source for each capability; resolve is  *)
(* Ready when every required one has a provider.                           *)
(***************************************************************************)
Resolved(sources, required) == {c \in required \cap DOMAIN sources : current[<<c, sources[c]>>] # None}

Missing(sources, required) == required \ Resolved(sources, required)

Leases(sources, required) ==
  [c \in Resolved(sources, required) |-> current[<<c, sources[c]>>]]

\* ActivationFingerprint: capability, scope, provider and generation.
Fingerprint(sources, required) ==
  {<<c, sources[c], current[<<c, sources[c]>>].provider, current[<<c, sources[c]>>].generation>>
     : c \in Resolved(sources, required)}

Resolve(sources, required) ==
  /\ Missing(sources, required) = {}
  /\ snapshot' = [sources |-> sources, required |-> required,
                  fingerprint |-> Fingerprint(sources, required),
                  leases |-> Leases(sources, required)]
  /\ UNCHANGED <<current, last, registrations, replaced, handles>>

Next ==
  \/ \E s \in Slots, p \in Providers : Install(s, p) \/ Replace(s, p)
  \/ \E r \in registrations \cup replaced : Revoke(r)
  \/ \E known \in SUBSET Capabilities : \E sources \in [known -> Scopes] :
       \E required \in SUBSET Capabilities : Resolve(sources, required)

Spec == Init /\ [][Next]_vars
--------------------------------------------------------------------------------
(* Properties.                                                              *)
\* What is published is owned: a provider that was neither replaced nor
\* revoked is the one consumers see, whatever stale registrations, its own
\* earlier ones included, were used to revoke (install, replace, revoke).
PublishersOwned ==
  /\ \A r \in registrations \ replaced : IsCurrent(r, current[r.slot])
  /\ \A s \in Slots : current[s] # None => Registration(s, current[s]) \in registrations

\* A component whose fingerprint resolves again holds the very handles it
\* would get now, so that it may stay active: no generation names two
\* publications, over any number of revocations (publish, resolve).
FingerprintTells ==
  snapshot # None =>
    LET again == <<snapshot.sources, snapshot.required>>
    IN (Missing(again[1], again[2]) = {} /\ Fingerprint(again[1], again[2]) = snapshot.fingerprint)
         => Leases(again[1], again[2]) = snapshot.leases

\* The slots.
SlotsHold == PublishersOwned /\ FingerprintTells
================================================================================
