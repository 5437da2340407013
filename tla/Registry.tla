------------------------------- MODULE Registry -------------------------------
(***************************************************************************)
(* The scoped registries of contributions and of workspaces                *)
(* (runtime/contribution.rs, runtime/workspace.rs; the second is the first *)
(* without batches and generations): definitions of a scope shadow those   *)
(* of its ancestors, a registration is revoked by its own token, and every *)
(* change advances the revision its consumers cache by.                    *)
(***************************************************************************)
EXTENDS Naturals, SequencesExt

CONSTANTS Scopes,      \* a set of naturals, 0 the root
          Ids,         \* a set of naturals: ids are ordered
          Orders,
          MaxRevision, \* the width of the counters (2^64 - 1 in the code)
          None

\* What the parameters are assumed to be.
Parameters ==
  /\ 0 \in Scopes /\ MaxRevision \in Nat
  /\ None \notin [parent : Scopes \cup {None},
                  entries : SUBSET [id : Ids, order : Orders, generation : Nat]]

VARIABLES layers,      \* scope: [parent, entries], None when it has no layer
          revision, next_generation,
          tokens,      \* registrations whose owner has not revoked them
          spent        \* registrations revoked once
vars == <<layers, revision, next_generation, tokens, spent>>

Layer(parent) == [parent |-> parent, entries |-> {}]

Init ==
  /\ layers = [s \in Scopes |-> IF s = 0 THEN Layer(None) ELSE None]
  /\ revision = 0 /\ next_generation = 0 /\ tokens = {} /\ spent = {}

Layered == {s \in Scopes : layers[s] # None}
CanAdvance == revision < MaxRevision
Taken(s) == {e.id : e \in layers[s].entries}

AddScope(s, parent) ==
  /\ layers[s] = None /\ parent \in Layered /\ CanAdvance
  /\ layers' = [layers EXCEPT ![s] = Layer(parent)]
  /\ revision' = revision + 1
  /\ UNCHANGED <<next_generation, tokens, spent>>

\* Fault: the members of a batch that are free are registered.
RegisterFree(s, batch) ==
  LET free == SelectSeq(batch, LAMBDA d : d.id \notin Taken(s))
      entries == {[id |-> free[i].id, order |-> free[i].order, generation |-> next_generation + i]
                    : i \in DOMAIN free}
  IN /\ s \in Layered /\ free # <<>> /\ next_generation + Len(free) <= MaxRevision
     /\ layers' = [layers EXCEPT ![s].entries = @ \cup entries]
     /\ next_generation' = next_generation + Len(free)
     /\ tokens' = tokens \cup {[scope |-> s, id |-> e.id, generation |-> e.generation] : e \in entries}
     /\ UNCHANGED <<revision, spent>>

\* register_batch: every candidate is checked, with each other and with the
\* layer, before anything changes; so are the counters.
RegisterBatch(s, batch) ==
  LET ids == {batch[i].id : i \in DOMAIN batch}
      entries == {[id |-> batch[i].id, order |-> batch[i].order, generation |-> next_generation + i]
                    : i \in DOMAIN batch}
  IN /\ s \in Layered
     /\ Cardinality(ids) = Len(batch) /\ ids \cap Taken(s) = {}
     /\ next_generation + Len(batch) <= MaxRevision /\ CanAdvance
     /\ layers' = [layers EXCEPT ![s].entries = @ \cup entries]
     /\ next_generation' = next_generation + Len(batch)
     /\ revision' = revision + 1
     /\ tokens' = tokens \cup {[scope |-> s, id |-> e.id, generation |-> e.generation] : e \in entries}
     /\ UNCHANGED spent

\* register: a batch of one.
Register(s, d) == RegisterBatch(s, <<d>>)

\* Fault: a token revokes whatever has its id.
Names(t, e) == e.id = t.id

\* A token names the entry it registered, not a successor with the same id.
Current(t, e) == e.id = t.id /\ e.generation = t.generation

\* Revoking again, with a token that was spent, is a no-op.
Revoke(t) ==
  LET mine == {e \in layers[t.scope].entries : Current(t, e)}
  IN /\ mine # {} /\ CanAdvance
     /\ layers' = [layers EXCEPT ![t.scope].entries = @ \ mine]
     /\ revision' = revision + 1
     /\ tokens' = tokens \ {t} /\ spent' = spent \cup {t}
     /\ UNCHANGED next_generation

Path(s) ==
  LET path[n \in Layered] == <<n>> \o IF layers[n].parent = None THEN <<>> ELSE path[layers[n].parent]
  IN path[s]

\* What snapshot collects on its way to the root: the first of an id stays.
Collected(s) ==
  FoldLeft(LAMBDA found, n :
             found \cup {e \in layers[n].entries : \A f \in found : f.id # e.id},
           {}, Path(s))

\* snapshot: sorted by order, then by id.
Snapshot(s) ==
  SetToSortSeq(Collected(s), LAMBDA e, f : e.order < f.order \/ (e.order = f.order /\ e.id < f.id))

Definitions == [id : Ids, order : Orders]
Batches == Definitions \X Definitions

Next ==
  \/ \E s \in Scopes, p \in Scopes : AddScope(s, p)
  \/ \E s \in Scopes, d \in Definitions : Register(s, d)
  \/ \E s \in Scopes, b \in Batches : RegisterBatch(s, b)
  \/ \E t \in tokens \cup spent : Revoke(t)

Spec == Init /\ [][Next]_vars
------------------------------------------------------------------------------
(* Properties.                                                             *)
\* Whoever registered keeps it until he revokes it: a batch that was refused,
\* another owner's token and a spent one change nothing of his; ids are
\* unique in their scope (register_batch, revoke).
OwnersKeep ==
  /\ \A s \in Layered : Cardinality(Taken(s)) = Cardinality(layers[s].entries)
  /\ \A t \in tokens : \E e \in layers[t.scope].entries : e.id = t.id /\ e.generation = t.generation
  /\ \A s \in Layered : Cardinality(layers[s].entries) = Cardinality({t \in tokens : t.scope = s})

\* What a consumer cached for a revision is what it would see now: no change
\* that any scope can see leaves the revision as it was (advance_revision).
RevisionTells ==
  [][revision' = revision => \A s \in Layered : s \in Layered' /\ Snapshot(s)' = Snapshot(s)]_vars
=============================================================================
