--------------------------- MODULE ReplacementProofs ---------------------------
(***************************************************************************)
(* Proofs about the two ways of replacing what is active (MCReplacement),  *)
(* for any desired states, calls and bounds: the reconciler, the           *)
(* composition root (CompositionRoot), and the run of both.                *)
(*                                                                         *)
(* None of the promises is inductive.  Of the reconciler: that effects are *)
(* undone newest first needs every effect in force to be in the scope of   *)
(* its mount, at its place (NoneLost, ScopesInv); that one mount is        *)
(* published at a time needs the order in which the stages exclude each    *)
(* other (StagesInv); and that a transition is begun once for a revision   *)
(* needs what each transition leaves behind until the target moves or a    *)
(* failure is recorded (RevisionsInv, BegunInv).  Of the root: RootIInv    *)
(* relates the call in progress to the instance it works on, and both to   *)
(* the consumers, to the mount and to the slot.  Scopes are handled by a   *)
(* few lemmas; no step looks into one.                                     *)
(***************************************************************************)
EXTENDS MCReplacement, SequenceTheorems, WellFoundedInduction, NaturalsInduction, TLAPS

-----------------------------------------------------------------------------
(***************************************************************************)
(* The reconciler.                                                         *)
(***************************************************************************)
\* A scope that holds the effects of mount m, numbered as they were registered.
ScopeOf(s, m) ==
  /\ s \in ScopesOf(Effects) /\ Len(s.entries) <= MaxEffects
  /\ \A i \in 1 .. Len(s.entries) : s.entries[i].mount = m /\ s.entries[i].n = i
  /\ s.state = "disposed" => s.entries = <<>>

ScopesInv ==
  /\ active # None => ScopeOf(active.effects, active.mount)
  /\ candidate # None => ScopeOf(candidate.effects, candidate.rev)

\* What the future may assume of the mount it works on, where it waits.
StagesInv ==
  /\ pc = "stopping" => ~ Accepting(active.effects)
  /\ pc = "rolling_back" =>
       /\ candidate # None /\ ~ stop_attempt
       /\ candidate.phase = "rolling_back" /\ ~ Accepting(candidate.effects)
  /\ pc = "preparing" => candidate.phase = "preparing" /\ candidate.rev = at /\ ~ stop_attempt
  /\ pc = "activating" =>
       candidate.phase = "prepared" /\ candidate.rev = at /\ active = None /\ ~ stop_attempt
  /\ pc \in {"stopping", "rolling_back", "preparing", "activating"} => last_failure = 0
  /\ candidate # None =>
       /\ candidate.phase # "rolling_back" => Accepting(candidate.effects)
       /\ active # None => \A e \in Entries(candidate.effects) : ~ e.published

\* A mount belongs to a revision of the target, and the candidate to a later
\* one than the active mount; the mount of the current revision is wanted.
RevisionsInv ==
  /\ at <= target.rev
  /\ active # None =>
       /\ active.mount <= target.rev
       /\ active.mount = target.rev => active.desired = target.desired /\ ~ stop_attempt
       /\ candidate # None => active.mount < candidate.rev
  /\ candidate # None =>
       /\ candidate.rev <= target.rev
       /\ pc = "rolling_back" => candidate.rev <= at
       /\ candidate.rev = target.rev /\ last_failure # target.rev =>
            /\ candidate.desired = target.desired
            /\ candidate.phase = "preparing" => pc = "preparing"
            /\ candidate.phase = "rolling_back" => candidate.failure = target.rev

\* What is left of a transition begun for the current revision, as long as no
\* failure of this revision is recorded: enough that it cannot begin again.
Left(b) ==
  /\ b.stage = "preparing" =>
       \/ candidate # None /\ candidate.rev = b.rev
       \/ active # None /\ active.mount = b.rev
  /\ b.stage = "activating" =>
       \/ pc = "activating"
       \/ candidate # None /\ candidate.rev = b.rev /\ candidate.phase = "rolling_back"
       \/ candidate = None /\ active # None /\ active.mount = b.rev
  /\ b.stage = "stopping" =>
       /\ b.mount < b.rev
       /\ candidate # None => candidate.rev # b.mount
       /\ pc = "stopping" \/ (active # None => active.mount # b.mount)
  /\ b.stage = "rolling_back" =>
       \/ pc = "rolling_back" /\ candidate.rev = b.mount
       \/ b.mount # b.rev /\ (candidate # None => candidate.rev # b.mount)

Spent(b) ==
  /\ b.rev <= at /\ b.rev \in Revisions /\ b.mount \in Revisions
  /\ b.rev = target.rev /\ last_failure # target.rev /\ pc # "dropped" => Left(b)

BegunInv == \A b \in begun : Spent(b)

RecInv == ReconcilerInv /\ ScopesInv /\ StagesInv /\ RevisionsInv /\ BegunInv

\* What is left of the scope s of mount m when its newest effects are gone.
Lesser(s, t, gone, m) ==
  /\ ScopeOf(t, m) /\ ~ Accepting(t)
  /\ Entries(t) = Entries(s) \ gone /\ gone \subseteq Entries(s)
  /\ \A e \in gone, f \in Entries(t) : f.n < e.n

LEMMA ScopeCut ==
  ASSUME NEW m, NEW s, ScopeOf(s, m), NEW t \in ScopesOf(Effects), NEW gone,
         NEW k \in 0 .. Len(s.entries), CutTo(s, t, gone, k)
  PROVE  Lesser(s, t, gone, m)
<1>1. /\ Len(s.entries) \in Nat /\ Len(t.entries) = k /\ Len(s.entries) <= MaxEffects
      /\ DOMAIN s.entries = 1 .. Len(s.entries) /\ DOMAIN t.entries = 1 .. k
      /\ \A i \in 1 .. Len(s.entries) : s.entries[i].mount = m /\ s.entries[i].n = i
      /\ \A i \in 1 .. k : t.entries[i] = s.entries[i]
      /\ t.state = IF k = 0 THEN "disposed" ELSE "disposing"
      /\ gone = {s.entries[i] : i \in k + 1 .. Len(s.entries)}
      /\ MaxEffects \in Nat
  BY ReconcilerAssumption DEF ScopeOf, ScopesOf, CutTo
<1>2. t.state = "disposed" => t.entries = <<>>
  BY <1>1 DEF ScopesOf
<1>3. ScopeOf(t, m)
  <2>1. k <= MaxEffects
    BY <1>1
  <2> QED BY <1>1, <1>2, <2>1 DEF ScopeOf
<1>4. /\ Entries(t) = {s.entries[i] : i \in 1 .. k}
      /\ Entries(s) = {s.entries[i] : i \in 1 .. Len(s.entries)}
  BY <1>1 DEF Entries
<1>5. \A e \in gone, f \in Entries(t) : f.n < e.n
  BY <1>1, <1>4
<1>6. gone \subseteq Entries(s) /\ Entries(t) \subseteq Entries(s)
  BY <1>1, <1>4
<1>7. \A e \in Entries(s) : e \in gone \/ e \in Entries(t)
  BY <1>1, <1>4
<1>8. \A e \in gone : e.n \in Nat
  BY <1>1
<1>9. Entries(t) = Entries(s) \ gone
  BY <1>5, <1>6, <1>7, <1>8
<1> QED BY <1>1, <1>3, <1>5, <1>6, <1>9 DEF Lesser, Accepting

LEMMA ScopeUnwound ==
  ASSUME NEW m, NEW s, ScopeOf(s, m)
  PROVE  Lesser(s, Unwound(s), Undoable(s), m)
<1>1. s \in ScopesOf(Effects)
  BY DEF ScopeOf
<1> QED BY <1>1, UnwoundCut, BarrierRange, ScopeCut

LEMMA ScopeAnswered ==
  ASSUME NEW m, NEW s, ScopeOf(s, m), s.entries # <<>>
  PROVE  Lesser(s, Unwound(Popped(s)), {Newest(s)} \cup Undoable(Popped(s)), m)
<1>1. s \in ScopesOf(Effects) /\ Len(s.entries) \in Nat
  BY DEF ScopeOf, ScopesOf
<1>2. Popped(s) \in ScopesOf(Effects) /\ Len(Popped(s).entries) = Len(s.entries) - 1
  BY <1>1, PoppedType
<1>3. Barrier(Popped(s)) \in 0 .. Len(s.entries) - 1
  BY <1>2, BarrierRange
<1>4. Barrier(Popped(s)) \in 0 .. Len(s.entries)
  BY <1>1, <1>3
<1> QED BY <1>1, <1>4, PoppedCut, ScopeCut

LEMMA ScopeGrown ==
  ASSUME NEW m, NEW s, ScopeOf(s, m), Accepting(s), Len(s.entries) < MaxEffects,
         NEW e \in Effects, e.mount = m, e.n = Len(s.entries) + 1
  PROVE  /\ ScopeOf(Owning(s, e), m) /\ Accepting(Owning(s, e))
         /\ Entries(Owning(s, e)) = Entries(s) \cup {e}
<1>1. s.entries \in Seq(Effects) /\ MaxEffects \in Nat /\ Len(s.entries) \in Nat
  BY ReconcilerAssumption DEF ScopeOf, ScopesOf
<1> DEFINE n == Len(s.entries) q == Append(s.entries, e)
<1>2. /\ q \in Seq(Effects) /\ Len(q) = n + 1 /\ q[n + 1] = e
      /\ \A i \in 1 .. n : q[i] = s.entries[i]
  <2> DEFINE z == s.entries
  <2>1. z \in Seq(Effects)
    BY <1>1
  <2> HIDE DEF z
  <2>2. /\ Append(z, e) \in Seq(Effects) /\ Len(Append(z, e)) = Len(z) + 1
        /\ Append(z, e)[Len(z) + 1] = e /\ \A i \in 1 .. Len(z) : Append(z, e)[i] = z[i]
    BY <2>1
  <2> QED BY <2>2 DEF z
<1>3. Owning(s, e) = [entries |-> q, state |-> "active"]
  <2>1. s = [entries |-> s.entries, state |-> "active"]
    BY DEF Accepting, ScopeOf, ScopesOf
  <2> DEFINE z == s.entries
  <2>2. s = [entries |-> z, state |-> "active"] /\ q = Append(z, e)
    BY <2>1
  <2> HIDE DEF z, q
  <2> QED BY <2>2 DEF Owning
<1>4. ScopeOf(Owning(s, e), m)
  <2>1. \A i \in 1 .. n + 1 : q[i].mount = m /\ q[i].n = i
    BY <1>1, <1>2 DEF ScopeOf
  <2> QED BY <1>1, <1>2, <1>3, <2>1 DEF ScopeOf, ScopesOf
<1>5. DOMAIN q = (1 .. n) \cup {n + 1} /\ DOMAIN s.entries = 1 .. n
  BY <1>1, <1>2
<1>6. Entries(Owning(s, e)) = Entries(s) \cup {e}
  <2>1. /\ Entries(Owning(s, e)) = {q[i] : i \in (1 .. n) \cup {n + 1}}
        /\ Entries(s) = {s.entries[i] : i \in 1 .. n}
    BY <1>3, <1>5 DEF Entries
  <2> HIDE DEF q, n
  <2>2. \A x \in Entries(s) : x \in Entries(Owning(s, e))
    BY <1>2, <2>1
  <2>3. \A x \in Entries(Owning(s, e)) : x \in Entries(s) \cup {e}
    BY <1>2, <2>1
  <2>4. e \in Entries(Owning(s, e))
    BY <1>2, <2>1
  <2> QED BY <2>2, <2>3, <2>4
<1>7. Accepting(Owning(s, e))
  BY <1>3 DEF Accepting
<1> QED BY <1>4, <1>6, <1>7

LEMMA TypedScope ==
  ASSUME NEW s, NEW m, ScopeOf(s, m)
  PROVE  s \in ScopesOf(Effects) /\ Entries(s) \subseteq Effects
BY DEF ScopeOf, ScopesOf, Entries

\* A new mount owns nothing.
LEMMA NewScopeOf ==
  ASSUME NEW m
  PROVE  ScopeOf(NewScope, m) /\ Accepting(NewScope) /\ Entries(NewScope) = {}
<1>1. NewScope.entries = <<>> /\ NewScope.state = "active" /\ Len(<<>>) = 0
      /\ <<>> \in Seq(Effects) /\ DOMAIN <<>> = {}
  BY DEF NewScope
<1>2. MaxEffects \in Nat
  BY ReconcilerAssumption
<1> QED BY <1>1, <1>2 DEF ScopeOf, ScopesOf, Accepting, Entries, NewScope

\* The effect a lifecycle registers.
Registered(kind) ==
  [mount |-> candidate.rev, n |-> Len(candidate.effects.entries) + 1,
   kind |-> kind, published |-> pc = "activating"]

LEMMA RegisteredFits ==
  ASSUME TypeOK, ScopesInv, NEW kind \in {"sync", "async"}, Register(kind)
  PROVE  /\ Registered(kind) \in Effects /\ candidate \in Candidates
         /\ candidate' = [candidate EXCEPT !.effects = Owning(candidate.effects, Registered(kind))]
         /\ live' = live \cup {Registered(kind)}
         /\ ScopeOf(candidate.effects, candidate.rev) /\ Accepting(candidate.effects)
         /\ ScopeOf(candidate'.effects, candidate.rev) /\ Accepting(candidate'.effects)
         /\ Entries(candidate'.effects) = Entries(candidate.effects) \cup {Registered(kind)}
<1> DEFINE e == Registered(kind) s == candidate.effects
<1>1. /\ pc \in {"preparing", "activating"} /\ Len(s.entries) < MaxEffects
      /\ candidate' = [candidate EXCEPT !.effects = Owning(s, e)] /\ live' = live \cup {e}
  BY DEF Register, Registered
<1>2. candidate \in Candidates /\ ScopeOf(s, candidate.rev) /\ Accepting(s)
  BY <1>1 DEF TypeOK, ScopesInv
<1>3. Len(s.entries) \in Nat /\ MaxEffects \in Nat /\ candidate.rev \in Revisions
  BY <1>2, ReconcilerAssumption DEF ScopeOf, ScopesOf, Candidates
<1>4. e \in Effects /\ e.mount = candidate.rev /\ e.n = Len(s.entries) + 1
  BY <1>1, <1>3 DEF Registered, Effects
<1>5. /\ ScopeOf(Owning(s, e), candidate.rev) /\ Accepting(Owning(s, e))
      /\ Entries(Owning(s, e)) = Entries(s) \cup {e}
  <2> HIDE DEF e, s
  <2> QED BY <1>1, <1>2, <1>4, ScopeGrown
<1>6. candidate'.effects = Owning(s, e)
  BY <1>1, <1>2 DEF Candidates
<1> QED BY <1>1, <1>2, <1>4, <1>5, <1>6

\* A candidate that a step works on stays one, and keeps its name.
WorksOnCandidate ==
  \/ Discard \/ RollBackBegin \/ RollBackAnswers \/ RollBackFails
  \/ PrepareEnds \/ LifecycleFails \/ \E kind \in {"sync", "async"} : Register(kind)

LEMMA CandidateStays ==
  ASSUME TypeOK, ScopesInv, StagesInv, WorksOnCandidate
  PROVE  /\ candidate \in Candidates /\ candidate' \in Candidates
         /\ candidate'.rev = candidate.rev /\ candidate'.desired = candidate.desired
         /\ ScopeOf(candidate'.effects, candidate'.rev)
<1> DEFINE Stays == /\ candidate \in Candidates /\ candidate' \in Candidates
                    /\ candidate'.rev = candidate.rev /\ candidate'.desired = candidate.desired
                    /\ ScopeOf(candidate'.effects, candidate'.rev)
<1>a. MaxRev \in Nat /\ None \notin Candidates
  BY ReconcilerAssumption, NoneIsNoMount
<1> USE <1>a DEF TypeOK, ScopesInv, StagesInv, Candidates
<1>1. ASSUME NEW z \in 0 .. MaxRev, candidate \in Candidates,
             candidate' = [candidate EXCEPT !.phase = "rolling_back", !.failure = z]
      PROVE  Stays
  BY <1>1
<1>2. CASE Discard
  <2>1. candidate \in Candidates
    BY <1>2 DEF Discard, Phase
  <2>2. candidate' = [candidate EXCEPT !.phase = "rolling_back", !.failure = 0]
    BY <1>2 DEF Discard
  <2>3. 0 \in 0 .. MaxRev
    OBVIOUS
  <2> HIDE DEF Stays
  <2> QED BY <1>1, <2>1, <2>2, <2>3, Zenon
<1>3. CASE LifecycleFails
  <2>1. candidate \in Candidates
    BY <1>3 DEF LifecycleFails
  <2>2. candidate' = [candidate EXCEPT !.phase = "rolling_back", !.failure = at]
    BY <1>3 DEF LifecycleFails
  <2> QED BY <2>1, <2>2
<1>4. CASE RollBackBegin
  <2>1. candidate \in Candidates /\ ScopeOf(candidate.effects, candidate.rev)
    BY <1>4 DEF RollBackBegin, Phase
  <2>2. /\ ScopeOf(Unwound(candidate.effects), candidate.rev)
        /\ Unwound(candidate.effects) \in ScopesOf(Effects)
    BY <2>1, ScopeUnwound, TypedScope DEF Lesser
  <2>3. candidate' = [candidate EXCEPT !.effects = Unwound(candidate.effects)]
    BY <1>4 DEF RollBackBegin
  <2> QED BY <2>1, <2>2, <2>3
<1>5. CASE RollBackAnswers
  <2>1. candidate \in Candidates /\ ScopeOf(candidate.effects, candidate.rev)
        /\ candidate.effects.entries # <<>>
    BY <1>5 DEF RollBackAnswers, Awaiting
  <2>2. /\ ScopeOf(Unwound(Popped(candidate.effects)), candidate.rev)
        /\ Unwound(Popped(candidate.effects)) \in ScopesOf(Effects)
    BY <2>1, ScopeAnswered, TypedScope DEF Lesser
  <2>3. candidate' = [candidate EXCEPT !.effects = Unwound(Popped(candidate.effects))]
    BY <1>5 DEF RollBackAnswers
  <2> QED BY <2>1, <2>2, <2>3
<1>6. CASE RollBackFails
  <2>1. candidate \in Candidates /\ candidate' = [candidate EXCEPT !.failure = at]
    BY <1>6 DEF RollBackFails
  <2> QED BY <2>1
<1>7. CASE PrepareEnds
  <2>1. candidate \in Candidates /\ candidate' = [candidate EXCEPT !.phase = "prepared"]
    BY <1>7 DEF PrepareEnds
  <2> QED BY <2>1
<1>8. ASSUME NEW kind \in {"sync", "async"}, Register(kind) PROVE Stays
  <2>1. /\ candidate \in Candidates
        /\ candidate' = [candidate EXCEPT !.effects = Owning(candidate.effects, Registered(kind))]
        /\ ScopeOf(candidate'.effects, candidate.rev)
    BY <1>8, RegisteredFits
  <2>2. candidate'.effects \in ScopesOf(Effects)
    BY <2>1, TypedScope
  <2> QED BY <2>1, <2>2
<1> QED BY <1>2, <1>3, <1>4, <1>5, <1>6, <1>7, <1>8 DEF WorksOnCandidate

\* So does the active mount that is being stopped.
LEMMA ActiveStays ==
  ASSUME TypeOK, ScopesInv, StopBegin \/ StopAnswers
  PROVE  /\ active \in Mounts /\ active' \in Mounts
         /\ active'.mount = active.mount /\ active'.desired = active.desired
         /\ ScopeOf(active'.effects, active'.mount)
<1> USE NoneIsNoMount DEF TypeOK, ScopesInv, Mounts
<1>1. CASE StopBegin
  <2>1. active \in Mounts /\ ScopeOf(active.effects, active.mount)
    BY <1>1 DEF StopBegin, Turn
  <2>2. /\ ScopeOf(Unwound(active.effects), active.mount)
        /\ Unwound(active.effects) \in ScopesOf(Effects)
    BY <2>1, ScopeUnwound, TypedScope DEF Lesser
  <2>3. active' = [active EXCEPT !.effects = Unwound(active.effects)]
    BY <1>1 DEF StopBegin
  <2> QED BY <2>1, <2>2, <2>3
<1>2. CASE StopAnswers
  <2>1. active \in Mounts /\ ScopeOf(active.effects, active.mount)
        /\ active.effects.entries # <<>>
    BY <1>2 DEF StopAnswers, Awaiting
  <2>2. /\ ScopeOf(Unwound(Popped(active.effects)), active.mount)
        /\ Unwound(Popped(active.effects)) \in ScopesOf(Effects)
    BY <2>1, ScopeAnswered, TypedScope DEF Lesser
  <2>3. active' = [active EXCEPT !.effects = Unwound(Popped(active.effects))]
    BY <1>2 DEF StopAnswers
  <2> QED BY <2>1, <2>2, <2>3
<1> QED BY <1>1, <1>2

\* Every step keeps the types and the scopes of the mounts.
LEMMA RecShapeStep ==
  ASSUME TypeOK, ScopesInv, StagesInv, RevisionsInv, [Next]_vars
  PROVE  TypeOK' /\ ScopesInv'
<1> USE DEF TypeOK, ScopesInv, Mounts, Candidates
<1>a. MaxRev \in Nat /\ None \notin Mounts /\ None \notin Candidates
  BY ReconcilerAssumption, NoneIsNoMount
<1> USE <1>a DEF Revisions
<1>1. ASSUME NEW d \in Desired \cup {None}, SetDesired(d) PROVE TypeOK' /\ ScopesInv'
  BY <1>1 DEF SetDesired
<1>2. CASE Retry
  BY <1>2 DEF Retry
<1>3. CASE Reconcile
  BY <1>3 DEF Reconcile
<1>4. CASE Refuse
  BY <1>4 DEF Refuse, Return
<1>5. CASE StopBegin
  <2>1. active' \in Mounts /\ ScopeOf(active'.effects, active'.mount)
    BY <1>5, ActiveStays
  <2> QED BY <1>5, <2>1 DEF StopBegin, Turn, Begin
<1>6. CASE Discard
  <2>1. candidate' \in Candidates /\ ScopeOf(candidate'.effects, candidate'.rev)
    BY <1>6, CandidateStays DEF WorksOnCandidate
  <2> QED BY <1>6, <2>1 DEF Discard, Turn
<1>7. CASE RollBackBegin
  <2>1. candidate' \in Candidates /\ ScopeOf(candidate'.effects, candidate'.rev)
    BY <1>7, CandidateStays DEF WorksOnCandidate
  <2> QED BY <1>7, <2>1 DEF RollBackBegin, Turn, Begin
<1>8. CASE StopActive
  BY <1>8 DEF StopActive, Turn
<1>9. CASE ActivateBegin
  <2>1. candidate \in Candidates /\ candidate.phase = "prepared"
    BY <1>9 DEF ActivateBegin, Phase
  <2>2. Accepting(candidate.effects)
    BY <2>1 DEF StagesInv
  <2> QED BY <1>9, <2>1, <2>2 DEF ActivateBegin, Turn, Begin
<1>10. CASE PrepareBegin
  <2>1. ScopeOf(NewScope, target.rev) /\ NewScope \in ScopesOf(Effects) /\ Accepting(NewScope)
    BY NewScopeOf, TypedScope
  <2>2. /\ candidate' \in Candidates /\ candidate'.effects = NewScope
        /\ candidate'.rev = target.rev
    BY <1>10, <2>1 DEF PrepareBegin
  <2> QED BY <1>10, <2>1, <2>2 DEF PrepareBegin, Turn, Begin
<1>11. CASE Settle
  BY <1>11 DEF Settle, Turn, Return
<1>12. CASE StopAnswers
  <2>1. active' \in Mounts /\ ScopeOf(active'.effects, active'.mount)
    BY <1>12, ActiveStays
  <2> QED BY <1>12, <2>1 DEF StopAnswers
<1>13. CASE StopEnds
  BY <1>13 DEF StopEnds
<1>14. CASE StopFails
  BY <1>14 DEF StopFails, Report
<1>15. CASE RollBackAnswers
  <2>1. candidate' \in Candidates /\ ScopeOf(candidate'.effects, candidate'.rev)
    BY <1>15, CandidateStays DEF WorksOnCandidate
  <2> QED BY <1>15, <2>1 DEF RollBackAnswers
<1>16. CASE RollBackEnds
  BY <1>16 DEF RollBackEnds
<1>17. CASE RollBackFails
  <2>1. candidate' \in Candidates /\ ScopeOf(candidate'.effects, candidate'.rev)
    BY <1>17, CandidateStays DEF WorksOnCandidate
  <2> QED BY <1>17, <2>1 DEF RollBackFails, Report
<1>18. CASE PrepareEnds
  <2>1. candidate' \in Candidates /\ ScopeOf(candidate'.effects, candidate'.rev)
    BY <1>18, CandidateStays DEF WorksOnCandidate
  <2> QED BY <1>18, <2>1 DEF PrepareEnds
<1>19. CASE LifecycleFails
  <2>1. candidate' \in Candidates /\ ScopeOf(candidate'.effects, candidate'.rev)
    BY <1>19, CandidateStays DEF WorksOnCandidate
  <2> QED BY <1>19, <2>1 DEF LifecycleFails
<1>20. CASE ActivateEnds
  <2>1. candidate \in Candidates /\ Accepting(candidate.effects)
    BY <1>20 DEF ActivateEnds
  <2>2. /\ active' \in Mounts /\ active'.effects = candidate.effects
        /\ active'.mount = candidate.rev
    BY <1>20, <2>1 DEF ActivateEnds
  <2> QED BY <1>20, <2>1, <2>2 DEF ActivateEnds
<1>21. ASSUME NEW kind \in {"sync", "async"}, Register(kind) PROVE TypeOK' /\ ScopesInv'
  <2>1. candidate' \in Candidates /\ ScopeOf(candidate'.effects, candidate'.rev)
    BY <1>21, CandidateStays DEF WorksOnCandidate
  <2>2. /\ Registered(kind) \in Effects /\ live' = live \cup {Registered(kind)}
        /\ Accepting(candidate'.effects)
    BY <1>21, RegisteredFits
  <2> QED BY <1>21, <2>1, <2>2 DEF Register
<1>22. CASE Cancel
  BY <1>22 DEF Cancel
<1>23. CASE Drop
  <2>1. \A m, s : ScopeOf(s, m) => Abandoned(s) \subseteq Effects
    BY ScopeUnwound, TypedScope DEF Abandoned, Lesser
  <2>2. /\ active # None => Abandoned(active.effects) \subseteq Effects
        /\ candidate # None => Abandoned(candidate.effects) \subseteq Effects
    BY <2>1
  <2>3. live' \subseteq Effects
    BY <1>23, <2>2 DEF Drop
  <2> QED BY <1>23, <2>3 DEF Drop
<1>24. CASE UNCHANGED vars
  BY <1>24 DEF vars
<1> QED BY <1>1, <1>2, <1>3, <1>4, <1>5, <1>6, <1>7, <1>8, <1>9, <1>10, <1>11, <1>12, <1>13,
           <1>14, <1>15, <1>16, <1>17, <1>18, <1>19, <1>20, <1>21, <1>22, <1>23, <1>24
           DEF Next, Loop, Answer
\* Where the future waits, the mount it works on is in the stage it works on.
LEMMA StagesStep ==
  ASSUME TypeOK, ScopesInv, StagesInv, RevisionsInv, [Next]_vars
  PROVE  StagesInv'
<1> USE NoneIsNoMount DEF TypeOK, ScopesInv, StagesInv
<1>1. ASSUME NEW d \in Desired \cup {None}, SetDesired(d) PROVE StagesInv'
  BY <1>1 DEF SetDesired
<1>2. CASE Retry
  BY <1>2 DEF Retry
<1>3. CASE Reconcile
  BY <1>3 DEF Reconcile
<1>4. CASE Refuse
  BY <1>4 DEF Refuse, Return
<1>5. CASE StopBegin
  <2>1. /\ active # None
        /\ Lesser(active.effects, Unwound(active.effects),
                  Undoable(active.effects), active.mount)
    BY <1>5, ScopeUnwound DEF StopBegin, Phase, Turn
  <2>2. active'.effects = Unwound(active.effects)
    BY <1>5, <2>1 DEF StopBegin, Mounts, Candidates
  <2> QED BY <1>5, <2>1, <2>2 DEF StopBegin, Turn, Begin, Lesser
<1>6. CASE Discard
  <2>1. candidate \in Candidates
    BY <1>6 DEF Discard, Phase
  <2>2. candidate'.effects = candidate.effects /\ candidate'.rev = candidate.rev
        /\ candidate'.phase = "rolling_back"
    BY <1>6, <2>1 DEF Discard, Candidates
  <2> QED BY <1>6, <2>1, <2>2 DEF Discard, Turn, Phase
<1>7. CASE RollBackBegin
  <2>1. /\ candidate # None
        /\ Lesser(candidate.effects, Unwound(candidate.effects),
                  Undoable(candidate.effects), candidate.rev)
    BY <1>7, ScopeUnwound DEF RollBackBegin, Phase
  <2>2. candidate'.effects = Unwound(candidate.effects)
    BY <1>7, <2>1 DEF RollBackBegin, Mounts, Candidates
  <2>3. Unwound(candidate.effects) \in ScopesOf(Effects)
    BY <2>1, TypedScope DEF Lesser
  <2>4. candidate' \in Candidates /\ candidate'.phase = candidate.phase /\ candidate.phase = "rolling_back"
    BY <1>7, <2>1, <2>3 DEF RollBackBegin, Phase, Candidates
  <2> QED BY <1>7, <2>1, <2>2, <2>4 DEF RollBackBegin, Turn, Begin, Lesser
<1>8. CASE StopActive
  BY <1>8 DEF StopActive, Turn, Phase
<1>9. CASE ActivateBegin
  BY <1>9 DEF ActivateBegin, Turn, Phase, Begin
<1>10. CASE PrepareBegin
  <2>1. candidate'.effects = NewScope /\ candidate'.phase = "preparing" /\ candidate'.rev = target.rev
        /\ Accepting(NewScope) /\ Entries(NewScope) = {}
    BY <1>10, NewScopeOf DEF PrepareBegin
  <2> QED BY <1>10, <2>1 DEF PrepareBegin, Turn, Begin
<1>11. CASE Settle
  BY <1>11 DEF Settle, Turn, Return, Phase
<1>12. CASE StopAnswers
  <2>1. /\ active # None
        /\ Lesser(active.effects, Unwound(Popped(active.effects)),
                  {Newest(active.effects)} \cup Undoable(Popped(active.effects)), active.mount)
    BY <1>12, ScopeAnswered DEF StopAnswers, Awaiting
  <2>2. active'.effects = Unwound(Popped(active.effects))
    BY <1>12, <2>1 DEF StopAnswers, Mounts, Candidates
  <2> QED BY <1>12, <2>1, <2>2 DEF StopAnswers, Lesser
<1>13. CASE StopEnds
  BY <1>13 DEF StopEnds
<1>14. CASE StopFails
  BY <1>14 DEF StopFails, Report
<1>15. CASE RollBackAnswers
  <2>1. /\ candidate # None
        /\ Lesser(candidate.effects, Unwound(Popped(candidate.effects)),
                  {Newest(candidate.effects)} \cup Undoable(Popped(candidate.effects)), candidate.rev)
    BY <1>15, ScopeAnswered DEF RollBackAnswers, Awaiting
  <2>2. candidate'.effects = Unwound(Popped(candidate.effects))
    BY <1>15, <2>1 DEF RollBackAnswers, Mounts, Candidates
  <2>3. Unwound(Popped(candidate.effects)) \in ScopesOf(Effects)
    BY <2>1, TypedScope DEF Lesser
  <2>4. candidate' \in Candidates /\ candidate'.phase = candidate.phase
    BY <1>15, <2>1, <2>3 DEF RollBackAnswers, Candidates
  <2> QED BY <1>15, <2>1, <2>2, <2>4 DEF RollBackAnswers, Lesser
<1>16. CASE RollBackEnds
  BY <1>16 DEF RollBackEnds
<1>17. CASE RollBackFails
  <2>1. candidate \in Candidates
    BY <1>17 DEF RollBackFails, Phase
  <2>2. candidate'.effects = candidate.effects /\ candidate'.rev = candidate.rev
        /\ candidate'.phase = candidate.phase
    BY <1>17, <2>1 DEF RollBackFails, Candidates
  <2> QED BY <1>17, <2>1, <2>2 DEF RollBackFails, Report
<1>18. CASE PrepareEnds
  <2>1. candidate \in Candidates
    BY <1>18 DEF PrepareEnds, Phase
  <2>2. candidate'.effects = candidate.effects /\ candidate'.rev = candidate.rev
        /\ candidate'.phase = "prepared"
    BY <1>18, <2>1 DEF PrepareEnds, Candidates
  <2> QED BY <1>18, <2>1, <2>2 DEF PrepareEnds
<1>19. CASE LifecycleFails
  <2>1. candidate \in Candidates
    BY <1>19 DEF LifecycleFails, Phase
  <2>2. candidate'.effects = candidate.effects /\ candidate'.rev = candidate.rev
        /\ candidate'.phase = "rolling_back"
    BY <1>19, <2>1 DEF LifecycleFails, Candidates
  <2> QED BY <1>19, <2>1, <2>2 DEF LifecycleFails
<1>20. CASE ActivateEnds
  BY <1>20 DEF ActivateEnds
<1>21. ASSUME NEW kind \in {"sync", "async"}, Register(kind) PROVE StagesInv'
  <2>1. /\ candidate \in Candidates /\ Accepting(candidate'.effects)
        /\ candidate' = [candidate EXCEPT !.effects = Owning(candidate.effects, Registered(kind))]
        /\ Entries(candidate'.effects) = Entries(candidate.effects) \cup {Registered(kind)}
    BY <1>21, RegisteredFits
  <2>2. candidate'.rev = candidate.rev /\ candidate'.phase = candidate.phase
    BY <2>1 DEF Candidates
  <2>3. active = None \/ ~ Registered(kind).published
    BY <1>21 DEF Register, Registered
  <2>4. /\ UNCHANGED <<target, active, stop_attempt, last_failure, pc, at>>
        /\ pc \in {"preparing", "activating"}
    BY <1>21 DEF Register
  <2> QED BY <2>1, <2>2, <2>3, <2>4
<1>22. CASE Cancel
  BY <1>22 DEF Cancel
<1>23. CASE Drop
  BY <1>23 DEF Drop
<1>24. CASE UNCHANGED vars
  BY <1>24 DEF vars
<1> QED BY <1>1, <1>2, <1>3, <1>4, <1>5, <1>6, <1>7, <1>8, <1>9, <1>10, <1>11, <1>12,
           <1>13, <1>14, <1>15, <1>16, <1>17, <1>18, <1>19, <1>20, <1>21, <1>22, <1>23, <1>24
           DEF Next, Loop, Answer

\* A mount belongs to one revision for good, and the mount of the current
\* revision is the one that is wanted.
LEMMA RevisionsStep ==
  ASSUME TypeOK, ScopesInv, StagesInv, RevisionsInv, [Next]_vars
  PROVE  RevisionsInv'
<1>a. MaxRev \in Nat /\ None \notin Mounts /\ None \notin Candidates /\ None \notin Desired
  BY ReconcilerAssumption, NoneIsNoMount
<1>b. /\ target.rev \in Nat \ {0} /\ last_failure \in Nat /\ at \in Nat
      /\ active \in Mounts => active.mount \in Nat /\ active.desired \in Desired
      /\ candidate \in Candidates =>
           candidate.rev \in Nat /\ candidate.desired \in Desired /\ candidate.failure \in Nat
  BY <1>a DEF TypeOK, Mounts, Candidates, Revisions
<1> USE <1>a, <1>b DEF TypeOK, ScopesInv, StagesInv, RevisionsInv
<1>1. ASSUME NEW d \in Desired \cup {None}, SetDesired(d) PROVE RevisionsInv'
  BY <1>1 DEF SetDesired
<1>2. CASE Retry
  BY <1>2 DEF Retry
<1>3. CASE Reconcile
  BY <1>3 DEF Reconcile
<1>4. CASE Refuse
  BY <1>4 DEF Refuse, Return
<1>5. CASE StopBegin
  <2>1. active \in Mounts
    BY <1>5 DEF StopBegin, Turn, Begin
  <2>2. active'.mount = active.mount /\ active'.desired = active.desired
    BY <1>5, <2>1 DEF StopBegin, Mounts
  <2> QED BY <1>5, <2>1, <2>2 DEF StopBegin, Turn, Begin
<1>6. CASE Discard
  <2>1. candidate \in Candidates
    BY <1>6 DEF Discard, Turn, Phase
  <2>2. /\ candidate'.rev = candidate.rev /\ candidate'.desired = candidate.desired
        /\ candidate'.phase = "rolling_back" /\ candidate'.failure = 0
    BY <1>6, <2>1 DEF Discard, Candidates
  <2> QED BY <1>6, <2>1, <2>2 DEF Discard, Turn, Phase
<1>7. CASE RollBackBegin
  <2>1. candidate \in Candidates
    BY <1>7 DEF RollBackBegin, Turn, Phase, Begin
  <2>2. /\ candidate'.rev = candidate.rev /\ candidate'.desired = candidate.desired
        /\ candidate'.phase = candidate.phase /\ candidate'.failure = candidate.failure
    BY <1>7, <2>1 DEF RollBackBegin, Candidates
  <2> QED BY <1>7, <2>1, <2>2 DEF RollBackBegin, Turn, Phase, Begin
<1>8. CASE StopActive
  BY <1>8 DEF StopActive, Turn, Phase
<1>9. CASE ActivateBegin
  BY <1>9 DEF ActivateBegin, Turn, Phase, Begin
<1>10. CASE PrepareBegin
  <2>1. candidate' = [rev |-> target.rev, desired |-> target.desired, effects |-> NewScope,
                      phase |-> "preparing", failure |-> 0]
    BY <1>10 DEF PrepareBegin
  <2>2. candidate'.rev = target.rev /\ candidate'.desired = target.desired
        /\ candidate'.phase = "preparing"
    BY <2>1
  <2>3. candidate = None /\ active # None => active.mount # target.rev
    BY <1>10 DEF PrepareBegin, Phase, ActiveDesired, Turn
  <2> QED BY <1>10, <2>2, <2>3 DEF PrepareBegin, Turn, Begin
<1>11. CASE Settle
  BY <1>11 DEF Settle, Turn, Return, Phase
<1>12. CASE StopAnswers
  <2>1. active \in Mounts
    BY <1>12 DEF StopAnswers
  <2>2. active'.mount = active.mount /\ active'.desired = active.desired
    BY <1>12, <2>1 DEF StopAnswers, Mounts
  <2> QED BY <1>12, <2>1, <2>2 DEF StopAnswers
<1>13. CASE StopEnds
  BY <1>13 DEF StopEnds
<1>14. CASE StopFails
  BY <1>14 DEF StopFails, Report
<1>15. CASE RollBackAnswers
  <2>1. candidate \in Candidates
    BY <1>15 DEF RollBackAnswers
  <2>2. /\ candidate'.rev = candidate.rev /\ candidate'.desired = candidate.desired
        /\ candidate'.phase = candidate.phase /\ candidate'.failure = candidate.failure
    BY <1>15, <2>1 DEF RollBackAnswers, Candidates
  <2> QED BY <1>15, <2>1, <2>2 DEF RollBackAnswers
<1>16. CASE RollBackEnds
  BY <1>16 DEF RollBackEnds
<1>17. CASE RollBackFails
  <2>1. candidate \in Candidates
    BY <1>17 DEF RollBackFails, Report
  <2>2. /\ candidate'.rev = candidate.rev /\ candidate'.desired = candidate.desired
        /\ candidate'.phase = candidate.phase /\ candidate'.failure = at
    BY <1>17, <2>1 DEF RollBackFails, Candidates
  <2> QED BY <1>17, <2>1, <2>2 DEF RollBackFails, Report
<1>18. CASE PrepareEnds
  <2>1. candidate \in Candidates
    BY <1>18 DEF PrepareEnds
  <2>2. /\ candidate'.rev = candidate.rev /\ candidate'.desired = candidate.desired
        /\ candidate'.phase = "prepared" /\ candidate'.failure = candidate.failure
    BY <1>18, <2>1 DEF PrepareEnds, Candidates
  <2> QED BY <1>18, <2>1, <2>2 DEF PrepareEnds
<1>19. CASE LifecycleFails
  <2>1. candidate \in Candidates
    BY <1>19 DEF LifecycleFails
  <2>2. /\ candidate'.rev = candidate.rev /\ candidate'.desired = candidate.desired
        /\ candidate'.phase = "rolling_back" /\ candidate'.failure = at
    BY <1>19, <2>1 DEF LifecycleFails, Candidates
  <2> QED BY <1>19, <2>1, <2>2 DEF LifecycleFails
<1>20. CASE ActivateEnds
  <2>1. candidate \in Candidates
    BY <1>20 DEF ActivateEnds
  <2>2. active'.mount = candidate.rev /\ active'.desired = candidate.desired
    BY <1>20 DEF ActivateEnds
  <2> QED BY <1>20, <2>1, <2>2 DEF ActivateEnds
<1>21. ASSUME NEW kind \in {"sync", "async"}, Register(kind) PROVE RevisionsInv'
  <2>1. /\ candidate \in Candidates
        /\ candidate' = [candidate EXCEPT !.effects = Owning(candidate.effects, Registered(kind))]
    BY <1>21, RegisteredFits
  <2>2. /\ candidate'.rev = candidate.rev /\ candidate'.desired = candidate.desired
        /\ candidate'.phase = candidate.phase /\ candidate'.failure = candidate.failure
    BY <2>1 DEF Candidates
  <2>3. UNCHANGED <<target, active, stop_attempt, last_failure, pc, at, begun>> /\ pc # "rolling_back"
    BY <1>21 DEF Register
  <2> QED BY <2>1, <2>2, <2>3
<1>22. CASE Cancel
  BY <1>22 DEF Cancel
<1>23. CASE Drop
  BY <1>23 DEF Drop
<1>24. CASE UNCHANGED vars
  BY <1>24 DEF vars
<1> QED BY <1>1, <1>2, <1>3, <1>4, <1>5, <1>6, <1>7, <1>8, <1>9, <1>10, <1>11, <1>12,
           <1>13, <1>14, <1>15, <1>16, <1>17, <1>18, <1>19, <1>20, <1>21, <1>22, <1>23, <1>24
           DEF Next, Loop, Answer

\* A transition that was begun stays spent.
LEMMA SpentStep ==
  ASSUME TypeOK, ScopesInv, StagesInv, RevisionsInv, [Next]_vars,
         NEW b, Spent(b)
  PROVE  Spent(b)'
<1>a. MaxRev \in Nat /\ None \notin Mounts /\ None \notin Candidates /\ None \notin Desired
  BY ReconcilerAssumption, NoneIsNoMount
<1>b. /\ target.rev \in Nat \ {0} /\ last_failure \in Nat /\ at \in Nat
      /\ active \in Mounts => active.mount \in Nat /\ active.desired \in Desired
      /\ candidate \in Candidates =>
           candidate.rev \in Nat /\ candidate.desired \in Desired /\ candidate.failure \in Nat
      /\ b.rev \in Nat \ {0} /\ b.mount \in Nat
  BY <1>a DEF TypeOK, Mounts, Candidates, Revisions, Spent
<1> USE <1>a, <1>b DEF TypeOK, ScopesInv, StagesInv, RevisionsInv, Spent, Left
<1>1. ASSUME NEW d \in Desired \cup {None}, SetDesired(d) PROVE Spent(b)'
  BY <1>1 DEF SetDesired
<1>2. CASE Retry
  BY <1>2 DEF Retry
<1>3. CASE Reconcile
  BY <1>3 DEF Reconcile
<1>4. CASE Refuse
  BY <1>4 DEF Refuse, Return
<1>5. CASE StopBegin
  <2>1. /\ active \in Mounts /\ active' \in Mounts
        /\ active'.mount = active.mount
    BY <1>5, ActiveStays
  <2> QED BY <1>5, <2>1 DEF StopBegin, Turn, Begin
<1>6. CASE Discard
  <2>1. /\ candidate \in Candidates /\ candidate' \in Candidates
        /\ candidate'.rev = candidate.rev
    BY <1>6, CandidateStays DEF WorksOnCandidate
  <2>2. candidate'.phase = "rolling_back" /\ candidate'.failure = 0
    BY <1>6, <2>1 DEF Discard, Candidates
  <2> QED BY <1>6, <2>1, <2>2 DEF Discard, Turn, Phase
<1>7. CASE RollBackBegin
  <2>1. /\ candidate \in Candidates /\ candidate' \in Candidates
        /\ candidate'.rev = candidate.rev
    BY <1>7, CandidateStays DEF WorksOnCandidate
  <2>2. candidate'.phase = candidate.phase /\ candidate'.failure = candidate.failure
    BY <1>7, <2>1 DEF RollBackBegin, Candidates
  <2> QED BY <1>7, <2>1, <2>2 DEF RollBackBegin, Turn, Phase, Begin
<1>8. CASE StopActive
  BY <1>8 DEF StopActive, Turn, Phase
<1>9. CASE ActivateBegin
  BY <1>9 DEF ActivateBegin, Turn, Phase, Begin
<1>10. CASE PrepareBegin
  <2>1. candidate' = [rev |-> target.rev, desired |-> target.desired, effects |-> NewScope,
                      phase |-> "preparing", failure |-> 0]
    BY <1>10 DEF PrepareBegin
  <2>2. candidate'.rev = target.rev /\ candidate'.desired = target.desired
        /\ candidate'.phase = "preparing" /\ candidate' # None
    <3>1. NewScope \in ScopesOf(Effects)
      BY NewScopeOf, TypedScope
    <3>2. candidate' \in Candidates
      BY <1>10, <3>1 DEF PrepareBegin, Candidates, Revisions
    <3> QED BY <2>1, <3>2
  <2>3. candidate = None /\ (active # None => active.mount # target.rev)
    BY <1>10 DEF PrepareBegin, Phase, ActiveDesired, Turn, Candidates
  <2> QED BY <1>10, <2>2, <2>3 DEF PrepareBegin, Turn, Begin
<1>11. CASE Settle
  BY <1>11 DEF Settle, Turn, Return, Phase
<1>12. CASE StopAnswers
  <2>1. /\ active \in Mounts /\ active' \in Mounts
        /\ active'.mount = active.mount
    BY <1>12, ActiveStays
  <2> QED BY <1>12, <2>1 DEF StopAnswers
<1>13. CASE StopEnds
  BY <1>13 DEF StopEnds
<1>14. CASE StopFails
  BY <1>14 DEF StopFails, Report
<1>15. CASE RollBackAnswers
  <2>1. /\ candidate \in Candidates /\ candidate' \in Candidates
        /\ candidate'.rev = candidate.rev
    BY <1>15, CandidateStays DEF WorksOnCandidate
  <2>2. candidate'.phase = candidate.phase /\ candidate'.failure = candidate.failure
    BY <1>15, <2>1 DEF RollBackAnswers, Candidates
  <2> QED BY <1>15, <2>1, <2>2 DEF RollBackAnswers
<1>16. CASE RollBackEnds
  BY <1>16 DEF RollBackEnds
<1>17. CASE RollBackFails
  <2>1. /\ candidate \in Candidates /\ candidate' \in Candidates
        /\ candidate'.rev = candidate.rev
    BY <1>17, CandidateStays DEF WorksOnCandidate
  <2>2. candidate'.phase = candidate.phase /\ candidate'.failure = at
    BY <1>17, <2>1 DEF RollBackFails, Candidates
  <2> QED BY <1>17, <2>1, <2>2 DEF RollBackFails, Report
<1>18. CASE PrepareEnds
  <2>1. /\ candidate \in Candidates /\ candidate' \in Candidates
        /\ candidate'.rev = candidate.rev
    BY <1>18, CandidateStays DEF WorksOnCandidate
  <2>2. candidate'.phase = "prepared" /\ candidate'.failure = candidate.failure
    BY <1>18, <2>1 DEF PrepareEnds, Candidates
  <2> QED BY <1>18, <2>1, <2>2 DEF PrepareEnds
<1>19. CASE LifecycleFails
  <2>1. /\ candidate \in Candidates /\ candidate' \in Candidates
        /\ candidate'.rev = candidate.rev
    BY <1>19, CandidateStays DEF WorksOnCandidate
  <2>2. candidate'.phase = "rolling_back" /\ candidate'.failure = at
    BY <1>19, <2>1 DEF LifecycleFails, Candidates
  <2> QED BY <1>19, <2>1, <2>2 DEF LifecycleFails
<1>20. CASE ActivateEnds
  <2>1. candidate \in Candidates
    BY <1>20 DEF ActivateEnds
  <2>2. active' # None /\ active'.mount = candidate.rev /\ active'.desired = candidate.desired
    BY <1>20, <2>1, TypedScope DEF ActivateEnds, Mounts, Candidates
  <2> QED BY <1>20, <2>1, <2>2 DEF ActivateEnds
<1>21. ASSUME NEW kind \in {"sync", "async"}, Register(kind) PROVE Spent(b)'
  <2>1. /\ candidate \in Candidates /\ candidate' \in Candidates
        /\ candidate'.rev = candidate.rev
    BY <1>21, CandidateStays DEF WorksOnCandidate
  <2>2. /\ UNCHANGED <<target, active, last_failure, pc, at>>
        /\ pc \in {"preparing", "activating"} /\ candidate'.phase = candidate.phase
    BY <1>21, <2>1, RegisteredFits DEF Register, Candidates
  <2> QED BY <2>1, <2>2
<1>22. CASE Cancel
  BY <1>22 DEF Cancel
<1>23. CASE Drop
  BY <1>23 DEF Drop
<1>24. CASE UNCHANGED vars
  BY <1>24 DEF vars
<1> QED BY <1>1, <1>2, <1>3, <1>4, <1>5, <1>6, <1>7, <1>8, <1>9, <1>10, <1>11, <1>12,
           <1>13, <1>14, <1>15, <1>16, <1>17, <1>18, <1>19, <1>20, <1>21, <1>22, <1>23, <1>24
           DEF Next, Loop, Answer

\* A transition that begins was not begun for this revision before.
Beginning(stage, mount) == [rev |-> target.rev, stage |-> stage, mount |-> mount]

LEMMA BeginsOnce ==
  ASSUME TypeOK, ScopesInv, StagesInv, RevisionsInv, BegunInv
  PROVE  /\ StopBegin => Beginning("stopping", active.mount) \notin begun
         /\ RollBackBegin => Beginning("rolling_back", candidate.rev) \notin begun
         /\ ActivateBegin => Beginning("activating", candidate.rev) \notin begun
         /\ PrepareBegin => Beginning("preparing", target.rev) \notin begun
<1>a. None \notin Mounts /\ None \notin Candidates /\ None \notin Desired
  BY ReconcilerAssumption, NoneIsNoMount
<1>b. ASSUME Turn, NEW stage, NEW mount, Beginning(stage, mount) \in begun
      PROVE  Left(Beginning(stage, mount)) /\ pc = "loop"
  <2>1. Spent(Beginning(stage, mount))
    BY <1>b DEF BegunInv
  <2>2. Beginning(stage, mount).rev = target.rev
    BY DEF Beginning
  <2> QED BY <1>b, <2>1, <2>2 DEF Spent, Turn
<1>1. ASSUME StopBegin, Beginning("stopping", active.mount) \in begun PROVE FALSE
  <2>1. Turn /\ active # None
    BY <1>1 DEF StopBegin, Turn, TypeOK
  <2>2. Left(Beginning("stopping", active.mount)) /\ pc = "loop"
    BY <1>1, <1>b, <2>1
  <2> QED BY <2>1, <2>2 DEF Left, Beginning
<1>2. ASSUME RollBackBegin, Beginning("rolling_back", candidate.rev) \in begun PROVE FALSE
  <2>1. Turn /\ candidate # None
    BY <1>2 DEF RollBackBegin, Phase
  <2>2. Left(Beginning("rolling_back", candidate.rev)) /\ pc = "loop"
    BY <1>2, <1>b, <2>1
  <2> QED BY <2>1, <2>2 DEF Left, Beginning
<1>3. ASSUME ActivateBegin, Beginning("activating", candidate.rev) \in begun PROVE FALSE
  <2>1. Turn /\ active = None /\ candidate # None /\ candidate.phase = "prepared"
    BY <1>3 DEF ActivateBegin, Phase
  <2>2. Left(Beginning("activating", candidate.rev)) /\ pc = "loop"
    BY <1>3, <1>b, <2>1
  <2> QED BY <2>1, <2>2 DEF Left, Beginning
<1>4. ASSUME PrepareBegin, Beginning("preparing", target.rev) \in begun PROVE FALSE
  <2>1. Turn /\ candidate = None /\ target.desired # ActiveDesired
    BY <1>4, <1>a DEF PrepareBegin, Phase, TypeOK, Candidates
  <2>2. Left(Beginning("preparing", target.rev))
    BY <1>4, <1>b, <2>1
  <2>3. active # None /\ active.mount = target.rev
    BY <2>1, <2>2 DEF Left, Beginning
  <2> QED BY <2>1, <2>3 DEF RevisionsInv, ActiveDesired
<1> QED BY <1>1, <1>2, <1>3, <1>4

\* Nothing of what has begun can begin again.
LEMMA BegunStep ==
  ASSUME TypeOK, ScopesInv, StagesInv, RevisionsInv, BegunInv, [Next]_vars
  PROVE  BegunInv'
<1>a. None \notin Mounts /\ None \notin Candidates /\ None \notin Desired /\ MaxRev \in Nat
  BY ReconcilerAssumption, NoneIsNoMount
<1>1. \A b \in begun : Spent(b)'
  BY SpentStep DEF BegunInv
<1>b. /\ target.rev \in Revisions
      /\ active # None => active.mount \in Revisions /\ active \in Mounts
      /\ candidate # None => candidate.rev \in Revisions /\ candidate \in Candidates
      /\ Turn => target.rev # 0
  BY <1>a DEF TypeOK, Mounts, Candidates, Revisions
<1>2. ASSUME StopBegin, NEW b, b = Beginning("stopping", active.mount) PROVE Spent(b)'
  <2>1. /\ active # None /\ active.mount \in Revisions
        /\ active' \in Mounts /\ active'.mount = active.mount
    BY <1>2, <1>b, ActiveStays DEF StopBegin, Turn, TypeOK
  <2>2. /\ UNCHANGED <<target, candidate>> /\ at' = target.rev
        /\ pc' = "stopping" /\ stop_attempt
    BY <1>2 DEF StopBegin, Begin
  <2>3. active.mount < target.rev /\ (candidate # None => active.mount < candidate.rev)
    BY <2>1, <2>2, <1>b, <1>a DEF RevisionsInv, Revisions
  <2>4. b.rev = target.rev /\ b.stage = "stopping" /\ b.mount = active.mount
    BY <1>2 DEF Beginning
  <2> QED BY <2>1, <2>2, <2>3, <2>4, <1>a, <1>b DEF Spent, Left, Revisions
<1>3. ASSUME RollBackBegin, NEW b, b = Beginning("rolling_back", candidate.rev) PROVE Spent(b)'
  <2>1. candidate # None /\ candidate.rev \in Revisions /\ candidate'.rev = candidate.rev
    BY <1>3, <1>b, CandidateStays DEF RollBackBegin, Phase, WorksOnCandidate
  <2>2. UNCHANGED target /\ at' = target.rev /\ pc' = "rolling_back"
    BY <1>3 DEF RollBackBegin, Begin
  <2>3. b.rev = target.rev /\ b.stage = "rolling_back" /\ b.mount = candidate.rev
    BY <1>3 DEF Beginning
  <2> QED BY <2>1, <2>2, <2>3, <1>a, <1>b DEF Spent, Left, Revisions
<1>4. ASSUME ActivateBegin, NEW b, b = Beginning("activating", candidate.rev) PROVE Spent(b)'
  <2>1. candidate # None /\ candidate.rev \in Revisions
    BY <1>4, <1>b DEF ActivateBegin, Phase
  <2>2. UNCHANGED target /\ at' = target.rev /\ pc' = "activating"
    BY <1>4 DEF ActivateBegin, Begin
  <2>3. b.rev = target.rev /\ b.stage = "activating" /\ b.mount = candidate.rev
    BY <1>4 DEF Beginning
  <2> QED BY <2>1, <2>2, <2>3, <1>a, <1>b DEF Spent, Left, Revisions
<1>5. ASSUME PrepareBegin, NEW b, b = Beginning("preparing", target.rev) PROVE Spent(b)'
  <2>1. NewScope \in ScopesOf(Effects)
    BY NewScopeOf, TypedScope
  <2>2. candidate' \in Candidates
    BY <1>5, <2>1, <1>a, <1>b DEF PrepareBegin, Candidates, TypeOK
  <2>3. candidate'.rev = target.rev
    BY <1>5 DEF PrepareBegin
  <2>4. UNCHANGED target /\ at' = target.rev
    BY <1>5 DEF PrepareBegin, Begin
  <2>5. b.rev = target.rev /\ b.stage = "preparing" /\ b.mount = target.rev
    BY <1>5 DEF Beginning
  <2> QED BY <2>2, <2>3, <2>4, <2>5, <1>a, <1>b DEF Spent, Left, Revisions
<1>6. CASE Loop
  <2>1. CASE UNCHANGED begun
    BY <1>1, <2>1 DEF BegunInv
  <2>2. CASE StopBegin
    <3>1. begun' = begun \cup {Beginning("stopping", active.mount)}
      BY <2>2 DEF StopBegin, Begin, Beginning
    <3> QED BY <1>1, <1>2, <2>2, <3>1 DEF BegunInv
  <2>3. CASE RollBackBegin
    <3>1. begun' = begun \cup {Beginning("rolling_back", candidate.rev)}
      BY <2>3 DEF RollBackBegin, Begin, Beginning
    <3> QED BY <1>1, <1>3, <2>3, <3>1 DEF BegunInv
  <2>4. CASE ActivateBegin
    <3>1. begun' = begun \cup {Beginning("activating", candidate.rev)}
      BY <2>4 DEF ActivateBegin, Begin, Beginning
    <3> QED BY <1>1, <1>4, <2>4, <3>1 DEF BegunInv
  <2>5. CASE PrepareBegin
    <3>1. begun' = begun \cup {Beginning("preparing", target.rev)}
      BY <2>5 DEF PrepareBegin, Begin, Beginning
    <3> QED BY <1>1, <1>5, <2>5, <3>1 DEF BegunInv
  <2> QED BY <1>6, <2>1, <2>2, <2>3, <2>4, <2>5 DEF Loop, Refuse, Discard, StopActive, Settle, Return
<1>7. CASE ~ Loop
  <2>1. UNCHANGED begun
    BY <1>7 DEF Next, Answer, SetDesired, Retry, Reconcile, StopAnswers, StopEnds, StopFails,
         RollBackAnswers, RollBackEnds, RollBackFails, PrepareEnds, LifecycleFails, ActivateEnds,
         Register, Cancel, Drop, Report, vars
  <2> QED BY <1>1, <2>1 DEF BegunInv
<1> QED BY <1>6, <1>7

LEMMA EntriesOf ==
  ASSUME NEW s, NEW m, ScopeOf(s, m)
  PROVE  \A e \in Entries(s) : e \in Effects /\ e.mount = m
BY DEF ScopeOf, ScopesOf, Entries

\* The active mount and the candidate have different names.
LEMMA MountsDiffer ==
  ASSUME TypeOK, RevisionsInv, active # None, candidate # None
  PROVE  active.mount # candidate.rev
<1>1. active.mount \in Nat /\ candidate.rev \in Nat
  BY ReconcilerAssumption DEF TypeOK, Mounts, Candidates, Revisions
<1> QED BY <1>1 DEF RevisionsInv

\* Every step accounts for the effects in force.
LEMMA NoneLostStep ==
  ASSUME TypeOK, ScopesInv, StagesInv, RevisionsInv, NoneLost, [Next]_vars
  PROVE  NoneLost'
<1> USE DEF ScopesInv
<1>1. ASSUME NEW d \in Desired \cup {None}, SetDesired(d) PROVE NoneLost'
  BY <1>1 DEF SetDesired, NoneLost
<1>2. CASE Retry
  BY <1>2 DEF Retry, NoneLost
<1>3. CASE Reconcile
  BY <1>3 DEF Reconcile, NoneLost
<1>4. CASE Refuse
  BY <1>4 DEF Refuse, Return, NoneLost
<1>5. CASE StopBegin
  <2>1. /\ active # None /\ ScopeOf(active.effects, active.mount)
        /\ Lesser(active.effects, Unwound(active.effects),
                  Undoable(active.effects), active.mount)
    BY <1>5, ScopeUnwound DEF StopBegin, Phase, Turn, StagesInv, TypeOK
  <2>2. active' # None /\ active'.effects = Unwound(active.effects)
    <3>1. active \in Mounts /\ active' \in Mounts
      BY <1>5, ActiveStays
    <3> QED BY <1>5, <3>1, NoneIsNoMount DEF StopBegin, Mounts
  <2>3. /\ live' = live \ (Undoable(active.effects))
        /\ UNCHANGED candidate /\ pc # "dropped"
    BY <1>5 DEF StopBegin, Turn
  <2>4. candidate # None => Entries(candidate.effects) \cap (Undoable(active.effects)) = {}
    <3>1. /\ candidate # None => \A e \in Entries(candidate.effects) : e.mount = candidate.rev
          /\ \A e \in Entries(active.effects) : e.mount = active.mount
      BY <2>1, EntriesOf
    <3>2. candidate # None => candidate.rev # active.mount
      BY <2>1, MountsDiffer
    <3> QED BY <3>1, <3>2, <2>1 DEF Lesser
  <2> QED BY <2>1, <2>2, <2>3, <2>4 DEF NoneLost, Lesser
<1>6. CASE Discard
  <2>1. candidate \in Candidates /\ candidate' \in Candidates
    BY <1>6, CandidateStays DEF WorksOnCandidate
  <2>2. candidate # None /\ candidate' # None /\ candidate'.effects = candidate.effects
    BY <1>6, <2>1, NoneIsNoMount DEF Discard, Candidates
  <2> QED BY <1>6, <2>2 DEF Discard, Turn, NoneLost
<1>7. CASE RollBackBegin
  <2>1. /\ candidate # None /\ ScopeOf(candidate.effects, candidate.rev)
        /\ Lesser(candidate.effects, Unwound(candidate.effects),
                  Undoable(candidate.effects), candidate.rev)
    BY <1>7, ScopeUnwound DEF RollBackBegin, Phase, StagesInv, TypeOK
  <2>2. candidate' # None /\ candidate'.effects = Unwound(candidate.effects)
    <3>1. candidate \in Candidates /\ candidate' \in Candidates
      BY <1>7, CandidateStays DEF WorksOnCandidate
    <3> QED BY <1>7, <3>1, NoneIsNoMount DEF RollBackBegin, Candidates
  <2>3. /\ live' = live \ (Undoable(candidate.effects))
        /\ UNCHANGED active /\ pc # "dropped"
    BY <1>7 DEF RollBackBegin, Turn
  <2>4. active # None => Entries(active.effects) \cap (Undoable(candidate.effects)) = {}
    <3>1. /\ active # None => \A e \in Entries(active.effects) : e.mount = active.mount
          /\ \A e \in Entries(candidate.effects) : e.mount = candidate.rev
      BY <2>1, EntriesOf
    <3>2. active # None => active.mount # candidate.rev
      BY <2>1, MountsDiffer
    <3> QED BY <3>1, <3>2, <2>1 DEF Lesser
  <2> QED BY <2>1, <2>2, <2>3, <2>4 DEF NoneLost, Lesser
<1>8. CASE StopActive
  BY <1>8 DEF StopActive, Turn, Phase, NoneLost
<1>9. CASE ActivateBegin
  BY <1>9 DEF ActivateBegin, Turn, Phase, Begin, NoneLost
<1>10. CASE PrepareBegin
  <2>1. candidate = None /\ pc # "dropped"
    BY <1>10 DEF PrepareBegin, Phase, TypeOK, Candidates, Turn
  <2>2. candidate'.effects = NewScope /\ Entries(NewScope) = {}
    BY <1>10, NewScopeOf DEF PrepareBegin
  <2> QED BY <1>10, <2>1, <2>2 DEF PrepareBegin, NoneLost
<1>11. CASE Settle
  BY <1>11 DEF Settle, Turn, Return, Phase, NoneLost
<1>12. CASE StopAnswers
  <2>1. /\ active # None /\ ScopeOf(active.effects, active.mount)
        /\ Lesser(active.effects, Unwound(Popped(active.effects)),
                  {Newest(active.effects)} \cup Undoable(Popped(active.effects)), active.mount)
    BY <1>12, ScopeAnswered DEF StopAnswers, Awaiting, StagesInv, TypeOK
  <2>2. active' # None /\ active'.effects = Unwound(Popped(active.effects))
    <3>1. active \in Mounts /\ active' \in Mounts
      BY <1>12, ActiveStays
    <3> QED BY <1>12, <3>1, NoneIsNoMount DEF StopAnswers, Mounts
  <2>3. /\ live' = live \ ({Newest(active.effects)} \cup Undoable(Popped(active.effects)))
        /\ UNCHANGED candidate /\ pc # "dropped"
    BY <1>12 DEF StopAnswers
  <2>4. candidate # None => Entries(candidate.effects) \cap ({Newest(active.effects)} \cup Undoable(Popped(active.effects))) = {}
    <3>1. /\ candidate # None => \A e \in Entries(candidate.effects) : e.mount = candidate.rev
          /\ \A e \in Entries(active.effects) : e.mount = active.mount
      BY <2>1, EntriesOf
    <3>2. candidate # None => candidate.rev # active.mount
      BY <2>1, MountsDiffer
    <3> QED BY <3>1, <3>2, <2>1 DEF Lesser
  <2> QED BY <2>1, <2>2, <2>3, <2>4 DEF NoneLost, Lesser
<1>13. CASE StopEnds
  <2>1. active # None /\ ScopeOf(active.effects, active.mount) /\ ~ Accepting(active.effects)
        /\ ~ Awaiting(active.effects)
    BY <1>13 DEF StopEnds, StagesInv, TypeOK
  <2>2. Entries(active.effects) = {}
    BY <2>1 DEF Awaiting, Accepting, ScopeOf, ScopesOf, Entries
  <2> QED BY <1>13, <2>1, <2>2 DEF StopEnds, NoneLost
<1>14. CASE StopFails
  BY <1>14 DEF StopFails, Report, NoneLost
<1>15. CASE RollBackAnswers
  <2>1. /\ candidate # None /\ ScopeOf(candidate.effects, candidate.rev)
        /\ Lesser(candidate.effects, Unwound(Popped(candidate.effects)),
                  {Newest(candidate.effects)} \cup Undoable(Popped(candidate.effects)), candidate.rev)
    BY <1>15, ScopeAnswered DEF RollBackAnswers, Awaiting, StagesInv, TypeOK
  <2>2. candidate' # None /\ candidate'.effects = Unwound(Popped(candidate.effects))
    <3>1. candidate \in Candidates /\ candidate' \in Candidates
      BY <1>15, CandidateStays DEF WorksOnCandidate
    <3> QED BY <1>15, <3>1, NoneIsNoMount DEF RollBackAnswers, Candidates
  <2>3. /\ live' = live \ ({Newest(candidate.effects)} \cup Undoable(Popped(candidate.effects)))
        /\ UNCHANGED active /\ pc # "dropped"
    BY <1>15 DEF RollBackAnswers
  <2>4. active # None => Entries(active.effects) \cap ({Newest(candidate.effects)} \cup Undoable(Popped(candidate.effects))) = {}
    <3>1. /\ active # None => \A e \in Entries(active.effects) : e.mount = active.mount
          /\ \A e \in Entries(candidate.effects) : e.mount = candidate.rev
      BY <2>1, EntriesOf
    <3>2. active # None => active.mount # candidate.rev
      BY <2>1, MountsDiffer
    <3> QED BY <3>1, <3>2, <2>1 DEF Lesser
  <2> QED BY <2>1, <2>2, <2>3, <2>4 DEF NoneLost, Lesser
<1>16. CASE RollBackEnds
  <2>1. candidate # None /\ ScopeOf(candidate.effects, candidate.rev) /\ ~ Accepting(candidate.effects)
        /\ ~ Awaiting(candidate.effects)
    BY <1>16 DEF RollBackEnds, StagesInv, TypeOK
  <2>2. Entries(candidate.effects) = {}
    BY <2>1 DEF Awaiting, Accepting, ScopeOf, ScopesOf, Entries
  <2> QED BY <1>16, <2>1, <2>2 DEF RollBackEnds, NoneLost
<1>17. CASE RollBackFails
  <2>1. candidate \in Candidates /\ candidate' \in Candidates
    BY <1>17, CandidateStays DEF WorksOnCandidate
  <2>2. candidate # None /\ candidate' # None /\ candidate'.effects = candidate.effects
    BY <1>17, <2>1, NoneIsNoMount DEF RollBackFails, Candidates
  <2> QED BY <1>17, <2>2 DEF RollBackFails, Report, NoneLost
<1>18. CASE PrepareEnds
  <2>1. candidate \in Candidates /\ candidate' \in Candidates
    BY <1>18, CandidateStays DEF WorksOnCandidate
  <2>2. candidate # None /\ candidate' # None /\ candidate'.effects = candidate.effects
    BY <1>18, <2>1, NoneIsNoMount DEF PrepareEnds, Candidates
  <2> QED BY <1>18, <2>2 DEF PrepareEnds, NoneLost
<1>19. CASE LifecycleFails
  <2>1. candidate \in Candidates /\ candidate' \in Candidates
    BY <1>19, CandidateStays DEF WorksOnCandidate
  <2>2. candidate # None /\ candidate' # None /\ candidate'.effects = candidate.effects
    BY <1>19, <2>1, NoneIsNoMount DEF LifecycleFails, Candidates
  <2> QED BY <1>19, <2>2 DEF LifecycleFails, NoneLost
<1>20. CASE ActivateEnds
  <2>1. candidate # None /\ active = None
    BY <1>20 DEF ActivateEnds, StagesInv, TypeOK
  <2>2. active' # None /\ active'.effects = candidate.effects
    BY <1>20, <2>1, TypedScope, NoneIsNoMount DEF ActivateEnds, Mounts, Candidates, TypeOK
  <2> QED BY <1>20, <2>1, <2>2 DEF ActivateEnds, NoneLost
<1>21. ASSUME NEW kind \in {"sync", "async"}, Register(kind) PROVE NoneLost'
  <2>1. candidate \in Candidates /\ candidate' \in Candidates
    BY <1>21, CandidateStays DEF WorksOnCandidate
  <2>2. /\ live' = live \cup {Registered(kind)}
        /\ Entries(candidate'.effects) = Entries(candidate.effects) \cup {Registered(kind)}
    BY <1>21, RegisteredFits
  <2>3. UNCHANGED <<active, pc>> /\ candidate # None /\ candidate' # None
    BY <1>21, <2>1, NoneIsNoMount DEF Register
  <2> QED BY <2>2, <2>3 DEF NoneLost
<1>22. CASE Cancel
  BY <1>22 DEF Cancel, NoneLost
<1>23. CASE Drop
  BY <1>23 DEF Drop, NoneLost
<1>24. CASE UNCHANGED vars
  BY <1>24 DEF vars, NoneLost
<1> QED BY <1>1, <1>2, <1>3, <1>4, <1>5, <1>6, <1>7, <1>8, <1>9, <1>10, <1>11, <1>12,
           <1>13, <1>14, <1>15, <1>16, <1>17, <1>18, <1>19, <1>20, <1>21, <1>22, <1>23, <1>24
           DEF Next, Loop, Answer

\* What is published is owned by one mount; a drop only takes away.
LEMMA OnePublishedStep ==
  ASSUME TypeOK, ScopesInv, StagesInv, RevisionsInv, NoneLost, OnePublished, [Next]_vars
  PROVE  OnePublished'
<1>1. TypeOK' /\ ScopesInv' /\ StagesInv' /\ NoneLost'
  BY RecShapeStep, StagesStep, NoneLostStep
<1>2. CASE pc' # "dropped"
  <2>1. ASSUME NEW e \in live', NEW f \in live', e.published, f.published
        PROVE  e.mount = f.mount
    <3>1. /\ active' # None => \A x \in Entries(active'.effects) : x.mount = active'.mount
          /\ candidate' # None => \A x \in Entries(candidate'.effects) : x.mount = candidate'.rev
          /\ candidate' # None /\ active' # None => \A x \in Entries(candidate'.effects) : ~ x.published
      BY <1>1, EntriesOf DEF ScopesInv, StagesInv
    <3> QED BY <1>1, <1>2, <2>1, <3>1 DEF NoneLost
  <2> QED BY <2>1 DEF OnePublished
<1>3. CASE pc' = "dropped"
  <2>1. Drop \/ UNCHANGED vars
    BY <1>3 DEF Next, Loop, Answer, SetDesired, Retry, Reconcile, Interruptible, Refuse, Return,
         StopBegin, Discard, RollBackBegin, StopActive, ActivateBegin, PrepareBegin, Begin, Turn,
         Settle, StopAnswers, StopEnds, StopFails, Report, RollBackAnswers, RollBackEnds,
         RollBackFails, PrepareEnds, LifecycleFails, ActivateEnds, Register, Cancel
  <2>2. CASE Drop
    <3>1. \A m, s : ScopeOf(s, m) => Abandoned(s) \subseteq Entries(s)
      BY ScopeUnwound DEF Abandoned, Lesser
    <3>2. /\ active # None => Abandoned(active.effects) \subseteq Entries(active.effects)
          /\ candidate # None => Abandoned(candidate.effects) \subseteq Entries(candidate.effects)
      BY <3>1 DEF ScopesInv
    <3>3. live' \subseteq live
      BY <2>2, <3>2 DEF Drop, NoneLost
    <3> QED BY <3>3 DEF OnePublished
  <2>3. CASE UNCHANGED vars
    BY <2>3 DEF vars, OnePublished
  <2> QED BY <2>1, <2>2, <2>3
<1> QED BY <1>2, <1>3

\* An effect is undone before every older one of its mount.
LEMMA LifoStep ==
  ASSUME TypeOK, ScopesInv, StagesInv, RevisionsInv, NoneLost, [Next]_vars,
         NEW e \in live \ live', NEW f \in live', f.mount = e.mount
  PROVE  f.n < e.n
<1> USE DEF ScopesInv
<1>a. /\ pc # "dropped" /\ e \in live =>
           \/ active # None /\ e \in Entries(active.effects)
           \/ candidate # None /\ e \in Entries(candidate.effects)
      /\ pc # "dropped" /\ f \in live =>
           \/ active # None /\ f \in Entries(active.effects)
           \/ candidate # None /\ f \in Entries(candidate.effects)
      /\ active # None => \A x \in Entries(active.effects) : x.mount = active.mount
      /\ candidate # None => \A x \in Entries(candidate.effects) : x.mount = candidate.rev
      /\ active # None /\ candidate # None => active.mount # candidate.rev
  BY EntriesOf, MountsDiffer DEF NoneLost
<1>1. CASE StopBegin
  <2>1. /\ active # None /\ ScopeOf(active.effects, active.mount)
        /\ Lesser(active.effects, Unwound(active.effects),
                  Undoable(active.effects), active.mount)
    BY <1>1, ScopeUnwound DEF StopBegin, Phase, Turn, StagesInv, TypeOK
  <2>2. live' = live \ (Undoable(active.effects))
        /\ pc # "dropped"
    BY <1>1 DEF StopBegin, Turn
  <2> QED BY <1>a, <2>1, <2>2 DEF Lesser
<1>2. CASE StopAnswers
  <2>1. /\ active # None /\ ScopeOf(active.effects, active.mount)
        /\ Lesser(active.effects, Unwound(Popped(active.effects)),
                  {Newest(active.effects)} \cup Undoable(Popped(active.effects)), active.mount)
    BY <1>2, ScopeAnswered DEF StopAnswers, Awaiting, StagesInv, TypeOK
  <2>2. live' = live \ ({Newest(active.effects)} \cup Undoable(Popped(active.effects)))
        /\ pc # "dropped"
    BY <1>2 DEF StopAnswers
  <2> QED BY <1>a, <2>1, <2>2 DEF Lesser
<1>3. CASE RollBackBegin
  <2>1. /\ candidate # None /\ ScopeOf(candidate.effects, candidate.rev)
        /\ Lesser(candidate.effects, Unwound(candidate.effects),
                  Undoable(candidate.effects), candidate.rev)
    BY <1>3, ScopeUnwound DEF RollBackBegin, Phase, StagesInv, TypeOK
  <2>2. live' = live \ (Undoable(candidate.effects))
        /\ pc # "dropped"
    BY <1>3 DEF RollBackBegin, Turn
  <2> QED BY <1>a, <2>1, <2>2 DEF Lesser
<1>4. CASE RollBackAnswers
  <2>1. /\ candidate # None /\ ScopeOf(candidate.effects, candidate.rev)
        /\ Lesser(candidate.effects, Unwound(Popped(candidate.effects)),
                  {Newest(candidate.effects)} \cup Undoable(Popped(candidate.effects)), candidate.rev)
    BY <1>4, ScopeAnswered DEF RollBackAnswers, Awaiting, StagesInv, TypeOK
  <2>2. live' = live \ ({Newest(candidate.effects)} \cup Undoable(Popped(candidate.effects)))
        /\ pc # "dropped"
    BY <1>4 DEF RollBackAnswers
  <2> QED BY <1>a, <2>1, <2>2 DEF Lesser
<1>5. CASE Drop
  <2>1. /\ active # None => Lesser(active.effects, Unwound(active.effects),
                                   Undoable(active.effects), active.mount)
        /\ candidate # None => Lesser(candidate.effects, Unwound(candidate.effects),
                                      Undoable(candidate.effects), candidate.rev)
    BY ScopeUnwound
  <2>2. /\ e \in live /\ e \notin live' /\ pc = "idle"
        /\ \/ active # None /\ f \in Entries(Unwound(active.effects))
           \/ candidate # None /\ f \in Entries(Unwound(candidate.effects))
        /\ active # None => e \notin Entries(Unwound(active.effects))
        /\ candidate # None => e \notin Entries(Unwound(candidate.effects))
    BY <1>5 DEF Drop, Abandoned
  <2>3. CASE active # None /\ f \in Entries(Unwound(active.effects))
    <3>1. e \in Entries(active.effects)
      BY <1>a, <2>1, <2>2, <2>3 DEF Lesser
    <3>2. e \in Undoable(active.effects)
      BY <2>1, <2>2, <2>3, <3>1 DEF Lesser
    <3> QED BY <2>1, <2>3, <3>2 DEF Lesser
  <2>4. CASE candidate # None /\ f \in Entries(Unwound(candidate.effects))
    <3>1. e \in Entries(candidate.effects)
      BY <1>a, <2>1, <2>2, <2>4 DEF Lesser
    <3>2. e \in Undoable(candidate.effects)
      BY <2>1, <2>2, <2>4, <3>1 DEF Lesser
    <3> QED BY <2>1, <2>4, <3>2 DEF Lesser
  <2> QED BY <2>2, <2>3, <2>4
<1>6. CASE ~ (StopBegin \/ StopAnswers \/ RollBackBegin \/ RollBackAnswers \/ Drop)
  <2>1. live \subseteq live'
    BY <1>6 DEF Next, Loop, Answer, SetDesired, Retry, Reconcile, Refuse, Return, Discard,
         StopActive, ActivateBegin, PrepareBegin, Begin, Settle, StopEnds, StopFails, Report,
         RollBackEnds, RollBackFails, PrepareEnds, LifecycleFails, ActivateEnds, Register,
         Cancel, vars
  <2> QED BY <2>1
<1> QED BY <1>1, <1>2, <1>3, <1>4, <1>5, <1>6

\* The invariant holds initially, and every step keeps it.
LEMMA RecInit ==
  ASSUME Init
  PROVE  RecInv
BY ReconcilerAssumption DEF Init, RecInv, ReconcilerInv, TypeOK, Revisions, OnePublished, NoneLost,
                            ScopesInv, StagesInv, RevisionsInv, BegunInv

LEMMA RecStep ==
  ASSUME RecInv, [Next]_vars
  PROVE  RecInv'
BY RecShapeStep, StagesStep, RevisionsStep, BegunStep, NoneLostStep, OnePublishedStep
   DEF RecInv, ReconcilerInv

\* The inductive invariant of the reconciler.
THEOREM ReconcilerInvariant == Init /\ [][Next]_vars => []RecInv
<1>1. RecInv /\ [Next]_vars => RecInv'
  BY RecStep
<1> QED BY RecInit, <1>1, PTL

\* Whatever fails, is cancelled, or changes while the future waits, effects of
\* a mount are undone newest first (runtime/effect.rs, runtime/reconcile.rs).
THEOREM UndoneNewestFirst == Spec => LifoUndo
<1>1. RecInv /\ [Next]_vars =>
        [\A e \in live \ live', f \in live' : f.mount = e.mount => f.n < e.n]_vars
  BY LifoStep DEF RecInv, ReconcilerInv
<1> QED BY ReconcilerInvariant, <1>1, PTL DEF Spec, LifoUndo

\* No transition of a mount is tried twice for one revision of the target.
THEOREM TriedOnce == Spec => OncePerRevision
<1>1. ASSUME RecInv, Next, pc = "loop",
             pc' \in {"stopping", "rolling_back", "preparing", "activating"}
      PROVE  begun' # begun
  <2>1. \/ StopBegin \/ RollBackBegin \/ ActivateBegin \/ PrepareBegin
    BY <1>1 DEF Next, Loop, Answer, SetDesired, Retry, Reconcile, Interruptible, Refuse, Return,
         Discard, StopActive, Settle, StopAnswers, StopEnds, StopFails, Report, RollBackAnswers,
         RollBackEnds, RollBackFails, PrepareEnds, LifecycleFails, ActivateEnds, Register,
         Cancel, Drop, Turn
  <2>2. /\ StopBegin => Beginning("stopping", active.mount) \notin begun
        /\ RollBackBegin => Beginning("rolling_back", candidate.rev) \notin begun
        /\ ActivateBegin => Beginning("activating", candidate.rev) \notin begun
        /\ PrepareBegin => Beginning("preparing", target.rev) \notin begun
    BY <1>1, BeginsOnce DEF RecInv, ReconcilerInv
  <2>3. /\ StopBegin => Beginning("stopping", active.mount) \in begun'
        /\ RollBackBegin => Beginning("rolling_back", candidate.rev) \in begun'
        /\ ActivateBegin => Beginning("activating", candidate.rev) \in begun'
        /\ PrepareBegin => Beginning("preparing", target.rev) \in begun'
    BY DEF StopBegin, RollBackBegin, ActivateBegin, PrepareBegin, Begin, Beginning
  <2> QED BY <2>1, <2>2, <2>3
<1>2. RecInv /\ [Next]_vars =>
        [pc = "loop" /\ pc' \in {"stopping", "rolling_back", "preparing", "activating"} =>
           begun' # begun]_vars
  BY <1>1
<1> QED BY ReconcilerInvariant, <1>2, PTL DEF Spec, OncePerRevision

\* A reconciliation that answers "settled" has done what was asked.
LEMMA SettledStep ==
  ASSUME RecInv, Next, pc = "loop", pc' = "idle", status'.kind = "settled"
  PROVE  /\ status'.rev = target.rev /\ candidate = None
         /\ IF target.desired = None THEN live = {}
            ELSE /\ active.desired = target.desired
                 /\ Accepting(active.effects) /\ live = Entries(active.effects)
<1> USE DEF RecInv, ReconcilerInv
<1>1. Refuse \/ Settle
  BY DEF Next, Loop, Answer, SetDesired, Retry, Reconcile, Interruptible, Turn, StopBegin,
       RollBackBegin, ActivateBegin, PrepareBegin, Begin, Discard, StopActive, StopAnswers,
       StopEnds, StopFails, RollBackAnswers, RollBackEnds, RollBackFails, PrepareEnds,
       LifecycleFails, ActivateEnds, Register, Cancel, Drop
<1>2. ~ Refuse
  BY DEF Refuse, Return, Failed
<1>3. /\ status' = [kind |-> "settled", rev |-> target.rev]
      /\ candidate = None /\ ~ stop_attempt /\ target.desired = ActiveDesired
  BY <1>1, <1>2, NoneIsNoMount DEF Settle, Return, Phase, TypeOK, Candidates
<1>4. active # None => active.desired # None
  BY ReconcilerAssumption DEF TypeOK, Mounts
<1>5. live = IF active = None THEN {} ELSE Entries(active.effects)
  BY <1>3 DEF NoneLost
<1> QED BY <1>3, <1>4, <1>5 DEF ActiveDesired, TypeOK

\* A call that answers "settled" answers the truth: the revision that was asked
\* for last is in force, whole, and nothing else is.
THEOREM SettledIsTrue == Spec => SettledExact
<1>1. RecInv /\ [Next]_vars =>
        [pc = "loop" /\ pc' = "idle" /\ status'.kind = "settled" =>
           /\ status'.rev = target.rev /\ candidate = None
           /\ IF target.desired = None THEN live = {}
              ELSE /\ active.desired = target.desired
                   /\ Accepting(active.effects) /\ live = Entries(active.effects)]_vars
  BY SettledStep
<1> QED BY ReconcilerInvariant, <1>1, PTL DEF Spec, SettledExact
-----------------------------------------------------------------------------
(***************************************************************************)
(* The scopes of the composition root.                                     *)
(***************************************************************************)
\* They are those of the reconciler.
LEMMA RootScopes ==
  /\ Root!NewScope = NewScope
  /\ \A s : /\ Root!Entries(s) = Entries(s) /\ (Root!Accepting(s) <=> Accepting(s))
            /\ Root!Barrier(s) = Barrier(s) /\ Root!Unwound(s) = Unwound(s)
            /\ Root!Popped(s) = Popped(s) /\ Root!Newest(s) = Newest(s)
  /\ \A s, e : Root!Owning(s, e) = Owning(s, e)
<1>1. \A S : Root!Max(S) = Max(S)
  BY DEF Root!Max, Max
<1>2. \A s : Root!Barrier(s) = Barrier(s)
  BY <1>1 DEF Root!Barrier, Barrier
<1>3. \A s : Root!Unwound(s) = Unwound(s)
  BY <1>2 DEF Root!Unwound, Unwound
<1> QED BY <1>2, <1>3 DEF Root!NewScope, NewScope, Root!Entries, Entries, Root!Accepting, Accepting,
             Root!Popped, Popped, Root!Newest, Newest, Root!Owning, Owning
-----------------------------------------------------------------------------
(***************************************************************************)
(* The inductive invariant of the composition root.                        *)
(***************************************************************************)
PrepEffects == {Root!Prep("sync"), Root!Prep("async")}
ActEffects == {Root!Act, Root!Registration}

Prepareds ==
  [provider : Providers, accepting : BOOLEAN,
   prep : ScopesOf(PrepEffects), act : ScopesOf(ActEffects)]

\* The registration in the capability slot is the newest effect.
RegisteredLast(r) ==
  \A i \in 1 .. Len(r.act.entries) :
    r.act.entries[i] = Root!Registration => i = Len(r.act.entries)

Calls ==
  [kind : {"none", "replace", "close"}, target : Providers \cup {None}, pc : Root!Steps,
   then : {"none", "prepare", "stop", "fail"},
   answer : {"none", "unchanged", "replaced", "error", "cancelled", "closed"}]

RootTypes ==
  /\ inst \in Seq(Prepareds) /\ Len(inst) \in 1 .. MaxInstances
  /\ \A i \in 1 .. Len(inst) : RegisteredLast(inst[i])
  /\ {generation, mounted, slot} \subseteq 1 .. Len(inst) \cup {None}
  /\ pending \in [inst : 1 .. Len(inst), state : {"prepared", "rolling_back"}] \cup {None}
  /\ provider \in Providers
  /\ {transition, failure, closed, waiting} \subseteq BOOLEAN
  /\ op \in Calls
  /\ con \in [Consumers -> [st : {"idle", "fetched", "reserved", "running"},
                            inst : 1 .. Len(inst) \cup {None}]]
  /\ \A c \in Consumers : con[c].st # "idle" => con[c].inst # None

\* The candidate of a replacement is the one it is asked for.
CandidateReady ==
  /\ pending # None /\ pending.state = "prepared"
  /\ inst[pending.inst].provider = op.target

\* What a call may assume where it stands.
CallInv ==
  /\ op.pc # "idle" => op.kind # "none" /\ op.answer = "none"
  /\ op.kind = "replace" => op.target \in Providers
  /\ op.pc = "rollback" =>
       /\ pending # None /\ pending.state = "rolling_back"
       /\ op.then \in IF op.kind = "replace" THEN {"prepare", "fail"} ELSE {"stop"}
  /\ op.pc \in {"prepare", "activate"} => op.kind = "replace"
  /\ op.pc = "prepare" /\ pending # None => CandidateReady
  /\ op.pc \in {"stop", "quiesce", "dispose", "activate"} =>
       IF op.kind = "replace" THEN CandidateReady ELSE pending = None
  /\ op.pc \in {"activate", "others"} => generation = None
  /\ op.pc = "others" => pending = None
  /\ op.pc \in {"quiesce", "dispose"} => generation # None /\ ~ inst[generation].accepting
  /\ op.pc = "quiesce" /\ ~ waiting => Root!Users(generation) = {}
  /\ op.pc = "dispose" => ~ Root!Whole(generation)
  /\ waiting => op.pc = "quiesce"

\* Who leads to an instance, and in which state the instance is then.
LeadsInv ==
  /\ pending # None =>
       /\ pending.inst # generation
       /\ pending.state = "prepared" =>
            /\ Root!Whole(pending.inst) /\ inst[pending.inst].accepting
            /\ Entries(inst[pending.inst].act) = {}
  /\ mounted # None => mounted = generation /\ Root!Whole(generation)
  /\ slot # None => slot = generation /\ Root!Registration \in Entries(inst[generation].act)
  /\ generation # None => inst[generation].provider = provider
  /\ generation # None /\ ~ transition /\ ~ failure =>
       mounted = generation /\ slot = generation /\ inst[generation].accepting

\* A consumer runs on the active instance; one that only fetched it may hold an
\* older one, which then admits nobody.
ConsumersInv ==
  \A c \in Consumers : con[c].st # "idle" =>
    /\ pending # None => con[c].inst # pending.inst
    /\ con[c].st # "fetched" \/ inst[con[c].inst].accepting =>
         con[c].inst = generation /\ Root!Whole(generation)

\* Only the active instance is activated, or a candidate that failed to be.
ActivatedInv ==
  \A i \in 1 .. Len(inst) : Entries(inst[i].act) # {} =>
    \/ i = generation
    \/ generation = None /\ pending # None /\ pending.inst = i /\ pending.state = "rolling_back"

\* What is in force belongs to one of the instances the root can undo.
OwnedInv ==
  \A i \in 1 .. Len(inst) : Entries(inst[i].act) # {} \/ Entries(inst[i].prep) # {} =>
    i = generation \/ (pending # None /\ pending.inst = i)

RootIInv == RootTypes /\ CallInv /\ LeadsInv /\ ConsumersInv /\ ActivatedInv /\ OwnedInv
-----------------------------------------------------------------------------
(***************************************************************************)
(* What a disposal does to an instance.                                    *)
(***************************************************************************)
InstanceOK(r) == r \in Prepareds /\ RegisteredLast(r)

\* q is what is left of r when a disposal went on.
Undone(r, q) ==
  /\ InstanceOK(q) /\ q.provider = r.provider /\ q.accepting = r.accepting
  /\ Entries(q.act) \subseteq Entries(r.act) /\ Entries(q.prep) \subseteq Entries(r.prep)
  /\ ~ Accepting(q.act)

\* An asynchronous effect at the end of a scope is its barrier.
LEMMA BarrierAtEnd ==
  ASSUME NEW S, NEW s \in ScopesOf(S),
         s.entries # <<>> => s.entries[Len(s.entries)].kind = "async"
  PROVE  Barrier(s) = Len(s.entries)
<1> DEFINE n == Len(s.entries)
           T == {0} \cup {i \in DOMAIN s.entries : s.entries[i].kind = "async"}
<1>1. n \in Nat /\ T \subseteq 0 .. n /\ T # {} /\ n \in T
  BY DEF ScopesOf
<1>2. Max(T) \in T /\ \A y \in T : Max(T) >= y
  <2> HIDE DEF T, n
  <2> QED BY <1>1, MaxOfRange
<1>3. Max(T) = n
  <2> HIDE DEF T, n
  <2>1. Max(T) \in 0 .. n /\ Max(T) >= n
    BY <1>1, <1>2
  <2> QED BY <1>1, <2>1
<1> QED BY <1>3 DEF Barrier

\* Every effect of an activation is asynchronous: its scope unwinds to itself.
LEMMA ActUnwound ==
  ASSUME NEW s \in ScopesOf(ActEffects)
  PROVE  /\ Unwound(s) \in ScopesOf(ActEffects) /\ ~ Accepting(Unwound(s))
         /\ Len(Unwound(s).entries) = Len(s.entries)
         /\ \A i \in 1 .. Len(s.entries) : Unwound(s).entries[i] = s.entries[i]
<1>1. Len(s.entries) \in Nat /\ \A i \in 1 .. Len(s.entries) : s.entries[i] \in ActEffects
  BY DEF ScopesOf
<1>2. s.entries # <<>> => Len(s.entries) \in 1 .. Len(s.entries)
  BY DEF ScopesOf
<1>3. \A e \in ActEffects : e.kind = "async"
  BY DEF ActEffects, Root!Act, Root!Registration
<1>4. Barrier(s) = Len(s.entries)
  BY <1>1, <1>2, <1>3, BarrierAtEnd
<1>5. Unwound(s) \in ScopesOf(ActEffects) /\ CutTo(s, Unwound(s), Undoable(s), Len(s.entries))
  BY <1>4, UnwoundCut
<1> QED BY <1>5 DEF CutTo, Accepting

\* What unwinding leaves was there.
LEMMA UnwoundLess ==
  ASSUME NEW S, NEW s \in ScopesOf(S)
  PROVE  /\ Unwound(s) \in ScopesOf(S) /\ Entries(Unwound(s)) \subseteq Entries(s)
         /\ ~ Accepting(Unwound(s))
<1>1. Unwound(s) \in ScopesOf(S) /\ CutTo(s, Unwound(s), Undoable(s), Barrier(s))
  BY UnwoundCut
<1>2. Barrier(s) \in 0 .. Len(s.entries) /\ Len(s.entries) \in Nat
  BY BarrierRange DEF ScopesOf
<1>3. DOMAIN s.entries = 1 .. Len(s.entries)
      /\ DOMAIN Unwound(s).entries = 1 .. Len(Unwound(s).entries)
  BY <1>1 DEF ScopesOf
<1>4. ~ Accepting(Unwound(s))
  BY <1>1 DEF CutTo, Accepting
<1>5. Entries(Unwound(s)) \subseteq Entries(s)
  BY <1>1, <1>2, <1>3 DEF Entries, CutTo
<1> QED BY <1>1, <1>4, <1>5

LEMMA PoppedLess ==
  ASSUME NEW S, NEW s \in ScopesOf(S), s.entries # <<>>
  PROVE  Popped(s) \in ScopesOf(S) /\ Entries(Popped(s)) \subseteq Entries(s)
<1>1. /\ Popped(s) \in ScopesOf(S) /\ Len(Popped(s).entries) = Len(s.entries) - 1
      /\ \A i \in 1 .. Len(s.entries) - 1 : Popped(s).entries[i] = s.entries[i]
  BY PoppedType
<1>2. /\ DOMAIN s.entries = 1 .. Len(s.entries) /\ Len(s.entries) \in Nat
      /\ DOMAIN Popped(s).entries = 1 .. Len(Popped(s).entries)
  BY <1>1 DEF ScopesOf
<1> QED BY <1>1, <1>2 DEF Entries

\* The disposal of an instance begins.
LEMMA ProgressUndoes ==
  ASSUME NEW r, InstanceOK(r)
  PROVE  /\ Undone(r, Root!Progress(r)) /\ Entries(Root!Progress(r).act) = Entries(r.act)
         /\ Root!Progress(r).act.entries = <<>> <=> r.act.entries = <<>>
<1> DEFINE a == Unwound(r.act) q == Root!Progress(r)
<1>1. /\ r \in Prepareds /\ r.act \in ScopesOf(ActEffects) /\ r.prep \in ScopesOf(PrepEffects)
  BY DEF InstanceOK, Prepareds
<1>2. /\ a \in ScopesOf(ActEffects) /\ ~ Accepting(a) /\ Len(a.entries) = Len(r.act.entries)
      /\ \A i \in 1 .. Len(r.act.entries) : a.entries[i] = r.act.entries[i]
  BY <1>1, ActUnwound
<1>3. /\ Unwound(r.prep) \in ScopesOf(PrepEffects)
      /\ Entries(Unwound(r.prep)) \subseteq Entries(r.prep)
  BY <1>1, UnwoundLess
<1>4. \/ q = [r EXCEPT !.act = a, !.prep = Unwound(r.prep)]
      \/ q = [r EXCEPT !.act = a]
  BY RootScopes DEF Root!Progress
<1>5. /\ q \in Prepareds /\ q.act = a /\ q.provider = r.provider /\ q.accepting = r.accepting
      /\ Entries(q.prep) \subseteq Entries(r.prep)
  <2> HIDE DEF q, a
  <2> QED BY <1>1, <1>2, <1>3, <1>4 DEF Prepareds
<1>6. /\ DOMAIN a.entries = 1 .. Len(a.entries) /\ DOMAIN r.act.entries = 1 .. Len(r.act.entries)
      /\ Len(r.act.entries) \in Nat /\ a.entries = <<>> <=> r.act.entries = <<>>
  BY <1>1, <1>2 DEF ScopesOf
<1>7. Entries(a) = Entries(r.act)
  BY <1>2, <1>6 DEF Entries
<1>8. RegisteredLast(q)
  <2> HIDE DEF q, a
  <2> QED BY <1>2, <1>5, <1>6 DEF InstanceOK, RegisteredLast
<1> HIDE DEF q, a
<1> QED BY <1>2, <1>5, <1>6, <1>7, <1>8 DEF Undone, InstanceOK, q

\* Its newest owner stops.
LEMMA OwnerStoppedUndoes ==
  ASSUME NEW r, InstanceOK(r), ~ Root!Gone(r)
  PROVE  /\ Undone(r, Root!OwnerStopped(r))
         /\ Newest(Root!Held(r)) = Root!Registration <=> Root!Registration \in Entries(r.act)
<1> DEFINE q == IF r.act.entries # <<>> THEN [r EXCEPT !.act = Popped(r.act)]
                ELSE [r EXCEPT !.prep = Popped(r.prep)]
<1>1. /\ r \in Prepareds /\ r.act \in ScopesOf(ActEffects) /\ r.prep \in ScopesOf(PrepEffects)
      /\ RegisteredLast(r)
  BY DEF InstanceOK, Prepareds
<1>2. r.act.entries = <<>> => r.prep.entries # <<>>
  BY DEF Root!Gone, Root!Held
<1>3. /\ q \in Prepareds /\ q.provider = r.provider /\ q.accepting = r.accepting
      /\ Entries(q.act) \subseteq Entries(r.act) /\ Entries(q.prep) \subseteq Entries(r.prep)
      /\ q.act = r.act \/ (r.act.entries # <<>> /\ q.act = Popped(r.act))
  <2>1. CASE r.act.entries # <<>>
    <3>1. Popped(r.act) \in ScopesOf(ActEffects) /\ Entries(Popped(r.act)) \subseteq Entries(r.act)
      BY <1>1, <2>1, PoppedLess
    <3>2. q = [r EXCEPT !.act = Popped(r.act)]
      BY <2>1
    <3> HIDE DEF q
    <3> QED BY <1>1, <2>1, <3>1, <3>2 DEF Prepareds
  <2>2. CASE r.act.entries = <<>>
    <3>1. Popped(r.prep) \in ScopesOf(PrepEffects) /\ Entries(Popped(r.prep)) \subseteq Entries(r.prep)
      BY <1>1, <1>2, <2>2, PoppedLess
    <3>2. q = [r EXCEPT !.prep = Popped(r.prep)]
      BY <2>2
    <3> HIDE DEF q
    <3> QED BY <1>1, <3>1, <3>2 DEF Prepareds
  <2> QED BY <2>1, <2>2
<1>4. RegisteredLast(q)
  <2>1. CASE q.act = r.act
    <3> HIDE DEF q
    <3> QED BY <1>1, <2>1 DEF RegisteredLast
  <2>2. CASE r.act.entries # <<>> /\ q.act = Popped(r.act)
    <3>1. /\ Len(q.act.entries) = Len(r.act.entries) - 1 /\ Len(r.act.entries) \in Nat
          /\ \A i \in 1 .. Len(r.act.entries) - 1 : q.act.entries[i] = r.act.entries[i]
      <4> HIDE DEF q
      <4> QED BY <1>1, <2>2, PoppedType DEF ScopesOf
    <3>2. \A i \in 1 .. Len(r.act.entries) :
            r.act.entries[i] = Root!Registration => i = Len(r.act.entries)
      BY <1>1 DEF RegisteredLast
    <3> HIDE DEF q
    <3> SUFFICES ASSUME NEW i \in 1 .. Len(q.act.entries), q.act.entries[i] = Root!Registration
                 PROVE  FALSE
      BY DEF RegisteredLast
    <3>3. i \in 1 .. Len(r.act.entries) - 1 /\ r.act.entries[i] = Root!Registration
      BY <3>1
    <3>4. i = Len(r.act.entries)
      BY <3>1, <3>2, <3>3
    <3> QED BY <3>1, <3>3, <3>4
  <2> QED BY <1>3, <2>1, <2>2
<1>5. Undone(q, Root!Progress(q))
  <2> HIDE DEF q
  <2> QED BY <1>3, <1>4, ProgressUndoes DEF InstanceOK
<1>6. Root!OwnerStopped(r) = Root!Progress(q)
  BY RootScopes DEF Root!OwnerStopped
<1>7. Undone(r, Root!OwnerStopped(r))
  <2> HIDE DEF q
  <2> QED BY <1>3, <1>5, <1>6 DEF Undone
<1>8. ASSUME Root!Registration \in Entries(r.act)
      PROVE  Newest(Root!Held(r)) = Root!Registration
  <2>1. PICK i \in DOMAIN r.act.entries : r.act.entries[i] = Root!Registration
    BY <1>8 DEF Entries
  <2>2. DOMAIN r.act.entries = 1 .. Len(r.act.entries) /\ Len(r.act.entries) \in Nat
    BY <1>1 DEF ScopesOf
  <2>3. i = Len(r.act.entries) /\ r.act.entries # <<>>
    BY <1>1, <2>1, <2>2 DEF RegisteredLast
  <2> QED BY <2>1, <2>3 DEF Newest, Root!Held
<1>9. ASSUME Newest(Root!Held(r)) = Root!Registration
      PROVE  Root!Registration \in Entries(r.act)
  <2>1. CASE r.act.entries # <<>>
    <3>1. Len(r.act.entries) \in DOMAIN r.act.entries
      BY <1>1, <2>1 DEF ScopesOf
    <3>2. r.act.entries[Len(r.act.entries)] = Root!Registration
      BY <1>9, <2>1 DEF Newest, Root!Held
    <3> QED BY <3>1, <3>2 DEF Entries
  <2>2. CASE r.act.entries = <<>>
    <3>1. Len(r.prep.entries) \in 1 .. Len(r.prep.entries) /\ r.prep.entries \in Seq(PrepEffects)
      BY <1>1, <1>2, <2>2 DEF ScopesOf
    <3>2. r.prep.entries[Len(r.prep.entries)] = Root!Registration
      BY <1>9, <2>2 DEF Newest, Root!Held
    <3>3. Root!Registration \in PrepEffects
      BY <3>1, <3>2
    <3> QED BY <3>3 DEF PrepEffects, Root!Prep, Root!Registration
  <2> QED BY <2>1, <2>2
<1> QED BY <1>7, <1>8, <1>9

(***************************************************************************)
(* The table of instances, step by step.                                   *)
(***************************************************************************)
TableOK ==
  inst \in Seq(Prepareds) /\ \A i \in 1 .. Len(inst) : RegisteredLast(inst[i])

\* Only the instance v may change.
Only(v) ==
  /\ v \in 1 .. Len(inst) /\ TableOK' /\ Len(inst') = Len(inst)
  /\ \A i \in 1 .. Len(inst) : i # v => inst'[i] = inst[i]

LEMMA Updated ==
  ASSUME TableOK, NEW v \in 1 .. Len(inst), NEW r, InstanceOK(r), inst' = [inst EXCEPT ![v] = r]
  PROVE  Only(v) /\ inst'[v] = r
<1>1. /\ inst \in Seq(Prepareds) /\ r \in Prepareds
      /\ \A i \in 1 .. Len(inst) : RegisteredLast(inst[i])
      /\ RegisteredLast(r)
  BY DEF TableOK, InstanceOK
<1>2. /\ inst' \in Seq(Prepareds) /\ Len(inst') = Len(inst)
      /\ inst'[v] = r /\ \A i \in 1 .. Len(inst) : i # v => inst'[i] = inst[i]
  BY <1>1
<1>3. \A i \in 1 .. Len(inst') : RegisteredLast(inst'[i])
  BY <1>1, <1>2
<1> QED BY <1>2, <1>3 DEF Only, TableOK

LEMMA OneOK ==
  ASSUME TableOK, NEW v \in 1 .. Len(inst)
  PROVE  InstanceOK(inst[v])
BY DEF TableOK, InstanceOK

\* An instance that is gone has nothing in force.
LEMMA GoneIsEmpty ==
  ASSUME NEW r, Root!Gone(r)
  PROVE  Entries(r.act) = {} /\ Entries(r.prep) = {}
<1>1. r.act.entries = <<>> /\ r.prep.entries = <<>>
  BY DEF Root!Gone, Root!Held
<1>2. DOMAIN <<>> = {}
  OBVIOUS
<1> QED BY <1>1, <1>2 DEF Entries

\* The candidate begins to be rolled back.
LEMMA RollBackPendingUndoes ==
  ASSUME TableOK, pending # None, pending.inst \in 1 .. Len(inst),
         inst' = [inst EXCEPT ![pending.inst] = Root!Progress(@)]
  PROVE  Only(pending.inst) /\ Undone(inst[pending.inst], inst'[pending.inst])
<1>1. Undone(inst[pending.inst], Root!Progress(inst[pending.inst]))
  BY OneOK, ProgressUndoes
<1>2. inst' = [inst EXCEPT ![pending.inst] = Root!Progress(inst[pending.inst])]
  OBVIOUS
<1>3. InstanceOK(Root!Progress(inst[pending.inst]))
  BY <1>1 DEF Undone
<1>4. Only(pending.inst) /\ inst'[pending.inst] = Root!Progress(inst[pending.inst])
  BY <1>2, <1>3, Updated
<1> QED BY <1>1, <1>4

LEMMA StopAnswersDoes ==
  ASSUME RootTypes, CallInv, Root!StopAnswers
  PROVE  /\ Only(Root!Victim) /\ Undone(inst[Root!Victim], inst'[Root!Victim])
         /\ slot' = IF Root!Registration \in Entries(inst[Root!Victim].act) THEN None ELSE slot
<1> DEFINE v == Root!Victim
<1>1. TableOK /\ v \in 1 .. Len(inst) /\ ~ Root!Gone(inst[v])
  BY DEF Root!StopAnswers, Root!Victim, RootTypes, CallInv, TableOK
<1>2. /\ inst' = [inst EXCEPT ![v] = Root!OwnerStopped(inst[v])]
      /\ slot' = IF Newest(Root!Held(inst[v])) = Root!Registration THEN None ELSE slot
  BY RootScopes DEF Root!StopAnswers
<1> HIDE DEF v
<1>3. /\ Undone(inst[v], Root!OwnerStopped(inst[v]))
      /\ Newest(Root!Held(inst[v])) = Root!Registration <=>
           Root!Registration \in Entries(inst[v].act)
  BY <1>1, OneOK, OwnerStoppedUndoes
<1>4. Only(v) /\ inst'[v] = Root!OwnerStopped(inst[v])
  BY <1>1, <1>2, <1>3, Updated DEF Undone
<1>5. slot' = IF Root!Registration \in Entries(inst[v].act) THEN None ELSE slot
  BY <1>2, <1>3
<1>6. Only(v) /\ Undone(inst[v], inst'[v])
  BY <1>3, <1>4
<1> QED BY <1>5, <1>6 DEF v

LEMMA QuiesceDoes ==
  ASSUME RootTypes, CallInv, Root!Quiesce
  PROVE  /\ Only(generation) /\ generation # None /\ ~ inst'[generation].accepting
         /\ inst'[generation].provider = inst[generation].provider
         /\ inst'[generation].prep = inst[generation].prep
         /\ inst'[generation].act = inst[generation].act
<1>1. TableOK /\ generation \in 1 .. Len(inst) /\ generation # None
  BY DEF Root!Quiesce, RootTypes, TableOK
<1> DEFINE r == inst[generation] q == [r EXCEPT !.accepting = FALSE]
<1>2. InstanceOK(r)
  BY <1>1, OneOK
<1>3. inst' = [inst EXCEPT ![generation] = q]
  BY DEF Root!Quiesce
<1>4. /\ q \in Prepareds /\ ~ q.accepting /\ q.provider = r.provider
      /\ q.prep = r.prep /\ q.act = r.act
  <2> HIDE DEF r
  <2> QED BY <1>2 DEF InstanceOK, Prepareds
<1>5. InstanceOK(q)
  <2> HIDE DEF q, r
  <2> QED BY <1>2, <1>4 DEF InstanceOK, RegisteredLast
<1>6. Only(generation) /\ inst'[generation] = q
  <2> HIDE DEF q
  <2> QED BY <1>1, <1>3, <1>5, Updated
<1> HIDE DEF q
<1> QED BY <1>1, <1>4, <1>6

LEMMA QuiescedDoes ==
  ASSUME RootTypes, CallInv, Root!Quiesced
  PROVE  /\ Only(generation) /\ Undone(inst[generation], inst'[generation])
         /\ Entries(inst'[generation].act) = Entries(inst[generation].act)
<1>1. TableOK /\ generation \in 1 .. Len(inst)
  BY DEF Root!Quiesced, RootTypes, CallInv, TableOK
<1>2. inst' = [inst EXCEPT ![generation] = Root!Progress(inst[generation])]
  BY DEF Root!Quiesced
<1>3. /\ Undone(inst[generation], Root!Progress(inst[generation]))
      /\ Entries(Root!Progress(inst[generation]).act) = Entries(inst[generation].act)
  BY <1>1, OneOK, ProgressUndoes
<1>4. Only(generation) /\ inst'[generation] = Root!Progress(inst[generation])
  BY <1>1, <1>2, <1>3, Updated DEF Undone
<1> QED BY <1>3, <1>4

\* The scopes an activation makes.
LEMMA OwnScopes ==
  ASSUME NEW own \in {Root!NewScope, Root!Owning(Root!NewScope, Root!Act)}
  PROVE  /\ own \in ScopesOf(ActEffects) /\ Root!Owning(own, Root!Registration) \in ScopesOf(ActEffects)
         /\ Accepting(Root!Owning(own, Root!Registration))
         /\ Root!Registration \in Entries(Root!Owning(own, Root!Registration))
         /\ \A r \in Prepareds : r.act = own \/ r.act = Root!Owning(own, Root!Registration)
                                   => RegisteredLast(r)
<1> DEFINE A == Root!Act R == Root!Registration
<1>1. Root!NewScope = [entries |-> <<>>, state |-> "active"]
  BY DEF Root!NewScope
<1>2. Root!Owning(Root!NewScope, A) = [entries |-> <<A>>, state |-> "active"]
  BY <1>1 DEF Root!Owning
<1>3. /\ own = [entries |-> <<>>, state |-> "active"] =>
           Root!Owning(own, R) = [entries |-> <<R>>, state |-> "active"]
      /\ own = [entries |-> <<A>>, state |-> "active"] =>
           Root!Owning(own, R) = [entries |-> <<A, R>>, state |-> "active"]
  <2> HIDE DEF A, R
  <2> QED BY DEF Root!Owning
<1>a. \/ /\ own = [entries |-> <<>>, state |-> "active"]
         /\ Root!Owning(own, R) = [entries |-> <<R>>, state |-> "active"]
      \/ /\ own = [entries |-> <<A>>, state |-> "active"]
         /\ Root!Owning(own, R) = [entries |-> <<A, R>>, state |-> "active"]
  BY <1>1, <1>2, <1>3
<1>4. A \in ActEffects /\ R \in ActEffects /\ A # R
  BY DEF ActEffects, Root!Act, Root!Registration
<1>5. /\ <<>> \in Seq(ActEffects) /\ <<A>> \in Seq(ActEffects) /\ <<R>> \in Seq(ActEffects)
      /\ <<A, R>> \in Seq(ActEffects)
  <2> HIDE DEF A, R
  <2> QED BY <1>4
<1>6. /\ own \in ScopesOf(ActEffects) /\ Root!Owning(own, R) \in ScopesOf(ActEffects)
      /\ Root!Owning(own, R).state = "active"
  <2>1. \A s \in Seq(ActEffects) : [entries |-> s, state |-> "active"] \in ScopesOf(ActEffects)
    BY DEF ScopesOf
  <2>2. own \in ScopesOf(ActEffects)
    <3> HIDE DEF A, R
    <3> QED BY <1>a, <1>5, <2>1, Zenon
  <2>3. Root!Owning(own, R) \in ScopesOf(ActEffects)
    <3> HIDE DEF A, R
    <3> QED BY <1>a, <1>5, <2>1, Zenon
  <2>4. Root!Owning(own, R).state = "active"
    <3> HIDE DEF A, R
    <3> QED BY <1>a
  <2> QED BY <2>2, <2>3, <2>4
<1>7. R \in Entries(Root!Owning(own, R))
  <2>1. Root!Owning(own, R).entries = <<R>> \/ Root!Owning(own, R).entries = <<A, R>>
    <3> HIDE DEF A, R
    <3> QED BY <1>a
  <2>2. \E i \in DOMAIN Root!Owning(own, R).entries : Root!Owning(own, R).entries[i] = R
    <3> HIDE DEF A, R
    <3>1. CASE Root!Owning(own, R).entries = <<R>>
      <4>1. 1 \in DOMAIN <<R>> /\ <<R>>[1] = R
        OBVIOUS
      <4> QED BY <3>1, <4>1
    <3>2. CASE Root!Owning(own, R).entries = <<A, R>>
      <4>1. 2 \in DOMAIN <<A, R>> /\ <<A, R>>[2] = R
        OBVIOUS
      <4> QED BY <3>2, <4>1
    <3> QED BY <2>1, <3>1, <3>2
  <2> QED BY <2>2 DEF Entries
<1>8. ASSUME NEW r \in Prepareds, r.act = own \/ r.act = Root!Owning(own, R)
      PROVE  RegisteredLast(r)
  <2>1. r.act.entries \in {<<>>, <<A>>, <<R>>, <<A, R>>}
    <3> HIDE DEF A, R
    <3> QED BY <1>a, <1>8
  <2>2. \A s \in {<<>>, <<A>>, <<R>>, <<A, R>>} : \A i \in 1 .. Len(s) : s[i] = R => i = Len(s)
    <3> HIDE DEF A, R
    <3> QED BY <1>4
  <2> QED BY <2>1, <2>2 DEF RegisteredLast
<1> QED BY <1>6, <1>7, <1>8 DEF Accepting

LEMMA ActivateDoes ==
  ASSUME RootTypes, CallInv, Root!Activate
  PROVE  /\ Only(pending.inst) /\ pending # None
         /\ inst'[pending.inst].provider = inst[pending.inst].provider
         /\ inst'[pending.inst].accepting = inst[pending.inst].accepting
         /\ inst'[pending.inst].prep = inst[pending.inst].prep
         /\ Accepting(inst'[pending.inst].act)
         /\ Root!Registration \in Entries(inst'[pending.inst].act)
<1>1. TableOK /\ pending # None /\ pending.inst \in 1 .. Len(inst)
  BY RootAssumption DEF Root!Activate, RootTypes, CallInv, CandidateReady, TableOK
<1> DEFINE v == pending.inst r == inst[v]
<1>2. PICK own \in {Root!NewScope, Root!Owning(Root!NewScope, Root!Act)} :
        inst' = [inst EXCEPT ![v].act = Root!Owning(own, Root!Registration)]
  BY DEF Root!Activate
<1> DEFINE a == Root!Owning(own, Root!Registration) q == [r EXCEPT !.act = a]
<1>3. /\ a \in ScopesOf(ActEffects) /\ Accepting(a) /\ Root!Registration \in Entries(a)
      /\ \A x \in Prepareds : x.act = a => RegisteredLast(x)
  BY OwnScopes
<1>4. InstanceOK(r)
  BY <1>1, OneOK
<1> HIDE DEF v, a
<1>5. /\ q \in Prepareds /\ q.act = a /\ q.provider = r.provider
      /\ q.prep = r.prep /\ q.accepting = r.accepting
  BY <1>3, <1>4 DEF InstanceOK, Prepareds
<1>6. InstanceOK(q)
  <2> HIDE DEF q
  <2> QED BY <1>3, <1>5 DEF InstanceOK
<1>7. inst' = [inst EXCEPT ![v] = q]
  BY <1>2 DEF a
<1>8. Only(v) /\ inst'[v] = q
  <2> HIDE DEF q
  <2> QED BY <1>1, <1>6, <1>7, Updated DEF v
<1> HIDE DEF q
<1> QED BY <1>1, <1>3, <1>5, <1>8 DEF v

LEMMA ActivateFailsDoes ==
  ASSUME RootTypes, CallInv, Root!ActivateFails
  PROVE  /\ Only(pending.inst) /\ pending # None
         /\ inst'[pending.inst].provider = inst[pending.inst].provider
         /\ ~ Accepting(inst'[pending.inst].act)
<1>1. TableOK /\ pending # None /\ pending.inst \in 1 .. Len(inst)
  BY RootAssumption DEF Root!ActivateFails, RootTypes, CallInv, CandidateReady, TableOK
<1> DEFINE v == pending.inst r == inst[v]
<1>2. PICK own \in {Root!NewScope, Root!Owning(Root!NewScope, Root!Act)} :
        inst' = [inst EXCEPT ![v] = Root!Progress([r EXCEPT !.act = own])]
  BY DEF Root!ActivateFails
<1> DEFINE q == [r EXCEPT !.act = own]
<1>3. own \in ScopesOf(ActEffects) /\ \A x \in Prepareds : x.act = own => RegisteredLast(x)
  BY OwnScopes
<1>4. InstanceOK(r)
  BY <1>1, OneOK
<1> HIDE DEF v
<1>5. q \in Prepareds /\ q.act = own /\ q.provider = r.provider
  BY <1>3, <1>4 DEF InstanceOK, Prepareds
<1> HIDE DEF q
<1>6. InstanceOK(q)
  BY <1>3, <1>5 DEF InstanceOK
<1>7. Undone(q, Root!Progress(q))
  BY <1>6, ProgressUndoes
<1>8. Only(v) /\ inst'[v] = Root!Progress(q)
  BY <1>1, <1>2, <1>7, Updated DEF Undone, v, q
<1> QED BY <1>1, <1>5, <1>7, <1>8 DEF v, Undone

\* A candidate is prepared, unless one is there.
LEMMA PreparedOK ==
  ASSUME NEW p \in Providers, NEW kind \in {"sync", "async"}
  PROVE  /\ InstanceOK(Root!Prepared(p, kind)) /\ Root!Prepared(p, kind).provider = p
         /\ Root!Prepared(p, kind).accepting
         /\ Accepting(Root!Prepared(p, kind).prep) /\ Accepting(Root!Prepared(p, kind).act)
         /\ Entries(Root!Prepared(p, kind).act) = {}
<1> DEFINE e == Root!Prep(kind) r == Root!Prepared(p, kind)
<1>1. e \in PrepEffects
  BY DEF PrepEffects
<1>2. Root!NewScope = [entries |-> <<>>, state |-> "active"]
  BY DEF Root!NewScope
<1>3. Root!Owning(Root!NewScope, e) = [entries |-> <<e>>, state |-> "active"]
  <2> HIDE DEF e
  <2> QED BY <1>2 DEF Root!Owning
<1>4. r = [provider |-> p, accepting |-> TRUE,
           prep |-> [entries |-> <<e>>, state |-> "active"],
           act |-> [entries |-> <<>>, state |-> "active"]]
  <2> HIDE DEF e
  <2> QED BY <1>2, <1>3 DEF Root!Prepared, e
<1>5. <<e>> \in Seq(PrepEffects) /\ <<>> \in Seq(ActEffects) /\ Len(<<>>) = 0 /\ DOMAIN <<>> = {}
  <2> HIDE DEF e
  <2> QED BY <1>1
<1>6. /\ [entries |-> <<e>>, state |-> "active"] \in ScopesOf(PrepEffects)
      /\ [entries |-> <<>>, state |-> "active"] \in ScopesOf(ActEffects)
  <2> HIDE DEF e
  <2> QED BY <1>5 DEF ScopesOf
<1> HIDE DEF r, e
<1>7. r \in Prepareds
  BY <1>4, <1>6 DEF Prepareds
<1>8. r.act.entries = <<>> /\ r.act.state = "active" /\ r.prep.state = "active"
      /\ r.accepting /\ r.provider = p
  BY <1>4
<1>9. RegisteredLast(r) /\ Entries(r.act) = {}
  BY <1>5, <1>8 DEF RegisteredLast, Entries
<1> QED BY <1>7, <1>8, <1>9 DEF InstanceOK, Accepting, r

LEMMA PrepareDoes ==
  ASSUME RootTypes, CallInv, Root!Prepare
  PROVE  \/ UNCHANGED <<inst, pending>>
         \/ LET n == Len(inst) + 1 IN
            /\ pending = None /\ pending' = [inst |-> n, state |-> "prepared"]
            /\ TableOK' /\ Len(inst') = n /\ n <= MaxInstances
            /\ \A i \in 1 .. Len(inst) : inst'[i] = inst[i]
            /\ inst'[n].provider = op.target /\ inst'[n].accepting
            /\ Accepting(inst'[n].prep) /\ Accepting(inst'[n].act)
            /\ Entries(inst'[n].act) = {}
<1>1. op.target \in Providers /\ TableOK /\ Len(inst) \in Nat /\ MaxInstances \in Nat
  BY RootAssumption DEF Root!Parameters, Root!Prepare, RootTypes, CallInv, TableOK
<1>2. SUFFICES ASSUME NEW kind \in {"sync", "async"}, pending = None, Len(inst) < MaxInstances,
                      inst' = Append(inst, Root!Prepared(op.target, kind)),
                      pending' = [inst |-> Len(inst) + 1, state |-> "prepared"]
               PROVE  LET n == Len(inst) + 1 IN
                      /\ TableOK' /\ Len(inst') = n /\ n <= MaxInstances
                      /\ \A i \in 1 .. Len(inst) : inst'[i] = inst[i]
                      /\ inst'[n].provider = op.target /\ inst'[n].accepting
                      /\ Accepting(inst'[n].prep) /\ Accepting(inst'[n].act)
                      /\ Entries(inst'[n].act) = {}
  BY DEF Root!Prepare
<1> DEFINE r == Root!Prepared(op.target, kind) n == Len(inst) + 1
<1>3. /\ InstanceOK(r) /\ r.provider = op.target /\ r.accepting
      /\ Accepting(r.prep) /\ Accepting(r.act) /\ Entries(r.act) = {}
  BY <1>1, PreparedOK
<1> HIDE DEF r
<1>4. inst \in Seq(Prepareds) /\ r \in Prepareds /\ inst' = Append(inst, r)
  BY <1>1, <1>2, <1>3 DEF TableOK, InstanceOK, r
<1>5. /\ inst' \in Seq(Prepareds) /\ Len(inst') = n /\ inst'[n] = r
      /\ \A i \in 1 .. Len(inst) : inst'[i] = inst[i]
  BY <1>4
<1>6. \A i \in 1 .. Len(inst') : RegisteredLast(inst'[i])
  BY <1>1, <1>3, <1>5 DEF TableOK, InstanceOK
<1>7. n <= MaxInstances
  BY <1>1, <1>2
<1> QED BY <1>3, <1>5, <1>6, <1>7 DEF TableOK

\* A call that starts leaves the table alone, or starts a rollback.
StartsRollBack ==
  /\ pending # None /\ pending' = [pending EXCEPT !.state = "rolling_back"]
  /\ Only(pending.inst) /\ Undone(inst[pending.inst], inst'[pending.inst])

LEMMA CallStarts ==
  ASSUME RootTypes, CallInv
  PROVE  /\ \A p \in Providers : Root!Replace(p) =>
              \/ /\ StartsRollBack /\ op'.pc = "rollback"
                 /\ op'.kind = "replace" /\ op'.then = "prepare" /\ op'.target = p
                 /\ op' \in Calls /\ op'.answer = "none"
              \/ /\ pending # None => pending.state = "prepared" /\ inst[pending.inst].provider = p
                 /\ UNCHANGED <<inst, pending>> /\ op'.pc = "prepare"
                 /\ op'.kind = "replace" /\ op'.target = p
                 /\ op' \in Calls /\ op'.answer = "none"
         /\ Root!Close =>
              \/ /\ StartsRollBack /\ op'.pc = "rollback" /\ op'.kind = "close"
                 /\ op'.then = "stop" /\ op' \in Calls /\ op'.answer = "none"
              \/ /\ pending = None /\ UNCHANGED <<inst, pending>> /\ op'.pc = "stop"
                 /\ op'.kind = "close" /\ op' \in Calls /\ op'.answer = "none"
              \/ /\ UNCHANGED <<inst, pending>> /\ op'.pc = "idle" /\ op'.kind = "none"
                 /\ op' \in Calls /\ op'.answer = "closed"
<1>1. /\ TableOK /\ None \notin Providers
      /\ pending # None => pending.inst \in 1 .. Len(inst) /\ pending.state \in {"prepared", "rolling_back"}
  BY RootAssumption DEF RootTypes, TableOK, Root!Parameters
<1>2. ASSUME pending # None, pending' = [pending EXCEPT !.state = "rolling_back"],
             inst' = [inst EXCEPT ![pending.inst] = Root!Progress(@)]
      PROVE  StartsRollBack
  BY <1>1, <1>2, RollBackPendingUndoes DEF StartsRollBack
<1>3. ASSUME NEW p \in Providers, Root!Replace(p)
      PROVE  \/ /\ StartsRollBack /\ op'.pc = "rollback"
                /\ op'.kind = "replace" /\ op'.then = "prepare" /\ op'.target = p
                /\ op' \in Calls /\ op'.answer = "none"
             \/ /\ pending # None => pending.state = "prepared" /\ inst[pending.inst].provider = p
                /\ UNCHANGED <<inst, pending>> /\ op'.pc = "prepare"
                /\ op'.kind = "replace" /\ op'.target = p
                /\ op' \in Calls /\ op'.answer = "none"
  <2>1. CASE pending # None /\ (inst[pending.inst].provider # p \/ pending.state = "rolling_back")
    <3>1. /\ pending' = [pending EXCEPT !.state = "rolling_back"]
          /\ inst' = [inst EXCEPT ![pending.inst] = Root!Progress(@)]
          /\ op' = [kind |-> "replace", target |-> p, pc |-> "rollback", then |-> "prepare",
                    answer |-> "none"]
      BY <1>3, <2>1 DEF Root!Replace, Root!RollBackPending, Root!Idle
    <3> QED BY <1>2, <2>1, <3>1 DEF Calls, Root!Steps
  <2>2. CASE ~ (pending # None /\ (inst[pending.inst].provider # p \/ pending.state = "rolling_back"))
    <3>1. /\ UNCHANGED <<inst, pending>>
          /\ op' = [kind |-> "replace", target |-> p, pc |-> "prepare", then |-> "prepare",
                    answer |-> "none"]
      BY <1>3, <2>2 DEF Root!Replace, Root!Idle
    <3> QED BY <1>1, <2>2, <3>1 DEF Calls, Root!Steps
  <2> QED BY <2>1, <2>2
<1>4. ASSUME Root!Close
      PROVE  \/ /\ StartsRollBack /\ op'.pc = "rollback" /\ op'.kind = "close"
                /\ op'.then = "stop" /\ op' \in Calls /\ op'.answer = "none"
             \/ /\ pending = None /\ UNCHANGED <<inst, pending>> /\ op'.pc = "stop"
                /\ op'.kind = "close" /\ op' \in Calls /\ op'.answer = "none"
             \/ /\ UNCHANGED <<inst, pending>> /\ op'.pc = "idle" /\ op'.kind = "none"
                /\ op' \in Calls /\ op'.answer = "closed"
  <2>1. CASE closed
    <3>1. /\ UNCHANGED <<inst, pending>>
          /\ op' = [kind |-> "none", target |-> None, pc |-> "idle", then |-> "none",
                    answer |-> "closed"]
      BY <1>4, <2>1 DEF Root!Close, Root!Answer, Root!Idle
    <3> QED BY <3>1 DEF Calls, Root!Steps
  <2>2. CASE ~ closed /\ pending # None
    <3>1. /\ pending' = [pending EXCEPT !.state = "rolling_back"]
          /\ inst' = [inst EXCEPT ![pending.inst] = Root!Progress(@)]
          /\ op' = [kind |-> "close", target |-> None, pc |-> "rollback", then |-> "stop",
                    answer |-> "none"]
      BY <1>4, <2>2 DEF Root!Close, Root!RollBackPending, Root!Idle
    <3> QED BY <1>2, <2>2, <3>1 DEF Calls, Root!Steps
  <2>3. CASE ~ closed /\ pending = None
    <3>1. /\ UNCHANGED <<inst, pending>>
          /\ op' = [kind |-> "close", target |-> None, pc |-> "stop", then |-> "stop",
                    answer |-> "none"]
      BY <1>4, <2>3 DEF Root!Close, Root!Idle
    <3> QED BY <2>3, <3>1 DEF Calls, Root!Steps
  <2> QED BY <2>1, <2>2, <2>3
<1> QED BY <1>3, <1>4

LEMMA NoneOfTheRoot ==
  /\ None \notin Nat /\ None \notin Providers /\ MaxInstances \in Nat
  /\ \A n \in Nat : None \notin [inst : 1 .. n, state : {"prepared", "rolling_back"}]
BY RootAssumption DEF Root!Parameters

\* Every step keeps the types.
LEMMA RootTypesStep ==
  ASSUME RootTypes, CallInv, [Root!Next]_(Root!vars)
  PROVE  RootTypes'
<1>a. None \notin Nat /\ None \notin Providers /\ MaxInstances \in Nat /\ Len(inst) \in Nat
  BY NoneOfTheRoot DEF RootTypes
<1> USE <1>a DEF RootTypes, Only, TableOK, StartsRollBack, Calls, Root!Steps
<1>1. CASE Root!StopAnswers
  BY <1>1, StopAnswersDoes DEF Root!StopAnswers, Root!root
<1>2. CASE Root!RollBackFails
  BY <1>2 DEF Root!RollBackFails, Root!Answer, Root!Idle, Root!root
<1>3. CASE Root!RollBackEnds
  <2>1. op' \in Calls /\ {failure', transition'} \subseteq BOOLEAN
    <3>1. CASE op.then = "fail"
      BY <1>3, <3>1 DEF Root!RollBackEnds, Root!Answer, Root!Idle
    <3>2. CASE op.then # "fail"
      BY <1>3, <3>2 DEF Root!RollBackEnds, Root!Goto, CallInv
    <3> QED BY <3>1, <3>2
  <2>2. pending' = None /\ UNCHANGED <<inst, generation, provider, mounted, slot, others, closed, waiting, con>>
    BY <1>3 DEF Root!RollBackEnds
  <2> QED BY <2>1, <2>2
<1>4. CASE Root!Prepare
  BY <1>4, PrepareDoes DEF Root!Prepare, Root!Goto, Root!Answer, Root!Idle, Root!root
<1>5. CASE Root!Quiesce
  BY <1>5, QuiesceDoes DEF Root!Quiesce, Root!Goto, Root!root
<1>6. CASE Root!NothingToStop
  BY <1>6 DEF Root!NothingToStop, Root!Goto, Root!root
<1>7. CASE Root!Quiesced
  BY <1>7, QuiescedDoes DEF Root!Quiesced, Root!Goto, Root!root
<1>8. CASE Root!DisposeFails
  BY <1>8 DEF Root!DisposeFails, Root!Answer, Root!Idle, Root!root
<1>9. CASE Root!DisposeEnds
  BY <1>9 DEF Root!DisposeEnds, Root!Goto, Root!root
<1>10. CASE Root!Activate
  <2>1. Only(pending.inst)
    BY <1>10, ActivateDoes
  <2>2. /\ generation' = pending.inst /\ slot' = pending.inst /\ mounted' = pending.inst
        /\ pending' = None /\ provider' = op.target /\ transition' = FALSE /\ failure' = FALSE
        /\ op' = [kind |-> "none", target |-> op.target, pc |-> "idle", then |-> "none",
                  answer |-> "replaced"]
        /\ UNCHANGED <<closed, waiting, con>>
    BY <1>10 DEF Root!Activate, Root!Idle
  <2>3. op.target \in Providers
    BY <1>10 DEF Root!Activate, CallInv
  <2> QED BY <2>1, <2>2, <2>3
<1>11. CASE Root!ActivateFails
  <2>1. Only(pending.inst) /\ pending # None
    BY <1>11, ActivateFailsDoes
  <2>2. /\ pending' = [pending EXCEPT !.state = "rolling_back"]
        /\ provider' = op.target /\ transition' = FALSE /\ failure' = FALSE
        /\ op' = [op EXCEPT !.pc = "rollback", !.then = "fail"]
        /\ UNCHANGED <<generation, mounted, slot, closed, waiting, con>>
    BY <1>11 DEF Root!ActivateFails
  <2>3. op.target \in Providers
    BY <1>11 DEF Root!ActivateFails, CallInv
  <2> QED BY <2>1, <2>2, <2>3
<1>12. CASE Root!OthersFail
  BY <1>12 DEF Root!OthersFail, Root!Answer, Root!Idle, Root!root
<1>13. CASE Root!CloseEnds
  BY <1>13 DEF Root!CloseEnds, Root!Answer, Root!Idle, Root!root
<1>14. ASSUME NEW p \in Providers, Root!ReplaceUnchanged(p) PROVE RootTypes'
  BY <1>14 DEF Root!ReplaceUnchanged, Root!Idle, Root!root
<1>15. ASSUME NEW p \in Providers, Root!Replace(p) PROVE RootTypes'
  BY <1>15, CallStarts DEF Root!Replace, Root!root
<1>16. CASE Root!ExitFails
  BY <1>16 DEF Root!ExitFails, Root!Answer, Root!Idle, Root!root
<1>17. CASE Root!Close
  BY <1>17, CallStarts DEF Root!Close, Root!root
<1>18. CASE Root!Cancel
  BY <1>18 DEF Root!Cancel, Root!Answer, Root!Idle, Root!root
<1>19. ASSUME NEW c \in Consumers, Root!Fetch(c) PROVE RootTypes'
  BY <1>19 DEF Root!Fetch, Root!Consumer, Root!root
<1>20. ASSUME NEW c \in Consumers, Root!Reserve(c) PROVE RootTypes'
  BY <1>20 DEF Root!Reserve, Root!Consumer, Root!root
<1>21. ASSUME NEW c \in Consumers, Root!Start(c) PROVE RootTypes'
  BY <1>21 DEF Root!Start, Root!Consumer, Root!root
<1>22. ASSUME NEW c \in Consumers, Root!Release(c) PROVE RootTypes'
  BY <1>22 DEF Root!Release, Root!Consumer, Root!root
<1>23. CASE UNCHANGED Root!vars
  BY <1>23 DEF Root!vars, Root!root
<1> QED BY <1>1, <1>2, <1>3, <1>4, <1>5, <1>6, <1>7, <1>8, <1>9, <1>10, <1>11, <1>12,
           <1>13, <1>14, <1>15, <1>16, <1>17, <1>18, <1>19, <1>20, <1>21, <1>22, <1>23
           DEF Root!Next, Root!Call

LEMMA RollingBack ==
  ASSUME RootTypes, StartsRollBack
  PROVE  pending' # None /\ pending'.state = "rolling_back" /\ pending'.inst = pending.inst
<1>1. /\ None \notin [inst : 1 .. Len(inst), state : {"prepared", "rolling_back"}]
      /\ pending \in [inst : 1 .. Len(inst), state : {"prepared", "rolling_back"}]
  BY NoneOfTheRoot DEF RootTypes, StartsRollBack
<1>2. pending' = [pending EXCEPT !.state = "rolling_back"]
  BY DEF StartsRollBack
<1>3. pending' \in [inst : 1 .. Len(inst), state : {"prepared", "rolling_back"}]
  BY <1>1, <1>2
<1>4. pending'.state = "rolling_back" /\ pending'.inst = pending.inst
  BY <1>1, <1>2
<1> QED BY <1>1, <1>3, <1>4

\* Every step leads a call where it may go.
LEMMA CallStep ==
  ASSUME RootIInv, RootTypes', [Root!Next]_(Root!vars)
  PROVE  CallInv'
<1>a. /\ None \notin Nat /\ None \notin Providers /\ Len(inst) \in Nat
      /\ RootTypes /\ CallInv /\ LeadsInv
  BY NoneOfTheRoot DEF RootTypes, RootIInv
<1> USE <1>a DEF RootTypes, CallInv, CandidateReady, Only, Undone, StartsRollBack, Calls
<1>1. CASE Root!StopAnswers
  BY <1>1, StopAnswersDoes DEF Root!StopAnswers, Root!root, Root!Users, Root!Whole, Root!Accepting, Accepting
<1>2. CASE Root!RollBackFails
  BY <1>2 DEF Root!RollBackFails, Root!Answer, Root!Idle, Root!root, Root!Users, Root!Whole, Root!Accepting, Accepting
<1>3. CASE Root!RollBackEnds
  BY <1>3 DEF Root!RollBackEnds, Root!Goto, Root!Answer, Root!Idle, Root!root, Root!Users, Root!Whole, Root!Accepting, Accepting
<1>4. CASE Root!Prepare
  <2>1. CASE op'.pc = "idle"
    <3>1. op'.kind = "none" /\ waiting' = waiting
      BY <1>4, <2>1 DEF Root!Prepare, Root!Answer, Root!Idle, Root!Goto
    <3> QED BY <1>4, <2>1, <3>1 DEF Root!Prepare
  <2>2. CASE op'.pc # "idle"
    <3>1. /\ op' = [op EXCEPT !.pc = "stop"] /\ op.kind = "replace"
          /\ UNCHANGED <<generation, waiting>>
      BY <1>4, <2>2 DEF Root!Prepare, Root!Answer, Root!Idle, Root!Goto
    <3>2. CandidateReady'
      <4>1. CASE UNCHANGED <<inst, pending>>
        <5>1. pending # None
          BY <1>4, <2>2, <4>1 DEF Root!Prepare, Root!Answer, Root!Idle
        <5> QED BY <1>4, <3>1, <4>1, <5>1 DEF Root!Prepare
      <4>2. CASE ~ UNCHANGED <<inst, pending>>
        <5>1. /\ pending' = [inst |-> Len(inst) + 1, state |-> "prepared"]
              /\ inst'[Len(inst) + 1].provider = op.target
          BY <1>4, <4>2, PrepareDoes
        <5>2. op'.target = op.target /\ pending'.inst = Len(inst) + 1 /\ pending'.state = "prepared"
          BY <3>1, <5>1
        <5>3. pending' # None
          <6>1. pending' \in [inst : 1 .. Len(inst) + 1, state : {"prepared", "rolling_back"}]
            BY <5>1
          <6> QED BY <6>1, NoneOfTheRoot
        <5> QED BY <5>1, <5>2, <5>3
      <4> QED BY <4>1, <4>2
    <3>3. op'.pc = "stop" /\ op'.kind = "replace" /\ op'.answer = "none" /\ ~ waiting'
      BY <1>4, <3>1 DEF Root!Prepare
    <3>4. op'.target \in Providers
      BY <1>4, <3>1 DEF Root!Prepare
    <3> QED BY <3>2, <3>3, <3>4 DEF CallInv
  <2> QED BY <2>1, <2>2
<1>5. CASE Root!Quiesce
  <2>1. /\ Only(generation) /\ generation # None /\ ~ inst'[generation].accepting
        /\ inst'[generation].provider = inst[generation].provider
    BY <1>5, QuiesceDoes
  <2>2. /\ op' = [op EXCEPT !.pc = "quiesce"] /\ op.pc = "stop"
        /\ waiting' = (Root!Users(generation) # {})
        /\ UNCHANGED <<generation, pending, con>>
    BY <1>5 DEF Root!Quiesce, Root!Goto
  <2>3. /\ op'.pc = "quiesce" /\ op'.kind = op.kind /\ op'.answer = op.answer
        /\ op'.target = op.target
    BY <2>2
  <2>4. ~ waiting' => Root!Users(generation)' = {}
    BY <2>2 DEF Root!Users
  <2>5. pending # None => pending.inst \in 1 .. Len(inst)
    OBVIOUS
  <2>6. IF op.kind = "replace" THEN CandidateReady' ELSE pending' = None
    <3>1. CASE op.kind = "replace"
      <4>1. CandidateReady
        BY <2>2, <3>1
      <4>2. pending' # None /\ pending'.state = "prepared" /\ pending'.inst = pending.inst
        BY <2>2, <4>1 DEF CandidateReady
      <4>3. inst'[pending.inst].provider = op.target
        BY <2>1, <2>5, <4>1 DEF CandidateReady, Only
      <4> QED BY <2>3, <3>1, <4>2, <4>3 DEF CandidateReady
    <3> QED BY <2>2, <3>1
  <2>7. op.kind = "replace" => op.target \in Providers
    BY DEF CallInv
  <2>8. op.kind # "none" /\ op.answer = "none"
    BY <2>2 DEF CallInv
  <2> QED BY <2>1, <2>2, <2>3, <2>4, <2>6, <2>7, <2>8 DEF CallInv
<1>6. CASE Root!NothingToStop
  BY <1>6 DEF Root!NothingToStop, Root!Goto, Root!root, Root!Users, Root!Whole, Root!Accepting, Accepting
<1>7. CASE Root!Quiesced
  BY <1>7, QuiescedDoes DEF Root!Quiesced, Root!Goto, Root!root, Root!Users, Root!Whole, Root!Accepting, Accepting
<1>8. CASE Root!DisposeFails
  BY <1>8 DEF Root!DisposeFails, Root!Answer, Root!Idle, Root!root, Root!Users, Root!Whole, Root!Accepting, Accepting
<1>9. CASE Root!DisposeEnds
  BY <1>9 DEF Root!DisposeEnds, Root!Goto, Root!root, Root!Users, Root!Whole, Root!Accepting, Accepting
<1>10. CASE Root!Activate
  BY <1>10, ActivateDoes DEF Root!Activate, Root!Idle, Root!root, Root!Users, Root!Whole, Root!Accepting, Accepting
<1>11. CASE Root!ActivateFails
  <2>1. Only(pending.inst) /\ pending # None
    BY <1>11, ActivateFailsDoes
  <2>2. /\ pending' = [pending EXCEPT !.state = "rolling_back"]
        /\ op' = [op EXCEPT !.pc = "rollback", !.then = "fail"] /\ op.pc = "activate"
        /\ UNCHANGED waiting
    BY <1>11 DEF Root!ActivateFails
  <2>3. /\ op'.pc = "rollback" /\ op'.then = "fail" /\ op'.kind = "replace"
        /\ op'.answer = "none" /\ op'.target \in Providers /\ ~ waiting'
    BY <2>2
  <2>4. pending' # None /\ pending'.state = "rolling_back"
    <3>1. pending'.state = "rolling_back" /\ pending'.inst \in 1 .. Len(inst)
      BY <2>1, <2>2
    <3>2. pending' = [inst |-> pending'.inst, state |-> "rolling_back"]
      BY <2>1, <2>2
    <3>3. pending' \in [inst : 1 .. Len(inst), state : {"prepared", "rolling_back"}]
      BY <3>1, <3>2
    <3> QED BY <3>1, <3>3, NoneOfTheRoot
  <2> QED BY <2>3, <2>4 DEF CallInv
<1>12. CASE Root!OthersFail
  BY <1>12 DEF Root!OthersFail, Root!Answer, Root!Idle, Root!root, Root!Users, Root!Whole, Root!Accepting, Accepting
<1>13. CASE Root!CloseEnds
  BY <1>13 DEF Root!CloseEnds, Root!Answer, Root!Idle, Root!root, Root!Users, Root!Whole, Root!Accepting, Accepting
<1>14. ASSUME NEW p \in Providers, Root!ReplaceUnchanged(p) PROVE CallInv'
  BY <1>14 DEF Root!ReplaceUnchanged, Root!Idle, Root!root, Root!Users, Root!Whole, Root!Accepting, Accepting
<1>15. ASSUME NEW p \in Providers, Root!Replace(p) PROVE CallInv'
  <2>1. op.pc = "idle" /\ ~ waiting' /\ None # p
    BY <1>15 DEF Root!Replace
  <2>2. CASE op'.pc = "rollback"
    <3>1. StartsRollBack /\ op'.kind = "replace" /\ op'.then = "prepare" /\ op'.target = p /\ op'.answer = "none"
      BY <1>15, <2>2, CallStarts
    <3> QED BY <2>1, <2>2, <3>1, RollingBack DEF CallInv
  <2>3. CASE op'.pc # "rollback"
    <3>1. /\ pending # None => pending.state = "prepared" /\ inst[pending.inst].provider = p
          /\ UNCHANGED <<inst, pending>> /\ op'.pc = "prepare"
          /\ op'.kind = "replace" /\ op'.target = p /\ op'.answer = "none"
      BY <1>15, <2>3, CallStarts
    <3> QED BY <2>1, <3>1 DEF CallInv, CandidateReady
  <2> QED BY <2>2, <2>3
<1>16. CASE Root!ExitFails
  BY <1>16 DEF Root!ExitFails, Root!Answer, Root!Idle, Root!root, Root!Users, Root!Whole, Root!Accepting, Accepting
<1>17. CASE Root!Close
  <2>1. op.pc = "idle" /\ ~ waiting'
    BY <1>17 DEF Root!Close
  <2>2. CASE op'.pc = "rollback"
    <3>1. StartsRollBack /\ op'.kind = "close" /\ op'.then = "stop" /\ op'.answer = "none"
      BY <1>17, <2>2, CallStarts
    <3> QED BY <2>1, <2>2, <3>1, RollingBack DEF CallInv
  <2>3. CASE op'.pc = "stop"
    <3>1. pending' = None /\ op'.kind = "close" /\ op'.answer = "none"
      BY <1>17, <2>3, CallStarts
    <3> QED BY <2>1, <2>3, <3>1 DEF CallInv
  <2>4. CASE op'.pc = "idle"
    <3>1. op'.kind = "none"
      BY <1>17, <2>4, CallStarts
    <3> QED BY <2>1, <2>4, <3>1 DEF CallInv
  <2>5. op'.pc \in {"rollback", "stop", "idle"}
    BY <1>17, CallStarts
  <2> QED BY <2>2, <2>3, <2>4, <2>5
<1>18. CASE Root!Cancel
  BY <1>18 DEF Root!Cancel, Root!Answer, Root!Idle, Root!root, Root!Users, Root!Whole, Root!Accepting, Accepting
<1>19. ASSUME NEW c \in Consumers, Root!Fetch(c) PROVE CallInv'
  BY <1>19 DEF Root!Fetch, Root!Consumer, Root!root, Root!Users, Root!Whole, Root!Accepting, Accepting
<1>20. ASSUME NEW c \in Consumers, Root!Reserve(c) PROVE CallInv'
  BY <1>20 DEF Root!Reserve, Root!Consumer, Root!root, Root!Users, Root!Whole, Root!Accepting, Accepting
<1>21. ASSUME NEW c \in Consumers, Root!Start(c) PROVE CallInv'
  BY <1>21 DEF Root!Start, Root!Consumer, Root!root, Root!Users, Root!Whole, Root!Accepting, Accepting
<1>22. ASSUME NEW c \in Consumers, Root!Release(c) PROVE CallInv'
  <2>1. /\ con' = [con EXCEPT ![c] = [st |-> "idle", inst |-> None]]
        /\ waiting' = (waiting /\ ~ (Root!Users(con[c].inst) = {c} /\ ~ inst[con[c].inst].accepting))
        /\ UNCHANGED <<inst, generation, pending, op>>
    BY <1>22 DEF Root!Release, Root!Consumer, Root!root
  <2>2. Root!Users(generation)' = Root!Users(generation) \ {c}
    BY <2>1 DEF Root!Users
  <2>3. op.pc = "quiesce" /\ ~ waiting' => Root!Users(generation)' = {}
    <3>1. CASE ~ waiting
      BY <2>2, <3>1
    <3>2. CASE waiting
      <4> SUFFICES ASSUME ~ waiting' PROVE Root!Users(generation)' = {}
        OBVIOUS
      <4>1. Root!Users(con[c].inst) = {c} /\ ~ inst[con[c].inst].accepting
        BY <2>1, <3>2
      <4>2. CASE con[c].inst = generation
        BY <2>2, <4>1, <4>2
      <4>3. CASE con[c].inst # generation
        BY <1>22, <4>3 DEF Root!Release, RootIInv, ConsumersInv
      <4> QED BY <4>2, <4>3
    <3> QED BY <3>1, <3>2
  <2> QED BY <2>1, <2>3 DEF CallInv, Root!Whole
<1>23. CASE UNCHANGED Root!vars
  BY <1>23 DEF Root!vars, Root!root, Root!Users, Root!Whole, Root!Accepting, Accepting
<1> QED BY <1>1, <1>2, <1>3, <1>4, <1>5, <1>6, <1>7, <1>8, <1>9, <1>10, <1>11, <1>12,
           <1>13, <1>14, <1>15, <1>16, <1>17, <1>18, <1>19, <1>20, <1>21, <1>22, <1>23
           DEF Root!Next, Root!Call

\* Every step keeps what the instances that are led to are.
LEMMA LeadsStep ==
  ASSUME RootIInv, RootTypes', CallInv', [Root!Next]_(Root!vars)
  PROVE  LeadsInv'
<1>a. /\ None \notin Nat /\ None \notin Providers /\ Len(inst) \in Nat
      /\ RootTypes /\ CallInv /\ LeadsInv /\ ConsumersInv /\ ActivatedInv /\ OwnedInv
  BY NoneOfTheRoot DEF RootTypes, RootIInv
<1> USE <1>a DEF RootTypes, CallInv, CandidateReady, Only, Undone, StartsRollBack, LeadsInv
<1>1. CASE Root!StopAnswers
  <2> DEFINE v == Root!Victim
  <2>1. /\ Only(v) /\ Undone(inst[v], inst'[v])
        /\ slot' = IF Root!Registration \in Entries(inst[v].act) THEN None ELSE slot
    BY <1>1, StopAnswersDoes
  <2>2. UNCHANGED <<generation, provider, transition, failure, pending, mounted, op, con>>
    BY <1>1 DEF Root!StopAnswers
  <2>3. \/ op.pc = "rollback" /\ v = pending.inst /\ pending # None /\ pending.state = "rolling_back"
        \/ op.pc = "dispose" /\ v = generation /\ generation # None
           /\ ~ inst[v].accepting /\ ~ Root!Whole(v)
    BY <1>1 DEF Root!StopAnswers, Root!Victim, CallInv
  <2> HIDE DEF v
  <2>4. CASE v = pending.inst /\ pending # None /\ pending.state = "rolling_back"
    <3>1. Root!Registration \in Entries(inst[v].act) => generation = None
      BY <2>1, <2>4 DEF ActivatedInv, Only, LeadsInv
    <3>2. generation # None => slot' = slot /\ inst'[generation] = inst[generation]
      BY <2>1, <2>4, <3>1
    <3> QED BY <2>1, <2>2, <2>4, <3>2 DEF LeadsInv, Root!Whole
  <2>5. CASE v = generation /\ generation # None /\ ~ inst[v].accepting /\ ~ Root!Whole(v)
    <3>1. mounted = None /\ slot' = None /\ (transition \/ failure)
      BY <2>1, <2>5
    <3> QED BY <2>1, <2>2, <2>5, <3>1 DEF Root!Whole
  <2> QED BY <2>3, <2>4, <2>5
<1>2. CASE Root!RollBackFails
  BY <1>2 DEF Root!RollBackFails, Root!Answer, Root!Idle, Root!root, Root!Whole, Root!Accepting, Accepting
<1>3. CASE Root!RollBackEnds
  BY <1>3 DEF Root!RollBackEnds, Root!Goto, Root!Answer, Root!Idle, Root!root, Root!Whole, Root!Accepting, Accepting
<1>4. CASE Root!Prepare
  <2>1. CASE UNCHANGED <<inst, pending>>
    <3>1. UNCHANGED <<generation, provider, transition, failure, mounted, slot>>
      BY <1>4 DEF Root!Prepare
    <3> QED BY <2>1, <3>1 DEF Root!Whole
  <2>2. CASE ~ UNCHANGED <<inst, pending>>
    <3>1. LET n == Len(inst) + 1 IN
            /\ pending = None /\ pending' = [inst |-> n, state |-> "prepared"]
            /\ Len(inst') = n
            /\ \A i \in 1 .. Len(inst) : inst'[i] = inst[i]
            /\ inst'[n].accepting /\ Accepting(inst'[n].prep) /\ Accepting(inst'[n].act)
            /\ Entries(inst'[n].act) = {}
      BY <1>4, <2>2, PrepareDoes
    <3>2. pending'.inst = Len(inst) + 1 /\ pending'.state = "prepared" /\ pending' # None
      <4>1. pending' \in [inst : 1 .. Len(inst) + 1, state : {"prepared", "rolling_back"}]
        BY <3>1
      <4> QED BY <3>1, <4>1, NoneOfTheRoot
    <3>3. UNCHANGED <<generation, provider, transition, failure, mounted, slot, con>>
      BY <1>4, Zenon DEF Root!Prepare
    <3> QED BY <3>1, <3>2, <3>3 DEF Root!Whole, Root!Accepting, Accepting
  <2> QED BY <2>1, <2>2
<1>5. CASE Root!Quiesce
  <2>1. /\ Only(generation) /\ generation # None /\ ~ inst'[generation].accepting
        /\ inst'[generation].prep = inst[generation].prep
        /\ inst'[generation].act = inst[generation].act
    BY <1>5, QuiesceDoes
  <2>2. /\ transition' = TRUE
        /\ UNCHANGED <<generation, provider, pending, mounted, slot>>
    BY <1>5 DEF Root!Quiesce
  <2>3. inst'[generation].provider = inst[generation].provider
    BY <1>5 DEF Root!Quiesce
  <2>4. pending # None => inst'[pending.inst] = inst[pending.inst]
    BY <2>1
  <2> QED BY <2>1, <2>2, <2>3, <2>4 DEF Root!Whole
<1>6. CASE Root!NothingToStop
  BY <1>6 DEF Root!NothingToStop, Root!Goto, Root!root, Root!Whole, Root!Accepting, Accepting
<1>7. CASE Root!Quiesced
  <2>1. /\ Only(generation) /\ Undone(inst[generation], inst'[generation])
        /\ Entries(inst'[generation].act) = Entries(inst[generation].act)
    BY <1>7, QuiescedDoes
  <2>2. /\ op.pc = "quiesce" /\ mounted' = None
        /\ UNCHANGED <<generation, provider, transition, failure, pending, slot>>
    BY <1>7 DEF Root!Quiesced
  <2>3. generation # None /\ ~ inst[generation].accepting
    BY <1>a, <2>2 DEF CallInv
  <2>4. pending # None => inst'[pending.inst] = inst[pending.inst]
    BY <1>a, <2>1 DEF LeadsInv, RootTypes
  <2>5. transition \/ failure
    BY <1>a, <2>3 DEF LeadsInv
  <2> QED BY <2>1, <2>2, <2>3, <2>4, <2>5 DEF Root!Whole
<1>8. CASE Root!DisposeFails
  BY <1>8 DEF Root!DisposeFails, Root!Answer, Root!Idle, Root!root, Root!Whole, Root!Accepting, Accepting
<1>9. CASE Root!DisposeEnds
  <2>1. op.pc = "dispose" /\ Root!Gone(inst[generation]) /\ generation' = None
        /\ UNCHANGED <<inst, provider, pending, mounted, slot>>
    BY <1>9 DEF Root!DisposeEnds
  <2>2. mounted = None /\ slot = None
    BY <2>1, GoneIsEmpty
  <2>3. pending # None => pending.inst # None
    BY DEF RootTypes
  <2> QED BY <2>1, <2>2, <2>3 DEF Root!Whole
<1>10. CASE Root!Activate
  BY <1>10, ActivateDoes DEF Root!Activate, Root!Idle, Root!root, Root!Whole, Root!Accepting, Accepting
<1>11. CASE Root!ActivateFails
  BY <1>11, ActivateFailsDoes DEF Root!ActivateFails, Root!root, Root!Whole, Root!Accepting, Accepting
<1>12. CASE Root!OthersFail
  BY <1>12 DEF Root!OthersFail, Root!Answer, Root!Idle, Root!root, Root!Whole, Root!Accepting, Accepting
<1>13. CASE Root!CloseEnds
  BY <1>13 DEF Root!CloseEnds, Root!Answer, Root!Idle, Root!root, Root!Whole, Root!Accepting, Accepting
<1>14. ASSUME NEW p \in Providers, Root!ReplaceUnchanged(p) PROVE LeadsInv'
  BY <1>14 DEF Root!ReplaceUnchanged, Root!Idle, Root!root, Root!Whole, Root!Accepting, Accepting
<1>15. ASSUME NEW p \in Providers, Root!Replace(p) PROVE LeadsInv'
  <2>1. UNCHANGED <<generation, provider, transition, failure, mounted, slot>>
    BY <1>15 DEF Root!Replace
  <2>2. CASE StartsRollBack
    <3>1. /\ pending' # None /\ pending'.state = "rolling_back" /\ pending'.inst = pending.inst
          /\ pending # None
      BY <1>a, <2>2, RollingBack DEF StartsRollBack
    <3>2. generation # None => inst'[generation] = inst[generation]
      BY <1>a, <2>2 DEF LeadsInv, RootTypes, StartsRollBack
    <3> QED BY <2>1, <3>1, <3>2 DEF LeadsInv, Root!Whole
  <2>3. CASE UNCHANGED <<inst, pending>>
    BY <2>1, <2>3 DEF Root!Whole
  <2> QED BY <1>15, <2>2, <2>3, CallStarts
<1>16. CASE Root!ExitFails
  BY <1>16 DEF Root!ExitFails, Root!Answer, Root!Idle, Root!root, Root!Whole, Root!Accepting, Accepting
<1>17. CASE Root!Close
  <2>1. UNCHANGED <<generation, provider, transition, failure, mounted, slot>>
    BY <1>17 DEF Root!Close
  <2>2. CASE StartsRollBack
    <3>1. /\ pending' # None /\ pending'.state = "rolling_back" /\ pending'.inst = pending.inst
          /\ pending # None
      BY <1>a, <2>2, RollingBack DEF StartsRollBack
    <3>2. generation # None => inst'[generation] = inst[generation]
      BY <1>a, <2>2 DEF LeadsInv, RootTypes, StartsRollBack
    <3> QED BY <2>1, <3>1, <3>2 DEF LeadsInv, Root!Whole
  <2>3. CASE UNCHANGED <<inst, pending>>
    BY <2>1, <2>3 DEF Root!Whole
  <2> QED BY <1>17, <2>2, <2>3, CallStarts
<1>18. CASE Root!Cancel
  BY <1>18 DEF Root!Cancel, Root!Answer, Root!Idle, Root!root, Root!Whole, Root!Accepting, Accepting
<1>19. ASSUME NEW c \in Consumers, Root!Fetch(c) PROVE LeadsInv'
  BY <1>19 DEF Root!Fetch, Root!Consumer, Root!root, Root!Whole, Root!Accepting, Accepting
<1>20. ASSUME NEW c \in Consumers, Root!Reserve(c) PROVE LeadsInv'
  BY <1>20 DEF Root!Reserve, Root!Consumer, Root!root, Root!Whole, Root!Accepting, Accepting
<1>21. ASSUME NEW c \in Consumers, Root!Start(c) PROVE LeadsInv'
  BY <1>21 DEF Root!Start, Root!Consumer, Root!root, Root!Whole, Root!Accepting, Accepting
<1>22. ASSUME NEW c \in Consumers, Root!Release(c) PROVE LeadsInv'
  BY <1>22 DEF Root!Release, Root!Consumer, Root!root, Root!Whole, Root!Accepting, Accepting
<1>23. CASE UNCHANGED Root!vars
  BY <1>23 DEF Root!vars, Root!root, Root!Whole, Root!Accepting, Accepting
<1> QED BY <1>1, <1>2, <1>3, <1>4, <1>5, <1>6, <1>7, <1>8, <1>9, <1>10, <1>11, <1>12,
           <1>13, <1>14, <1>15, <1>16, <1>17, <1>18, <1>19, <1>20, <1>21, <1>22, <1>23
           DEF Root!Next, Root!Call

\* No step takes an instance from under its consumers.
LEMMA ConsumersStep ==
  ASSUME RootIInv, RootTypes', CallInv', [Root!Next]_(Root!vars)
  PROVE  ConsumersInv'
<1>a. /\ None \notin Nat /\ None \notin Providers /\ Len(inst) \in Nat
      /\ RootTypes /\ CallInv /\ LeadsInv /\ ConsumersInv /\ ActivatedInv /\ OwnedInv
  BY NoneOfTheRoot DEF RootTypes, RootIInv
<1> USE <1>a DEF RootTypes, CallInv, CandidateReady, Only, Undone, StartsRollBack, LeadsInv, ConsumersInv
<1>1. CASE Root!StopAnswers
  <2> DEFINE v == Root!Victim
  <2>1. /\ Only(v) /\ Undone(inst[v], inst'[v])
        /\ slot' = IF Root!Registration \in Entries(inst[v].act) THEN None ELSE slot
    BY <1>1, StopAnswersDoes
  <2>2. UNCHANGED <<generation, provider, transition, failure, pending, mounted, op, con>>
    BY <1>1 DEF Root!StopAnswers
  <2>3. \/ op.pc = "rollback" /\ v = pending.inst /\ pending # None /\ pending.state = "rolling_back"
        \/ op.pc = "dispose" /\ v = generation /\ generation # None
           /\ ~ inst[v].accepting /\ ~ Root!Whole(v)
    BY <1>1 DEF Root!StopAnswers, Root!Victim, CallInv
  <2> HIDE DEF v
  <2>4. CASE v = pending.inst /\ pending # None
    BY <2>1, <2>2, <2>4 DEF Root!Whole
  <2>5. CASE v = generation /\ generation # None /\ ~ inst[v].accepting /\ ~ Root!Whole(v)
    <3>1. \A c \in Consumers : con[c].st # "idle" =>
            con[c].st = "fetched" /\ ~ inst[con[c].inst].accepting /\ con[c].inst \in 1 .. Len(inst)
      BY <2>5
    <3> QED BY <2>1, <2>2, <3>1
  <2> QED BY <2>3, <2>4, <2>5
<1>2. CASE Root!RollBackFails
  BY <1>2 DEF Root!RollBackFails, Root!Answer, Root!Idle, Root!root, Root!Whole, Root!Accepting, Accepting, Root!Users
<1>3. CASE Root!RollBackEnds
  BY <1>3 DEF Root!RollBackEnds, Root!Goto, Root!Answer, Root!Idle, Root!root, Root!Whole, Root!Accepting, Accepting, Root!Users
<1>4. CASE Root!Prepare
  BY <1>4, PrepareDoes DEF Root!Prepare, Root!Goto, Root!Answer, Root!Idle, Root!root, Root!Whole, Root!Accepting, Accepting, Root!Users
<1>5. CASE Root!Quiesce
  BY <1>5, QuiesceDoes DEF Root!Quiesce, Root!Goto, Root!root, Root!Whole, Root!Accepting, Accepting, Root!Users
<1>6. CASE Root!NothingToStop
  BY <1>6 DEF Root!NothingToStop, Root!Goto, Root!root, Root!Whole, Root!Accepting, Accepting, Root!Users
<1>7. CASE Root!Quiesced
  <2>1. /\ Only(generation) /\ Undone(inst[generation], inst'[generation])
    BY <1>7, QuiescedDoes
  <2>2. op.pc = "quiesce" /\ ~ waiting /\ UNCHANGED <<generation, pending, con>>
    BY <1>7 DEF Root!Quiesced
  <2>3. Root!Users(generation) = {} /\ generation # None /\ ~ inst[generation].accepting
    BY <1>a, <2>2 DEF CallInv
  <2>4. \A c \in Consumers : con[c].st # "idle" =>
          con[c].st = "fetched" /\ ~ inst[con[c].inst].accepting /\ con[c].inst \in 1 .. Len(inst)
    BY <2>3 DEF Root!Users
  <2> QED BY <2>1, <2>2, <2>4
<1>8. CASE Root!DisposeFails
  BY <1>8 DEF Root!DisposeFails, Root!Answer, Root!Idle, Root!root, Root!Whole, Root!Accepting, Accepting, Root!Users
<1>9. CASE Root!DisposeEnds
  BY <1>9 DEF Root!DisposeEnds, Root!Goto, Root!root, Root!Whole, Root!Accepting, Accepting, Root!Users
<1>10. CASE Root!Activate
  BY <1>10, ActivateDoes DEF Root!Activate, Root!Idle, Root!root, Root!Whole, Root!Accepting, Accepting, Root!Users
<1>11. CASE Root!ActivateFails
  BY <1>11, ActivateFailsDoes DEF Root!ActivateFails, Root!root, Root!Whole, Root!Accepting, Accepting, Root!Users
<1>12. CASE Root!OthersFail
  BY <1>12 DEF Root!OthersFail, Root!Answer, Root!Idle, Root!root, Root!Whole, Root!Accepting, Accepting, Root!Users
<1>13. CASE Root!CloseEnds
  BY <1>13 DEF Root!CloseEnds, Root!Answer, Root!Idle, Root!root, Root!Whole, Root!Accepting, Accepting, Root!Users
<1>14. ASSUME NEW p \in Providers, Root!ReplaceUnchanged(p) PROVE ConsumersInv'
  BY <1>14 DEF Root!ReplaceUnchanged, Root!Idle, Root!root, Root!Whole, Root!Accepting, Accepting, Root!Users
<1>15. ASSUME NEW p \in Providers, Root!Replace(p) PROVE ConsumersInv'
  <2>1. UNCHANGED <<generation, con>>
    BY <1>15 DEF Root!Replace
  <2>2. CASE StartsRollBack
    BY <2>1, <2>2, RollingBack DEF Root!Whole
  <2>3. CASE UNCHANGED <<inst, pending>>
    BY <2>1, <2>3 DEF Root!Whole
  <2> QED BY <1>15, <2>2, <2>3, CallStarts
<1>16. CASE Root!ExitFails
  BY <1>16 DEF Root!ExitFails, Root!Answer, Root!Idle, Root!root, Root!Whole, Root!Accepting, Accepting, Root!Users
<1>17. CASE Root!Close
  <2>1. UNCHANGED <<generation, con>>
    BY <1>17 DEF Root!Close
  <2>2. CASE StartsRollBack
    BY <2>1, <2>2, RollingBack DEF Root!Whole
  <2>3. CASE UNCHANGED <<inst, pending>>
    BY <2>1, <2>3 DEF Root!Whole
  <2> QED BY <1>17, <2>2, <2>3, CallStarts
<1>18. CASE Root!Cancel
  BY <1>18 DEF Root!Cancel, Root!Answer, Root!Idle, Root!root, Root!Whole, Root!Accepting, Accepting, Root!Users
<1>19. ASSUME NEW c \in Consumers, Root!Fetch(c) PROVE ConsumersInv'
  BY <1>19 DEF Root!Fetch, Root!Consumer, Root!root, Root!Whole, Root!Accepting, Accepting, Root!Users
<1>20. ASSUME NEW c \in Consumers, Root!Reserve(c) PROVE ConsumersInv'
  BY <1>20 DEF Root!Reserve, Root!Consumer, Root!root, Root!Whole, Root!Accepting, Accepting, Root!Users
<1>21. ASSUME NEW c \in Consumers, Root!Start(c) PROVE ConsumersInv'
  BY <1>21 DEF Root!Start, Root!Consumer, Root!root, Root!Whole, Root!Accepting, Accepting, Root!Users
<1>22. ASSUME NEW c \in Consumers, Root!Release(c) PROVE ConsumersInv'
  BY <1>22 DEF Root!Release, Root!Consumer, Root!root, Root!Whole, Root!Accepting, Accepting, Root!Users
<1>23. CASE UNCHANGED Root!vars
  BY <1>23 DEF Root!vars, Root!root, Root!Whole, Root!Accepting, Accepting, Root!Users
<1> QED BY <1>1, <1>2, <1>3, <1>4, <1>5, <1>6, <1>7, <1>8, <1>9, <1>10, <1>11, <1>12,
           <1>13, <1>14, <1>15, <1>16, <1>17, <1>18, <1>19, <1>20, <1>21, <1>22, <1>23
           DEF Root!Next, Root!Call

\* No step activates a second instance.
LEMMA ActivatedStep ==
  ASSUME RootIInv, RootTypes', CallInv', [Root!Next]_(Root!vars)
  PROVE  ActivatedInv'
<1>a. /\ RootTypes /\ CallInv /\ LeadsInv
  BY DEF RootIInv
<1>b. /\ None \notin Nat /\ Len(inst) \in Nat /\ generation \in 1 .. Len(inst) \cup {None}
      /\ pending # None => pending.inst \in 1 .. Len(inst)
  BY <1>a, NoneOfTheRoot DEF RootTypes
<1>c. pending # None => pending.inst # generation
  BY <1>a DEF LeadsInv
<1>d. /\ op.pc = "activate" => generation = None /\ pending # None /\ pending.state = "prepared"
      /\ op.pc = "rollback" => pending # None /\ pending.state = "rolling_back"
      /\ op.pc \in {"quiesce", "dispose"} => generation # None
      /\ op.pc = "others" => generation = None /\ pending = None
  BY <1>a DEF CallInv, CandidateReady
<1>e. ActivatedInv /\ OwnedInv
  BY DEF RootIInv
<1> USE <1>a, <1>b, <1>c, <1>d, <1>e DEF Only, Undone, StartsRollBack, ActivatedInv
<1>1. CASE Root!StopAnswers
  <2> DEFINE v == Root!Victim
  <2>1. /\ Only(v) /\ Undone(inst[v], inst'[v])
        /\ slot' = IF Root!Registration \in Entries(inst[v].act) THEN None ELSE slot
    BY <1>1, StopAnswersDoes
  <2>2. UNCHANGED <<generation, provider, transition, failure, pending, mounted, op, con>>
    BY <1>1 DEF Root!StopAnswers
  <2>3. \/ op.pc = "rollback" /\ v = pending.inst /\ pending # None /\ pending.state = "rolling_back"
        \/ op.pc = "dispose" /\ v = generation /\ generation # None
           /\ ~ inst[v].accepting /\ ~ Root!Whole(v)
    BY <1>1 DEF Root!StopAnswers, Root!Victim, CallInv
  <2> HIDE DEF v
  <2> QED BY <2>1, <2>2, <2>3
<1>2. CASE Root!RollBackFails
  BY <1>2 DEF Root!RollBackFails, Root!Answer, Root!Idle, Root!root
<1>3. CASE Root!RollBackEnds
  <2>1. op.pc = "rollback" /\ Root!Gone(inst[pending.inst]) /\ pending' = None
        /\ UNCHANGED <<inst, generation>>
    BY <1>3 DEF Root!RollBackEnds
  <2>2. Entries(inst[pending.inst].act) = {} /\ Entries(inst[pending.inst].prep) = {}
    BY <2>1, GoneIsEmpty
  <2> QED BY <2>1, <2>2
<1>4. CASE Root!Prepare
  <2>1. CASE UNCHANGED <<inst, pending>>
    <3>1. UNCHANGED generation
      BY <1>4 DEF Root!Prepare
    <3> QED BY <2>1, <3>1
  <2>2. CASE ~ UNCHANGED <<inst, pending>>
    <3>1. LET n == Len(inst) + 1 IN
            /\ pending = None /\ pending' = [inst |-> n, state |-> "prepared"]
            /\ Len(inst') = n
            /\ \A i \in 1 .. Len(inst) : inst'[i] = inst[i]
            /\ inst'[n].accepting /\ Accepting(inst'[n].prep) /\ Accepting(inst'[n].act)
            /\ Entries(inst'[n].act) = {}
      BY <1>4, <2>2, PrepareDoes
    <3>2. pending'.inst = Len(inst) + 1 /\ pending'.state = "prepared" /\ pending' # None
      <4>1. pending' \in [inst : 1 .. Len(inst) + 1, state : {"prepared", "rolling_back"}]
        BY <3>1
      <4> QED BY <3>1, <4>1, NoneOfTheRoot
    <3>3. UNCHANGED <<generation, provider, transition, failure, mounted, slot, con>>
      BY <1>4, Zenon DEF Root!Prepare
    <3> SUFFICES ASSUME NEW i \in 1 .. Len(inst'), Entries(inst'[i].act) # {}
               PROVE  i = generation' \/ (/\ generation' = None /\ pending' # None
                                            /\ pending'.inst = i /\ pending'.state = "rolling_back")
      BY DEF ActivatedInv
    <3>4. i \in 1 .. Len(inst) /\ inst'[i] = inst[i]
      BY <3>1
    <3> QED BY <3>1, <3>3, <3>4
  <2> QED BY <2>1, <2>2
<1>5. CASE Root!Quiesce
  BY <1>5, QuiesceDoes DEF Root!Quiesce, Root!Goto, Root!root
<1>6. CASE Root!NothingToStop
  BY <1>6 DEF Root!NothingToStop, Root!Goto, Root!root
<1>7. CASE Root!Quiesced
  <2>1. /\ Only(generation) /\ Undone(inst[generation], inst'[generation])
        /\ UNCHANGED <<generation, pending>>
    BY <1>7, QuiescedDoes DEF Root!Quiesced
  <2> QED BY <2>1
<1>8. CASE Root!DisposeFails
  BY <1>8 DEF Root!DisposeFails, Root!Answer, Root!Idle, Root!root
<1>9. CASE Root!DisposeEnds
  <2>1. op.pc = "dispose" /\ Root!Gone(inst[generation]) /\ generation' = None
        /\ UNCHANGED <<inst, pending>>
    BY <1>9 DEF Root!DisposeEnds
  <2>2. Entries(inst[generation].act) = {} /\ Entries(inst[generation].prep) = {}
    BY <2>1, GoneIsEmpty
  <2> QED BY <2>1, <2>2
<1>10. CASE Root!Activate
  <2>1. Only(pending.inst) /\ pending # None
    BY <1>10, ActivateDoes
  <2>2. /\ op.pc = "activate" /\ generation' = pending.inst
    BY <1>10 DEF Root!Activate
  <2>3. generation = None /\ pending.state = "prepared"
    BY <1>d, <2>2
  <2> SUFFICES ASSUME NEW i \in 1 .. Len(inst'), Entries(inst'[i].act) # {}
               PROVE  i = generation' \/ (/\ generation' = None /\ pending' # None
                                            /\ pending'.inst = i /\ pending'.state = "rolling_back")
    BY DEF ActivatedInv
  <2>4. i \in 1 .. Len(inst) /\ (i # pending.inst => inst'[i] = inst[i]) /\ i # None
    BY <2>1
  <2>5. i = pending.inst
    BY <2>2, <2>3, <2>4
  <2> QED BY <2>2, <2>5
<1>11. CASE Root!ActivateFails
  <2>1. Only(pending.inst) /\ pending # None
    BY <1>11, ActivateFailsDoes
  <2>2. /\ pending' = [pending EXCEPT !.state = "rolling_back"]
        /\ UNCHANGED generation /\ op.pc = "activate"
    BY <1>11 DEF Root!ActivateFails
  <2>3. generation = None /\ pending.state = "prepared"
    BY <1>d, <2>2
  <2>4. pending' # None /\ pending'.state = "rolling_back" /\ pending'.inst = pending.inst
    <3>1. pending'.state = "rolling_back" /\ pending'.inst = pending.inst
      BY <1>a, <2>1, <2>2 DEF RootTypes
    <3>2. pending' \in [inst : 1 .. Len(inst), state : {"prepared", "rolling_back"}]
      BY <1>a, <2>1, <2>2 DEF RootTypes
    <3>3. None \notin [inst : 1 .. Len(inst), state : {"prepared", "rolling_back"}]
      BY <1>a, NoneOfTheRoot
    <3> QED BY <3>1, <3>2, <3>3, Zenon
  <2> QED BY <2>1, <2>2, <2>3, <2>4
<1>12. CASE Root!OthersFail
  BY <1>12 DEF Root!OthersFail, Root!Answer, Root!Idle, Root!root
<1>13. CASE Root!CloseEnds
  BY <1>13 DEF Root!CloseEnds, Root!Answer, Root!Idle, Root!root
<1>14. ASSUME NEW p \in Providers, Root!ReplaceUnchanged(p) PROVE ActivatedInv'
  BY <1>14 DEF Root!ReplaceUnchanged, Root!Idle, Root!root
<1>15. ASSUME NEW p \in Providers, Root!Replace(p) PROVE ActivatedInv'
  <2>1. UNCHANGED generation
    BY <1>15 DEF Root!Replace
  <2>2. CASE StartsRollBack
    BY <2>1, <2>2, RollingBack
  <2>3. CASE UNCHANGED <<inst, pending>>
    BY <2>1, <2>3
  <2> QED BY <1>15, <2>2, <2>3, CallStarts
<1>16. CASE Root!ExitFails
  BY <1>16 DEF Root!ExitFails, Root!Answer, Root!Idle, Root!root
<1>17. CASE Root!Close
  <2>1. UNCHANGED generation
    BY <1>17 DEF Root!Close
  <2>2. CASE StartsRollBack
    BY <2>1, <2>2, RollingBack
  <2>3. CASE UNCHANGED <<inst, pending>>
    BY <2>1, <2>3
  <2> QED BY <1>17, <2>2, <2>3, CallStarts
<1>18. CASE Root!Cancel
  BY <1>18 DEF Root!Cancel, Root!Answer, Root!Idle, Root!root
<1>19. ASSUME NEW c \in Consumers, Root!Fetch(c) PROVE ActivatedInv'
  BY <1>19 DEF Root!Fetch, Root!Consumer, Root!root
<1>20. ASSUME NEW c \in Consumers, Root!Reserve(c) PROVE ActivatedInv'
  BY <1>20 DEF Root!Reserve, Root!Consumer, Root!root
<1>21. ASSUME NEW c \in Consumers, Root!Start(c) PROVE ActivatedInv'
  BY <1>21 DEF Root!Start, Root!Consumer, Root!root
<1>22. ASSUME NEW c \in Consumers, Root!Release(c) PROVE ActivatedInv'
  BY <1>22 DEF Root!Release, Root!Consumer, Root!root
<1>23. CASE UNCHANGED Root!vars
  BY <1>23 DEF Root!vars, Root!root
<1> QED BY <1>1, <1>2, <1>3, <1>4, <1>5, <1>6, <1>7, <1>8, <1>9, <1>10, <1>11, <1>12,
           <1>13, <1>14, <1>15, <1>16, <1>17, <1>18, <1>19, <1>20, <1>21, <1>22, <1>23
           DEF Root!Next, Root!Call

\* No step gives up an instance with effects in force.
LEMMA OwnedStep ==
  ASSUME RootIInv, RootTypes', CallInv', [Root!Next]_(Root!vars)
  PROVE  OwnedInv'
<1>a. /\ RootTypes /\ CallInv /\ LeadsInv
  BY DEF RootIInv
<1>b. /\ None \notin Nat /\ Len(inst) \in Nat /\ generation \in 1 .. Len(inst) \cup {None}
      /\ pending # None => pending.inst \in 1 .. Len(inst)
  BY <1>a, NoneOfTheRoot DEF RootTypes
<1>c. pending # None => pending.inst # generation
  BY <1>a DEF LeadsInv
<1>d. /\ op.pc = "activate" => generation = None /\ pending # None /\ pending.state = "prepared"
      /\ op.pc = "rollback" => pending # None /\ pending.state = "rolling_back"
      /\ op.pc \in {"quiesce", "dispose"} => generation # None
      /\ op.pc = "others" => generation = None /\ pending = None
  BY <1>a DEF CallInv, CandidateReady
<1>e. ActivatedInv /\ OwnedInv
  BY DEF RootIInv
<1> USE <1>a, <1>b, <1>c, <1>d, <1>e DEF Only, Undone, StartsRollBack, OwnedInv
<1>1. CASE Root!StopAnswers
  <2> DEFINE v == Root!Victim
  <2>1. /\ Only(v) /\ Undone(inst[v], inst'[v])
        /\ slot' = IF Root!Registration \in Entries(inst[v].act) THEN None ELSE slot
    BY <1>1, StopAnswersDoes
  <2>2. UNCHANGED <<generation, provider, transition, failure, pending, mounted, op, con>>
    BY <1>1 DEF Root!StopAnswers
  <2>3. \/ op.pc = "rollback" /\ v = pending.inst /\ pending # None /\ pending.state = "rolling_back"
        \/ op.pc = "dispose" /\ v = generation /\ generation # None
           /\ ~ inst[v].accepting /\ ~ Root!Whole(v)
    BY <1>1 DEF Root!StopAnswers, Root!Victim, CallInv
  <2> HIDE DEF v
  <2> QED BY <2>1, <2>2, <2>3
<1>2. CASE Root!RollBackFails
  BY <1>2 DEF Root!RollBackFails, Root!Answer, Root!Idle, Root!root
<1>3. CASE Root!RollBackEnds
  <2>1. op.pc = "rollback" /\ Root!Gone(inst[pending.inst]) /\ pending' = None
        /\ UNCHANGED <<inst, generation>>
    BY <1>3 DEF Root!RollBackEnds
  <2>2. Entries(inst[pending.inst].act) = {} /\ Entries(inst[pending.inst].prep) = {}
    BY <2>1, GoneIsEmpty
  <2> QED BY <2>1, <2>2
<1>4. CASE Root!Prepare
  <2>1. CASE UNCHANGED <<inst, pending>>
    <3>1. UNCHANGED generation
      BY <1>4 DEF Root!Prepare
    <3> QED BY <2>1, <3>1
  <2>2. CASE ~ UNCHANGED <<inst, pending>>
    <3>1. LET n == Len(inst) + 1 IN
            /\ pending = None /\ pending' = [inst |-> n, state |-> "prepared"]
            /\ Len(inst') = n
            /\ \A i \in 1 .. Len(inst) : inst'[i] = inst[i]
            /\ inst'[n].accepting /\ Accepting(inst'[n].prep) /\ Accepting(inst'[n].act)
            /\ Entries(inst'[n].act) = {}
      BY <1>4, <2>2, PrepareDoes
    <3>2. pending'.inst = Len(inst) + 1 /\ pending'.state = "prepared" /\ pending' # None
      <4>1. pending' \in [inst : 1 .. Len(inst) + 1, state : {"prepared", "rolling_back"}]
        BY <3>1
      <4> QED BY <3>1, <4>1, NoneOfTheRoot
    <3>3. UNCHANGED <<generation, provider, transition, failure, mounted, slot, con>>
      BY <1>4, Zenon DEF Root!Prepare
    <3> SUFFICES ASSUME NEW i \in 1 .. Len(inst'), Entries(inst'[i].act) # {} \/ Entries(inst'[i].prep) # {}
               PROVE  i = generation' \/ (pending' # None /\ pending'.inst = i)
      BY DEF OwnedInv
    <3>4. CASE i \in 1 .. Len(inst)
      BY <3>1, <3>3, <3>4
    <3>5. CASE i \notin 1 .. Len(inst)
      <4>1. i = Len(inst) + 1
        BY <3>1, <3>5
      <4> QED BY <3>2, <4>1
    <3> QED BY <3>4, <3>5
  <2> QED BY <2>1, <2>2
<1>5. CASE Root!Quiesce
  BY <1>5, QuiesceDoes DEF Root!Quiesce, Root!Goto, Root!root
<1>6. CASE Root!NothingToStop
  BY <1>6 DEF Root!NothingToStop, Root!Goto, Root!root
<1>7. CASE Root!Quiesced
  <2>1. /\ Only(generation) /\ Undone(inst[generation], inst'[generation])
        /\ UNCHANGED <<generation, pending>>
    BY <1>7, QuiescedDoes DEF Root!Quiesced
  <2> QED BY <2>1
<1>8. CASE Root!DisposeFails
  BY <1>8 DEF Root!DisposeFails, Root!Answer, Root!Idle, Root!root
<1>9. CASE Root!DisposeEnds
  <2>1. op.pc = "dispose" /\ Root!Gone(inst[generation]) /\ generation' = None
        /\ UNCHANGED <<inst, pending>>
    BY <1>9 DEF Root!DisposeEnds
  <2>2. Entries(inst[generation].act) = {} /\ Entries(inst[generation].prep) = {}
    BY <2>1, GoneIsEmpty
  <2> QED BY <2>1, <2>2
<1>10. CASE Root!Activate
  <2>1. Only(pending.inst) /\ pending # None
    BY <1>10, ActivateDoes
  <2>2. /\ op.pc = "activate" /\ generation' = pending.inst
    BY <1>10 DEF Root!Activate
  <2>3. generation = None /\ pending.state = "prepared"
    BY <1>d, <2>2
  <2> SUFFICES ASSUME NEW i \in 1 .. Len(inst'), Entries(inst'[i].act) # {} \/ Entries(inst'[i].prep) # {}
               PROVE  i = generation' \/ (pending' # None /\ pending'.inst = i)
    BY DEF OwnedInv
  <2>4. i \in 1 .. Len(inst) /\ (i # pending.inst => inst'[i] = inst[i]) /\ i # None
    BY <2>1
  <2>5. i = pending.inst
    BY <2>2, <2>3, <2>4
  <2> QED BY <2>2, <2>5
<1>11. CASE Root!ActivateFails
  <2>1. Only(pending.inst) /\ pending # None
    BY <1>11, ActivateFailsDoes
  <2>2. /\ pending' = [pending EXCEPT !.state = "rolling_back"]
        /\ UNCHANGED generation /\ op.pc = "activate"
    BY <1>11 DEF Root!ActivateFails
  <2>3. generation = None /\ pending.state = "prepared"
    BY <1>d, <2>2
  <2>4. pending' # None /\ pending'.state = "rolling_back" /\ pending'.inst = pending.inst
    <3>1. pending'.state = "rolling_back" /\ pending'.inst = pending.inst
      BY <1>a, <2>1, <2>2 DEF RootTypes
    <3>2. pending' \in [inst : 1 .. Len(inst), state : {"prepared", "rolling_back"}]
      BY <1>a, <2>1, <2>2 DEF RootTypes
    <3>3. None \notin [inst : 1 .. Len(inst), state : {"prepared", "rolling_back"}]
      BY <1>a, NoneOfTheRoot
    <3> QED BY <3>1, <3>2, <3>3, Zenon
  <2> QED BY <2>1, <2>2, <2>3, <2>4
<1>12. CASE Root!OthersFail
  BY <1>12 DEF Root!OthersFail, Root!Answer, Root!Idle, Root!root
<1>13. CASE Root!CloseEnds
  BY <1>13 DEF Root!CloseEnds, Root!Answer, Root!Idle, Root!root
<1>14. ASSUME NEW p \in Providers, Root!ReplaceUnchanged(p) PROVE OwnedInv'
  BY <1>14 DEF Root!ReplaceUnchanged, Root!Idle, Root!root
<1>15. ASSUME NEW p \in Providers, Root!Replace(p) PROVE OwnedInv'
  <2>1. UNCHANGED generation
    BY <1>15 DEF Root!Replace
  <2>2. CASE StartsRollBack
    BY <2>1, <2>2, RollingBack
  <2>3. CASE UNCHANGED <<inst, pending>>
    BY <2>1, <2>3
  <2> QED BY <1>15, <2>2, <2>3, CallStarts
<1>16. CASE Root!ExitFails
  BY <1>16 DEF Root!ExitFails, Root!Answer, Root!Idle, Root!root
<1>17. CASE Root!Close
  <2>1. UNCHANGED generation
    BY <1>17 DEF Root!Close
  <2>2. CASE StartsRollBack
    BY <2>1, <2>2, RollingBack
  <2>3. CASE UNCHANGED <<inst, pending>>
    BY <2>1, <2>3
  <2> QED BY <1>17, <2>2, <2>3, CallStarts
<1>18. CASE Root!Cancel
  BY <1>18 DEF Root!Cancel, Root!Answer, Root!Idle, Root!root
<1>19. ASSUME NEW c \in Consumers, Root!Fetch(c) PROVE OwnedInv'
  BY <1>19 DEF Root!Fetch, Root!Consumer, Root!root
<1>20. ASSUME NEW c \in Consumers, Root!Reserve(c) PROVE OwnedInv'
  BY <1>20 DEF Root!Reserve, Root!Consumer, Root!root
<1>21. ASSUME NEW c \in Consumers, Root!Start(c) PROVE OwnedInv'
  BY <1>21 DEF Root!Start, Root!Consumer, Root!root
<1>22. ASSUME NEW c \in Consumers, Root!Release(c) PROVE OwnedInv'
  BY <1>22 DEF Root!Release, Root!Consumer, Root!root
<1>23. CASE UNCHANGED Root!vars
  BY <1>23 DEF Root!vars, Root!root
<1> QED BY <1>1, <1>2, <1>3, <1>4, <1>5, <1>6, <1>7, <1>8, <1>9, <1>10, <1>11, <1>12,
           <1>13, <1>14, <1>15, <1>16, <1>17, <1>18, <1>19, <1>20, <1>21, <1>22, <1>23
           DEF Root!Next, Root!Call
-----------------------------------------------------------------------------
(***************************************************************************)
(* The theorems.                                                           *)
(***************************************************************************)
\* The root starts with one active instance.
LEMMA RootInit ==
  ASSUME Root!Init
  PROVE  RootIInv
<1>1. PICK p \in Providers, kind \in {"sync", "async"} :
        /\ inst = <<[Root!Prepared(p, kind) EXCEPT
                       !.act = Root!Owning(Root!Owning(Root!NewScope, Root!Act), Root!Registration)]>>
        /\ provider = p
  BY DEF Root!Init
<1>2. /\ generation = 1 /\ mounted = 1 /\ slot = 1 /\ ~ transition /\ ~ failure /\ pending = None
      /\ ~ closed /\ ~ waiting /\ transition \in BOOLEAN /\ failure \in BOOLEAN
      /\ closed \in BOOLEAN /\ waiting \in BOOLEAN
      /\ op = [kind |-> "none", target |-> None, pc |-> "idle", then |-> "none", answer |-> "none"]
      /\ con = [c \in Consumers |-> [st |-> "idle", inst |-> None]]
  BY DEF Root!Init, Root!Idle
<1> DEFINE own == Root!Owning(Root!NewScope, Root!Act) a == Root!Owning(own, Root!Registration)
           r == Root!Prepared(p, kind) q == [r EXCEPT !.act = a]
<1>3. /\ InstanceOK(r) /\ r.provider = p /\ r.accepting /\ Accepting(r.prep)
  BY PreparedOK
<1>4. /\ a \in ScopesOf(ActEffects) /\ Accepting(a) /\ Root!Registration \in Entries(a)
      /\ \A x \in Prepareds : x.act = a => RegisteredLast(x)
  BY OwnScopes
<1> HIDE DEF r, a
<1>5. /\ q \in Prepareds /\ q.act = a /\ q.provider = p /\ q.accepting /\ q.prep = r.prep
  BY <1>3, <1>4 DEF InstanceOK, Prepareds
<1>6. inst = <<q>>
  BY <1>1 DEF r, a
<1> HIDE DEF q
<1>7. /\ inst \in Seq(Prepareds) /\ Len(inst) = 1 /\ inst[1] = q
  BY <1>5, <1>6
<1>8. RegisteredLast(q)
  BY <1>4, <1>5
<1>9. MaxInstances \in Nat \ {0} /\ None \notin Nat
  BY RootAssumption DEF Root!Parameters
<1>10. RootTypes
  BY <1>1, <1>2, <1>7, <1>8, <1>9 DEF RootTypes, Calls, Root!Steps
<1>11. CallInv
  BY <1>2 DEF CallInv
<1>12. LeadsInv
  BY <1>1, <1>2, <1>3, <1>4, <1>5, <1>7
     DEF LeadsInv, Root!Whole, Root!Accepting, Accepting
<1>13. ConsumersInv /\ ActivatedInv /\ OwnedInv
  BY <1>2, <1>7 DEF ConsumersInv, ActivatedInv, OwnedInv
<1> QED BY <1>10, <1>11, <1>12, <1>13 DEF RootIInv

LEMMA RootStep ==
  ASSUME RootIInv, [Root!Next]_(Root!vars)
  PROVE  RootIInv'
<1>1. RootTypes'
  BY RootTypesStep DEF RootIInv
<1>2. CallInv'
  BY <1>1, CallStep
<1> QED BY <1>1, <1>2, LeadsStep, ConsumersStep, ActivatedStep, OwnedStep DEF RootIInv

\* The composition root keeps its invariant, for any number of providers,
\* consumers and instances.
THEOREM RootInvariant == Root!Init /\ [][Root!Next]_(Root!vars) => []RootIInv
<1>1. RootIInv /\ [Root!Next]_(Root!vars) => RootIInv'
  BY RootStep
<1> QED BY RootInit, <1>1, PTL

\* A rebuilt snapshot reports each provider once, what serves as active, and
\* every instance with effects in force as one that owns something.
LEMMA SnapshotOfRoot ==
  ASSUME RootTypes, LeadsInv, OwnedInv
  PROVE  Root!SnapshotTrue
<1>1. /\ Root!Instances = 1 .. Len(inst) /\ None \notin Nat /\ None \notin Providers
      /\ \A i : Root!InForce(i) = Entries(inst[i].prep) \cup Entries(inst[i].act)
  BY NoneOfTheRoot, RootScopes DEF Root!Instances, Root!InForce
<1>2. ASSUME NEW p, NEW state, NEW owns
      PROVE  /\ Root!Component(p, state, owns).component = p
             /\ Root!Component(p, state, owns).state = state
             /\ Root!Component(p, state, owns).owns <=> state # "disposed" /\ owns
  BY DEF Root!Component
<1>3. Root!Primary.component = provider
  BY <1>2 DEF Root!Primary
<1>4. Root!Accepted(Root!Reported)
  BY <1>2, <1>3 DEF Root!Accepted, Root!Reported
<1>5. ASSUME NEW c \in Root!Reported, c.state = "active"
      PROVE  Root!Served(c.component)
  <2>1. c = Root!Primary
    BY <1>2, <1>5 DEF Root!Reported
  <2>2. generation # None /\ ~ transition /\ ~ failure
    BY <1>2, <1>5, <2>1 DEF Root!Primary, Root!StateOf
  <2>3. /\ mounted = generation /\ slot = generation /\ Root!Whole(generation)
        /\ inst[generation].provider = provider /\ inst[generation].accepting
    BY <2>2 DEF LeadsInv
  <2> QED BY <1>3, <2>1, <2>2, <2>3 DEF Root!Served
<1>6. generation # None => Root!Primary.owns
  <2> SUFFICES ASSUME generation # None
               PROVE  Root!Primary.owns
    OBVIOUS
  <2> DEFINE recorded == transition \/ failure
             state == Root!StateOf(recorded \/ Root!PendingIsPrimary,
                        generation # None /\ Root!Registration \in Entries(inst[generation].act))
             owns == IF generation # None THEN Root!Owns(generation, recorded)
                     ELSE Root!PendingIsPrimary /\ Root!Owns(pending.inst, pending.state = "rolling_back")
  <2>1. ~ recorded => Root!Registration \in Entries(inst[generation].act)
    BY DEF LeadsInv
  <2>2. state # "disposed"
    BY <2>1 DEF Root!StateOf
  <2>3. generation \in Root!Instances
    BY <1>1 DEF RootTypes
  <2>4. owns <=> Root!Owns(generation, recorded)
    BY Zenon
  <2>5. Root!Owns(generation, recorded)
    BY <1>1, <2>1 DEF Root!Owns
  <2>6. Root!Primary = Root!Component(provider, state, owns)
    BY RootScopes DEF Root!Primary
  <2> HIDE DEF state, owns
  <2> QED BY <1>2, <2>2, <2>4, <2>5, <2>6
<1>7. ASSUME NEW i \in Root!Instances, Root!InForce(i) # {}
      PROVE  \E c \in Root!Reported : c.component = inst[i].provider /\ c.owns
  <2>1. CASE generation # None /\ inst[i].provider = provider
    BY <1>3, <1>6, <2>1 DEF Root!Reported
  <2>2. CASE pending # None /\ pending.inst = i /\ inst[i].provider # provider
    <3> DEFINE c == Root!Component(inst[i].provider, "unsettled",
                                   Root!Owns(pending.inst, pending.state = "rolling_back"))
    <3>1. Root!Owns(pending.inst, pending.state = "rolling_back")
      BY <1>7, <2>2 DEF Root!Owns
    <3>2. c.component = inst[i].provider /\ c.owns
      BY <1>2, <3>1
    <3>3. c \in Root!Reported
      BY <2>2 DEF Root!Reported
    <3> QED BY <3>2, <3>3
  <2>3. CASE pending # None /\ pending.inst = i /\ inst[i].provider = provider /\ generation = None
    <3>1. Root!PendingIsPrimary /\ Root!Owns(pending.inst, pending.state = "rolling_back")
      BY <1>7, <2>3 DEF Root!PendingIsPrimary, Root!Owns
    <3>2. Root!Primary.owns
      BY <1>2, <2>3, <3>1 DEF Root!Primary, Root!StateOf
    <3> QED BY <1>3, <2>3, <3>2 DEF Root!Reported
  <2>4. i = generation => generation # None /\ inst[i].provider = provider
    BY <1>1 DEF LeadsInv
  <2>5. i = generation \/ (pending # None /\ pending.inst = i)
    BY <1>1, <1>7 DEF OwnedInv
  <2> QED BY <2>1, <2>2, <2>3, <2>4, <2>5
<1> QED BY <1>4, <1>5, <1>7 DEF Root!SnapshotTrue

\* What the runs check of the root's instances follows.
LEMMA RootOwnsInstances ==
  ASSUME RootIInv
  PROVE  Root!RootInv /\ Root!QuietDisposal
<1>1. /\ RootTypes /\ CallInv /\ LeadsInv /\ ConsumersInv /\ ActivatedInv /\ OwnedInv
      /\ Root!Instances = 1 .. Len(inst) /\ Len(inst) \in Nat /\ None \notin Nat
  BY NoneOfTheRoot DEF RootIInv, RootTypes, Root!Instances
<1>2. Root!TypeOK
  <2>1. /\ {generation, mounted, slot} \subseteq Root!Instances \cup {None}
        /\ pending = None \/ pending \in [inst : Root!Instances, state : {"prepared", "rolling_back"}]
        /\ op.pc \in Root!Steps /\ provider \in Providers /\ Len(inst) \in 1 .. MaxInstances
    BY <1>1 DEF RootTypes, Calls
  <2>2. \A i \in Root!Instances : inst[i].provider \in Providers /\ inst[i].accepting \in BOOLEAN
    <3>1. \A i \in 1 .. Len(inst) : inst[i] \in Prepareds
      BY <1>1 DEF RootTypes
    <3> QED BY <1>1, <3>1 DEF Prepareds
  <2>3. /\ op.pc = "rollback" => pending # None /\ pending.state = "rolling_back"
        /\ op.pc = "activate" => pending # None /\ generation = None /\ pending.state = "prepared"
        /\ op.pc \in {"quiesce", "dispose"} => generation # None /\ ~ inst[generation].accepting
        /\ waiting => op.pc = "quiesce"
    BY <1>1 DEF CallInv, CandidateReady
  <2>4. /\ op.pc = "activate" => Root!Whole(pending.inst)
        /\ slot # None => slot = generation
    BY <1>1, <2>3 DEF LeadsInv
  <2> QED BY <2>1, <2>2, <2>3, <2>4 DEF Root!TypeOK
<1>3. Root!OneActivated
  <2>1. \A i, j \in 1 .. Len(inst) : Entries(inst[i].act) # {} /\ Entries(inst[j].act) # {} => i = j
    <3> SUFFICES ASSUME NEW i \in 1 .. Len(inst), NEW j \in 1 .. Len(inst),
                        Entries(inst[i].act) # {}, Entries(inst[j].act) # {}
                 PROVE  i = j
      OBVIOUS
    <3>1. /\ i = generation \/ (generation = None /\ pending.inst = i)
          /\ j = generation \/ (generation = None /\ pending.inst = j)
      BY <1>1 DEF ActivatedInv
    <3>2. i # None /\ j # None
      BY <1>1
    <3> QED BY <3>1, <3>2, Zenon
  <2> QED BY <1>1, <2>1, RootScopes DEF Root!OneActivated
<1>4. Root!NoneLost
  <2>1. \A i : Root!InForce(i) = Entries(inst[i].prep) \cup Entries(inst[i].act)
    BY RootScopes DEF Root!InForce
  <2> QED BY <1>1, <2>1 DEF Root!NoneLost, OwnedInv
<1>5. Root!QuietDisposal
  BY <1>1 DEF Root!QuietDisposal, ConsumersInv
<1>6. Root!SnapshotTrue
  BY <1>1, SnapshotOfRoot
<1> QED BY <1>2, <1>3, <1>4, <1>5, <1>6 DEF Root!RootInv

LEMMA AnswerStep ==
  ASSUME RootIInv, [Root!Next]_(Root!vars), op' # op, op'.answer \in {"unchanged", "replaced"}
  PROVE  \E p \in Providers : p = op'.target /\ Root!Served(p)'
<1> DEFINE G == \E p \in Providers : p = op'.target /\ Root!Served(p)'
<1>a. RootTypes /\ CallInv /\ LeadsInv /\ RootTypes'
  BY RootTypesStep DEF RootIInv
<1>b. op.pc # "idle" => op.answer = "none"
  BY <1>a DEF CallInv
<1> USE <1>b DEF Calls
<1>1. CASE Root!StopAnswers
  BY <1>1 DEF Root!StopAnswers, Root!root, Root!RollBackPending
<1>2. CASE Root!RollBackFails
  BY <1>2 DEF Root!RollBackFails, Root!Answer, Root!Idle, Root!root, Root!RollBackPending
<1>3. CASE Root!RollBackEnds
  <2>1. op' = [op EXCEPT !.pc = op.then] \/ op'.answer = "error"
    BY <1>3 DEF Root!RollBackEnds, Root!Goto, Root!Answer, Root!Idle
  <2>2. op \in Calls /\ op.answer = "none"
    BY <1>3, <1>a DEF Root!RollBackEnds, RootTypes
  <2> QED BY <2>1, <2>2
<1>4. CASE Root!Prepare
  <2>1. op' = [op EXCEPT !.pc = "stop"] \/ op'.answer = "error"
    BY <1>4 DEF Root!Prepare, Root!Goto, Root!Answer, Root!Idle
  <2>2. op \in Calls /\ op.answer = "none"
    BY <1>4, <1>a DEF Root!Prepare, RootTypes
  <2> QED BY <2>1, <2>2
<1>5. CASE Root!Quiesce
  BY <1>5 DEF Root!Quiesce, Root!Goto, Root!root, Root!RollBackPending
<1>6. CASE Root!NothingToStop
  BY <1>6 DEF Root!NothingToStop, Root!Goto, Root!root, Root!RollBackPending
<1>7. CASE Root!Quiesced
  BY <1>7 DEF Root!Quiesced, Root!Goto, Root!root, Root!RollBackPending
<1>8. CASE Root!DisposeFails
  BY <1>8 DEF Root!DisposeFails, Root!Answer, Root!Idle, Root!root, Root!RollBackPending
<1>9. CASE Root!DisposeEnds
  BY <1>9 DEF Root!DisposeEnds, Root!Goto, Root!root, Root!RollBackPending
<1>10. CASE Root!Activate
  <2>1. /\ inst'[pending.inst].provider = inst[pending.inst].provider
        /\ inst'[pending.inst].accepting = inst[pending.inst].accepting
        /\ inst'[pending.inst].prep = inst[pending.inst].prep
        /\ Accepting(inst'[pending.inst].act)
    BY <1>10, <1>a, ActivateDoes
  <2>2. /\ generation' = pending.inst /\ slot' = pending.inst /\ mounted' = pending.inst
        /\ op' = [kind |-> "none", target |-> op.target, pc |-> "idle", then |-> "none",
                  answer |-> "replaced"]
        /\ op.pc = "activate"
    BY <1>10 DEF Root!Activate, Root!Idle
  <2>3. /\ op.target \in Providers /\ pending # None /\ pending.inst # None
        /\ inst[pending.inst].provider = op.target /\ inst[pending.inst].accepting
        /\ Root!Whole(pending.inst)
    BY <1>a, <2>2, NoneOfTheRoot DEF CallInv, CandidateReady, LeadsInv, RootTypes
  <2>4. Root!Served(op.target)'
    BY <2>1, <2>2, <2>3 DEF Root!Served, Root!Whole, Root!Accepting, Accepting
  <2> QED BY <2>2, <2>3, <2>4
<1>11. CASE Root!ActivateFails
  BY <1>11 DEF Root!ActivateFails, Root!root, Root!RollBackPending
<1>12. CASE Root!OthersFail
  BY <1>12 DEF Root!OthersFail, Root!Answer, Root!Idle, Root!root, Root!RollBackPending
<1>13. CASE Root!CloseEnds
  BY <1>13 DEF Root!CloseEnds, Root!Answer, Root!Idle, Root!root, Root!RollBackPending
<1>14. ASSUME NEW p \in Providers, Root!ReplaceUnchanged(p) PROVE G
  <2>1. /\ provider = p /\ generation # None /\ ~ transition /\ ~ failure
        /\ op' = [kind |-> "none", target |-> p, pc |-> "idle", then |-> "none", answer |-> "unchanged"]
        /\ UNCHANGED <<inst, generation, mounted, slot>>
    BY <1>14 DEF Root!ReplaceUnchanged, Root!Serving, Root!Idle, Root!root
  <2>2. /\ mounted = generation /\ slot = generation /\ inst[generation].provider = p
        /\ inst[generation].accepting /\ Root!Whole(generation)
    BY <1>a, <2>1 DEF LeadsInv
  <2> QED BY <2>1, <2>2 DEF Root!Served, Root!Whole
<1>15. ASSUME NEW p \in Providers, Root!Replace(p) PROVE G
  BY <1>15, <1>a, CallStarts
<1>16. CASE Root!ExitFails
  BY <1>16 DEF Root!ExitFails, Root!Answer, Root!Idle, Root!root, Root!RollBackPending
<1>17. CASE Root!Close
  BY <1>17, <1>a, CallStarts
<1>18. CASE Root!Cancel
  BY <1>18 DEF Root!Cancel, Root!Answer, Root!Idle, Root!root, Root!RollBackPending
<1>19. ASSUME NEW c \in Consumers, Root!Fetch(c) PROVE G
  BY <1>19 DEF Root!Fetch, Root!Consumer, Root!root, Root!RollBackPending
<1>20. ASSUME NEW c \in Consumers, Root!Reserve(c) PROVE G
  BY <1>20 DEF Root!Reserve, Root!Consumer, Root!root, Root!RollBackPending
<1>21. ASSUME NEW c \in Consumers, Root!Start(c) PROVE G
  BY <1>21 DEF Root!Start, Root!Consumer, Root!root, Root!RollBackPending
<1>22. ASSUME NEW c \in Consumers, Root!Release(c) PROVE G
  BY <1>22 DEF Root!Release, Root!Consumer, Root!root, Root!RollBackPending
<1>23. CASE UNCHANGED Root!vars
  BY <1>23 DEF Root!vars, Root!root, Root!RollBackPending
<1> QED BY <1>1, <1>2, <1>3, <1>4, <1>5, <1>6, <1>7, <1>8, <1>9, <1>10, <1>11, <1>12,
           <1>13, <1>14, <1>15, <1>16, <1>17, <1>18, <1>19, <1>20, <1>21, <1>22, <1>23
           DEF Root!Next, Root!Call

LEMMA CloseStep ==
  ASSUME RootIInv, [Root!Next]_(Root!vars), closed', ~ closed
  PROVE  /\ \A i \in Root!Instances : Root!InForce(i) = {}
         /\ mounted' = None /\ slot' = None
<1>1. Root!CloseEnds
  BY DEF Root!Next, Root!Call, Root!vars, Root!root, Root!StopAnswers, Root!RollBackFails,
         Root!RollBackEnds, Root!Prepare, Root!Quiesce, Root!NothingToStop, Root!Quiesced,
         Root!DisposeFails, Root!DisposeEnds, Root!Activate, Root!ActivateFails, Root!OthersFail,
         Root!ReplaceUnchanged, Root!Replace, Root!ExitFails, Root!Close, Root!Cancel,
         Root!Fetch, Root!Reserve, Root!Start, Root!Release
<1>2. generation = None /\ pending = None /\ mounted' = None /\ UNCHANGED slot
  BY <1>1 DEF Root!CloseEnds, RootIInv, CallInv
<1>3. slot = None
  BY <1>2 DEF RootIInv, LeadsInv
<1>4. \A i \in 1 .. Len(inst) : Entries(inst[i].act) = {} /\ Entries(inst[i].prep) = {}
  <2>1. \A i \in 1 .. Len(inst) : i # None
    BY NoneOfTheRoot DEF RootIInv, RootTypes
  <2>2. OwnedInv
    BY DEF RootIInv
  <2> QED BY <1>2, <2>1, <2>2 DEF OwnedInv
<1>5. \A i \in Root!Instances : Root!InForce(i) = Entries(inst[i].prep) \cup Entries(inst[i].act)
                               /\ i \in 1 .. Len(inst)
  BY RootScopes DEF Root!InForce, Root!Instances, RootIInv, RootTypes
<1> QED BY <1>2, <1>3, <1>4, <1>5

(***************************************************************************)
(* Both parts, as the runs compose them.                                   *)
(***************************************************************************)
BothInv == RecInv /\ RootIInv

LEMMA BothInvariant == MCSpec => []BothInv
<1>1. MCInit => BothInv
  BY RecInit, RootInit DEF MCInit, BothInv
<1>2. ASSUME BothInv, [MCNext]_<<part, vars, rootVars>>
      PROVE  BothInv'
  <2>1. [Next]_vars
    BY <1>2 DEF MCNext
  <2>2. [Root!Next]_(Root!vars)
    BY <1>2 DEF MCNext, rootVars, Root!vars, Root!root
  <2> QED BY <1>2, <2>1, <2>2, RecStep, RootStep DEF BothInv
<1> QED BY <1>1, <1>2, PTL DEF MCSpec

\* One thing is published and activated at a time, and whatever failed, was
\* cancelled or replaced, a mount or an instance still owns what is in force.
THEOREM MountsStayOwned == MCSpec => []MountsOwned
<1>1. BothInv => MountsOwned
  BY RootOwnsInstances DEF BothInv, RecInv, MountsOwned
<1> QED BY BothInvariant, <1>1, PTL

\* A provider is taken apart only when no admitted generation is left on it.
THEOREM NothingRunsOnRuins == MCSpec => []QuietDisposal
<1>1. BothInv => QuietDisposal
  BY RootOwnsInstances DEF BothInv, QuietDisposal
<1> QED BY BothInvariant, <1>1, PTL

\* "settled", "replaced" and "unchanged" are true when they are answered.
THEOREM AnswersAreTrue == MCSpec => AnswersHold
<1>1. ASSUME BothInv, [MCNext]_<<part, vars, rootVars>>
      PROVE  /\ [pc = "loop" /\ pc' = "idle" /\ status'.kind = "settled" =>
                   /\ status'.rev = target.rev /\ candidate = None
                   /\ IF target.desired = None THEN live = {}
                      ELSE /\ active.desired = target.desired
                           /\ Accepting(active.effects) /\ live = Entries(active.effects)]_vars
             /\ [op' # op /\ op'.answer \in {"unchanged", "replaced"} =>
                   \E p \in Providers : p = op'.target /\ Root!Served(p)']_(Root!vars)
  <2>1. [Next]_vars
    BY <1>1 DEF MCNext
  <2>2. [Root!Next]_(Root!vars)
    BY <1>1 DEF MCNext, rootVars, Root!vars, Root!root
  <2>3. [pc = "loop" /\ pc' = "idle" /\ status'.kind = "settled" =>
           /\ status'.rev = target.rev /\ candidate = None
           /\ IF target.desired = None THEN live = {}
              ELSE /\ active.desired = target.desired
                   /\ Accepting(active.effects) /\ live = Entries(active.effects)]_vars
    BY <1>1, <2>1, SettledStep DEF BothInv
  <2>4. [op' # op /\ op'.answer \in {"unchanged", "replaced"} =>
           \E p \in Providers : p = op'.target /\ Root!Served(p)']_(Root!vars)
    BY <1>1, <2>2, AnswerStep DEF BothInv
  <2> QED BY <2>3, <2>4
<1> QED BY BothInvariant, <1>1, PTL DEF MCSpec, AnswersHold, SettledExact, Root!AnswersTrue

\* A close that reports success leaves nothing in force and nothing mounted.
THEOREM ClosingLeavesNothing == MCSpec => ClosesClean
<1>1. ASSUME BothInv, [MCNext]_<<part, vars, rootVars>>
      PROVE  [closed' /\ ~ closed =>
                /\ \A i \in Root!Instances : Root!InForce(i) = {}
                /\ mounted' = None /\ slot' = None]_(Root!vars)
  <2>1. [Root!Next]_(Root!vars)
    BY <1>1 DEF MCNext, rootVars, Root!vars, Root!root
  <2> QED BY <1>1, <2>1, CloseStep DEF BothInv
<1> QED BY BothInvariant, <1>1, PTL DEF MCSpec, ClosesClean, Root!ClosesClean
===============================================================================
