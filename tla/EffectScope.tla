----------------------------- MODULE EffectScope -----------------------------
(***************************************************************************)
(* The reversible effects of one mount (runtime/effect.rs).  Effects are   *)
(* undone newest first; an asynchronous one is a barrier: what is older    *)
(* stays in force until its stop answers Ok.  The operators below are the  *)
(* pure part of the scope, for the modules that own one.                   *)
(*                                                                         *)
(* An effect is a record with a field kind, "sync" or "async"; a scope is  *)
(* [entries |-> a sequence of effects, oldest first, state |-> ...].       *)
(***************************************************************************)
EXTENDS Naturals, Sequences, FiniteSetsExt, SequenceTheorems, WellFoundedInduction, NaturalsInduction, TLAPS

NewScope == [entries |-> <<>>, state |-> "active"]

\* The scopes of effects out of S.
ScopesOf(S) == [entries : Seq(S), state : {"active", "disposing", "disposed"}]

Entries(scope) == {scope.entries[i] : i \in DOMAIN scope.entries}

\* own_sync and own_async assert that disposal has not begun.
Accepting(scope) == scope.state = "active"

Owning(scope, e) == [scope EXCEPT !.entries = Append(@, e)]

\* The position of the newest asynchronous owner, 0 if there is none.
Barrier(scope) ==
  Max({0} \cup {i \in DOMAIN scope.entries : scope.entries[i].kind = "async"})

\* The effects newer than the barrier, which are undone without waiting.
Undoable(scope) == {scope.entries[i] : i \in Barrier(scope) + 1 .. Len(scope.entries)}

\* quiesce_and_dispose until it awaits the newest asynchronous owner or ends.
Unwound(scope) ==
  [entries |-> SubSeq(scope.entries, 1, Barrier(scope)),
   state   |-> IF Barrier(scope) = 0 THEN "disposed" ELSE "disposing"]

Awaiting(scope) == scope.state = "disposing" /\ scope.entries # <<>>

Newest(scope) == scope.entries[Len(scope.entries)]

\* The owner at the barrier stopped: it is popped.
Popped(scope) == [scope EXCEPT !.entries = SubSeq(@, 1, Len(@) - 1)]

\* Fault: a drop undoes the synchronous effects behind a live owner too.
OwnersOnly(scope) == {e \in Entries(scope) : e.kind = "async"}

\* release_for_drop: the owner at the barrier and all before it stay in force
\* with nobody left to stop them.
Abandoned(scope) == Entries(Unwound(scope))
(***************************************************************************)
(* Scopes of effects.                                                      *)
(***************************************************************************)
\* t is what is left of s after its effects gone were undone, newest first.
CutTo(s, t, gone, k) ==
  /\ Len(t.entries) = k /\ \A i \in 1 .. k : t.entries[i] = s.entries[i]
  /\ t.state = IF k = 0 THEN "disposed" ELSE "disposing"
  /\ gone = {s.entries[i] : i \in k + 1 .. Len(s.entries)}

Cut(s, t, gone) == \E k \in 0 .. Len(s.entries) : CutTo(s, t, gone, k)

\* A set of numbers up to n has a largest one.
LEMMA MaxOfRange ==
  ASSUME NEW n \in Nat, NEW T, T \subseteq 0 .. n, T # {}
  PROVE  Max(T) \in T /\ \A y \in T : Max(T) >= y
<1> DEFINE U == {n - x : x \in T}
<1>1. U \subseteq Nat /\ U # {}
  <2>1. \A x \in T : n - x \in Nat
    OBVIOUS
  <2> QED BY <2>1
<1>2. PICK u \in U : \A y \in U : ~ (<<y, u>> \in OpToRel(<, Nat))
  <2> HIDE DEF U
  <2> QED BY <1>1, WFMin, NatLessThanWellFounded
<1>3. \A y \in U : u <= y
  <2> SUFFICES ASSUME NEW y \in U, y < u PROVE FALSE
    BY <1>1
  <2>1. <<y, u>> \in OpToRel(<, Nat)
    BY <1>1 DEF OpToRel
  <2> QED BY <2>1, <1>2
<1>4. PICK x \in T : u = n - x
  OBVIOUS
<1>5. \A y \in T : x >= y
  <2> TAKE y \in T
  <2>1. u <= n - y
    BY <1>3
  <2> QED BY <2>1, <1>4
<1> QED BY <1>5 DEF Max

\* The barrier of a scope is one of its positions, or 0.
LEMMA BarrierRange ==
  ASSUME NEW S, NEW s \in ScopesOf(S)
  PROVE  Barrier(s) \in 0 .. Len(s.entries)
<1> DEFINE T == {0} \cup {i \in DOMAIN s.entries : s.entries[i].kind = "async"}
<1>1. Len(s.entries) \in Nat /\ T \subseteq 0 .. Len(s.entries) /\ T # {}
  BY DEF ScopesOf
<1>2. Max(T) \in T
  <2> HIDE DEF T
  <2> QED BY <1>1, MaxOfRange
<1> QED BY <1>1, <1>2 DEF Barrier

\* A scope keeps its type when its newest owner is popped.
LEMMA PoppedType ==
  ASSUME NEW S, NEW s \in ScopesOf(S), s.entries # <<>>
  PROVE  /\ Popped(s) \in ScopesOf(S) /\ Len(Popped(s).entries) = Len(s.entries) - 1
         /\ \A i \in 1 .. Len(s.entries) - 1 : Popped(s).entries[i] = s.entries[i]
<1>1. /\ s.entries \in Seq(S) /\ Len(s.entries) \in Nat \ {0}
      /\ \A i \in 1 .. Len(s.entries) : s.entries[i] \in S
  BY DEF ScopesOf
<1>2. /\ SubSeq(s.entries, 1, Len(s.entries) - 1) \in Seq(S)
      /\ Len(SubSeq(s.entries, 1, Len(s.entries) - 1)) = Len(s.entries) - 1
      /\ \A i \in 1 .. Len(s.entries) - 1 :
           SubSeq(s.entries, 1, Len(s.entries) - 1)[i] = s.entries[i]
  BY <1>1, SubSeqProperties
<1> QED BY <1>2 DEF Popped, ScopesOf

\* Unwinding a scope cuts it at its barrier.
LEMMA UnwoundCut ==
  ASSUME NEW S, NEW s \in ScopesOf(S)
  PROVE  Unwound(s) \in ScopesOf(S) /\ CutTo(s, Unwound(s), Undoable(s), Barrier(s))
<1> DEFINE k == Barrier(s)
<1>1. /\ k \in 0 .. Len(s.entries) /\ Len(s.entries) \in Nat
      /\ \A i \in 1 .. k : s.entries[i] \in S
  BY BarrierRange DEF ScopesOf
<1>2. /\ SubSeq(s.entries, 1, k) \in Seq(S) /\ Len(SubSeq(s.entries, 1, k)) = k
      /\ \A i \in 1 .. k : SubSeq(s.entries, 1, k)[i] = s.entries[i]
  <2> HIDE DEF k
  <2> QED BY <1>1, SubSeqProperties
<1> QED BY <1>1, <1>2 DEF Unwound, Undoable, CutTo, ScopesOf

\* So does an answer of the owner at the barrier, one owner further.
LEMMA PoppedCut ==
  ASSUME NEW S, NEW s \in ScopesOf(S), s.entries # <<>>
  PROVE  /\ Unwound(Popped(s)) \in ScopesOf(S)
         /\ CutTo(s, Unwound(Popped(s)), {Newest(s)} \cup Undoable(Popped(s)), Barrier(Popped(s)))
<1> DEFINE p == Popped(s) k == Barrier(p) n == Len(s.entries)
<1>1. /\ p \in ScopesOf(S) /\ Len(p.entries) = n - 1
      /\ \A i \in 1 .. n - 1 : p.entries[i] = s.entries[i]
  BY PoppedType
<1>2. n \in Nat \ {0}
  BY DEF ScopesOf
<1>3. Unwound(p) \in ScopesOf(S) /\ CutTo(p, Unwound(p), Undoable(p), k)
  <2> HIDE DEF p
  <2> QED BY <1>1, UnwoundCut
<1>4. k \in 0 .. n - 1
  <2> HIDE DEF p
  <2> QED BY <1>1, BarrierRange
<1>5. {s.entries[n]} \cup {p.entries[i] : i \in k + 1 .. n - 1} = {s.entries[i] : i \in k + 1 .. n}
  <2>1. \A i \in k + 1 .. n - 1 : p.entries[i] = s.entries[i]
    <3> HIDE DEF p, k, n
    <3> QED BY <1>1, <1>2, <1>4
  <2>2. k + 1 .. n = (k + 1 .. n - 1) \cup {n}
    <3> HIDE DEF p, k, n
    <3> QED BY <1>2, <1>4
  <2> HIDE DEF p, k, n
  <2> QED BY <2>1, <2>2
<1>6. \A i \in 1 .. k : Unwound(p).entries[i] = s.entries[i]
  <2> HIDE DEF p, k, n
  <2> QED BY <1>1, <1>2, <1>3, <1>4 DEF CutTo
<1>7. /\ Len(Unwound(p).entries) = k
      /\ Unwound(p).state = IF k = 0 THEN "disposed" ELSE "disposing"
      /\ Undoable(p) = {p.entries[i] : i \in k + 1 .. Len(p.entries)}
  BY <1>3 DEF CutTo
<1>8. {Newest(s)} \cup Undoable(p) = {s.entries[i] : i \in k + 1 .. n}
  <2> HIDE DEF p, k
  <2> QED BY <1>1, <1>5, <1>7 DEF Newest
<1>9. CutTo(s, Unwound(p), {Newest(s)} \cup Undoable(p), k)
  <2> HIDE DEF p, k
  <2> QED BY <1>6, <1>7, <1>8 DEF CutTo
<1> QED BY <1>3, <1>9
=============================================================================
