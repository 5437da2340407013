---------------------------- MODULE RuntimeProofs ----------------------------
(***************************************************************************)
(* Proofs about the parts of the runtime around its composition root       *)
(* (MCRuntime), for any values of the parameters: the start and its        *)
(* cleanup, the exit, the documents it saves, the registries, the slots,   *)
(* and the barrier an exit waits for.                                      *)
(*                                                                         *)
(* Each part has an inductive invariant of its own, kept while another     *)
(* part runs.  That a failed start leaves nothing behind needs what build  *)
(* has come to own so far, stage by stage (AheadInv), and that withdrawing *)
(* a capability is what the newest owner of its stage does (PublishedInv). *)
(* That whoever registered keeps it needs each entry to have its own token *)
(* (EntriesOwned); that a fingerprint tells leases apart needs the leases  *)
(* it remembers to be older than any later one (SnapshotInv).  That a late *)
(* thread of the exit undoes no save needs its snapshot to be as new as    *)
(* what was kept when it began (SaverInv).  That a start is undone in      *)
(* reverse needs the order in which its effects came (RanksInv).           *)
(***************************************************************************)
EXTENDS MCRuntime, FiniteSetTheorems, SequenceTheorems, TLAPS

-----------------------------------------------------------------------------
(*****************************************************************************)
(* The start and its cleanup.                                              *)
(*****************************************************************************)
\* The effects of the start, each in the stage that owns it.
StageEffects == [stage : Start!Stages, kind : {"sync", "async"}, rank : Nat]

\* A scope that holds the effects of stage s, ranked as they came into force.
StageScope(s, t) ==
  /\ t \in Start!ScopesOf(StageEffects)
  /\ \A i \in 1 .. Len(t.entries) : t.entries[i].stage = s
  /\ \A i, j \in 1 .. Len(t.entries) : i < j => t.entries[i].rank < t.entries[j].rank
  /\ t.state = "disposed" => t.entries = <<>>

\* What the start, its stages and their scopes may be.
StartTypes ==
  /\ stage \in {"build", "cleanup", "retained", "failed", "published"}
  /\ step \in 1 .. 8 /\ scopes \in {"open", "closed"} /\ slots \subseteq Start!Services
  /\ DOMAIN own = Start!Stages /\ own = [s \in Start!Stages |-> own[s]]
  /\ \A s \in Start!Stages : StageScope(s, own[s])
  /\ IsFiniteSet(inForce)

\* The stages build has not come to own nothing yet.
AheadInv ==
  stage = "build" =>
    /\ \A i \in 1 .. 7 : i >= step => own[Start!BuildOrder[i]] = Start!NewScope
    /\ \A s \in Start!Stages : Start!Accepting(own[s])
    /\ slots = {c \in Start!Services : \E i \in 1 .. step - 1 : Start!BuildOrder[i] = Start!Act(c)}

\* A capability that is published is withdrawn by the newest owner of its stage.
PublishedInv ==
  \A c \in slots : own[Start!Act(c)].entries # <<>> /\ Start!Newest(own[Start!Act(c)]).kind = "async"

\* The inductive invariant of the start and its cleanup.
StartInv ==
  /\ StartTypes /\ AheadInv /\ PublishedInv /\ Start!StartupExact
  /\ stage \in {"build", "cleanup"} => scopes = "open"

\* A set of the places of the order has a least one.
LEMMA LeastOf ==
  ASSUME NEW n \in Nat, NEW T, T \subseteq 0 .. n, T # {}
  PROVE  Start!Min(T) \in T /\ \A y \in T : Start!Min(T) <= y
<1>1. T \subseteq Nat
  OBVIOUS
<1>2. PICK u \in T : \A y \in T : ~ (<<y, u>> \in OpToRel(<, Nat))
  BY <1>1, WFMin, NatLessThanWellFounded
<1>3. \A y \in T : u <= y
  <2> SUFFICES ASSUME NEW y \in T, y < u PROVE FALSE
    BY <1>1
  <2>1. <<y, u>> \in OpToRel(<, Nat)
    BY <1>1 DEF OpToRel
  <2> QED BY <2>1, <1>2
<1> QED BY <1>3 DEF Start!Min

\* The cardinalities of the start are those of the finite sets.
LEMMA StartScopes ==
  \A S : Start!Cardinality(S) = Cardinality(S)
BY DEF Start!Cardinality, Cardinality

\* Each stage is built once and undone once, in opposite orders.
LEMMA StagesListed ==
  /\ DOMAIN Start!BuildOrder = 1 .. 7 /\ Len(Start!BuildOrder) = 7
  /\ DOMAIN Start!CleanupOrder = 1 .. 7
  /\ \A i, j \in 1 .. 7 : Start!BuildOrder[i] = Start!BuildOrder[j] => i = j
  /\ \A i \in 1 .. 7 : /\ Start!CleanupOrder[i] = Start!BuildOrder[8 - i]
                       /\ Start!BuildOrder[i] \in Start!Stages /\ Start!CleanupOrder[i] \in Start!Stages
  /\ \A s \in Start!Stages : /\ \E i \in 1 .. 7 : s = Start!BuildOrder[i]
                             /\ \E i \in 1 .. 7 : s = Start!CleanupOrder[i]
<1>1. /\ Start!BuildOrder[1] = <<"preparation", "generation">>
      /\ Start!BuildOrder[2] = <<"preparation", "session">>
      /\ Start!BuildOrder[3] = <<"preparation", "preferences">>
      /\ Start!BuildOrder[4] = <<"contributions", "markdown">>
      /\ Start!BuildOrder[5] = <<"activation", "session">>
      /\ Start!BuildOrder[6] = <<"activation", "preferences">>
      /\ Start!BuildOrder[7] = <<"activation", "generation">>
      /\ DOMAIN Start!BuildOrder = 1 .. 7 /\ Len(Start!BuildOrder) = 7
  BY DEF Start!BuildOrder, Start!Prep, Start!Act, Start!Markdown
<1>2. /\ Start!CleanupOrder[7] = <<"preparation", "generation">>
      /\ Start!CleanupOrder[6] = <<"preparation", "session">>
      /\ Start!CleanupOrder[5] = <<"preparation", "preferences">>
      /\ Start!CleanupOrder[4] = <<"contributions", "markdown">>
      /\ Start!CleanupOrder[3] = <<"activation", "session">>
      /\ Start!CleanupOrder[2] = <<"activation", "preferences">>
      /\ Start!CleanupOrder[1] = <<"activation", "generation">>
      /\ DOMAIN Start!CleanupOrder = 1 .. 7
  BY DEF Start!CleanupOrder, Start!Prep, Start!Act, Start!Markdown
<1>3. Start!Stages = {Start!BuildOrder[i] : i \in 1 .. 7}
  BY <1>1 DEF Start!Stages
<1>4. \A i \in 1 .. 7 : i \in {1, 2, 3, 4, 5, 6, 7}
  OBVIOUS
<1>5. \A i \in 1 .. 7 : Start!CleanupOrder[i] = Start!BuildOrder[8 - i]
  BY <1>1, <1>2, <1>4
<1>6. \A i, j \in 1 .. 7 : Start!BuildOrder[i] = Start!BuildOrder[j] => i = j
  BY <1>1, <1>4
<1>7. \A i \in 1 .. 7 : 8 - i \in 1 .. 7 /\ 8 - (8 - i) = i
  OBVIOUS
<1> QED BY <1>1, <1>2, <1>3, <1>5, <1>6, <1>7

\* Only the activation of a capability is its stage, and it comes in the build.
LEMMA Activations ==
  /\ \A c \in Start!Services : Start!Act(c) \in Start!Stages
  /\ \A c \in Start!Services, i \in 1 .. 7 :
       Start!BuildOrder[i] = Start!Act(c) => Start!BuildOrder[i][1] = "activation" /\ Start!BuildOrder[i][2] = c
  /\ \A i \in 1 .. 7 : Start!BuildOrder[i][1] = "activation" =>
       Start!BuildOrder[i][2] \in Start!Services /\ Start!BuildOrder[i] = Start!Act(Start!BuildOrder[i][2])
  /\ \A c \in Start!Services : \E i \in 1 .. 7 : Start!BuildOrder[i] = Start!Act(c)
<1>1. /\ Start!BuildOrder[1] = <<"preparation", "generation">>
      /\ Start!BuildOrder[2] = <<"preparation", "session">>
      /\ Start!BuildOrder[3] = <<"preparation", "preferences">>
      /\ Start!BuildOrder[4] = <<"contributions", "markdown">>
      /\ Start!BuildOrder[5] = <<"activation", "session">>
      /\ Start!BuildOrder[6] = <<"activation", "preferences">>
      /\ Start!BuildOrder[7] = <<"activation", "generation">>
  BY DEF Start!BuildOrder, Start!Prep, Start!Act, Start!Markdown
<1>2. \A i \in 1 .. 7 : i \in {1, 2, 3, 4, 5, 6, 7}
  OBVIOUS
<1>3. /\ \A c : Start!Act(c) = <<"activation", c>> /\ Start!Act(c)[1] = "activation" /\ Start!Act(c)[2] = c
      /\ Start!Services = {"generation", "session", "preferences"}
  BY DEF Start!Act, Start!Services
<1>4. \A c \in Start!Services : \E i \in 1 .. 7 : Start!BuildOrder[i] = Start!Act(c)
  <2>1. 5 \in 1 .. 7 /\ 6 \in 1 .. 7 /\ 7 \in 1 .. 7
    OBVIOUS
  <2>2. /\ Start!BuildOrder[5] = Start!Act("session") /\ Start!BuildOrder[6] = Start!Act("preferences")
        /\ Start!BuildOrder[7] = Start!Act("generation")
    BY <1>1, <1>3
  <2> QED BY <1>3, <2>1, <2>2
<1>5. \A i \in 1 .. 7 : Start!BuildOrder[i][1] = "activation" =>
        Start!BuildOrder[i][2] \in Start!Services /\ Start!BuildOrder[i] = Start!Act(Start!BuildOrder[i][2])
  <2> SUFFICES ASSUME NEW i \in 1 .. 7, Start!BuildOrder[i][1] = "activation"
               PROVE  Start!BuildOrder[i][2] \in Start!Services /\ Start!BuildOrder[i] = Start!Act(Start!BuildOrder[i][2])
    OBVIOUS
  <2>1. i \in {5, 6, 7}
    <3>1. i \notin {1, 2, 3, 4}
      BY <1>1
    <3> QED BY <1>2, <3>1
  <2> QED BY <1>1, <1>3, <2>1
<1> QED BY <1>3, <1>4, <1>5, StagesListed

\* What is left of the scope t of stage s when its newest effects are gone.
StageLesser(s, t, u, gone) ==
  /\ StageScope(s, u) /\ ~ Start!Accepting(u)
  /\ Start!Entries(u) = Start!Entries(t) \ gone /\ gone \subseteq Start!Entries(t)
  /\ \A e \in gone, f \in Start!Entries(u) : f.rank < e.rank

\* A scope of a stage that is cut stays one.
LEMMA StageCut ==
  ASSUME NEW s, NEW t, StageScope(s, t), NEW u \in Start!ScopesOf(StageEffects), NEW gone,
         NEW k \in 0 .. Len(t.entries), Start!CutTo(t, u, gone, k)
  PROVE  StageLesser(s, t, u, gone)
<1>1. /\ Len(t.entries) \in Nat /\ Len(u.entries) = k
      /\ DOMAIN t.entries = 1 .. Len(t.entries) /\ DOMAIN u.entries = 1 .. k
      /\ \A i \in 1 .. k : u.entries[i] = t.entries[i]
      /\ u.state = IF k = 0 THEN "disposed" ELSE "disposing"
      /\ gone = {t.entries[i] : i \in k + 1 .. Len(t.entries)}
  BY DEF StageScope, Start!ScopesOf, Start!CutTo
<1>2. /\ \A i \in 1 .. Len(t.entries) : t.entries[i].stage = s /\ t.entries[i].rank \in Nat
      /\ \A i, j \in 1 .. Len(t.entries) : i < j => t.entries[i].rank < t.entries[j].rank
  <2>1. t.entries \in Seq(StageEffects)
    BY DEF StageScope, Start!ScopesOf
  <2>2. \A i \in 1 .. Len(t.entries) : t.entries[i] \in StageEffects
    BY <2>1
  <2>3. \A e \in StageEffects : e.rank \in Nat
    BY DEF StageEffects
  <2> QED BY <2>2, <2>3 DEF StageScope
<1>3. u.state = "disposed" => u.entries = <<>>
  BY <1>1 DEF Start!ScopesOf
<1>4. StageScope(s, u)
  <2>1. \A i \in 1 .. Len(u.entries) : u.entries[i].stage = s
    BY <1>1, <1>2
  <2>2. \A i, j \in 1 .. Len(u.entries) : i < j => u.entries[i].rank < u.entries[j].rank
    BY <1>1, <1>2
  <2> QED BY <1>3, <2>1, <2>2 DEF StageScope
<1>5. /\ Start!Entries(u) = {t.entries[i] : i \in 1 .. k}
      /\ Start!Entries(t) = {t.entries[i] : i \in 1 .. Len(t.entries)}
  BY <1>1 DEF Start!Entries
<1>6. \A e \in gone, f \in Start!Entries(u) : f.rank < e.rank
  BY <1>1, <1>2, <1>5
<1>7. gone \subseteq Start!Entries(t) /\ Start!Entries(u) \subseteq Start!Entries(t)
  BY <1>1, <1>5
<1>8. \A e \in Start!Entries(t) : e \in gone \/ e \in Start!Entries(u)
  BY <1>1, <1>5
<1>9. \A e \in gone : e.rank \in Nat
  BY <1>1, <1>2
<1>10. Start!Entries(u) = Start!Entries(t) \ gone
  BY <1>6, <1>7, <1>8, <1>9
<1> QED BY <1>1, <1>4, <1>6, <1>7, <1>10 DEF StageLesser, Start!Accepting

\* Unwinding undoes the newest effects, and none behind an asynchronous owner.
LEMMA StageUnwound ==
  ASSUME NEW s, NEW t, StageScope(s, t)
  PROVE  /\ StageLesser(s, t, Start!Unwound(t), Start!Undoable(t))
         /\ t.entries # <<>> /\ Start!Newest(t).kind = "async" => Start!Unwound(t).entries = t.entries
<1>1. t \in Start!ScopesOf(StageEffects)
  BY DEF StageScope
<1>2. Start!Barrier(t) \in 0 .. Len(t.entries)
  BY <1>1, Start!BarrierRange
<1>3. /\ Start!Unwound(t) \in Start!ScopesOf(StageEffects)
      /\ Start!CutTo(t, Start!Unwound(t), Start!Undoable(t), Start!Barrier(t))
  BY <1>1, Start!UnwoundCut
<1>4. ASSUME t.entries # <<>>, Start!Newest(t).kind = "async"
      PROVE  Start!Unwound(t).entries = t.entries
  <2> DEFINE n == Len(t.entries)  T == {0} \cup {i \in DOMAIN t.entries : t.entries[i].kind = "async"}
  <2>1. n \in Nat \ {0} /\ DOMAIN t.entries = 1 .. n
    BY <1>1, <1>4 DEF Start!ScopesOf
  <2>2. n \in T /\ T \subseteq 0 .. n
    BY <1>4, <2>1 DEF Start!Newest
  <2>3. \A y \in T : Start!Max(T) >= y
    <3> HIDE DEF T, n
    <3> QED BY <2>1, <2>2, Start!MaxOfRange
  <2>4. Start!Barrier(t) = Start!Max(T)
    BY DEF Start!Barrier
  <2>5. Start!Barrier(t) = n
    <3> HIDE DEF T
    <3> QED BY <1>2, <2>1, <2>2, <2>3, <2>4
  <2>6. SubSeq(t.entries, 1, n) = t.entries
    BY <1>1, <2>1 DEF Start!ScopesOf
  <2> QED BY <2>5, <2>6 DEF Start!Unwound
<1> QED BY <1>2, <1>3, <1>4, StageCut

\* So does the owner that stopped, and itself.
LEMMA StageAnswered ==
  ASSUME NEW s, NEW t, StageScope(s, t), t.entries # <<>>
  PROVE  StageLesser(s, t, Start!Unwound(Start!Popped(t)),
                     {Start!Newest(t)} \cup Start!Undoable(Start!Popped(t)))
<1>1. t \in Start!ScopesOf(StageEffects) /\ Len(t.entries) \in Nat
  BY DEF StageScope, Start!ScopesOf
<1>2. /\ Start!Popped(t) \in Start!ScopesOf(StageEffects)
      /\ Len(Start!Popped(t).entries) = Len(t.entries) - 1
  BY <1>1, Start!PoppedType
<1>3. Start!Barrier(Start!Popped(t)) \in 0 .. Len(t.entries) - 1
  BY <1>2, Start!BarrierRange
<1>4. Start!Barrier(Start!Popped(t)) \in 0 .. Len(t.entries)
  BY <1>1, <1>3
<1> QED BY <1>1, <1>4, Start!PoppedCut, StageCut

\* A stage of which the newest effects are undone.
LEMMA StageUndone ==
  ASSUME StartTypes, inForce = UNION {Start!Entries(own[s]) : s \in Start!Stages},
         NEW s \in Start!Stages, NEW t, NEW gone, StageLesser(s, own[s], t, gone),
         own' = [own EXCEPT ![s] = t], inForce' = inForce \ gone,
         UNCHANGED step, stage' = stage, scopes' = scopes, slots' \subseteq slots
  PROVE  /\ StartTypes'
         /\ inForce' = UNION {Start!Entries(own'[u]) : u \in Start!Stages}
<1>1. DOMAIN own = Start!Stages /\ own'[s] = t /\ \A u \in Start!Stages : u # s => own'[u] = own[u]
  BY DEF StartTypes
<1>2. DOMAIN own' = Start!Stages /\ own' = [u \in Start!Stages |-> own'[u]]
  BY <1>1
<1>3. \A u \in Start!Stages : StageScope(u, own'[u])
  BY <1>1 DEF StartTypes, StageLesser
<1>4. IsFiniteSet(inForce')
  BY FS_Subset DEF StartTypes
<1>5. \A u \in Start!Stages : \A e \in Start!Entries(own[u]) : e.stage = u
  <2> TAKE u \in Start!Stages
  <2>1. StageScope(u, own[u])
    BY DEF StartTypes
  <2>2. own[u].entries \in Seq(StageEffects)
    BY <2>1 DEF StageScope, Start!ScopesOf
  <2>3. DOMAIN own[u].entries = 1 .. Len(own[u].entries)
    BY <2>2
  <2> QED BY <2>1, <2>3 DEF StageScope, Start!Entries
<1>6. \A u \in Start!Stages : Start!Entries(own'[u]) = Start!Entries(own[u]) \ gone
  BY <1>1, <1>5 DEF StageLesser
<1>7. inForce' = UNION {Start!Entries(own'[u]) : u \in Start!Stages}
  BY <1>6
<1> QED BY <1>2, <1>3, <1>4, <1>7 DEF StartTypes

\* A stage that comes to own its effects.
LEMMA StageOwns ==
  ASSUME StartTypes, inForce = UNION {Start!Entries(own[s]) : s \in Start!Stages},
         NEW s \in Start!Stages, own[s] = Start!NewScope,
         NEW kinds \in Seq({"sync", "async"}), Start!Owns(s, kinds)
  PROVE  /\ \A u \in Start!Stages : StageScope(u, own'[u]) /\ (u # s => own'[u] = own[u])
         /\ DOMAIN own' = Start!Stages /\ own' = [u \in Start!Stages |-> own'[u]]
         /\ own'[s].state = "active"
         /\ own'[s].entries = Start!NewEffects(s, kinds)
         /\ inForce' = inForce \cup Start!Entries(own'[s]) /\ IsFiniteSet(inForce')
         /\ inForce' = UNION {Start!Entries(own'[u]) : u \in Start!Stages}
<1> DEFINE es == Start!NewEffects(s, kinds)  n == Len(kinds)  base == Cardinality(inForce)
<1>1. base \in Nat /\ n \in Nat /\ DOMAIN kinds = 1 .. n
  BY FS_CardinalityType DEF StartTypes
<1>2. es = [i \in 1 .. n |-> [stage |-> s, kind |-> kinds[i], rank |-> base + i]]
  BY <1>1, StartScopes DEF Start!NewEffects
<1>3. \A i \in 1 .. n : es[i] \in StageEffects /\ es[i].stage = s /\ es[i].rank = base + i
  <2>1. \A i \in 1 .. n : kinds[i] \in {"sync", "async"} /\ base + i \in Nat
    BY <1>1
  <2> QED BY <1>2, <2>1 DEF StageEffects
<1>4. es \in Seq(StageEffects) /\ Len(es) = n /\ DOMAIN es = 1 .. n
  <2>1. es \in [1 .. n -> StageEffects]
    <3> HIDE DEF n, base
    <3> QED BY <1>2, <1>3
  <2> HIDE DEF es, n
  <2> QED BY <1>1, <2>1
<1>5. own' = [own EXCEPT ![s].entries = own[s].entries \o es]
      /\ inForce' = inForce \cup {es[i] : i \in DOMAIN es}
  BY DEF Start!Owns
<1>6. <<>> \o es = es
  <2> HIDE DEF es
  <2> QED BY <1>4, ConcatEmptySeq
<1>7. own[s].entries = <<>> /\ own[s].state = "active" /\ own[s] = [entries |-> <<>>, state |-> "active"]
  BY DEF Start!NewScope
<1>8. /\ own'[s] = [entries |-> es, state |-> "active"] /\ \A u \in Start!Stages : u # s => own'[u] = own[u]
      /\ DOMAIN own' = Start!Stages /\ own' = [u \in Start!Stages |-> own'[u]]
  <2> HIDE DEF es
  <2> QED BY <1>5, <1>6, <1>7 DEF StartTypes
<1>9. own'[s].entries = es /\ own'[s].state = "active"
  <2> HIDE DEF es
  <2> QED BY <1>8
<1>10. StageScope(s, own'[s])
  <2>1. own'[s] \in Start!ScopesOf(StageEffects)
    <3> HIDE DEF es
    <3> QED BY <1>4, <1>8 DEF Start!ScopesOf
  <2>2. \A i, j \in 1 .. n : i < j => es[i].rank < es[j].rank
    <3> HIDE DEF es, n, base
    <3> QED BY <1>1, <1>3
  <2> HIDE DEF es, n
  <2> QED BY <1>3, <1>4, <1>9, <2>1, <2>2 DEF StageScope
<1>11. Start!Entries(own'[s]) = {es[i] : i \in DOMAIN es} /\ Start!Entries(own[s]) = {}
  <2> HIDE DEF es
  <2> QED BY <1>7, <1>9 DEF Start!Entries
<1>12. IsFiniteSet({es[i] : i \in 1 .. n})
  <2>1. es \in Surjection(1 .. n, {es[i] : i \in 1 .. n})
    <3> HIDE DEF n
    <3>1. es \in [1 .. n -> {es[i] : i \in 1 .. n}]
      <4> HIDE DEF es
      <4>1. es \in [1 .. n -> StageEffects]
        BY <1>1, <1>4
      <4> QED BY <4>1
    <3> HIDE DEF es
    <3> QED BY <3>1 DEF Surjection
  <2>2. IsFiniteSet(1 .. n)
    <3> HIDE DEF n
    <3> QED BY <1>1, FS_Interval
  <2> HIDE DEF es, n
  <2> QED BY <2>1, <2>2, FS_Surjection
<1>13. IsFiniteSet(inForce')
  <2> HIDE DEF es, n
  <2> QED BY <1>4, <1>5, <1>12, FS_Union DEF StartTypes
<1>14. inForce' = inForce \cup Start!Entries(own'[s])
  <2> HIDE DEF es
  <2> QED BY <1>5, <1>11
<1>15. \A u \in Start!Stages : u # s => Start!Entries(own'[u]) = Start!Entries(own[u])
  BY <1>8
<1>16. inForce' = UNION {Start!Entries(own'[u]) : u \in Start!Stages}
  <2> HIDE DEF es
  <2> DEFINE before(u) == Start!Entries(own[u])  after(u) == Start!Entries(own'[u])
  <2>1. /\ \A u \in Start!Stages : u # s => after(u) = before(u)
        /\ before(s) = {} /\ inForce' = inForce \cup after(s)
        /\ inForce = UNION {before(u) : u \in Start!Stages}
    BY <1>11, <1>14, <1>15
  <2> HIDE DEF before, after
  <2>2. inForce' = UNION {after(u) : u \in Start!Stages}
    BY <2>1
  <2> QED BY <2>2 DEF after
<1>17. \A u \in Start!Stages : StageScope(u, own'[u]) /\ (u # s => own'[u] = own[u])
  BY <1>8, <1>10 DEF StartTypes
<1> HIDE DEF es
<1>18. own'[s].entries = Start!NewEffects(s, kinds)
  BY <1>9 DEF es
<1> QED BY <1>8, <1>9, <1>13, <1>14, <1>16, <1>17, <1>18

\* The effects a step of the build may come with.
LEMMA KindsAreSequences ==
  ASSUME Start!Parameters, NEW kinds \in Start!Kinds
  PROVE  kinds \in Seq({"sync", "async"})
<1>1. PICK n \in 0 .. MaxOwn : kinds \in [1 .. n -> {"sync", "async"}]
  BY DEF Start!Kinds
<1>2. n \in Nat
  BY DEF Start!Parameters
<1> QED BY <1>1, <1>2


\* A step of the build that comes to own effects, and the one that then fails.
LEMMA StageBuilt ==
  ASSUME StartInv, Start!Building,
         NEW kinds \in Seq({"sync", "async"}), Start!Owns(Start!At, kinds), scopes' = scopes,
         \/ /\ stage' = stage /\ step' = step + 1
            /\ Start!At[1] = "activation" =>
                 slots' = slots \cup {Start!At[2]} /\ kinds # <<>> /\ kinds[Len(kinds)] = "async"
            /\ Start!At[1] # "activation" => slots' = slots
         \/ stage' = "cleanup" /\ step' = step /\ slots' = slots
  PROVE  StartInv'
<1> DEFINE s == Start!At
<1>1. /\ stage = "build" /\ step \in 1 .. 7 /\ s = Start!BuildOrder[step] /\ s \in Start!Stages
      /\ own[s] = Start!NewScope /\ scopes = "open"
  BY StagesListed DEF Start!Building, Start!At, StartInv, StartTypes, AheadInv
<1>2. /\ \A u \in Start!Stages : StageScope(u, own'[u]) /\ (u # s => own'[u] = own[u])
      /\ DOMAIN own' = Start!Stages /\ own' = [u \in Start!Stages |-> own'[u]]
      /\ own'[s].state = "active"
      /\ own'[s].entries = Start!NewEffects(s, kinds)
      /\ inForce' = inForce \cup Start!Entries(own'[s]) /\ IsFiniteSet(inForce')
      /\ inForce' = UNION {Start!Entries(own'[u]) : u \in Start!Stages}
  <2> HIDE DEF s
  <2>1. Start!Owns(s, kinds)
    BY DEF s
  <2> QED BY <1>1, <2>1, StageOwns DEF StartInv, Start!StartupExact
<1>3. slots' \subseteq Start!Services
  <2>1. s[1] = "activation" => s[2] \in Start!Services
    BY <1>1, Activations
  <2> QED BY <2>1 DEF StartInv, StartTypes
<1>4. stage' \in {"build", "cleanup"} /\ step' \in 1 .. 8 /\ scopes' = "open"
  BY <1>1
<1>5. StartTypes'
  BY <1>2, <1>3, <1>4 DEF StartTypes
<1>6. \A c \in slots : Start!Act(c) \in Start!Stages /\ Start!Act(c) # s
  <2> SUFFICES ASSUME NEW c \in slots PROVE Start!Act(c) \in Start!Stages /\ Start!Act(c) # s
    OBVIOUS
  <2>1. PICK i \in 1 .. step - 1 : Start!BuildOrder[i] = Start!Act(c)
    BY <1>1 DEF StartInv, AheadInv
  <2>2. i \in 1 .. 7 /\ i # step
    BY <1>1, <2>1
  <2> QED BY <1>1, <2>1, <2>2, StagesListed
<1>7. \A c \in slots : own'[Start!Act(c)].entries # <<>> /\ Start!Newest(own'[Start!Act(c)]).kind = "async"
  BY <1>2, <1>6 DEF StartInv, PublishedInv
<1>8. ASSUME s[1] = "activation", step' = step + 1
      PROVE  own'[s].entries # <<>> /\ Start!Newest(own'[s]).kind = "async" /\ s = Start!Act(s[2])
  <2>1. kinds # <<>> /\ kinds[Len(kinds)] = "async" /\ Len(kinds) \in Nat \ {0} /\ DOMAIN kinds = 1 .. Len(kinds)
    BY <1>8, <1>1
  <2>2. own'[s].entries = [i \in 1 .. Len(kinds) |->
                             [stage |-> s, kind |-> kinds[i], rank |-> Start!Cardinality(inForce) + i]]
    BY <1>2, <2>1 DEF Start!NewEffects
  <2>3. Len(own'[s].entries) = Len(kinds)
    BY <2>1, <2>2
  <2>4. own'[s].entries[Len(kinds)].kind = "async"
    BY <2>1, <2>2
  <2> QED BY <1>1, <1>8, <2>1, <2>3, <2>4, Activations DEF Start!Newest
<1>9. PublishedInv'
  <2> SUFFICES ASSUME NEW c \in slots'
               PROVE  own'[Start!Act(c)].entries # <<>> /\ Start!Newest(own'[Start!Act(c)]).kind = "async"
    BY DEF PublishedInv, Start!Newest
  <2>1. CASE c \in slots
    BY <1>7, <2>1
  <2>2. CASE c \notin slots
    <3>1. s[1] = "activation" /\ step' = step + 1 /\ c = s[2]
      BY <1>1, <2>2
    <3> QED BY <1>8, <3>1
  <2> QED BY <2>1, <2>2
<1>10. AheadInv'
  <2> SUFFICES ASSUME stage' = "build" PROVE AheadInv'
    BY DEF AheadInv
  <2>1. step' = step + 1
    BY <1>1
  <2>2. \A i \in 1 .. 7 : i >= step' => own'[Start!BuildOrder[i]] = Start!NewScope
    <3> SUFFICES ASSUME NEW i \in 1 .. 7, i >= step' PROVE own'[Start!BuildOrder[i]] = Start!NewScope
      OBVIOUS
    <3>1. i # step /\ i >= step
      BY <1>1, <2>1
    <3>2. Start!BuildOrder[i] # s /\ Start!BuildOrder[i] \in Start!Stages
      BY <1>1, <3>1, StagesListed
    <3>3. own[Start!BuildOrder[i]] = Start!NewScope
      BY <1>1, <3>1 DEF StartInv, AheadInv
    <3> QED BY <1>2, <3>2, <3>3
  <2>3. \A u \in Start!Stages : Start!Accepting(own'[u])
    <3> TAKE u \in Start!Stages
    <3>1. Start!Accepting(own[u])
      BY <1>1 DEF StartInv, AheadInv
    <3> QED BY <1>2, <3>1 DEF Start!Accepting
  <2>4. slots' = {c \in Start!Services : \E i \in 1 .. step' - 1 : Start!BuildOrder[i] = Start!Act(c)}
    <3>1. slots = {c \in Start!Services : \E i \in 1 .. step - 1 : Start!BuildOrder[i] = Start!Act(c)}
      BY <1>1 DEF StartInv, AheadInv
    <3>2. step' - 1 = step /\ 1 .. step = (1 .. step - 1) \cup {step}
      BY <1>1, <2>1
    <3>3. slots' = slots \cup {c \in Start!Services : Start!BuildOrder[step] = Start!Act(c)}
      <4>1. CASE s[1] = "activation"
        <5>1. slots' = slots \cup {s[2]} /\ s[2] \in Start!Services /\ s = Start!Act(s[2])
          BY <1>1, <2>1, <4>1, Activations
        <5>2. \A c \in Start!Services : s = Start!Act(c) => s[2] = c
          BY <1>1, Activations
        <5> QED BY <1>1, <5>1, <5>2
      <4>2. CASE s[1] # "activation"
        BY <1>1, <2>1, <4>2, Activations
      <4> QED BY <4>1, <4>2
    <3> QED BY <3>1, <3>2, <3>3
  <2> QED BY <2>2, <2>3, <2>4 DEF AheadInv, Start!Accepting
<1>11. Start!StartupExact'
  BY <1>2, <1>4 DEF Start!StartupExact, Start!Entries
<1> QED BY <1>4, <1>5, <1>9, <1>10, <1>11 DEF StartInv

\* The stages of which something is left, and the one that is undone next.
LEMMA NextStage ==
  ASSUME StartTypes
  PROVE  /\ Start!Remaining = {} => \A s \in Start!Stages : own[s].entries = <<>>
         /\ Start!Remaining # {} => Start!FirstRemaining \in Start!Stages
<1>1. Start!Remaining \subseteq 0 .. 7 /\ Start!Remaining \subseteq 1 .. 7
  BY StagesListed DEF Start!Remaining
<1>2. ASSUME Start!Remaining = {}, NEW s \in Start!Stages PROVE own[s].entries = <<>>
  <2>1. PICK i \in 1 .. 7 : s = Start!CleanupOrder[i]
    BY StagesListed
  <2>2. own[s].state = "disposed"
    BY <1>2, <2>1, StagesListed DEF Start!Remaining
  <2> QED BY <2>2 DEF StartTypes, StageScope
<1>3. ASSUME Start!Remaining # {} PROVE Start!FirstRemaining \in Start!Stages
  <2>1. Start!Min(Start!Remaining) \in Start!Remaining
    BY <1>1, <1>3, LeastOf
  <2> QED BY <1>1, <2>1, StagesListed DEF Start!FirstRemaining
<1> QED BY <1>2, <1>3

\* The effects of a stage are undone while the cleanup goes on.
LEMMA StageCleaned ==
  ASSUME StartInv, stage = "cleanup",
         NEW s \in Start!Stages, NEW t, NEW gone, StageLesser(s, own[s], t, gone),
         own' = [own EXCEPT ![s] = t], inForce' = inForce \ gone,
         UNCHANGED <<step, stage, scopes>>, slots' \subseteq slots,
         \A c \in slots' : Start!Act(c) = s => t.entries # <<>> /\ Start!Newest(t).kind = "async"
  PROVE  StartInv'
<1>1. StartTypes /\ inForce = UNION {Start!Entries(own[u]) : u \in Start!Stages} /\ scopes = "open"
  BY DEF StartInv, Start!StartupExact
<1>2. StartTypes' /\ inForce' = UNION {Start!Entries(own'[u]) : u \in Start!Stages}
  BY <1>1, StageUndone
<1>3. AheadInv'
  BY DEF AheadInv
<1>4. own'[s] = t /\ \A u \in Start!Stages : u # s => own'[u] = own[u]
  BY <1>1 DEF StartTypes
<1>5. PublishedInv'
  <2> SUFFICES ASSUME NEW c \in slots'
               PROVE  own'[Start!Act(c)].entries # <<>> /\ Start!Newest(own'[Start!Act(c)]).kind = "async"
    BY DEF PublishedInv, Start!Newest
  <2>1. Start!Act(c) \in Start!Stages /\ c \in slots
    BY <1>1, Activations DEF StartTypes
  <2> QED BY <1>4, <2>1 DEF StartInv, PublishedInv
<1>6. Start!StartupExact'
  BY <1>2 DEF Start!StartupExact, Start!Entries
<1> QED BY <1>1, <1>2, <1>3, <1>5, <1>6 DEF StartInv

\* A step that only says how far the start has come.
LEMMA StageStays ==
  ASSUME StartInv, UNCHANGED <<own, inForce, slots, step>>,
         stage' \in {"cleanup", "retained", "failed", "published"}, scopes' \in {"open", "closed"}
  PROVE  /\ StartTypes' /\ AheadInv' /\ PublishedInv'
         /\ inForce' = UNION {Start!Entries(own'[u]) : u \in Start!Stages}
<1>1. StartTypes'
  <2>1. own' = own /\ inForce' = inForce /\ slots' = slots /\ step' = step
    OBVIOUS
  <2> QED BY <2>1 DEF StartInv, StartTypes
<1>2. AheadInv'
  BY DEF AheadInv
<1>3. PublishedInv'
  BY DEF StartInv, PublishedInv, Start!Newest
<1> QED BY <1>1, <1>2, <1>3 DEF StartInv, Start!StartupExact, Start!Entries

\* Every step of the start keeps what it owns exact.
LEMMA StartStep ==
  ASSUME Start!Parameters, StartInv, Start!Next
  PROVE  StartInv'
<1>0. StartTypes /\ AheadInv /\ PublishedInv /\ Start!StartupExact
  BY DEF StartInv
<1>1. ASSUME NEW kinds \in Start!Kinds, Start!Prepare(kinds) PROVE StartInv'
  <2>1. kinds \in Seq({"sync", "async"})
    BY KindsAreSequences
  <2> QED BY <1>1, <2>1, StageBuilt DEF Start!Prepare
<1>2. ASSUME NEW kinds \in Start!Kinds, Start!Activate(kinds) PROVE StartInv'
  <2>1. kinds \in Seq({"sync", "async"})
    BY KindsAreSequences
  <2>2. /\ Append(kinds, "async") \in Seq({"sync", "async"}) /\ Append(kinds, "async") # <<>>
        /\ Append(kinds, "async")[Len(Append(kinds, "async"))] = "async"
    BY <2>1
  <2> QED BY <1>2, <2>2, StageBuilt DEF Start!Activate
<1>3. ASSUME NEW kinds \in Start!Kinds, Start!ActivateFails(kinds) PROVE StartInv'
  <2>1. kinds \in Seq({"sync", "async"})
    BY KindsAreSequences
  <2> QED BY <1>3, <2>1, StageBuilt DEF Start!ActivateFails
<1>4. ASSUME Start!RegisterMarkdown PROVE StartInv'
  <2> DEFINE kinds == [i \in 1 .. MaxMarkdown |-> "async"]
  <2>1. kinds \in Seq({"sync", "async"})
    BY DEF Start!Parameters
  <2>2. Start!At[1] = "contributions"
    BY <1>4 DEF Start!RegisterMarkdown, Start!Markdown
  <2> HIDE DEF kinds
  <2>3. Start!Owns(Start!At, kinds)
    BY <1>4 DEF Start!RegisterMarkdown, kinds
  <2> QED BY <1>4, <2>1, <2>2, <2>3, StageBuilt DEF Start!RegisterMarkdown
<1>5. CASE Start!RefuseProviders
  <2>1. slots = {} /\ inForce = {}
    <3>1. slots = {}
      BY <1>0, <1>5 DEF Start!RefuseProviders, AheadInv
    <3>2. \A s \in Start!Stages : own[s] = Start!NewScope
      BY <1>0, <1>5, StagesListed DEF Start!RefuseProviders, AheadInv
    <3>3. \A s \in Start!Stages : Start!Entries(own[s]) = {}
      BY <3>2 DEF Start!NewScope, Start!Entries
    <3> QED BY <1>0, <3>1, <3>3 DEF Start!StartupExact
  <2>2. UNCHANGED <<own, inForce, slots, step>> /\ stage' = "failed" /\ scopes' = "closed"
    BY <1>5 DEF Start!RefuseProviders
  <2>3. Start!StartupExact'
    BY <2>1, <2>2, StageStays DEF Start!StartupExact, Start!Entries
  <2> QED BY <2>2, <2>3, StageStays DEF StartInv
<1>6. CASE Start!PrepareFails \/ Start!RegisterFails \/ Start!AuditFails
  <2>1. UNCHANGED <<own, inForce, slots, step>> /\ stage' = "cleanup" /\ scopes' = "open"
    BY <1>6 DEF Start!PrepareFails, Start!RegisterFails, Start!AuditFails, Start!Building, Start!Audited, StartInv
  <2>2. Start!StartupExact'
    BY <2>1, StageStays DEF Start!StartupExact, Start!Entries
  <2> QED BY <2>1, <2>2, StageStays DEF StartInv
<1>7. CASE Start!Publish
  <2>1. slots = Start!Services
    <3>1. step - 1 = 7 /\ slots = {c \in Start!Services : \E i \in 1 .. step - 1 : Start!BuildOrder[i] = Start!Act(c)}
      BY <1>0, <1>7, StagesListed DEF Start!Publish, Start!Audited, AheadInv
    <3> QED BY <3>1, Activations
  <2>2. UNCHANGED <<own, inForce, slots, step>> /\ stage' = "published" /\ scopes' = "open"
        /\ \A s \in Start!Stages : Start!Accepting(own[s])
    BY <1>0, <1>7 DEF Start!Publish, Start!Audited, StartInv, AheadInv
  <2>3. Start!StartupExact'
    BY <2>1, <2>2, StageStays DEF Start!StartupExact, Start!Entries, Start!Accepting
  <2> QED BY <2>2, <2>3, StageStays DEF StartInv
<1>8. CASE Start!DisposeStage
  <2> DEFINE s == Start!FirstRemaining  t == Start!Unwound(own[s])  gone == Start!Undoable(own[s])
  <2>1. s \in Start!Stages /\ StageScope(s, own[s])
    BY <1>0, <1>8, NextStage DEF Start!DisposeStage, StartTypes
  <2>2. /\ own' = [own EXCEPT ![s] = t] /\ inForce' = inForce \ gone
        /\ UNCHANGED <<step, stage, scopes>> /\ slots' = slots /\ stage = "cleanup"
    BY <1>8 DEF Start!DisposeStage
  <2>3. /\ StageLesser(s, own[s], t, gone)
        /\ own[s].entries # <<>> /\ Start!Newest(own[s]).kind = "async" => t.entries = own[s].entries
    <3> HIDE DEF s
    <3> QED BY <2>1, StageUnwound
  <2>4. ASSUME NEW c \in slots', Start!Act(c) = s
        PROVE  t.entries # <<>> /\ Start!Newest(t).kind = "async"
    BY <1>0, <2>2, <2>3, <2>4 DEF PublishedInv, Start!Newest
  <2> HIDE DEF s, t, gone
  <2> QED BY <2>1, <2>2, <2>3, <2>4, StageCleaned
<1>9. CASE Start!StopEnds
  <2> DEFINE s == Start!FirstRemaining  t == Start!Unwound(Start!Popped(own[s]))
             gone == {Start!Newest(own[s])} \cup Start!Undoable(Start!Popped(own[s]))
  <2>1. s \in Start!Stages /\ StageScope(s, own[s]) /\ own[s].entries # <<>>
    BY <1>0, <1>9, NextStage DEF Start!StopEnds, StartTypes, Start!Awaiting
  <2>2. /\ own' = [own EXCEPT ![s] = t] /\ inForce' = inForce \ gone
        /\ UNCHANGED <<step, stage, scopes>> /\ stage = "cleanup"
        /\ slots' = IF s[1] = "activation" THEN slots \ {s[2]} ELSE slots
    BY <1>9 DEF Start!StopEnds
  <2>3. StageLesser(s, own[s], t, gone)
    <3> HIDE DEF s
    <3> QED BY <2>1, StageAnswered
  <2>4. \A c \in slots' : Start!Act(c) # s
    BY <2>2 DEF Start!Act
  <2> HIDE DEF s, t, gone
  <2>5. slots' \subseteq slots
    BY <2>2
  <2> QED BY <2>1, <2>2, <2>3, <2>4, <2>5, StageCleaned
<1>10. CASE Start!StopFails
  <2> DEFINE s == Start!FirstRemaining
  <2>1. s \in Start!Stages /\ StageScope(s, own[s]) /\ own[s].entries # <<>>
    BY <1>0, <1>10, NextStage DEF Start!StopFails, StartTypes, Start!Awaiting
  <2>2. inForce # {}
    <3> HIDE DEF s
    <3>1. own[s].entries \in Seq(StageEffects)
      BY <2>1 DEF StageScope, Start!ScopesOf
    <3>2. own[s].entries[1] \in Start!Entries(own[s])
      BY <2>1, <3>1 DEF Start!Entries
    <3> QED BY <1>0, <2>1, <3>2 DEF Start!StartupExact
  <2>3. UNCHANGED <<own, inForce, slots, step>> /\ stage' = "retained" /\ scopes' = "open"
    BY <1>10 DEF Start!StopFails, StartInv
  <2>4. Start!StartupExact'
    BY <2>2, <2>3, StageStays DEF Start!StartupExact, Start!Entries
  <2> QED BY <2>3, <2>4, StageStays DEF StartInv
<1>11. CASE Start!Retry
  <2>1. UNCHANGED <<own, inForce, slots, step>> /\ stage' = "cleanup" /\ scopes' = "open"
    BY <1>0, <1>11 DEF Start!Retry, Start!StartupExact
  <2>2. Start!StartupExact'
    BY <2>1, StageStays DEF Start!StartupExact, Start!Entries
  <2> QED BY <2>1, <2>2, StageStays DEF StartInv
<1>12. CASE Start!CleanupEnds
  <2>1. inForce = {} /\ slots = {}
    <3>1. \A s \in Start!Stages : own[s].entries = <<>>
      BY <1>0, <1>12, NextStage DEF Start!CleanupEnds
    <3>2. \A s \in Start!Stages : Start!Entries(own[s]) = {}
      BY <3>1 DEF Start!Entries
    <3>3. \A c \in slots : Start!Act(c) \in Start!Stages /\ own[Start!Act(c)].entries # <<>>
      BY <1>0, Activations DEF PublishedInv, StartTypes
    <3> QED BY <1>0, <3>1, <3>2, <3>3 DEF Start!StartupExact
  <2>2. UNCHANGED <<own, inForce, slots, step>> /\ stage' = "failed" /\ scopes' = "closed"
    BY <1>12 DEF Start!CleanupEnds
  <2>3. Start!StartupExact'
    BY <2>1, <2>2, StageStays DEF Start!StartupExact, Start!Entries
  <2> QED BY <2>2, <2>3, StageStays DEF StartInv
<1> QED BY <1>1, <1>2, <1>3, <1>4, <1>5, <1>6, <1>7, <1>8, <1>9, <1>10, <1>11, <1>12 DEF Start!Next

\* The build begins with nothing in force.
LEMMA StartInit ==
  ASSUME Start!Init
  PROVE  StartInv
<1>1. \A s \in Start!Stages : own[s] = Start!NewScope
  BY DEF Start!Init
<1>2. \A s \in Start!Stages : StageScope(s, own[s])
  <2>1. Start!NewScope \in Start!ScopesOf(StageEffects)
    BY DEF Start!NewScope, Start!ScopesOf
  <2> QED BY <1>1, <2>1 DEF Start!NewScope, StageScope
<1>3. StartTypes
  BY <1>2, FS_EmptySet DEF Start!Init, StartTypes
<1>4. AheadInv
  BY <1>1, StagesListed DEF Start!Init, AheadInv, Start!NewScope, Start!Accepting
<1>5. inForce = UNION {Start!Entries(own[s]) : s \in Start!Stages}
  <2>1. \A s \in Start!Stages : Start!Entries(own[s]) = {}
    BY <1>1 DEF Start!NewScope, Start!Entries
  <2> QED BY <2>1 DEF Start!Init
<1> QED BY <1>3, <1>4, <1>5 DEF Start!Init, StartInv, PublishedInv, Start!StartupExact

\* The start does not change while another part runs.
LEMMA StartFrame == ASSUME StartInv, UNCHANGED startVars PROVE StartInv'
<1>1. UNCHANGED <<own, inForce, slots, step, stage, scopes>>
  BY DEF startVars
<1>2. StartTypes'
  BY <1>1 DEF StartInv, StartTypes
<1>3. AheadInv'
  BY <1>1 DEF StartInv, AheadInv, Start!Accepting
<1>4. PublishedInv'
  BY <1>1 DEF StartInv, PublishedInv, Start!Newest
<1>5. Start!StartupExact'
  <2>1. own' = own /\ inForce' = inForce /\ slots' = slots /\ stage' = stage /\ scopes' = scopes
    BY <1>1
  <2>2. UNION {Start!Entries(own'[s]) : s \in Start!Stages} = UNION {Start!Entries(own[s]) : s \in Start!Stages}
    BY <2>1
  <2> QED BY <2>1, <2>2 DEF StartInv, Start!StartupExact, Start!Entries, Start!Accepting
<1> QED BY <1>1, <1>2, <1>3, <1>4, <1>5 DEF StartInv
-----------------------------------------------------------------------------
(*****************************************************************************)
(* The order in which a start is undone.                                   *)
(*****************************************************************************)
\* A stage that is built later owns only effects that came later, and as long
\* as the build goes on there are as many in force as have come.
RanksInv ==
  /\ \A i, j \in 1 .. 7 : i < j =>
       \A e \in Start!Entries(own[Start!BuildOrder[i]]), f \in Start!Entries(own[Start!BuildOrder[j]]) :
         e.rank < f.rank
  /\ stage = "build" => \A e \in inForce : e.rank <= Cardinality(inForce)

\* The effects of the start have the stage that owns them and a rank.
LEMMA EffectsAreRanked ==
  ASSUME StartInv
  PROVE  /\ \A i \in 1 .. 7 : \A e \in Start!Entries(own[Start!BuildOrder[i]]) : e \in StageEffects /\ e \in inForce
         /\ \A e \in inForce : /\ e.rank \in Nat
                               /\ \E i \in 1 .. 7 : e \in Start!Entries(own[Start!BuildOrder[i]])
<1>1. inForce = UNION {Start!Entries(own[s]) : s \in Start!Stages}
  BY DEF StartInv, Start!StartupExact
<1>2. \A s \in Start!Stages : Start!Entries(own[s]) \subseteq StageEffects
  <2> TAKE s \in Start!Stages
  <2>1. own[s].entries \in Seq(StageEffects)
    BY DEF StartInv, StartTypes, StageScope, Start!ScopesOf
  <2> QED BY <2>1 DEF Start!Entries
<1>3. \A e \in StageEffects : e.rank \in Nat
  BY DEF StageEffects
<1> QED BY <1>1, <1>2, <1>3, StagesListed

\* A stage that comes to own its effects owns the latest, and there are as
\* many more in force.
LEMMA RanksBuilt ==
  ASSUME StartInv, RanksInv, Start!Building,
         NEW kinds \in Seq({"sync", "async"}), Start!Owns(Start!At, kinds)
  PROVE  RanksInv'
<1> DEFINE s == Start!At  n == Len(kinds)  base == Cardinality(inForce)  mine == Start!Entries(own'[s])
<1>1. /\ stage = "build" /\ step \in 1 .. 7 /\ s = Start!BuildOrder[step] /\ s \in Start!Stages
      /\ own[s] = Start!NewScope
  BY StagesListed DEF Start!Building, Start!At, StartInv, StartTypes, AheadInv
<1>2. /\ \A u \in Start!Stages : u # s => own'[u] = own[u]
      /\ own'[s].entries = Start!NewEffects(s, kinds)
      /\ inForce' = inForce \cup mine
  <2> HIDE DEF s
  <2>1. Start!Owns(s, kinds)
    BY DEF s
  <2> QED BY <1>1, <2>1, StageOwns DEF StartInv, Start!StartupExact
<1>3. base \in Nat /\ n \in Nat /\ DOMAIN kinds = 1 .. n /\ IsFiniteSet(inForce)
  BY FS_CardinalityType DEF StartInv, StartTypes
<1>4. own'[s].entries = [i \in 1 .. n |-> [stage |-> s, kind |-> kinds[i], rank |-> base + i]]
  BY <1>2, <1>3, StartScopes DEF Start!NewEffects
<1>5. mine = {[stage |-> s, kind |-> kinds[i], rank |-> base + i] : i \in 1 .. n}
  <2> HIDE DEF s, n, base
  <2> QED BY <1>4 DEF Start!Entries
<1>6. \A e \in mine : e.rank \in Nat /\ base < e.rank /\ e.rank <= base + n
  <2> HIDE DEF s, n, base, mine
  <2> QED BY <1>3, <1>5
<1>7. \A e \in inForce : e.rank \in Nat /\ e.rank <= base
  BY <1>1, EffectsAreRanked DEF RanksInv
<1>8. IsFiniteSet(mine) /\ Cardinality(mine) = n
  <2> DEFINE g == [i \in 1 .. n |-> [stage |-> s, kind |-> kinds[i], rank |-> base + i]]
  <2> HIDE DEF s, n, base, mine
  <2>1. \A i \in 1 .. n : g[i] \in mine /\ g[i].rank = base + i
    BY <1>5
  <2>2. g \in [1 .. n -> mine]
    BY <1>5
  <2>3. \A e \in mine : \E i \in 1 .. n : g[i] = e
    BY <1>5
  <2>4. \A i, j \in 1 .. n : g[i] = g[j] => i = j
    <3> HIDE DEF g
    <3> QED BY <1>3, <2>1
  <2> HIDE DEF g
  <2>5. ExistsBijection(1 .. n, mine)
    BY <2>2, <2>3, <2>4 DEF ExistsBijection, Bijection, Injection, Surjection, IsInjective
  <2>6. IsFiniteSet(1 .. n) /\ Cardinality(1 .. n) = n
    BY <1>3, FS_Interval
  <2> QED BY <2>5, <2>6, FS_Bijection
<1>9. Cardinality(inForce') = base + n
  <2> HIDE DEF s, n, mine
  <2>1. inForce \cap mine = {}
    BY <1>3, <1>6, <1>7
  <2>2. Cardinality(inForce \cap mine) = 0
    BY <2>1, FS_EmptySet
  <2>3. Cardinality(inForce \cup mine) = Cardinality(inForce) + Cardinality(mine) - Cardinality(inForce \cap mine)
    BY <1>3, <1>8, FS_Union
  <2> QED BY <1>2, <1>3, <1>8, <2>2, <2>3
<1>10. \A e \in inForce' : e.rank <= Cardinality(inForce')
  <2> HIDE DEF s, n, base, mine
  <2> QED BY <1>2, <1>3, <1>6, <1>7, <1>9
<1>11. ASSUME NEW i \in 1 .. 7, NEW j \in 1 .. 7, i < j,
             NEW e \in Start!Entries(own'[Start!BuildOrder[i]]), NEW f \in Start!Entries(own'[Start!BuildOrder[j]])
       PROVE  e.rank < f.rank
  <2>1. Start!BuildOrder[i] \in Start!Stages /\ Start!BuildOrder[j] \in Start!Stages
    BY StagesListed
  <2>2. CASE j = step
    <3>1. Start!BuildOrder[i] # s /\ i # step
      BY <1>1, <1>11, <2>2, StagesListed
    <3>2. e \in Start!Entries(own[Start!BuildOrder[i]])
      BY <1>2, <1>11, <2>1, <3>1
    <3>3. e \in inForce /\ f \in mine
      BY <1>1, <1>11, <2>2, <3>2, EffectsAreRanked
    <3> HIDE DEF s, base, n, mine
    <3> QED BY <1>3, <1>6, <1>7, <3>3
  <2>3. CASE j # step
    <3>1. Start!BuildOrder[j] # s
      BY <1>1, <1>11, <2>3, StagesListed
    <3>2. f \in Start!Entries(own[Start!BuildOrder[j]])
      BY <1>2, <1>11, <2>1, <3>1
    <3>3. j < step
      <4>1. own[Start!BuildOrder[j]].entries # <<>>
        BY <3>2 DEF Start!Entries
      <4>2. own[Start!BuildOrder[j]] # Start!NewScope
        BY <4>1 DEF Start!NewScope
      <4>3. \A k \in 1 .. 7 : k >= step => own[Start!BuildOrder[k]] = Start!NewScope
        BY <1>1 DEF StartInv, AheadInv
      <4>4. ~ (j >= step)
        BY <4>2, <4>3
      <4> QED BY <1>1, <4>4
    <3>4. Start!BuildOrder[i] # s
      BY <1>1, <1>11, <3>3, StagesListed
    <3>5. e \in Start!Entries(own[Start!BuildOrder[i]])
      BY <1>2, <1>11, <2>1, <3>4
    <3> QED BY <1>11, <3>2, <3>5 DEF RanksInv
  <2> QED BY <2>2, <2>3
<1>12. stage' = "build" => \A e \in inForce' : e.rank <= Cardinality(inForce')
  BY <1>10
<1> QED BY <1>11, <1>12 DEF RanksInv, Start!Entries

\* The stage that is undone next is the last one built of which anything is
\* left, so that what goes is newer than whatever stays.
LEMMA RanksUndone ==
  ASSUME StartInv, RanksInv, stage = "cleanup", stage' = "cleanup", Start!Remaining # {},
         NEW t, NEW gone, StageLesser(Start!FirstRemaining, own[Start!FirstRemaining], t, gone),
         own' = [own EXCEPT ![Start!FirstRemaining] = t], inForce' = inForce \ gone
  PROVE  RanksInv' /\ \A e \in inForce \ inForce' : \A f \in inForce' : f.rank < e.rank
<1> DEFINE s == Start!FirstRemaining  m == Start!Min(Start!Remaining)
<1>1. /\ m \in 1 .. 7 /\ s = Start!BuildOrder[8 - m] /\ s \in Start!Stages
      /\ \A k \in 1 .. 7 : k < m => own[Start!CleanupOrder[k]].state = "disposed"
  <2>1. Start!Remaining \subseteq 0 .. 7 /\ Start!Remaining \subseteq 1 .. 7
    BY StagesListed DEF Start!Remaining
  <2>2. m \in Start!Remaining /\ \A k \in Start!Remaining : m <= k
    BY <2>1, LeastOf
  <2>3. m \in 1 .. 7 /\ s = Start!CleanupOrder[m]
    BY <2>1, <2>2 DEF Start!FirstRemaining
  <2>4. ASSUME NEW k \in 1 .. 7, k < m PROVE own[Start!CleanupOrder[k]].state = "disposed"
    <3>1. k \notin Start!Remaining
      <4> HIDE DEF m
      <4> QED BY <2>2, <2>3, <2>4
    <3> QED BY <3>1, StagesListed DEF Start!Remaining
  <2> HIDE DEF s, m
  <2> QED BY <2>3, <2>4, StagesListed
<1>2. \A i \in 1 .. 7 : i > 8 - m => Start!Entries(own[Start!BuildOrder[i]]) = {}
  <2> HIDE DEF s, m
  <2> SUFFICES ASSUME NEW i \in 1 .. 7, i > 8 - m PROVE Start!Entries(own[Start!BuildOrder[i]]) = {}
    OBVIOUS
  <2>1. 8 - i \in 1 .. 7 /\ 8 - i < m /\ 8 - (8 - i) = i
    BY <1>1
  <2>2. Start!CleanupOrder[8 - i] = Start!BuildOrder[i] /\ Start!BuildOrder[i] \in Start!Stages
    BY <2>1, StagesListed
  <2>3. own[Start!BuildOrder[i]].state = "disposed"
    BY <1>1, <2>1, <2>2
  <2>4. own[Start!BuildOrder[i]].entries = <<>>
    BY <2>2, <2>3 DEF StartInv, StartTypes, StageScope
  <2> QED BY <2>4 DEF Start!Entries
<1> HIDE DEF s, m
<1>3. /\ StageLesser(s, own[s], t, gone) /\ own' = [own EXCEPT ![s] = t]
      /\ DOMAIN own = Start!Stages
  BY DEF s, StartInv, StartTypes
<1>4. /\ own'[s] = t /\ \A u \in Start!Stages : u # s => own'[u] = own[u]
      /\ Start!Entries(t) = Start!Entries(own[s]) \ gone /\ gone \subseteq Start!Entries(own[s])
      /\ \A e \in gone, f \in Start!Entries(t) : f.rank < e.rank
  BY <1>1, <1>3 DEF StageLesser
<1>5. \A i \in 1 .. 7 : Start!Entries(own'[Start!BuildOrder[i]]) \subseteq Start!Entries(own[Start!BuildOrder[i]])
  <2> TAKE i \in 1 .. 7
  <2>1. Start!BuildOrder[i] \in Start!Stages
    BY StagesListed
  <2>2. CASE Start!BuildOrder[i] = s
    BY <1>4, <2>2
  <2>3. CASE Start!BuildOrder[i] # s
    BY <1>4, <2>1, <2>3
  <2> QED BY <2>2, <2>3
<1>6. RanksInv'
  <2>1. ASSUME NEW i \in 1 .. 7, NEW j \in 1 .. 7, i < j,
               NEW e \in Start!Entries(own'[Start!BuildOrder[i]]), NEW f \in Start!Entries(own'[Start!BuildOrder[j]])
        PROVE  e.rank < f.rank
    BY <1>5, <2>1 DEF RanksInv
  <2> QED BY <2>1 DEF RanksInv, Start!Entries
<1>7. ASSUME NEW e \in gone, NEW f \in inForce', f \notin gone PROVE f.rank < e.rank
  <2>1. PICK i \in 1 .. 7 : f \in Start!Entries(own[Start!BuildOrder[i]])
    BY <1>7, EffectsAreRanked
  <2>2. ~ (i > 8 - m)
    BY <1>2, <2>1
  <2>3. CASE i = 8 - m
    BY <1>1, <1>4, <1>7, <2>1, <2>3
  <2>4. CASE i # 8 - m
    <3>1. i < 8 - m /\ 8 - m \in 1 .. 7
      BY <1>1, <2>2, <2>4
    <3>2. e \in Start!Entries(own[Start!BuildOrder[8 - m]])
      BY <1>1, <1>4
    <3> QED BY <2>1, <3>1, <3>2 DEF RanksInv
  <2> QED BY <2>3, <2>4
<1> QED BY <1>6, <1>7

\* Every step of the start keeps the ranks, and undoes only what is newer than
\* whatever it leaves.
LEMMA RanksStep ==
  ASSUME Start!Parameters, StartInv, RanksInv, Start!Next
  PROVE  RanksInv' /\ \A e \in inForce \ inForce' : \A f \in inForce' : f.rank < e.rank
<1>1. ASSUME Start!Building, NEW kinds \in Seq({"sync", "async"}), Start!Owns(Start!At, kinds)
      PROVE  RanksInv' /\ inForce \ inForce' = {}
  <2>1. inForce \subseteq inForce'
    BY <1>1 DEF Start!Owns
  <2> QED BY <1>1, <2>1, RanksBuilt
<1>2. ASSUME UNCHANGED <<own, inForce>>, stage' = "build" => stage = "build"
      PROVE  RanksInv' /\ inForce \ inForce' = {}
  BY <1>2 DEF RanksInv, Start!Entries
<1>3. ASSUME NEW kinds \in Start!Kinds, Start!Prepare(kinds) \/ Start!Activate(kinds) \/ Start!ActivateFails(kinds)
      PROVE  RanksInv' /\ inForce \ inForce' = {}
  <2>1. kinds \in Seq({"sync", "async"}) /\ Append(kinds, "async") \in Seq({"sync", "async"})
    BY KindsAreSequences
  <2>2. Start!Building /\ (Start!Owns(Start!At, kinds) \/ Start!Owns(Start!At, Append(kinds, "async")))
    BY <1>3 DEF Start!Prepare, Start!Activate, Start!ActivateFails
  <2> QED BY <1>1, <2>1, <2>2
<1>4. ASSUME Start!RegisterMarkdown PROVE RanksInv' /\ inForce \ inForce' = {}
  <2> DEFINE kinds == [i \in 1 .. MaxMarkdown |-> "async"]
  <2>1. kinds \in Seq({"sync", "async"})
    BY DEF Start!Parameters
  <2> HIDE DEF kinds
  <2>2. Start!Building /\ Start!Owns(Start!At, kinds)
    BY <1>4 DEF Start!RegisterMarkdown, kinds
  <2> QED BY <1>1, <2>1, <2>2
<1>5. CASE Start!DisposeStage
  <2>1. StageScope(Start!FirstRemaining, own[Start!FirstRemaining])
    BY <1>5, NextStage DEF Start!DisposeStage, StartInv, StartTypes
  <2>2. StageLesser(Start!FirstRemaining, own[Start!FirstRemaining],
                    Start!Unwound(own[Start!FirstRemaining]), Start!Undoable(own[Start!FirstRemaining]))
    BY <2>1, StageUnwound
  <2>3. /\ stage = "cleanup" /\ stage' = "cleanup" /\ Start!Remaining # {}
        /\ own' = [own EXCEPT ![Start!FirstRemaining] = Start!Unwound(own[Start!FirstRemaining])]
        /\ inForce' = inForce \ Start!Undoable(own[Start!FirstRemaining])
    BY <1>5 DEF Start!DisposeStage
  <2> QED BY <2>2, <2>3, RanksUndone
<1>6. CASE Start!StopEnds
  <2> DEFINE s == Start!FirstRemaining
             gone == {Start!Newest(own[s])} \cup Start!Undoable(Start!Popped(own[s]))
  <2>1. StageScope(s, own[s]) /\ own[s].entries # <<>>
    BY <1>6, NextStage DEF Start!StopEnds, StartInv, StartTypes, Start!Awaiting
  <2>2. StageLesser(s, own[s], Start!Unwound(Start!Popped(own[s])), gone)
    <3> HIDE DEF s
    <3> QED BY <2>1, StageAnswered
  <2>3. /\ stage = "cleanup" /\ stage' = "cleanup" /\ Start!Remaining # {}
        /\ own' = [own EXCEPT ![s] = Start!Unwound(Start!Popped(own[s]))] /\ inForce' = inForce \ gone
    BY <1>6 DEF Start!StopEnds
  <2> QED BY <2>2, <2>3, RanksUndone
<1>7. ASSUME Start!RefuseProviders \/ Start!PrepareFails \/ Start!RegisterFails \/ Start!AuditFails
               \/ Start!Publish \/ Start!StopFails \/ Start!Retry \/ Start!CleanupEnds
      PROVE  RanksInv' /\ inForce \ inForce' = {}
  <2>1. UNCHANGED <<own, inForce>> /\ (stage' = "build" => stage = "build")
    BY <1>7 DEF Start!RefuseProviders, Start!PrepareFails, Start!RegisterFails, Start!AuditFails,
                Start!Publish, Start!StopFails, Start!Retry, Start!CleanupEnds
  <2> QED BY <1>2, <2>1
<1> QED BY <1>3, <1>4, <1>5, <1>6, <1>7 DEF Start!Next
-----------------------------------------------------------------------------
(*****************************************************************************)
(* The exit.                                                               *)
(*****************************************************************************)
\* What an exit and its callers may be.
ExitTypes ==
  /\ caller \in [Callers -> {"away", "waiting", "running", "answered"}]
  /\ DOMAIN answer = Callers /\ answer = [c \in Callers |-> answer[c]]
  /\ started \in BOOLEAN /\ runs = IF started THEN 1 ELSE 0
  /\ work \in [Exit!Operations -> {"none", "running", "ok", "failed"}]
  /\ DOMAIN heard = Exit!Operations /\ heard = [o \in Exit!Operations |-> heard[o]]

\* Who runs the exit is alone and first; what was heard and reported as a
\* success is one.
RunnerInv ==
  /\ ~ started => \A c \in Callers : caller[c] \notin {"running", "answered"}
  /\ \A c, d \in Callers : caller[c] = "running" /\ caller[d] = "running" => c = d
  /\ \A c \in Callers : caller[c] = "running" =>
       result = None /\ \A d \in Callers : caller[d] # "answered"
  /\ result # None => started /\ \A c \in Callers : caller[c] # "running"
  /\ \A o \in Exit!Operations : heard[o] # None /\ heard[o] = "ok" => work[o] = "ok"
  /\ \A o \in Exit!Operations : ~ started => heard[o] = None
  /\ result # None => \A o \in Exit!Operations : result[o] = "ok" => work[o] = "ok"

\* The inductive invariant of the exit.
ExitInv == ExitTypes /\ RunnerInv /\ Exit!OneExit

\* A report tells of successes only what was heard.
LEMMA ReportIsHeard ==
  ASSUME ExitInv
  PROVE  \A o \in Exit!Operations : Exit!Report[o] = "ok" => work[o] = "ok"
BY DEF ExitInv, RunnerInv, Exit!Report

\* The exit runs once, and every step keeps its one report.
LEMMA ExitStep ==
  ASSUME ExitInv, Exit!Next
  PROVE  ExitInv'
<1> USE DEF ExitInv, ExitTypes, RunnerInv, Exit!OneExit
<1>1. ASSUME NEW c \in Callers, Exit!Start(c) PROVE ExitInv'
  <2>1. /\ ~ started /\ result = None /\ started' = TRUE /\ runs' = 1 /\ answer' = answer /\ result' = result
        /\ caller' = [caller EXCEPT ![c] = "running"]
    BY <1>1 DEF Exit!Start
  <2>2. PICK spawned \in SUBSET Exit!Operations :
          /\ work' = [o \in Exit!Operations |-> IF o \in spawned THEN "running" ELSE "none"]
          /\ heard' = [o \in Exit!Operations |-> IF o \in spawned THEN None ELSE "failed"]
    BY <1>1 DEF Exit!Start
  <2>3. ExitTypes'
    BY <2>1, <2>2
  <2>4. \A d \in Callers : caller'[d] # "answered" /\ (caller'[d] = "running" => d = c)
    BY <2>1
  <2>5. RunnerInv'
    BY <2>1, <2>2, <2>4
  <2> QED BY <2>1, <2>3, <2>4, <2>5
<1>2. ASSUME NEW c \in Callers, Exit!Join(c) PROVE ExitInv'
  BY <1>2 DEF Exit!Join
<1>3. ASSUME NEW c \in Callers, Exit!Answered(c) PROVE ExitInv'
  <2>1. /\ result # None /\ caller' = [caller EXCEPT ![c] = "answered"] /\ answer' = [answer EXCEPT ![c] = result]
        /\ UNCHANGED <<started, result, work, heard, late, runs>>
    BY <1>3 DEF Exit!Answered
  <2>2. ExitTypes'
    BY <2>1
  <2>3. RunnerInv'
    BY <2>1
  <2>4. ASSUME NEW d \in Callers, caller'[d] = "answered"
        PROVE  answer'[d] = result' /\ \A o \in Exit!Operations : answer'[d][o] = "ok" => work'[o] = "ok"
    BY <2>1, <2>4
  <2> QED BY <2>1, <2>2, <2>3, <2>4
<1>4. ASSUME NEW c \in Callers, Exit!Finish(c) PROVE ExitInv'
  <2>1. /\ caller[c] = "running" /\ result' = Exit!Report
        /\ caller' = [caller EXCEPT ![c] = "answered"] /\ answer' = [answer EXCEPT ![c] = result']
        /\ UNCHANGED <<started, work, heard, late, runs>>
    BY <1>4 DEF Exit!Finish
  <2>2. \A o \in Exit!Operations : result'[o] = "ok" => work'[o] = "ok"
    BY <2>1, ReportIsHeard
  <2>3. started /\ \A d \in Callers : d # c => caller'[d] \notin {"running", "answered"}
    BY <2>1
  <2>4. ExitTypes'
    BY <2>1
  <2>5. RunnerInv'
    BY <2>1, <2>2, <2>3
  <2> QED BY <2>1, <2>2, <2>3, <2>4, <2>5
<1>5. ASSUME NEW o \in Exit!Operations, Exit!WorkEnds(o) PROVE ExitInv'
  BY <1>5 DEF Exit!WorkEnds, Exit!Outcomes
<1>6. ASSUME NEW o \in Exit!Operations, Exit!Hear(o) PROVE ExitInv'
  BY <1>6 DEF Exit!Hear, Exit!Running
<1>7. ASSUME Exit!DeadlinePasses PROVE ExitInv'
  BY <1>7 DEF Exit!DeadlinePasses
<1> QED BY <1>1, <1>2, <1>3, <1>4, <1>5, <1>6, <1>7 DEF Exit!Next

\* Nobody has asked at first.
LEMMA ExitInit == ASSUME Exit!Init PROVE ExitInv
<1>1. ExitTypes
  BY DEF Exit!Init, ExitTypes
<1>2. RunnerInv
  BY DEF Exit!Init, RunnerInv
<1>3. Exit!OneExit
  BY DEF Exit!Init, Exit!OneExit
<1> QED BY <1>1, <1>2, <1>3 DEF ExitInv

\* The exit does not change while another part runs.
LEMMA ExitFrame == ASSUME ExitInv, UNCHANGED exitVars PROVE ExitInv'
BY DEF exitVars, ExitInv, ExitTypes, RunnerInv, Exit!OneExit
-----------------------------------------------------------------------------
(*****************************************************************************)
(* The documents.                                                          *)
(*****************************************************************************)
Documents == [line : Nat, n : Nat]

\* A thread of the exit that may still write its snapshot.
SaverPending == saver.state \in {"running", "late"}

\* What the documents, the saver of the exit and the running program may be; no
\* line is newer than the run.
DocumentTypes ==
  /\ {docs, onDisk, kept} \subseteq [Store!LiveFiles -> Documents]
  /\ saver \in [snapshot : Documents, asked : Documents, state : {"none", "running", "late", "saved", "failed"}]
  /\ quit \in BOOLEAN /\ running \in BOOLEAN /\ starts \in Nat
  /\ writing # None => running /\ writing \in Store!LiveFiles
  /\ saver.snapshot.line <= starts
  /\ \A d \in Store!LiveFiles : docs[d].line <= starts /\ onDisk[d].line <= starts

\* What the snapshot of an exit may be, as long as its thread may write it.
SaverInv ==
  running =>
    /\ ~ quit => saver.state = "none"
    /\ SaverPending =>
         /\ saver.asked = saver.snapshot
         /\ Store!Replaces(saver.snapshot, kept["preferences"], starts)
         /\ Store!Replaces(docs["preferences"], saver.snapshot, starts)

\* The inductive invariant of the documents.
DocumentInv == DocumentTypes /\ SaverInv /\ SavedStays

\* A document replaces itself, and what it replaces is replaced by its changes
\* and by what replaces it.
LEMMA ReplacesItself == ASSUME NEW a \in Documents, NEW r PROVE Store!Replaces(a, a, r)
BY DEF Documents, Store!Replaces

LEMMA ReplacesThrough ==
  ASSUME NEW a \in Documents, NEW b \in Documents, NEW c \in Documents, NEW r \in Nat,
         Store!Replaces(a, b, r), Store!Replaces(b, c, r)
  PROVE  Store!Replaces(a, c, r)
BY DEF Documents, Store!Replaces

LEMMA ReplacesChanged ==
  ASSUME NEW a \in Documents, NEW b \in Documents, NEW r \in Nat, Store!Replaces(a, b, r)
  PROVE  /\ Store!Changed(a) \in Documents /\ Store!Changed(a).line = a.line
         /\ Store!Replaces(Store!Changed(a), a, r) /\ Store!Replaces(Store!Changed(a), b, r)
<1>1. Store!Changed(a) = [line |-> a.line, n |-> a.n + 1]
  BY DEF Store!Changed, Documents
<1>2. Store!Changed(a) \in Documents /\ Store!Changed(a).line = a.line /\ Store!Changed(a).n = a.n + 1
  BY <1>1 DEF Documents
<1>3. Store!Replaces(Store!Changed(a), a, r)
  BY <1>2 DEF Documents, Store!Replaces
<1> QED BY <1>2, <1>3, ReplacesThrough

\* A step keeps the types.
LEMMA DocumentTypesKept ==
  ASSUME DocumentInv, Store!Next
  PROVE  DocumentTypes'
<1> USE DEF DocumentInv, DocumentTypes
<1>1. ASSUME NEW d \in Store!LiveFiles, Store!UpdateWith(d), running,
             UNCHANGED <<onDisk, quit, saver, running, starts, kept>>
      PROVE  DocumentTypes'
  <2>1. Store!Changed(docs[d]) \in Documents /\ Store!Changed(docs[d]).line = docs[d].line
    BY <1>1, ReplacesItself, ReplacesChanged
  <2>2. docs' = [docs EXCEPT ![d] = Store!Changed(docs[d])] /\ writing' = d
    BY <1>1 DEF Store!UpdateWith
  <2> QED BY <1>1, <2>1, <2>2
<1>2. ASSUME NEW d \in Store!LiveFiles, Store!Change(d) PROVE DocumentTypes'
  BY <1>1, <1>2 DEF Store!Change, Store!Idle
<1>3. CASE Store!Persist
  BY <1>3 DEF Store!Persist
<1>4. CASE Store!OpenSettings \/ Store!PreviewTint \/ Store!ReleaseSettings
  BY <1>4 DEF Store!OpenSettings, Store!PreviewTint, Store!ReleaseSettings
<1>5. CASE Store!PersistTint \/ Store!StoreReleased
  <2>1. "preferences" \in Store!LiveFiles
    BY DEF Store!LiveFiles
  <2> QED BY <1>1, <1>5, <2>1 DEF Store!PersistTint, Store!StoreReleased, Store!Idle
<1>6. CASE Store!PrepareExit
  <2>1. "preferences" \in Store!LiveFiles
    BY DEF Store!LiveFiles
  <2> DEFINE doc == Store!Changed(docs["preferences"])
  <2>2. doc \in Documents /\ doc.line = docs["preferences"].line
    BY <2>1, ReplacesItself, ReplacesChanged
  <2>3. /\ docs' = [docs EXCEPT !["preferences"] = doc]
        /\ saver' = [snapshot |-> doc, asked |-> docs'["preferences"], state |-> "running"]
        /\ quit' = TRUE /\ UNCHANGED <<onDisk, writing, running, starts, kept>>
    BY <1>6 DEF Store!PrepareExit, Store!SnapshotWith
  <2> HIDE DEF doc
  <2>4. docs'["preferences"] = doc /\ docs' \in [Store!LiveFiles -> Documents]
    BY <2>1, <2>2, <2>3
  <2> QED BY <2>1, <2>2, <2>3, <2>4
<1>7. CASE Store!SaverPersists
  BY <1>7 DEF Store!SaverPersists, Store!LiveFiles
<1>8. CASE Store!DeadlinePasses \/ Store!LateWrite \/ Store!Quit
  <2>1. CASE Store!DeadlinePasses
    BY <2>1 DEF Store!DeadlinePasses
  <2>2. CASE Store!LateWrite
    BY <2>2 DEF Store!LateWrite, Store!LiveFiles
  <2>3. CASE Store!Quit
    BY <2>3 DEF Store!Quit, Store!Idle
  <2> QED BY <1>8, <2>1, <2>2, <2>3
<1>9. CASE Store!Crash
  BY <1>9 DEF Store!Crash
<1>10. CASE Store!Start
  <2>1. PICK unread \in SUBSET Store!LiveFiles : docs' = Store!Loaded(unread, starts + 1)
    BY <1>10 DEF Store!Start
  <2>2. /\ starts' = starts + 1 /\ kept' = onDisk /\ running' = TRUE /\ quit' = FALSE
        /\ UNCHANGED <<onDisk, writing>> /\ saver' = Store!NoSaver
    BY <1>10 DEF Store!Start
  <2>3. Store!Defaults(starts + 1) \in Documents /\ Store!Defaults(starts + 1).line = starts + 1
        /\ Store!Defaults(0) \in Documents /\ Store!Defaults(0).line = 0
    BY DEF Store!Defaults, Documents
  <2>4. docs' \in [Store!LiveFiles -> Documents]
        /\ \A d \in Store!LiveFiles : docs'[d] \in {onDisk[d], Store!Defaults(starts + 1)}
    BY <2>1, <2>3 DEF Store!Loaded
  <2>5. \A d \in Store!LiveFiles : docs'[d].line <= starts + 1 /\ onDisk[d].line <= starts + 1
    BY <2>3, <2>4 DEF Documents
  <2>6. /\ saver'.snapshot.line = 0
        /\ saver' \in [snapshot : Documents, asked : Documents, state : {"none", "running", "late", "saved", "failed"}]
    BY <2>2, <2>3 DEF Store!NoSaver
  <2>7. writing = None
    BY <1>10 DEF Store!Start
  <2>8. writing' = None /\ saver'.snapshot.line <= starts' /\ starts' \in Nat
    BY <2>2, <2>6, <2>7
  <2>9. {docs', onDisk', kept'} \subseteq [Store!LiveFiles -> Documents]
    BY <2>2, <2>4
  <2>10. \A d \in Store!LiveFiles : docs'[d].line <= starts' /\ onDisk'[d].line <= starts'
    BY <2>2, <2>5
  <2> QED
    <3>1. quit' \in BOOLEAN /\ running' \in BOOLEAN
      BY <2>2
    <3> HIDE DEF DocumentInv
    <3> QED BY <2>6, <2>8, <2>9, <2>10, <3>1, Zenon DEF DocumentTypes
<1> QED BY <1>2, <1>3, <1>4, <1>5, <1>6, <1>7, <1>8, <1>9, <1>10 DEF Store!Next

\* A write never goes behind what was reported saved, an exit's late thread
\* included: its snapshot replaces what was kept before it.
LEMMA DocumentStep ==
  ASSUME DocumentInv, Store!Next
  PROVE  SaverInv' /\ SavedStays'
<1>1. /\ docs \in [Store!LiveFiles -> Documents] /\ onDisk \in [Store!LiveFiles -> Documents]
      /\ kept \in [Store!LiveFiles -> Documents] /\ saver.snapshot \in Documents /\ starts \in Nat
      /\ "preferences" \in Store!LiveFiles
      /\ writing # None => running /\ writing \in Store!LiveFiles
  BY DEF DocumentInv, DocumentTypes, Store!LiveFiles
<1>2. /\ \A d \in Store!LiveFiles : Store!Replaces(onDisk[d], kept[d], starts)
      /\ running => \A d \in Store!LiveFiles : Store!Replaces(docs[d], onDisk[d], starts)
      /\ running /\ ~ quit => saver.state = "none"
      /\ running /\ saver.state \in {"running", "late"} =>
           /\ saver.asked = saver.snapshot
           /\ Store!Replaces(saver.snapshot, kept["preferences"], starts)
           /\ Store!Replaces(docs["preferences"], saver.snapshot, starts)
  BY DEF DocumentInv, SaverInv, SaverPending, SavedStays, Store!SavedStays
<1>3. \A d \in Store!LiveFiles : docs[d] \in Documents /\ onDisk[d] \in Documents /\ kept[d] \in Documents
  BY <1>1
<1>4. \A x \in Documents : Store!Replaces(x, x, starts)
  BY ReplacesItself
<1>5. \A x, y, z \in Documents :
        Store!Replaces(x, y, starts) /\ Store!Replaces(y, z, starts) => Store!Replaces(x, z, starts)
  BY <1>1, ReplacesThrough
<1>6. \A x \in Documents : Store!Changed(x) \in Documents /\ Store!Replaces(Store!Changed(x), x, starts)
  BY <1>1, ReplacesItself, ReplacesChanged
<1>7. running => \A d \in Store!LiveFiles : Store!Replaces(docs[d], kept[d], starts)
  BY <1>2, <1>3, <1>5
<1> USE DEF SaverInv, SaverPending, SavedStays, Store!SavedStays
<1>8. ASSUME NEW d \in Store!LiveFiles, Store!UpdateWith(d), running,
             UNCHANGED <<onDisk, quit, saver, running, starts, kept>>
      PROVE  SaverInv' /\ SavedStays'
  <2>1. docs' = [docs EXCEPT ![d] = Store!Changed(docs[d])]
    BY <1>8 DEF Store!UpdateWith
  <2>2. \A e \in Store!LiveFiles : docs'[e] \in Documents /\ Store!Replaces(docs'[e], docs[e], starts)
    BY <1>1, <1>3, <1>4, <1>6, <2>1
  <2>3. \A e \in Store!LiveFiles : Store!Replaces(docs'[e], onDisk[e], starts)
    BY <1>2, <1>3, <1>5, <1>8, <2>2
  <2>4. SaverPending => Store!Replaces(docs'["preferences"], saver.snapshot, starts)
    BY <1>1, <1>2, <1>3, <1>5, <1>8, <2>2
  <2> QED BY <1>2, <1>8, <2>3, <2>4
<1>9. ASSUME NEW d \in Store!LiveFiles, Store!Change(d) PROVE SaverInv' /\ SavedStays'
  BY <1>8, <1>9 DEF Store!Change, Store!Idle
<1>10. CASE Store!Persist
  <2>1. running /\ writing \in Store!LiveFiles /\ UNCHANGED <<docs, saver, quit, running, starts>>
    BY <1>1, <1>10 DEF Store!Persist
  <2>2. \/ UNCHANGED <<onDisk, kept>>
        \/ onDisk' = [onDisk EXCEPT ![writing] = docs[writing]] /\ kept' = kept
        \/ /\ ~ quit
           /\ onDisk' = [onDisk EXCEPT ![writing] = docs[writing]]
           /\ kept' = [kept EXCEPT ![writing] = docs[writing]]
    BY <1>10 DEF Store!Persist
  <2>3. \A e \in Store!LiveFiles : Store!Replaces(onDisk'[e], kept'[e], starts)
    BY <1>1, <1>2, <1>3, <1>4, <1>7, <2>1, <2>2
  <2>4. \A e \in Store!LiveFiles : Store!Replaces(docs[e], onDisk'[e], starts)
    BY <1>1, <1>2, <1>3, <1>4, <2>1, <2>2
  <2>5. SaverPending => kept' = kept
    BY <1>2, <2>1, <2>2
  <2> QED BY <1>2, <2>1, <2>3, <2>4, <2>5
<1>11. CASE Store!OpenSettings \/ Store!PreviewTint \/ Store!ReleaseSettings
  BY <1>2, <1>11 DEF Store!OpenSettings, Store!PreviewTint, Store!ReleaseSettings
<1>12. CASE Store!PersistTint \/ Store!StoreReleased
  BY <1>1, <1>8, <1>12 DEF Store!PersistTint, Store!StoreReleased, Store!Idle
<1>13. CASE Store!PrepareExit
  <2> DEFINE doc == Store!Changed(docs["preferences"])
  <2>1. /\ docs' = [docs EXCEPT !["preferences"] = doc]
        /\ saver' = [snapshot |-> doc, asked |-> docs'["preferences"], state |-> "running"]
        /\ quit' = TRUE /\ running /\ UNCHANGED <<onDisk, writing, running, starts, kept>>
    BY <1>13 DEF Store!PrepareExit, Store!SnapshotWith, Store!Idle
  <2>2. doc \in Documents /\ Store!Replaces(doc, docs["preferences"], starts)
    BY <1>1, <1>3, <1>6
  <2> HIDE DEF doc
  <2>3. docs'["preferences"] = doc /\ \A e \in Store!LiveFiles : docs'[e] \in {docs[e], doc}
        /\ (e # "preferences" => docs'[e] = docs[e])
    BY <1>1, <2>1
  <2>4. Store!Replaces(doc, kept["preferences"], starts) /\ Store!Replaces(doc, onDisk["preferences"], starts)
        /\ Store!Replaces(doc, doc, starts)
    BY <1>1, <1>2, <1>3, <1>4, <1>5, <1>7, <2>1, <2>2
  <2>5. \A e \in Store!LiveFiles : Store!Replaces(docs'[e], onDisk[e], starts)
    BY <1>2, <2>1, <2>3, <2>4
  <2> QED BY <1>2, <2>1, <2>3, <2>4, <2>5
<1>14. CASE Store!SaverPersists \/ Store!LateWrite
  <2> DEFINE snap == saver.snapshot
  <2>1. /\ running /\ saver.state \in {"running", "late"} /\ UNCHANGED <<docs, quit, running, starts>>
        /\ saver'.state \in {"saved", "failed"} /\ quit
    <3>1. CASE Store!SaverPersists
      BY <1>1, <1>2, <3>1 DEF Store!SaverPersists, DocumentInv, DocumentTypes
    <3>2. CASE Store!LateWrite
      BY <1>1, <1>2, <3>2 DEF Store!LateWrite, DocumentInv, DocumentTypes
    <3> QED BY <1>14, <3>1, <3>2
  <2>2. snap \in Documents /\ saver.asked = snap /\ Store!Replaces(snap, kept["preferences"], starts)
        /\ Store!Replaces(docs["preferences"], snap, starts)
    BY <1>1, <1>2, <2>1
  <2>3. \/ UNCHANGED <<onDisk, kept>>
        \/ onDisk' = [onDisk EXCEPT !["preferences"] = snap] /\ kept' = kept
        \/ onDisk' = [onDisk EXCEPT !["preferences"] = snap] /\ kept' = [kept EXCEPT !["preferences"] = snap]
    BY <1>14, <2>2 DEF Store!SaverPersists, Store!LateWrite
  <2> HIDE DEF snap
  <2>4. \A e \in Store!LiveFiles : Store!Replaces(onDisk'[e], kept'[e], starts)
    BY <1>1, <1>2, <1>3, <1>4, <2>2, <2>3
  <2>5. \A e \in Store!LiveFiles : Store!Replaces(docs[e], onDisk'[e], starts)
    BY <1>1, <1>2, <1>3, <2>1, <2>2, <2>3
  <2> QED BY <2>1, <2>4, <2>5
<1>15. CASE Store!DeadlinePasses
  <2>1. /\ saver.state = "running" /\ running /\ UNCHANGED <<docs, onDisk, quit, running, starts, kept>>
        /\ saver' = [saver EXCEPT !.state = "late"]
    BY <1>15 DEF Store!DeadlinePasses
  <2>2. saver'.snapshot = saver.snapshot /\ saver'.asked = saver.asked /\ saver'.state = "late"
    BY <2>1 DEF DocumentInv, DocumentTypes
  <2> QED BY <1>2, <2>1, <2>2
<1>16. CASE Store!Quit
  BY <1>2, <1>16 DEF Store!Quit
<1>17. CASE Store!Crash
  <2>1. ~ running' /\ UNCHANGED <<starts, kept>> /\ running
    BY <1>17 DEF Store!Crash
  <2>2. onDisk' = onDisk
        \/ \E d \in Store!LiveFiles : onDisk' = [onDisk EXCEPT ![d] = docs[d]]
    BY <1>17 DEF Store!Crash
  <2>3. \A e \in Store!LiveFiles : Store!Replaces(onDisk'[e], kept[e], starts)
    BY <1>1, <1>2, <1>7, <2>1, <2>2
  <2> QED BY <2>1, <2>3
<1>18. CASE Store!Start
  <2>1. PICK unread \in SUBSET Store!LiveFiles : docs' = Store!Loaded(unread, starts + 1)
    BY <1>18 DEF Store!Start
  <2>2. /\ starts' = starts + 1 /\ kept' = onDisk /\ running' = TRUE /\ quit' = FALSE
        /\ onDisk' = onDisk /\ saver'.state = "none"
    BY <1>18 DEF Store!Start, Store!NoSaver
  <2>3. \A d \in Store!LiveFiles : docs'[d] \in {onDisk[d], Store!Defaults(starts + 1)}
    BY <2>1 DEF Store!Loaded
  <2>4. \A d \in Store!LiveFiles : Store!Replaces(onDisk[d], onDisk[d], starts + 1)
    BY <1>3, ReplacesItself
  <2>5. ASSUME NEW d \in Store!LiveFiles
        PROVE  Store!Replaces(Store!Defaults(starts + 1), onDisk[d], starts + 1)
    <3>1. onDisk[d].line \in Nat /\ onDisk[d].line <= starts
      BY <1>3 DEF DocumentInv, DocumentTypes, Documents
    <3>2. Store!Defaults(starts + 1).line = starts + 1
      BY DEF Store!Defaults
    <3> QED BY <1>1, <3>1, <3>2 DEF Store!Replaces
  <2>6. \A d \in Store!LiveFiles : Store!Replaces(docs'[d], onDisk[d], starts + 1)
    BY <2>3, <2>4, <2>5
  <2> QED BY <2>2, <2>4, <2>6
<1> QED BY <1>9, <1>10, <1>11, <1>12, <1>13, <1>14, <1>15, <1>16, <1>17, <1>18 DEF Store!Next

\* Nothing has been changed at first.
LEMMA DocumentInit == ASSUME Store!Init PROVE DocumentInv
<1> DEFINE doc == Store!Defaults(0)
<1>1. /\ docs = [d \in Store!LiveFiles |-> doc] /\ onDisk = docs /\ kept = docs
      /\ writing = None /\ quit = FALSE /\ running = TRUE /\ starts = 0
      /\ saver = [snapshot |-> doc, asked |-> doc, state |-> "none"]
  BY DEF Store!Init, Store!NoSaver
<1>2. doc \in Documents /\ doc.line = 0
  BY DEF Store!Defaults, Documents
<1>3. Store!Replaces(doc, doc, 0)
  BY <1>2, ReplacesItself
<1> HIDE DEF doc
<1>4. DocumentTypes
  <2>1. docs \in [Store!LiveFiles -> Documents] /\ onDisk = docs /\ kept = docs
    BY <1>1, <1>2
  <2>2. saver \in [snapshot : Documents, asked : Documents, state : {"none", "running", "late", "saved", "failed"}]
    BY <1>1, <1>2
  <2>3. \A d \in Store!LiveFiles : docs[d].line <= starts /\ onDisk[d].line <= starts
    BY <1>1, <1>2
  <2>4. saver.snapshot.line <= starts
    BY <1>1, <1>2
  <2> QED BY <1>1, <2>1, <2>2, <2>3, <2>4 DEF DocumentTypes
<1>5. SaverInv
  BY <1>1 DEF SaverInv, SaverPending
<1>6. SavedStays
  BY <1>1, <1>3 DEF SavedStays, Store!SavedStays
<1> QED BY <1>4, <1>5, <1>6 DEF DocumentInv

\* The documents do not change while another part runs.
LEMMA DocumentFrame == ASSUME DocumentInv, UNCHANGED storeVars PROVE DocumentInv'
BY DEF storeVars, DocumentInv, DocumentTypes, SaverInv, SaverPending, SavedStays, Store!SavedStays
-----------------------------------------------------------------------------
(*****************************************************************************)
(* The registries.                                                         *)
(*****************************************************************************)
\* The entries, the layers and the tokens of a registry.
EntryRecords == [id : Ids, order : Orders, generation : Nat]
LayerRecords == [parent : Scopes \cup {None}, entries : SUBSET EntryRecords]
Tokens == [scope : Scopes, id : Ids, generation : Nat]

\* The token that was handed out for an entry.
TokenOf(s, e) == [scope |-> s, id |-> e.id, generation |-> e.generation]

\* The layers that are there, each of them finite.
RegistryTypes ==
  /\ layers \in [Scopes -> LayerRecords \cup {None}]
  /\ next_generation \in Nat
  /\ registered \subseteq Tokens /\ spent \subseteq Tokens
  /\ \A s \in Contributions!Layered : IsFiniteSet(layers[s].entries)

\* The entries of a scope are those its tokens name, one for each id.
EntriesOwned ==
  /\ \A s \in Contributions!Layered : \A e, f \in layers[s].entries : e.id = f.id => e = f
  /\ \A s \in Contributions!Layered : \A e \in layers[s].entries : TokenOf(s, e) \in registered
  /\ \A t \in registered : /\ t.scope \in Contributions!Layered
                           /\ \E e \in layers[t.scope].entries : TokenOf(t.scope, e) = t
  /\ \A t \in spent : t.scope \in Contributions!Layered

\* The inductive invariant of a registry.
RegistryInv == RegistryTypes /\ EntriesOwned

\* The cardinalities of the registry are those of the finite sets.
LEMMA RegistryCounts ==
  \A S : Contributions!Cardinality(S) = Cardinality(S)
BY DEF Contributions!Cardinality, Cardinality

\* The numbers from 1 to n.
LEMMA CountTo ==
  ASSUME NEW n \in Nat
  PROVE  IsFiniteSet(1 .. n) /\ Cardinality(1 .. n) = n
<1> DEFINE id == [i \in 1 .. n |-> i]
<1>1. id \in Bijection(1 .. n, 1 .. n)
  BY DEF Bijection, Injection, Surjection, IsInjective
<1> HIDE DEF id
<1>2. ExistsBijection(1 .. n, 1 .. n)
  BY <1>1 DEF ExistsBijection
<1>3. Cardinality(1 .. n) = n
  BY <1>2, FS_CountingElements
<1>4. IsFiniteSet(1 .. n)
  BY FS_Interval
<1> QED BY <1>3, <1>4

\* A batch that names as many ids as it has members names each of them once.
LEMMA BatchIds ==
  ASSUME NEW batch \in Seq(Contributions!Definitions),
         Contributions!Cardinality({batch[i].id : i \in DOMAIN batch}) = Len(batch)
  PROVE  \A i, j \in 1 .. Len(batch) : batch[i].id = batch[j].id => i = j
<1> DEFINE n == Len(batch)  ids == {batch[i].id : i \in 1 .. n}  f == [i \in 1 .. n |-> batch[i].id]
<1>1. n \in Nat /\ DOMAIN batch = 1 .. n
  OBVIOUS
<1>2. Cardinality(ids) = n
  BY <1>1, RegistryCounts
<1>3. IsFiniteSet(1 .. n) /\ Cardinality(1 .. n) = n
  <2> HIDE DEF n
  <2> QED BY <1>1, CountTo
<1>4. f \in Surjection(1 .. n, ids)
  <2> HIDE DEF n
  <2> QED BY DEF Surjection
<1>5. f \in Injection(1 .. n, ids)
  <2> HIDE DEF n, f, ids
  <2> QED BY <1>2, <1>3, <1>4, FS_Surjection
<1>6. \A i, j \in 1 .. n : f[i] = f[j] => i = j
  <2> HIDE DEF n, f, ids
  <2> QED BY <1>5 DEF Injection, IsInjective
<1> QED BY <1>6

\* The set of the members of a finite sequence.
LEMMA MembersFinite ==
  ASSUME NEW n \in Nat, NEW f, f = [i \in 1 .. n |-> f[i]]
  PROVE  IsFiniteSet({f[i] : i \in 1 .. n})
<1>1. f \in Surjection(1 .. n, {f[i] : i \in 1 .. n})
  BY DEF Surjection
<1>2. IsFiniteSet(1 .. n)
  BY FS_Interval
<1> QED BY <1>1, <1>2, FS_Surjection

\* A layer with other entries.
LEMMA EntriesSet ==
  \A l \in LayerRecords : \A E : [l EXCEPT !.entries = E] = [parent |-> l.parent, entries |-> E]
BY DEF LayerRecords

\* A batch that is registered is owned as a whole.
LEMMA BatchOwned ==
  ASSUME Contributions!Parameters, RegistryInv, NEW s \in Scopes, NEW batch \in Seq(Contributions!Definitions),
         Contributions!RegisterBatch(s, batch)
  PROVE  RegistryInv'
<1> DEFINE n == Len(batch)
           new == [i \in 1 .. n |-> [id |-> batch[i].id, order |-> batch[i].order, generation |-> next_generation + i]]
           added == {new[i] : i \in 1 .. n}
<1>1. /\ n \in Nat /\ DOMAIN batch = 1 .. n /\ next_generation \in Nat
      /\ \A i \in 1 .. n : batch[i].id \in Ids /\ batch[i].order \in Orders /\ next_generation + i \in Nat
  <2>1. n \in Nat /\ DOMAIN batch = 1 .. n /\ next_generation \in Nat
        /\ \A i \in 1 .. n : batch[i] \in Contributions!Definitions
    BY DEF RegistryInv, RegistryTypes
  <2>2. \A d \in Contributions!Definitions : d.id \in Ids /\ d.order \in Orders
    BY DEF Contributions!Definitions
  <2> HIDE DEF n
  <2> QED BY <2>1, <2>2
<1>2. \A i \in 1 .. n : /\ new[i] \in EntryRecords
                        /\ new[i].id = batch[i].id /\ new[i].generation = next_generation + i
  <2> HIDE DEF n
  <2> QED BY <1>1 DEF EntryRecords
<1>3. IsFiniteSet(added)
  <2>1. new = [i \in 1 .. n |-> new[i]]
    <3> HIDE DEF n
    <3> QED OBVIOUS
  <2> HIDE DEF new, n
  <2> QED BY <1>1, <2>1, MembersFinite
<1>4. added \subseteq EntryRecords
  <2> HIDE DEF new, n
  <2> QED BY <1>2
<1>5. {[id |-> batch[i].id, order |-> batch[i].order, generation |-> next_generation + i] : i \in DOMAIN batch} = added
  <2> HIDE DEF n
  <2> QED BY <1>1
<1> HIDE DEF added
<1>6. /\ s \in Contributions!Layered /\ {batch[i].id : i \in 1 .. n} \cap Contributions!Taken(s) = {}
      /\ layers' = [layers EXCEPT ![s].entries = @ \cup added]
      /\ next_generation' = next_generation + n
      /\ registered' = registered \cup {TokenOf(s, e) : e \in added}
      /\ spent' = spent
      /\ Contributions!Cardinality({batch[i].id : i \in DOMAIN batch}) = Len(batch)
  <2>1. {TokenOf(s, e) : e \in added} = {[scope |-> s, id |-> e.id, generation |-> e.generation] : e \in added}
    BY DEF TokenOf
  <2>2. {batch[i].id : i \in DOMAIN batch} = {batch[i].id : i \in 1 .. n}
    BY <1>1
  <2> HIDE DEF n
  <2>3. s \in Contributions!Layered
    BY DEF Contributions!RegisterBatch
  <2>4. {batch[i].id : i \in 1 .. n} \cap Contributions!Taken(s) = {}
    BY <2>2 DEF Contributions!RegisterBatch
  <2>5. layers' = [layers EXCEPT ![s].entries = @ \cup added]
    BY <1>5 DEF Contributions!RegisterBatch
  <2>6. next_generation' = next_generation + n
    BY DEF Contributions!RegisterBatch, n
  <2>7. registered' = registered \cup {TokenOf(s, e) : e \in added}
    BY <1>5, <2>1 DEF Contributions!RegisterBatch
  <2>8. spent' = spent
    BY DEF Contributions!RegisterBatch
  <2>9. Contributions!Cardinality({batch[i].id : i \in DOMAIN batch}) = Len(batch)
    BY DEF Contributions!RegisterBatch
  <2> QED BY <2>3, <2>4, <2>5, <2>6, <2>7, <2>8, <2>9
<1> USE DEF added
<1>7. \A e, f \in added : e.id = f.id => e = f
  <2>1. \A i, j \in 1 .. n : batch[i].id = batch[j].id => i = j
    BY <1>6, BatchIds
  <2> HIDE DEF new, n
  <2> QED BY <1>2, <2>1
<1>8. \A e \in added, f \in layers[s].entries : e.id # f.id
  <2> HIDE DEF new, n
  <2>1. \A f \in layers[s].entries : f.id \in Contributions!Taken(s)
    BY DEF Contributions!Taken
  <2> QED BY <1>2, <1>6, <2>1
<1> HIDE DEF added
<1>9. PICK l \in LayerRecords : l = layers[s]
  BY <1>6 DEF RegistryInv, RegistryTypes, Contributions!Layered
<1>10. PICK k \in LayerRecords : k = [parent |-> l.parent, entries |-> l.entries \cup added]
  BY <1>4, <1>9 DEF LayerRecords
<1>11. k.entries = l.entries \cup added /\ k # None
  BY <1>10 DEF Contributions!Parameters, LayerRecords, EntryRecords
<1>12. layers' = [layers EXCEPT ![s] = k]
  <2> HIDE DEF added, new, n
  <2>1. [l EXCEPT !.entries = l.entries \cup added] = k
    BY <1>10, EntriesSet
  <2> QED BY <1>6, <1>9, <2>1
<1>13. /\ layers' \in [Scopes -> LayerRecords \cup {None}]
       /\ layers'[s] = k /\ \A u \in Scopes : u # s => layers'[u] = layers[u]
  BY <1>12 DEF RegistryInv, RegistryTypes
<1>14. Contributions!Layered' = Contributions!Layered
  <2>1. Contributions!Layered' = {u \in Scopes : layers'[u] # None}
    BY DEF Contributions!Layered
  <2> QED BY <1>6, <1>11, <1>13, <2>1 DEF Contributions!Layered
<1>15. next_generation' \in Nat
  <2> HIDE DEF n
  <2> QED BY <1>1, <1>6
<1>16. \A e \in added : TokenOf(s, e) \in Tokens
  BY <1>4 DEF TokenOf, Tokens, EntryRecords
<1>17. IsFiniteSet(l.entries \cup added)
  BY <1>3, <1>6, <1>9, FS_Union DEF RegistryInv, RegistryTypes
<1>18. RegistryTypes'
  <2>1. registered' \subseteq Tokens /\ spent' \subseteq Tokens
    BY <1>6, <1>16 DEF RegistryInv, RegistryTypes
  <2>2. \A u \in Contributions!Layered : IsFiniteSet(layers'[u].entries)
    BY <1>11, <1>13, <1>17 DEF RegistryInv, RegistryTypes, Contributions!Layered
  <2> QED BY <1>13, <1>14, <1>15, <2>1, <2>2 DEF RegistryTypes
<1>19. \A u \in Contributions!Layered : u # s => layers'[u] = layers[u]
  BY <1>13 DEF Contributions!Layered
<1>20. EntriesOwned'
  <2>1. \A u \in Contributions!Layered : \A e, f \in layers'[u].entries : e.id = f.id => e = f
    <3> SUFFICES ASSUME NEW u \in Contributions!Layered, NEW e \in layers'[u].entries,
                        NEW f \in layers'[u].entries, e.id = f.id
                 PROVE  e = f
      OBVIOUS
    <3>1. CASE u # s
      BY <1>19, <3>1 DEF RegistryInv, EntriesOwned
    <3>2. CASE u = s
      BY <1>6, <1>7, <1>8, <1>9, <1>11, <1>13, <3>2 DEF RegistryInv, EntriesOwned
    <3> QED BY <3>1, <3>2
  <2>2. \A u \in Contributions!Layered : \A e \in layers'[u].entries : TokenOf(u, e) \in registered'
    <3> SUFFICES ASSUME NEW u \in Contributions!Layered, NEW e \in layers'[u].entries
                 PROVE  TokenOf(u, e) \in registered'
      OBVIOUS
    <3>1. CASE e \in layers[u].entries
      BY <1>6, <3>1 DEF RegistryInv, EntriesOwned
    <3>2. CASE e \notin layers[u].entries
      BY <1>6, <1>9, <1>11, <1>13, <1>19, <3>2
    <3> QED BY <3>1, <3>2
  <2>3. \A t \in registered' : /\ t.scope \in Contributions!Layered
                               /\ \E e \in layers'[t.scope].entries : TokenOf(t.scope, e) = t
    <3> SUFFICES ASSUME NEW t \in registered'
                 PROVE  /\ t.scope \in Contributions!Layered
                        /\ \E e \in layers'[t.scope].entries : TokenOf(t.scope, e) = t
      OBVIOUS
    <3>1. CASE t \in registered
      <4>1. t.scope \in Contributions!Layered
        BY <3>1 DEF RegistryInv, EntriesOwned
      <4>2. PICK e \in layers[t.scope].entries : TokenOf(t.scope, e) = t
        BY <3>1 DEF RegistryInv, EntriesOwned
      <4>3. e \in layers'[t.scope].entries
        BY <1>9, <1>11, <1>13, <1>19, <4>1, <4>2
      <4> QED BY <4>1, <4>2, <4>3
    <3>2. CASE t \notin registered
      <4>1. PICK e \in added : TokenOf(s, e) = t
        BY <1>6, <3>2
      <4>2. t.scope = s
        BY <4>1 DEF TokenOf
      <4> QED BY <1>6, <1>11, <1>13, <4>1, <4>2
    <3> QED BY <3>1, <3>2
  <2>4. \A t \in spent' : t.scope \in Contributions!Layered
    BY <1>6 DEF RegistryInv, EntriesOwned
  <2> QED BY <1>14, <2>1, <2>2, <2>3, <2>4 DEF EntriesOwned
<1> QED BY <1>18, <1>20 DEF RegistryInv

\* A token takes back what it registered and nothing else.
LEMMA TokenRevoked ==
  ASSUME Contributions!Parameters, RegistryInv, NEW t \in registered \cup spent, Contributions!Revoke(t)
  PROVE  RegistryInv'
<1> DEFINE s == t.scope  mine == {e \in layers[s].entries : Contributions!Current(t, e)}
<1>1. /\ s \in Contributions!Layered /\ t \in Tokens
      /\ layers' = [layers EXCEPT ![s].entries = @ \ mine]
      /\ registered' = registered \ {t} /\ spent' = spent \cup {t} /\ next_generation' = next_generation
  BY DEF Contributions!Revoke, RegistryInv, RegistryTypes, EntriesOwned
<1>2. PICK l \in LayerRecords : l = layers[s]
  BY <1>1 DEF RegistryInv, RegistryTypes, Contributions!Layered
<1>3. PICK k \in LayerRecords : k = [parent |-> l.parent, entries |-> l.entries \ mine]
  BY <1>2 DEF LayerRecords
<1>4. k.entries = l.entries \ mine /\ k # None
  BY <1>3 DEF Contributions!Parameters, LayerRecords, EntryRecords
<1>5. layers' = [layers EXCEPT ![s] = k]
  <2> HIDE DEF mine
  <2>1. [l EXCEPT !.entries = l.entries \ mine] = k
    BY <1>3, EntriesSet
  <2> QED BY <1>1, <1>2, <2>1
<1>6. /\ layers' \in [Scopes -> LayerRecords \cup {None}]
      /\ layers'[s] = k /\ \A u \in Scopes : u # s => layers'[u] = layers[u]
  BY <1>1, <1>5 DEF RegistryInv, RegistryTypes, Contributions!Layered
<1>7. Contributions!Layered' = Contributions!Layered
  <2>1. Contributions!Layered' = {u \in Scopes : layers'[u] # None}
    BY DEF Contributions!Layered
  <2> QED BY <1>1, <1>4, <1>6, <2>1 DEF Contributions!Layered
<1>8. \A u \in Contributions!Layered : layers'[u].entries \subseteq layers[u].entries
                                       /\ (u # s => layers'[u].entries = layers[u].entries)
  <2>1. \A u \in Contributions!Layered : u # s => layers'[u] = layers[u]
    BY <1>6 DEF Contributions!Layered
  <2> QED BY <1>2, <1>4, <1>6, <2>1
<1>9. RegistryTypes'
  <2>1. \A u \in Contributions!Layered : IsFiniteSet(layers'[u].entries)
    BY <1>8, FS_Subset DEF RegistryInv, RegistryTypes
  <2> QED BY <1>1, <1>6, <1>7, <2>1 DEF RegistryInv, RegistryTypes
<1>10. \A u \in Contributions!Layered : \A e \in layers[u].entries : TokenOf(u, e) = t <=> u = s /\ e \in mine
  <2> SUFFICES ASSUME NEW u \in Contributions!Layered, NEW e \in layers[u].entries
               PROVE  TokenOf(u, e) = t <=> u = s /\ e \in mine
    OBVIOUS
  <2>1. t = [scope |-> t.scope, id |-> t.id, generation |-> t.generation]
    BY <1>1 DEF Tokens
  <2> QED BY <2>1 DEF TokenOf, Contributions!Current
<1>11. EntriesOwned'
  <2>1. \A u \in Contributions!Layered : \A e, f \in layers'[u].entries : e.id = f.id => e = f
    BY <1>8 DEF RegistryInv, EntriesOwned
  <2>2. \A u \in Contributions!Layered : \A e \in layers'[u].entries : TokenOf(u, e) \in registered'
    <3> SUFFICES ASSUME NEW u \in Contributions!Layered, NEW e \in layers'[u].entries
                 PROVE  TokenOf(u, e) \in registered'
      OBVIOUS
    <3>1. e \in layers[u].entries /\ TokenOf(u, e) \in registered
      BY <1>8 DEF RegistryInv, EntriesOwned
    <3>2. ~ (u = s /\ e \in mine)
      BY <1>2, <1>4, <1>6
    <3> QED BY <1>1, <1>10, <3>1, <3>2
  <2>3. \A r \in registered' : /\ r.scope \in Contributions!Layered
                               /\ \E e \in layers'[r.scope].entries : TokenOf(r.scope, e) = r
    <3> SUFFICES ASSUME NEW r \in registered'
                 PROVE  /\ r.scope \in Contributions!Layered
                        /\ \E e \in layers'[r.scope].entries : TokenOf(r.scope, e) = r
      OBVIOUS
    <3>1. r \in registered /\ r # t /\ r.scope \in Contributions!Layered
      BY <1>1 DEF RegistryInv, EntriesOwned
    <3>2. PICK e \in layers[r.scope].entries : TokenOf(r.scope, e) = r
      BY <3>1 DEF RegistryInv, EntriesOwned
    <3>3. ~ (r.scope = s /\ e \in mine)
      BY <1>10, <3>1, <3>2
    <3>4. e \in layers'[r.scope].entries
      <4> HIDE DEF mine
      <4> QED BY <1>2, <1>4, <1>6, <1>8, <3>1, <3>2, <3>3
    <3> QED BY <3>1, <3>2, <3>4
  <2>4. \A r \in spent' : r.scope \in Contributions!Layered
    BY <1>1 DEF RegistryInv, EntriesOwned
  <2> QED BY <1>7, <2>1, <2>2, <2>3, <2>4 DEF EntriesOwned
<1> QED BY <1>9, <1>11 DEF RegistryInv

\* A scope that is added has nothing registered yet.
LEMMA ScopeAdded ==
  ASSUME Contributions!Parameters, RegistryInv, NEW s \in Scopes, NEW parent \in Scopes, Contributions!AddScope(s, parent)
  PROVE  RegistryInv'
<1>1. PICK k \in LayerRecords : k = [parent |-> parent, entries |-> {}]
  BY DEF LayerRecords
<1>2. k.entries = {} /\ k # None /\ layers[s] = None
  BY <1>1 DEF Contributions!Parameters, Contributions!AddScope
<1>3. /\ layers' = [layers EXCEPT ![s] = k]
      /\ registered' = registered /\ spent' = spent /\ next_generation' = next_generation
  BY <1>1 DEF Contributions!AddScope, Contributions!Layer
<1>4. /\ layers' \in [Scopes -> LayerRecords \cup {None}]
      /\ layers'[s] = k /\ \A u \in Scopes : u # s => layers'[u] = layers[u]
  BY <1>3 DEF RegistryInv, RegistryTypes
<1>5. Contributions!Layered' = Contributions!Layered \cup {s} /\ s \notin Contributions!Layered
      /\ \A u \in Contributions!Layered : layers'[u] = layers[u]
  <2>1. Contributions!Layered' = {u \in Scopes : layers'[u] # None}
    BY DEF Contributions!Layered
  <2> QED BY <1>2, <1>4, <2>1 DEF Contributions!Layered
<1>6. RegistryTypes'
  BY <1>2, <1>3, <1>4, <1>5, FS_EmptySet DEF RegistryInv, RegistryTypes
<1>7. EntriesOwned'
  <2>1. \A u \in Contributions!Layered' : \A e, f \in layers'[u].entries : e.id = f.id => e = f
    BY <1>2, <1>4, <1>5 DEF RegistryInv, EntriesOwned
  <2>2. \A u \in Contributions!Layered' : \A e \in layers'[u].entries : TokenOf(u, e) \in registered'
    BY <1>2, <1>3, <1>4, <1>5 DEF RegistryInv, EntriesOwned
  <2>3. \A r \in registered' : /\ r.scope \in Contributions!Layered'
                               /\ \E e \in layers'[r.scope].entries : TokenOf(r.scope, e) = r
    BY <1>3, <1>5 DEF RegistryInv, EntriesOwned
  <2>4. \A r \in spent' : r.scope \in Contributions!Layered'
    BY <1>3, <1>5 DEF RegistryInv, EntriesOwned
  <2> QED BY <2>1, <2>2, <2>3, <2>4 DEF EntriesOwned
<1> QED BY <1>6, <1>7 DEF RegistryInv

\* Every step of a registry keeps what its tokens own.
LEMMA RegistryStep ==
  ASSUME Contributions!Parameters, RegistryInv, Contributions!Next
  PROVE  RegistryInv'
<1>1. ASSUME NEW s \in Scopes, NEW p \in Scopes, Contributions!AddScope(s, p) PROVE RegistryInv'
  BY <1>1, ScopeAdded
<1>2. ASSUME NEW s \in Scopes, NEW d \in Contributions!Definitions, Contributions!Register(s, d) PROVE RegistryInv'
  <2>1. <<d>> \in Seq(Contributions!Definitions)
    OBVIOUS
  <2> QED BY <1>2, <2>1, BatchOwned DEF Contributions!Register
<1>3. ASSUME NEW s \in Scopes, NEW b \in Contributions!Batches, Contributions!RegisterBatch(s, b) PROVE RegistryInv'
  <2>1. b \in Seq(Contributions!Definitions)
    <3>1. PICK d \in Contributions!Definitions, e \in Contributions!Definitions : b = <<d, e>>
      BY DEF Contributions!Batches
    <3> QED BY <3>1
  <2> QED BY <1>3, <2>1, BatchOwned
<1>4. ASSUME NEW t \in registered \cup spent, Contributions!Revoke(t) PROVE RegistryInv'
  BY <1>4, TokenRevoked
<1> QED BY <1>1, <1>2, <1>3, <1>4 DEF Contributions!Next

\* Nothing is registered at first.
LEMMA RegistryInit ==
  ASSUME Contributions!Parameters, Contributions!Init
  PROVE  RegistryInv
<1>1. PICK k \in LayerRecords : k = [parent |-> None, entries |-> {}]
  BY DEF LayerRecords
<1>2. k.entries = {} /\ k # None
  BY <1>1 DEF Contributions!Parameters, LayerRecords, EntryRecords
<1>3. /\ layers = [s \in Scopes |-> IF s = 0 THEN k ELSE None] /\ next_generation = 0
      /\ registered = {} /\ spent = {} /\ 0 \in Scopes
  BY <1>1 DEF Contributions!Init, Contributions!Layer, Contributions!Parameters
<1>4. \A s \in Contributions!Layered : layers[s].entries = {}
  BY <1>2, <1>3 DEF Contributions!Layered
<1>5. layers \in [Scopes -> LayerRecords \cup {None}]
  BY <1>3
<1> QED BY <1>3, <1>4, <1>5, FS_EmptySet DEF RegistryInv, RegistryTypes, EntriesOwned

\* As many ids as entries, and as many entries as tokens.
LEMMA OwnersKeepNow == ASSUME RegistryInv PROVE Contributions!OwnersKeep
<1>1. ASSUME NEW s \in Contributions!Layered
      PROVE  /\ Cardinality(Contributions!Taken(s)) = Cardinality(layers[s].entries)
             /\ Cardinality({t \in registered : t.scope = s}) = Cardinality(layers[s].entries)
  <2> DEFINE E == layers[s].entries  T == {t \in registered : t.scope = s}
             names == [e \in E |-> e.id]  owners == [e \in E |-> TokenOf(s, e)]
  <2>1. IsFiniteSet(E) /\ \A e, f \in E : e.id = f.id => e = f
    BY DEF RegistryInv, RegistryTypes, EntriesOwned
  <2>2. names \in Bijection(E, Contributions!Taken(s))
    <3>1. Contributions!Taken(s) = {e.id : e \in E}
      BY DEF Contributions!Taken
    <3> HIDE DEF E
    <3> QED BY <2>1, <3>1 DEF Bijection, Injection, Surjection, IsInjective
  <2>3. owners \in Bijection(E, T)
    <3>1. \A e \in E : TokenOf(s, e) \in T /\ TokenOf(s, e).id = e.id
      BY DEF RegistryInv, EntriesOwned, TokenOf
    <3>2. \A t \in T : \E e \in E : TokenOf(s, e) = t
      BY DEF RegistryInv, EntriesOwned
    <3>3. owners \in [E -> T]
      <4> HIDE DEF E, T
      <4> QED BY <3>1
    <3>4. \A e, f \in E : owners[e] = owners[f] => e = f
      <4> HIDE DEF E, T
      <4> QED BY <2>1, <3>1
    <3>5. \A t \in T : \E e \in E : owners[e] = t
      <4> HIDE DEF E, T
      <4> QED BY <3>2
    <3> HIDE DEF E, T, owners
    <3> QED BY <3>3, <3>4, <3>5 DEF Bijection, Injection, Surjection, IsInjective
  <2> HIDE DEF names, owners
  <2>4. ExistsBijection(E, Contributions!Taken(s)) /\ ExistsBijection(E, T)
    BY <2>2, <2>3 DEF ExistsBijection
  <2> HIDE DEF E, T
  <2>5. Cardinality(Contributions!Taken(s)) = Cardinality(E) /\ Cardinality(T) = Cardinality(E)
    BY <2>1, <2>4, FS_Bijection
  <2> QED BY <2>5 DEF E, T
<1>2. \A t \in registered : \E e \in layers[t.scope].entries : e.id = t.id /\ e.generation = t.generation
  <2> TAKE t \in registered
  <2>1. PICK e \in layers[t.scope].entries : TokenOf(t.scope, e) = t
    BY DEF RegistryInv, EntriesOwned
  <2>2. TokenOf(t.scope, e).id = e.id /\ TokenOf(t.scope, e).generation = e.generation
    BY DEF TokenOf
  <2> QED BY <2>1, <2>2
<1>3. \A s \in Contributions!Layered :
        /\ Contributions!Cardinality(Contributions!Taken(s)) = Contributions!Cardinality(layers[s].entries)
        /\ Contributions!Cardinality(layers[s].entries) = Contributions!Cardinality({t \in registered : t.scope = s})
  <2> TAKE s \in Contributions!Layered
  <2> DEFINE A == Contributions!Taken(s)  B == layers[s].entries  T == {t \in registered : t.scope = s}
  <2>1. Cardinality(A) = Cardinality(B) /\ Cardinality(T) = Cardinality(B)
    BY <1>1
  <2> HIDE DEF A, B, T
  <2>2. Contributions!Cardinality(A) = Contributions!Cardinality(B) /\ Contributions!Cardinality(B) = Contributions!Cardinality(T)
    BY <2>1, RegistryCounts
  <2> QED BY <2>2 DEF A, B, T
<1>4. \A s \in Contributions!Layered :
        Contributions!Cardinality(Contributions!Taken(s)) = Contributions!Cardinality(layers[s].entries)
  BY <1>3
<1>5. \A s \in Contributions!Layered :
        Contributions!Cardinality(layers[s].entries) = Contributions!Cardinality({t \in registered : t.scope = s})
  BY <1>3
<1> QED BY ONLY <1>2, <1>4, <1>5 DEF Contributions!OwnersKeep

\* A registry does not change while another part runs.
LEMMA RegistryFrame == ASSUME RegistryInv, UNCHANGED registryVars PROVE RegistryInv'
<1>1. Contributions!Layered' = Contributions!Layered
  BY DEF registryVars, Contributions!Layered
<1> QED BY <1>1 DEF registryVars, RegistryInv, RegistryTypes, EntriesOwned
-----------------------------------------------------------------------------
(*****************************************************************************)
(* The capability slots.                                                   *)
(*****************************************************************************)
\* What is published in a slot, and what its publisher is handed.
PublishedLeases == [provider : Providers, generation : Nat, handle : Nat]
Registrations == [slot : Slot!Slots, provider : Providers, generation : Nat, handle : Nat]

\* The slots, and the registrations handed out.
SlotTypes ==
  /\ leased \in [Slot!Slots -> PublishedLeases \cup {None}]
  /\ last \in [Slot!Slots -> Nat] /\ handles \in Nat
  /\ registrations \subseteq Registrations /\ replaced \subseteq registrations

\* The registrations that were neither replaced nor revoked are those of the
\* leases, and none is newer than what its slot has counted.
OwnersInv ==
  /\ \A r \in registrations : r.generation <= last[r.slot] /\ r.handle <= handles
  /\ \A r \in registrations \ replaced : Slot!IsCurrent(r, leased[r.slot])
  /\ \A s \in Slot!Slots : leased[s] # None => Slot!Registration(s, leased[s]) \in registrations \ replaced

\* The slot a component found a capability in.
SlotOf(c) == <<c, snapshot.sources[c]>>

\* What a component was activated with: no later publication of a slot has the
\* generation of the lease it remembers.
SnapshotInv ==
  snapshot # None =>
    /\ \A c \in snapshot.required : SlotOf(c) \in Slot!Slots
    /\ snapshot.required \subseteq DOMAIN snapshot.sources
    /\ snapshot.leases = [c \in snapshot.required |-> snapshot.leases[c]]
    /\ snapshot.fingerprint =
         {<<c, snapshot.sources[c], snapshot.leases[c].provider, snapshot.leases[c].generation>>
            : c \in snapshot.required}
    /\ \A c \in snapshot.required :
         /\ snapshot.leases[c] \in PublishedLeases
         /\ snapshot.leases[c].generation <= last[SlotOf(c)]
         /\ leased[SlotOf(c)] # None /\ leased[SlotOf(c)].generation = snapshot.leases[c].generation
              => leased[SlotOf(c)] = snapshot.leases[c]

\* The inductive invariant of the slots.
SlotInv == SlotTypes /\ OwnersInv /\ SnapshotInv


\* A publication: the new lease is the newest of its slot.
LEMMA Published ==
  ASSUME Slot!Parameters, SlotTypes, OwnersInv, NEW s \in Slot!Slots, NEW p \in Providers, Slot!Publish(s, p),
         replaced' = replaced \cup {r \in registrations : r.slot = s /\ r \notin replaced}
  PROVE  SlotTypes' /\ OwnersInv'
<1> USE DEF Slot!Parameters, SlotTypes, OwnersInv, PublishedLeases, Registrations
<1>1. PICK l : l = [provider |-> p, generation |-> last[s] + 1, handle |-> handles + 1]
  OBVIOUS
<1>0. /\ l \in PublishedLeases /\ l = Slot!Lease(s, p)
      /\ l.provider = p /\ l.generation = last[s] + 1 /\ l.handle = handles + 1
  BY <1>1 DEF Slot!Lease, Slot!NextGeneration
<1>2. PICK r \in Registrations : r = Slot!Registration(s, l) /\ r = [slot |-> s, provider |-> l.provider,
                  generation |-> l.generation, handle |-> l.handle]
  BY <1>0 DEF Slot!Registration
<1>3. /\ leased' = [leased EXCEPT ![s] = l] /\ last' = [last EXCEPT ![s] = last[s] + 1]
      /\ registrations' = registrations \cup {r} /\ handles' = handles + 1
  BY <1>0, <1>2 DEF Slot!Publish, Slot!NextGeneration
<1>4. r \notin registrations
  BY <1>0, <1>2
<1>5. SlotTypes'
  BY <1>0, <1>2, <1>3
<1>6. \A q \in registrations' : q.generation <= last'[q.slot] /\ q.handle <= handles'
  BY <1>0, <1>2, <1>3
<1>7. ASSUME NEW q \in registrations' \ replaced' PROVE Slot!IsCurrent(q, leased'[q.slot])
  <2>1. CASE q = r
    BY <1>0, <1>2, <1>3, <2>1 DEF Slot!IsCurrent
  <2>2. CASE q # r
    <3>1. q \in registrations \ replaced /\ q.slot # s
      BY <1>3, <2>2
    <3> QED BY <1>3, <3>1 DEF Slot!IsCurrent
  <2> QED BY <2>1, <2>2
<1>8. ASSUME NEW t \in Slot!Slots, leased'[t] # None
      PROVE  Slot!Registration(t, leased'[t]) \in registrations' \ replaced'
  <2>1. CASE t = s
    BY <1>2, <1>3, <1>4, <2>1
  <2>2. CASE t # s
    <3>1. leased'[t] = leased[t] /\ Slot!Registration(t, leased[t]) \in registrations \ replaced
      BY <1>3, <1>8, <2>2
    <3>2. Slot!Registration(t, leased[t]).slot = t
      BY DEF Slot!Registration
    <3> QED BY <1>3, <2>2, <3>1, <3>2
  <2> QED BY <2>1, <2>2
<1> QED BY <1>5, <1>6, <1>7, <1>8

\* Only the publication that is current is a registration of its slot that was
\* not replaced.
LEMMA TheOnlyOne ==
  ASSUME Slot!Parameters, SlotTypes, OwnersInv, NEW s \in Slot!Slots
  PROVE  {r \in registrations : r.slot = s /\ r \notin replaced} =
           IF leased[s] = None THEN {} ELSE {Slot!Registration(s, leased[s])}
<1> USE DEF Slot!Parameters, SlotTypes, OwnersInv, PublishedLeases, Registrations
<1>1. ASSUME NEW r \in registrations, r.slot = s, r \notin replaced
      PROVE  leased[s] # None /\ r = Slot!Registration(s, leased[s])
  BY <1>1 DEF Slot!IsCurrent, Slot!Registration
<1>2. ASSUME leased[s] # None
      PROVE  /\ Slot!Registration(s, leased[s]) \in registrations \ replaced
             /\ Slot!Registration(s, leased[s]).slot = s
  BY <1>2 DEF Slot!Registration
<1> QED BY <1>1, <1>2

\* Every step leaves each lease to the registration that published it.
LEMMA SlotOwners ==
  ASSUME Slot!Parameters, SlotInv, Slot!Next
  PROVE  SlotTypes' /\ OwnersInv'
<1> USE DEF SlotInv
<1>1. ASSUME NEW s \in Slot!Slots, NEW p \in Providers, Slot!Install(s, p) PROVE SlotTypes' /\ OwnersInv'
  <2>1. Slot!Publish(s, p) /\ replaced' = replaced /\ leased[s] = None
    BY <1>1 DEF Slot!Install
  <2>2. {r \in registrations : r.slot = s /\ r \notin replaced} = {}
    BY <2>1, TheOnlyOne
  <2> QED BY <2>1, <2>2, Published
<1>2. ASSUME NEW s \in Slot!Slots, NEW p \in Providers, Slot!Replace(s, p) PROVE SlotTypes' /\ OwnersInv'
  <2>1. /\ Slot!Publish(s, p) /\ leased[s] # None
        /\ replaced' = replaced \cup {Slot!Registration(s, leased[s])}
    BY <1>2 DEF Slot!Replace
  <2>2. {r \in registrations : r.slot = s /\ r \notin replaced} = {Slot!Registration(s, leased[s])}
    BY <2>1, TheOnlyOne
  <2> QED BY <2>1, <2>2, Published
<1>3. ASSUME NEW r \in registrations \cup replaced, Slot!Revoke(r) PROVE SlotTypes' /\ OwnersInv'
  <2> USE DEF Slot!Parameters, SlotTypes, OwnersInv, PublishedLeases, Registrations
  <2>1. /\ r \in Registrations /\ registrations' = registrations \ {r} /\ replaced' = replaced \ {r}
        /\ last' = last /\ handles' = handles
    BY <1>3 DEF Slot!Revoke
  <2>2. CASE Slot!IsCurrent(r, leased[r.slot])
    <3>1. leased' = [leased EXCEPT ![r.slot] = None]
      BY <1>3, <2>2 DEF Slot!Revoke
    <3>2. leased[r.slot] # None /\ r = Slot!Registration(r.slot, leased[r.slot])
      BY <2>1, <2>2 DEF Slot!IsCurrent, Slot!Registration
    <3>3. \A q \in registrations' \ replaced' : q \in registrations \ replaced /\ q.slot # r.slot
      BY <2>1, <3>2, TheOnlyOne
    <3>4. \A q \in registrations' \ replaced' : Slot!IsCurrent(q, leased'[q.slot])
      BY <2>1, <3>1, <3>3
    <3>5. ASSUME NEW t \in Slot!Slots, leased'[t] # None
          PROVE  Slot!Registration(t, leased'[t]) \in registrations' \ replaced'
      <4>1. t # r.slot /\ leased'[t] = leased[t]
        BY <2>1, <3>1, <3>5
      <4>2. Slot!Registration(t, leased[t]).slot = t
        BY DEF Slot!Registration
      <4> QED BY <2>1, <3>5, <4>1, <4>2
    <3> QED BY <2>1, <3>1, <3>4, <3>5
  <2>3. CASE ~ Slot!IsCurrent(r, leased[r.slot])
    <3>1. leased' = leased
      BY <1>3, <2>3 DEF Slot!Revoke
    <3>2. r \notin registrations \ replaced
      BY <2>3
    <3> QED BY <2>1, <3>1, <3>2
  <2> QED BY <2>2, <2>3
<1>4. ASSUME NEW sources, NEW required, Slot!Resolve(sources, required) PROVE SlotTypes' /\ OwnersInv'
  BY <1>4 DEF Slot!Resolve, SlotTypes, OwnersInv
<1> QED BY <1>1, <1>2, <1>3, <1>4 DEF Slot!Next

\* Every step keeps what a component was activated with apart from what comes after.
LEMMA SlotSnapshot ==
  ASSUME Slot!Parameters, SlotInv, Slot!Next
  PROVE  SnapshotInv'
<1> USE DEF SlotInv, Slot!Parameters, SlotTypes, PublishedLeases
<1>1. ASSUME snapshot' = snapshot,
             \A s \in Slot!Slots : /\ last'[s] \in Nat /\ last'[s] >= last[s]
                                   /\ leased'[s] \in {leased[s], None} \/ leased'[s].generation > last[s]
      PROVE  SnapshotInv'
  BY <1>1 DEF SnapshotInv, SlotOf
<1>2. ASSUME NEW s \in Slot!Slots, NEW p \in Providers, Slot!Publish(s, p) PROVE SnapshotInv'
  <2>1. Slot!Lease(s, p).generation = last[s] + 1
    BY DEF Slot!Lease, Slot!NextGeneration
  <2>2. /\ leased' = [leased EXCEPT ![s] = Slot!Lease(s, p)] /\ last' = [last EXCEPT ![s] = last[s] + 1]
        /\ snapshot' = snapshot
    BY <1>2 DEF Slot!Publish, Slot!NextGeneration
  <2> QED BY <1>1, <2>1, <2>2
<1>3. ASSUME NEW r \in registrations \cup replaced, Slot!Revoke(r) PROVE SnapshotInv'
  <2>1. r.slot \in Slot!Slots
    BY DEF Registrations
  <2> QED BY <1>1, <1>3, <2>1 DEF Slot!Revoke
<1>4. ASSUME NEW known \in SUBSET Capabilities, NEW sources \in [known -> {0, 1}],
             NEW required \in SUBSET Capabilities, Slot!Resolve(sources, required)
      PROVE  SnapshotInv'
  <2>1. Slot!Resolved(sources, required) = required
    BY <1>4 DEF Slot!Resolve, Slot!Missing, Slot!Resolved
  <2>2. \A c \in required : /\ c \in DOMAIN sources /\ <<c, sources[c]>> \in Slot!Slots
                            /\ leased[<<c, sources[c]>>] \in PublishedLeases
    BY <2>1 DEF Slot!Resolved, Slot!Slots
  <2>3. /\ snapshot' = [sources |-> sources, required |-> required,
                        fingerprint |-> Slot!Fingerprint(sources, required),
                        leases |-> Slot!Leases(sources, required)]
        /\ leased' = leased /\ last' = last
    BY <1>4 DEF Slot!Resolve
  <2>4. Slot!Leases(sources, required) = [c \in required |-> leased[<<c, sources[c]>>]]
    BY <2>1 DEF Slot!Leases
  <2>5. Slot!Fingerprint(sources, required) =
          {<<c, sources[c], leased[<<c, sources[c]>>].provider, leased[<<c, sources[c]>>].generation>> : c \in required}
    BY <2>1 DEF Slot!Fingerprint
  <2>6. /\ snapshot'.sources = sources /\ snapshot'.required = required
        /\ snapshot'.leases = [c \in required |-> leased[<<c, sources[c]>>]]
        /\ snapshot'.fingerprint =
             {<<c, sources[c], leased[<<c, sources[c]>>].provider, leased[<<c, sources[c]>>].generation>> : c \in required}
    BY <2>3, <2>4, <2>5
  <2>7. \A c \in required : /\ snapshot'.leases[c] = leased[<<c, sources[c]>>]
                            /\ leased[<<c, sources[c]>>].generation <= last[<<c, sources[c]>>]
    <3>1. ASSUME NEW c \in required
          PROVE  leased[<<c, sources[c]>>].generation <= last[<<c, sources[c]>>]
      <4>1. PICK t \in Slot!Slots : t = <<c, sources[c]>> /\ leased[t] # None
        BY <2>2
      <4>2. PICK r \in registrations : r = Slot!Registration(t, leased[t])
        BY <4>1 DEF OwnersInv
      <4>3. r.slot = t /\ r.generation = leased[t].generation
        BY <4>2 DEF Slot!Registration
      <4> QED BY <4>1, <4>3 DEF OwnersInv
    <3> QED BY <2>6, <3>1
  <2>8. snapshot'.leases = [c \in snapshot'.required |-> snapshot'.leases[c]]
    BY <2>6
  <2>9. snapshot'.fingerprint =
         {<<c, snapshot'.sources[c], snapshot'.leases[c].provider, snapshot'.leases[c].generation>>
            : c \in snapshot'.required}
    BY <2>6, <2>7
  <2> QED BY <2>2, <2>3, <2>6, <2>7, <2>8, <2>9 DEF SnapshotInv, SlotOf
<1> QED BY <1>2, <1>3, <1>4 DEF Slot!Next, Slot!Install, Slot!Replace

\* An equal fingerprint means equal leases.
LEMMA SlotsHoldNow == ASSUME Slot!Parameters, SlotInv PROVE Slot!SlotsHold
<1>1. Slot!PublishersOwned
  BY DEF SlotInv, OwnersInv, Slot!PublishersOwned
<1>2. ASSUME snapshot # None, Slot!Missing(snapshot.sources, snapshot.required) = {},
             Slot!Fingerprint(snapshot.sources, snapshot.required) = snapshot.fingerprint
      PROVE  Slot!Leases(snapshot.sources, snapshot.required) = snapshot.leases
  <2>1. Slot!Resolved(snapshot.sources, snapshot.required) = snapshot.required
    BY <1>2 DEF Slot!Missing, Slot!Resolved
  <2>2. ASSUME NEW c \in snapshot.required PROVE leased[SlotOf(c)] = snapshot.leases[c]
    <3>1. leased[SlotOf(c)] # None
      BY <2>1 DEF Slot!Resolved, SlotOf
    <3>2. <<c, snapshot.sources[c], leased[SlotOf(c)].provider, leased[SlotOf(c)].generation>> \in snapshot.fingerprint
      BY <1>2, <2>1 DEF Slot!Fingerprint, SlotOf
    <3>3. PICK d \in snapshot.required :
            <<c, snapshot.sources[c], leased[SlotOf(c)].provider, leased[SlotOf(c)].generation>> =
            <<d, snapshot.sources[d], snapshot.leases[d].provider, snapshot.leases[d].generation>>
      BY <1>2, <3>2 DEF SlotInv, SnapshotInv
    <3>4. leased[SlotOf(c)].generation = snapshot.leases[c].generation
      BY <3>3
    <3> QED BY <1>2, <3>1, <3>4 DEF SlotInv, SnapshotInv
  <2>3. Slot!Leases(snapshot.sources, snapshot.required) = [c \in snapshot.required |-> leased[SlotOf(c)]]
    BY <2>1 DEF Slot!Leases, SlotOf
  <2>4. snapshot.leases = [c \in snapshot.required |-> snapshot.leases[c]]
    BY <1>2 DEF SlotInv, SnapshotInv
  <2> HIDE <1>2
  <2> QED BY <2>2, <2>3, <2>4
<1>3. Slot!FingerprintTells
  BY <1>2 DEF Slot!FingerprintTells
<1> QED BY <1>1, <1>3 DEF Slot!SlotsHold

\* Nothing is published at first.
LEMMA SlotInit == ASSUME Slot!Init PROVE SlotInv
BY DEF Slot!Init, SlotInv, SlotTypes, OwnersInv, SnapshotInv

\* The slots do not change while another part runs.
LEMMA SlotFrame == ASSUME SlotInv, UNCHANGED slotVars PROVE SlotInv'
<1>1. SlotTypes' /\ OwnersInv'
  BY DEF slotVars, SlotInv, SlotTypes, OwnersInv
<1>2. SnapshotInv'
  BY DEF slotVars, SlotInv, SnapshotInv, SlotOf
<1> QED BY <1>1, <1>2 DEF SlotInv
-----------------------------------------------------------------------------
(*****************************************************************************)
(* The runtime.                                                            *)
(*****************************************************************************)
\* The parts of the runtime, whichever of them runs.
RuntimeInv == StartInv /\ ExitInv /\ RegistryInv /\ SlotInv /\ DocumentInv

\* Every part keeps its invariant, and the others do not move.
LEMMA RuntimeStep == RuntimeInv /\ [MCNext]_mcVars => RuntimeInv'
<1> SUFFICES ASSUME RuntimeInv, [MCNext]_mcVars PROVE RuntimeInv'
  OBVIOUS
<1>0. /\ StartInv /\ ExitInv /\ RegistryInv /\ SlotInv /\ DocumentInv
      /\ Start!Parameters /\ Contributions!Parameters /\ Slot!Parameters
  BY PartsAssumption DEF RuntimeInv
<1>1. StartInv'
  <2>1. Start!Next \/ UNCHANGED startVars
    BY DEF MCNext, mcVars
  <2> QED BY <1>0, <2>1, StartStep, StartFrame
<1>2. ExitInv'
  <2>1. Exit!Next \/ UNCHANGED exitVars
    BY DEF MCNext, mcVars
  <2> QED BY <1>0, <2>1, ExitStep, ExitFrame
<1>3. RegistryInv'
  <2>1. Contributions!Next \/ UNCHANGED registryVars
    BY DEF MCNext, mcVars
  <2> QED BY <1>0, <2>1, RegistryStep, RegistryFrame
<1>4. SlotInv'
  <2>1. Slot!Next \/ UNCHANGED slotVars
    BY DEF MCNext, mcVars
  <2>2. CASE Slot!Next
    <3>1. SlotTypes' /\ OwnersInv'
      BY <1>0, <2>2, SlotOwners
    <3>2. SnapshotInv'
      BY <1>0, <2>2, SlotSnapshot
    <3> QED BY <3>1, <3>2 DEF SlotInv
  <2> QED BY <1>0, <2>1, <2>2, SlotFrame
<1>5. DocumentInv'
  <2>1. Store!Next \/ UNCHANGED storeVars
    BY DEF MCNext, mcVars
  <2>2. CASE Store!Next
    <3>1. DocumentTypes'
      BY <1>0, <2>2, DocumentTypesKept
    <3>2. SaverInv' /\ SavedStays'
      BY <1>0, <2>2, DocumentStep
    <3> QED BY <3>1, <3>2 DEF DocumentInv
  <2> QED BY <1>0, <2>1, <2>2, DocumentFrame
<1> QED BY <1>1, <1>2, <1>3, <1>4, <1>5 DEF RuntimeInv

\* The inductive invariant of the parts of the runtime: what is in force in the
\* start, the registries and the slots is what their scopes, tokens and
\* registrations own; the exit has one runner; and the exit's late thread is
\* never behind what was saved before it.
THEOREM RuntimeInvariant == MCSpec => []RuntimeInv
<1>1. MCInit => RuntimeInv
  BY StartInit, ExitInit, RegistryInit, SlotInit, DocumentInit, PartsAssumption DEF MCInit, RuntimeInv
<1> QED BY <1>1, RuntimeStep, PTL DEF MCSpec

\* Everything in force has an owner who can undo it or revoke it, and an answer
\* tells what was done, for any effects of the providers, any callers, scopes,
\* ids, capabilities and providers (StartupCleanup, AppExit, the registries'
\* register_batch and revoke, CapabilitySlot).
THEOREM OwnedByRuntime == MCSpec => []RuntimeOwned
<1>1. RuntimeInv => RuntimeOwned
  <2> SUFFICES ASSUME RuntimeInv PROVE RuntimeOwned
    OBVIOUS
  <2>1. Start!StartupExact /\ Exit!OneExit
    BY DEF RuntimeInv, StartInv, ExitInv
  <2>2. Contributions!OwnersKeep
    BY OwnersKeepNow DEF RuntimeInv
  <2>3. Slot!SlotsHold
    BY SlotsHoldNow, PartsAssumption DEF RuntimeInv
  <2> QED BY <2>1, <2>2, <2>3 DEF RuntimeOwned
<1> QED BY <1>1, RuntimeInvariant, PTL

\* What was saved stays saved, for any number of changes and of starts, through
\* exits that give up on their thread and through crashes; and only a run that
\* could not read a document may save another in its place (LiveDocument).
THEOREM DocumentsStaySaved == MCSpec => []SavedStays
<1>1. RuntimeInv => SavedStays
  BY DEF RuntimeInv, DocumentInv
<1> QED BY <1>1, RuntimeInvariant, PTL

\* What the start did last is undone first, across providers, contributions and
\* stages, failing stops and the retry, for any number of effects: a part of
\* UndoneInOrder (StartupCleanup::dispose).
THEOREM StartUndoneInReverse == MCSpec => Start!UndoneInReverse
<1>1. MCInit => RanksInv
  <2> SUFFICES ASSUME Start!Init PROVE RanksInv
    BY DEF MCInit
  <2>1. \A i \in 1 .. 7 : Start!Entries(own[Start!BuildOrder[i]]) = {}
    BY StagesListed DEF Start!Init, Start!NewScope, Start!Entries
  <2> QED BY <2>1 DEF Start!Init, RanksInv
<1>2. RuntimeInv /\ RanksInv /\ [MCNext]_mcVars => RanksInv'
  <2> SUFFICES ASSUME RuntimeInv, RanksInv, [MCNext]_mcVars PROVE RanksInv'
    OBVIOUS
  <2>1. CASE Start!Next
    BY <2>1, RanksStep, PartsAssumption DEF RuntimeInv
  <2>2. CASE UNCHANGED startVars
    BY <2>2 DEF startVars, RanksInv, Start!Entries
  <2> QED BY <2>1, <2>2 DEF MCNext, mcVars
<1>3. RuntimeInv /\ RanksInv /\ [MCNext]_mcVars
        => [\A e \in inForce \ inForce' : \A f \in inForce' : f.rank < e.rank]_startVars
  <2> SUFFICES ASSUME RuntimeInv, RanksInv, [MCNext]_mcVars
               PROVE  [\A e \in inForce \ inForce' : \A f \in inForce' : f.rank < e.rank]_startVars
    OBVIOUS
  <2>1. CASE Start!Next
    BY <2>1, RanksStep, PartsAssumption DEF RuntimeInv
  <2>2. CASE UNCHANGED startVars
    BY <2>2
  <2> QED BY <2>1, <2>2 DEF MCNext, mcVars
<1>4. MCSpec => [][\A e \in inForce \ inForce' : \A f \in inForce' : f.rank < e.rank]_startVars
  BY <1>1, <1>2, <1>3, RuntimeInvariant, PTL DEF MCSpec
<1> QED BY <1>4 DEF Start!UndoneInReverse, startVars, Start!vars
-----------------------------------------------------------------------------
(*****************************************************************************)
(* The shutdown barrier holds for any finite sets of threads.              *)
(*                                                                         *)
(* That a final flush is the last word on the store is not inductive: the  *)
(* thread that flushes sees neither the slots nor the other threads.  It   *)
(* follows from three facts about them.  The mutex is held by who is past  *)
(* it (BarrierShape); the counter is the number of threads that hold a     *)
(* slot (SlotsExact); and from the end of the wait for the slots on there  *)
(* are none and none is handed out (DrainedInv).                           *)
(*****************************************************************************)
\* The stages of a shutdown behind its wait for the slots.
DrainedBehind == {"look", "try", "recheck", "sealing", "sealedOk", "sealedFailed",
                  "unlockOk", "unlockFailed"}

\* The stages of each kind of thread.
BarrierStages ==
  /\ \A t \in Mutators :
       pc[t] \in {"idle", "queued", "inside", "leaving", "leavingFailed", "unwinding"}
  /\ \A t \in Flushers :
       pc[t] \in {"idle", "spawned", "queued", "inside", "leaving", "leavingFailed",
                  "unwinding", "ok", "failed", "gone"}
  /\ \A t \in Tasks : pc[t] \in {"idle", "reserved", "authorized"}
  /\ \A t \in Readers : pc[t] \in {"idle", "look", "try", "recheck", "reading"}
  /\ \A t \in Shutters :
       pc[t] \in DrainedBehind \cup {"idle", "drain", "ok", "failed", "gone", "over"}

BarrierShape == TypeOK /\ BarrierStages

\* A shutdown that began refuses new slots.  Behind its wait there are none, so
\* that its flush leaves nothing unsaved; and until the domain is closed the
\* thread that flushed keeps every reader off the store.
DrainedInv ==
  /\ \A t \in Shutters : pc[t] # "idle" => ~ accepting
  /\ \A t \in Shutters : pc[t] \in DrainedBehind => active = 0
  /\ sealed => ~ accepting /\ active = 0 /\ ~ unsaved
  /\ sealed => closed \/ \E t \in Shutters : pc[t] = "sealedOk"
  /\ NoReadAfterSeal

\* The inductive invariant.
BarrierInv == BarrierShape /\ SlotsExact /\ DrainedInv

USE DEF vars, state, Goto
-----------------------------------------------------------------------------
(***************************************************************************)
(* Types, stages and the mutex.                                            *)
(***************************************************************************)
\* The initial state has the shape.
LEMMA ShapeInit ==
  ASSUME Init
  PROVE  BarrierShape
BY BarrierAssumption DEF Init, BarrierShape, TypeOK, BarrierStages, Stages, Locked,
                         Requesters, Threads

\* Whoever moves keeps to the stages of its kind, and takes and gives back the
\* mutex as its stage says.
LEMMA ShapeStep ==
  ASSUME BarrierShape, [Next]_vars
  PROVE  BarrierShape'
<1> USE BarrierAssumption DEF BarrierShape, TypeOK, BarrierStages, Stages, Locked,
                              Requesters, Threads, DrainedBehind
<1>1. ASSUME NEW t \in Mutators \cup Flushers \cup Tasks, Reserve(t)
  PROVE BarrierShape'
  BY <1>1 DEF Reserve, ReserveSlot, Refusing
<1>2. ASSUME NEW t \in Mutators \cup Flushers, EnterMutation(t) PROVE BarrierShape'
  BY <1>2 DEF EnterMutation, Acquire
<1>3. ASSUME NEW t \in Mutators \cup Flushers, PoisonedMutation(t)
  PROVE BarrierShape'
  BY <1>3 DEF PoisonedMutation, Blocked, ReleaseSlot
<1>4. ASSUME NEW t \in Mutators \cup Flushers, StoreCall(t) PROVE BarrierShape'
  BY <1>4 DEF StoreCall, ReleaseSlot
<1>5. ASSUME NEW t \in Mutators \cup Flushers, LeaveMutation(t) PROVE BarrierShape'
  <2>1. /\ UNCHANGED <<accepting, active, closed, call, unsaved, sealed>>
        /\ holder' = None /\ poisoned' \in BOOLEAN
        /\ pc[t] \in {"leaving", "leavingFailed", "unwinding"}
    BY <1>5 DEF LeaveMutation
  <2>2. PICK s \in {"idle", "ok", "failed", "gone"} :
          pc' = [pc EXCEPT ![t] = s] /\ (t \notin Flushers => s = "idle")
    <3>1. CASE t \notin Flushers
      BY <1>5, <3>1 DEF LeaveMutation
    <3>2. CASE t \in Flushers
      BY <1>5, <3>2 DEF LeaveMutation
    <3> QED BY <3>1, <3>2
  <2> QED BY <2>1, <2>2
<1>6. ASSUME NEW t \in Tasks, EnterAuthorized(t) PROVE BarrierShape'
  BY <1>6 DEF EnterAuthorized, Acquire
<1>7. ASSUME NEW t \in Tasks, AuthorizedCall(t) PROVE BarrierShape'
  <2> USE <1>7 DEF AuthorizedCall
  <2>1. CASE pc' = [pc EXCEPT ![t] = "reserved"] /\ UNCHANGED <<state, poisoned>>
    BY <2>1
  <2>2. CASE pc' = [pc EXCEPT ![t] = "idle"] /\ ReleaseSlot /\ poisoned' = TRUE
    BY <2>2 DEF ReleaseSlot
  <2> QED BY <2>1, <2>2
<1>8. ASSUME NEW t \in Tasks, DropGuard(t) PROVE BarrierShape'
  BY <1>8 DEF DropGuard, ReleaseSlot
<1>9. ASSUME NEW t \in Readers, StartRead(t) PROVE BarrierShape'
  BY <1>9 DEF StartRead
<1>10. ASSUME NEW t \in Readers \cup Shutters, Look(t) PROVE BarrierShape'
  BY <1>10 DEF Look, Refused
<1>11. ASSUME NEW t \in Readers \cup Shutters, TryLock(t) PROVE BarrierShape'
  BY <1>11 DEF TryLock, Acquire, Blocked, Refused
<1>12. ASSUME NEW t \in Readers \cup Shutters, Recheck(t) PROVE BarrierShape'
  BY <1>12 DEF Recheck, Refused
<1>13. ASSUME NEW t \in Readers, Read(t) PROVE BarrierShape'
  BY <1>13 DEF Read
<1>14. ASSUME NEW t \in Flushers, StartFlush(t) PROVE BarrierShape'
  BY <1>14 DEF StartFlush
<1>15. ASSUME NEW t \in Shutters, StartShutdown(t) PROVE BarrierShape'
  <2>1. /\ UNCHANGED <<holder, poisoned, unsaved, sealed, active>>
        /\ accepting' = FALSE /\ closed' \in BOOLEAN
        /\ call' \in [Flushers \cup Shutters -> {"none", "waiting", "ok", "failed"}]
        /\ pc' = pc \/ (pc[t] = "idle" /\ pc' = [pc EXCEPT ![t] = "drain"])
    BY <1>15 DEF StartShutdown, MarkClosed
  <2>2. CASE pc' = pc
    BY <2>1, <2>2
  <2>3. CASE pc[t] = "idle" /\ pc' = [pc EXCEPT ![t] = "drain"]
    <3>1. \A u \in Threads : holder' = u <=> pc'[u] \in Locked
      BY <2>1, <2>3
    <3>2. BarrierStages'
      BY <2>1, <2>3
    <3> QED BY <2>1, <2>3, <3>1, <3>2
  <2> QED BY <2>1, <2>2, <2>3
<1>16. ASSUME NEW t \in Shutters, ShutdownRefused(t) PROVE BarrierShape'
  BY <1>16 DEF ShutdownRefused, Refusing
<1>17. ASSUME NEW t \in Shutters, Drain(t) PROVE BarrierShape'
  BY <1>17 DEF Drain
<1>18. ASSUME NEW t \in Shutters, DrainTimeout(t) PROVE BarrierShape'
  BY <1>18 DEF DrainTimeout, MarkClosed
<1>19. ASSUME NEW t \in Shutters, Seal(t) PROVE BarrierShape'
  <2>1. /\ UNCHANGED <<accepting, active, closed, call>>
        /\ sealed' \in BOOLEAN /\ unsaved' \in BOOLEAN /\ poisoned' \in BOOLEAN
        /\ pc[t] = "sealing"
        /\ \/ pc' = [pc EXCEPT ![t] = "sealedOk"] /\ holder' = holder
           \/ pc' = [pc EXCEPT ![t] = "sealedFailed"] /\ holder' = holder
           \/ pc' = [pc EXCEPT ![t] = "gone"] /\ holder' = None
    BY <1>19 DEF Seal
  <2>2. CASE pc' = [pc EXCEPT ![t] = "sealedOk"] /\ holder' = holder
    BY <2>1, <2>2
  <2>3. CASE pc' = [pc EXCEPT ![t] = "sealedFailed"] /\ holder' = holder
    BY <2>1, <2>3
  <2>4. CASE pc' = [pc EXCEPT ![t] = "gone"] /\ holder' = None
    BY <2>1, <2>4
  <2> QED BY <2>1, <2>2, <2>3, <2>4
<1>20. ASSUME NEW t \in Shutters, CloseAfterSeal(t) PROVE BarrierShape'
  BY <1>20 DEF CloseAfterSeal, MarkClosed
<1>21. ASSUME NEW t \in Shutters, Unlock(t) PROVE BarrierShape'
  BY <1>21 DEF Unlock
<1>22. ASSUME NEW t \in Flushers \cup Shutters, Receive(t) PROVE BarrierShape'
  BY <1>22 DEF Receive
<1>23. ASSUME NEW t \in Flushers \cup Shutters, GiveUp(t) PROVE BarrierShape'
  BY <1>23 DEF GiveUp, MarkClosed
<1>24. CASE UNCHANGED vars
  BY <1>24
<1> QED
  BY <1>1, <1>2, <1>3, <1>4, <1>5, <1>6, <1>7, <1>8, <1>9, <1>10, <1>11, <1>12,
     <1>13, <1>14, <1>15, <1>16, <1>17, <1>18, <1>19, <1>20, <1>21, <1>22, <1>23,
     <1>24
  DEF Next, MutationStep, TaskStep, LockStep, ShutdownStep, Requesters
-----------------------------------------------------------------------------
(***************************************************************************)
(* The counter.                                                            *)
(***************************************************************************)
\* A step that counts up with the thread that takes a slot, or down with the one
\* that gives its slot back, keeps the counter exact.
LEMMA SlotsKept ==
  ASSUME BarrierShape, SlotsExact, NEW t \in Threads,
         \/ SlotHolders' = SlotHolders /\ active' = active
         \/ /\ t \notin SlotHolders /\ active' = active + 1
            /\ SlotHolders' = SlotHolders \cup {t}
         \/ /\ t \in SlotHolders /\ ReleaseSlot
            /\ SlotHolders' = SlotHolders \ {t}
  PROVE  SlotsExact'
<1>1. IsFiniteSet(SlotHolders) /\ Cardinality(SlotHolders) \in Nat
  BY BarrierAssumption, FS_Subset, FS_CardinalityType DEF SlotHolders
<1>2. CASE SlotHolders' = SlotHolders /\ active' = active
  BY <1>2 DEF SlotsExact
<1>3. CASE /\ t \notin SlotHolders /\ active' = active + 1
           /\ SlotHolders' = SlotHolders \cup {t}
  BY <1>1, <1>3, FS_AddElement DEF SlotsExact
<1>4. CASE /\ t \in SlotHolders /\ ReleaseSlot
           /\ SlotHolders' = SlotHolders \ {t}
  <2>1. Cardinality(SlotHolders \ {t}) = Cardinality(SlotHolders) - 1
    BY <1>1, <1>4, FS_RemoveElement
  <2>2. Cardinality(SlotHolders \ {t}) \in Nat
    BY <1>1, FS_RemoveElement, FS_CardinalityType
  <2> QED BY <1>1, <1>4, <2>1, <2>2 DEF SlotsExact, ReleaseSlot
<1> QED BY <1>2, <1>3, <1>4

\* Every step is of that kind.
LEMMA SlotsStep ==
  ASSUME BarrierShape, SlotsExact, [Next]_vars
  PROVE  SlotsExact'
<1> USE BarrierAssumption DEF BarrierShape, TypeOK, BarrierStages, Requesters, Threads,
                              DrainedBehind
<1>1. ASSUME NEW t \in Mutators \cup Flushers \cup Tasks, Reserve(t)
  PROVE SlotsExact'
  <2>1. CASE ReserveSlot
    <3>1. t \notin SlotHolders /\ active' = active + 1
      BY <1>1, <2>1 DEF Reserve, ReserveSlot, SlotHolders
    <3>2. SlotHolders' = SlotHolders \cup {t}
      BY <1>1, <2>1 DEF Reserve, ReserveSlot, Refusing, SlotHolders
    <3> QED BY <3>1, <3>2, SlotsKept
  <2>2. CASE Refusing
    <3>1. SlotHolders' = SlotHolders /\ active' = active
      BY <1>1, <2>2 DEF Reserve, ReserveSlot, Refusing, SlotHolders
    <3> QED BY <3>1, SlotsKept
  <2> QED BY <1>1, <2>1, <2>2 DEF Reserve
<1>2. ASSUME NEW t \in Mutators \cup Flushers, EnterMutation(t) PROVE SlotsExact'
  <2>1. SlotHolders' = SlotHolders /\ active' = active
    BY <1>2 DEF EnterMutation, Acquire, SlotHolders
  <2> QED BY <2>1, SlotsKept
<1>3. ASSUME NEW t \in Mutators \cup Flushers, PoisonedMutation(t) PROVE SlotsExact'
  <2>1. t \in SlotHolders /\ ReleaseSlot
    BY <1>3 DEF PoisonedMutation, Blocked, SlotHolders
  <2>2. SlotHolders' = SlotHolders \ {t}
    BY <1>3 DEF PoisonedMutation, Blocked, SlotHolders
  <2> QED BY <2>1, <2>2, SlotsKept
<1>4. ASSUME NEW t \in Mutators \cup Flushers, StoreCall(t) PROVE SlotsExact'
  <2>1. t \in SlotHolders /\ ReleaseSlot
    BY <1>4 DEF StoreCall, SlotHolders
  <2>2. SlotHolders' = SlotHolders \ {t}
    BY <1>4 DEF StoreCall, SlotHolders
  <2> QED BY <2>1, <2>2, SlotsKept
<1>5. ASSUME NEW t \in Mutators \cup Flushers, LeaveMutation(t) PROVE SlotsExact'
  <2>1. SlotHolders' = SlotHolders /\ active' = active
    BY <1>5 DEF LeaveMutation, SlotHolders
  <2> QED BY <2>1, SlotsKept
<1>6. ASSUME NEW t \in Tasks, EnterAuthorized(t) PROVE SlotsExact'
  <2>1. SlotHolders' = SlotHolders /\ active' = active
    BY <1>6 DEF EnterAuthorized, Acquire, SlotHolders
  <2> QED BY <2>1, SlotsKept
<1>7. ASSUME NEW t \in Tasks, AuthorizedCall(t) PROVE SlotsExact'
  <2>1. CASE pc' = [pc EXCEPT ![t] = "reserved"] /\ UNCHANGED state
    <3>1. SlotHolders' = SlotHolders /\ active' = active
      BY <1>7, <2>1 DEF AuthorizedCall, SlotHolders
    <3> QED BY <3>1, SlotsKept
  <2>2. CASE pc' = [pc EXCEPT ![t] = "idle"] /\ ReleaseSlot
    <3>1. t \in SlotHolders
      BY <1>7 DEF AuthorizedCall, SlotHolders
    <3>2. SlotHolders' = SlotHolders \ {t}
      BY <1>7, <2>2 DEF AuthorizedCall, SlotHolders
    <3> QED BY <2>2, <3>1, <3>2, SlotsKept
  <2> QED BY <1>7, <2>1, <2>2 DEF AuthorizedCall
<1>8. ASSUME NEW t \in Tasks, DropGuard(t) PROVE SlotsExact'
  <2>1. t \in SlotHolders /\ ReleaseSlot
    BY <1>8 DEF DropGuard, SlotHolders
  <2>2. SlotHolders' = SlotHolders \ {t}
    BY <1>8 DEF DropGuard, SlotHolders
  <2> QED BY <2>1, <2>2, SlotsKept
<1>9. ASSUME NEW t \in Readers, StartRead(t) PROVE SlotsExact'
  <2>1. SlotHolders' = SlotHolders /\ active' = active
    BY <1>9 DEF StartRead, SlotHolders
  <2> QED BY <2>1, SlotsKept
<1>10. ASSUME NEW t \in Readers \cup Shutters, Look(t) PROVE SlotsExact'
  <2>1. SlotHolders' = SlotHolders /\ active' = active
    BY <1>10 DEF Look, Refused, SlotHolders
  <2> QED BY <2>1, SlotsKept
<1>11. ASSUME NEW t \in Readers \cup Shutters, TryLock(t) PROVE SlotsExact'
  <2>1. SlotHolders' = SlotHolders /\ active' = active
    BY <1>11 DEF TryLock, Acquire, Blocked, Refused, SlotHolders
  <2> QED BY <2>1, SlotsKept
<1>12. ASSUME NEW t \in Readers \cup Shutters, Recheck(t) PROVE SlotsExact'
  <2>1. SlotHolders' = SlotHolders /\ active' = active
    BY <1>12 DEF Recheck, Refused, SlotHolders
  <2> QED BY <2>1, SlotsKept
<1>13. ASSUME NEW t \in Readers, Read(t) PROVE SlotsExact'
  <2>1. SlotHolders' = SlotHolders /\ active' = active
    BY <1>13 DEF Read, SlotHolders
  <2> QED BY <2>1, SlotsKept
<1>14. ASSUME NEW t \in Flushers, StartFlush(t) PROVE SlotsExact'
  <2>1. SlotHolders' = SlotHolders /\ active' = active
    BY <1>14 DEF StartFlush, SlotHolders
  <2> QED BY <2>1, SlotsKept
<1>15. ASSUME NEW t \in Shutters, StartShutdown(t) PROVE SlotsExact'
  <2>1. SlotHolders' = SlotHolders /\ active' = active
    BY <1>15 DEF StartShutdown, MarkClosed, SlotHolders
  <2> QED BY <2>1, SlotsKept
<1>16. ASSUME NEW t \in Shutters, ShutdownRefused(t) PROVE SlotsExact'
  <2>1. SlotHolders' = SlotHolders /\ active' = active
    BY <1>16 DEF ShutdownRefused, Refusing, SlotHolders
  <2> QED BY <2>1, SlotsKept
<1>17. ASSUME NEW t \in Shutters, Drain(t) PROVE SlotsExact'
  <2>1. SlotHolders' = SlotHolders /\ active' = active
    BY <1>17 DEF Drain, SlotHolders
  <2> QED BY <2>1, SlotsKept
<1>18. ASSUME NEW t \in Shutters, DrainTimeout(t) PROVE SlotsExact'
  <2>1. SlotHolders' = SlotHolders /\ active' = active
    BY <1>18 DEF DrainTimeout, MarkClosed, SlotHolders
  <2> QED BY <2>1, SlotsKept
<1>19. ASSUME NEW t \in Shutters, Seal(t) PROVE SlotsExact'
  <2>1. SlotHolders' = SlotHolders /\ active' = active
    BY <1>19 DEF Seal, SlotHolders
  <2> QED BY <2>1, SlotsKept
<1>20. ASSUME NEW t \in Shutters, CloseAfterSeal(t) PROVE SlotsExact'
  <2>1. SlotHolders' = SlotHolders /\ active' = active
    BY <1>20 DEF CloseAfterSeal, MarkClosed, SlotHolders
  <2> QED BY <2>1, SlotsKept
<1>21. ASSUME NEW t \in Shutters, Unlock(t) PROVE SlotsExact'
  <2>1. SlotHolders' = SlotHolders /\ active' = active
    BY <1>21 DEF Unlock, SlotHolders
  <2> QED BY <2>1, SlotsKept
<1>22. ASSUME NEW t \in Flushers \cup Shutters, Receive(t) PROVE SlotsExact'
  <2>1. SlotHolders' = SlotHolders /\ active' = active
    BY <1>22 DEF Receive, SlotHolders
  <2> QED BY <2>1, SlotsKept
<1>23. ASSUME NEW t \in Flushers \cup Shutters, GiveUp(t) PROVE SlotsExact'
  <2>1. SlotHolders' = SlotHolders /\ active' = active
    BY <1>23 DEF GiveUp, MarkClosed, SlotHolders
  <2> QED BY <2>1, SlotsKept
<1>24. CASE UNCHANGED vars
  BY <1>24 DEF SlotsExact, SlotHolders
<1> QED
  BY <1>1, <1>2, <1>3, <1>4, <1>5, <1>6, <1>7, <1>8, <1>9, <1>10, <1>11, <1>12,
     <1>13, <1>14, <1>15, <1>16, <1>17, <1>18, <1>19, <1>20, <1>21, <1>22, <1>23,
     <1>24
  DEF Next, MutationStep, TaskStep, LockStep, ShutdownStep

-----------------------------------------------------------------------------
(***************************************************************************)
(* The drained domain.                                                     *)
(***************************************************************************)
\* While the counter is zero no thread holds a slot.
LEMMA NobodyInside ==
  ASSUME BarrierShape, SlotsExact, active = 0, NEW t \in Threads
  PROVE  pc[t] \notin {"reserved", "queued", "inside", "authorized"}
<1>1. IsFiniteSet(SlotHolders)
  BY BarrierAssumption, FS_Subset DEF SlotHolders
<1>2. SlotHolders = {}
  BY <1>1, FS_EmptySet DEF SlotsExact
<1> QED BY <1>2 DEF SlotHolders

\* No step brings a slot or a reader behind the wait.
LEMMA DrainedStep ==
  ASSUME BarrierShape, SlotsExact, DrainedInv, [Next]_vars
  PROVE  DrainedInv'
<1> USE BarrierAssumption DEF BarrierShape, TypeOK, BarrierStages, Requesters, Threads,
                              DrainedBehind, Locked, DrainedInv, NoReadAfterSeal
<1>1. ASSUME NEW t \in Mutators \cup Flushers \cup Tasks, Reserve(t)
  PROVE DrainedInv'
  BY <1>1 DEF Reserve, ReserveSlot, Refusing
<1>2. ASSUME NEW t \in Mutators \cup Flushers, EnterMutation(t) PROVE DrainedInv'
  BY <1>2 DEF EnterMutation, Acquire
<1>3. ASSUME NEW t \in Mutators \cup Flushers, PoisonedMutation(t) PROVE DrainedInv'
  BY <1>3 DEF PoisonedMutation, Blocked, ReleaseSlot
<1>4. ASSUME NEW t \in Mutators \cup Flushers, StoreCall(t) PROVE DrainedInv'
  BY <1>4, NobodyInside DEF StoreCall, ReleaseSlot
<1>5. ASSUME NEW t \in Mutators \cup Flushers, LeaveMutation(t) PROVE DrainedInv'
  BY <1>5 DEF LeaveMutation
<1>6. ASSUME NEW t \in Tasks, EnterAuthorized(t) PROVE DrainedInv'
  BY <1>6 DEF EnterAuthorized, Acquire
<1>7. ASSUME NEW t \in Tasks, AuthorizedCall(t) PROVE DrainedInv'
  BY <1>7, NobodyInside DEF AuthorizedCall, ReleaseSlot
<1>8. ASSUME NEW t \in Tasks, DropGuard(t) PROVE DrainedInv'
  BY <1>8 DEF DropGuard, ReleaseSlot
<1>9. ASSUME NEW t \in Readers, StartRead(t) PROVE DrainedInv'
  BY <1>9 DEF StartRead
<1>10. ASSUME NEW t \in Readers \cup Shutters, Look(t) PROVE DrainedInv'
  BY <1>10 DEF Look, Refused
<1>11. ASSUME NEW t \in Readers \cup Shutters, TryLock(t) PROVE DrainedInv'
  BY <1>11 DEF TryLock, Acquire, Blocked, Refused
<1>12. ASSUME NEW t \in Readers \cup Shutters, Recheck(t) PROVE DrainedInv'
  BY <1>12 DEF Recheck, Refused
<1>13. ASSUME NEW t \in Readers, Read(t) PROVE DrainedInv'
  BY <1>13 DEF Read
<1>14. ASSUME NEW t \in Flushers, StartFlush(t) PROVE DrainedInv'
  BY <1>14 DEF StartFlush
<1>15. ASSUME NEW t \in Shutters, StartShutdown(t) PROVE DrainedInv'
  BY <1>15 DEF StartShutdown, MarkClosed
<1>16. ASSUME NEW t \in Shutters, ShutdownRefused(t) PROVE DrainedInv'
  BY <1>16 DEF ShutdownRefused, Refusing
<1>17. ASSUME NEW t \in Shutters, Drain(t) PROVE DrainedInv'
  BY <1>17 DEF Drain
<1>18. ASSUME NEW t \in Shutters, DrainTimeout(t) PROVE DrainedInv'
  BY <1>18 DEF DrainTimeout, MarkClosed
<1>19. ASSUME NEW t \in Shutters, Seal(t) PROVE DrainedInv'
  BY <1>19 DEF Seal
<1>20. ASSUME NEW t \in Shutters, CloseAfterSeal(t) PROVE DrainedInv'
  BY <1>20 DEF CloseAfterSeal, MarkClosed
<1>21. ASSUME NEW t \in Shutters, Unlock(t) PROVE DrainedInv'
  BY <1>21 DEF Unlock
<1>22. ASSUME NEW t \in Flushers \cup Shutters, Receive(t) PROVE DrainedInv'
  BY <1>22 DEF Receive
<1>23. ASSUME NEW t \in Flushers \cup Shutters, GiveUp(t) PROVE DrainedInv'
  BY <1>23 DEF GiveUp, MarkClosed
<1>24. CASE UNCHANGED vars
  BY <1>24
<1> QED
  BY <1>1, <1>2, <1>3, <1>4, <1>5, <1>6, <1>7, <1>8, <1>9, <1>10, <1>11, <1>12,
     <1>13, <1>14, <1>15, <1>16, <1>17, <1>18, <1>19, <1>20, <1>21, <1>22, <1>23,
     <1>24
  DEF Next, MutationStep, TaskStep, LockStep, ShutdownStep, Requesters

-----------------------------------------------------------------------------
\* The invariant holds, and with it the barrier.
LEMMA BarrierInit == Init => BarrierInv
<1> SUFFICES ASSUME Init PROVE BarrierInv
  OBVIOUS
<1>1. BarrierShape
  BY ShapeInit
<1>2. SlotHolders = {}
  BY DEF Init, SlotHolders
<1>3. SlotsExact
  BY <1>2, FS_EmptySet DEF SlotsExact, Init
<1>4. DrainedInv
  BY BarrierAssumption DEF Init, DrainedInv, NoReadAfterSeal, DrainedBehind, Threads
<1> QED BY <1>1, <1>3, <1>4 DEF BarrierInv

\* One step keeps it.
LEMMA BarrierStep == BarrierInv /\ [Next]_vars => BarrierInv'
BY ShapeStep, SlotsStep, DrainedStep DEF BarrierInv

\* The counter, the mutex and the stages of a shutdown agree, in every order of
\* mutations, tasks, flushes and shutdowns, and whatever fails or panics.
THEOREM BarrierInvariant == Spec => []BarrierInv
<1> QED BY BarrierInit, BarrierStep, PTL DEF Spec

\* The final flush of a domain is its last word: no slot leaks or is given back
\* twice, no mutation that was admitted stays behind the flush, and no read comes
\* after it (SharedStoreCore and its guards).
THEOREM BarrierIsKept == Spec => []BarrierHolds
<1>1. BarrierInv => BarrierHolds
  BY DEF BarrierInv, BarrierShape, DrainedInv, BarrierHolds, NothingBehindTheBarrier
<1> QED BY <1>1, BarrierInvariant, PTL
=============================================================================
