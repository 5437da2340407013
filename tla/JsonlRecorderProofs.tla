------------------------ MODULE JsonlRecorderProofs -------------------------
(***************************************************************************)
(* The durable recorder, for every bound: its types, the lemmas on         *)
(* sequences of records that the proofs use, the refinement of DurableLog, *)
(* and what the recorder guarantees besides the durable log.               *)
(*                                                                         *)
(* Nothing in a single step says that a batch about to be written is not   *)
(* in the file yet, or that what is about to be acknowledged is on stable  *)
(* storage: Inv follows the identities of a batch from the moment they are *)
(* handed out, and what each stage of the worker has established.          *)
(***************************************************************************)
EXTENDS JsonlRecorder, SequenceTheorems, TLAPS

\* Two batches have no identity in common.
Disjoint(s, t) == Ids(s) \cap Ids(t) = {}
-----------------------------------------------------------------------------
(***************************************************************************)
(* Records, sequences and their identities.                                *)
(***************************************************************************)

\* Concatenation keeps both parts, record by record.
LEMMA ConcatOfRecords ==
  ASSUME NEW s \in Seq(Entry), NEW t \in Seq(Entry)
  PROVE  /\ s \o t \in Seq(Entry)
         /\ Len(s \o t) = Len(s) + Len(t)
         /\ \A i \in 1 .. Len(s) : (s \o t)[i] = s[i]
         /\ \A i \in 1 .. Len(t) : (s \o t)[Len(s) + i] = t[i]
  OBVIOUS

\* A prefix or a suffix of a batch is a batch.
LEMMA PartOfRecords ==
  ASSUME NEW s \in Seq(Entry), NEW m \in 1 .. Len(s) + 1, NEW n \in 0 .. Len(s),
         m <= n + 1
  PROVE  /\ SubSeq(s, m, n) \in Seq(Entry)
         /\ Len(SubSeq(s, m, n)) = n - m + 1
         /\ \A i \in 1 .. n - m + 1 : SubSeq(s, m, n)[i] = s[m + i - 1]
  OBVIOUS

\* The identities of a concatenation are those of its parts.
LEMMA IdsConcat ==
  ASSUME NEW s \in Seq(Entry), NEW t \in Seq(Entry)
  PROVE  Ids(s \o t) = Ids(s) \cup Ids(t)
<1>1. ASSUME NEW x \in Ids(s \o t) PROVE x \in Ids(s) \cup Ids(t)
  <2>1. PICK i \in 1 .. Len(s) + Len(t) : x = (s \o t)[i].id
    BY ConcatOfRecords DEF Ids
  <2>2. CASE i <= Len(s)
    BY <2>1, <2>2, ConcatOfRecords DEF Ids
  <2>3. CASE ~ (i <= Len(s))
    <3>1. i - Len(s) \in 1 .. Len(t) /\ i = Len(s) + (i - Len(s))
      BY <2>1, <2>3
    <3>2. x = t[i - Len(s)].id
      BY <2>1, <3>1, ConcatOfRecords
    <3> QED BY <3>1, <3>2 DEF Ids
  <2> QED BY <2>2, <2>3
<1>2. ASSUME NEW x \in Ids(s) PROVE x \in Ids(s \o t)
  <2>1. PICK i \in 1 .. Len(s) : x = s[i].id
    BY DEF Ids
  <2> QED BY <2>1, ConcatOfRecords DEF Ids
<1>3. ASSUME NEW x \in Ids(t) PROVE x \in Ids(s \o t)
  <2>1. PICK i \in 1 .. Len(t) : x = t[i].id
    BY DEF Ids
  <2>2. Len(s) + i \in DOMAIN (s \o t)
    BY ConcatOfRecords
  <2>3. (s \o t)[Len(s) + i].id = x
    BY <2>1, ConcatOfRecords
  <2> QED BY <2>2, <2>3 DEF Ids
<1> QED BY <1>1, <1>2, <1>3

\* A part of a sequence has no identities of its own, and no repetition that
\* the sequence does not have.
LEMMA IdsSubSeq ==
  ASSUME NEW s \in Seq(Entry), NEW m \in 1 .. Len(s) + 1, NEW n \in 0 .. Len(s),
         m <= n + 1
  PROVE  /\ Ids(SubSeq(s, m, n)) \subseteq Ids(s)
         /\ NoDuplicateIds(s) => NoDuplicateIds(SubSeq(s, m, n))
<1> DEFINE u == SubSeq(s, m, n)
<1>1. \A i \in DOMAIN u : m + i - 1 \in DOMAIN s /\ u[i] = s[m + i - 1]
  BY PartOfRecords
<1> HIDE DEF u
<1>2. Ids(u) \subseteq Ids(s)
  BY <1>1 DEF Ids
<1>3. DOMAIN u \subseteq Nat
  BY PartOfRecords DEF u
<1>4. ASSUME NoDuplicateIds(s), NEW i \in DOMAIN u, NEW j \in DOMAIN u,
             u[i].id = u[j].id
      PROVE  i = j
  BY <1>1, <1>3, <1>4 DEF NoDuplicateIds
<1>5. NoDuplicateIds(s) => NoDuplicateIds(u)
  BY <1>4 DEF NoDuplicateIds
<1> QED BY <1>2, <1>5 DEF u

\* A sequence is its prefix and the rest.
LEMMA IdsSplit ==
  ASSUME NEW s \in Seq(Entry), NEW m \in 0 .. Len(s)
  PROVE  Ids(s) \subseteq Ids(SubSeq(s, 1, m)) \cup Ids(SubSeq(s, m + 1, Len(s)))
<1> SUFFICES ASSUME NEW x \in Ids(s)
             PROVE  x \in Ids(SubSeq(s, 1, m)) \cup Ids(SubSeq(s, m + 1, Len(s)))
  OBVIOUS
<1>1. PICK i \in 1 .. Len(s) : x = s[i].id
  BY DEF Ids
<1>2. CASE i <= m
  <2>1. i \in DOMAIN SubSeq(s, 1, m) /\ SubSeq(s, 1, m)[i] = s[i]
    BY <1>2, PartOfRecords
  <2> QED BY <1>1, <2>1 DEF Ids
<1>3. CASE m < i
  <2>1. i - m \in DOMAIN SubSeq(s, m + 1, Len(s))
    BY <1>3, PartOfRecords
  <2>2. SubSeq(s, m + 1, Len(s))[i - m] = s[i]
    BY <1>3, PartOfRecords
  <2> QED BY <1>1, <2>1, <2>2 DEF Ids
<1> QED BY <1>2, <1>3

\* Two sequences without repetition that share nothing make one.
LEMMA NoDuplicateConcat ==
  ASSUME NEW s \in Seq(Entry), NEW t \in Seq(Entry),
         NoDuplicateIds(s), NoDuplicateIds(t), Disjoint(s, t)
  PROVE  NoDuplicateIds(s \o t)
<1> DEFINE u == s \o t
<1>1. \A i \in DOMAIN u :
        \/ i \in DOMAIN s /\ u[i] = s[i]
        \/ i - Len(s) \in DOMAIN t /\ u[i] = t[i - Len(s)]
  BY ConcatOfRecords
<1>2. DOMAIN u \subseteq Int /\ Len(s) \in Int
  BY ConcatOfRecords
<1> HIDE DEF u
<1>3. ASSUME NEW i \in DOMAIN u, NEW j \in DOMAIN u, u[i].id = u[j].id
      PROVE  i = j
  <2>1. CASE i \in DOMAIN s /\ u[i] = s[i] /\ j \in DOMAIN s /\ u[j] = s[j]
    BY <1>3, <2>1 DEF NoDuplicateIds
  <2>2. CASE /\ i - Len(s) \in DOMAIN t /\ u[i] = t[i - Len(s)]
             /\ j - Len(s) \in DOMAIN t /\ u[j] = t[j - Len(s)]
    <3>1. i - Len(s) = j - Len(s)
      BY <1>3, <2>2 DEF NoDuplicateIds
    <3> QED BY <3>1, <1>2
  <2>3. CASE /\ i \in DOMAIN s /\ u[i] = s[i]
             /\ j - Len(s) \in DOMAIN t /\ u[j] = t[j - Len(s)]
    BY <1>3, <2>3 DEF Disjoint, Ids
  <2>4. CASE /\ i - Len(s) \in DOMAIN t /\ u[i] = t[i - Len(s)]
             /\ j \in DOMAIN s /\ u[j] = s[j]
    BY <1>3, <2>4 DEF Disjoint, Ids
  <2> QED BY <1>1, <2>1, <2>2, <2>3, <2>4
<1> QED BY <1>3 DEF NoDuplicateIds, u
-----------------------------------------------------------------------------
(***************************************************************************)
(* Types.                                                                  *)
(***************************************************************************)

\* The batches an owner can ask for are sequences of records.
LEMMA BatchTypes ==
  ASSUME MemoryOK, nextId \in Nat
  PROVE  /\ \A n \in Nat : MessageBatch(n) \in Seq(Entry)
         /\ \A t \in Id : LeafBatch(t) \in Seq(Entry)
<1>1. TailLeaf \in Id
  <2>1. CASE pending = <<>>
    BY <2>1 DEF MemoryOK, TailLeaf
  <2>2. CASE pending # <<>>
    <3>1. Last(pending) \in Entry
      BY <2>2 DEF MemoryOK, Last
    <3> QED BY <2>2, <3>1 DEF TailLeaf, Entry
  <2> QED BY <2>1, <2>2
<1>2. ASSUME NEW n \in Nat PROVE MessageBatch(n) \in Seq(Entry)
  <2>1. MessageBatch(n) \in [1 .. n -> Entry]
    BY <1>1 DEF MessageBatch, Entry, Id
  <2> QED BY <2>1
<1>3. ASSUME NEW t \in Id PROVE LeafBatch(t) \in Seq(Entry)
  BY <1>1, <1>3 DEF LeafBatch, Entry, Id
<1> QED BY <1>2, <1>3

\* The identities of records, and the leaf after them, are identities.
LEMMA IdTypes ==
  ASSUME NEW s \in Seq(Entry)
  PROVE  /\ Ids(s) \subseteq Id
         /\ s # <<>> => Last(s) \in Entry /\ Last(s).leaf \in Id
<1>1. \A i \in DOMAIN s : s[i] \in Entry
  OBVIOUS
<1>2. \A i \in DOMAIN s : s[i].id \in Id
  BY <1>1 DEF Entry
<1>3. s # <<>> => Last(s) \in Entry
  BY DEF Last
<1> QED BY <1>2, <1>3 DEF Ids, Entry

\* A complete or failed write leaves a sequence of records that extends the
\* file by records of the batch.
LEMMA WriteEffect ==
  ASSUME DiskOK, NEW s \in Seq(Entry), WriteAll(s) \/ WriteFails(s)
  PROVE  \E n \in 0 .. Len(s) :
           /\ file' = file \/ file' = file \o SubSeq(s, 1, n)
           /\ tail' \in Tails
<1>1. CASE WriteAll(s)
  <2>1. SubSeq(s, 1, Len(s)) = s /\ Len(s) \in 0 .. Len(s)
    OBVIOUS
  <2> QED BY <1>1, <2>1 DEF WriteAll, DiskOK, Tails
<1>2. CASE WriteFails(s)
  <2>1. PICK n \in 0 .. Len(s), t \in {"clean", "bare", "torn"} :
          IF tail = "clean"
          THEN file' = file \o SubSeq(s, 1, n) /\ tail' = t
          ELSE file' = file /\ tail' = "corrupt"
    BY <1>2 DEF WriteFails
  <2> QED BY <2>1 DEF Tails
<1> QED BY <1>1, <1>2

\* The disk keeps its type in a write.
LEMMA WriteTypes ==
  ASSUME DiskOK, NEW s \in Seq(Entry), WriteAll(s) \/ WriteFails(s)
  PROVE  file' \in Seq(Entry) /\ tail' \in Tails /\ Len(file) <= Len(file')
<1>1. PICK n \in 0 .. Len(s) :
        /\ file' = file \/ file' = file \o SubSeq(s, 1, n)
        /\ tail' \in Tails
  BY WriteEffect
<1>2. SubSeq(s, 1, n) \in Seq(Entry)
  BY PartOfRecords
<1>3. file \in Seq(Entry)
  BY DEF DiskOK
<1>4. CASE file' = file
  BY <1>1, <1>3, <1>4
<1>5. CASE file' = file \o SubSeq(s, 1, n)
  BY <1>1, <1>2, <1>3, <1>5, ConcatOfRecords
<1> QED BY <1>1, <1>4, <1>5

\* Each step keeps the type of the disk.
LEMMA DiskStep == TypeOK /\ [Next]_vars => DiskOK'
<1> SUFFICES ASSUME TypeOK, [Next]_vars PROVE DiskOK'
  OBVIOUS
<1>1. DiskOK /\ file \in Seq(Entry) /\ synced \in 1 .. Len(file)
  BY DEF TypeOK, DiskOK
<1>2. ASSUME UNCHANGED disk PROVE DiskOK'
  BY <1>1, <1>2 DEF disk, DiskOK
<1>3. ASSUME OpenFile \/ OpenFileFails PROVE DiskOK'
  BY <1>1, <1>3 DEF OpenFile, OpenFileFails, DiskOK, Tails
<1>4. ASSUME NEW s \in Seq(Entry), WriteAll(s) \/ WriteFails(s),
             UNCHANGED synced
      PROVE  DiskOK'
  BY <1>1, <1>4, WriteTypes DEF DiskOK
<1>5. ASSUME UNCHANGED <<file, tail>>, synced' \in {synced, Len(file)}
      PROVE  DiskOK'
  BY <1>1, <1>5 DEF DiskOK
<1>6. CASE Owner
  BY <1>2, <1>6
  DEF Owner, AppendBatch, SetLeaf, SetLeafRefused, Flush, Drop, Begin, Abandon,
      Abort
<1>7. CASE NothingPending \/ PersistFailed \/ WriteNothing \/ SyncFailed \/ Exit
  BY <1>2, <1>7
  DEF NothingPending, PersistFailed, WriteNothing, SyncFailed, Exit
<1>8. CASE Reconcile \/ ReconcileFails \/ Open \/ OpenFails
  BY <1>3, <1>8 DEF Reconcile, ReconcileFails, Open, OpenFails
<1>9. CASE Rewrite
  <2>1. CASE missing = <<>>
    BY <1>5, <1>9, <2>1 DEF Rewrite
  <2>2. CASE missing # <<>>
    BY <1>4, <1>9, <2>2 DEF Rewrite, TypeOK, WorkOK
  <2> QED BY <2>1, <2>2
<1>10. CASE RewriteFails
  BY <1>4, <1>10 DEF RewriteFails, TypeOK, WorkOK
<1>11. CASE Write
  BY <1>4, <1>11 DEF Write, TypeOK, WorkOK
<1>12. CASE WriteFailed
  BY <1>4, <1>12 DEF WriteFailed, TypeOK, WorkOK
<1>13. CASE Resync \/ ResyncFails \/ Sync \/ FlushFile
  BY <1>5, <1>13 DEF Resync, ResyncFails, Sync, FlushFile
<1>14. CASE Crash
  <2>1. PICK n \in synced .. Len(file), t \in Tails :
          file' = SubSeq(file, 1, n) /\ tail' = t /\ synced' = synced
    BY <1>14 DEF Crash
  <2>2. n \in 0 .. Len(file) /\ 1 \in 1 .. Len(file) + 1
    BY <1>1
  <2>3. file' \in Seq(Entry) /\ Len(file') = n
    BY <1>1, <2>1, <2>2, PartOfRecords
  <2> QED BY <1>1, <2>1, <2>3 DEF DiskOK
<1>15. CASE ForeignAppend
  <2>1. Last(file).leaf \in Id
    BY <1>1, IdTypes
  <2>2. [id |-> - foreign - 1, parent |-> Last(file).leaf,
         leaf |-> - foreign - 1] \in Entry
    BY <2>1 DEF Entry, Id, TypeOK
  <2>3. /\ file' = Append(file, [id |-> - foreign - 1,
                                 parent |-> Last(file).leaf,
                                 leaf |-> - foreign - 1])
        /\ UNCHANGED <<tail, synced>>
    BY <1>15 DEF ForeignAppend
  <2>4. file' \in Seq(Entry) /\ Len(file') = Len(file) + 1
    BY <1>1, <2>2, <2>3
  <2> QED BY <1>1, <2>3, <2>4 DEF DiskOK
<1>16. CASE UNCHANGED vars
  BY <1>2, <1>16 DEF vars
<1> QED
  BY <1>6, <1>7, <1>8, <1>9, <1>10, <1>11, <1>12, <1>13, <1>14, <1>15, <1>16
  DEF Next, Worker

\* Each step keeps the type of the worker's memory.
LEMMA MemoryStep == TypeOK /\ [Next]_vars => MemoryOK'
<1> SUFFICES ASSUME TypeOK, [Next]_vars PROVE MemoryOK'
  OBVIOUS
<1>0. <<>> \in Seq(Entry)
  OBVIOUS
<1>1. MemoryOK /\ prepared \in Seq(Entry) /\ missing \in Seq(Entry)
  BY DEF TypeOK, WorkOK
<1>2. ASSUME UNCHANGED memory PROVE MemoryOK'
  BY <1>1, <1>2 DEF memory, MemoryOK
<1>3. ASSUME UNCHANGED <<known, leaf, persist>>, pendingFlag' \in BOOLEAN,
             pending' \in Seq(Entry)
      PROVE  MemoryOK'
  BY <1>1, <1>3 DEF MemoryOK
<1>4. file \in Seq(Entry) /\ file # <<>>
  BY DEF TypeOK, DiskOK
<1>5. ASSUME NEW s \in Seq(Entry), Committed(s)
      PROVE  known' \subseteq Id /\ leaf' \in Id
  BY <1>1, <1>5, IdTypes DEF Committed, MemoryOK
<1>6. CASE \/ \E n \in 0 .. MaxBatch : AppendBatch(n)
           \/ \E t \in 0 .. nextId - 1 : SetLeaf(t) \/ SetLeafRefused(t)
           \/ Flush
           \/ \E o \in {"shutdown", "disconnect"} : Drop(o)
  BY <1>2, <1>6 DEF AppendBatch, SetLeaf, SetLeafRefused, Flush, Drop, Begin
<1>7. CASE ReconcileFails \/ Rewrite \/ RewriteFails \/ Write \/ WriteNothing
           \/ FlushFile \/ Exit \/ OpenFails \/ ForeignAppend
  BY <1>2, <1>7
  DEF ReconcileFails, Rewrite, RewriteFails, Write, WriteNothing, FlushFile,
      Exit, OpenFails, ForeignAppend
<1>8. CASE Abandon
  BY <1>1, <1>8 DEF Abandon, MemoryOK
<1>9. CASE Abort
  <2>1. /\ UNCHANGED <<known, leaf, persist>>
        /\ pending' = <<>> /\ pendingFlag' = FALSE
    BY <1>9 DEF Abort
  <2> QED BY <1>0, <1>3, <2>1
<1>10. CASE NothingPending
  BY <1>1, <1>3, <1>10 DEF NothingPending, MemoryOK
<1>11. CASE Reconcile
  <2>1. known' \subseteq Id /\ leaf' \in Id
    BY <1>4, <1>11, IdTypes DEF Reconcile
  <2> QED BY <1>1, <1>11, <2>1 DEF Reconcile, MemoryOK
<1>12. CASE Resync
  <2>1. known' \subseteq Id /\ leaf' \in Id
    BY <1>1, <1>5, <1>12 DEF Resync
  <2>2. pending' = <<>> /\ pendingFlag' = FALSE /\ persist' = persist
    BY <1>12 DEF Resync
  <2> QED BY <1>0, <1>1, <2>1, <2>2 DEF MemoryOK
<1>13. CASE ResyncFails
  <2>1. known' \subseteq Id /\ leaf' \in Id
    BY <1>1, <1>5, <1>13 DEF ResyncFails, MemoryOK
  <2>2. UNCHANGED <<pending, pendingFlag, persist>>
    BY <1>13 DEF ResyncFails
  <2> QED BY <1>1, <2>1, <2>2 DEF MemoryOK
<1>14. CASE PersistFailed
  <2>1. pending' \in Seq(Entry)
    BY <1>1, <1>14, ConcatOfRecords DEF PersistFailed, MemoryOK
  <2> QED BY <1>3, <1>14, <2>1 DEF PersistFailed
<1>15. CASE WriteFailed \/ SyncFailed
  BY <1>1, <1>3, <1>15 DEF WriteFailed, SyncFailed, KeepPrepared
<1>16. CASE Sync
  <2>1. known' \subseteq Id /\ leaf' \in Id
    BY <1>1, <1>5, <1>16 DEF Sync
  <2>2. UNCHANGED <<pending, pendingFlag, persist>>
    BY <1>16 DEF Sync
  <2> QED BY <1>1, <2>1, <2>2 DEF MemoryOK
<1>17. CASE Crash
  <2>1. /\ known' = {} /\ leaf' = 0 /\ pending' = <<>>
        /\ pendingFlag' = FALSE /\ persist' = TRUE
    BY <1>17 DEF Crash
  <2>2. known' \subseteq Id /\ leaf' \in Id
    BY <2>1 DEF Id
  <2> QED BY <1>0, <2>1, <2>2 DEF MemoryOK
<1>18. CASE Open
  <2>1. known' \subseteq Id /\ leaf' \in Id
    BY <1>4, <1>18, IdTypes DEF Open
  <2>2. pending' = <<>> /\ pendingFlag' = FALSE /\ persist' = TRUE
    BY <1>18 DEF Open
  <2> QED BY <1>0, <2>1, <2>2 DEF MemoryOK
<1>19. CASE UNCHANGED vars
  BY <1>2, <1>19 DEF vars
<1> QED
  BY <1>6, <1>7, <1>8, <1>9, <1>10, <1>11, <1>12, <1>13, <1>14, <1>15, <1>16,
     <1>17, <1>18, <1>19
  DEF Next, Owner, Worker

\* Each step keeps the type of the command in work.
LEMMA WorkStep == TypeOK /\ [Next]_vars => WorkOK'
<1> SUFFICES ASSUME TypeOK, [Next]_vars PROVE WorkOK'
  OBVIOUS
<1>0. <<>> \in Seq(Entry)
  OBVIOUS
<1>1. WorkOK /\ MemoryOK /\ pending \in Seq(Entry)
  BY DEF TypeOK, MemoryOK
<1>2. ASSUME UNCHANGED work, pc' \in Stages, result' \in {"none", "ok", "err"}
      PROVE  WorkOK'
  BY <1>1, <1>2 DEF work, WorkOK
<1>3. AfterPersist \in Stages
  BY DEF AfterPersist, Stages
<1>4. ASSUME NEW o \in {"append", "flush", "shutdown", "disconnect"},
             NEW b \in Seq(Entry), Begin(o, b)
      PROVE  WorkOK'
  BY <1>4 DEF Begin, WorkOK, Stages
<1>5. ASSUME NEW r \in {"none", "ok", "err"}, Answer(r) PROVE WorkOK'
  BY <1>5 DEF Answer, Idle, WorkOK, Stages
<1>6. pc \in Stages /\ result \in {"none", "ok", "err"}
  BY <1>1 DEF WorkOK
<1>7. ASSUME NEW n \in 0 .. MaxBatch, AppendBatch(n) PROVE WorkOK'
  <2>1. MessageBatch(n) \in Seq(Entry)
    BY BatchTypes, BoundsAssumption DEF TypeOK
  <2> QED BY <1>4, <1>7, <2>1 DEF AppendBatch
<1>8. ASSUME NEW t \in 0 .. nextId - 1, SetLeaf(t) PROVE WorkOK'
  <2>1. LeafBatch(t) \in Seq(Entry)
    BY BatchTypes DEF TypeOK, Id
  <2> QED BY <1>4, <1>8, <2>1 DEF SetLeaf
<1>9. ASSUME NEW t \in 0 .. nextId - 1, SetLeafRefused(t) PROVE WorkOK'
  BY <1>2, <1>6, <1>9 DEF SetLeafRefused
<1>10. CASE Flush
  <2>1. Begin("flush", <<>>)
    BY <1>10 DEF Flush
  <2> QED BY <1>0, <1>4, <2>1
<1>11. ASSUME NEW o \in {"shutdown", "disconnect"}, Drop(o) PROVE WorkOK'
  <2>1. Begin(o, <<>>)
    BY <1>11 DEF Drop
  <2> QED BY <1>0, <1>4, <2>1
<1>12. CASE Abandon \/ Abort
  BY <1>2, <1>6, <1>12 DEF Abandon, Abort, Stages
<1>13. CASE NothingPending
  BY <1>2, <1>3, <1>6, <1>13 DEF NothingPending
<1>14. CASE Reconcile
  <2>1. PICK m \in 0 .. Len(pending) : missing' = Suffix(pending, m)
    BY <1>14 DEF Reconcile
  <2>2. missing' \in Seq(Entry)
    BY <1>1, <2>1, PartOfRecords DEF Suffix
  <2>3. UNCHANGED <<op, prepared, recovered, result>> /\ pc' \in Stages
    BY <1>14 DEF Reconcile, Stages
  <2> QED BY <1>1, <2>2, <2>3 DEF WorkOK
<1>15. CASE ReconcileFails \/ Rewrite \/ RewriteFails \/ Write
  BY <1>2, <1>6, <1>15 DEF ReconcileFails, Rewrite, RewriteFails, Write, Stages
<1>16. CASE Resync
  BY <1>1, <1>3, <1>16 DEF Resync, WorkOK
<1>17. CASE ResyncFails
  BY <1>2, <1>6, <1>17 DEF ResyncFails, Stages
<1>18. CASE PersistFailed \/ WriteNothing \/ WriteFailed \/ Sync \/ SyncFailed
            \/ FlushFile \/ Exit
  BY <1>5, <1>18
  DEF PersistFailed, WriteNothing, WriteFailed, Sync, SyncFailed, FlushFile, Exit
<1>19. CASE Crash
  BY <1>19 DEF Crash, Idle, WorkOK, Stages
<1>20. CASE Open \/ OpenFails \/ ForeignAppend
  BY <1>2, <1>6, <1>20 DEF Open, OpenFails, ForeignAppend, Stages
<1>21. CASE UNCHANGED vars
  BY <1>2, <1>6, <1>21 DEF vars
<1> QED
  BY <1>7, <1>8, <1>9, <1>10, <1>11, <1>12, <1>13, <1>14, <1>15, <1>16, <1>17,
     <1>18, <1>19, <1>20, <1>21
  DEF Next, Owner, Worker

\* Each step keeps the type of the counters and of what was acknowledged.
LEMMA CounterStep ==
  TypeOK /\ [Next]_vars =>
    /\ nextId' \in Nat /\ acked' \subseteq Id
    /\ crashes' \in Nat /\ foreign' \in Nat
<1> SUFFICES ASSUME TypeOK, [Next]_vars
             PROVE  /\ nextId' \in Nat /\ acked' \subseteq Id
                    /\ crashes' \in Nat /\ foreign' \in Nat
  OBVIOUS
<1>1. /\ nextId \in Nat /\ acked \subseteq Id
      /\ crashes \in Nat /\ foreign \in Nat
      /\ recovered \in Seq(Entry) /\ prepared \in Seq(Entry)
  BY DEF TypeOK, WorkOK
<1>2. CASE UNCHANGED <<nextId, acked, crashes, foreign>>
  BY <1>1, <1>2
<1>3. ASSUME NEW n \in 0 .. MaxBatch, AppendBatch(n)
      PROVE  nextId' \in Nat /\ UNCHANGED <<acked, crashes, foreign>>
  BY <1>1, <1>3, BoundsAssumption DEF AppendBatch, Begin
<1>4. ASSUME NEW t \in 0 .. nextId - 1, SetLeaf(t)
      PROVE  nextId' \in Nat /\ UNCHANGED <<acked, crashes, foreign>>
  BY <1>1, <1>4 DEF SetLeaf, Begin
<1>5. CASE WriteNothing \/ Sync
  BY <1>1, <1>5, IdTypes DEF WriteNothing, Sync
<1>6. CASE Crash
  BY <1>1, <1>6 DEF Crash
<1>7. CASE ForeignAppend
  BY <1>1, <1>7 DEF ForeignAppend
<1>8. CASE \/ \E t \in 0 .. nextId - 1 : SetLeafRefused(t)
           \/ Flush
           \/ \E o \in {"shutdown", "disconnect"} : Drop(o)
           \/ Abandon \/ Abort
  BY <1>2, <1>8 DEF SetLeafRefused, Flush, Drop, Begin, Abandon, Abort
<1>9. CASE NothingPending \/ Reconcile \/ ReconcileFails \/ Rewrite
           \/ RewriteFails \/ Resync \/ ResyncFails \/ PersistFailed \/ Write
  BY <1>2, <1>9
  DEF NothingPending, Reconcile, ReconcileFails, Rewrite, RewriteFails, Resync,
      ResyncFails, PersistFailed, Write
<1>10. CASE WriteFailed \/ SyncFailed \/ FlushFile \/ Exit \/ Open \/ OpenFails
            \/ UNCHANGED vars
  BY <1>2, <1>10 DEF WriteFailed, SyncFailed, FlushFile, Exit, Open, OpenFails, vars
<1> QED
  BY <1>1, <1>3, <1>4, <1>5, <1>6, <1>7, <1>8, <1>9, <1>10 DEF Next, Owner, Worker

\* Every step keeps the types: one lemma per group of variables.
LEMMA TypeStep == TypeOK /\ [Next]_vars => TypeOK'
  BY DiskStep, MemoryStep, WorkStep, CounterStep DEF TypeOK

\* The types hold for a recorder just created.
LEMMA TypeInit == Init => TypeOK
<1> SUFFICES ASSUME Init PROVE TypeOK
  OBVIOUS
<1>1. Header \in Entry /\ <<Header>> \in Seq(Entry) /\ Len(<<Header>>) = 1
  BY DEF Header, Entry, Id
<1>2. <<>> \in Seq(Entry)
  OBVIOUS
<1>3. DiskOK
  BY <1>1 DEF Init, DiskOK, Tails
<1>4. known \subseteq Id /\ leaf \in Id
  BY DEF Init, Id
<1>5. MemoryOK
  BY <1>2, <1>4 DEF Init, MemoryOK
<1>6. WorkOK
  BY <1>2 DEF Init, WorkOK, Stages
<1>7. nextId \in Nat /\ acked \subseteq Id /\ crashes \in Nat /\ foreign \in Nat
  BY DEF Init
<1> QED BY <1>3, <1>5, <1>6, <1>7 DEF TypeOK

\* The recorder's variables keep their types, and what is on stable storage is
\* a prefix of the file that holds the header.
THEOREM RecorderTypes == Spec => []TypeOK
  BY TypeInit, TypeStep, PTL DEF Spec
-----------------------------------------------------------------------------
(***************************************************************************)
(* The refinement.                                                         *)
(***************************************************************************)

OwnIds(s) == \A x \in Ids(s) : 1 <= x /\ x < nextId

StableIds == Ids(SubSeq(file, 1, synced))

\* Identities are handed out once, and a batch is in one place at a time.
FreshInv ==
  /\ 1 <= nextId
  /\ NoDuplicateIds(file)
  /\ \A x \in Ids(file) : - foreign <= x /\ x < nextId
  /\ OwnIds(pending) /\ OwnIds(prepared)
  /\ NoDuplicateIds(pending) /\ NoDuplicateIds(prepared)
  /\ Disjoint(pending, prepared)
  /\ pc # "sync" => Disjoint(prepared, file)

\* The file ends cleanly wherever the worker is about to write.
CleanInv ==
  /\ pc \in {"rewrite", "resync", "write", "sync", "flush", "exit"} => tail = "clean"
  /\ pc \in {"recv", "persist"} /\ pending = <<>> => tail = "clean"
  /\ pc \in {"rewrite", "resync", "failed"} => pending # <<>>
  /\ pc \in {"write", "sync", "flush", "exit"} => pending = <<>>

\* What each stage has established about the batch it works on.
StageInv ==
  /\ pc = "persist" => recovered = <<>>
  /\ pc = "rewrite" =>
       /\ Disjoint(missing, file) /\ NoDuplicateIds(missing)
       /\ Ids(missing) \subseteq Ids(pending)
       /\ Ids(pending) \subseteq Ids(file) \cup Ids(missing)
  /\ pc = "resync" => Ids(pending) \subseteq Ids(file)
  /\ pc \in {"write", "sync"} => Ids(recovered) \subseteq StableIds
  /\ pc = "sync" => Ids(prepared) \subseteq Ids(file)

Inv ==
  /\ TypeOK
  /\ FreshInv
  /\ CleanInv
  /\ StageInv
  /\ acked \subseteq StableIds
-----------------------------------------------------------------------------
(***************************************************************************)
(* The file.                                                               *)
(***************************************************************************)

\* A write that appends new records, or part of them, keeps the file free of
\* repetition and adds no identity but theirs.
LEMMA WriteIds ==
  ASSUME DiskOK, NEW s \in Seq(Entry), WriteAll(s) \/ WriteFails(s),
         NoDuplicateIds(file), NoDuplicateIds(s), Disjoint(file, s)
  PROVE  /\ NoDuplicateIds(file')
         /\ Ids(file) \subseteq Ids(file')
         /\ Ids(file') \subseteq Ids(file) \cup Ids(s)
<1>1. PICK n \in 0 .. Len(s) : file' = file \/ file' = file \o SubSeq(s, 1, n)
  BY WriteEffect
<1>2. file \in Seq(Entry)
  BY DEF DiskOK
<1>3. CASE file' = file
  BY <1>3
<1>4. CASE file' = file \o SubSeq(s, 1, n)
  <2>1. 1 \in 1 .. Len(s) + 1 /\ 1 <= n + 1
    OBVIOUS
  <2>2. SubSeq(s, 1, n) \in Seq(Entry)
    BY <2>1, PartOfRecords
  <2>3. Ids(SubSeq(s, 1, n)) \subseteq Ids(s) /\ NoDuplicateIds(SubSeq(s, 1, n))
    BY <2>1, IdsSubSeq
  <2>4. Disjoint(file, SubSeq(s, 1, n))
    BY <2>3 DEF Disjoint
  <2>5. Ids(file') = Ids(file) \cup Ids(SubSeq(s, 1, n))
    BY <1>2, <1>4, <2>2, IdsConcat
  <2>6. NoDuplicateIds(file')
    BY <1>2, <1>4, <2>2, <2>3, <2>4, NoDuplicateConcat
  <2> QED BY <2>3, <2>5, <2>6
<1> QED BY <1>1, <1>3, <1>4

\* All of a batch is in the file after a complete write to a clean file.
LEMMA WriteAllIds ==
  ASSUME DiskOK, NEW s \in Seq(Entry), WriteAll(s), tail = "clean"
  PROVE  Ids(file') = Ids(file) \cup Ids(s) /\ tail' = "clean"
  BY IdsConcat DEF DiskOK, WriteAll

\* The first n records of a sequence.
LEMMA PrefixProperties ==
  ASSUME NEW s \in Seq(Entry), NEW n \in 1 .. Len(s)
  PROVE  /\ SubSeq(s, 1, n) \in Seq(Entry) /\ Len(SubSeq(s, 1, n)) = n
         /\ DOMAIN SubSeq(s, 1, n) = 1 .. n
         /\ \A i \in 1 .. n : SubSeq(s, 1, n)[i] = s[i]
  BY PartOfRecords

\* The identities of a prefix are identities of the sequence.
LEMMA PrefixIds ==
  ASSUME NEW s \in Seq(Entry), NEW n \in 1 .. Len(s), NoDuplicateIds(s)
  PROVE  NoDuplicateIds(SubSeq(s, 1, n))
<1>1. 1 \in 1 .. Len(s) + 1 /\ n \in 0 .. Len(s) /\ 1 <= n + 1
  OBVIOUS
<1> QED BY <1>1, IdsSubSeq

\* Records of the same length, one by one the same.
LEMMA SameRecords ==
  ASSUME NEW s \in Seq(Entry), NEW t \in Seq(Entry), Len(s) = Len(t),
         \A i \in 1 .. Len(s) : s[i] = t[i]
  PROVE  s = t
  BY SeqEqual

\* A step keeps the records on stable storage where they are.
StableKept ==
  /\ synced <= synced' /\ synced <= Len(file')
  /\ \A i \in 1 .. synced : file'[i] = file[i]

\* No step, a crash included, changes what is on stable storage.
LEMMA StableStep == TypeOK /\ [Next]_vars => StableKept
<1> SUFFICES ASSUME TypeOK, [Next]_vars PROVE StableKept
  OBVIOUS
<1>1. DiskOK /\ file \in Seq(Entry) /\ synced \in 1 .. Len(file)
  BY DEF TypeOK, DiskOK
<1>2. ASSUME file' = file, synced' \in {synced, Len(file)} PROVE StableKept
  BY <1>1, <1>2 DEF StableKept
<1>3. ASSUME NEW s \in Seq(Entry), WriteAll(s) \/ WriteFails(s),
             UNCHANGED synced
      PROVE  StableKept
  <2>1. PICK n \in 0 .. Len(s) : file' = file \/ file' = file \o SubSeq(s, 1, n)
    BY <1>1, <1>3, WriteEffect
  <2>2. CASE file' = file
    BY <1>1, <1>3, <2>2 DEF StableKept
  <2>3. CASE file' = file \o SubSeq(s, 1, n)
    <3>1. SubSeq(s, 1, n) \in Seq(Entry)
      BY PartOfRecords
    <3>2. /\ Len(file') = Len(file) + Len(SubSeq(s, 1, n))
          /\ \A i \in 1 .. Len(file) : file'[i] = file[i]
      BY <1>1, <2>3, <3>1, ConcatOfRecords
    <3>3. Len(SubSeq(s, 1, n)) \in Nat
      BY <3>1
    <3> QED BY <1>1, <1>3, <3>2, <3>3 DEF StableKept
  <2> QED BY <2>1, <2>2, <2>3
<1>4. CASE Owner
  BY <1>2, <1>4
  DEF Owner, AppendBatch, SetLeaf, SetLeafRefused, Flush, Drop, Begin, Abandon,
      Abort, disk
<1>5. CASE NothingPending \/ PersistFailed \/ WriteNothing \/ SyncFailed \/ Exit
  BY <1>2, <1>5
  DEF NothingPending, PersistFailed, WriteNothing, SyncFailed, Exit, disk
<1>6. CASE Reconcile \/ ReconcileFails \/ Open \/ OpenFails
  BY <1>2, <1>6
  DEF Reconcile, ReconcileFails, Open, OpenFails, OpenFile, OpenFileFails
<1>7. CASE Rewrite
  <2>1. CASE missing = <<>>
    BY <1>2, <1>7, <2>1 DEF Rewrite
  <2>2. CASE missing # <<>>
    BY <1>3, <1>7, <2>2 DEF Rewrite, TypeOK, WorkOK
  <2> QED BY <2>1, <2>2
<1>8. CASE RewriteFails
  BY <1>3, <1>8 DEF RewriteFails, TypeOK, WorkOK
<1>9. CASE Write
  BY <1>3, <1>9 DEF Write, TypeOK, WorkOK
<1>10. CASE WriteFailed
  BY <1>3, <1>10 DEF WriteFailed, TypeOK, WorkOK
<1>11. CASE Resync \/ ResyncFails \/ Sync \/ FlushFile
  BY <1>2, <1>11 DEF Resync, ResyncFails, Sync, FlushFile
<1>12. CASE Crash
  <2>1. PICK n \in synced .. Len(file) :
          file' = SubSeq(file, 1, n) /\ synced' = synced
    BY <1>12 DEF Crash
  <2>2. n \in 0 .. Len(file) /\ 1 \in 1 .. Len(file) + 1
    BY <1>1
  <2>3. Len(file') = n /\ \A i \in 1 .. n : file'[i] = file[i]
    BY <1>1, <2>1, <2>2, PartOfRecords
  <2> QED BY <1>1, <2>1, <2>3 DEF StableKept
<1>13. CASE ForeignAppend
  <2>1. PICK e : file' = Append(file, e) /\ synced' = synced
    BY <1>13 DEF ForeignAppend
  <2>2. Len(file') = Len(file) + 1 /\ \A i \in 1 .. Len(file) : file'[i] = file[i]
    BY <1>1, <2>1
  <2> QED BY <1>1, <2>1, <2>2 DEF StableKept
<1>14. CASE UNCHANGED vars
  BY <1>2, <1>14 DEF vars, disk
<1> QED
  BY <1>4, <1>5, <1>6, <1>7, <1>8, <1>9, <1>10, <1>11, <1>12, <1>13, <1>14
  DEF Next, Worker

\* What is on stable storage stays there.
LEMMA StableIdsStep == TypeOK /\ [Next]_vars => StableIds \subseteq StableIds'
<1> SUFFICES ASSUME TypeOK, [Next]_vars, NEW x \in StableIds
             PROVE  x \in StableIds'
  OBVIOUS
<1>1. StableKept /\ DiskOK /\ DiskOK'
  BY StableStep, TypeStep DEF TypeOK
<1>2. /\ file \in Seq(Entry) /\ synced \in 1 .. Len(file)
      /\ file' \in Seq(Entry) /\ synced' \in 1 .. Len(file')
  BY <1>1 DEF DiskOK
<1>3. PICK i \in 1 .. synced : x = file[i].id
  <2>1. /\ DOMAIN SubSeq(file, 1, synced) = 1 .. synced
        /\ \A k \in 1 .. synced : SubSeq(file, 1, synced)[k] = file[k]
    BY <1>2, PrefixProperties
  <2> QED BY <2>1 DEF StableIds, Ids
<1>4. i \in 1 .. synced' /\ file'[i] = file[i]
  BY <1>1, <1>2 DEF StableKept
<1>5. /\ DOMAIN SubSeq(file', 1, synced') = 1 .. synced'
      /\ \A k \in 1 .. synced' : SubSeq(file', 1, synced')[k] = file'[k]
  BY <1>2, PrefixProperties
<1> QED BY <1>3, <1>4, <1>5 DEF StableIds, Ids
-----------------------------------------------------------------------------
(***************************************************************************)
(* The invariant.                                                          *)
(***************************************************************************)

\* The empty sequence has no identities.
LEMMA IdsEmpty == Ids(<<>>) = {} /\ NoDuplicateIds(<<>>)
  BY DEF Ids, NoDuplicateIds

\* A single record.
LEMMA Singleton ==
  ASSUME NEW e \in Entry
  PROVE  <<e>> \in Seq(Entry) /\ Ids(<<e>>) = {e.id} /\ NoDuplicateIds(<<e>>)
<1>1. <<e>> \in Seq(Entry)
  OBVIOUS
<1>2. DOMAIN <<e>> = {1} /\ <<e>>[1] = e
  OBVIOUS
<1> QED BY <1>1, <1>2, Zenon DEF Ids, NoDuplicateIds

\* Append as a concatenation, whose identities are known.
LEMMA AppendRecord ==
  ASSUME NEW s \in Seq(Entry), NEW e \in Entry
  PROVE  Append(s, e) = s \o <<e>>
  BY AppendIsConcat

\* The identities of a new batch were never handed out before.
LEMMA BatchIds ==
  ASSUME MemoryOK, nextId \in Nat
  PROVE  /\ \A n \in Nat : /\ Ids(MessageBatch(n)) \subseteq nextId .. nextId + n - 1
                           /\ NoDuplicateIds(MessageBatch(n))
         /\ \A t \in Id : /\ Ids(LeafBatch(t)) \subseteq {nextId}
                          /\ NoDuplicateIds(LeafBatch(t))
<1>1. ASSUME NEW n \in Nat
      PROVE  /\ Ids(MessageBatch(n)) \subseteq nextId .. nextId + n - 1
             /\ NoDuplicateIds(MessageBatch(n))
  <2>1. /\ DOMAIN MessageBatch(n) = 1 .. n
        /\ \A k \in 1 .. n : MessageBatch(n)[k].id = nextId + k - 1
    BY DEF MessageBatch
  <2> QED BY <2>1 DEF Ids, NoDuplicateIds
<1>2. ASSUME NEW t \in Id
      PROVE  Ids(LeafBatch(t)) \subseteq {nextId} /\ NoDuplicateIds(LeafBatch(t))
  <2>1. DOMAIN LeafBatch(t) = {1} /\ LeafBatch(t)[1].id = nextId
    BY DEF LeafBatch
  <2> QED BY <2>1 DEF Ids, NoDuplicateIds
<1> QED BY <1>1, <1>2

\* A fresh batch taken into work.
LEMMA FreshBegin ==
  ASSUME Inv, NEW b \in Seq(Entry), NoDuplicateIds(b), nextId' \in Nat,
         nextId <= nextId', \A x \in Ids(b) : nextId <= x /\ x < nextId',
         NEW o, Begin(o, b)
  PROVE  FreshInv'
<1>1. /\ FreshInv /\ nextId \in Nat /\ 1 <= nextId
      /\ pending \in Seq(Entry) /\ file \in Seq(Entry)
  BY DEF Inv, FreshInv, TypeOK, MemoryOK, DiskOK
<1>2. /\ UNCHANGED <<file, pending, foreign>> /\ prepared' = b /\ pc' = "persist"
  BY DEF Begin, disk, memory
<1>3. Ids(file) \subseteq Int /\ Ids(pending) \subseteq Int /\ Ids(b) \subseteq Int
  BY <1>1, IdTypes DEF Id
<1>4. \A x \in Ids(file) : - foreign <= x /\ x < nextId'
  BY <1>1, <1>3 DEF FreshInv
<1>5. \A x \in Ids(pending) : 1 <= x /\ x < nextId'
  BY <1>1, <1>3 DEF FreshInv, OwnIds
<1>6. \A x \in Ids(b) : 1 <= x /\ x < nextId'
  BY <1>1, <1>3
<1>7. Disjoint(pending, b) /\ Disjoint(b, file)
  BY <1>1, <1>3 DEF FreshInv, OwnIds, Disjoint
<1> QED BY <1>1, <1>2, <1>4, <1>5, <1>6, <1>7 DEF FreshInv, OwnIds

\* What the worker, a crash and the end of a command may do to the batches.
LEMMA FreshKept ==
  ASSUME Inv, NoDuplicateIds(file'),
         Ids(file') \subseteq Ids(file) \cup Ids(pending) \cup Ids(prepared),
         UNCHANGED <<nextId, foreign>>,
         \/ pending' \in {pending, <<>>} /\ prepared' = prepared
         \/ pending' \in {pending, prepared, <<>>} /\ prepared' = <<>>,
         pc' # "sync" => Disjoint(prepared', file')
  PROVE  FreshInv'
<1>1. /\ FreshInv /\ nextId \in Nat /\ foreign \in Nat
      /\ Ids(pending) \subseteq Int /\ Ids(prepared) \subseteq Int
      /\ Ids(file) \subseteq Int
  BY IdTypes DEF Inv, TypeOK, MemoryOK, WorkOK, DiskOK, Id
<1>2. \A x \in Ids(file') : - foreign <= x /\ x < nextId
  BY <1>1 DEF FreshInv, OwnIds
<1>3. /\ \A x \in Ids(pending') : 1 <= x /\ x < nextId
      /\ \A x \in Ids(prepared') : 1 <= x /\ x < nextId
  BY <1>1, IdsEmpty DEF FreshInv, OwnIds
<1>4. NoDuplicateIds(pending') /\ NoDuplicateIds(prepared')
  BY <1>1, IdsEmpty DEF FreshInv
<1>5. Disjoint(pending', prepared')
  BY <1>1, IdsEmpty DEF FreshInv, Disjoint
<1>6. 1 <= nextId'
  BY <1>1 DEF FreshInv
<1> QED BY <1>2, <1>3, <1>4, <1>5, <1>6 DEF FreshInv, OwnIds

\* What another program appends.
LEMMA ForeignIds ==
  ASSUME TypeOK,
         file' = Append(file, [id |-> - foreign - 1, parent |-> Last(file).leaf,
                               leaf |-> - foreign - 1])
  PROVE  /\ Ids(file) \subseteq Ids(file')
         /\ Ids(file') \subseteq Ids(file) \cup {- foreign - 1}
         /\ - foreign - 1 \notin Ids(file) /\ NoDuplicateIds(file) =>
              NoDuplicateIds(file')
<1> DEFINE e == [id |-> - foreign - 1, parent |-> Last(file).leaf,
                 leaf |-> - foreign - 1]
           b == <<e>>
<1>1. file \in Seq(Entry) /\ file # <<>> /\ foreign \in Nat
  BY DEF TypeOK, DiskOK
<1>2. e \in Entry /\ e.id = - foreign - 1
  <2>1. Last(file).leaf \in Id
    BY <1>1, IdTypes
  <2>2. - foreign - 1 \in Id
    BY <1>1 DEF Id
  <2> QED BY <2>1, <2>2 DEF Entry
<1> HIDE DEF e
<1>3. b \in Seq(Entry) /\ Ids(b) = {- foreign - 1} /\ NoDuplicateIds(b)
  BY <1>2, Singleton
<1>4. file' = file \o b
  <2>1. \A r \in Entry : Append(file, r) = file \o <<r>>
    BY <1>1, AppendRecord
  <2>2. file' = Append(file, e)
    BY DEF e
  <2> QED BY <1>2, <2>1, <2>2
<1> HIDE DEF b
<1>5. Ids(file') = Ids(file) \cup {- foreign - 1}
  BY <1>1, <1>3, <1>4, IdsConcat
<1>6. ASSUME - foreign - 1 \notin Ids(file), NoDuplicateIds(file)
      PROVE  NoDuplicateIds(file')
  <2>1. Disjoint(file, b)
    BY <1>3, <1>6 DEF Disjoint
  <2> QED BY <1>1, <1>3, <1>4, <1>6, <2>1, NoDuplicateConcat
<1> QED BY <1>5, <1>6

\* Identities stay fresh.
LEMMA FreshStep == Inv /\ [Next]_vars => FreshInv'
<1> SUFFICES ASSUME Inv, [Next]_vars PROVE FreshInv'
  OBVIOUS
<1>1. /\ TypeOK /\ DiskOK /\ MemoryOK /\ nextId \in Nat /\ foreign \in Nat
      /\ file \in Seq(Entry) /\ pending \in Seq(Entry)
      /\ prepared \in Seq(Entry) /\ missing \in Seq(Entry)
  BY DEF Inv, TypeOK, DiskOK, MemoryOK, WorkOK
<1>2. /\ FreshInv /\ NoDuplicateIds(file)
      /\ pc # "sync" => Disjoint(prepared, file)
      /\ Disjoint(pending, prepared)
      /\ Disjoint(<<>>, file)
  BY IdsEmpty DEF Inv, FreshInv, Disjoint
<1>3. ASSUME UNCHANGED <<file, nextId, foreign>>,
             \/ prepared' = prepared /\ (pc # "sync" \/ pc' = pc)
             \/ prepared' = <<>>,
             \/ pending' \in {pending, <<>>} /\ prepared' = prepared
             \/ pending' \in {pending, prepared, <<>>} /\ prepared' = <<>>
      PROVE  FreshInv'
  BY <1>2, <1>3, FreshKept
<1>4. ASSUME NEW n \in 0 .. MaxBatch, AppendBatch(n) PROVE FreshInv'
  <2>1. n \in Nat /\ MessageBatch(n) \in Seq(Entry)
    BY <1>1, BatchTypes, BoundsAssumption
  <2>2. /\ Ids(MessageBatch(n)) \subseteq nextId .. nextId + n - 1
        /\ NoDuplicateIds(MessageBatch(n))
    BY <1>1, <2>1, BatchIds
  <2>3. nextId' = nextId + n /\ Begin("append", MessageBatch(n))
    BY <1>4 DEF AppendBatch
  <2>4. /\ nextId' \in Nat /\ nextId <= nextId'
        /\ \A x \in Ids(MessageBatch(n)) : nextId <= x /\ x < nextId'
    BY <1>1, <2>1, <2>2, <2>3
  <2> QED BY <2>1, <2>2, <2>3, <2>4, FreshBegin
<1>5. ASSUME NEW t \in 0 .. nextId - 1, SetLeaf(t) PROVE FreshInv'
  <2>1. t \in Id /\ LeafBatch(t) \in Seq(Entry)
    BY <1>1, BatchTypes DEF Id
  <2>2. Ids(LeafBatch(t)) \subseteq {nextId} /\ NoDuplicateIds(LeafBatch(t))
    BY <1>1, <2>1, BatchIds
  <2>3. nextId' = nextId + 1 /\ Begin("append", LeafBatch(t))
    BY <1>5 DEF SetLeaf
  <2>4. /\ nextId' \in Nat /\ nextId <= nextId'
        /\ \A x \in Ids(LeafBatch(t)) : nextId <= x /\ x < nextId'
    BY <1>1, <2>2, <2>3
  <2> QED BY <2>1, <2>2, <2>3, <2>4, FreshBegin
<1>6. CASE Flush \/ \E o \in {"shutdown", "disconnect"} : Drop(o)
  BY <1>3, <1>6 DEF Flush, Drop, Begin, disk, memory
<1>7. CASE \/ \E t \in 0 .. nextId - 1 : SetLeafRefused(t)
           \/ Abandon \/ Abort
  BY <1>3, <1>7 DEF SetLeafRefused, Abandon, Abort, disk, memory, work
<1>8. CASE NothingPending \/ Reconcile \/ ReconcileFails
  BY <1>3, <1>8
  DEF NothingPending, Reconcile, ReconcileFails, OpenFile, OpenFileFails, disk,
      memory, work
<1>9. CASE Resync \/ ResyncFails
  BY <1>3, <1>9 DEF Resync, ResyncFails, work
<1>10. CASE WriteNothing \/ Sync \/ SyncFailed \/ FlushFile \/ Exit
  BY <1>3, <1>10
  DEF WriteNothing, Sync, SyncFailed, FlushFile, Exit, KeepPrepared, Answer,
      Idle, disk, memory
<1>11. CASE Open \/ OpenFails
  BY <1>3, <1>11 DEF Open, OpenFails, OpenFile, OpenFileFails, memory, work
<1>12. CASE UNCHANGED vars
  BY <1>3, <1>12 DEF vars, disk, memory, work
<1>13. CASE Rewrite \/ RewriteFails
  <2>1. pc = "rewrite" /\ pc' # "sync"
    BY <1>13 DEF Rewrite, RewriteFails
  <2>2. /\ Disjoint(missing, file) /\ NoDuplicateIds(missing)
        /\ Ids(missing) \subseteq Ids(pending)
    BY <2>1 DEF Inv, StageInv
  <2>3. /\ NoDuplicateIds(file')
        /\ Ids(file') \subseteq Ids(file) \cup Ids(missing)
    <3>1. CASE file' = file
      BY <1>2, <3>1
    <3>2. CASE WriteAll(missing) \/ WriteFails(missing)
      <4>1. Disjoint(file, missing)
        BY <2>2 DEF Disjoint
      <4> QED BY <1>1, <1>2, <2>2, <3>2, <4>1, WriteIds
    <3> QED BY <1>13, <3>1, <3>2 DEF Rewrite, RewriteFails
  <2>4. Disjoint(prepared, file')
    BY <1>2, <2>1, <2>2, <2>3 DEF Disjoint
  <2>5. UNCHANGED <<nextId, foreign, pending, prepared>>
    BY <1>13 DEF Rewrite, RewriteFails, memory, work
  <2> QED BY <2>2, <2>3, <2>4, <2>5, FreshKept
<1>14. CASE Write \/ WriteFailed
  <2>1. /\ pc = "write" /\ UNCHANGED <<nextId, foreign>>
        /\ WriteAll(prepared) \/ WriteFails(prepared)
    BY <1>14 DEF Write, WriteFailed
  <2>2. /\ NoDuplicateIds(prepared) /\ Disjoint(file, prepared)
    BY <1>2, <2>1 DEF FreshInv, Disjoint
  <2>3. /\ NoDuplicateIds(file')
        /\ Ids(file') \subseteq Ids(file) \cup Ids(prepared)
    BY <1>1, <1>2, <2>1, <2>2, WriteIds
  <2>4. CASE Write
    <3>1. pc' = "sync" /\ UNCHANGED <<pending, prepared>>
      BY <2>4 DEF Write, memory, work
    <3> QED BY <2>1, <2>3, <3>1, FreshKept
  <2>5. CASE WriteFailed
    <3>1. pending' = prepared /\ prepared' = <<>>
      BY <2>5 DEF WriteFailed, KeepPrepared, Answer, Idle
    <3>2. Disjoint(prepared', file')
      BY <3>1, IdsEmpty DEF Disjoint
    <3> QED BY <2>1, <2>3, <3>1, <3>2, FreshKept
  <2> QED BY <1>14, <2>4, <2>5
<1>15. CASE PersistFailed
  <2>1. /\ pending' = pending \o prepared /\ prepared' = <<>>
        /\ UNCHANGED <<file, nextId, foreign>>
    BY <1>15 DEF PersistFailed, Answer, Idle, disk
  <2>2. Ids(pending') = Ids(pending) \cup Ids(prepared)
    BY <1>1, <2>1, IdsConcat
  <2>3. NoDuplicateIds(pending')
    BY <1>1, <1>2, <2>1, NoDuplicateConcat DEF FreshInv
  <2>4. /\ \A x \in Ids(pending') : 1 <= x /\ x < nextId
        /\ \A x \in Ids(prepared') : 1 <= x /\ x < nextId
    BY <1>2, <2>1, <2>2, IdsEmpty DEF FreshInv, OwnIds
  <2>5. /\ NoDuplicateIds(prepared') /\ Disjoint(pending', prepared')
        /\ Disjoint(prepared', file')
    BY <2>1, IdsEmpty DEF Disjoint
  <2> QED BY <1>2, <2>1, <2>3, <2>4, <2>5 DEF FreshInv, OwnIds
<1>16. CASE Crash
  <2>1. PICK n \in synced .. Len(file) : file' = SubSeq(file, 1, n)
    BY <1>16 DEF Crash
  <2>2. n \in 1 .. Len(file) /\ n \in 0 .. Len(file) /\ 1 \in 1 .. Len(file) + 1
    BY <1>1 DEF DiskOK
  <2>3. NoDuplicateIds(file') /\ Ids(file') \subseteq Ids(file)
    BY <1>1, <1>2, <2>1, <2>2, IdsSubSeq
  <2>4. /\ pending' = <<>> /\ prepared' = <<>>
        /\ UNCHANGED <<nextId, foreign>>
    BY <1>16 DEF Crash, Idle
  <2>5. Disjoint(prepared', file')
    BY <2>4, IdsEmpty DEF Disjoint
  <2> QED BY <2>3, <2>4, <2>5, FreshKept
<1>17. CASE ForeignAppend
  <2>1. /\ file' = Append(file, [id |-> - foreign - 1, parent |-> Last(file).leaf,
                                 leaf |-> - foreign - 1])
        /\ foreign' = foreign + 1
        /\ UNCHANGED <<pending, prepared, nextId, pc>>
    BY <1>17 DEF ForeignAppend, memory, work
  <2>2. Ids(file) \subseteq Int
    BY <1>1, IdTypes DEF Id
  <2>3. - foreign - 1 \notin Ids(file)
    BY <1>1, <1>2, <2>2 DEF FreshInv
  <2>4. /\ NoDuplicateIds(file')
        /\ Ids(file') \subseteq Ids(file) \cup {- foreign - 1}
    BY <1>1, <1>2, <2>1, <2>3, ForeignIds
  <2>5. \A x \in Ids(file') : - foreign' <= x /\ x < nextId'
    <3>1. \A x \in Ids(file) : - (foreign + 1) <= x /\ x < nextId
      BY <1>1, <1>2, <2>2 DEF FreshInv
    <3>2. - (foreign + 1) <= - foreign - 1 /\ - foreign - 1 < nextId
      BY <1>1
    <3> QED BY <2>1, <2>4, <3>1, <3>2
  <2>6. pc' # "sync" => Disjoint(prepared', file')
    BY <1>1, <1>2, <2>1, <2>4 DEF FreshInv, OwnIds, Disjoint
  <2> QED BY <1>2, <2>1, <2>4, <2>5, <2>6 DEF FreshInv, OwnIds
<1> QED
  BY <1>4, <1>5, <1>6, <1>7, <1>8, <1>9, <1>10, <1>11, <1>12, <1>13, <1>14,
     <1>15, <1>16, <1>17
  DEF Next, Owner, Worker

\* The worker writes to a clean file only.
LEMMA CleanStep == Inv /\ [Next]_vars => CleanInv'
<1> SUFFICES ASSUME Inv, [Next]_vars PROVE CleanInv'
  OBVIOUS
<1>1. CleanInv
  BY DEF Inv
<1>2. CASE \/ \E n \in 0 .. MaxBatch : AppendBatch(n)
           \/ \E t \in 0 .. nextId - 1 : SetLeaf(t)
           \/ Flush
           \/ \E o \in {"shutdown", "disconnect"} : Drop(o)
  <2>1. pc = "recv" /\ pc' = "persist" /\ UNCHANGED <<tail, pending>>
    BY <1>2 DEF AppendBatch, SetLeaf, Flush, Drop, Begin, disk, memory
  <2> QED BY <1>1, <2>1 DEF CleanInv
<1>3. CASE \/ \E t \in 0 .. nextId - 1 : SetLeafRefused(t)
           \/ Abandon \/ UNCHANGED vars
  <2>1. UNCHANGED <<tail, pending, pc>>
    BY <1>3 DEF SetLeafRefused, Abandon, disk, memory, vars
  <2> QED BY <1>1, <2>1 DEF CleanInv
<1>4. CASE Abort \/ OpenFails \/ Crash
  <2>1. pc' = "closed"
    BY <1>4 DEF Abort, OpenFails, Crash
  <2> QED BY <2>1 DEF CleanInv
<1>5. CASE NothingPending
  <2>1. /\ pc = "persist" /\ pending = <<>> /\ pending' = <<>> /\ tail' = tail
        /\ pc' \in {"write", "exit", "flush"}
    BY <1>5 DEF NothingPending, AfterPersist, disk
  <2> QED BY <1>1, <2>1 DEF CleanInv
<1>6. CASE Reconcile
  <2>1. /\ pending # <<>> /\ pending' = pending /\ tail' = "clean"
        /\ pc' \in {"failed", "rewrite"}
    BY <1>6 DEF Reconcile, OpenFile
  <2> QED BY <2>1 DEF CleanInv
<1>7. CASE ReconcileFails \/ RewriteFails \/ ResyncFails
  <2>1. pending # <<>> /\ pending' = pending /\ pc' = "failed"
    BY <1>1, <1>7 DEF ReconcileFails, RewriteFails, ResyncFails, memory, CleanInv
  <2> QED BY <2>1 DEF CleanInv
<1>8. CASE Rewrite
  <2>1. /\ pc = "rewrite" /\ pc' = "resync" /\ pending' = pending
        /\ tail = "clean" => tail' = "clean"
    BY <1>8 DEF Rewrite, WriteAll, memory
  <2> QED BY <1>1, <2>1 DEF CleanInv
<1>9. CASE Resync
  <2>1. /\ pc = "resync" /\ pending' = <<>> /\ tail' = tail
        /\ pc' \in {"write", "exit", "flush"}
    BY <1>9 DEF Resync, AfterPersist
  <2> QED BY <1>1, <2>1 DEF CleanInv
<1>10. CASE PersistFailed
  <2>1. pending # <<>> /\ pending \in Seq(Entry) /\ prepared \in Seq(Entry)
    BY <1>1, <1>10 DEF PersistFailed, CleanInv, Inv, TypeOK, MemoryOK, WorkOK
  <2>2. pending' = pending \o prepared /\ pc' \in {"recv", "closed"}
    BY <1>10 DEF PersistFailed, Answer
  <2>3. Len(pending') = Len(pending) + Len(prepared)
    BY <2>1, <2>2, ConcatOfRecords
  <2>4. Len(pending) # 0 /\ Len(pending) \in Nat /\ Len(prepared) \in Nat
    BY <2>1
  <2>5. pending' # <<>>
    BY <2>3, <2>4
  <2> QED BY <2>2, <2>5 DEF CleanInv
<1>11. CASE Write
  <2>1. /\ pc = "write" /\ pc' = "sync" /\ pending' = pending
        /\ tail = "clean" => tail' = "clean"
    BY <1>11 DEF Write, WriteAll, memory
  <2> QED BY <1>1, <2>1 DEF CleanInv
<1>12. CASE WriteFailed
  <2>1. pending' = prepared /\ prepared # <<>> /\ pc' \in {"recv", "closed"}
    BY <1>12 DEF WriteFailed, KeepPrepared, Answer
  <2> QED BY <2>1 DEF CleanInv
<1>13. CASE WriteNothing \/ Sync \/ SyncFailed \/ FlushFile \/ Exit
  <2>1. /\ pc \in {"write", "sync", "flush", "exit"} /\ tail' = tail
        /\ pc' \in {"recv", "closed"}
    BY <1>13
    DEF WriteNothing, Sync, SyncFailed, FlushFile, Exit, Answer, disk
  <2> QED BY <1>1, <2>1 DEF CleanInv
<1>14. CASE Open
  <2>1. pc' = "recv" /\ tail' = "clean"
    BY <1>14 DEF Open, OpenFile
  <2> QED BY <2>1 DEF CleanInv
<1>15. CASE ForeignAppend
  <2>1. UNCHANGED <<tail, pending, pc>>
    BY <1>15 DEF ForeignAppend, memory
  <2> QED BY <1>1, <2>1 DEF CleanInv
<1> QED
  BY <1>2, <1>3, <1>4, <1>5, <1>6, <1>7, <1>8, <1>9, <1>10, <1>11, <1>12,
     <1>13, <1>14, <1>15
  DEF Next, Owner, Worker

\* When the whole file is synced, all its identities are on stable storage.
LEMMA AllSynced ==
  ASSUME TypeOK, [Next]_vars, file' = file, synced' = Len(file)
  PROVE  StableIds' = Ids(file)
<1>1. file \in Seq(Entry) /\ SubSeq(file, 1, Len(file)) = file
  BY DEF TypeOK, DiskOK
<1> QED BY <1>1 DEF StableIds

\* What reconcile_entries finds of a batch is in the file.
LEMMA MatchedIds ==
  ASSUME file \in Seq(Entry), NEW b \in Seq(Entry), NEW m \in 0 .. Len(b),
         Matched(b, m)
  PROVE  Ids(SubSeq(b, 1, m)) \subseteq Ids(file)
<1>1. CASE m = 0
  <2>1. SubSeq(b, 1, m) = <<>>
    BY <1>1
  <2> QED BY <2>1, IdsEmpty
<1>2. CASE m # 0
  <2>1. PICK start \in DOMAIN file :
          /\ start + m - 1 <= Len(file)
          /\ \A k \in 1 .. m : file[start + k - 1] = b[k]
    BY <1>2 DEF Matched, Matches
  <2>2. \A k \in 1 .. m : start + k - 1 \in DOMAIN file
    BY <2>1
  <2>3. /\ DOMAIN SubSeq(b, 1, m) = 1 .. m
        /\ \A k \in 1 .. m : SubSeq(b, 1, m)[k] = b[k]
    BY <1>2, PrefixProperties
  <2> QED BY <2>1, <2>2, <2>3 DEF Ids
<1> QED BY <1>1, <1>2

\* What reconcile_entries leaves to write is new, and with the file it is the
\* whole batch.
LEMMA ReconcileEffect ==
  ASSUME Inv, NEW m \in 0 .. Len(pending), Matched(pending, m),
         ~ Conflict(pending, m)
  PROVE  LET s == Suffix(pending, m)
         IN  /\ Disjoint(s, file) /\ NoDuplicateIds(s)
             /\ Ids(s) \subseteq Ids(pending)
             /\ Ids(pending) \subseteq Ids(file) \cup Ids(s)
<1>1. pending \in Seq(Entry) /\ file \in Seq(Entry) /\ NoDuplicateIds(pending)
  BY DEF Inv, TypeOK, MemoryOK, DiskOK, FreshInv
<1> DEFINE s == SubSeq(pending, m + 1, Len(pending))
<1>2. m + 1 \in 1 .. Len(pending) + 1 /\ Len(pending) \in 0 .. Len(pending)
      /\ m + 1 <= Len(pending) + 1
  BY <1>1
<1>3. NoDuplicateIds(s) /\ Ids(s) \subseteq Ids(pending)
  BY <1>1, <1>2, IdsSubSeq
<1>4. Disjoint(s, file)
  BY DEF Conflict, Disjoint
<1>5. Ids(SubSeq(pending, 1, m)) \subseteq Ids(file)
  BY <1>1, MatchedIds
<1>6. Ids(pending) \subseteq Ids(SubSeq(pending, 1, m)) \cup Ids(s)
  BY <1>1, IdsSplit
<1> HIDE DEF s
<1>7. Suffix(pending, m) = s
  BY DEF Suffix, s
<1> QED BY <1>3, <1>4, <1>5, <1>6, <1>7

\* Each stage of the worker has done its part.
LEMMA StageStep == Inv /\ [Next]_vars => StageInv'
<1> SUFFICES ASSUME Inv, [Next]_vars PROVE StageInv'
  OBVIOUS
<1>1. /\ TypeOK /\ DiskOK /\ StageInv /\ CleanInv
      /\ prepared \in Seq(Entry) /\ missing \in Seq(Entry)
  BY DEF Inv, TypeOK, WorkOK
<1>2. StableIds \subseteq StableIds'
  BY <1>1, StableIdsStep
<1>3. CASE \/ \E n \in 0 .. MaxBatch : AppendBatch(n)
           \/ \E t \in 0 .. nextId - 1 : SetLeaf(t)
           \/ Flush
           \/ \E o \in {"shutdown", "disconnect"} : Drop(o)
  <2>1. pc' = "persist" /\ recovered' = <<>>
    BY <1>3 DEF AppendBatch, SetLeaf, Flush, Drop, Begin
  <2> QED BY <2>1 DEF StageInv
<1>4. CASE \/ \E t \in 0 .. nextId - 1 : SetLeafRefused(t)
           \/ Abandon \/ Abort \/ Crash \/ Open \/ OpenFails
  <2>1. pc' \in {"recv", "closed"}
    BY <1>4 DEF SetLeafRefused, Abandon, Abort, Crash, Open, OpenFails
  <2> QED BY <2>1 DEF StageInv
<1>5. CASE NothingPending
  <2>1. /\ pc = "persist" /\ recovered' = recovered
        /\ pc' \in {"write", "exit", "flush"}
    BY <1>5 DEF NothingPending, AfterPersist, work
  <2>2. Ids(recovered') = {}
    BY <1>1, <2>1, IdsEmpty DEF StageInv
  <2> QED BY <2>1, <2>2 DEF StageInv
<1>6. CASE Reconcile
  <2>1. PICK m \in 0 .. Len(pending) :
          /\ Matched(pending, m)
          /\ missing' = Suffix(pending, m)
          /\ pc' = IF Conflict(pending, m) THEN "failed" ELSE "rewrite"
    BY <1>6 DEF Reconcile
  <2>2. UNCHANGED <<file, pending>>
    BY <1>6 DEF Reconcile, OpenFile
  <2>3. CASE Conflict(pending, m)
    <3>1. pc' = "failed"
      BY <2>1, <2>3
    <3> QED BY <3>1 DEF StageInv
  <2>4. CASE ~ Conflict(pending, m)
    <3>1. pc' = "rewrite"
      BY <2>1, <2>4
    <3>2. /\ Disjoint(missing', file) /\ NoDuplicateIds(missing')
          /\ Ids(missing') \subseteq Ids(pending)
          /\ Ids(pending) \subseteq Ids(file) \cup Ids(missing')
      BY <2>1, <2>4, ReconcileEffect
    <3> QED BY <2>2, <3>1, <3>2 DEF StageInv
  <2> QED BY <2>3, <2>4
<1>7. CASE ReconcileFails \/ RewriteFails \/ ResyncFails
  <2>1. pc' = "failed"
    BY <1>7 DEF ReconcileFails, RewriteFails, ResyncFails
  <2> QED BY <2>1 DEF StageInv
<1>8. CASE Rewrite
  <2>1. pc = "rewrite" /\ pc' = "resync" /\ pending' = pending /\ tail = "clean"
    BY <1>1, <1>8 DEF Rewrite, CleanInv, memory
  <2>2. Ids(pending) \subseteq Ids(file) \cup Ids(missing)
    BY <1>1, <2>1 DEF StageInv
  <2>3. Ids(file') = Ids(file) \cup Ids(missing)
    <3>1. CASE missing = <<>>
      BY <1>8, <3>1, IdsEmpty DEF Rewrite
    <3>2. CASE missing # <<>>
      <4>1. WriteAll(missing)
        BY <1>8, <3>2 DEF Rewrite
      <4> QED BY <1>1, <2>1, <4>1, WriteAllIds
    <3> QED BY <3>1, <3>2
  <2> QED BY <2>1, <2>2, <2>3 DEF StageInv
<1>9. CASE Resync
  <2>1. /\ pc = "resync" /\ recovered' = pending /\ synced' = Len(file)
        /\ file' = file /\ pc' \in {"write", "exit", "flush"}
    BY <1>9 DEF Resync, AfterPersist
  <2>2. Ids(pending) \subseteq Ids(file)
    BY <1>1, <2>1 DEF StageInv
  <2>3. StableIds' = Ids(file)
    BY <1>1, <2>1, AllSynced
  <2>4. Ids(recovered') \subseteq StableIds'
    BY <2>1, <2>2, <2>3
  <2> QED BY <2>1, <2>4 DEF StageInv
<1>10. CASE PersistFailed \/ WriteNothing \/ WriteFailed \/ Sync \/ SyncFailed
            \/ FlushFile \/ Exit
  <2>1. pc' \in {"recv", "closed"}
    BY <1>10
    DEF PersistFailed, WriteNothing, WriteFailed, Sync, SyncFailed, FlushFile,
        Exit, Answer
  <2> QED BY <2>1 DEF StageInv
<1>11. CASE Write
  <2>1. /\ pc = "write" /\ pc' = "sync" /\ tail = "clean" /\ WriteAll(prepared)
        /\ UNCHANGED <<recovered, prepared>>
    BY <1>1, <1>11 DEF Write, CleanInv, work
  <2>2. Ids(file') = Ids(file) \cup Ids(prepared)
    BY <1>1, <2>1, WriteAllIds
  <2>3. Ids(recovered') \subseteq StableIds'
    BY <1>1, <1>2, <2>1 DEF StageInv
  <2> QED BY <2>1, <2>2, <2>3 DEF StageInv
<1>12. CASE ForeignAppend
  <2>1. /\ UNCHANGED <<pc, pending, prepared, recovered, missing>>
        /\ UNCHANGED synced
        /\ file' = Append(file, [id |-> - foreign - 1, parent |-> Last(file).leaf,
                                 leaf |-> - foreign - 1])
    BY <1>12 DEF ForeignAppend, memory, work
  <2>2. /\ Ids(file) \subseteq Ids(file')
        /\ Ids(file') \subseteq Ids(file) \cup {- foreign - 1}
    BY <1>1, <2>1, ForeignIds
  <2>3. pc = "rewrite" => Disjoint(missing, file')
    <3> SUFFICES ASSUME pc = "rewrite" PROVE Disjoint(missing, file')
      OBVIOUS
    <3>1. Disjoint(missing, file) /\ Ids(missing) \subseteq Ids(pending)
      BY <1>1 DEF StageInv
    <3>2. - foreign - 1 \notin Ids(missing)
      BY <3>1 DEF Inv, TypeOK, FreshInv, OwnIds
    <3> QED BY <2>2, <3>1, <3>2 DEF Disjoint
  <2> QED BY <1>1, <1>2, <2>1, <2>2, <2>3 DEF StageInv
<1>13. CASE UNCHANGED vars
  <2>1. UNCHANGED <<pc, file, pending, prepared, recovered, missing, synced>>
    BY <1>13 DEF vars, disk, memory, work
  <2> QED BY <1>1, <1>2, <2>1 DEF StageInv
<1> QED
  BY <1>3, <1>4, <1>5, <1>6, <1>7, <1>8, <1>9, <1>10, <1>11, <1>12, <1>13
  DEF Next, Owner, Worker

\* Only what is on stable storage is acknowledged.
LEMMA AckedStep ==
  Inv /\ [Next]_vars => acked \subseteq acked' /\ acked' \subseteq StableIds'
<1> SUFFICES ASSUME Inv, [Next]_vars
             PROVE  acked \subseteq acked' /\ acked' \subseteq StableIds'
  OBVIOUS
<1>1. TypeOK /\ StageInv /\ acked \subseteq StableIds
  BY DEF Inv
<1>2. StableIds \subseteq StableIds'
  BY <1>1, StableIdsStep
<1>3. CASE acked' = acked
  BY <1>1, <1>2, <1>3
<1>4. CASE WriteNothing
  <2>1. pc = "write" /\ acked' = acked \cup Ids(recovered)
    BY <1>4 DEF WriteNothing
  <2> QED BY <1>1, <1>2, <2>1 DEF StageInv
<1>5. CASE Sync
  <2>1. /\ pc = "sync" /\ synced' = Len(file) /\ file' = file
        /\ acked' = acked \cup Ids(recovered) \cup Ids(prepared)
    BY <1>5 DEF Sync
  <2>2. StableIds' = Ids(file)
    BY <1>1, <2>1, AllSynced
  <2> QED BY <1>1, <1>2, <2>1, <2>2 DEF StageInv
<1>6. CASE Owner
  BY <1>3, <1>6
  DEF Owner, AppendBatch, SetLeaf, SetLeafRefused, Flush, Drop, Begin, Abandon,
      Abort
<1>7. CASE NothingPending \/ Reconcile \/ ReconcileFails \/ Rewrite
           \/ RewriteFails \/ Resync \/ ResyncFails \/ PersistFailed \/ Write
  BY <1>3, <1>7
  DEF NothingPending, Reconcile, ReconcileFails, Rewrite, RewriteFails, Resync,
      ResyncFails, PersistFailed, Write
<1>8. CASE WriteFailed \/ SyncFailed \/ FlushFile \/ Exit \/ Crash \/ Open
           \/ OpenFails \/ ForeignAppend \/ UNCHANGED vars
  BY <1>3, <1>8
  DEF WriteFailed, SyncFailed, FlushFile, Exit, Crash, Open, OpenFails,
      ForeignAppend, vars
<1> QED BY <1>4, <1>5, <1>6, <1>7, <1>8 DEF Next, Worker

\* The invariant is inductive.
LEMMA InvStep == Inv /\ [Next]_vars => Inv'
  BY TypeStep, FreshStep, CleanStep, StageStep, AckedStep DEF Inv

\* It holds for a recorder just created.
LEMMA InvInit == Init => Inv
<1> SUFFICES ASSUME Init PROVE Inv
  OBVIOUS
<1>1. TypeOK
  BY TypeInit
<1>2. Header \in Entry
  BY DEF Header, Entry, Id
<1>3. Ids(file) = {0} /\ NoDuplicateIds(file)
  BY <1>2, Singleton DEF Init, Header
<1>4. FreshInv
  BY <1>3, IdsEmpty DEF Init, FreshInv, OwnIds, Disjoint
<1>5. CleanInv /\ StageInv
  BY DEF Init, CleanInv, StageInv
<1>6. acked \subseteq StableIds
  BY DEF Init
<1> QED BY <1>1, <1>4, <1>5, <1>6 DEF Inv

\* The recorder's invariant holds throughout.
THEOREM RecorderInvariant == Spec => []Inv
  BY InvInit, InvStep, PTL DEF Spec
-----------------------------------------------------------------------------
(***************************************************************************)
(* The refinement.                                                         *)
(***************************************************************************)

\* A step of the recorder is a step of the durable log.
LEMMA LogStep == Inv /\ Inv' /\ [Next]_vars => [Durable!Step]_Durable!vars
<1> SUFFICES ASSUME Inv, Inv', [Next]_vars PROVE Durable!Step
  OBVIOUS
<1> DEFINE log == SubSeq(file, 1, synced)
<1>1. /\ file \in Seq(Entry) /\ synced \in 1 .. Len(file)
      /\ file' \in Seq(Entry) /\ synced' \in 1 .. Len(file')
  BY DEF Inv, TypeOK, DiskOK
<1>2. StableKept
  BY StableStep DEF Inv
<1>3. /\ log \in Seq(Entry) /\ Len(log) = synced
      /\ \A i \in 1 .. synced : log[i] = file[i]
  BY <1>1, PrefixProperties
<1>4. /\ log' \in Seq(Entry) /\ Len(log') = synced'
      /\ \A i \in 1 .. synced' : log'[i] = file'[i]
  BY <1>1, PrefixProperties
<1>5. NoDuplicateIds(log')
  BY <1>1, PrefixIds DEF Inv, FreshInv
<1>6. acked \subseteq acked' /\ acked' \subseteq Ids(log')
  BY AckedStep DEF StableIds
<1> HIDE DEF log
<1>7. Len(log) <= Len(log') /\ SubSeq(log', 1, Len(log)) = log
  <2>1. /\ SubSeq(log', 1, synced) \in Seq(Entry)
        /\ Len(SubSeq(log', 1, synced)) = synced
        /\ \A i \in 1 .. synced : SubSeq(log', 1, synced)[i] = log'[i]
    BY <1>1, <1>2, <1>4, PrefixProperties DEF StableKept
  <2>2. \A i \in 1 .. synced : log'[i] = log[i]
    BY <1>1, <1>2, <1>3, <1>4 DEF StableKept
  <2> QED BY <1>1, <1>2, <1>3, <1>4, <2>1, <2>2, SameRecords DEF StableKept
<1> QED
  BY <1>5, <1>6, <1>7
  DEF log, Durable!Step, Durable!Extends, Durable!NoRepeats, Durable!Ids,
      NoDuplicateIds, Ids

\* A recorder just created is a durable log of one record.
LEMMA LogInit == Init => Durable!Init
  BY DEF Init, Durable!Init, Header

\* Whatever fails, is retried, crashes or is written by others: what is on
\* stable storage only grows, without repetition, and holds everything that
\* was acknowledged.
THEOREM RecorderImplementsDurableLog == Spec => ImplementsDurableLog
<1>1. Spec => []Inv
  BY RecorderInvariant
<1> QED
  BY <1>1, LogInit, LogStep, PTL DEF Spec, ImplementsDurableLog, Durable!Spec
-----------------------------------------------------------------------------
(***************************************************************************)
(* What the durable recorder guarantees besides the durable log, for every *)
(* bound: its owner can trust has_pending, a failed batch is kept, the     *)
(* file always loads, and without another writer it is one chain.          *)
(*                                                                         *)
(* A load needs every parent in front of its record.  No single step shows *)
(* that, as a batch is prepared long before it is written: Grounded says   *)
(* of every batch what its records may refer to, wherever the batch waits. *)
(* For the chain, WrittenTo says how far the batch that waits is written.  *)
(***************************************************************************)

\* What the stages know that the answers of the worker rest on.
ReportInv ==
  /\ PendingReported
  /\ pc \in {"write", "sync", "flush", "exit"} => ~ pendingFlag
  /\ pc = "sync" => prepared # <<>>

\* The records of b refer to S or to records of b in front of them.
Grounded(b, S) ==
  \A i \in DOMAIN b :
    /\ b[i].parent \in S \cup {b[j].id : j \in 1 .. i - 1}
    /\ b[i].leaf \in S \cup {b[j].id : j \in 1 .. i}

\* The file refers to nothing but itself, a batch to nothing that is not in
\* the file by the time the batch is written.
GroundInv ==
  /\ tail # "corrupt"
  /\ file[1].id = 0 /\ Grounded(file, {0})
  /\ known \subseteq Ids(file) /\ leaf \in Ids(file)
  /\ Grounded(pending, Ids(file))
  /\ Grounded(prepared, Ids(file) \cup Ids(pending))
  /\ pc \in {"rewrite", "resync"} => Grounded(missing, Ids(file))
  /\ pc = "resync" => Ids(missing) \subseteq Ids(file)
  /\ pc \in {"recv", "closed"} => prepared = <<>>
-----------------------------------------------------------------------------
(***************************************************************************)
(* What is reported and kept.                                              *)
(***************************************************************************)

\* The flag and the answers stay true.
LEMMA ReportStep == Inv /\ ReportInv /\ [Next]_vars => ReportInv'
<1> SUFFICES ASSUME Inv, ReportInv, [Next]_vars PROVE ReportInv'
  OBVIOUS
<1>1. /\ ReportInv /\ CleanInv
      /\ pending \in Seq(Entry) /\ prepared \in Seq(Entry)
  BY DEF Inv, TypeOK, MemoryOK, WorkOK
<1>2. CASE \/ \E n \in 0 .. MaxBatch : AppendBatch(n)
           \/ \E t \in 0 .. nextId - 1 : SetLeaf(t)
           \/ Flush
           \/ \E o \in {"shutdown", "disconnect"} : Drop(o)
  <2>1. pc' = "persist"
    BY <1>2 DEF AppendBatch, SetLeaf, Flush, Drop, Begin
  <2> QED BY <2>1 DEF ReportInv, PendingReported
<1>3. CASE \E t \in 0 .. nextId - 1 : SetLeafRefused(t)
  <2>1. /\ pc = "recv" /\ pc' = "recv" /\ result' = "err"
        /\ UNCHANGED <<pending, pendingFlag, persist>>
    BY <1>3 DEF SetLeafRefused, memory
  <2> QED BY <1>1, <2>1 DEF ReportInv, PendingReported
<1>4. CASE Abandon
  <2>1. /\ pc = "recv" /\ pc' = "recv" /\ ~ persist' /\ UNCHANGED <<pending, result>>
    BY <1>4 DEF Abandon
  <2> QED BY <1>1, <2>1 DEF ReportInv, PendingReported
<1>5. CASE Abort \/ Crash \/ OpenFails
  <2>1. pc' = "closed"
    BY <1>5 DEF Abort, Crash, OpenFails
  <2> QED BY <2>1 DEF ReportInv, PendingReported
<1>6. CASE NothingPending \/ Resync
  <2>1. pendingFlag' = FALSE /\ pc' \in {"write", "exit", "flush"}
    BY <1>6 DEF NothingPending, Resync, AfterPersist
  <2> QED BY <2>1 DEF ReportInv, PendingReported
<1>7. CASE Reconcile \/ ReconcileFails \/ Rewrite \/ RewriteFails \/ ResyncFails
  <2>1. pc' \in {"failed", "rewrite", "resync"}
    BY <1>7 DEF Reconcile, ReconcileFails, Rewrite, RewriteFails, ResyncFails
  <2> QED BY <2>1 DEF ReportInv, PendingReported
<1>8. CASE PersistFailed
  <2>1. /\ pc = "failed" /\ pending' = pending \o prepared
        /\ pendingFlag' = TRUE /\ result' = "err" /\ pc' \in {"recv", "closed"}
    BY <1>8 DEF PersistFailed, Answer
  <2>2. pending # <<>>
    BY <1>1, <2>1 DEF CleanInv
  <2>3. Len(pending') = Len(pending) + Len(prepared)
    BY <1>1, <2>1, ConcatOfRecords
  <2>4. Len(pending) # 0 /\ Len(pending) \in Nat /\ Len(prepared) \in Nat
    BY <1>1, <2>2
  <2>5. pending' # <<>>
    BY <2>3, <2>4
  <2> QED BY <2>1, <2>5 DEF ReportInv, PendingReported
<1>9. CASE Write
  <2>1. /\ pc = "write" /\ pc' = "sync" /\ prepared # <<>>
        /\ UNCHANGED <<pendingFlag, prepared>>
    BY <1>9 DEF Write, memory, work
  <2> QED BY <1>1, <2>1 DEF ReportInv, PendingReported
<1>10. CASE WriteNothing \/ Sync \/ FlushFile \/ Exit
  <2>1. /\ pc \in {"write", "sync", "flush", "exit"} /\ pc' \in {"recv", "closed"}
        /\ UNCHANGED <<pending, pendingFlag>>
    BY <1>10 DEF WriteNothing, Sync, FlushFile, Exit, Answer, memory
  <2>2. pending = <<>> /\ ~ pendingFlag
    BY <1>1, <2>1 DEF CleanInv, ReportInv
  <2> QED BY <2>1, <2>2 DEF ReportInv, PendingReported
<1>11. CASE WriteFailed \/ SyncFailed
  <2>1. /\ pending' = prepared /\ pendingFlag' = TRUE /\ prepared # <<>>
        /\ result' = "err" /\ pc' \in {"recv", "closed"}
    BY <1>1, <1>11 DEF WriteFailed, SyncFailed, KeepPrepared, Answer, ReportInv
  <2> QED BY <2>1 DEF ReportInv, PendingReported
<1>12. CASE Open
  <2>1. pc' = "recv" /\ pending' = <<>> /\ pendingFlag' = FALSE
    BY <1>12 DEF Open
  <2> QED BY <2>1 DEF ReportInv, PendingReported
<1>13. CASE ForeignAppend \/ UNCHANGED vars
  <2>1. UNCHANGED <<pc, pending, pendingFlag, persist, prepared, result>>
    BY <1>13 DEF ForeignAppend, vars, memory, work
  <2> QED BY <1>1, <2>1 DEF ReportInv, PendingReported
<1> QED
  BY <1>2, <1>3, <1>4, <1>5, <1>6, <1>7, <1>8, <1>9, <1>10, <1>11, <1>12, <1>13
  DEF Next, Owner, Worker

\* has_pending() is exact whenever the owner can ask, and an Ok leaves nothing
\* behind: the eviction of a handle loses no batch.
THEOREM RecorderReportsPending == Spec => []PendingReported
<1>1. Init => ReportInv
  BY DEF Init, ReportInv, PendingReported
<1>2. ReportInv => PendingReported
  BY DEF ReportInv
<1> QED BY RecorderInvariant, <1>1, <1>2, ReportStep, PTL DEF Spec

\* A step forgets a pending record only when it is on stable storage, when the
\* owner gives it up or when the process ends, and a worker ends with one only
\* when it has just failed to write it.
LEMMA KeptStep ==
  Inv /\ [Next]_vars =>
    [\/ GivenUp
     \/ /\ Len(pending) <= Len(pending') /\ SubSeq(pending', 1, Len(pending)) = pending
        /\ pc' = "closed" => pending = <<>> \/ pc = "failed"
     \/ Ids(pending) \subseteq Ids(SubSeq(file', 1, synced'))]_vars
<1> DEFINE Kept == Len(pending) <= Len(pending')
                     /\ SubSeq(pending', 1, Len(pending)) = pending
           Tried == pc' = "closed" => pending = <<>> \/ pc = "failed"
<1> SUFFICES ASSUME Inv, Next
             PROVE  \/ GivenUp
                    \/ Kept /\ Tried
                    \/ Ids(pending) \subseteq Ids(SubSeq(file', 1, synced'))
  OBVIOUS
<1>1. /\ TypeOK /\ CleanInv /\ StageInv
      /\ pending \in Seq(Entry) /\ prepared \in Seq(Entry)
  BY DEF Inv, TypeOK, MemoryOK, WorkOK
<1>2. ASSUME pending' = pending PROVE Kept
  <2>1. SubSeq(pending, 1, Len(pending)) = pending /\ Len(pending) <= Len(pending)
    BY <1>1
  <2> QED BY <1>2, <2>1
<1>3. CASE Owner \/ NothingPending \/ Reconcile \/ ReconcileFails \/ Rewrite
           \/ RewriteFails \/ ResyncFails \/ Write \/ WriteNothing \/ Sync
           \/ FlushFile \/ Exit \/ ForeignAppend
  <2>1. GivenUp \/ pending' = pending
    BY <1>3
    DEF Owner, AppendBatch, SetLeaf, SetLeafRefused, Flush, Drop, Begin, Abandon,
        Abort, NothingPending, Reconcile, ReconcileFails, Rewrite, RewriteFails,
        ResyncFails, Write, WriteNothing, Sync, FlushFile, Exit, ForeignAppend,
        memory, GivenUp
  <2>2. GivenUp \/ pc' # "closed" \/ pc \in {"write", "sync", "flush", "exit"}
    BY <1>3
    DEF Owner, AppendBatch, SetLeaf, SetLeafRefused, Flush, Drop, Begin, Abandon,
        Abort, NothingPending, Reconcile, ReconcileFails, Rewrite, RewriteFails,
        ResyncFails, Write, WriteNothing, Sync, FlushFile, Exit, ForeignAppend,
        AfterPersist, memory, GivenUp
  <2>3. GivenUp \/ Tried
    BY <1>1, <2>2 DEF CleanInv
  <2>4. GivenUp \/ Kept
    BY <1>2, <2>1
  <2> QED BY <2>3, <2>4, Zenon
<1>4. CASE Crash \/ Open \/ OpenFails
  <2>1. crashes \in Nat
    BY DEF Inv, TypeOK
  <2>2. crashes' = crashes + 1 \/ pc = "closed"
    BY <1>4 DEF Crash, Open, OpenFails
  <2>3. GivenUp
    BY <2>1, <2>2 DEF GivenUp
  <2> QED BY <2>3
<1>5. CASE PersistFailed
  <2>1. pending' = pending \o prepared
    BY <1>5 DEF PersistFailed
  <2>2. /\ pending' \in Seq(Entry) /\ Len(pending') = Len(pending) + Len(prepared)
        /\ \A i \in 1 .. Len(pending) : pending'[i] = pending[i]
    BY <1>1, <2>1, ConcatOfRecords
  <2>3. Len(pending) \in Nat /\ Len(prepared) \in Nat
    BY <1>1
  <2>4. 1 \in 1 .. Len(pending') + 1 /\ Len(pending) \in 0 .. Len(pending')
        /\ 1 <= Len(pending) + 1
    BY <2>2, <2>3
  <2>5. /\ SubSeq(pending', 1, Len(pending)) \in Seq(Entry)
        /\ Len(SubSeq(pending', 1, Len(pending))) = Len(pending)
        /\ \A i \in 1 .. Len(pending) :
             SubSeq(pending', 1, Len(pending))[i] = pending'[i]
    BY <2>2, <2>3, <2>4, PartOfRecords
  <2>6. SubSeq(pending', 1, Len(pending)) = pending
    BY <1>1, <2>2, <2>5, SameRecords
  <2>7. pc = "failed"
    BY <1>5 DEF PersistFailed
  <2> QED BY <2>2, <2>3, <2>6, <2>7
<1>6. CASE WriteFailed \/ SyncFailed
  <2>1. pending = <<>> /\ pending' = prepared
    BY <1>1, <1>6 DEF WriteFailed, SyncFailed, KeepPrepared, CleanInv
  <2>2. Len(pending) = 0 /\ SubSeq(prepared, 1, 0) = <<>> /\ 0 <= Len(prepared)
    BY <1>1, <2>1
  <2> QED BY <2>1, <2>2
<1>7. CASE Resync
  <2>1. pc = "resync" /\ synced' = Len(file) /\ file' = file
    BY <1>7 DEF Resync
  <2>2. Ids(pending) \subseteq Ids(file)
    BY <1>1, <2>1 DEF StageInv
  <2>3. StableIds' = Ids(file)
    BY <1>1, <2>1, AllSynced
  <2> QED BY <2>2, <2>3 DEF StableIds
<1> QED BY <1>3, <1>4, <1>5, <1>6, <1>7 DEF Next, Worker

\* A prepared batch that failed is not forgotten or reordered before it is on
\* stable storage, whatever the owner asks for in between, and no worker ends
\* without a last attempt.
THEOREM RecorderKeepsPending == Spec => PendingKept
  BY RecorderInvariant, KeptStep, PTL DEF Spec, PendingKept
-----------------------------------------------------------------------------
(***************************************************************************)
(* Batches that refer to what is in front of them.                         *)
(***************************************************************************)

\* A batch may find more than it needs.
LEMMA GroundedMore ==
  ASSUME NEW s \in Seq(Entry), NEW S, NEW T, S \subseteq T, Grounded(s, S)
  PROVE  Grounded(s, T)
  BY DEF Grounded

\* A batch behind another may refer to it.
LEMMA GroundedConcat ==
  ASSUME NEW s \in Seq(Entry), NEW t \in Seq(Entry), NEW S,
         Grounded(s, S), Grounded(t, S \cup Ids(s))
  PROVE  Grounded(s \o t, S)
<1> DEFINE u == s \o t
           Before(i) == S \cup {u[j].id : j \in 1 .. i}
<1>1. /\ DOMAIN u = 1 .. Len(s) + Len(t)
      /\ \A i \in 1 .. Len(s) : u[i] = s[i]
      /\ \A i \in 1 .. Len(t) : u[Len(s) + i] = t[i]
      /\ Len(s) \in Nat /\ Len(t) \in Nat
  BY ConcatOfRecords
<1> HIDE DEF u
<1>2. \A i \in 0 .. Len(s) : \A x \in S \cup {s[j].id : j \in 1 .. i} : x \in Before(i)
  <2> SUFFICES ASSUME NEW i \in 0 .. Len(s), NEW x \in {s[j].id : j \in 1 .. i}
               PROVE  x \in Before(i)
    OBVIOUS
  <2>1. PICK j \in 1 .. i : x = s[j].id
    OBVIOUS
  <2>2. u[j] = s[j]
    BY <1>1
  <2> QED BY <2>1, <2>2
<1>3. \A i \in 0 .. Len(t) : \A x \in S \cup Ids(s) \cup {t[j].id : j \in 1 .. i} :
        x \in Before(Len(s) + i)
  <2> SUFFICES ASSUME NEW i \in 0 .. Len(t),
                      NEW x \in Ids(s) \cup {t[j].id : j \in 1 .. i}
               PROVE  x \in Before(Len(s) + i)
    OBVIOUS
  <2>1. CASE x \in Ids(s)
    <3>1. PICK j \in 1 .. Len(s) : x = s[j].id
      BY <2>1 DEF Ids
    <3>2. j \in 1 .. Len(s) + i /\ u[j] = s[j]
      BY <1>1
    <3> QED BY <3>1, <3>2
  <2>2. CASE x \in {t[j].id : j \in 1 .. i}
    <3>1. PICK j \in 1 .. i : x = t[j].id
      BY <2>2
    <3>2. Len(s) + j \in 1 .. Len(s) + i /\ u[Len(s) + j] = t[j]
      BY <1>1
    <3> QED BY <3>1, <3>2
  <2> QED BY <2>1, <2>2
<1> HIDE DEF Before
<1>4. ASSUME NEW i \in DOMAIN u
      PROVE  u[i].parent \in Before(i - 1) /\ u[i].leaf \in Before(i)
  <2>1. CASE i \in 1 .. Len(s)
    <3>1. /\ s[i].parent \in S \cup {s[j].id : j \in 1 .. i - 1}
          /\ s[i].leaf \in S \cup {s[j].id : j \in 1 .. i}
      BY <2>1 DEF Grounded
    <3>2. i \in 0 .. Len(s) /\ i - 1 \in 0 .. Len(s) /\ u[i] = s[i]
      BY <1>1, <2>1
    <3> QED BY <1>2, <3>1, <3>2
  <2>2. CASE ~ (i \in 1 .. Len(s))
    <3>1. i - Len(s) \in 1 .. Len(t) /\ i = Len(s) + (i - Len(s))
      BY <1>1, <2>2
    <3>2. PICK k \in DOMAIN t : i = Len(s) + k
      BY <3>1
    <3>3. /\ k \in 0 .. Len(t) /\ k - 1 \in 0 .. Len(t)
          /\ i - 1 = Len(s) + (k - 1) /\ u[i] = t[k]
      BY <1>1, <3>2
    <3>4. /\ t[k].parent \in S \cup Ids(s) \cup {t[j].id : j \in 1 .. k - 1}
          /\ t[k].leaf \in S \cup Ids(s) \cup {t[j].id : j \in 1 .. k}
      BY DEF Grounded
    <3>5. t[k].parent \in Before(Len(s) + (k - 1))
      BY <1>3, <3>3, <3>4
    <3>6. t[k].leaf \in Before(Len(s) + k)
      BY <1>3, <3>3, <3>4
    <3> QED BY <3>2, <3>3, <3>5, <3>6
  <2> QED BY <2>1, <2>2
<1> QED BY <1>4 DEF Grounded, Before, u

\* The first records of a batch are a batch.
LEMMA GroundedPrefix ==
  ASSUME NEW s \in Seq(Entry), NEW n \in 0 .. Len(s), NEW S, Grounded(s, S)
  PROVE  Grounded(SubSeq(s, 1, n), S)
<1> DEFINE u == SubSeq(s, 1, n)
<1>1. DOMAIN u = 1 .. n /\ \A i \in 1 .. n : u[i] = s[i]
  BY PartOfRecords
<1> HIDE DEF u
<1>2. ASSUME NEW i \in DOMAIN u
      PROVE  /\ u[i].parent \in S \cup {u[j].id : j \in 1 .. i - 1}
             /\ u[i].leaf \in S \cup {u[j].id : j \in 1 .. i}
  <2>1. /\ s[i].parent \in S \cup {s[j].id : j \in 1 .. i - 1}
        /\ s[i].leaf \in S \cup {s[j].id : j \in 1 .. i}
    BY <1>1 DEF Grounded
  <2>2. \A j \in 1 .. i : u[j] = s[j]
    BY <1>1
  <2>3. \A j \in 1 .. i - 1 : u[j] = s[j]
    BY <1>1
  <2>4. u[i] = s[i]
    BY <1>1
  <2> QED BY <2>1, <2>2, <2>3, <2>4
<1> QED BY <1>2 DEF Grounded, u

\* The rest of a batch is a batch where its beginning already is.
LEMMA GroundedSuffix ==
  ASSUME NEW s \in Seq(Entry), NEW m \in 0 .. Len(s), NEW S, Grounded(s, S),
         Ids(SubSeq(s, 1, m)) \subseteq S
  PROVE  Grounded(SubSeq(s, m + 1, Len(s)), S)
<1> DEFINE u == SubSeq(s, m + 1, Len(s))
<1>1. DOMAIN u = 1 .. Len(s) - m /\ \A i \in 1 .. Len(s) - m : u[i] = s[m + i]
  BY PartOfRecords
<1>2. \A j \in 1 .. m : s[j].id \in S
  <2>1. DOMAIN SubSeq(s, 1, m) = 1 .. m /\ \A j \in 1 .. m : SubSeq(s, 1, m)[j] = s[j]
    BY PartOfRecords
  <2> QED BY <2>1 DEF Ids
<1> HIDE DEF u
<1>3. \A n \in m .. Len(s) : \A x \in S \cup {s[j].id : j \in 1 .. n} :
        x \in S \cup {u[j].id : j \in 1 .. n - m}
  <2> SUFFICES ASSUME NEW n \in m .. Len(s), NEW x \in {s[j].id : j \in 1 .. n}
               PROVE  x \in S \cup {u[j].id : j \in 1 .. n - m}
    OBVIOUS
  <2>1. PICK j \in 1 .. n : x = s[j].id
    OBVIOUS
  <2>2. CASE j \in 1 .. m
    BY <1>2, <2>1, <2>2
  <2>3. CASE ~ (j \in 1 .. m)
    <3>1. /\ j - m \in 1 .. n - m /\ j - m \in 1 .. Len(s) - m
          /\ j = m + (j - m)
      BY <2>3
    <3>2. u[j - m] = s[j]
      BY <1>1, <3>1
    <3> QED BY <2>1, <3>1, <3>2
  <2> QED BY <2>2, <2>3
<1>4. ASSUME NEW i \in DOMAIN u
      PROVE  /\ u[i].parent \in S \cup {u[j].id : j \in 1 .. i - 1}
             /\ u[i].leaf \in S \cup {u[j].id : j \in 1 .. i}
  <2>1. m + i \in DOMAIN s /\ i \in Nat
    BY <1>1
  <2>2. PICK n \in DOMAIN s : n = m + i
    BY <2>1
  <2>3. /\ n \in m .. Len(s) /\ n - 1 \in m .. Len(s)
        /\ i = n - m /\ i - 1 = (n - 1) - m
    BY <1>1, <2>2
  <2>4. u[i] = s[n]
    BY <1>1, <2>2
  <2>5. /\ s[n].parent \in S \cup {s[j].id : j \in 1 .. n - 1}
        /\ s[n].leaf \in S \cup {s[j].id : j \in 1 .. n}
    BY DEF Grounded
  <2>6. s[n].parent \in S \cup {u[j].id : j \in 1 .. (n - 1) - m}
    BY <1>3, <2>3, <2>5
  <2>7. s[n].leaf \in S \cup {u[j].id : j \in 1 .. n - m}
    BY <1>3, <2>3, <2>5
  <2> QED BY <2>3, <2>4, <2>6, <2>7
<1> QED BY <1>4 DEF Grounded, u

\* A batch has a leaf among its records or what it refers to.
LEMMA GroundedLast ==
  ASSUME NEW s \in Seq(Entry), s # <<>>, NEW S, Grounded(s, S)
  PROVE  Last(s).leaf \in S \cup Ids(s)
<1>1. Len(s) \in DOMAIN s /\ \A j \in 1 .. Len(s) : j \in DOMAIN s
  OBVIOUS
<1>2. s[Len(s)].leaf \in S \cup {s[j].id : j \in 1 .. Len(s)}
  BY <1>1 DEF Grounded
<1> QED BY <1>1, <1>2 DEF Last, Ids

\* A grounded file loads, as far as its parents are concerned.
LEMMA GroundedPrecede ==
  ASSUME DiskOK, file[1].id = 0, Grounded(file, {0})
  PROVE  ParentsPrecede(file)
<1> SUFFICES ASSUME NEW i \in DOMAIN file \ {1}
             PROVE  \E j \in 1 .. i - 1 : file[j].id = file[i].parent
  BY DEF ParentsPrecede
<1>1. i \in Nat /\ 1 \in 1 .. i - 1
  BY DEF DiskOK
<1>2. file[i].parent \in {0} \cup {file[j].id : j \in 1 .. i - 1}
  BY DEF Grounded
<1> QED BY <1>1, <1>2
-----------------------------------------------------------------------------
(***************************************************************************)
(* The file loads.                                                         *)
(***************************************************************************)

\* What the owner asks to be written refers to what the writer knows or what
\* still waits.
LEMMA BatchGrounded ==
  ASSUME Inv, GroundInv
  PROVE  LET S == Ids(file) \cup Ids(pending)
         IN  /\ \A n \in Nat : Grounded(MessageBatch(n), S)
             /\ \A t \in KnownAfterPending : Grounded(LeafBatch(t), S)
<1> DEFINE S == Ids(file) \cup Ids(pending)
<1>1. pending \in Seq(Entry) /\ nextId \in Nat
  BY DEF Inv, TypeOK, MemoryOK
<1>2. TailLeaf \in S
  <2>1. CASE pending = <<>>
    BY <2>1 DEF TailLeaf, GroundInv
  <2>2. CASE pending # <<>>
    <3>1. Last(pending).leaf \in Ids(file) \cup Ids(pending)
      BY <1>1, <2>2, GroundedLast DEF GroundInv
    <3> QED BY <2>2, <3>1 DEF TailLeaf
  <2> QED BY <2>1, <2>2
<1>3. KnownAfterPending \subseteq S
  BY DEF KnownAfterPending, GroundInv
<1> HIDE DEF S
<1>4. ASSUME NEW n \in Nat PROVE Grounded(MessageBatch(n), S)
  <2> DEFINE b == MessageBatch(n)
  <2>1. /\ DOMAIN b = 1 .. n
        /\ \A k \in 1 .. n : /\ b[k].id = nextId + k - 1
                             /\ b[k].parent = IF k = 1 THEN TailLeaf ELSE nextId + k - 2
                             /\ b[k].leaf = nextId + k - 1
    BY DEF MessageBatch
  <2> HIDE DEF b
  <2>2. ASSUME NEW k \in 1 .. n
        PROVE  /\ b[k].parent \in S \cup {b[j].id : j \in 1 .. k - 1}
               /\ b[k].leaf \in S \cup {b[j].id : j \in 1 .. k}
    <3>1. b[k].leaf = b[k].id /\ k \in 1 .. k
      BY <2>1
    <3>2. CASE k = 1
      BY <1>2, <2>1, <3>1, <3>2
    <3>3. CASE k # 1
      <4>1. k - 1 \in 1 .. k - 1 /\ k - 1 \in 1 .. n
        BY <3>3
      <4>2. b[k - 1].id = nextId + (k - 1) - 1 /\ b[k].parent = nextId + k - 2
        BY <2>1, <3>3, <4>1
      <4>3. b[k].parent = b[k - 1].id
        BY <1>1, <4>2
      <4> QED BY <3>1, <4>1, <4>3
    <3> QED BY <3>2, <3>3
  <2>3. Grounded(b, S)
    BY <2>1, <2>2 DEF Grounded
  <2> QED BY <2>3 DEF b
<1>5. ASSUME NEW t \in KnownAfterPending PROVE Grounded(LeafBatch(t), S)
  <2>1. /\ DOMAIN LeafBatch(t) = {1} /\ LeafBatch(t)[1].parent = TailLeaf
        /\ LeafBatch(t)[1].leaf = t
    BY DEF LeafBatch
  <2> QED BY <1>2, <1>3, <2>1 DEF Grounded
<1> QED BY <1>4, <1>5 DEF S

\* A write to a clean file of records that refer to the file, all or some of
\* them, leaves a file that refers to itself.
LEMMA WriteGrounded ==
  ASSUME DiskOK, GroundInv, tail = "clean", NEW s \in Seq(Entry),
         Grounded(s, Ids(file)), WriteAll(s) \/ WriteFails(s)
  PROVE  /\ file' \in Seq(Entry) /\ tail' # "corrupt"
         /\ file'[1].id = 0 /\ Grounded(file', {0})
         /\ Ids(file) \subseteq Ids(file')
<1>1. file \in Seq(Entry) /\ 1 \in 1 .. Len(file)
  BY DEF DiskOK
<1>2. PICK n \in 0 .. Len(s) :
        file' = file \o SubSeq(s, 1, n) /\ tail' # "corrupt"
  <2>1. CASE WriteAll(s)
    <3>1. SubSeq(s, 1, Len(s)) = s /\ Len(s) \in 0 .. Len(s)
      OBVIOUS
    <3>2. file' = file \o SubSeq(s, 1, Len(s)) /\ tail' # "corrupt"
      BY <2>1, <3>1 DEF WriteAll
    <3> QED BY <3>1, <3>2
  <2>2. CASE WriteFails(s)
    BY <2>2 DEF WriteFails
  <2> QED BY <2>1, <2>2
<1> DEFINE u == SubSeq(s, 1, n)
<1>3. u \in Seq(Entry) /\ Grounded(u, Ids(file))
  BY PartOfRecords, GroundedPrefix
<1> HIDE DEF u
<1>4. Grounded(u, {0} \cup Ids(file))
  BY <1>3, GroundedMore
<1>5. file' = file \o u
  BY <1>2 DEF u
<1>6. Grounded(file', {0})
  BY <1>1, <1>3, <1>4, <1>5, GroundedConcat DEF GroundInv
<1>7. file' \in Seq(Entry) /\ file'[1] = file[1] /\ Ids(file') = Ids(file) \cup Ids(u)
  BY <1>1, <1>3, <1>5, ConcatOfRecords, IdsConcat
<1> QED BY <1>2, <1>6, <1>7 DEF GroundInv

\* The batch that reconciliation goes on with refers to the file.
LEMMA MissingGrounded ==
  ASSUME Inv, GroundInv, NEW m \in 0 .. Len(pending), Matched(pending, m)
  PROVE  Grounded(Suffix(pending, m), Ids(file))
<1>1. pending \in Seq(Entry) /\ file \in Seq(Entry)
  BY DEF Inv, TypeOK, MemoryOK, DiskOK
<1>2. Ids(SubSeq(pending, 1, m)) \subseteq Ids(file)
  BY <1>1, MatchedIds
<1>3. Grounded(pending, Ids(file))
  BY DEF GroundInv
<1> QED BY <1>1, <1>2, <1>3, GroundedSuffix DEF Suffix

\* The writer's knowledge and the batches stay grounded when the file grows.
LEMMA GroundKept ==
  ASSUME Inv, GroundInv, tail' # "corrupt", file'[1].id = 0, Grounded(file', {0}),
         Ids(file) \subseteq Ids(file'),
         known' \subseteq Ids(file'), leaf' \in Ids(file'),
         \/ pending' = pending /\ prepared' \in {prepared, <<>>}
         \/ pending' = <<>> /\ prepared' = <<>>
         \/ pending' = <<>> /\ Ids(pending) \subseteq Ids(file') /\ prepared' = prepared
         \/ pending' = prepared /\ pending = <<>> /\ prepared' = <<>>,
         pc' \in {"rewrite", "resync"} => Grounded(missing', Ids(file')),
         pc' = "resync" => Ids(missing') \subseteq Ids(file'),
         pc' \in {"recv", "closed"} => prepared' = <<>>
  PROVE  GroundInv'
<1> DEFINE S == Ids(file)
           T == Ids(file')
<1>1. pending \in Seq(Entry) /\ prepared \in Seq(Entry) /\ <<>> \in Seq(Entry)
  BY DEF Inv, TypeOK, MemoryOK, WorkOK
<1>2. \A X : Grounded(<<>>, X)
  BY DEF Grounded
<1>3. Grounded(pending, S) /\ Grounded(prepared, S \cup Ids(pending)) /\ S \subseteq T
  BY DEF GroundInv
<1>4. Ids(<<>>) = {}
  BY IdsEmpty
<1> HIDE DEF S, T
<1>5. Grounded(pending', T)
  <2>1. Grounded(pending, T)
    BY <1>1, <1>3, GroundedMore
  <2>2. pending = <<>> => Grounded(prepared, T)
    <3>1. S \cup {} \subseteq T
      BY <1>3
    <3> QED BY <1>1, <1>3, <1>4, <3>1, GroundedMore
  <2> QED BY <1>2, <2>1, <2>2
<1>6. Grounded(prepared', T \cup Ids(pending'))
  <2>1. CASE prepared' = <<>>
    BY <1>2, <2>1
  <2>2. CASE pending' = pending /\ prepared' = prepared
    <3>1. S \cup Ids(pending) \subseteq T \cup Ids(pending)
      BY <1>3
    <3>2. Grounded(prepared, T \cup Ids(pending))
      BY <1>1, <1>3, <3>1, GroundedMore
    <3> QED BY <2>2, <3>2
  <2>3. CASE Ids(pending) \subseteq Ids(file') /\ prepared' = prepared
    <3>1. S \cup Ids(pending) \subseteq T \cup Ids(pending')
      BY <1>3, <2>3 DEF T
    <3>2. Grounded(prepared, T \cup Ids(pending'))
      BY <1>1, <1>3, <3>1, GroundedMore
    <3> QED BY <2>3, <3>2
  <2> QED BY <2>1, <2>2, <2>3
<1> QED BY <1>5, <1>6 DEF GroundInv, T

\* A batch just asked for.
LEMMA GroundBegin ==
  ASSUME Inv, GroundInv, NEW o, NEW b \in Seq(Entry),
         Grounded(b, Ids(file) \cup Ids(pending)), Begin(o, b)
  PROVE  GroundInv'
<1>1. UNCHANGED <<file, tail, known, leaf, pending>> /\ prepared' = b /\ pc' = "persist"
  BY DEF Begin, disk, memory
<1> QED BY <1>1 DEF GroundInv

\* What the writer knows after records that are in the file.
LEMMA CommittedGrounded ==
  ASSUME Inv, GroundInv, NEW s \in Seq(Entry), Grounded(s, Ids(file)),
         Ids(s) \subseteq Ids(file), Committed(s)
  PROVE  known' \subseteq Ids(file) /\ leaf' \in Ids(file)
<1>1. s # <<>> => Last(s).leaf \in Ids(file)
  BY GroundedLast
<1> QED BY <1>1 DEF Committed, GroundInv

\* A file that was just read.
LEMMA ReadGrounded ==
  ASSUME Inv, GroundInv
  PROVE  0 \in Ids(file) /\ Last(file).leaf \in Ids(file)
<1>1. file \in Seq(Entry) /\ 1 \in DOMAIN file /\ file # <<>>
  BY DEF Inv, TypeOK, DiskOK
<1>2. 0 \in Ids(file)
  BY <1>1 DEF GroundInv, Ids
<1>3. Last(file).leaf \in {0} \cup Ids(file)
  BY <1>1, GroundedLast DEF GroundInv
<1> QED BY <1>2, <1>3

\* No step lets the file, or a batch that waits for it, refer to nothing.
LEMMA GroundStep == Inv /\ GroundInv /\ [Next]_vars => GroundInv'
<1> SUFFICES ASSUME Inv, GroundInv, [Next]_vars PROVE GroundInv'
  OBVIOUS
<1>1. /\ TypeOK /\ DiskOK /\ MemoryOK /\ CleanInv /\ StageInv /\ nextId \in Nat
      /\ file \in Seq(Entry) /\ pending \in Seq(Entry)
      /\ prepared \in Seq(Entry) /\ missing \in Seq(Entry)
  BY DEF Inv, TypeOK, DiskOK, MemoryOK, WorkOK
<1>2. /\ tail # "corrupt" /\ file[1].id = 0 /\ Grounded(file, {0})
      /\ known \subseteq Ids(file) /\ leaf \in Ids(file)
      /\ Grounded(pending, Ids(file))
      /\ Grounded(prepared, Ids(file) \cup Ids(pending))
      /\ pc \in {"rewrite", "resync"} => Grounded(missing, Ids(file))
      /\ pc = "resync" => Ids(missing) \subseteq Ids(file)
      /\ pc \in {"recv", "closed"} => prepared = <<>>
  BY DEF GroundInv
<1>3. 0 \in Ids(file) /\ Last(file).leaf \in Ids(file)
  BY ReadGrounded
<1>4. CASE \E n \in 0 .. MaxBatch : AppendBatch(n)
  <2>1. PICK n \in 0 .. MaxBatch : Begin("append", MessageBatch(n))
    BY <1>4 DEF AppendBatch
  <2>2. n \in Nat
    OBVIOUS
  <2> QED BY <1>1, <2>1, <2>2, BatchTypes, BatchGrounded, GroundBegin
<1>5. CASE \E t \in 0 .. nextId - 1 : SetLeaf(t)
  <2>1. PICK t \in 0 .. nextId - 1 :
          t \in KnownAfterPending /\ Begin("append", LeafBatch(t))
    BY <1>5 DEF SetLeaf
  <2>2. t \in Id
    BY <1>1 DEF Id
  <2> QED BY <1>1, <2>1, <2>2, BatchTypes, BatchGrounded, GroundBegin
<1>6. CASE Flush \/ \E o \in {"shutdown", "disconnect"} : Drop(o)
  <2>1. PICK o : Begin(o, <<>>)
    BY <1>6 DEF Flush, Drop
  <2>2. <<>> \in Seq(Entry) /\ Grounded(<<>>, Ids(file) \cup Ids(pending))
    BY DEF Grounded
  <2> QED BY <2>1, <2>2, GroundBegin
<1>7. CASE \/ \E t \in 0 .. nextId - 1 : SetLeafRefused(t)
           \/ Abandon \/ OpenFails \/ UNCHANGED vars
  <2>1. /\ UNCHANGED <<file, known, leaf, pending, prepared, missing, pc>>
        /\ tail' # "corrupt"
    BY <1>2, <1>7
    DEF SetLeafRefused, Abandon, OpenFails, OpenFileFails, vars, disk, memory, work
  <2> QED BY <1>2, <2>1 DEF GroundInv
<1>8. CASE Abort
  <2>1. /\ pc = "recv" /\ pc' = "closed" /\ pending' = <<>>
        /\ UNCHANGED <<file, tail, known, leaf, prepared, missing>>
    BY <1>8 DEF Abort, disk, work
  <2> QED BY <1>2, <2>1, GroundKept
<1>9. CASE NothingPending
  <2>1. /\ pc' \in {"write", "exit", "flush"}
        /\ UNCHANGED <<file, tail, known, leaf, pending, prepared>>
    BY <1>9 DEF NothingPending, AfterPersist, disk, work
  <2> QED BY <1>2, <2>1, GroundKept
<1>10. CASE Reconcile
  <2>1. PICK m \in 0 .. Len(pending) :
          Matched(pending, m) /\ missing' = Suffix(pending, m)
    BY <1>10 DEF Reconcile
  <2>2. /\ file' = file /\ tail' = "clean" /\ known' = Ids(file)
        /\ leaf' = Last(file).leaf /\ UNCHANGED <<pending, prepared>>
        /\ pc' \in {"failed", "rewrite"}
    BY <1>10 DEF Reconcile, OpenFile
  <2>3. Grounded(missing', Ids(file))
    BY <2>1, MissingGrounded
  <2> QED BY <1>2, <1>3, <2>2, <2>3, GroundKept
<1>11. CASE ReconcileFails
  <2>1. /\ UNCHANGED <<file, known, leaf, pending, prepared>> /\ pc' = "failed"
        /\ tail' # "corrupt"
    BY <1>2, <1>11 DEF ReconcileFails, OpenFileFails, memory, work
  <2> QED BY <1>2, <2>1, GroundKept
<1>12. CASE Rewrite \/ RewriteFails
  <2>1. /\ pc = "rewrite" /\ tail = "clean" /\ pc' \in {"resync", "failed"}
        /\ UNCHANGED <<known, leaf, pending, prepared, missing>>
    BY <1>1, <1>12 DEF Rewrite, RewriteFails, CleanInv, memory, work
  <2>2. /\ tail' # "corrupt" /\ file'[1].id = 0 /\ Grounded(file', {0})
        /\ Ids(file) \subseteq Ids(file')
    <3>1. CASE missing = <<>>
      <4>1. file' = file /\ tail' = tail
        BY <1>12, <3>1 DEF Rewrite, RewriteFails
      <4> QED BY <1>2, <4>1
    <3>2. CASE missing # <<>>
      <4>1. WriteAll(missing) \/ WriteFails(missing)
        BY <1>12, <3>2 DEF Rewrite, RewriteFails
      <4> QED BY <1>1, <1>2, <2>1, <4>1, WriteGrounded
    <3> QED BY <3>1, <3>2
  <2>3. Grounded(missing', Ids(file'))
    BY <1>1, <1>2, <2>1, <2>2, GroundedMore
  <2>4. pc' = "resync" => Ids(missing') \subseteq Ids(file')
    <3> SUFFICES ASSUME pc' = "resync" PROVE Ids(missing) \subseteq Ids(file')
      BY <2>1
    <3>1. IF missing = <<>> THEN UNCHANGED <<file, tail>> ELSE WriteAll(missing)
      BY <1>12 DEF Rewrite, RewriteFails
    <3>2. CASE missing = <<>>
      BY <3>2, IdsEmpty
    <3>3. CASE missing # <<>>
      BY <1>1, <2>1, <3>1, <3>3, WriteAllIds
    <3> QED BY <3>2, <3>3
  <2> QED BY <1>2, <2>1, <2>2, <2>3, <2>4, GroundKept
<1>13. CASE Resync \/ ResyncFails
  <2>1. /\ pc = "resync" /\ UNCHANGED <<file, tail, prepared>>
        /\ pc' \in {"write", "exit", "flush", "failed"}
        /\ pending' \in {pending, <<>>}
        /\ Committed(missing) \/ UNCHANGED <<known, leaf>>
    BY <1>13 DEF Resync, ResyncFails, AfterPersist, work
  <2>2. known' \subseteq Ids(file) /\ leaf' \in Ids(file)
    BY <1>1, <1>2, <2>1, CommittedGrounded
  <2>3. Ids(pending) \subseteq Ids(file)
    BY <1>1, <2>1 DEF StageInv
  <2> QED BY <1>2, <2>1, <2>2, <2>3, GroundKept
<1>14. CASE PersistFailed
  <2>1. /\ pc' \in {"recv", "closed"} /\ pending' = pending \o prepared
        /\ prepared' = <<>> /\ UNCHANGED <<file, tail, known, leaf>>
    BY <1>14 DEF PersistFailed, Answer, Idle, disk
  <2>2. Grounded(pending', Ids(file))
    BY <1>1, <1>2, <2>1, GroundedConcat
  <2>3. Grounded(<<>>, Ids(file) \cup Ids(pending'))
    BY DEF Grounded
  <2> QED BY <1>2, <2>1, <2>2, <2>3 DEF GroundInv
<1>15. CASE Write \/ WriteFailed
  <2>1. /\ pc = "write" /\ tail = "clean" /\ pending = <<>>
        /\ UNCHANGED <<known, leaf>>
        /\ \/ pc' = "sync" /\ UNCHANGED <<pending, prepared>>
           \/ pc' \in {"recv", "closed"} /\ pending' = prepared /\ prepared' = <<>>
    BY <1>1, <1>15
    DEF Write, WriteFailed, KeepPrepared, Answer, Idle, CleanInv, memory, work
  <2>2. WriteAll(prepared) \/ WriteFails(prepared)
    BY <1>15 DEF Write, WriteFailed
  <2>3. Grounded(prepared, Ids(file))
    <3>1. Ids(file) \cup Ids(pending) \subseteq Ids(file)
      BY <2>1, IdsEmpty
    <3> QED BY <1>1, <1>2, <3>1, GroundedMore
  <2>4. /\ tail' # "corrupt" /\ file'[1].id = 0 /\ Grounded(file', {0})
        /\ Ids(file) \subseteq Ids(file')
    BY <1>1, <2>1, <2>2, <2>3, WriteGrounded
  <2> QED BY <1>2, <2>1, <2>4, GroundKept
<1>16. CASE WriteNothing \/ FlushFile \/ Exit
  <2>1. /\ UNCHANGED <<file, tail, known, leaf, pending>> /\ prepared' = <<>>
        /\ pc' \in {"recv", "closed"}
    BY <1>16 DEF WriteNothing, FlushFile, Exit, Answer, Idle, disk, memory
  <2> QED BY <1>2, <2>1, GroundKept
<1>17. CASE Sync \/ SyncFailed
  <2>1. /\ pc = "sync" /\ pending = <<>> /\ UNCHANGED <<file, tail>>
        /\ prepared' = <<>> /\ pc' \in {"recv", "closed"}
        /\ pending' \in {pending, prepared}
        /\ Committed(prepared) \/ UNCHANGED <<known, leaf>>
    BY <1>1, <1>17
    DEF Sync, SyncFailed, KeepPrepared, Answer, Idle, CleanInv, disk
  <2>2. Grounded(prepared, Ids(file)) /\ Ids(prepared) \subseteq Ids(file)
    <3>1. Ids(file) \cup Ids(pending) \subseteq Ids(file)
      BY <2>1, IdsEmpty
    <3> QED BY <1>1, <1>2, <2>1, <3>1, GroundedMore DEF StageInv
  <2>3. known' \subseteq Ids(file) /\ leaf' \in Ids(file)
    BY <1>1, <1>2, <2>1, <2>2, CommittedGrounded
  <2> QED BY <1>2, <2>1, <2>3, GroundKept
<1>18. CASE Crash
  <2>1. PICK n \in synced .. Len(file) : file' = SubSeq(file, 1, n)
    BY <1>18 DEF Crash
  <2>2. /\ tail' # "corrupt" /\ pc' = "closed"
        /\ known' = {} /\ leaf' = 0 /\ pending' = <<>> /\ prepared' = <<>>
    BY <1>2, <1>18 DEF Crash, Idle
  <2>3. n \in 0 .. Len(file) /\ n \in 1 .. Len(file)
    BY <1>1 DEF DiskOK
  <2>4. file' \in Seq(Entry) /\ DOMAIN file' = 1 .. n /\ file'[1] = file[1]
    BY <1>1, <2>1, <2>3, PrefixProperties
  <2>5. Grounded(file', {0})
    BY <1>1, <1>2, <2>1, <2>3, GroundedPrefix
  <2>6. 0 \in Ids(file')
    BY <1>2, <2>3, <2>4 DEF Ids
  <2>7. \A X : Grounded(<<>>, X)
    BY DEF Grounded
  <2> QED BY <1>2, <2>2, <2>4, <2>5, <2>6, <2>7 DEF GroundInv
<1>19. CASE Open
  <2>1. /\ pc = "closed" /\ pc' = "recv" /\ file' = file /\ tail' = "clean"
        /\ known' = Ids(file) /\ leaf' = Last(file).leaf /\ pending' = <<>>
        /\ UNCHANGED <<prepared, missing>>
    BY <1>19 DEF Open, OpenFile, work
  <2> QED BY <1>2, <1>3, <2>1, GroundKept
<1>20. CASE ForeignAppend
  <2> DEFINE e == [id |-> - foreign - 1, parent |-> Last(file).leaf,
                   leaf |-> - foreign - 1]
             b == <<e>>
  <2>1. /\ file' = Append(file, e)
        /\ UNCHANGED <<tail, known, leaf, pending, prepared, missing, pc>>
    BY <1>20 DEF ForeignAppend, memory, work
  <2>2. e \in Entry /\ e.parent \in Ids(file) /\ e.leaf = e.id
    <3>1. Last(file).leaf \in Id /\ - foreign - 1 \in Id
      BY <1>1, <1>3, IdTypes DEF TypeOK, Id
    <3> QED BY <1>3, <3>1 DEF Entry
  <2> HIDE DEF e
  <2>3. b \in Seq(Entry) /\ DOMAIN b = {1} /\ b[1] = e
    BY <2>2
  <2>4. file' = file \o b
    BY <1>1, <2>1, <2>2, AppendRecord
  <2> HIDE DEF b
  <2>5. Grounded(b, {0} \cup Ids(file))
    BY <2>2, <2>3 DEF Grounded
  <2>6. Grounded(file', {0})
    BY <1>1, <1>2, <2>3, <2>4, <2>5, GroundedConcat
  <2>7. Ids(file) \subseteq Ids(file') /\ file'[1] = file[1]
    BY <1>1, <2>3, <2>4, IdsConcat, ConcatOfRecords DEF DiskOK
  <2>8. /\ pc \in {"rewrite", "resync"} => Grounded(missing, Ids(file'))
        /\ pc = "resync" => Ids(missing) \subseteq Ids(file')
    BY <1>1, <1>2, <2>7, GroundedMore
  <2> QED BY <1>2, <2>1, <2>6, <2>7, <2>8, GroundKept
<1> QED
  BY <1>4, <1>5, <1>6, <1>7, <1>8, <1>9, <1>10, <1>11, <1>12, <1>13, <1>14,
     <1>15, <1>16, <1>17, <1>18, <1>19, <1>20
  DEF Next, Owner, Worker

\* It holds for a recorder just created.
LEMMA GroundInit == Init => GroundInv
<1> SUFFICES ASSUME Init PROVE GroundInv
  OBVIOUS
<1>1. /\ file = <<Header>> /\ DOMAIN file = {1} /\ file[1] = Header
      /\ Header.id = 0 /\ Header.parent = 0 /\ Header.leaf = 0
  BY DEF Init, Header
<1>2. Grounded(file, {0}) /\ 0 \in Ids(file)
  BY <1>1 DEF Grounded, Ids
<1>3. \A X : Grounded(<<>>, X)
  BY DEF Grounded
<1> QED BY <1>1, <1>2, <1>3 DEF Init, GroundInv

\* The file can always be loaded: whatever was cut, retried or written by
\* others, no line is glued, no identity repeated, no parent missing.
THEOREM RecorderLoads == Spec => []SourceLoads
<1>1. Inv /\ GroundInv => SourceLoads
  BY GroundedPrecede
  DEF Inv, GroundInv, FreshInv, TypeOK, SourceLoads, Loads
<1> QED BY RecorderInvariant, GroundInit, GroundStep, <1>1, PTL DEF Spec
-----------------------------------------------------------------------------
(***************************************************************************)
(* The file is one chain.                                                  *)
(***************************************************************************)

\* Every record continues the one before it.
Chained(s) == \A i \in 2 .. Len(s) : s[i].parent = s[i - 1].leaf

\* The first k records of the batch b are the end of f, the others are not in
\* f, and b continues what is in front of it there.
WrittenTo(b, f, k) ==
  /\ k < Len(f)
  /\ \A i \in 1 .. k : f[Len(f) - k + i] = b[i]
  /\ \A i \in k + 1 .. Len(b), j \in DOMAIN f : b[i].id # f[j].id
  /\ b # <<>> => b[1].parent = f[Len(f) - k].leaf

\* As long as nobody else writes: a batch that waits stands at the end of the
\* file as far as it is written, one that is prepared continues what waits, and
\* the writer's leaf is the end of the file whenever nothing waits.
ChainInv ==
  foreign = 0 =>
    /\ Chained(file) /\ Chained(pending) /\ Chained(prepared)
    /\ pending # <<>> => \E k \in 0 .. Len(pending) : WrittenTo(pending, file, k)
    /\ pending = <<>> /\ pc \notin {"sync", "closed"} => leaf = Last(file).leaf
    /\ prepared # <<>> /\ pc # "sync" => prepared[1].parent = TailLeaf
    /\ pc = "rewrite" =>
         /\ \E k \in 0 .. Len(pending) :
              WrittenTo(pending, file, k) /\ missing = Suffix(pending, k)
         /\ leaf = Last(file).leaf
    /\ pc = "resync" =>
         /\ WrittenTo(pending, file, Len(pending))
         /\ IF missing = <<>> THEN leaf = Last(file).leaf ELSE Last(missing) = Last(file)
    /\ pc = "sync" => WrittenTo(prepared, file, Len(prepared))

\* One chain behind another that it continues is a chain.
LEMMA ChainedConcat ==
  ASSUME NEW s \in Seq(Entry), NEW t \in Seq(Entry), Chained(s), Chained(t),
         s # <<>> /\ t # <<>> => t[1].parent = Last(s).leaf
  PROVE  Chained(s \o t)
<1> DEFINE u == s \o t
<1>1. /\ Len(u) = Len(s) + Len(t)
      /\ \A i \in 1 .. Len(s) : u[i] = s[i]
      /\ \A i \in 1 .. Len(t) : u[Len(s) + i] = t[i]
      /\ Len(s) \in Nat /\ Len(t) \in Nat
  BY ConcatOfRecords
<1> HIDE DEF u
<1>2. ASSUME NEW i \in 2 .. Len(u) PROVE u[i].parent = u[i - 1].leaf
  <2>1. CASE i <= Len(s)
    BY <1>1, <2>1 DEF Chained
  <2>2. CASE i = Len(s) + 1
    <3>1. s # <<>> /\ t # <<>> /\ 1 \in 1 .. Len(t) /\ Len(s) \in 1 .. Len(s)
      BY <1>1, <2>2
    <3>2. u[i] = t[1] /\ u[i - 1] = s[Len(s)]
      BY <1>1, <2>2, <3>1
    <3> QED BY <3>1, <3>2 DEF Last
  <2>3. CASE i > Len(s) + 1
    <3>1. PICK k \in 2 .. Len(t) : i = Len(s) + k
      <4>1. i - Len(s) \in 2 .. Len(t) /\ i = Len(s) + (i - Len(s))
        BY <1>1, <2>3
      <4> QED BY <4>1
    <3>2. k \in 1 .. Len(t) /\ k - 1 \in 1 .. Len(t) /\ i - 1 = Len(s) + (k - 1)
      BY <1>1, <3>1
    <3>3. u[i] = t[k] /\ u[i - 1] = t[k - 1]
      BY <1>1, <3>1, <3>2
    <3> QED BY <3>3 DEF Chained
  <2> QED BY <1>1, <2>1, <2>2, <2>3
<1> QED BY <1>2 DEF Chained, u

\* What a crash leaves of a chain is a chain.
LEMMA ChainedPrefix ==
  ASSUME NEW s \in Seq(Entry), NEW n \in 1 .. Len(s), Chained(s)
  PROVE  Chained(SubSeq(s, 1, n))
<1> DEFINE u == SubSeq(s, 1, n)
<1>1. Len(u) = n /\ \A i \in 1 .. n : u[i] = s[i]
  BY PrefixProperties
<1> HIDE DEF u
<1>2. \A i \in 2 .. n : i \in 1 .. n /\ i - 1 \in 1 .. n /\ i \in 2 .. Len(s)
  OBVIOUS
<1> QED BY <1>1, <1>2 DEF Chained, u

\* A file f that holds k records of b at its end is a chain still when it grows
\* by the next n of them, and then holds k + n.
LEMMA WriteOn ==
  ASSUME NEW f \in Seq(Entry), NEW g \in Seq(Entry), NEW b \in Seq(Entry),
         NEW k \in 0 .. Len(b), NEW n \in 0 .. Len(b) - k,
         Chained(f), Chained(b), NoDuplicateIds(b), WrittenTo(b, f, k),
         Len(g) = Len(f) + n, \A i \in 1 .. Len(f) : g[i] = f[i],
         \A i \in 1 .. n : g[Len(f) + i] = b[k + i]
  PROVE  Chained(g) /\ WrittenTo(b, g, k + n)
<1> DEFINE c == Len(f) - k
<1>0. k < Len(f)
  BY DEF WrittenTo
<1>b. /\ Len(f) \in Nat /\ Len(b) \in Nat /\ k \in Nat /\ n \in Nat /\ c \in Nat
      /\ k + n \in 0 .. Len(b) /\ c >= 1
  BY <1>0
<1>c. /\ \A i \in 1 .. k : f[c + i] = b[i]
      /\ \A i \in k + 1 .. Len(b), j \in DOMAIN f : b[i].id # f[j].id
      /\ b # <<>> => b[1].parent = f[c].leaf
  BY DEF WrittenTo
<1>1. /\ Len(f) \in Nat /\ Len(b) \in Nat /\ k \in Nat /\ n \in Nat /\ c \in Nat
      /\ k + n \in 0 .. Len(b) /\ k < Len(f) /\ c >= 1
      /\ \A i \in 1 .. k : f[c + i] = b[i]
      /\ \A i \in k + 1 .. Len(b), j \in DOMAIN f : b[i].id # f[j].id
      /\ b # <<>> => b[1].parent = f[c].leaf
  BY <1>0, <1>b, <1>c
<1>a. /\ Len(f) \in Nat /\ k \in Nat /\ n \in Nat /\ c \in Nat
      /\ Len(f) = c + k /\ Len(g) = c + k + n /\ 1 <= c
  BY <1>1
<1> HIDE DEF c
<1>2. \A i \in 1 .. k + n : g[c + i] = b[i]
  <2> SUFFICES ASSUME NEW i \in 1 .. k + n PROVE g[c + i] = b[i]
    OBVIOUS
  <2>1. CASE i <= k
    <3>1. c + i \in 1 .. Len(f) /\ i \in 1 .. k
      BY <1>a, <2>1
    <3> QED BY <1>1, <3>1
  <2>2. CASE i > k
    <3>1. i - k \in 1 .. n /\ c + i = Len(f) + (i - k) /\ i = k + (i - k)
      BY <1>a, <2>2
    <3>2. g[Len(f) + (i - k)] = b[k + (i - k)]
      BY <3>1
    <3> QED BY <3>1, <3>2
  <2> QED BY <1>1, <2>1, <2>2
<1>3. Chained(g)
  <2> SUFFICES ASSUME NEW i \in 2 .. Len(g) PROVE g[i].parent = g[i - 1].leaf
    BY DEF Chained
  <2>1. CASE i <= Len(f)
    <3>1. i \in 1 .. Len(f) /\ i - 1 \in 1 .. Len(f) /\ i \in 2 .. Len(f)
      BY <1>1, <2>1
    <3> QED BY <3>1 DEF Chained
  <2>2. CASE i > Len(f)
    <3>1. PICK j \in 1 .. k + n : i = c + j /\ k < j
      <4>1. i - c \in 1 .. k + n /\ i = c + (i - c) /\ k < i - c
        BY <1>a, <2>2
      <4> QED BY <4>1
    <3>2. j \in 1 .. Len(b) /\ b # <<>> /\ j \in Nat
      BY <1>1, <3>1
    <3>3. g[i] = b[j]
      BY <1>2, <3>1
    <3>4. CASE j = 1
      <4>1. i - 1 = c /\ c \in 1 .. Len(f)
        BY <1>a, <3>1, <3>4
      <4>2. g[i - 1] = f[c]
        BY <4>1
      <4> QED BY <1>1, <3>2, <3>3, <3>4, <4>2
    <3>5. CASE j # 1
      <4>1. j - 1 \in 1 .. k + n /\ i - 1 = c + (j - 1) /\ j \in 2 .. Len(b)
        BY <1>a, <3>1, <3>2, <3>5
      <4>2. g[i - 1] = b[j - 1]
        BY <1>2, <4>1
      <4> QED BY <3>3, <4>1, <4>2 DEF Chained
    <3> QED BY <3>4, <3>5
  <2> QED BY <1>1, <2>1, <2>2
<1>4. ASSUME NEW i \in k + n + 1 .. Len(b), NEW j \in DOMAIN g
      PROVE  b[i].id # g[j].id
  <2>1. i \in k + 1 .. Len(b) /\ i \in DOMAIN b /\ j \in 1 .. Len(f) + n
    BY <1>1
  <2>2. CASE j \in 1 .. Len(f)
    <3>1. g[j] = f[j] /\ j \in DOMAIN f
      BY <2>2
    <3> QED BY <1>1, <2>1, <3>1
  <2>3. CASE ~ (j \in 1 .. Len(f))
    <3>1. PICK m \in 1 .. k + n : j = c + m
      <4>1. j - c \in 1 .. k + n /\ j = c + (j - c)
        <5>1. j \in Int /\ Len(f) < j /\ j <= Len(f) + n
          BY <1>a, <2>1, <2>3
        <5> QED BY <1>a, <5>1
      <4> QED BY <4>1
    <3>2. g[j] = b[m]
      BY <1>2, <3>1
    <3>3. m \in DOMAIN b /\ m # i
      <4>1. k + n <= Len(b) /\ Len(b) \in Nat
        BY <1>1
      <4> QED BY <1>a, <4>1, <2>1, <3>1
    <3> QED BY <2>1, <3>2, <3>3 DEF NoDuplicateIds
  <2> QED BY <2>2, <2>3
<1>5. /\ k + n < Len(g) /\ Len(g) - (k + n) = c /\ c \in 1 .. Len(f)
  BY <1>1, <1>a
<1>6. g[c] = f[c]
  BY <1>5
<1> QED BY <1>1, <1>2, <1>3, <1>4, <1>5, <1>6 DEF WrittenTo

\* What reconcile_entries finds of such a batch is exactly what was written.
LEMMA MatchedWritten ==
  ASSUME file \in Seq(Entry), NEW b \in Seq(Entry), NEW m \in 0 .. Len(b),
         NEW k \in 0 .. Len(b), Matched(b, m), WrittenTo(b, file, k)
  PROVE  m = k
<1>1. /\ Len(file) \in Nat /\ Len(b) \in Nat /\ k \in Nat /\ m \in Nat
  OBVIOUS
<1>2. ASSUME m < k PROVE FALSE
  <2>1. k \in m + 1 .. Len(b) /\ k > 0
    BY <1>1, <1>2
  <2>2. Len(file) - k + 1 \in DOMAIN file /\ (Len(file) - k + 1) + k - 1 <= Len(file)
    BY <1>1, <2>1 DEF WrittenTo
  <2>3. \A i \in 1 .. k : file[(Len(file) - k + 1) + i - 1] = b[i]
    <3> SUFFICES ASSUME NEW i \in 1 .. k
                 PROVE  file[(Len(file) - k + 1) + i - 1] = b[i]
      OBVIOUS
    <3>1. (Len(file) - k + 1) + i - 1 = Len(file) - k + i
      BY <1>1
    <3> QED BY <3>1 DEF WrittenTo
  <2>4. Matches(b, k)
    BY <2>2, <2>3 DEF Matches
  <2> QED BY <2>1, <2>4 DEF Matched
<1>3. ASSUME k < m PROVE FALSE
  <2>1. Matches(b, m)
    BY <1>1, <1>3 DEF Matched
  <2>2. PICK start \in DOMAIN file :
          /\ start + m - 1 <= Len(file)
          /\ \A i \in 1 .. m : file[start + i - 1] = b[i]
    BY <2>1 DEF Matches
  <2>3. m \in 1 .. m /\ start + m - 1 \in DOMAIN file /\ m \in k + 1 .. Len(b)
    BY <1>1, <1>3, <2>2
  <2>4. file[start + m - 1] = b[m]
    BY <2>2, <2>3
  <2> QED BY <2>3, <2>4 DEF WrittenTo
<1> QED BY <1>1, <1>2, <1>3

\* Nothing of the batch is in the file: it continues the end of the file.
LEMMA WrittenNone ==
  ASSUME DiskOK, NEW b \in Seq(Entry), Disjoint(b, file),
         b # <<>> => b[1].parent = Last(file).leaf
  PROVE  WrittenTo(b, file, 0)
<1>1. file \in Seq(Entry) /\ 0 < Len(file) /\ Len(file) - 0 = Len(file) /\ Len(b) \in Nat
  BY DEF DiskOK
<1>2. \A i \in 1 .. Len(b), j \in DOMAIN file : b[i].id # file[j].id
  BY DEF Disjoint, Ids
<1> QED BY <1>1, <1>2 DEF WrittenTo, Last

\* A write of what is missing of the batch, all of it or some.
LEMMA WriteChained ==
  ASSUME DiskOK, tail = "clean", Chained(file), NEW b \in Seq(Entry), Chained(b),
         NoDuplicateIds(b), NEW k \in 0 .. Len(b), WrittenTo(b, file, k),
         NEW s, s = SubSeq(b, k + 1, Len(b)), WriteAll(s) \/ WriteFails(s)
  PROVE  /\ file' \in Seq(Entry) /\ Chained(file')
         /\ \E n \in 0 .. Len(b) : WrittenTo(b, file', n)
         /\ WriteAll(s) => WrittenTo(b, file', Len(b))
<1>1. file \in Seq(Entry) /\ Len(b) \in Nat /\ k \in Nat
  BY DEF DiskOK
<1>2. /\ s \in Seq(Entry) /\ Len(s) = Len(b) - k
      /\ \A i \in 1 .. Len(b) - k : s[i] = b[k + i]
  <2>1. k + 1 \in 1 .. Len(b) + 1 /\ Len(b) \in 0 .. Len(b) /\ k + 1 <= Len(b) + 1
        /\ Len(b) - (k + 1) + 1 = Len(b) - k
    BY <1>1
  <2>2. \A i \in 1 .. Len(b) - k : (k + 1) + i - 1 = k + i
    BY <1>1
  <2> DEFINE u == SubSeq(b, k + 1, Len(b))
  <2>3. /\ u \in Seq(Entry) /\ Len(u) = Len(b) - (k + 1) + 1
        /\ \A i \in 1 .. Len(b) - (k + 1) + 1 : u[i] = b[(k + 1) + i - 1]
    BY <2>1, PartOfRecords
  <2> HIDE DEF u
  <2>4. s = u
    BY DEF u
  <2> QED BY <2>1, <2>2, <2>3, <2>4
<1>3. PICK n \in 0 .. Len(s) :
        file' = file \o SubSeq(s, 1, n) /\ (WriteAll(s) => n = Len(s))
  <2>1. CASE WriteAll(s)
    <3>1. SubSeq(s, 1, Len(s)) = s /\ Len(s) \in 0 .. Len(s)
      BY <1>2
    <3>2. file' = file \o SubSeq(s, 1, Len(s))
      BY <2>1, <3>1 DEF WriteAll
    <3> QED BY <3>1, <3>2
  <2>2. CASE ~ WriteAll(s)
    BY <2>2 DEF WriteFails
  <2> QED BY <2>1, <2>2
<1> DEFINE u == SubSeq(s, 1, n)
<1>4. u \in Seq(Entry) /\ Len(u) = n /\ \A i \in 1 .. n : u[i] = s[i]
  <2>1. 1 \in 1 .. Len(s) + 1 /\ 1 <= n + 1 /\ n - 1 + 1 = n
        /\ \A i \in 1 .. n : 1 + i - 1 = i
    BY <1>2
  <2> QED BY <1>2, <2>1, PartOfRecords
<1> HIDE DEF u
<1>5. /\ file' \in Seq(Entry) /\ Len(file') = Len(file) + n
      /\ \A i \in 1 .. Len(file) : file'[i] = file[i]
      /\ \A i \in 1 .. n : file'[Len(file) + i] = b[k + i]
  <2>1. file' = file \o u
    BY <1>3 DEF u
  <2>2. \A i \in 1 .. n : i \in 1 .. Len(b) - k
    BY <1>1, <1>2
  <2>3. \A i \in 1 .. n : u[i] = b[k + i]
    BY <1>2, <1>4, <2>2
  <2>4. /\ file' \in Seq(Entry) /\ Len(file') = Len(file) + Len(u)
        /\ \A i \in 1 .. Len(file) : file'[i] = file[i]
        /\ \A i \in 1 .. Len(u) : file'[Len(file) + i] = u[i]
    BY <1>1, <1>4, <2>1, ConcatOfRecords
  <2> QED BY <1>4, <2>3, <2>4
<1>6. n \in 0 .. Len(b) - k /\ k + n \in 0 .. Len(b)
      /\ (WriteAll(s) => k + n = Len(b))
  BY <1>1, <1>2, <1>3
<1>7. Chained(file') /\ WrittenTo(b, file', k + n)
  BY <1>1, <1>5, <1>6, WriteOn
<1> QED BY <1>5, <1>6, <1>7

\* A batch that is in the file as a whole is its end.
LEMMA WrittenWhole ==
  ASSUME file \in Seq(Entry), NEW b \in Seq(Entry), b # <<>>,
         WrittenTo(b, file, Len(b))
  PROVE  Last(file) = Last(b)
<1>1. /\ Len(b) \in 1 .. Len(b) /\ Len(file) \in Nat
      /\ Len(file) - Len(b) + Len(b) = Len(file)
  OBVIOUS
<1> QED BY <1>1 DEF WrittenTo, Last

\* What the owner asks to be written continues what waits.
LEMMA BatchChained ==
  ASSUME nextId \in Nat
  PROVE  /\ \A n \in Nat : /\ Chained(MessageBatch(n))
                           /\ MessageBatch(n) # <<>> => MessageBatch(n)[1].parent = TailLeaf
         /\ \A t \in Id : Chained(LeafBatch(t)) /\ LeafBatch(t)[1].parent = TailLeaf
<1>1. ASSUME NEW n \in Nat
      PROVE  /\ Chained(MessageBatch(n))
             /\ MessageBatch(n) # <<>> => MessageBatch(n)[1].parent = TailLeaf
  <2> DEFINE b == MessageBatch(n)
  <2>1. /\ Len(b) = n
        /\ \A k \in 1 .. n : /\ b[k].parent = IF k = 1 THEN TailLeaf ELSE nextId + k - 2
                             /\ b[k].leaf = nextId + k - 1
    BY DEF MessageBatch
  <2>2. b # <<>> => 1 \in 1 .. n
    BY <2>1 DEF MessageBatch
  <2> HIDE DEF b
  <2>3. ASSUME NEW i \in 2 .. n PROVE b[i].parent = b[i - 1].leaf
    <3>1. i \in 1 .. n /\ i - 1 \in 1 .. n /\ i # 1 /\ nextId + i - 2 = nextId + (i - 1) - 1
      OBVIOUS
    <3> QED BY <2>1, <3>1
  <2>4. Chained(b) /\ (b # <<>> => b[1].parent = TailLeaf)
    BY <2>1, <2>2, <2>3 DEF Chained
  <2> QED BY <2>4 DEF b
<1>2. ASSUME NEW t \in Id
      PROVE  Chained(LeafBatch(t)) /\ LeafBatch(t)[1].parent = TailLeaf
  BY DEF Chained, LeafBatch
<1> QED BY <1>1, <1>2

\* A batch just asked for.
LEMMA ChainBegin ==
  ASSUME Inv, ChainInv, NEW o, NEW b \in Seq(Entry), Chained(b),
         b # <<>> => b[1].parent = TailLeaf, pc = "recv", Begin(o, b)
  PROVE  ChainInv'
<1>1. UNCHANGED <<file, leaf, pending, foreign>> /\ prepared' = b /\ pc' = "persist"
  BY DEF Begin, disk, memory
<1>2. TailLeaf' = TailLeaf
  BY <1>1 DEF TailLeaf
<1> QED BY <1>1, <1>2 DEF ChainInv

\* Nothing but the worker's stage changes, or the batch that is prepared ends.
LEMMA ChainKept ==
  ASSUME ChainInv, UNCHANGED <<file, pending, foreign>>,
         leaf' = leaf \/ pending # <<>>,
         prepared' \in {prepared, <<>>},
         pc' \notin {"rewrite", "resync", "sync"}, pc # "sync" \/ leaf = Last(file).leaf,
         pc = "sync" => prepared' = <<>>,
         pc # "closed" \/ pc' = "closed"
  PROVE  ChainInv'
<1>1. TailLeaf' = TailLeaf
  BY DEF TailLeaf
<1>2. Chained(<<>>)
  BY DEF Chained
<1> QED BY <1>1, <1>2 DEF ChainInv

\* No failure, retry or crash forks the file.
LEMMA ChainStep ==
  Inv /\ ReportInv /\ GroundInv /\ ChainInv /\ [Next]_vars => ChainInv'
<1> SUFFICES ASSUME Inv, ReportInv, GroundInv, ChainInv, [Next]_vars, foreign' = 0
             PROVE  ChainInv'
  BY DEF ChainInv
<1>1. /\ TypeOK /\ DiskOK /\ MemoryOK /\ CleanInv /\ FreshInv /\ nextId \in Nat /\ foreign \in Nat
      /\ file \in Seq(Entry) /\ pending \in Seq(Entry) /\ file # <<>>
      /\ prepared \in Seq(Entry) /\ missing \in Seq(Entry)
      /\ NoDuplicateIds(pending) /\ NoDuplicateIds(prepared)
      /\ pc # "sync" => Disjoint(prepared, file)
  BY DEF Inv, TypeOK, DiskOK, MemoryOK, WorkOK, FreshInv
<1>2. foreign = 0
  <2>1. CASE ForeignAppend
    BY <1>1, <2>1 DEF ForeignAppend
  <2>2. CASE Owner
    BY <2>2 DEF Owner, AppendBatch, SetLeaf, SetLeafRefused, Flush, Drop, Begin, Abandon,
                Abort
  <2>3. CASE Worker
    <3>1. CASE NothingPending \/ Reconcile \/ ReconcileFails \/ Rewrite \/ RewriteFails
      BY <3>1 DEF NothingPending, Reconcile, ReconcileFails, Rewrite, RewriteFails
    <3>2. CASE Resync \/ ResyncFails \/ PersistFailed \/ Write \/ WriteNothing
      BY <3>2 DEF Resync, ResyncFails, PersistFailed, Write, WriteNothing
    <3>3. CASE WriteFailed \/ Sync \/ SyncFailed \/ FlushFile \/ Exit
      BY <3>3 DEF WriteFailed, Sync, SyncFailed, FlushFile, Exit
    <3> QED BY <2>3, <3>1, <3>2, <3>3 DEF Worker
  <2>4. CASE Crash \/ Open \/ OpenFails \/ UNCHANGED vars
    BY <2>4 DEF Crash, Open, OpenFails, vars
  <2> QED BY <2>1, <2>2, <2>3, <2>4 DEF Next
<1>3. /\ Chained(file) /\ Chained(pending) /\ Chained(prepared)
      /\ pending # <<>> => \E k \in 0 .. Len(pending) : WrittenTo(pending, file, k)
      /\ pending = <<>> /\ pc \notin {"sync", "closed"} => leaf = Last(file).leaf
      /\ prepared # <<>> /\ pc # "sync" => prepared[1].parent = TailLeaf
      /\ pc = "rewrite" =>
           /\ \E k \in 0 .. Len(pending) :
                WrittenTo(pending, file, k) /\ missing = Suffix(pending, k)
           /\ leaf = Last(file).leaf
      /\ pc = "resync" =>
           /\ WrittenTo(pending, file, Len(pending))
           /\ IF missing = <<>> THEN leaf = Last(file).leaf ELSE Last(missing) = Last(file)
      /\ pc = "sync" => WrittenTo(prepared, file, Len(prepared))
  BY <1>2 DEF ChainInv
<1>0. Chained(<<>>) /\ <<>> \in Seq(Entry)
  BY DEF Chained
<1>4. CASE \E n \in 0 .. MaxBatch : AppendBatch(n)
  <2>1. PICK n \in 0 .. MaxBatch : pc = "recv" /\ Begin("append", MessageBatch(n))
    BY <1>4 DEF AppendBatch
  <2>2. n \in Nat
    OBVIOUS
  <2> QED BY <1>1, <2>1, <2>2, BatchTypes, BatchChained, ChainBegin
<1>5. CASE \E t \in 0 .. nextId - 1 : SetLeaf(t)
  <2>1. PICK t \in 0 .. nextId - 1 : pc = "recv" /\ Begin("append", LeafBatch(t))
    BY <1>5 DEF SetLeaf
  <2>2. t \in Id
    BY <1>1 DEF Id
  <2> QED BY <1>1, <2>1, <2>2, BatchTypes, BatchChained, ChainBegin
<1>6. CASE Flush \/ \E o \in {"shutdown", "disconnect"} : Drop(o)
  <2>1. PICK o : pc = "recv" /\ Begin(o, <<>>)
    BY <1>6 DEF Flush, Drop
  <2> QED BY <1>0, <2>1, ChainBegin
<1>7. CASE \/ \E t \in 0 .. nextId - 1 : SetLeafRefused(t)
           \/ Abandon \/ OpenFails \/ UNCHANGED vars
  <2>1. UNCHANGED <<file, leaf, pending, prepared, missing, pc, foreign>>
    BY <1>7
    DEF SetLeafRefused, Abandon, OpenFails, OpenFileFails, vars, disk, memory, work
  <2> QED BY <2>1 DEF ChainInv, TailLeaf
<1>8. CASE Abort
  <2>1. /\ pc = "recv" /\ pc' = "closed" /\ pending' = <<>> /\ prepared = <<>>
        /\ UNCHANGED <<file, prepared>>
    BY <1>8 DEF Abort, disk, work, GroundInv
  <2> QED BY <1>0, <1>3, <2>1 DEF ChainInv
<1>9. CASE NothingPending
  <2>1. /\ pc = "persist" /\ pc' \in {"write", "exit", "flush"}
        /\ UNCHANGED <<file, leaf, pending, prepared, foreign>>
    BY <1>9 DEF NothingPending, AfterPersist, disk, work
  <2> QED BY <2>1, ChainKept
<1>10. CASE Reconcile
  <2>1. PICK m \in 0 .. Len(pending) :
          /\ Matched(pending, m) /\ missing' = Suffix(pending, m)
          /\ pc' \in {"failed", "rewrite"}
    BY <1>10 DEF Reconcile
  <2>2. /\ file' = file /\ leaf' = Last(file).leaf /\ pending # <<>> /\ pc = "persist"
        /\ UNCHANGED <<pending, prepared, foreign>>
    BY <1>10 DEF Reconcile, OpenFile
  <2>3. PICK k \in 0 .. Len(pending) : WrittenTo(pending, file, k)
    BY <1>3, <2>2
  <2>4. m = k
    BY <1>1, <2>1, <2>3, MatchedWritten
  <2>5. missing' = Suffix(pending', k) /\ WrittenTo(pending', file', k)
    BY <2>1, <2>2, <2>3, <2>4 DEF Suffix
  <2>6. TailLeaf' = TailLeaf
    BY <2>2 DEF TailLeaf
  <2>7. \E n \in 0 .. Len(pending') :
          WrittenTo(pending', file', n) /\ missing' = Suffix(pending', n)
    BY <2>2, <2>5
  <2>8. /\ Chained(file') /\ Chained(pending') /\ Chained(prepared')
        /\ leaf' = Last(file').leaf
        /\ prepared' # <<>> => prepared'[1].parent = TailLeaf'
        /\ pc' \notin {"resync", "sync"}
    BY <1>3, <2>1, <2>2, <2>6
  <2> QED BY <2>7, <2>8 DEF ChainInv, Suffix
<1>11. CASE ReconcileFails
  <2>1. /\ UNCHANGED <<file, leaf, pending, prepared, foreign>>
        /\ pc = "persist" /\ pc' = "failed"
    BY <1>11 DEF ReconcileFails, OpenFileFails, memory, work
  <2> QED BY <2>1, ChainKept
<1>12. CASE Rewrite \/ RewriteFails
  <2>1. /\ pc = "rewrite" /\ tail = "clean" /\ pending # <<>>
        /\ UNCHANGED <<leaf, pending, prepared, missing>>
        /\ pc' \in {"resync", "failed"}
    BY <1>1, <1>12 DEF Rewrite, RewriteFails, CleanInv, memory, work
  <2>2. PICK k \in 0 .. Len(pending) :
          WrittenTo(pending, file, k) /\ missing = SubSeq(pending, k + 1, Len(pending))
    BY <1>3, <2>1 DEF Suffix
  <2>3. TailLeaf' = TailLeaf
    BY <2>1 DEF TailLeaf
  <2>4. /\ Chained(file')
        /\ \E n \in 0 .. Len(pending) : WrittenTo(pending, file', n)
        /\ pc' = "resync" =>
             /\ WrittenTo(pending, file', Len(pending))
             /\ IF missing = <<>> THEN leaf = Last(file').leaf
                ELSE Last(missing) = Last(file')
    <3>1. CASE missing = <<>>
      <4>1. file' = file
        BY <1>12, <3>1 DEF Rewrite, RewriteFails
      <4>2. k = Len(pending)
        <5>1. /\ k + 1 \in 1 .. Len(pending) + 1 /\ Len(pending) \in 0 .. Len(pending)
              /\ k + 1 <= Len(pending) + 1
          BY <1>1
        <5>2. Len(missing) = Len(pending) - (k + 1) + 1
          BY <1>1, <2>2, <5>1, PartOfRecords
        <5> QED BY <1>1, <3>1, <5>2
      <4> QED BY <1>3, <2>1, <2>2, <3>1, <4>1, <4>2
    <3>2. CASE missing # <<>>
      <4>1. /\ WriteAll(missing) \/ WriteFails(missing)
            /\ pc' = "resync" => WriteAll(missing)
        BY <1>12, <3>2 DEF Rewrite, RewriteFails
      <4>2. /\ file' \in Seq(Entry) /\ Chained(file')
            /\ \E n \in 0 .. Len(pending) : WrittenTo(pending, file', n)
            /\ WriteAll(missing) => WrittenTo(pending, file', Len(pending))
        BY <1>1, <1>3, <2>1, <2>2, <4>1, WriteChained
      <4>3. WriteAll(missing) => Last(file') = Last(missing)
        <5> SUFFICES ASSUME WriteAll(missing) PROVE Last(file') = Last(missing)
          OBVIOUS
        <5>1. file' = file \o missing
          BY <2>1 DEF WriteAll
        <5>2. Len(missing) \in 1 .. Len(missing)
          BY <1>1, <3>2
        <5> QED BY <1>1, <5>1, <5>2, ConcatOfRecords DEF Last
      <4> QED BY <3>2, <4>1, <4>2, <4>3
    <3> QED BY <3>1, <3>2
  <2> QED BY <1>3, <2>1, <2>3, <2>4 DEF ChainInv
<1>13. CASE Resync \/ ResyncFails
  <2>1. /\ pc = "resync" /\ UNCHANGED <<file, prepared, foreign>> /\ pending # <<>>
        /\ \/ /\ pending' = <<>> /\ pc' \in {"write", "exit", "flush"}
              /\ Committed(missing)
           \/ pending' = pending /\ pc' = "failed"
    BY <1>1, <1>13 DEF Resync, ResyncFails, AfterPersist, CleanInv, work
  <2>2. Last(pending) = Last(file)
    BY <1>1, <1>3, <2>1, WrittenWhole
  <2>3. Committed(missing) => leaf' = Last(file).leaf
    BY <1>3, <2>1 DEF Committed
  <2>4. pending' = <<>> => TailLeaf' = TailLeaf
    BY <2>1, <2>2, <2>3 DEF TailLeaf
  <2>5. CASE pending' = <<>>
    BY <1>0, <1>3, <2>1, <2>3, <2>4, <2>5 DEF ChainInv
  <2>6. CASE pending' # <<>>
    <3>1. TailLeaf' = TailLeaf /\ pending' = pending /\ pc' = "failed"
      BY <2>1, <2>6 DEF TailLeaf
    <3> QED BY <1>3, <2>1, <3>1 DEF ChainInv
  <2> QED BY <2>5, <2>6
<1>14. CASE PersistFailed
  <2>1. /\ pc = "failed" /\ pc' \in {"recv", "closed"} /\ pending' = pending \o prepared
        /\ prepared' = <<>> /\ UNCHANGED <<file, leaf>> /\ pending # <<>>
    BY <1>1, <1>14 DEF PersistFailed, Answer, Idle, disk, CleanInv
  <2>2. prepared # <<>> => prepared[1].parent = Last(pending).leaf
    BY <1>3, <2>1 DEF TailLeaf
  <2>3. Chained(pending')
    BY <1>1, <1>3, <2>1, <2>2, ChainedConcat
  <2>4. PICK k \in 0 .. Len(pending) : WrittenTo(pending, file, k)
    BY <1>3, <2>1
  <2>5. /\ pending' \in Seq(Entry) /\ Len(pending') = Len(pending) + Len(prepared)
        /\ \A i \in 1 .. Len(pending) : pending'[i] = pending[i]
        /\ \A i \in 1 .. Len(prepared) : pending'[Len(pending) + i] = prepared[i]
        /\ 1 \in 1 .. Len(pending)
    BY <1>1, <2>1, ConcatOfRecords
  <2>6. \A i \in k + 1 .. Len(pending'), j \in DOMAIN file : pending'[i].id # file[j].id
    <3> SUFFICES ASSUME NEW i \in k + 1 .. Len(pending'), NEW j \in DOMAIN file
                 PROVE  pending'[i].id # file[j].id
      OBVIOUS
    <3>1. CASE i <= Len(pending)
      <4>1. i \in k + 1 .. Len(pending) /\ i \in 1 .. Len(pending)
        BY <3>1
      <4> QED BY <2>4, <2>5, <4>1 DEF WrittenTo
    <3>2. CASE ~ (i <= Len(pending))
      <4>1. i - Len(pending) \in 1 .. Len(prepared) /\ i = Len(pending) + (i - Len(pending))
        BY <2>5, <3>2
      <4>2. PICK n \in 1 .. Len(prepared) : i = Len(pending) + n
        BY <4>1
      <4>3. pending'[i] = prepared[n]
        BY <2>5, <4>2
      <4>4. Disjoint(prepared, file)
        BY <1>1, <2>1
      <4> QED BY <4>3, <4>4 DEF Disjoint, Ids
    <3> QED BY <3>1, <3>2
  <2>7. WrittenTo(pending', file, k) /\ k \in 0 .. Len(pending')
    <3>1. \A i \in 1 .. k : i \in 1 .. Len(pending)
      OBVIOUS
    <3>2. Len(pending) \in Nat /\ Len(prepared) \in Nat
      BY <1>1
    <3>3. k \in 0 .. Len(pending')
      BY <2>5, <3>2
    <3> QED BY <2>1, <2>4, <2>5, <2>6, <3>1, <3>3 DEF WrittenTo
  <2>8. pending' # <<>>
    BY <1>1, <2>1
  <2> QED BY <1>0, <1>3, <2>1, <2>3, <2>7, <2>8 DEF ChainInv
<1>15. CASE Write \/ WriteFailed
  <2>1. /\ pc = "write" /\ tail = "clean" /\ pending = <<>> /\ prepared # <<>>
        /\ \/ pc' = "sync" /\ UNCHANGED <<pending, prepared>> /\ WriteAll(prepared)
           \/ /\ pc' \in {"recv", "closed"} /\ pending' = prepared /\ prepared' = <<>>
              /\ WriteFails(prepared)
    BY <1>1, <1>15
    DEF Write, WriteFailed, KeepPrepared, Answer, Idle, CleanInv, memory, work
  <2>2. WrittenTo(prepared, file, 0)
    BY <1>1, <1>3, <2>1, WrittenNone DEF TailLeaf
  <2>3. prepared = SubSeq(prepared, 0 + 1, Len(prepared)) /\ 0 \in 0 .. Len(prepared)
    BY <1>1
  <2>4. /\ Chained(file')
        /\ \E n \in 0 .. Len(prepared) : WrittenTo(prepared, file', n)
        /\ WriteAll(prepared) => WrittenTo(prepared, file', Len(prepared))
    BY <1>1, <1>3, <2>1, <2>2, <2>3, WriteChained
  <2> QED BY <1>0, <1>3, <2>1, <2>4 DEF ChainInv
<1>16. CASE WriteNothing \/ FlushFile \/ Exit
  <2>1. /\ UNCHANGED <<file, leaf, pending, foreign>> /\ prepared' = <<>>
        /\ pc \in {"write", "flush", "exit"} /\ pc' \in {"recv", "closed"}
    BY <1>16 DEF WriteNothing, FlushFile, Exit, Answer, Idle, disk, memory
  <2> QED BY <2>1, ChainKept
<1>17. CASE Sync \/ SyncFailed
  <2>1. /\ pc = "sync" /\ pending = <<>> /\ UNCHANGED file
        /\ prepared' = <<>> /\ pc' \in {"recv", "closed"}
        /\ \/ pending' = prepared
           \/ pending' = <<>> /\ Committed(prepared)
    BY <1>1, <1>17
    DEF Sync, SyncFailed, KeepPrepared, Answer, Idle, CleanInv, disk
  <2>2. WrittenTo(prepared, file, Len(prepared)) /\ Len(prepared) \in 0 .. Len(prepared)
    BY <1>1, <1>3, <2>1
  <2>3. CASE pending' = prepared /\ prepared # <<>>
    BY <1>0, <1>3, <2>1, <2>2, <2>3 DEF ChainInv
  <2>4. CASE pending' = <<>> /\ prepared # <<>>
    <3>1. leaf' = Last(prepared).leaf /\ Last(file) = Last(prepared)
      BY <1>1, <2>1, <2>2, <2>4, WrittenWhole DEF Committed
    <3> QED BY <1>0, <1>3, <2>1, <2>4, <3>1 DEF ChainInv
  <2>5. prepared # <<>>
    BY <2>1 DEF ReportInv
  <2> QED BY <2>1, <2>3, <2>4, <2>5
<1>18. CASE Crash
  <2>1. PICK n \in synced .. Len(file) : file' = SubSeq(file, 1, n)
    BY <1>18 DEF Crash
  <2>2. pc' = "closed" /\ pending' = <<>> /\ prepared' = <<>>
    BY <1>18 DEF Crash, Idle
  <2>3. n \in 1 .. Len(file)
    BY <1>1 DEF DiskOK
  <2>4. Chained(file')
    BY <1>1, <1>3, <2>1, <2>3, ChainedPrefix
  <2> QED BY <1>0, <2>2, <2>4 DEF ChainInv
<1>19. CASE Open
  <2>1. /\ pc = "closed" /\ pc' = "recv" /\ file' = file
        /\ leaf' = Last(file).leaf /\ pending' = <<>>
        /\ prepared' = prepared /\ prepared = <<>>
    BY <1>19 DEF Open, OpenFile, work, GroundInv
  <2> QED BY <1>0, <1>3, <2>1 DEF ChainInv
<1>20. CASE ForeignAppend
  BY <1>1, <1>2, <1>20 DEF ForeignAppend
<1> QED
  BY <1>4, <1>5, <1>6, <1>7, <1>8, <1>9, <1>10, <1>11, <1>12, <1>13, <1>14,
     <1>15, <1>16, <1>17, <1>18, <1>19, <1>20
  DEF Next, Owner, Worker

\* It holds for a recorder just created.
LEMMA ChainInit == Init => ChainInv
<1> SUFFICES ASSUME Init PROVE ChainInv
  OBVIOUS
<1>1. file = <<Header>> /\ Last(file) = Header /\ Header.leaf = 0
  BY DEF Init, Header, Last
<1>2. Chained(file) /\ Chained(<<>>)
  BY <1>1 DEF Chained
<1> QED BY <1>1, <1>2 DEF Init, ChainInv

\* As long as nobody else writes to it the file is one chain: a batch that
\* failed, was retried, was queued behind another or was cut by a crash never
\* forks the history.
THEOREM RecorderNeverForks == Spec => []OneChain
<1>1. ChainInv => OneChain
  BY DEF ChainInv, Chained, OneChain
<1>2. Init => ReportInv
  BY DEF Init, ReportInv, PendingReported
<1> QED
  BY RecorderInvariant, <1>2, ReportStep, GroundInit, GroundStep, ChainInit, ChainStep,
     <1>1, PTL DEF Spec
=============================================================================
