---------------------------- MODULE JsonlRecorder ---------------------------
(***************************************************************************)
(* The durable recorder of one session: session/recorder.rs over           *)
(* session/jsonl.rs.  One worker owns the JSONL file.  Its owner (a handle *)
(* of the local store, one call at a time) asks it to append a batch, move *)
(* the leaf, flush or stop, and blocks for the answer.  A batch whose      *)
(* write or sync failed stays in memory, exactly as prepared, and is       *)
(* reconciled with the reopened file before anything else is written.      *)
(*                                                                         *)
(* The file is modelled record by record: `file` holds the complete        *)
(* records the kernel shows, of which the first `synced` are on stable     *)
(* storage, and `tail` says how the bytes end.  A crash keeps any prefix   *)
(* that contains the synced records.                                       *)
(***************************************************************************)
EXTENDS Integers, Sequences

CONSTANTS
  MaxEntries,   \* bound on the record identities this process hands out
  MaxBatch,     \* bound on the records of one append
  MaxCrashes,   \* bound on crashes
  MaxForeign    \* bound on records another program appends to the file

ASSUME BoundsAssumption ==
  /\ MaxEntries \in Nat
  /\ MaxBatch \in Nat
  /\ MaxCrashes \in Nat
  /\ MaxForeign \in Nat

VARIABLES
  file,         \* complete records visible in the file
  tail,         \* "clean": ends with a newline; "bare": the last record has
                \* no newline; "torn": a fragment follows the last record;
                \* "corrupt": two records were glued into one line
  synced,       \* how many records of file are on stable storage
  known,        \* JsonlWriter.validation: identities the writer knows
  leaf,         \* JsonlWriter.leaf: parent of the next record
  pending,      \* run_worker's exact batch that is not yet durable
  pendingFlag,  \* the atomic has_pending() reads
  persist,      \* persist_on_disconnect
  pc,           \* where the worker is
  op,           \* the command it works on
  prepared,     \* the batch prepared for the current append
  recovered,    \* what persist_pending made durable in this command
  missing,      \* the suffix reconcile_entries decided to write
  result,       \* what the last command answered
  nextId,       \* next fresh record identity (EntryId::new)
  acked,        \* identities the owner was told are written
  crashes, foreign

disk   == <<file, tail, synced>>
memory == <<known, leaf, pending, pendingFlag, persist>>
work   == <<op, prepared, recovered, missing>>
vars   == <<disk, memory, work, pc, result, nextId, acked, crashes, foreign>>

Tails == {"clean", "bare", "torn", "corrupt"}

(***************************************************************************)
(* A record: its identity, its parent, and the leaf after it, which is     *)
(* the record itself unless it is a Leaf fact that names a target.         *)
(* Foreign records have negative identities.                               *)
(***************************************************************************)
Id    == Int
Entry == [id : Id, parent : Id, leaf : Id]

Header == [id |-> 0, parent |-> 0, leaf |-> 0]

Ids(s) == {s[i].id : i \in DOMAIN s}

Last(s) == s[Len(s)]

NoDuplicateIds(s) == \A i, j \in DOMAIN s : s[i].id = s[j].id => i = j

ParentsPrecede(s) ==
  \A i \in DOMAIN s \ {1} :
    \E j \in 1 .. i - 1 : s[j].id = s[i].parent

\* JsonlLoader::load accepts the file.
Loads == tail # "corrupt" /\ NoDuplicateIds(file) /\ ParentsPrecede(file)

\* Fault: the batch is prepared without looking at the pending records.
TailLeafOfWriter == leaf

(***************************************************************************)
(* Preparing a batch: it continues the chain behind the pending records.   *)
(***************************************************************************)
TailLeaf == IF pending = <<>> THEN leaf ELSE Last(pending).leaf

MessageBatch(n) ==
  [k \in 1 .. n |-> [id     |-> nextId + k - 1,
                     parent |-> IF k = 1 THEN TailLeaf ELSE nextId + k - 2,
                     leaf   |-> nextId + k - 1]]

LeafBatch(t) == <<[id |-> nextId, parent |-> TailLeaf, leaf |-> t]>>

KnownAfterPending == known \cup Ids(pending)

(***************************************************************************)
(* File operations.                                                        *)
(***************************************************************************)

\* Fault: the repair cuts one record too many.
OpenFileCutsTooMuch ==
  /\ file' = IF tail = "torn" THEN SubSeq(file, 1, Len(file) - 1) ELSE file
  /\ tail' = "clean"
  /\ UNCHANGED synced

\* JsonlWriter::open rewrites a damaged tail and syncs; a clean file is only
\* read.
OpenFile ==
  /\ file' = file
  /\ tail' = "clean"
  /\ synced' = IF tail = "clean" THEN synced ELSE Len(file)

\* It failed on the way, before or after the tail was rewritten.
OpenFileFails ==
  /\ tail' \in IF tail = "corrupt" THEN {tail} ELSE {tail, "clean"}
  /\ UNCHANGED <<file, synced>>

\* write_all of the records s: all of them ...
WriteAll(s) ==
  IF tail = "clean"
  THEN file' = file \o s /\ tail' = tail
  ELSE file' = file /\ tail' = "corrupt"

\* ... or it fails after n complete records and perhaps a fragment.
WriteFails(s) ==
  \E n \in 0 .. Len(s), t \in {"clean", "bare", "torn"} :
    /\ t = "torn"  => n < Len(s)
    /\ t = "bare"  => n > 0
    /\ t = "clean" => n < Len(s)
    /\ IF tail = "clean"
       THEN file' = file \o SubSeq(s, 1, n) /\ tail' = t
       ELSE file' = file /\ tail' = "corrupt"

(***************************************************************************)
(* reconcile_entries: what of the exact batch the file already holds, and  *)
(* whether the rest may be appended behind it.                             *)
(***************************************************************************)
\* The first m records of the batch stand in the file, one behind the other.
Matches(batch, m) ==
  \E start \in DOMAIN file :
    /\ start + m - 1 <= Len(file)
    /\ \A k \in 1 .. m : file[start + k - 1] = batch[k]

\* The longest such prefix has m records.
Matched(batch, m) ==
  /\ m = 0 \/ Matches(batch, m)
  /\ \A n \in m + 1 .. Len(batch) : ~ Matches(batch, n)

\* Fault: reconciliation writes the whole batch again.
SuffixFromStart(batch, m) == batch

Suffix(batch, m) == SubSeq(batch, m + 1, Len(batch))

Conflict(batch, m) ==
  \/ Ids(SubSeq(batch, m + 1, Len(batch))) \cap Ids(file) # {}
  \/ m \in 1 .. Len(batch) - 1 /\ batch[m] # Last(file)
-----------------------------------------------------------------------------
Init ==
  /\ file = <<Header>> /\ tail = "clean" /\ synced = 1
  /\ known = {0} /\ leaf = 0
  /\ pending = <<>> /\ pendingFlag = FALSE /\ persist = TRUE
  /\ pc = "recv" /\ op = "none"
  /\ prepared = <<>> /\ recovered = <<>> /\ missing = <<>>
  /\ result = "none" /\ nextId = 1 /\ acked = {}
  /\ crashes = 0 /\ foreign = 0

(***************************************************************************)
(* Commands.  The owner sends one and waits; the worker takes it.          *)
(***************************************************************************)
Begin(o, batch) ==
  /\ pc' = "persist" /\ op' = o
  /\ prepared' = batch /\ recovered' = <<>> /\ missing' = <<>>
  /\ result' = "none"
  /\ UNCHANGED <<disk, memory, acked, crashes, foreign>>

AppendBatch(n) ==
  /\ pc = "recv" /\ persist
  /\ nextId + n <= MaxEntries + 1
  /\ nextId' = nextId + n
  /\ Begin("append", MessageBatch(n))

SetLeaf(t) ==
  /\ pc = "recv" /\ persist
  /\ nextId <= MaxEntries
  /\ t \in KnownAfterPending
  /\ nextId' = nextId + 1
  /\ Begin("append", LeafBatch(t))

\* Validation refuses a leaf that names no known record; nothing changes.
SetLeafRefused(t) ==
  /\ pc = "recv" /\ persist
  /\ t \notin KnownAfterPending
  /\ result' = "err"
  /\ UNCHANGED <<disk, memory, work, pc, nextId, acked, crashes, foreign>>

Flush ==
  /\ pc = "recv" /\ persist
  /\ Begin("flush", <<>>)
  /\ UNCHANGED nextId

\* Fault: the worker whose channel is closed ends without a last attempt.
DropUnwritten(o) ==
  /\ pc = "recv" /\ persist
  /\ pc' = IF o = "disconnect" THEN "exit" ELSE "persist"
  /\ op' = o
  /\ prepared' = <<>> /\ recovered' = <<>> /\ missing' = <<>>
  /\ result' = "none"
  /\ UNCHANGED <<disk, memory, nextId, acked, crashes, foreign>>

\* Drop: the helper thread sends Shutdown, or, if it cannot be spawned, the
\* closed channel ends the worker's loop.
Drop(o) ==
  /\ pc = "recv" /\ persist
  /\ Begin(o, <<>>)
  /\ UNCHANGED nextId

\* abandon_pending_after_authority_loss; its callers drop the recorder next.
Abandon ==
  /\ pc = "recv" /\ persist
  /\ pending # <<>>
  /\ persist' = FALSE /\ pendingFlag' = FALSE
  /\ UNCHANGED <<disk, known, leaf, pending, work, pc, result, nextId, acked,
                 crashes, foreign>>

\* Drop after Abandon sends Abort.
Abort ==
  /\ pc = "recv" /\ ~ persist
  /\ pending' = <<>> /\ pendingFlag' = FALSE
  /\ pc' = "closed" /\ result' = "ok"
  /\ UNCHANGED <<disk, known, leaf, persist, work, nextId, acked, crashes,
                 foreign>>

(***************************************************************************)
(* The worker.                                                             *)
(***************************************************************************)
Idle ==
  /\ op' = "none"
  /\ prepared' = <<>> /\ recovered' = <<>> /\ missing' = <<>>

Answer(r) ==
  /\ result' = r
  /\ pc' = IF op \in {"shutdown", "disconnect"} THEN "closed" ELSE "recv"
  /\ Idle

AfterPersist == CASE op = "append"     -> "write"
                  [] op = "disconnect" -> "exit"
                  [] OTHER             -> "flush"

NothingPending ==
  /\ pc = "persist" /\ pending = <<>>
  /\ pendingFlag' = FALSE
  /\ pc' = AfterPersist
  /\ UNCHANGED <<disk, known, leaf, pending, persist, work, result, nextId,
                 acked, crashes, foreign>>

\* reconcile_entries reopens the file and compares.
Reconcile ==
  /\ pc = "persist" /\ pending # <<>>
  /\ Loads
  /\ OpenFile
  /\ known' = Ids(file) /\ leaf' = Last(file).leaf
  /\ \E m \in 0 .. Len(pending) :
       /\ Matched(pending, m)
       /\ missing' = Suffix(pending, m)
       /\ pc' = IF Conflict(pending, m) THEN "failed" ELSE "rewrite"
  /\ UNCHANGED <<pending, pendingFlag, persist, op, prepared, recovered,
                 result, nextId, acked, crashes, foreign>>

ReconcileFails ==
  /\ pc = "persist" /\ pending # <<>>
  /\ OpenFileFails
  /\ pc' = "failed"
  /\ UNCHANGED <<memory, work, result, nextId, acked, crashes, foreign>>

Rewrite ==
  /\ pc = "rewrite"
  /\ IF missing = <<>> THEN UNCHANGED <<file, tail>> ELSE WriteAll(missing)
  /\ pc' = "resync"
  /\ UNCHANGED <<synced, memory, work, result, nextId, acked, crashes, foreign>>

RewriteFails ==
  /\ pc = "rewrite" /\ missing # <<>>
  /\ WriteFails(missing)
  /\ pc' = "failed"
  /\ UNCHANGED <<synced, memory, work, result, nextId, acked, crashes, foreign>>

\* The writer advances past the records once they are stable.
Committed(s) ==
  /\ known' = known \cup Ids(s)
  /\ leaf' = IF s = <<>> THEN leaf ELSE Last(s).leaf

\* Fault: no fresh sync when the reopened file already shows the batch.
ResyncOnlyWhatWasWritten ==
  /\ pc = "resync"
  /\ synced' = IF missing = <<>> THEN synced ELSE Len(file)
  /\ Committed(missing)
  /\ recovered' = pending /\ missing' = <<>>
  /\ pending' = <<>> /\ pendingFlag' = FALSE
  /\ pc' = AfterPersist
  /\ UNCHANGED <<file, tail, persist, op, prepared, result, nextId, acked,
                 crashes, foreign>>

Resync ==
  /\ pc = "resync"
  /\ synced' = Len(file)
  /\ Committed(missing)
  /\ recovered' = pending /\ missing' = <<>>
  /\ pending' = <<>> /\ pendingFlag' = FALSE
  /\ pc' = AfterPersist
  /\ UNCHANGED <<file, tail, persist, op, prepared, result, nextId, acked,
                 crashes, foreign>>

\* Either sync may fail: the one of the append, or the barrier after it.
ResyncFails ==
  /\ pc = "resync"
  /\ \/ /\ UNCHANGED <<synced, known, leaf>>
     \/ /\ missing # <<>>
        /\ synced' = Len(file)
        /\ Committed(missing)
  /\ pc' = "failed"
  /\ UNCHANGED <<file, tail, pending, pendingFlag, persist, work, result,
                 nextId, acked, crashes, foreign>>

\* Fault: the newest batch takes the place of the pending one.
PersistFailedForgets ==
  /\ pc = "failed"
  /\ pending' = IF prepared = <<>> THEN pending ELSE prepared
  /\ pendingFlag' = TRUE
  /\ Answer("err")
  /\ UNCHANGED <<disk, known, leaf, persist, nextId, acked, crashes, foreign>>

\* persist_pending keeps the batch; an append queues its own behind it.
PersistFailed ==
  /\ pc = "failed"
  /\ pending' = pending \o prepared
  /\ pendingFlag' = TRUE
  /\ Answer("err")
  /\ UNCHANGED <<disk, known, leaf, persist, nextId, acked, crashes,
                 foreign>>

Write ==
  /\ pc = "write" /\ prepared # <<>>
  /\ WriteAll(prepared)
  /\ pc' = "sync"
  /\ UNCHANGED <<synced, memory, work, result, nextId, acked, crashes, foreign>>

WriteNothing ==
  /\ pc = "write" /\ prepared = <<>>
  /\ acked' = acked \cup Ids(recovered)
  /\ Answer("ok")
  /\ UNCHANGED <<disk, memory, nextId, crashes, foreign>>

\* Fault: the batch is kept but not reported.
KeepPreparedSilently == pending' = prepared /\ UNCHANGED pendingFlag

KeepPrepared == pending' = prepared /\ pendingFlag' = TRUE

WriteFailed ==
  /\ pc = "write" /\ prepared # <<>>
  /\ WriteFails(prepared)
  /\ KeepPrepared
  /\ Answer("err")
  /\ UNCHANGED <<synced, known, leaf, persist, nextId, acked, crashes,
                 foreign>>

Sync ==
  /\ pc = "sync"
  /\ synced' = Len(file)
  /\ Committed(prepared)
  /\ acked' = acked \cup Ids(recovered) \cup Ids(prepared)
  /\ Answer("ok")
  /\ UNCHANGED <<file, tail, pending, pendingFlag, persist, nextId,
                 crashes, foreign>>

SyncFailed ==
  /\ pc = "sync"
  /\ KeepPrepared
  /\ Answer("err")
  /\ UNCHANGED <<disk, known, leaf, persist, nextId, acked, crashes,
                 foreign>>

FlushFile ==
  /\ pc = "flush"
  /\ \/ synced' = Len(file) /\ Answer("ok")
     \/ UNCHANGED synced /\ Answer("err")
  /\ UNCHANGED <<file, tail, memory, nextId, acked, crashes, foreign>>

\* The disconnected worker ends without a final flush.
Exit ==
  /\ pc = "exit"
  /\ Answer("none")
  /\ UNCHANGED <<disk, memory, nextId, acked, crashes, foreign>>

Worker ==
  \/ NothingPending \/ Reconcile \/ ReconcileFails \/ Rewrite \/ RewriteFails
  \/ Resync \/ ResyncFails \/ PersistFailed \/ Write \/ WriteNothing
  \/ WriteFailed \/ Sync \/ SyncFailed \/ FlushFile \/ Exit

(***************************************************************************)
(* The world around the recorder.                                          *)
(***************************************************************************)

\* The machine or the process stops: unsynced records may be cut anywhere.
Crash ==
  /\ crashes < MaxCrashes
  /\ crashes' = crashes + 1
  /\ \E n \in synced .. Len(file), t \in Tails :
       /\ CASE t = "bare"    -> n > synced \/ (n = Len(file) /\ tail = "bare")
            [] t = "torn"    -> n < Len(file) \/ tail = "torn"
            [] t = "clean"   -> n < Len(file) \/ tail # "bare"
            [] t = "corrupt" -> tail = "corrupt"
       /\ tail = "corrupt" => t = "corrupt"
       /\ file' = SubSeq(file, 1, n) /\ tail' = t
  /\ pc' = "closed" /\ result' = "none"
  /\ known' = {} /\ leaf' = 0 /\ pending' = <<>> /\ pendingFlag' = FALSE
  /\ persist' = TRUE
  /\ Idle
  /\ UNCHANGED <<synced, nextId, acked, foreign>>

\* JsonlRecorder::open.
Open ==
  /\ pc = "closed"
  /\ Loads
  /\ OpenFile
  /\ known' = Ids(file) /\ leaf' = Last(file).leaf
  /\ pending' = <<>> /\ pendingFlag' = FALSE /\ persist' = TRUE
  /\ pc' = "recv" /\ result' = "none"
  /\ UNCHANGED <<work, nextId, acked, crashes, foreign>>

OpenFails ==
  /\ pc = "closed"
  /\ OpenFileFails
  /\ UNCHANGED <<memory, work, pc, result, nextId, acked, crashes, foreign>>

\* Another program appends a record, as a well-behaved writer of the format.
ForeignAppend ==
  /\ foreign < MaxForeign
  /\ tail = "clean"
  /\ foreign' = foreign + 1
  /\ file' = Append(file, [id     |-> - foreign - 1,
                           parent |-> Last(file).leaf,
                           leaf   |-> - foreign - 1])
  /\ UNCHANGED <<tail, synced, memory, work, pc, result, nextId, acked, crashes>>

Owner ==
  \/ \E n \in 0 .. MaxBatch : AppendBatch(n)
  \/ \E t \in 0 .. nextId - 1 : SetLeaf(t) \/ SetLeafRefused(t)
  \/ Flush
  \/ \E o \in {"shutdown", "disconnect"} : Drop(o)
  \/ Abandon \/ Abort

Next == Owner \/ Worker \/ Crash \/ Open \/ OpenFails \/ ForeignAppend

Spec == Init /\ [][Next]_vars
-----------------------------------------------------------------------------
(***************************************************************************)
(* Properties.                                                             *)
(***************************************************************************)

Stages == {"recv", "persist", "rewrite", "resync", "failed", "write", "sync",
           "flush", "exit", "closed"}

DiskOK ==
  /\ file \in Seq(Entry) /\ tail \in Tails
  /\ synced \in 1 .. Len(file)

MemoryOK ==
  /\ known \subseteq Id /\ leaf \in Id
  /\ pending \in Seq(Entry)
  /\ pendingFlag \in BOOLEAN /\ persist \in BOOLEAN

WorkOK ==
  /\ pc \in Stages
  /\ op \in {"none", "append", "flush", "shutdown", "disconnect"}
  /\ prepared \in Seq(Entry) /\ recovered \in Seq(Entry) /\ missing \in Seq(Entry)
  /\ result \in {"none", "ok", "err"}

\* The variables keep their types; the records on stable storage are a prefix
\* of the file that holds the header.
TypeOK ==
  /\ DiskOK /\ MemoryOK /\ WorkOK
  /\ nextId \in Nat /\ acked \subseteq Id
  /\ crashes \in Nat /\ foreign \in Nat

\* Whatever was cut, retried or written by others, the loader never meets a
\* glued line, a repeated identity or a record before its parent: a session
\* whose writes failed or crashed can always be opened again.
SourceLoads == Loads

\* Without another writer the file is one chain: every record's parent is the
\* leaf behind the record before it.  A batch that failed, was retried, was
\* queued behind an older one or was cut by a crash never forks the history.
OneChain ==
  foreign = 0 =>
    \A i \in 2 .. Len(file) : file[i].parent = file[i - 1].leaf

\* has_pending() is exact whenever the owner can ask (evict_handles drops a
\* handle that reports FALSE, append keeps the catalog's intents while it
\* reports TRUE), and an append or flush that answered Ok left nothing behind.
PendingReported ==
  /\ pc = "recv" /\ persist => (pendingFlag <=> pending # <<>>)
  /\ pc = "recv" /\ result = "ok" => pending = <<>>

\* A crash, a recorder that was closed before, and an owner that lost its
\* authority over the file.
GivenUp == crashes' # crashes \/ pc = "closed" \/ (pc = "recv" /\ ~ persist)

\* A prepared batch that failed is not forgotten or reordered: a step keeps
\* every pending record, in order and at the front, until the file holds it on
\* stable storage, unless the owner gives it up or the process ends.  A worker
\* that is shut down or loses its channel has nothing left to write, or has just
\* failed to write it (persist_pending, the end of run_worker).
PendingKept ==
  [][\/ GivenUp
     \/ /\ Len(pending) <= Len(pending') /\ SubSeq(pending', 1, Len(pending)) = pending
        /\ pc' = "closed" => pending = <<>> \/ pc = "failed"
     \/ Ids(pending) \subseteq Ids(SubSeq(file', 1, synced'))]_vars

\* The recorder implements the durable log: what is on stable storage only
\* grows, without repetition, and holds everything that was acknowledged.
Durable == INSTANCE DurableLog WITH log <- SubSeq(file, 1, synced)

ImplementsDurableLog == Durable!Spec
=============================================================================
