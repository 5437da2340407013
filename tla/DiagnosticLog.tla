----------------------------- MODULE DiagnosticLog -----------------------------
(***************************************************************************)
(* The diagnostic log (logging/mod.rs, logging/writer.rs): threads put     *)
(* records into a bounded queue without waiting, one writer buffers them,  *)
(* flushes a batch and rotates the files; the end of the process drains    *)
(* what was accepted, within a deadline.  The settings page reads the      *)
(* files again and again while they are written (settings/logs.rs).        *)
(***************************************************************************)
EXTENDS Naturals, SequencesExt

CONSTANTS
  None,
  Loggers,         \* threads that record events
  QueueCapacity,
  BatchSize,       \* FLUSH_BATCH_SIZE
  MaxBytes,        \* the size of a file, in records
  Backups,
  MaxDisplayLines,
  Earlier,         \* full files an earlier process has left
  MaxRecords,      \* bound on the records that are accepted, those included
  MaxProcesses     \* bound on the starts of the process

\* What the parameters are assumed to be.
Parameters ==
  /\ {QueueCapacity, BatchSize, MaxBytes, Backups} \subseteq Nat \ {0}
  /\ Earlier \in 1 .. Backups + 1 /\ {MaxDisplayLines, MaxRecords} \subseteq Nat
  /\ None \notin Nat /\ None \notin Seq(Nat) /\ None \notin [n : Nat, urgent : BOOLEAN]

VARIABLES
  accepted,   \* records that entered the queue, numbered in that order
  lost,       \* those a crash or a failing file took
  process,    \* the processes so far
  sender,     \* the sender is there
  shutting,   \* of shutdown: "no", "closed", "waiting", "joined", "detached"
  asking,     \* loggers that hold the sender's lock, past the check
  queue,      \* [n, urgent]
  worker,     \* "wait", "append", "rotate", "flush", "last", "finished"
  hand,       \* None, or the record the worker took
  buffer,     \* of the BufWriter
  unflushed,  \* unflushed_records; the batch has a deadline when it is not 0
  turn,       \* of rotate: the backup it makes next
  files,      \* 0 is the active file, None when there is none
  page        \* the viewer: visible, and the load that runs: at, rows, mixed

log == <<accepted, lost, process, sender, shutting, asking, queue>>
writer == <<worker, hand, buffer, unflushed, turn, files>>
vars == <<log, writer, page>>

Number(rs) == [i \in DOMAIN rs |-> rs[i].n]
Contents(i) == IF files[i] = None THEN <<>> ELSE files[i]

\* Where a load stands: rows read so far, whether a rotation ran meanwhile.
Closed == [visible |-> FALSE, at |-> None, rows |-> <<>>, mixed |-> FALSE]

Init ==
  /\ accepted = Earlier * MaxBytes /\ lost = {} /\ process = 1
  /\ sender = TRUE /\ shutting = "no" /\ asking = {} /\ queue = <<>>
  /\ worker = "wait" /\ hand = None /\ buffer = <<>> /\ unflushed = 0 /\ turn = 0
  /\ files = [i \in 0 .. Backups |->
                 IF i < Earlier THEN [k \in 1 .. MaxBytes |-> (Earlier - 1 - i) * MaxBytes + k] ELSE None]
  /\ page = Closed
--------------------------------------------------------------------------------
(* record: try_record holds the sender while it looks at closed and sends.  *)
Ask(t) ==
  /\ asking = {} /\ sender /\ shutting = "no"
  /\ asking' = {t}
  /\ UNCHANGED <<accepted, lost, process, sender, shutting, queue, writer, page>>

\* A full queue drops the record, and so does a writer that is gone.
Send(t) ==
  /\ t \in asking
  /\ asking' = {}
  /\ \/ /\ worker # "finished" /\ Len(queue) < QueueCapacity /\ accepted < MaxRecords
        /\ \E urgent \in BOOLEAN : queue' = Append(queue, [n |-> accepted + 1, urgent |-> urgent])
        /\ accepted' = accepted + 1
     \/ /\ worker = "finished" \/ Len(queue) = QueueCapacity \/ accepted = MaxRecords
        /\ UNCHANGED <<queue, accepted>>
  /\ UNCHANGED <<lost, process, sender, shutting, writer, page>>

(***************************************************************************)
(* shutdown: close, take the sender, wait for the writer until a deadline. *)
(***************************************************************************)
Close ==
  /\ shutting = "no"
  /\ shutting' = "closed"
  /\ UNCHANGED <<accepted, lost, process, sender, asking, queue, writer, page>>

\* Fault: the sender goes while a record is on its way.
TakeUnlocked ==
  /\ shutting = "closed"
  /\ sender' = FALSE /\ shutting' = "waiting"
  /\ UNCHANGED <<accepted, lost, process, asking, queue, writer, page>>

TakeSender ==
  /\ shutting = "closed" /\ asking = {}
  /\ sender' = FALSE /\ shutting' = "waiting"
  /\ UNCHANGED <<accepted, lost, process, asking, queue, writer, page>>

StopWaiting ==
  /\ shutting = "waiting"
  /\ shutting' = IF worker = "finished" THEN "joined" ELSE "detached"
  /\ UNCHANGED <<accepted, lost, process, sender, asking, queue, writer, page>>
--------------------------------------------------------------------------------
(* run_worker, one stage at a time; every call of the file may fail.        *)
Held == (IF hand = None THEN <<>> ELSE <<hand>>) \o queue

\* The writer stops: what it held is lost but for what its buffer could write.
Fails(stages) ==
  /\ worker \in stages
  /\ \E n \in IF files[0] = None THEN {0} ELSE 0 .. Len(buffer) :
       /\ files' = IF n = 0 THEN files
                   ELSE [files EXCEPT ![0] = @ \o Number(SubSeq(buffer, 1, n))]
       /\ lost' = lost \cup {r.n : r \in ToSet(SubSeq(buffer, n + 1, Len(buffer)) \o Held)}
  /\ worker' = "finished" /\ hand' = None /\ buffer' = <<>> /\ queue' = <<>>
  /\ UNCHANGED <<accepted, process, sender, shutting, asking, unflushed, turn, page>>

Receive ==
  /\ worker = "wait" /\ queue # <<>>
  /\ hand' = Head(queue) /\ queue' = Tail(queue)
  /\ worker' = "append"
  /\ UNCHANGED <<accepted, lost, process, sender, shutting, asking, buffer, unflushed, turn, files, page>>

\* The batch has waited for its interval.
FlushDeadline ==
  /\ worker = "wait" /\ queue = <<>> /\ unflushed > 0
  /\ worker' = "flush"
  /\ UNCHANGED <<log, hand, buffer, unflushed, turn, files, page>>

\* Fault: the writer ends at once when the sender is gone.
EndUndrained ==
  /\ worker = "wait" /\ ~ sender
  /\ worker' = "finished"
  /\ UNCHANGED <<log, hand, buffer, unflushed, turn, files, page>>

\* Disconnected: nothing queued any more, and no sender.
Disconnected ==
  /\ worker = "wait" /\ queue = <<>> /\ ~ sender
  /\ worker' = "last"
  /\ UNCHANGED <<log, hand, buffer, unflushed, turn, files, page>>

\* LogWriter::bytes: what the active file holds and will hold.
Bytes == Len(Contents(0)) + Len(buffer)
Overflows == Bytes > 0 /\ Bytes + 1 > MaxBytes

\* LogWriter::append.  A file that would overflow is flushed and rotated first.
AppendRecord ==
  /\ worker = "append"
  /\ IF Overflows
     THEN /\ files' = [files EXCEPT ![0] = @ \o Number(buffer)]
          /\ buffer' = <<>> /\ turn' = Backups /\ worker' = "rotate"
          /\ UNCHANGED <<hand, unflushed>>
     ELSE /\ buffer' = Append(buffer, hand) /\ hand' = None
          /\ unflushed' = unflushed + 1
          /\ worker' = IF hand.urgent \/ unflushed + 1 >= BatchSize THEN "flush" ELSE "wait"
          /\ UNCHANGED <<turn, files>>
  /\ UNCHANGED <<log, page>>

Flush ==
  /\ worker \in {"flush", "last"}
  /\ files' = [files EXCEPT ![0] = @ \o Number(buffer)]
  /\ buffer' = <<>> /\ unflushed' = 0
  /\ worker' = IF worker = "flush" THEN "wait" ELSE "finished"
  /\ UNCHANGED <<log, hand, turn, page>>

Mixed == page' = [page EXCEPT !.mixed = (page.at # None)]

\* rotate: the oldest backup goes, the others move up, the active file is
\* made anew.  A backup that is missing is passed over.
Rotate ==
  /\ worker = "rotate"
  /\ IF turn = 0
     THEN files' = [files EXCEPT ![0] = <<>>] /\ worker' = "append" /\ UNCHANGED turn
     ELSE /\ \/ /\ files[turn - 1] = None
                /\ turn' = turn - 1 /\ UNCHANGED files
             \/ /\ files[turn - 1] # None /\ files[turn] # None
                /\ files' = [files EXCEPT ![turn] = None] /\ UNCHANGED turn
             \/ /\ files[turn - 1] # None /\ files[turn] = None
                /\ files' = [files EXCEPT ![turn] = files[turn - 1], ![turn - 1] = None]
                /\ turn' = turn - 1
          /\ UNCHANGED worker
  /\ Mixed
  /\ UNCHANGED <<log, hand, buffer, unflushed>>

WriterFails == Fails({"append", "rotate", "flush", "last"})

\* The process ends, at its end or before it, and another one starts: start
\* opens the active file, or creates it.
Restart ==
  /\ process < MaxProcesses /\ process' = process + 1
  /\ lost' = lost \cup {r.n : r \in ToSet(buffer \o Held)}
  /\ files' = [files EXCEPT ![0] = Contents(0)]
  /\ sender' = TRUE /\ shutting' = "no" /\ asking' = {} /\ queue' = <<>>
  /\ worker' = "wait" /\ hand' = None /\ buffer' = <<>> /\ unflushed' = 0 /\ turn' = 0
  /\ page' = Closed
  /\ UNCHANGED accepted
--------------------------------------------------------------------------------
(* LogsPage: a load reads the backups, oldest first, then the active file.  *)

\* Fault: the files are taken in the order of their numbers.
NewestFirst == [i \in 1 .. Backups + 1 |-> i - 1]

LogFilePaths == [i \in 1 .. Backups + 1 |-> Backups + 1 - i]

\* set_visible, and the timer of start_refresh while the page is visible: the
\* load that runs is dropped, a new one begins.
QueueLoad ==
  /\ page' = [page EXCEPT !.visible = TRUE, !.at = 1, !.rows = <<>>, !.mixed = (worker = "rotate")]
  /\ UNCHANGED <<log, writer>>

Hide ==
  /\ page.visible
  /\ page' = [page EXCEPT !.visible = FALSE, !.at = None, !.rows = <<>>, !.mixed = FALSE]
  /\ UNCHANGED <<log, writer>>

\* snapshot_from_files, one file at a time.
ReadFile ==
  /\ page.at \in DOMAIN LogFilePaths
  /\ page' = [page EXCEPT !.at = @ + 1, !.rows = @ \o Contents(LogFilePaths[page.at])]
  /\ UNCHANGED <<log, writer>>

\* last_nonempty_lines, which the page shows when the load is over.
LastLines(rows) ==
  IF Len(rows) > MaxDisplayLines
  THEN SubSeq(rows, Len(rows) - MaxDisplayLines + 1, Len(rows)) ELSE rows

Apply ==
  /\ page.at = Len(LogFilePaths) + 1
  /\ page' = [page EXCEPT !.at = None, !.rows = <<>>, !.mixed = FALSE]
  /\ UNCHANGED <<log, writer>>

Next ==
  \/ \E t \in Loggers : Ask(t) \/ Send(t)
  \/ Close \/ TakeSender \/ StopWaiting
  \/ Receive \/ FlushDeadline \/ Disconnected
  \/ AppendRecord \/ Flush \/ Rotate \/ WriterFails \/ Restart
  \/ QueueLoad \/ Hide \/ ReadFile \/ Apply

Spec == Init /\ [][Next]_vars
--------------------------------------------------------------------------------
(* Properties.                                                              *)
\* The records are in their order, and what is missing between them is lost.
Unbroken(ns) ==
  \A i \in 2 .. Len(ns) : ns[i - 1] < ns[i] /\ (ns[i - 1] + 1 .. ns[i] - 1) \subseteq lost

Kept == FlattenSeq([i \in 1 .. Backups + 1 |-> Contents(Backups + 1 - i)])

\* Whatever step a rotation, a failing file or a crash stopped at, the files,
\* the buffer and the queue hold the newest records, in the order they were
\* accepted and each once; no file outgrows its size (append, rotate).
NewestKept ==
  LET all == Kept \o Number(buffer \o Held)
  IN /\ Unbroken(all)
     /\ (IF all = <<>> THEN 1 ELSE all[Len(all)] + 1) .. accepted \subseteq lost
     /\ \A i \in 0 .. Backups : Len(Contents(i)) <= MaxBytes

\* A writer that waits owes the file no error record and no full batch, and
\* what it buffers has a deadline (run_worker).
FlushedInTime ==
  worker = "wait" =>
    /\ \A i \in DOMAIN buffer : ~ buffer[i].urgent
    /\ Len(buffer) < BatchSize
    /\ buffer # <<>> => unflushed > 0

\* When shutdown has seen the writer end, every record that was accepted has
\* reached the files or was lost with a failing one, and none comes later,
\* a record that was on its way included (try_record, shutdown).
Drained == shutting = "joined" => asking = {} /\ Held = <<>> /\ buffer = <<>>

\* Lines read while no rotation ran are an unbroken piece of the log.
PageExact ==
  (page.at = Len(LogFilePaths) + 1 /\ ~ page.mixed) => Unbroken(LastLines(page.rows))

\* The diagnostic log.
LogHolds == NewestKept /\ FlushedInTime /\ Drained /\ PageExact
================================================================================
