----------------------------- MODULE LocalStore -----------------------------
(***************************************************************************)
(* One session in the local store (session/local) and its catalog          *)
(* (session/catalog): the JSONL source is the truth, the SQLite row is a   *)
(* disposable projection of it, and whatever separates the two must leave  *)
(* an obligation behind (a projection intent, the repair key, or the       *)
(* marker file beside the index) from which a repair rebuilds the row.     *)
(*                                                                         *)
(* Processes share the directory and take turns under the domain lock, for *)
(* one operation at a time; each operation is the sequence of its durable  *)
(* steps, so that it can fail, the process can be killed or the machine    *)
(* can lose power between any two of them.  Only the drop of a recorder    *)
(* writes outside the lock.  The recorder is taken by its outcomes; its    *)
(* own protocol is JsonlRecorder.                                          *)
(***************************************************************************)
EXTENDS Naturals, FiniteSets

CONSTANTS
  None,
  Procs,        \* processes that open the store
  MaxFacts,     \* bound on the facts ever written
  MaxCrashes,   \* bound on power losses
  MaxLosses,    \* bound on losses of the index file
  MaxStarts     \* bound on process starts

Facts == 1 .. MaxFacts

\* What a process knows of the file: its records, its stamp, the batch that
\* waits, and whether the row may be behind.
Handles == [seen : SUBSET Facts, stamp : (SUBSET Facts) \X BOOLEAN, pend : SUBSET Facts,
            dirty : BOOLEAN]

ASSUME StoreAssumption ==
  /\ None \notin Procs /\ Procs \cap {"orphan", "repair"} = {}
  /\ \A facts \in SUBSET Facts : facts # None
  /\ \A h \in Handles : h # None
  /\ {MaxFacts, MaxCrashes, MaxLosses, MaxStarts} \subseteq Nat

VARIABLES
  src,      \* the session's file
  cat,      \* the catalog
  proc,     \* the processes
  creator,  \* who holds the session's fresh id: None, a process, or "gone"
  wanted,   \* published, and not unlinked since
  deleted,  \* a delete removed the row and answered Ok
  gone,     \* a delete answered Ok
  used,     \* facts handed out
  crashes, losses, starts

history == <<creator, wanted, deleted, gone, used>>
budget  == <<crashes, losses, starts>>
vars    == <<src, cat, proc, history, budget>>

(***************************************************************************)
(* The file.  visible: the name is in the directory; linked: it is there   *)
(* after a power loss.  facts: the records of the inode, of which synced   *)
(* survive; torn: an incomplete record follows them.                       *)
(***************************************************************************)
NoFile == [visible |-> FALSE, linked |-> FALSE, facts |-> {}, synced |-> {}, torn |-> FALSE]

EmptyCatalog == [index |-> "ok", row |-> None, intents |-> {}, repair |-> FALSE, marker |-> FALSE]

\* What source_stamp sees: the length and the modification time.
Stamp(s) == <<s.facts, s.torn>>

SyncDir(s) == [s EXCEPT !.linked = s.visible]

\* Every record of the batch more is written, behind a repaired tail, and
\* the file is synced.
Persisted(s, more) ==
  [s EXCEPT !.facts = @ \cup more, !.synced = s.facts \cup more,
            !.torn = @ /\ more = {}]

\* The write or the sync of the batch failed somewhere.
Partly(s, more) ==
  IF more = {} THEN {s}
  ELSE UNION {{[s EXCEPT !.facts = @ \cup m, !.torn = t] :
                  t \in {b \in BOOLEAN : b => s.torn \/ ~ more \subseteq s.facts \cup m}} :
                m \in SUBSET more}

\* JsonlWriter::open cuts an incomplete record and syncs.
Reopened(s) == IF s.torn THEN [s EXCEPT !.torn = FALSE, !.synced = s.facts] ELSE s

\* Dropping a recorder writes its pending batch, as far as it gets.
Dropped(s, h) ==
  IF h = None \/ ~ s.visible THEN {s}
  ELSE IF h.pend = {} THEN {s} ELSE {Persisted(s, h.pend)} \cup Partly(s, h.pend)

Handle(s) == [seen |-> s.facts, stamp |-> Stamp(s), pend |-> {}, dirty |-> TRUE]

(***************************************************************************)
(* The catalog.  An intent belongs to the handle of a process, or to       *)
(* nobody ("orphan"), or was left by a repair that could not read the      *)
(* source ("repair").                                                      *)
(***************************************************************************)
Obliged(c) == c.intents # {} \/ c.repair

Orphaned(c, p) ==
  IF p \in c.intents THEN [c EXCEPT !.intents = (@ \ {p}) \cup {"orphan"}] ELSE c

WithIntent(c, p) == [c EXCEPT !.intents = @ \cup {p}]

\* Fault: the projection is recorded and every intent of the session with it.
ProjectedClearingAll(c, p, facts, clear) == [c EXCEPT !.row = facts, !.intents = {}]

\* write_projection_once: the row and the intents of the handle, in one
\* transaction.
Projected(c, p, facts, clear) ==
  [c EXCEPT !.row = facts, !.intents = IF clear THEN @ \ {p} ELSE @]

\* A failed transaction re-arms the repair key if it can.
Rearmed(c) == {c, [c EXCEPT !.repair = TRUE]}

(***************************************************************************)
(* Processes.                                                              *)
(***************************************************************************)
Down ==
  [pc |-> "down", op |-> "none", handle |-> None, needs |-> FALSE, fact |-> 0,
   clear |-> TRUE, scan |-> None, answer |-> "none"]

Unlocked == {"down", "init", "mark", "ready", "idle"}

LockFree == \A p \in Procs : proc[p].pc \in Unlocked

Idle(p) == proc[p].pc = "idle" /\ LockFree

At(p, l) == proc[p].pc = l

Step(p, r) == proc' = [proc EXCEPT ![p] = r]

\* The operation of p ends; a store whose repair fails while it opens is
\* given up.
Answer(r, a) ==
  IF r.op = "open" /\ a = "err" THEN Down
  ELSE [r EXCEPT !.pc = "idle", !.op = "none", !.fact = 0, !.clear = TRUE,
                 !.scan = None, !.answer = a,
                 !.handle = IF r.op = "shutdown" /\ a = "ok" THEN None ELSE @]

Begin(p, operation, l) == [proc[p] EXCEPT !.op = operation, !.pc = l, !.answer = "none"]

\* The source and the handle an operation goes on with.
Ensured(s, h, ok, same) == [src |-> s, handle |-> h, ok |-> ok, same |-> same]

OpenHandle(s, c) ==
  IF c.row = None \/ ~ s.visible THEN {Ensured(s, None, FALSE, FALSE)}
  ELSE {Ensured(Reopened(s), Handle(Reopened(s)), TRUE, FALSE), Ensured(s, None, FALSE, FALSE)}

\* ensure_handle: a handle whose file changed behind it writes what it has
\* pending and is opened anew.
EnsureHandle(s, c, h) ==
  IF h = None THEN OpenHandle(s, c)
  ELSE IF ~ s.visible THEN {Ensured(s, h, FALSE, TRUE)}
  ELSE IF h.stamp = Stamp(s) THEN {Ensured(s, h, TRUE, TRUE)}
  ELSE OpenHandle(IF h.pend = {} THEN s ELSE Persisted(s, h.pend), c)
       \cup (IF h.pend = {} THEN {} ELSE {Ensured(x, h, FALSE, TRUE) : x \in Partly(s, h.pend)})

\* Fault: the intents follow the process although their handle is gone.
KeptIntentsOfProcess(c, p, e) == c

KeptIntents(c, p, e) == IF e.same THEN c ELSE Orphaned(c, p)
-----------------------------------------------------------------------------
Init ==
  /\ src = NoFile
  /\ cat = EmptyCatalog
  /\ proc = [p \in Procs |-> Down]
  /\ creator = None /\ wanted = FALSE /\ deleted = FALSE /\ gone = FALSE
  /\ used = 0
  /\ crashes = 0 /\ losses = 0 /\ starts = 0

(***************************************************************************)
(* Opening the store: Catalog::open, then repair_if_needed.                *)
(***************************************************************************)
OpenCatalog(p) ==
  /\ At(p, "down") /\ starts < MaxStarts
  /\ starts' = starts + 1
  /\ cat' = IF cat.index = "missing" THEN [cat EXCEPT !.marker = TRUE] ELSE cat
  /\ Step(p, [Down EXCEPT !.pc = IF cat.index = "missing" THEN "init"
                                 ELSE IF cat.marker THEN "mark" ELSE "ready",
                          !.needs = Obliged(cat)])
  /\ UNCHANGED <<src, history, crashes, losses>>

InitCatalog(p) ==
  /\ At(p, "init")
  /\ cat' = [cat EXCEPT !.index = "ok"]
  /\ Step(p, [proc[p] EXCEPT !.pc = "mark"])
  /\ UNCHANGED <<src, history, budget>>

MarkOpened(p) ==
  /\ At(p, "mark")
  /\ \/ cat' = [cat EXCEPT !.repair = TRUE]
        /\ Step(p, [proc[p] EXCEPT !.pc = "ready", !.needs = TRUE])
     \/ cat' = cat /\ Step(p, Down)
  /\ UNCHANGED <<src, history, budget>>

RepairIfNeeded(p) ==
  /\ At(p, "ready") /\ LockFree
  /\ Step(p, IF proc[p].needs THEN Begin(p, "open", "rmark")
             ELSE [proc[p] EXCEPT !.pc = "idle"])
  /\ UNCHANGED <<src, cat, history, budget>>

(***************************************************************************)
(* create_session_with_entries.                                            *)
(***************************************************************************)
CreateBegin(p) ==
  /\ Idle(p) /\ creator \in {None, p} /\ ~ gone
  /\ used < MaxFacts
  /\ src.linked => src.visible
  /\ proc[p].handle = None /\ cat.row = None
  /\ creator' = p /\ used' = used + 1
  /\ cat' = WithIntent(cat, p)
  /\ Step(p, [Begin(p, "create", "publish") EXCEPT !.needs = TRUE, !.fact = used'])
  /\ UNCHANGED <<src, wanted, deleted, gone, budget>>

\* persist_noclobber published the staged, synced file.
Publish(p) ==
  /\ At(p, "publish") /\ ~ src.visible
  /\ src' = [src EXCEPT !.visible = TRUE, !.facts = {proc[p].fact},
                        !.synced = {proc[p].fact}, !.torn = FALSE]
  /\ wanted' = TRUE
  /\ Step(p, [proc[p] EXCEPT !.pc = "dirsync"])
  /\ UNCHANGED <<cat, creator, deleted, gone, used, budget>>

\* It did not, perhaps because an earlier attempt did: the intent is void.
\* When it cannot be cancelled it stays.
PublishFails(p) ==
  /\ At(p, "publish")
  /\ \/ /\ cat' = [cat EXCEPT !.intents = @ \ {p}]
        /\ Step(p, Answer([proc[p] EXCEPT !.needs = Obliged(cat')], "err"))
     \/ cat' = Orphaned(cat, p) /\ Step(p, Answer(proc[p], "err"))
  /\ UNCHANGED <<src, history, budget>>

SyncPublished(p) ==
  /\ At(p, "dirsync")
  /\ src' = SyncDir(src)
  /\ Step(p, [proc[p] EXCEPT !.pc = "open"])
  /\ UNCHANGED <<cat, history, budget>>

\* One of the two directories could not be synced.
SyncPublishedFails(p) ==
  /\ At(p, "dirsync")
  /\ src' \in {src, SyncDir(src)}
  /\ cat' = Orphaned(cat, p)
  /\ Step(p, Answer(proc[p], "err"))
  /\ UNCHANGED <<history, budget>>

OpenCreated(p) ==
  /\ At(p, "open")
  /\ \/ cat' = cat /\ Step(p, [proc[p] EXCEPT !.pc = "project", !.handle = Handle(src)])
     \/ cat' = Orphaned(cat, p) /\ Step(p, Answer(proc[p], "err"))
  /\ UNCHANGED <<src, history, budget>>

(***************************************************************************)
(* append and set_leaf.  A selected leaf is a fact like any other.         *)
(***************************************************************************)
MutateBegin(p, operation) ==
  /\ Idle(p) /\ used < MaxFacts
  /\ \E e \in EnsureHandle(src, cat, proc[p].handle) :
       /\ src' = e.src
       /\ cat' = IF e.ok THEN WithIntent(KeptIntents(cat, p, e), p) ELSE KeptIntents(cat, p, e)
       /\ used' = IF e.ok THEN used + 1 ELSE used
       /\ Step(p, IF e.ok
                  THEN [Begin(p, operation, "write") EXCEPT
                          !.handle = e.handle, !.needs = TRUE, !.fact = used']
                  ELSE Answer([proc[p] EXCEPT !.handle = e.handle], "err"))
  /\ UNCHANGED <<creator, wanted, deleted, gone, budget>>

\* The batch and everything that waited before it are in the file.  The
\* handle adds them to what it knows, or reads the file when it had a batch
\* pending.
Wrote(p) ==
  LET h == proc[p].handle  r == proc[p]
      s == Persisted(src, h.pend \cup {r.fact})
  IN /\ At(p, "write") /\ src.visible
     /\ src' = s
     /\ Step(p, [r EXCEPT !.pc = "project",
                   !.handle = [seen  |-> IF h.pend = {} /\ r.op = "append"
                                         THEN h.seen \cup {r.fact} ELSE s.facts,
                               stamp |-> Stamp(s), pend |-> {}, dirty |-> TRUE]])
     /\ UNCHANGED <<cat, history, budget>>

\* ... but the file could not be read again.
WroteUnread(p) ==
  LET h == proc[p].handle
      s == Persisted(src, h.pend \cup {proc[p].fact})
  IN /\ At(p, "write") /\ src.visible
     /\ h.pend # {} \/ proc[p].op = "leaf"
     /\ src' = s
     /\ Step(p, Answer([proc[p] EXCEPT !.handle.pend = {}, !.handle.dirty = TRUE], "err"))
     /\ UNCHANGED <<cat, history, budget>>

\* The older batch failed again, or it went through and this one failed.
FailedWrite(s, h, f) ==
  {<<x, h.pend \cup {f}>> : x \in IF h.pend = {} THEN {} ELSE Partly(s, h.pend)}
  \cup {<<x, {f}>> : x \in Partly(IF h.pend = {} THEN s ELSE Persisted(s, h.pend), {f})}

\* Fault: a failed write settles its intent although the batch is pending.
WriteFailedSettled(p) ==
  /\ At(p, "write") /\ src.visible
  /\ \E w \in FailedWrite(src, proc[p].handle, proc[p].fact) :
       /\ src' = w[1]
       /\ Step(p, [proc[p] EXCEPT !.pc = "reproject", !.clear = TRUE,
                     !.handle = [Handle(w[1]) EXCEPT !.pend = w[2]]])
  /\ UNCHANGED <<cat, history, budget>>

\* The caller hears the error, the batch stays pending, and the row is
\* brought up to the file while the intents stay for the batch.  If the
\* file cannot be read append stops; set_leaf projects what it knew.
WriteFailed(p) ==
  /\ At(p, "write") /\ src.visible
  /\ \E w \in FailedWrite(src, proc[p].handle, proc[p].fact), read \in BOOLEAN :
       LET r == [proc[p] EXCEPT !.clear = FALSE,
                   !.handle = IF read THEN [Handle(w[1]) EXCEPT !.pend = w[2]]
                              ELSE [@ EXCEPT !.pend = w[2], !.dirty = TRUE]]
       IN /\ src' = w[1]
          /\ Step(p, IF read \/ r.op = "leaf" THEN [r EXCEPT !.pc = "reproject"]
                     ELSE Answer(r, "err"))
  /\ UNCHANGED <<cat, history, budget>>

\* The recorder refused the request before it wrote anything.
WriteRefused(p) ==
  LET h == proc[p].handle
  IN /\ At(p, "write")
     /\ \E read \in BOOLEAN :
          LET r == [proc[p] EXCEPT !.clear = h.pend = {},
                      !.handle = IF read THEN [Handle(src) EXCEPT !.pend = h.pend]
                                 ELSE [@ EXCEPT !.dirty = TRUE]]
          IN Step(p, IF read \/ r.op = "leaf" THEN [r EXCEPT !.pc = "reproject"]
                     ELSE Answer(r, "err"))
     /\ UNCHANGED <<src, cat, history, budget>>

\* The transaction of create, append, set_leaf and flush, and the one of
\* the error paths, whose operation answers the error it had.
Project(p) ==
  LET r == proc[p]
  IN /\ r.pc \in {"project", "reproject"}
     /\ cat' = Projected(cat, p, r.handle.seen, r.clear)
     /\ LET q == [r EXCEPT !.handle.dirty = ~ r.clear, !.needs = Obliged(cat')]
        IN Step(p, IF r.pc = "reproject" THEN Answer(q, "err")
                   ELSE IF r.op \in {"flush", "shutdown"} /\ q.needs
                   THEN [q EXCEPT !.pc = "rmark"]
                   ELSE Answer(q, "ok"))
     /\ UNCHANGED <<src, history, budget>>

ProjectFails(p) ==
  /\ proc[p].pc \in {"project", "reproject"}
  /\ cat' \in Rearmed(cat)
  /\ Step(p, Answer([proc[p] EXCEPT !.needs = @ \/ cat'.repair], "err"))
  /\ UNCHANGED <<src, history, budget>>

(***************************************************************************)
(* flush and shutdown: the handle first, then a repair if one is due.      *)
(***************************************************************************)
FlushBegin(p, operation) ==
  LET h == proc[p].handle
      idle == h = None \/ (h # None /\ h.pend = {} /\ ~ src.visible)
  IN /\ Idle(p)
     /\ \/ /\ idle
           /\ cat' = Orphaned(cat, p) /\ src' = src
           /\ LET r == [Begin(p, operation, "rmark") EXCEPT !.handle = None]
              IN Step(p, IF r.needs THEN r ELSE Answer(r, "ok"))
        \/ /\ ~ idle
           /\ \E e \in EnsureHandle(src, cat, h) :
                /\ src' = e.src /\ cat' = KeptIntents(cat, p, e)
                /\ LET r == [Begin(p, operation, "drain") EXCEPT !.handle = e.handle]
                   IN Step(p, IF e.ok THEN r ELSE Answer(r, "err"))
     /\ UNCHANGED <<history, budget>>

\* Fault: the row is written from what the handle knew.
FlushHandleUnread(p) ==
  /\ At(p, "drain") /\ src.visible
  /\ src' = Persisted(src, proc[p].handle.pend)
  /\ Step(p, [proc[p] EXCEPT !.pc = "project", !.handle.pend = {}])
  /\ UNCHANGED <<cat, history, budget>>

\* recorder.flush, then the file is read again; either can fail.
FlushHandle(p) ==
  LET h == proc[p].handle
  IN /\ At(p, "drain") /\ src.visible
     /\ \/ /\ src' = Persisted(src, h.pend)
           /\ \/ Step(p, [proc[p] EXCEPT !.pc = "project", !.handle = Handle(src')])
              \/ Step(p, Answer([proc[p] EXCEPT !.handle.pend = {}], "err"))
        \/ src' \in Partly(src, h.pend) /\ Step(p, Answer(proc[p], "err"))
     /\ UNCHANGED <<cat, history, budget>>

\* The handle cache is full of other sessions.
Evict(p) ==
  /\ Idle(p)
  /\ proc[p].handle # None
  /\ proc[p].handle.pend = {} /\ ~ proc[p].handle.dirty
  /\ Step(p, [proc[p] EXCEPT !.handle = None])
  /\ cat' = Orphaned(cat, p)
  /\ UNCHANGED <<src, history, budget>>

(***************************************************************************)
(* repair: drain the handle, mark, scan, sync, apply, clear the marker.    *)
(***************************************************************************)
RepairBegin(p) ==
  LET h == proc[p].handle
      r == [Begin(p, "repair", "rmark") EXCEPT !.handle = None]
  IN /\ Idle(p)
     /\ \/ /\ h = None \/ ~ src.visible
           /\ src' = src /\ cat' = Orphaned(cat, p)
           /\ Step(p, IF h # None /\ h.pend # {} THEN Answer(r, "err") ELSE r)
        \/ /\ h # None /\ src.visible
           /\ src' = Persisted(src, h.pend) /\ cat' = Orphaned(cat, p)
           /\ Step(p, r)
        \/ /\ h # None /\ src.visible
           /\ src' \in Partly(src, h.pend) /\ cat' = cat
           /\ Step(p, Answer([r EXCEPT !.handle = h], "err"))
     /\ UNCHANGED <<history, budget>>

RepairMark(p) ==
  /\ At(p, "rmark")
  /\ cat' = [cat EXCEPT !.repair = TRUE]
  /\ Step(p, [proc[p] EXCEPT !.pc = "scan", !.needs = TRUE])
  /\ UNCHANGED <<src, history, budget>>

RepairScan(p) ==
  /\ At(p, "scan")
  /\ Step(p, [proc[p] EXCEPT !.pc = "rsync",
       !.scan = [file   |-> IF ~ src.visible THEN "missing"
                            ELSE IF src.torn THEN "unresolved" ELSE "rebuilt",
                 facts  |-> src.facts,
                 row    |-> cat.row # None,
                 intent |-> cat.intents # {}]])
  /\ UNCHANGED <<src, cat, history, budget>>

\* The directory is synced before a missing row is pruned and before the
\* intents of a rebuilt session are cleared.
MustSync(v) == \/ v.file = "missing" /\ v.row
               \/ v.file = "rebuilt" /\ v.intent

\* Fault: repair trusts the directory as it sees it.
RepairUnsynced(p) ==
  /\ At(p, "rsync")
  /\ src' = src
  /\ Step(p, [proc[p] EXCEPT !.pc = "apply"])
  /\ UNCHANGED <<cat, history, budget>>

RepairSync(p) ==
  /\ At(p, "rsync")
  /\ src' = IF MustSync(proc[p].scan) THEN SyncDir(src) ELSE src
  /\ Step(p, [proc[p] EXCEPT !.pc = "apply"])
  /\ UNCHANGED <<cat, history, budget>>

\* Fault: a source that cannot be read loses its intents with the others.
AppliedResolvingAll(c, v) ==
  [c EXCEPT !.repair = FALSE, !.intents = {},
            !.row = IF v.file = "rebuilt" THEN v.facts
                    ELSE IF v.file = "missing" THEN None ELSE @]

\* apply_repair, one transaction: a session whose file is complete is
\* rebuilt, one whose file is missing is pruned, an intent without a row or
\* a file is abandoned; one that cannot be read keeps its row and an intent.
Applied(c, v) ==
  [c EXCEPT !.repair = FALSE,
            !.row = IF v.file = "rebuilt" THEN v.facts
                    ELSE IF v.file = "missing" THEN None ELSE @,
            !.intents = IF v.file = "unresolved" THEN @ \cup {"repair"}
                        ELSE IF v.file = "rebuilt" \/ v.row \/ v.intent THEN {} ELSE @]

RepairApply(p) ==
  /\ At(p, "apply")
  /\ cat' = Applied(cat, proc[p].scan)
  /\ Step(p, [proc[p] EXCEPT !.pc = "unmark"])
  /\ UNCHANGED <<src, history, budget>>

RepairUnmark(p) ==
  /\ At(p, "unmark")
  /\ cat' = [cat EXCEPT !.marker = FALSE]
  /\ Step(p, Answer([proc[p] EXCEPT !.needs = Obliged(cat)], "ok"))
  /\ UNCHANGED <<src, history, budget>>

\* The marker could not be removed: the repair is due again.
RepairUnmarkFails(p) ==
  /\ At(p, "unmark") /\ cat.marker
  /\ cat' \in Rearmed(cat) \cup {[x EXCEPT !.marker = FALSE] : x \in Rearmed(cat)}
  /\ Step(p, Answer([proc[p] EXCEPT !.needs = TRUE], "err"))
  /\ UNCHANGED <<src, history, budget>>

RepairFails(p) ==
  /\ proc[p].pc \in {"rmark", "scan", "rsync", "apply"}
  /\ Step(p, Answer(proc[p], "err"))
  /\ UNCHANGED <<src, cat, history, budget>>

(***************************************************************************)
(* delete_session.                                                         *)
(***************************************************************************)
\* There is nothing to find: the answer is Ok.
DeleteNothing(p) ==
  /\ Idle(p) /\ creator # None
  /\ proc[p].handle = None /\ cat.row = None /\ ~ src.visible
  /\ gone' = TRUE
  /\ Step(p, [proc[p] EXCEPT !.answer = "ok"])
  /\ UNCHANGED <<src, cat, creator, wanted, deleted, used, budget>>

\* The intent, then the handle goes and its recorder with it.
DeleteBegin(p) ==
  /\ Idle(p)
  /\ proc[p].handle # None \/ cat.row # None \/ src.visible
  /\ cat' = Orphaned(WithIntent(cat, p), p)
  /\ src' \in Dropped(src, proc[p].handle)
  /\ Step(p, [Begin(p, "delete", "unlink") EXCEPT !.handle = None, !.needs = TRUE])
  /\ UNCHANGED <<history, budget>>

Unlink(p) ==
  /\ At(p, "unlink")
  /\ src' = [src EXCEPT !.visible = FALSE]
  /\ wanted' = FALSE
  /\ Step(p, [proc[p] EXCEPT !.pc = "unlinked"])
  /\ UNCHANGED <<cat, creator, deleted, gone, used, budget>>

\* Fault: the row goes before the directory is synced.
DeleteUnsynced(p) ==
  /\ At(p, "unlinked")
  /\ src' = src
  /\ Step(p, [proc[p] EXCEPT !.pc = "delrow"])
  /\ UNCHANGED <<cat, history, budget>>

SyncUnlinked(p) ==
  /\ At(p, "unlinked")
  /\ src' = SyncDir(src)
  /\ Step(p, [proc[p] EXCEPT !.pc = "delrow"])
  /\ UNCHANGED <<cat, history, budget>>

DeleteRow(p) ==
  /\ At(p, "delrow")
  /\ cat' = [cat EXCEPT !.row = None, !.intents = {}]
  /\ deleted' = TRUE /\ gone' = TRUE
  /\ Step(p, Answer([proc[p] EXCEPT !.needs = Obliged(cat')], "ok"))
  /\ UNCHANGED <<src, creator, wanted, used, budget>>

DeleteFails(p) ==
  /\ proc[p].pc \in {"unlink", "unlinked", "delrow"}
  /\ Step(p, Answer(proc[p], "err"))
  /\ UNCHANGED <<src, cat, history, budget>>

(***************************************************************************)
(* The end of a process, and the environment.                              *)
(***************************************************************************)
Leaves(p) == creator' = IF creator = p THEN "gone" ELSE creator

\* LocalSessionStore is dropped: recorders write what is pending.
Close(p) ==
  /\ Idle(p)
  /\ src' \in Dropped(src, proc[p].handle)
  /\ cat' = Orphaned(cat, p)
  /\ Step(p, Down) /\ Leaves(p)
  /\ UNCHANGED <<wanted, deleted, gone, used, budget>>

Kill(p) ==
  /\ ~ At(p, "down")
  /\ cat' = Orphaned(cat, p)
  /\ Step(p, Down) /\ Leaves(p)
  /\ UNCHANGED <<src, wanted, deleted, gone, used, budget>>

\* What was not synced may be lost: the directory entry is as it is now or as
\* it was synced, and of the records those that were synced are left, with
\* some of the others and perhaps the beginning of one.
AfterPowerLoss(s, entry, survivors, torn) ==
  IF entry
  THEN [visible |-> TRUE, linked |-> TRUE, facts |-> s.synced \cup survivors,
        synced |-> s.synced \cup survivors,
        torn |-> (s.torn \/ survivors # s.facts \ s.synced) /\ torn]
  ELSE NoFile

PowerLoss ==
  /\ crashes < MaxCrashes
  /\ crashes' = crashes + 1
  /\ \E entry \in {src.visible, src.linked}, survivors \in SUBSET (src.facts \ src.synced), torn \in BOOLEAN :
       src' = AfterPowerLoss(src, entry, survivors, torn)
  /\ cat' = [cat EXCEPT !.intents = {IF i \in Procs THEN "orphan" ELSE i : i \in @}]
  /\ proc' = [p \in Procs |-> Down]
  /\ creator' = IF creator = None THEN None ELSE "gone"
  /\ UNCHANGED <<wanted, deleted, gone, used, losses, starts>>

\* The index file is removed or damaged while no process runs.
LoseIndex ==
  /\ losses < MaxLosses
  /\ \A p \in Procs : At(p, "down")
  /\ losses' = losses + 1
  /\ cat' = [EmptyCatalog EXCEPT !.index = "missing", !.marker = cat.marker]
  /\ UNCHANGED <<src, proc, history, crashes, starts>>
-----------------------------------------------------------------------------
Operation(p) ==
  \/ OpenCatalog(p) \/ InitCatalog(p) \/ MarkOpened(p) \/ RepairIfNeeded(p)
  \/ CreateBegin(p) \/ Publish(p) \/ PublishFails(p) \/ SyncPublished(p)
  \/ SyncPublishedFails(p) \/ OpenCreated(p)
  \/ MutateBegin(p, "append") \/ MutateBegin(p, "leaf")
  \/ Wrote(p) \/ WroteUnread(p) \/ WriteFailed(p) \/ WriteRefused(p)
  \/ Project(p) \/ ProjectFails(p)
  \/ FlushBegin(p, "flush") \/ FlushBegin(p, "shutdown") \/ FlushHandle(p)
  \/ Evict(p)
  \/ RepairBegin(p) \/ RepairMark(p) \/ RepairScan(p) \/ RepairSync(p)
  \/ RepairApply(p) \/ RepairUnmark(p) \/ RepairUnmarkFails(p) \/ RepairFails(p)
  \/ DeleteNothing(p) \/ DeleteBegin(p) \/ Unlink(p) \/ SyncUnlinked(p)
  \/ DeleteRow(p) \/ DeleteFails(p)
  \/ Close(p) \/ Kill(p)

Next == (\E p \in Procs : Operation(p)) \/ PowerLoss \/ LoseIndex

Spec == Init /\ [][Next]_vars
-----------------------------------------------------------------------------
TypeOK ==
  /\ src \in [visible : BOOLEAN, linked : BOOLEAN, facts : SUBSET Facts,
              synced : SUBSET Facts, torn : BOOLEAN]
  /\ src.synced \subseteq src.facts
  /\ cat.row \in {None} \cup SUBSET Facts
  /\ cat.intents \subseteq Procs \cup {"orphan", "repair"}
  /\ \A p, q \in Procs : p # q => proc[p].pc \in Unlocked \/ proc[q].pc \in Unlocked
  /\ \A p \in Procs : proc[p].pc = "write" => proc[p].handle # None
  /\ \A p \in Procs : p \in cat.intents =>
       proc[p].handle # None \/ proc[p].op = "create"

\* Some process of the future will look at every source again.
Obligation == Obliged(cat) \/ cat.marker \/ cat.index = "missing"

\* Whatever step of create, append, set_leaf, flush, repair or a catalog
\* replacement fails or is cut short, a session whose file is there is
\* listed with all the facts that are durable, or an obligation to rebuild
\* its row is: no crash leaves a conversation on disk that nobody will show.
Recoverable ==
  src.visible /\ wanted =>
    Obligation \/ (cat.row # None /\ src.synced \subseteq cat.row)

\* A listed session has a file, whatever a power loss took back, or its row
\* is going to be looked at again: directory entries are synced before the
\* obligation goes that calls for it.  (When the index is lost the intents
\* are lost with it, and the repair that follows syncs nothing.)
NoGhostRow == losses = 0 /\ cat.row # None /\ ~ src.visible => Obligation

\* The invariant of the catalog: well-typed, and without ghost rows.
CatalogInv == TypeOK /\ NoGhostRow

\* A delete that removed the row is final: no later repair, retry or power
\* loss brings the file or the row back.
ConfirmedDeleteIsFinal ==
  deleted => ~ src.visible /\ ~ src.linked /\ cat.row = None

\* Any delete that was answered Ok is final, the one that found nothing to
\* do included (deletion.rs: the directory sync is run again "otherwise a
\* crash could resurrect the source").
AnsweredDeleteIsFinal == gone => ~ src.visible

\* A flush or shutdown that answers Ok has left nothing to recover: the row
\* is the file, unless the file ends in a torn record.
FlushSettles ==
  [][\A p \in Procs :
       proc[p].op \in {"flush", "shutdown"} /\ proc'[p].op = "none" /\ proc'[p].answer = "ok"
         => \/ src'.visible /\ src'.torn
            \/ ~ Obliged(cat') /\ cat'.row = IF src'.visible THEN src'.facts ELSE None]_vars
=============================================================================
