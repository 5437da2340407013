-------------------------- MODULE LocalStoreProofs --------------------------
(***************************************************************************)
(* What the local store keeps, for every set of processes and all bounds.  *)
(* StoreInv says what each stage of an operation may rely on while it has  *)
(* the domain lock, which directory entries are synced when no intent is   *)
(* left, and what is gone for good; a confirmed delete is final and a row  *)
(* without a file is going to be repaired because of it.                   *)
(***************************************************************************)
EXTENDS MCLocalStore, TLAPS

Files == [visible : BOOLEAN, linked : BOOLEAN, facts : SUBSET Facts, synced : SUBSET Facts,
          torn : BOOLEAN]
Catalogs == [index : {"ok", "missing"}, row : {None} \cup SUBSET Facts,
             intents : SUBSET (Procs \cup {"orphan", "repair"}), repair : BOOLEAN, marker : BOOLEAN]
Scans == [file : {"missing", "unresolved", "rebuilt"}, facts : SUBSET Facts, row : BOOLEAN,
          intent : BOOLEAN]

RepairStages == {"rmark", "scan", "rsync", "apply", "unmark"}
CreateStages == {"publish", "dirsync", "open"}
HandleStages == {"write", "drain", "project", "reproject"}
DeleteStages == {"unlink", "unlinked", "delrow"}
Stages == Unlocked \cup RepairStages \cup CreateStages \cup HandleStages \cup DeleteStages

Processes ==
  [pc : Stages, handle : {None} \cup Handles, needs : BOOLEAN, fact : Facts \cup {0},
   clear : BOOLEAN, scan : {None} \cup Scans, answer : {"none", "ok", "err"},
   op : {"none", "open", "create", "append", "leaf", "flush", "shutdown", "repair", "delete"}]

Types ==
  /\ src \in Files /\ src.synced \subseteq src.facts
  /\ cat \in Catalogs
  /\ proc \in [Procs -> Processes]
  /\ used \in 0 .. MaxFacts /\ losses \in Nat
  /\ deleted \in BOOLEAN /\ wanted \in BOOLEAN

\* What repair finds out.
Seen == [file   |-> IF ~ src.visible THEN "missing" ELSE IF src.torn THEN "unresolved" ELSE "rebuilt",
         facts  |-> src.facts,
         row    |-> cat.row # None,
         intent |-> cat.intents # {}]

\* What a process at each stage of its operation relies on.
InStage(p) ==
  LET r == proc[p] IN
  /\ r.pc \in Unlocked => r.op = "none"
  /\ r.pc \in {"down", "init", "mark", "ready"} \/ r.op = "open" => r.handle = None
  /\ r.pc # "reproject" => r.clear
  /\ r.pc \notin {"down", "init"} => cat.index = "ok"
  /\ p \in cat.intents => r.handle # None \/ r.op = "create"
  /\ r.pc \in {"rmark", "scan", "rsync", "apply", "unmark"} =>
       r.op # "create" /\ (r.op = "shutdown" => p \notin cat.intents)
  /\ r.pc \in CreateStages => r.op = "create" /\ r.handle = None /\ r.fact \in Facts
  /\ r.pc \in HandleStages => r.handle # None
  /\ r.pc \in HandleStages \cup {"dirsync", "open"} => src.visible
  /\ r.pc = "publish" => cat.row = None
  /\ r.pc = "write" => r.fact \in Facts
  /\ r.pc \in {"publish", "dirsync"} => p \in cat.intents
  /\ r.pc \in DeleteStages => r.op = "delete" /\ r.handle = None /\ "orphan" \in cat.intents
  /\ r.pc \in {"unlinked", "delrow"} => ~ src.visible
  /\ r.pc = "delrow" => ~ src.linked
  /\ r.pc \in {"rsync", "apply"} => r.scan = Seen
  /\ r.pc = "apply" /\ MustSync(r.scan) => src.linked = src.visible
  /\ r.pc = "unmark" => (cat.row # None => src.visible)

StageInv == \A p \in Procs : InStage(p)

\* The domain lock.
OneAtATime == \A p, q \in Procs : p # q => proc[p].pc \in Unlocked \/ proc[q].pc \in Unlocked

\* A directory entry that a power loss could take back is somebody's duty,
\* as long as no intent was lost with the index.
LinkInv ==
  losses = 0 =>
    /\ cat.index = "ok"
    /\ src.visible /\ ~ src.linked =>
         "orphan" \in cat.intents \/ \E p \in Procs : proc[p].pc = "dirsync"

DeleteInv ==
  deleted => /\ gone /\ ~ src.visible /\ ~ src.linked /\ cat.row = None
             /\ \A p \in Procs : proc[p].pc # "publish"

StoreInv == Types /\ OneAtATime /\ StageInv /\ LinkInv /\ NoGhostRow /\ DeleteInv
-----------------------------------------------------------------------------
(* The operators of the model. *)

(* An operation that ends leaves a process that holds nothing but its       *)
(* handle, or no process at all.                                            *)
LEMMA AnswerFacts ==
  ASSUME NEW r \in Processes, NEW a \in {"ok", "err"}
  PROVE /\ Answer(r, a) \in Processes
        /\ Answer(r, a).pc \in {"down", "idle"} /\ Answer(r, a).op = "none" /\ Answer(r, a).clear
        /\ Answer(r, a).pc = "down" => Answer(r, a).handle = None
        /\ Answer(r, a).handle \in {None, r.handle}
        /\ r.op # "open" => Answer(r, a).pc = "idle"
        /\ r.op \notin {"open", "shutdown"} \/ (a = "err" /\ r.op # "open") => Answer(r, a).handle = r.handle
        /\ Answer(r, a).answer \in {"none", a}
<1>1. CASE r.op = "open" /\ a = "err"
  BY <1>1 DEF Answer, Down, Processes, Stages, Unlocked
<1>2. CASE ~ (r.op = "open" /\ a = "err")
  <2>. DEFINE h == IF r.op = "shutdown" /\ a = "ok" THEN None ELSE r.handle
  <2>1. h \in {None} \cup Handles
    BY DEF Processes
  <2>2. Answer(r, a) = [r EXCEPT !.pc = "idle", !.op = "none", !.fact = 0, !.clear = TRUE,
                               !.scan = None, !.answer = a, !.handle = h]
    BY <1>2, Zenon DEF Answer
  <2>3. /\ h \in {None, r.handle}
        /\ r.op # "shutdown" \/ a = "err" => h = r.handle
    OBVIOUS
  <2>. HIDE DEF h
  <2>4. /\ Answer(r, a) \in Processes
        /\ Answer(r, a).pc = "idle" /\ Answer(r, a).op = "none" /\ Answer(r, a).clear
        /\ Answer(r, a).handle = h /\ Answer(r, a).answer = a
    BY <2>1, <2>2 DEF Processes, Stages, Unlocked
  <2>. QED BY <1>2, <2>3, <2>4
<1>. QED BY <1>1, <1>2

(* Intents that lose their owner stay.                                      *)
LEMMA OrphanedFacts ==
  ASSUME NEW c \in Catalogs, NEW p \in Procs
  PROVE /\ Orphaned(c, p) \in Catalogs
        /\ Orphaned(c, p).index = c.index /\ Orphaned(c, p).row = c.row
        /\ Orphaned(c, p).repair = c.repair /\ Orphaned(c, p).marker = c.marker
        /\ p \notin Orphaned(c, p).intents
        /\ \A i : i \in c.intents /\ i # p => i \in Orphaned(c, p).intents
        /\ \A q \in Procs : q \in Orphaned(c, p).intents => q \in c.intents
        /\ p \in c.intents => "orphan" \in Orphaned(c, p).intents
        /\ Orphaned(c, p).intents = {} <=> c.intents = {}
        /\ Obliged(Orphaned(c, p)) <=> Obliged(c)
  BY StoreAssumption DEF Orphaned, Catalogs, Obliged

(* A new intent takes none away.                                            *)
LEMMA WithIntentFacts ==
  ASSUME NEW c \in Catalogs, NEW p \in Procs
  PROVE /\ WithIntent(c, p) \in Catalogs
        /\ WithIntent(c, p).index = c.index /\ WithIntent(c, p).row = c.row
        /\ WithIntent(c, p).repair = c.repair /\ WithIntent(c, p).marker = c.marker
        /\ WithIntent(c, p).intents = c.intents \cup {p}
        /\ Obliged(WithIntent(c, p))
  BY StoreAssumption DEF WithIntent, Catalogs, Obliged

(* Writing touches the records only: no name appears or goes.               *)
LEMMA PersistedFacts ==
  ASSUME NEW s \in Files, NEW more \in SUBSET Facts
  PROVE /\ Persisted(s, more) \in Files
        /\ Persisted(s, more).synced = Persisted(s, more).facts
        /\ Persisted(s, more).facts = s.facts \cup more
        /\ Persisted(s, more).visible = s.visible /\ Persisted(s, more).linked = s.linked
        /\ more = {} => Stamp(Persisted(s, more)) = Stamp(s)
  BY DEF Persisted, Files, Stamp

\* A failed write leaves a prefix of the batch, and the names as they
\* were.
LEMMA PartlyFacts ==
  ASSUME NEW s \in Files, s.synced \subseteq s.facts, NEW more \in SUBSET Facts, NEW x \in Partly(s, more)
  PROVE /\ x \in Files /\ x.synced \subseteq x.facts
        /\ x.visible = s.visible /\ x.linked = s.linked
        /\ more = {} => x = s
<1>1. CASE more = {}
  BY <1>1 DEF Partly
<1>2. CASE more # {}
  <2>1. PICK m \in SUBSET more, t \in BOOLEAN : x = [s EXCEPT !.facts = @ \cup m, !.torn = t]
    BY <1>2, Zenon DEF Partly
  <2>. QED BY <1>2, <2>1 DEF Files
<1>. QED BY <1>1, <1>2

\* Opening a file cuts its torn end only.
LEMMA ReopenedFacts ==
  ASSUME NEW s \in Files, s.synced \subseteq s.facts
  PROVE /\ Reopened(s) \in Files /\ Reopened(s).synced \subseteq Reopened(s).facts
        /\ Reopened(s).facts = s.facts
        /\ Reopened(s).visible = s.visible /\ Reopened(s).linked = s.linked
  BY DEF Reopened, Files

\* A new handle knows the file as it is.
LEMMA HandleFacts ==
  ASSUME NEW s \in Files
  PROVE /\ Handle(s) \in Handles /\ Handle(s) # None
        /\ Handle(s).pend = {} /\ Handle(s).seen = s.facts /\ Handle(s).stamp = Stamp(s)
<1>1. <<s.facts, s.torn>> \in (SUBSET Facts) \X BOOLEAN
  BY DEF Files
<1>2. s.facts \in SUBSET Facts
  BY DEF Files
<1>3. Handle(s) \in Handles
  BY <1>1, <1>2 DEF Handle, Handles, Stamp
<1>. QED BY <1>3, StoreAssumption DEF Handle

\* A recorder that is dropped writes no more than it had pending.
LEMMA DroppedFacts ==
  ASSUME NEW s \in Files, s.synced \subseteq s.facts, NEW h \in {None} \cup Handles, NEW x \in Dropped(s, h)
  PROVE /\ x \in Files /\ x.synced \subseteq x.facts
        /\ x.visible = s.visible /\ x.linked = s.linked
        /\ x # s => h # None /\ h.pend # {}
<1>1. CASE h = None \/ ~ s.visible \/ h.pend = {}
  BY <1>1 DEF Dropped
<1>2. CASE h # None /\ s.visible /\ h.pend # {}
  <2>1. h.pend \in SUBSET Facts
    BY <1>2 DEF Handles
  <2>2. x = Persisted(s, h.pend) \/ x \in Partly(s, h.pend)
    BY <1>2 DEF Dropped
  <2>3. CASE x = Persisted(s, h.pend)
    BY <1>2, <2>1, <2>3, PersistedFacts DEF Files
  <2>4. CASE x \in Partly(s, h.pend)
    <3>1. x \in Files /\ x.synced \subseteq x.facts /\ x.visible = s.visible /\ x.linked = s.linked
      BY <2>1, <2>4, PartlyFacts
    <3>. QED BY <1>2, <3>1
  <2>. QED BY <2>2, <2>3, <2>4
<1>. QED BY <1>1, <1>2

\* What ensure_handle promises of its outcome e.
Ensures(s, h, e) ==
  /\ e.src \in Files /\ e.src.synced \subseteq e.src.facts
  /\ e.src.visible = s.visible /\ e.src.linked = s.linked
  /\ e.handle \in {None} \cup Handles /\ e.ok \in BOOLEAN /\ e.same \in BOOLEAN
  /\ e.same => e.handle = h /\ h # None
  /\ e.ok => /\ s.visible /\ e.handle # None /\ e.handle.stamp = Stamp(e.src)
             /\ e.same => e.src = s
             /\ ~ e.same => e.handle = Handle(e.src)
  /\ ~ e.ok /\ ~ e.same => e.handle = None
  /\ e.src # s \/ ~ e.same => h = None \/ h.pend # {} \/ h.stamp # Stamp(s)
  /\ h = None /\ ~ e.ok => e.src = s
  /\ ~ s.visible => e.src = s /\ ~ e.ok

(* A handle that can be used is the one the process had, and its file has   *)
(* not changed behind it, or a new one of a listed session.                 *)
LEMMA OpenHandleFacts ==
  ASSUME NEW s \in Files, s.synced \subseteq s.facts, NEW c \in Catalogs, NEW e \in OpenHandle(s, c)
  PROVE /\ e.src \in Files /\ e.src.synced \subseteq e.src.facts
        /\ e.src.visible = s.visible /\ e.src.linked = s.linked
        /\ e.handle \in {None} \cup Handles /\ e.ok \in BOOLEAN /\ e.same \in BOOLEAN /\ ~ e.same
        /\ e.ok => /\ s.visible /\ c.row # None /\ e.handle = Handle(e.src) /\ e.src = Reopened(s)
        /\ ~ e.ok => e.src = s /\ e.handle = None
<1>1. CASE e = Ensured(s, None, FALSE, FALSE)
  BY <1>1 DEF Ensured
<1>2. CASE s.visible /\ c.row # None /\ e = Ensured(Reopened(s), Handle(Reopened(s)), TRUE, FALSE)
  <2>1. Reopened(s) \in Files /\ Handle(Reopened(s)) \in Handles
    BY ReopenedFacts, HandleFacts
  <2>. QED BY <1>2, <2>1, ReopenedFacts DEF Ensured
<1>. QED BY <1>1, <1>2 DEF OpenHandle

\* ensure_handle keeps its promise.
LEMMA EnsureHandleFacts ==
  ASSUME NEW s \in Files, s.synced \subseteq s.facts, NEW c \in Catalogs,
         NEW h \in {None} \cup Handles, NEW e \in EnsureHandle(s, c, h)
  PROVE Ensures(s, h, e)
<1>. USE DEF Ensures
<1>1. CASE h = None
  <2>1. e \in OpenHandle(s, c)
    BY <1>1 DEF EnsureHandle
  <2>2. /\ e.src \in Files /\ e.src.synced \subseteq e.src.facts
        /\ e.src.visible = s.visible /\ e.src.linked = s.linked
        /\ e.handle \in {None} \cup Handles /\ e.ok \in BOOLEAN /\ e.same \in BOOLEAN /\ ~ e.same
        /\ e.ok => s.visible /\ e.handle = Handle(e.src)
        /\ ~ e.ok => e.src = s /\ e.handle = None
    BY <2>1, OpenHandleFacts, Zenon
  <2>. QED BY <1>1, <2>2, HandleFacts DEF Files
<1>2. CASE h # None /\ ~ s.visible
  <2>1. e = Ensured(s, h, FALSE, TRUE)
    BY <1>2 DEF EnsureHandle
  <2>. QED BY <1>2, <2>1 DEF Ensured
<1>3. CASE h # None /\ s.visible /\ h.stamp = Stamp(s)
  <2>1. e = Ensured(s, h, TRUE, TRUE)
    BY <1>3 DEF EnsureHandle
  <2>. QED BY <1>3, <2>1 DEF Ensured
<1>4. CASE h # None /\ s.visible /\ h.stamp # Stamp(s)
  <2>. h.pend \in SUBSET Facts
    BY <1>4 DEF Handles
  <2>1. CASE e \in OpenHandle(IF h.pend = {} THEN s ELSE Persisted(s, h.pend), c)
    <3>. DEFINE t == IF h.pend = {} THEN s ELSE Persisted(s, h.pend)
    <3>1. t \in Files /\ t.synced \subseteq t.facts /\ t.visible = s.visible /\ t.linked = s.linked
      BY PersistedFacts DEF Files
    <3>2. e \in OpenHandle(t, c)
      BY <2>1 DEF t
    <3>3. h.pend = {} => t = s
      BY DEF t
    <3>. HIDE DEF t
    <3>4. /\ e.src \in Files /\ e.src.synced \subseteq e.src.facts
          /\ e.src.visible = t.visible /\ e.src.linked = t.linked
          /\ e.handle \in {None} \cup Handles /\ e.ok \in BOOLEAN /\ e.same \in BOOLEAN /\ ~ e.same
          /\ e.ok => e.handle = Handle(e.src)
          /\ ~ e.ok => e.handle = None
      BY <3>1, <3>2, OpenHandleFacts, Zenon
    <3>. QED BY <1>4, <3>1, <3>4, HandleFacts
  <2>2. CASE h.pend # {} /\ \E x \in Partly(s, h.pend) : e = Ensured(x, h, FALSE, TRUE)
    <3>1. PICK x \in Partly(s, h.pend) : e = Ensured(x, h, FALSE, TRUE)
      BY <2>2
    <3>2. x \in Files /\ x.synced \subseteq x.facts /\ x.visible = s.visible /\ x.linked = s.linked
      BY PartlyFacts
    <3>. QED BY <1>4, <2>2, <3>1, <3>2 DEF Ensured
  <2>. QED BY <1>4, <2>1, <2>2 DEF EnsureHandle
<1>. QED BY <1>1, <1>2, <1>3, <1>4

(* A repair that ends without an intent has synced what it rebuilt.         *)
LEMMA AppliedFacts ==
  ASSUME NEW c \in Catalogs, NEW v \in Scans
  PROVE /\ Applied(c, v) \in Catalogs
        /\ Applied(c, v).index = c.index /\ Applied(c, v).marker = c.marker /\ ~ Applied(c, v).repair
        /\ v.file = "rebuilt" => Applied(c, v).row = v.facts /\ Applied(c, v).intents = {}
        /\ v.file = "missing" => Applied(c, v).row = None
        /\ v.file = "missing" /\ (v.row \/ v.intent) => Applied(c, v).intents = {}
        /\ v.file = "missing" /\ ~ (v.row \/ v.intent) => Applied(c, v).intents = c.intents
        /\ v.file = "unresolved" => /\ Applied(c, v).row = c.row
                                    /\ Applied(c, v).intents = c.intents \cup {"repair"}
  BY StoreAssumption DEF Applied, Catalogs, Scans

(* One process moves. *)

(* A step under the lock finds every other process outside its operations,  *)
(* and a step outside it changes nothing that another one relies on.        *)
Apart(p, r) ==
  \/ proc[p].pc \notin Unlocked \/ LockFree
  \/ /\ r.pc \in Unlocked
     /\ src' = src /\ cat'.row = cat.row
     /\ cat'.intents = {} <=> cat.intents = {}
     /\ \A i \in Procs \cup {"orphan"} : i # p /\ i \in cat.intents => i \in cat'.intents

\* What a step of one process leaves to the others.
LEMMA Others ==
  ASSUME Types, OneAtATime, StageInv, NEW p \in Procs, NEW r \in Processes, Step(p, r), Apart(p, r),
         cat' \in Catalogs, cat'.index \in {"ok", cat.index},
         \A q \in Procs : q # p /\ q \in cat'.intents => q \in cat.intents
  PROVE /\ proc' \in [Procs -> Processes] /\ proc'[p] = r
        /\ \A q \in Procs : q # p => proc'[q] = proc[q]
        /\ OneAtATime'
        /\ \A q \in Procs : q # p => InStage(q)'
<1>1. proc' \in [Procs -> Processes] /\ proc'[p] = r
  BY DEF Types, Step
<1>2. \A q \in Procs : q # p => proc'[q] = proc[q]
  BY DEF Types, Step
<1>3. OneAtATime'
  BY <1>1, <1>2, Zenon DEF OneAtATime, Apart, LockFree
<1>4. ASSUME NEW q \in Procs, q # p
      PROVE InStage(q)'
  <2>1. proc'[q] = proc[q] /\ (q \in cat'.intents => q \in cat.intents) /\ InStage(q)
    BY <1>2, <1>4 DEF StageInv
  <2>2. CASE proc[q].pc \in Unlocked
    BY <2>1, <2>2 DEF InStage, Unlocked, CreateStages, HandleStages, DeleteStages
  <2>3. CASE proc[q].pc \notin Unlocked
    <3>1. proc[p].pc \in Unlocked /\ ~ LockFree
      BY <1>4, <2>3 DEF OneAtATime, LockFree
    <3>2. Apart(p, r)
      OBVIOUS
    <3>3. /\ src' = src /\ cat'.row = cat.row
          /\ cat'.intents = {} <=> cat.intents = {}
          /\ "orphan" \in cat.intents => "orphan" \in cat'.intents
          /\ q \in cat.intents => q \in cat'.intents
      BY <1>4, <3>1, <3>2, StoreAssumption DEF Apart
    <3>4. Seen' = Seen
      BY <3>3 DEF Seen
    <3>5. cat'.index = "ok"
      BY <2>1, <2>3 DEF InStage, Unlocked
    <3>. QED BY <2>1, <3>3, <3>4, <3>5 DEF InStage
  <2>. QED BY <2>2, <2>3
<1>. QED BY <1>1, <1>2, <1>3, <1>4

(* What is left to show of a step.                                          *)
LEMMA Keeps ==
  ASSUME StoreInv, NEW p \in Procs, NEW r \in Processes, Step(p, r), Apart(p, r),
         Types', cat'.index \in {"ok", cat.index}, losses' = losses,
         \A q \in Procs : q # p /\ q \in cat'.intents => q \in cat.intents,
         InStage(p)',
         losses = 0 /\ src'.visible /\ ~ src'.linked =>
           \/ "orphan" \in cat'.intents
           \/ r.pc = "dirsync"
           \/ "orphan" \notin cat.intents /\ src.visible /\ ~ src.linked /\ proc[p].pc # "dirsync",
         NoGhostRow',
         deleted' => /\ gone' /\ ~ src'.visible /\ ~ src'.linked /\ cat'.row = None
                     /\ r.pc # "publish" /\ (deleted \/ proc[p].pc \notin Unlocked)
  PROVE StoreInv'
<1>1. Types /\ OneAtATime /\ StageInv /\ LinkInv /\ DeleteInv
  BY DEF StoreInv
<1>2. /\ proc'[p] = r
      /\ \A q \in Procs : q # p => proc'[q] = proc[q]
      /\ OneAtATime'
      /\ \A q \in Procs : q # p => InStage(q)'
  BY <1>1, Others DEF Types
<1>3. StageInv'
  BY <1>2 DEF StageInv
<1>4. LinkInv'
  <2>1. SUFFICES ASSUME losses = 0, src'.visible, ~ src'.linked, "orphan" \notin cat'.intents, r.pc # "dirsync"
                 PROVE \E q \in Procs : proc'[q].pc = "dirsync"
    BY <1>1, <1>2 DEF LinkInv
  <2>2. PICK q \in Procs : proc[q].pc = "dirsync"
    BY <1>1, <2>1 DEF LinkInv
  <2>3. q # p
    BY <2>1, <2>2
  <2>. QED BY <1>2, <2>2, <2>3
<1>5. DeleteInv'
  <2>1. SUFFICES ASSUME deleted', NEW q \in Procs, proc'[q].pc = "publish"
                 PROVE FALSE
    BY DEF DeleteInv
  <2>2. q # p /\ proc[q].pc = "publish"
    BY <1>2, <2>1
  <2>3. proc[p].pc \in Unlocked
    BY <1>1, <2>2 DEF OneAtATime, Unlocked
  <2>. QED BY <1>1, <2>1, <2>2, <2>3 DEF DeleteInv
<1>. QED BY <1>2, <1>3, <1>4, <1>5 DEF StoreInv

(* Most steps touch no directory entry, and the row only of a session that  *)
(* has a file.                                                              *)
Quiet(p, r) ==
  /\ Step(p, r) /\ Apart(p, r)
  /\ src' \in Files /\ src'.synced \subseteq src'.facts
  /\ src'.visible = src.visible /\ src'.linked = src.linked
  /\ cat' \in Catalogs /\ cat'.index \in {"ok", cat.index}
  /\ \A q \in Procs : q # p /\ q \in cat'.intents => q \in cat.intents
  /\ "orphan" \in cat.intents => "orphan" \in cat'.intents
  /\ proc[p].pc = "dirsync" => "orphan" \in cat'.intents
  /\ \/ src.visible
     \/ cat'.row = None
     \/ cat'.row = cat.row /\ (losses = 0 /\ Obligation => Obligation')
  /\ used' \in 0 .. MaxFacts /\ UNCHANGED <<wanted, deleted, gone, losses>>
  /\ r.pc = "publish" => ~ gone

\* A step that touches no directory entry keeps the invariant if its own
\* stage is in order.
LEMMA QuietKeeps ==
  ASSUME StoreInv, NEW p \in Procs, NEW r \in Processes, Quiet(p, r), InStage(p)'
  PROVE StoreInv'
<1>1. Types' /\ losses' = losses
  <2>1. proc' \in [Procs -> Processes]
    BY DEF Quiet, Step, StoreInv, Types
  <2>. QED BY <2>1 DEF Quiet, StoreInv, Types
<1>2. losses = 0 /\ src'.visible /\ ~ src'.linked =>
           \/ "orphan" \in cat'.intents
           \/ "orphan" \notin cat.intents /\ src.visible /\ ~ src.linked /\ proc[p].pc # "dirsync"
  BY DEF Quiet
<1>3. NoGhostRow'
  BY DEF Quiet, StoreInv, NoGhostRow
<1>4. deleted' => /\ gone' /\ ~ src'.visible /\ ~ src'.linked /\ cat'.row = None
                  /\ r.pc # "publish" /\ deleted
  BY DEF Quiet, StoreInv, DeleteInv
<1>. QED BY <1>1, <1>2, <1>3, <1>4, Keeps DEF Quiet

\* An operation is over, or never began.
Rests(r) ==
  /\ r \in Processes
  /\ r.pc \in {"down", "idle"} /\ r.op = "none" /\ r.clear
  /\ r.pc = "down" => r.handle = None

\* So does one that ends an operation.
LEMMA RestKeeps ==
  ASSUME StoreInv, NEW p \in Procs, NEW r, Rests(r), Quiet(p, r),
         p \in cat'.intents => r.handle # None, r.pc = "down" \/ cat'.index = "ok"
  PROVE StoreInv'
<1>1. proc'[p] = r
  BY DEF Quiet, Step, StoreInv, Types
<1>2. InStage(p)'
  BY <1>1 DEF InStage, Rests, Unlocked, CreateStages, HandleStages, DeleteStages
<1>. QED BY <1>2, QuietKeeps DEF Rests

(* Answer ends an operation.                                                *)
LEMMA AnswerRests ==
  ASSUME NEW r \in Processes, NEW a \in {"ok", "err"}
  PROVE Rests(Answer(r, a))
  BY AnswerFacts, Zenon DEF Rests

\* A process that ended holds nothing.
LEMMA DownRests == Rests(Down)
  BY DEF Rests, Down, Processes, Stages, Unlocked

\* What the invariant says of one process and of the file.
LEMMA StageFacts ==
  ASSUME StoreInv, NEW p \in Procs
  PROVE /\ Types /\ proc[p] \in Processes /\ InStage(p)
        /\ src \in Files /\ src.synced \subseteq src.facts /\ cat \in Catalogs
        /\ proc[p].handle \in {None} \cup Handles
        /\ proc[p].handle # None => proc[p].handle.pend \in SUBSET Facts
        /\ \A r : Step(p, r) => proc'[p] = r
  BY DEF StoreInv, StageInv, Types, Processes, Handles, Step

(* The operations, one by one.                                              *)

\* Catalog::open up to the repair it may need.
LEMMA OpeningKeeps ==
  ASSUME StoreInv, NEW p \in Procs,
         OpenCatalog(p) \/ InitCatalog(p) \/ MarkOpened(p) \/ RepairIfNeeded(p)
  PROVE StoreInv'
<1>. USE StageFacts
<1>1. CASE OpenCatalog(p)
  <2>. DEFINE r == [Down EXCEPT !.pc = IF cat.index = "missing" THEN "init"
                                       ELSE IF cat.marker THEN "mark" ELSE "ready",
                                !.needs = Obliged(cat)]
  <2>1. /\ Step(p, r) /\ r \in Processes /\ r.pc \in {"init", "mark", "ready"}
        /\ r.op = "none" /\ r.handle = None /\ r.clear
        /\ r.pc # "init" => cat.index = "ok"
    BY <1>1 DEF OpenCatalog, Down, Processes, Stages, Unlocked, Obliged, Catalogs
  <2>2. /\ cat' \in Catalogs /\ cat'.index = cat.index /\ cat'.row = cat.row /\ cat'.intents = cat.intents
        /\ Obligation => Obligation'
    BY <1>1 DEF OpenCatalog, Catalogs, Obligation, Obliged
  <2>3. proc[p].pc = "down" /\ UNCHANGED <<src, used, wanted, deleted, gone, losses>>
    BY <1>1 DEF OpenCatalog, At, history
  <2>4. Quiet(p, r)
    BY <2>1, <2>2, <2>3 DEF Quiet, Apart, Unlocked, Types
  <2>5. InStage(p)'
    BY <2>1, <2>2, <2>3 DEF InStage, Unlocked, CreateStages, HandleStages, DeleteStages
  <2>. QED BY <2>1, <2>4, <2>5, QuietKeeps
<1>2. CASE InitCatalog(p)
  <2>. DEFINE r == [proc[p] EXCEPT !.pc = "mark"]
  <2>1. /\ Step(p, r) /\ r \in Processes /\ r.pc = "mark"
        /\ r.op = proc[p].op /\ r.handle = proc[p].handle /\ r.clear = proc[p].clear
    BY <1>2 DEF InitCatalog, Processes, Stages, Unlocked
  <2>2. /\ cat' \in Catalogs /\ cat'.index = "ok" /\ cat'.row = cat.row /\ cat'.intents = cat.intents
        /\ losses = 0 /\ Obligation => Obligation'
    BY <1>2 DEF InitCatalog, Catalogs, Obligation, Obliged, StoreInv, LinkInv
  <2>3. proc[p].pc = "init" /\ UNCHANGED <<src, used, wanted, deleted, gone, losses>>
    BY <1>2 DEF InitCatalog, At, history, budget
  <2>4. Quiet(p, r)
    BY <2>1, <2>2, <2>3 DEF Quiet, Apart, Unlocked, Types
  <2>5. InStage(p)'
    BY <2>1, <2>2, <2>3 DEF InStage, Unlocked, CreateStages, HandleStages, DeleteStages
  <2>. QED BY <2>1, <2>4, <2>5, QuietKeeps
<1>3. CASE MarkOpened(p)
  <2>1. proc[p].pc = "mark" /\ UNCHANGED <<src, used, wanted, deleted, gone, losses>>
    BY <1>3 DEF MarkOpened, At, history, budget
  <2>2. CASE cat' = cat /\ Step(p, Down)
    <3>1. Quiet(p, Down)
      BY <2>1, <2>2 DEF Quiet, Apart, Unlocked, Types, Down, Obligation
    <3>2. p \notin cat'.intents /\ Down.pc = "down"
      BY <2>1, <2>2 DEF InStage, Unlocked, Down
    <3>. QED BY <3>1, <3>2, DownRests, RestKeeps
  <2>3. CASE cat' = [cat EXCEPT !.repair = TRUE] /\ Step(p, [proc[p] EXCEPT !.pc = "ready", !.needs = TRUE])
    <3>. DEFINE r == [proc[p] EXCEPT !.pc = "ready", !.needs = TRUE]
    <3>1. /\ Step(p, r) /\ r \in Processes /\ r.pc = "ready"
          /\ r.op = proc[p].op /\ r.handle = proc[p].handle /\ r.clear = proc[p].clear
      BY <2>3 DEF Processes, Stages, Unlocked
    <3>2. /\ cat' \in Catalogs /\ cat'.index = cat.index /\ cat'.row = cat.row /\ cat'.intents = cat.intents
          /\ Obligation'
      BY <2>3 DEF Catalogs, Obligation, Obliged
    <3>3. Quiet(p, r)
      BY <2>1, <3>1, <3>2 DEF Quiet, Apart, Unlocked, Types
    <3>4. InStage(p)'
      BY <2>1, <3>1, <3>2 DEF InStage, Unlocked, CreateStages, HandleStages, DeleteStages
    <3>. QED BY <3>1, <3>3, <3>4, QuietKeeps
  <2>. QED BY <1>3, <2>2, <2>3 DEF MarkOpened
<1>4. CASE RepairIfNeeded(p)
  <2>. DEFINE r == IF proc[p].needs THEN Begin(p, "open", "rmark") ELSE [proc[p] EXCEPT !.pc = "idle"]
  <2>1. /\ Step(p, r) /\ r \in Processes /\ r.handle = proc[p].handle /\ r.clear = proc[p].clear
        /\ \/ r.pc = "rmark" /\ r.op = "open"
           \/ r.pc = "idle" /\ r.op = proc[p].op
    BY <1>4 DEF RepairIfNeeded, Begin, Processes, Stages, Unlocked, RepairStages
  <2>2. /\ proc[p].pc = "ready" /\ LockFree
        /\ UNCHANGED <<src, cat, used, wanted, deleted, gone, losses>>
    BY <1>4 DEF RepairIfNeeded, At, history, budget
  <2>3. Quiet(p, r)
    BY <2>1, <2>2 DEF Quiet, Apart, Types, Obligation
  <2>4. InStage(p)'
    BY <2>1, <2>2 DEF InStage, Unlocked, CreateStages, HandleStages, DeleteStages
  <2>. QED BY <2>1, <2>3, <2>4, QuietKeeps
<1>. QED BY <1>1, <1>2, <1>3, <1>4

\* create_session_with_entries.
LEMMA CreatingKeeps ==
  ASSUME StoreInv, NEW p \in Procs,
         \/ CreateBegin(p) \/ Publish(p) \/ PublishFails(p) \/ SyncPublished(p)
         \/ SyncPublishedFails(p) \/ OpenCreated(p)
  PROVE StoreInv'
<1>. USE StageFacts
<1>1. CASE CreateBegin(p)
  <2>. DEFINE r == [Begin(p, "create", "publish") EXCEPT !.needs = TRUE, !.fact = used']
  <2>1. used' \in Facts /\ used' \in 0 .. MaxFacts
    BY <1>1, StoreAssumption DEF CreateBegin, Types, Facts
  <2>2. /\ Step(p, r) /\ r \in Processes /\ r.pc = "publish" /\ r.op = "create"
        /\ r.handle = proc[p].handle /\ r.clear = proc[p].clear /\ r.fact = used'
    BY <1>1, <2>1 DEF CreateBegin, Begin, Processes, Stages, CreateStages
  <2>3. /\ cat' \in Catalogs /\ cat'.index = cat.index /\ cat'.row = cat.row
        /\ cat'.intents = cat.intents \cup {p} /\ Obligation'
    BY <1>1, WithIntentFacts DEF CreateBegin, Obligation
  <2>4. /\ proc[p].pc = "idle" /\ LockFree /\ ~ gone /\ proc[p].handle = None /\ cat.row = None
        /\ UNCHANGED <<src, wanted, deleted, gone, losses>>
    BY <1>1 DEF CreateBegin, Idle, budget
  <2>5. Quiet(p, r)
    BY <2>1, <2>2, <2>3, <2>4 DEF Quiet, Apart
  <2>6. InStage(p)'
    BY <2>1, <2>2, <2>3, <2>4 DEF InStage, Unlocked, CreateStages, HandleStages, DeleteStages
  <2>. QED BY <2>2, <2>5, <2>6, QuietKeeps
<1>2. CASE Publish(p)
  <2>. DEFINE r == [proc[p] EXCEPT !.pc = "dirsync"]
  <2>1. /\ Step(p, r) /\ r \in Processes /\ r.pc = "dirsync" /\ r.op = proc[p].op
        /\ r.handle = proc[p].handle /\ r.clear = proc[p].clear /\ r.fact = proc[p].fact
    BY <1>2 DEF Publish, Processes, Stages, CreateStages
  <2>2. proc[p].pc = "publish" /\ UNCHANGED <<cat, used, deleted, gone, losses>> /\ wanted' = TRUE
    BY <1>2 DEF Publish, At, budget
  <2>3. src' \in Files /\ src'.synced \subseteq src'.facts /\ src'.visible
    <3>1. proc[p].fact \in Facts
      BY <2>2 DEF InStage, CreateStages
    <3>2. src' = [src EXCEPT !.visible = TRUE, !.facts = {proc[p].fact}, !.synced = {proc[p].fact}, !.torn = FALSE]
      BY <1>2 DEF Publish
    <3>3. {proc[p].fact} \in SUBSET Facts /\ src \in Files
      BY <3>1
    <3>. QED BY <3>2, <3>3 DEF Files
  <2>4. p \in cat.intents
    BY <2>2 DEF InStage
  <2>5. Types'
    BY <2>1, <2>2, <2>3 DEF Types, Step
  <2>6. InStage(p)'
    BY <2>1, <2>2, <2>3, <2>4 DEF InStage, Unlocked, CreateStages, HandleStages, DeleteStages
  <2>7. NoGhostRow' /\ ~ deleted'
    BY <2>2, <2>3 DEF NoGhostRow, StoreInv, DeleteInv
  <2>. QED BY <2>1, <2>2, <2>5, <2>6, <2>7, Keeps DEF Apart, Unlocked
<1>3. CASE PublishFails(p)
  <2>. DEFINE r == IF cat' = Orphaned(cat, p) /\ Step(p, Answer(proc[p], "err")) THEN Answer(proc[p], "err")
                   ELSE Answer([proc[p] EXCEPT !.needs = Obliged(cat')], "err")
  <2>1. /\ proc[p].pc = "publish" /\ UNCHANGED <<src, used, wanted, deleted, gone, losses>>
        /\ proc[p].op = "create" /\ proc[p].handle = None /\ cat.index = "ok" /\ cat.row = None
    BY <1>3 DEF PublishFails, At, history, budget, InStage, CreateStages
  <2>2. [proc[p] EXCEPT !.needs = Obliged(cat')] \in Processes
    BY DEF Processes, Obliged
  <2>3. Step(p, r) /\ Rests(r)
    BY <1>3, <2>2, AnswerRests DEF PublishFails
  <2>4. /\ cat' \in Catalogs /\ cat'.index = cat.index /\ cat'.row = cat.row /\ p \notin cat'.intents
        /\ \A q \in Procs : q \in cat'.intents => q \in cat.intents
        /\ "orphan" \in cat.intents => "orphan" \in cat'.intents
    <3>1. CASE cat' = Orphaned(cat, p)
      BY <3>1, OrphanedFacts, StoreAssumption
    <3>2. CASE cat' = [cat EXCEPT !.intents = @ \ {p}]
      BY <3>2, StoreAssumption DEF Catalogs
    <3>. QED BY <1>3, <3>1, <3>2 DEF PublishFails
  <2>5. Quiet(p, r)
    BY <2>1, <2>3, <2>4 DEF Quiet, Apart, Unlocked, Types, Rests
  <2>. QED BY <2>1, <2>3, <2>4, <2>5, RestKeeps
<1>4. CASE SyncPublished(p)
  <2>. DEFINE r == [proc[p] EXCEPT !.pc = "open"]
  <2>1. /\ Step(p, r) /\ r \in Processes /\ r.pc = "open" /\ r.op = proc[p].op
        /\ r.handle = proc[p].handle /\ r.clear = proc[p].clear /\ r.fact = proc[p].fact
    BY <1>4 DEF SyncPublished, Processes, Stages, CreateStages
  <2>2. proc[p].pc = "dirsync" /\ UNCHANGED <<cat, used, deleted, wanted, gone, losses>>
    BY <1>4 DEF SyncPublished, At, history, budget
  <2>3. src' \in Files /\ src'.synced \subseteq src'.facts /\ src'.visible /\ src'.linked /\ src.visible
    BY <1>4, <2>2 DEF SyncPublished, SyncDir, Files, InStage
  <2>4. Types'
    BY <2>1, <2>2, <2>3 DEF Types, Step
  <2>5. InStage(p)'
    BY <2>1, <2>2, <2>3 DEF InStage, Unlocked, CreateStages, HandleStages, DeleteStages
  <2>6. NoGhostRow' /\ ~ deleted'
    BY <2>2, <2>3 DEF NoGhostRow, StoreInv, DeleteInv
  <2>. QED BY <2>1, <2>2, <2>3, <2>4, <2>5, <2>6, Keeps DEF Apart, Unlocked
<1>5. CASE SyncPublishedFails(p)
  <2>. DEFINE r == Answer(proc[p], "err")
  <2>1. /\ proc[p].pc = "dirsync" /\ UNCHANGED <<used, wanted, deleted, gone, losses>>
        /\ cat' = Orphaned(cat, p) /\ Step(p, r)
    BY <1>5 DEF SyncPublishedFails, At, history, budget
  <2>2. src.visible /\ p \in cat.intents /\ cat.index = "ok"
    BY <2>1 DEF InStage
  <2>3. src' \in Files /\ src'.synced \subseteq src'.facts /\ src'.visible
    BY <1>5, <2>2 DEF SyncPublishedFails, SyncDir, Files
  <2>4. /\ cat' \in Catalogs /\ cat'.index = "ok" /\ p \notin cat'.intents /\ "orphan" \in cat'.intents
        /\ \A q \in Procs : q \in cat'.intents => q \in cat.intents
    BY <2>1, <2>2, OrphanedFacts
  <2>5. Rests(r) /\ r \in Processes /\ proc'[p] = r
    BY <2>1, AnswerRests DEF Rests
  <2>. HIDE DEF r
  <2>6. Types'
    BY <2>1, <2>3, <2>4, <2>5 DEF Types, Step
  <2>7. InStage(p)'
    BY <2>3, <2>4, <2>5 DEF InStage, Rests, Unlocked, CreateStages, HandleStages, DeleteStages
  <2>8. NoGhostRow' /\ ~ deleted'
    BY <2>1, <2>2, <2>3 DEF NoGhostRow, StoreInv, DeleteInv
  <2>. QED BY <2>1, <2>4, <2>5, <2>6, <2>7, <2>8, Keeps DEF Apart, Unlocked
<1>6. CASE OpenCreated(p)
  <2>1. /\ proc[p].pc = "open" /\ UNCHANGED <<src, used, wanted, deleted, gone, losses>>
        /\ src.visible /\ cat.index = "ok" /\ proc[p].op = "create" /\ proc[p].handle = None
    BY <1>6 DEF OpenCreated, At, history, budget, InStage, CreateStages
  <2>2. CASE cat' = cat /\ Step(p, [proc[p] EXCEPT !.pc = "project", !.handle = Handle(src)])
    <3>. DEFINE r == [proc[p] EXCEPT !.pc = "project", !.handle = Handle(src)]
    <3>1. /\ Step(p, r) /\ r \in Processes /\ r.pc = "project" /\ r.op = proc[p].op
          /\ r.handle # None /\ r.clear = proc[p].clear
      BY <2>2, HandleFacts DEF Processes, Stages, HandleStages
    <3>2. Quiet(p, r)
      BY <2>1, <2>2, <3>1 DEF Quiet, Apart, Unlocked, Types, Obligation
    <3>3. InStage(p)'
      BY <2>1, <2>2, <3>1 DEF InStage, Unlocked, CreateStages, HandleStages, DeleteStages
    <3>. QED BY <3>1, <3>2, <3>3, QuietKeeps
  <2>3. CASE cat' = Orphaned(cat, p) /\ Step(p, Answer(proc[p], "err"))
    <3>1. Rests(Answer(proc[p], "err"))
      BY AnswerRests
    <3>2. /\ cat' \in Catalogs /\ cat'.index = "ok" /\ p \notin cat'.intents
          /\ \A q \in Procs : q \in cat'.intents => q \in cat.intents
          /\ "orphan" \in cat.intents => "orphan" \in cat'.intents
      BY <2>1, <2>3, OrphanedFacts, StoreAssumption
    <3>3. Quiet(p, Answer(proc[p], "err"))
      BY <2>1, <2>3, <3>1, <3>2 DEF Quiet, Apart, Unlocked, Types, Rests
    <3>. QED BY <3>1, <3>2, <3>3, RestKeeps
  <2>. QED BY <1>6, <2>2, <2>3 DEF OpenCreated
<1>. QED BY <1>1, <1>2, <1>3, <1>4, <1>5, <1>6

(* The rest an operation of one process leaves to the others.               *)
LEMMA KeptIntentsFacts ==
  ASSUME NEW c \in Catalogs, NEW p \in Procs, NEW e
  PROVE /\ KeptIntents(c, p, e) \in Catalogs
        /\ KeptIntents(c, p, e).index = c.index /\ KeptIntents(c, p, e).row = c.row
        /\ p \in KeptIntents(c, p, e).intents => e.same /\ p \in c.intents
        /\ \A q \in Procs : q \in KeptIntents(c, p, e).intents => q \in c.intents
        /\ "orphan" \in c.intents => "orphan" \in KeptIntents(c, p, e).intents
        /\ KeptIntents(c, p, e).intents = {} <=> c.intents = {}
        /\ KeptIntents(c, p, e).repair = c.repair /\ KeptIntents(c, p, e).marker = c.marker
        /\ e.same => KeptIntents(c, p, e) = c
<1>1. CASE e.same
  BY <1>1 DEF KeptIntents
<1>2. CASE ~ e.same
  <2>1. KeptIntents(c, p, e) = Orphaned(c, p)
    BY <1>2 DEF KeptIntents
  <2>. QED BY <1>2, <2>1, OrphanedFacts, StoreAssumption
<1>. QED BY <1>1, <1>2

\* append and set_leaf up to the write.
LEMMA MutateBeginKeeps ==
  ASSUME StoreInv, NEW p \in Procs, NEW operation \in {"append", "leaf"}, MutateBegin(p, operation)
  PROVE StoreInv'
<1>. USE StageFacts
<1>1. /\ proc[p].pc = "idle" /\ LockFree /\ used < MaxFacts /\ cat.index = "ok"
      /\ UNCHANGED <<wanted, deleted, gone, losses>>
  BY DEF MutateBegin, Idle, budget, InStage
<1>2. PICK e \in EnsureHandle(src, cat, proc[p].handle) :
        /\ src' = e.src
        /\ cat' = IF e.ok THEN WithIntent(KeptIntents(cat, p, e), p) ELSE KeptIntents(cat, p, e)
        /\ used' = IF e.ok THEN used + 1 ELSE used
        /\ Step(p, IF e.ok
                   THEN [Begin(p, operation, "write") EXCEPT
                           !.handle = e.handle, !.needs = TRUE, !.fact = used']
                   ELSE Answer([proc[p] EXCEPT !.handle = e.handle], "err"))
  BY DEF MutateBegin
<1>3. /\ e.src \in Files /\ e.src.synced \subseteq e.src.facts
      /\ e.src.visible = src.visible /\ e.src.linked = src.linked
      /\ e.handle \in {None} \cup Handles
      /\ e.same => e.handle = proc[p].handle /\ proc[p].handle # None
      /\ e.ok => src.visible /\ e.handle # None
      /\ ~ e.ok /\ ~ e.same => e.handle = None
  <2>1. Ensures(src, proc[p].handle, e)
    BY EnsureHandleFacts
  <2>. QED BY <2>1, Zenon DEF Ensures
<1>. DEFINE c == KeptIntents(cat, p, e)
<1>4. /\ c \in Catalogs /\ c.index = cat.index /\ c.row = cat.row
      /\ p \in c.intents => e.same /\ p \in cat.intents
      /\ \A q \in Procs : q \in c.intents => q \in cat.intents
      /\ "orphan" \in cat.intents => "orphan" \in c.intents
      /\ c.intents = {} <=> cat.intents = {}
      /\ c.repair = cat.repair /\ c.marker = cat.marker
  BY KeptIntentsFacts
<1>. HIDE DEF c
<1>5. CASE e.ok
  <2>. DEFINE r == [Begin(p, operation, "write") EXCEPT !.handle = e.handle, !.needs = TRUE, !.fact = used']
  <2>1. used' \in Facts /\ used' \in 0 .. MaxFacts
    BY <1>1, <1>2, <1>5, StoreAssumption DEF Types, Facts
  <2>2. /\ Step(p, r) /\ r \in Processes /\ r.pc = "write" /\ r.op = operation
        /\ r.handle = e.handle /\ r.clear = proc[p].clear /\ r.fact = used'
    <3>1. proc[p] \in Processes
      BY StageFacts
    <3>2. r = [proc[p] EXCEPT !.op = operation, !.pc = "write", !.answer = "none",
                              !.handle = e.handle, !.needs = TRUE, !.fact = used']
      BY <3>1 DEF Begin, Processes
    <3>3. Step(p, r)
      BY <1>2, <1>5
    <3>. HIDE DEF r
    <3>. QED BY <1>3, <2>1, <3>1, <3>2, <3>3 DEF Processes, Stages, HandleStages
  <2>3. /\ cat' \in Catalogs /\ cat'.index = cat.index /\ cat'.row = cat.row
        /\ cat'.intents = c.intents \cup {p}
    BY <1>2, <1>4, <1>5, WithIntentFacts DEF c
  <2>4. Quiet(p, r)
    BY <1>1, <1>2, <1>3, <1>4, <1>5, <2>1, <2>2, <2>3 DEF Quiet, Apart
  <2>5. src'.visible /\ e.handle # None
    BY <1>2, <1>3, <1>5, Zenon
  <2>6. InStage(p)'
    BY <1>1, <2>1, <2>2, <2>3, <2>5 DEF InStage, Unlocked, CreateStages, HandleStages, DeleteStages
  <2>. QED BY <2>2, <2>4, <2>6, QuietKeeps
<1>6. CASE ~ e.ok
  <2>. DEFINE r == Answer([proc[p] EXCEPT !.handle = e.handle], "err")
  <2>1. Rests(r) /\ r.handle = e.handle
    <3>1. [proc[p] EXCEPT !.handle = e.handle] \in Processes
      BY <1>3 DEF Processes
    <3>2. [proc[p] EXCEPT !.handle = e.handle].op = "none" /\ [proc[p] EXCEPT !.handle = e.handle].handle = e.handle
      BY <1>1 DEF InStage, Unlocked, Processes
    <3>. QED BY <3>1, <3>2, AnswerRests, AnswerFacts
  <2>2. Step(p, r) /\ cat' = c /\ used' = used
    BY <1>2, <1>6 DEF c
  <2>. HIDE DEF r
  <2>3. Quiet(p, r)
    BY <1>1, <1>2, <1>3, <1>4, <2>1, <2>2 DEF Quiet, Apart, Types, Rests, Obligation, Obliged
  <2>4. p \in cat'.intents => r.handle # None
    BY <1>3, <1>4, <2>1, <2>2
  <2>. QED BY <1>1, <1>4, <2>1, <2>2, <2>3, <2>4, RestKeeps
<1>. QED BY <1>5, <1>6

\* What a failed write leaves: the file and the batch.
LeftBehind(s, w) ==
  /\ w[1] \in Files /\ w[1].synced \subseteq w[1].facts
  /\ w[1].visible = s.visible /\ w[1].linked = s.linked
  /\ w[2] \in SUBSET Facts /\ w[2] # {}

\* A failed write leaves the names alone and a batch pending.
LEMMA FailedWriteFacts ==
  ASSUME NEW s \in Files, s.synced \subseteq s.facts, NEW h \in Handles, NEW f \in Facts,
         NEW w \in FailedWrite(s, h, f)
  PROVE LeftBehind(s, w)
<1>. USE DEF LeftBehind
<1>1. h.pend \in SUBSET Facts /\ {f} \in SUBSET Facts
  BY DEF Handles
<1>2. CASE h.pend # {} /\ \E x \in Partly(s, h.pend) : w = <<x, h.pend \cup {f}>>
  <2>1. PICK x \in Partly(s, h.pend) : w = <<x, h.pend \cup {f}>>
    BY <1>2
  <2>2. x \in Files /\ x.synced \subseteq x.facts /\ x.visible = s.visible /\ x.linked = s.linked
    BY <1>1, PartlyFacts
  <2>. QED BY <1>1, <2>1, <2>2
<1>3. CASE \E x \in Partly(IF h.pend = {} THEN s ELSE Persisted(s, h.pend), {f}) : w = <<x, {f}>>
  <2>. DEFINE u == IF h.pend = {} THEN s ELSE Persisted(s, h.pend)
  <2>1. u \in Files /\ u.synced \subseteq u.facts /\ u.visible = s.visible /\ u.linked = s.linked
    BY <1>1, PersistedFacts DEF Files
  <2>2. \E x \in Partly(u, {f}) : w = <<x, {f}>>
    BY <1>3
  <2>. HIDE DEF u
  <2>3. PICK x \in Partly(u, {f}) : w = <<x, {f}>>
    BY <2>2
  <2>4. x \in Files /\ x.synced \subseteq x.facts /\ x.visible = u.visible /\ x.linked = u.linked
    BY <1>1, <2>1, PartlyFacts
  <2>. QED BY <1>1, <2>1, <2>3, <2>4
<1>. QED BY <1>2, <1>3, Zenon DEF FailedWrite

\* The write of append and set_leaf, however it ends.
LEMMA WriteKeeps ==
  ASSUME StoreInv, NEW p \in Procs, Wrote(p) \/ WroteUnread(p) \/ WriteFailed(p) \/ WriteRefused(p)
  PROVE StoreInv'
<1>. USE StageFacts
<1>. DEFINE q == proc[p]  h == q.handle
<1>1. /\ q.pc = "write" /\ UNCHANGED <<cat, used, wanted, deleted, gone, losses>>
  BY DEF Wrote, WroteUnread, WriteFailed, WriteRefused, At, history, budget
<1>2. /\ q.fact \in Facts /\ src.visible /\ h \in Handles /\ h # None /\ cat.index = "ok"
  BY <1>1, StoreAssumption DEF InStage, HandleStages
<1>3. h.pend \in SUBSET Facts /\ h.pend \cup {q.fact} \in SUBSET Facts
  BY <1>2 DEF Handles
<1>4. ASSUME NEW r \in Processes, Step(p, r), r.handle # None,
             src' \in Files, src'.synced \subseteq src'.facts,
             src'.visible = src.visible, src'.linked = src.linked,
             \/ r.pc = "project" /\ r.clear /\ r.op = q.op
             \/ r.pc = "reproject" /\ r.op = q.op
             \/ Rests(r)
      PROVE StoreInv'
  <2>1. r.pc # "publish"
    BY <1>4 DEF Rests
  <2>2. Quiet(p, r)
    BY <1>1, <1>2, <1>4, <2>1 DEF Quiet, Apart, Unlocked, Types
  <2>3. proc'[p] = r
    BY <1>4
  <2>4. CASE Rests(r)
    BY <1>1, <1>2, <1>4, <2>2, <2>4, RestKeeps
  <2>5. CASE ~ Rests(r)
    <3>1. InStage(p)'
      BY <1>1, <1>2, <1>4, <2>3, <2>5 DEF InStage, Unlocked, CreateStages, HandleStages, DeleteStages
    <3>. QED BY <1>4, <2>2, <3>1, QuietKeeps
  <2>. QED BY <2>4, <2>5
<1>5. CASE Wrote(p)
  <2>. DEFINE s == Persisted(src, h.pend \cup {q.fact})
              k == [seen  |-> IF h.pend = {} /\ q.op = "append" THEN h.seen \cup {q.fact} ELSE s.facts,
                    stamp |-> Stamp(s), pend |-> {}, dirty |-> TRUE]
              r == [q EXCEPT !.pc = "project", !.handle = k]
  <2>1. src' = s /\ Step(p, r)
    BY <1>5, Zenon DEF Wrote
  <2>2. s \in Files /\ s.synced \subseteq s.facts /\ s.visible = src.visible /\ s.linked = src.linked
    BY <1>3, PersistedFacts
  <2>. HIDE DEF s
  <2>3. Stamp(s) \in (SUBSET Facts) \X BOOLEAN
    BY <2>2 DEF Stamp, Files
  <2>4. h.seen \cup {q.fact} \in SUBSET Facts /\ s.facts \in SUBSET Facts
    BY <1>2, <2>2 DEF Handles, Files
  <2>5. k \in Handles
    BY <2>3, <2>4 DEF Handles
  <2>. HIDE DEF k
  <2>6. r \in Processes /\ r.pc = "project" /\ r.handle = k /\ r.op = q.op /\ r.clear
    BY <1>1, <2>5 DEF Processes, Stages, HandleStages, InStage
  <2>7. k # None
    BY <2>5, StoreAssumption
  <2>. HIDE DEF r
  <2>. QED BY <1>4, <2>1, <2>2, <2>6, <2>7
<1>6. CASE WroteUnread(p)
  <2>. DEFINE s == Persisted(src, h.pend \cup {q.fact})
              k == [h EXCEPT !.pend = {}, !.dirty = TRUE]
              r == Answer([q EXCEPT !.handle = k], "err")
  <2>1. src' = s /\ Step(p, Answer([q EXCEPT !.handle.pend = {}, !.handle.dirty = TRUE], "err"))
    BY <1>6, Zenon DEF WroteUnread
  <2>2. s \in Files /\ s.synced \subseteq s.facts /\ s.visible = src.visible /\ s.linked = src.linked
    BY <1>3, PersistedFacts
  <2>3. k \in Handles /\ k # None
    BY <1>2, StoreAssumption DEF Handles
  <2>4. [q EXCEPT !.handle.pend = {}, !.handle.dirty = TRUE] = [q EXCEPT !.handle = k]
    BY <1>2 DEF Processes, Handles
  <2>5. [q EXCEPT !.handle = k] \in Processes /\ [q EXCEPT !.handle = k].handle = k
        /\ [q EXCEPT !.handle = k].op = q.op
    BY <2>3 DEF Processes
  <2>. HIDE DEF k, s
  <2>6. q.op # "open"
    BY <1>2 DEF InStage
  <2>7. Rests(r) /\ r.handle = k
    BY <2>5, <2>6, AnswerRests, AnswerFacts
  <2>8. Step(p, r) /\ r \in Processes
    BY <2>1, <2>4, <2>7 DEF Rests
  <2>. HIDE DEF r
  <2>. QED BY <1>4, <2>1, <2>2, <2>3, <2>7, <2>8
<1>7. ASSUME NEW s \in Files, s.synced \subseteq s.facts, s.visible = src.visible, s.linked = src.linked, src' = s,
             NEW k \in Handles, NEW clear \in BOOLEAN, NEW read \in BOOLEAN,
             NEW r \in Processes, r = [q EXCEPT !.clear = clear, !.handle = k],
             Step(p, IF read \/ r.op = "leaf" THEN [r EXCEPT !.pc = "reproject"] ELSE Answer(r, "err"))
      PROVE StoreInv'
  <2>1. r.op = q.op /\ r.handle = k /\ k # None /\ q.op # "open"
    BY <1>2, <1>7, StoreAssumption DEF Processes, InStage
  <2>2. /\ [r EXCEPT !.pc = "reproject"] \in Processes /\ [r EXCEPT !.pc = "reproject"].handle = k
        /\ [r EXCEPT !.pc = "reproject"].op = q.op /\ [r EXCEPT !.pc = "reproject"].pc = "reproject"
    BY <2>1 DEF Processes, Stages, HandleStages
  <2>3. Rests(Answer(r, "err")) /\ Answer(r, "err").handle = k /\ Answer(r, "err") \in Processes
    BY <2>1, AnswerRests, AnswerFacts
  <2>4. CASE read \/ r.op = "leaf"
    BY <1>4, <1>7, <2>1, <2>2, <2>4
  <2>5. CASE ~ (read \/ r.op = "leaf")
    BY <1>4, <1>7, <2>1, <2>3, <2>5
  <2>. QED BY <2>4, <2>5
<1>8. CASE WriteFailed(p)
  <2>1. PICK w \in FailedWrite(src, h, q.fact), read \in BOOLEAN :
          LET r == [q EXCEPT !.clear = FALSE,
                      !.handle = IF read THEN [Handle(w[1]) EXCEPT !.pend = w[2]]
                                 ELSE [@ EXCEPT !.pend = w[2], !.dirty = TRUE]]
          IN /\ src' = w[1]
             /\ Step(p, IF read \/ r.op = "leaf" THEN [r EXCEPT !.pc = "reproject"]
                        ELSE Answer(r, "err"))
    BY <1>8 DEF WriteFailed
  <2>2. /\ w[1] \in Files /\ w[1].synced \subseteq w[1].facts /\ w[2] \in SUBSET Facts
        /\ w[1].visible = src.visible /\ w[1].linked = src.linked
    <3>1. LeftBehind(src, w)
      BY <1>2, FailedWriteFacts
    <3>. QED BY <3>1 DEF LeftBehind
  <2>. DEFINE k == IF read THEN [Handle(w[1]) EXCEPT !.pend = w[2]] ELSE [h EXCEPT !.pend = w[2], !.dirty = TRUE]
              r == [q EXCEPT !.clear = FALSE, !.handle = k]
  <2>3. k \in Handles
    <3>1. Handle(w[1]) \in Handles
      BY <2>2, HandleFacts
    <3>. QED BY <1>2, <2>2, <3>1 DEF Handles
  <2>4. Step(p, IF read \/ r.op = "leaf" THEN [r EXCEPT !.pc = "reproject"] ELSE Answer(r, "err"))
    BY <2>1
  <2>. HIDE DEF k
  <2>5. r \in Processes
    BY <2>3 DEF Processes
  <2>6. r = [q EXCEPT !.clear = FALSE, !.handle = k] /\ src' = w[1]
    BY <2>1
  <2>. HIDE DEF r
  <2>. QED BY <1>7, <2>2, <2>3, <2>4, <2>5, <2>6
<1>9. CASE WriteRefused(p)
  <2>1. PICK read \in BOOLEAN :
          LET r == [q EXCEPT !.clear = h.pend = {},
                      !.handle = IF read THEN [Handle(src) EXCEPT !.pend = h.pend]
                                 ELSE [@ EXCEPT !.dirty = TRUE]]
          IN Step(p, IF read \/ r.op = "leaf" THEN [r EXCEPT !.pc = "reproject"]
                     ELSE Answer(r, "err"))
    BY <1>9 DEF WriteRefused
  <2>2. src' = src
    BY <1>9 DEF WriteRefused
  <2>. DEFINE k == IF read THEN [Handle(src) EXCEPT !.pend = h.pend] ELSE [h EXCEPT !.dirty = TRUE]
              c == h.pend = {}
              r == [q EXCEPT !.clear = c, !.handle = k]
  <2>3. k \in Handles /\ c \in BOOLEAN
    <3>1. Handle(src) \in Handles
      BY HandleFacts
    <3>. QED BY <1>2, <1>3, <3>1 DEF Handles
  <2>4. Step(p, IF read \/ r.op = "leaf" THEN [r EXCEPT !.pc = "reproject"] ELSE Answer(r, "err"))
    BY <2>1
  <2>. HIDE DEF k, c
  <2>5. r \in Processes
    BY <2>3 DEF Processes
  <2>6. r = [q EXCEPT !.clear = c, !.handle = k]
    OBVIOUS
  <2>. HIDE DEF r
  <2>. QED BY <1>7, <2>2, <2>3, <2>4, <2>5, <2>6
<1>. QED BY <1>5, <1>6, <1>8, <1>9

\* The transaction of the projection.
LEMMA ProjectKeeps ==
  ASSUME StoreInv, NEW p \in Procs, Project(p) \/ ProjectFails(p)
  PROVE StoreInv'
<1>. USE StageFacts
<1>. DEFINE q == proc[p]  h == q.handle
<1>1. /\ q.pc \in {"project", "reproject"} /\ UNCHANGED <<src, used, wanted, deleted, gone, losses>>
  BY DEF Project, ProjectFails, history, budget
<1>2. /\ src.visible /\ h \in Handles /\ h # None /\ cat.index = "ok" /\ q.op # "open"
      /\ q.pc = "project" => q.clear
  BY <1>1, StoreAssumption DEF InStage, HandleStages
<1>3. CASE Project(p)
  <2>. DEFINE k == [h EXCEPT !.dirty = ~ q.clear]
              n == Obliged(cat')
              u == [q EXCEPT !.handle = k, !.needs = n]
  <2>1. cat' = Projected(cat, p, h.seen, q.clear)
    BY <1>3 DEF Project
  <2>2. /\ cat' \in Catalogs /\ cat'.index = "ok"
        /\ \A i \in Procs : i \in cat'.intents => i \in cat.intents
        /\ "orphan" \in cat.intents => "orphan" \in cat'.intents
        /\ q.clear => p \notin cat'.intents
    <3>1. h.seen \in SUBSET Facts
      BY <1>2 DEF Handles
    <3>. QED BY <1>2, <2>1, <3>1, StoreAssumption DEF Projected, Catalogs
  <2>3. k \in Handles /\ k # None
    <3>1. (~ q.clear) \in BOOLEAN
      OBVIOUS
    <3>. QED BY <1>2, <3>1, StoreAssumption DEF Handles
  <2>4. n \in BOOLEAN
    BY DEF Obliged
  <2>5. ~ n => cat'.intents = {}
    BY DEF Obliged
  <2>6. [q EXCEPT !.handle.dirty = ~ q.clear, !.needs = Obliged(cat')] = u
    BY <1>2 DEF Processes, Handles
  <2>7. Step(p, IF q.pc = "reproject" THEN Answer(u, "err")
                ELSE IF u.op \in {"flush", "shutdown"} /\ u.needs
                THEN [u EXCEPT !.pc = "rmark"]
                ELSE Answer(u, "ok"))
    BY <1>3, <2>6 DEF Project
  <2>. HIDE DEF k, n
  <2>8. u \in Processes /\ u.handle = k /\ u.op = q.op /\ u.needs = n /\ u.clear = q.clear
    BY <2>3, <2>4 DEF Processes
  <2>. HIDE DEF u
  <2>9. ASSUME NEW r, Rests(r), Step(p, r), p \in cat'.intents => r.handle # None
        PROVE StoreInv'
    <3>1. Quiet(p, r)
      BY <1>1, <1>2, <2>2, <2>9 DEF Quiet, Apart, Unlocked, Types, Rests
    <3>. QED BY <2>2, <2>9, <3>1, RestKeeps
  <2>10. CASE q.pc = "reproject"
    <3>1. Rests(Answer(u, "err")) /\ Answer(u, "err").handle = k
      BY <1>2, <2>8, AnswerRests, AnswerFacts
    <3>. QED BY <2>3, <2>7, <2>9, <2>10, <3>1
  <2>11. CASE q.pc # "reproject" /\ u.op \in {"flush", "shutdown"} /\ u.needs
    <3>. DEFINE r == [u EXCEPT !.pc = "rmark"]
    <3>1. Step(p, r)
      BY <2>7, <2>11
    <3>2. r \in Processes /\ r.pc = "rmark" /\ r.handle = k /\ r.op = u.op /\ r.clear = u.clear
      BY <2>8 DEF Processes, Stages, RepairStages
    <3>3. Quiet(p, r)
      BY <1>1, <1>2, <2>2, <3>1, <3>2 DEF Quiet, Apart, Unlocked, Types
    <3>4. InStage(p)'
      BY <1>1, <1>2, <2>2, <2>3, <2>8, <2>11, <3>1, <3>2 DEF InStage, Unlocked, CreateStages, HandleStages, DeleteStages
    <3>. QED BY <3>2, <3>3, <3>4, QuietKeeps
  <2>12. CASE q.pc # "reproject" /\ ~ (u.op \in {"flush", "shutdown"} /\ u.needs)
    <3>1. Rests(Answer(u, "ok"))
      BY <2>8, AnswerRests
    <3>2. u.op # "shutdown" => Answer(u, "ok").handle = k
      BY <1>2, <2>8, AnswerFacts
    <3>3. p \in cat'.intents => Answer(u, "ok").handle # None
      BY <2>3, <2>5, <2>8, <2>12, <3>2
    <3>. QED BY <2>7, <2>9, <2>12, <3>1, <3>3
  <2>. QED BY <2>10, <2>11, <2>12
<1>4. CASE ProjectFails(p)
  <2>. DEFINE n == q.needs \/ cat'.repair
              u == [q EXCEPT !.needs = n]
              r == Answer(u, "err")
  <2>1. /\ cat' \in Catalogs /\ cat'.index = "ok" /\ cat'.intents = cat.intents /\ cat'.row = cat.row
        /\ cat'.repair \in BOOLEAN
    BY <1>2, <1>4 DEF ProjectFails, Rearmed, Catalogs
  <2>2. Step(p, r)
    BY <1>4 DEF ProjectFails
  <2>3. n \in BOOLEAN
    BY <2>1 DEF Processes
  <2>. HIDE DEF n
  <2>4. u \in Processes /\ u.handle = h /\ u.op = q.op
    BY <2>3 DEF Processes
  <2>. HIDE DEF u
  <2>5. Rests(r) /\ r.handle = h
    BY <1>2, <2>4, AnswerRests, AnswerFacts
  <2>. HIDE DEF r
  <2>6. Quiet(p, r)
    BY <1>1, <1>2, <2>1, <2>2, <2>5 DEF Quiet, Apart, Unlocked, Types, Rests
  <2>. QED BY <1>2, <2>1, <2>5, <2>6, RestKeeps
<1>. QED BY <1>3, <1>4

\* flush and shutdown.
LEMMA FlushKeeps ==
  ASSUME StoreInv, NEW p \in Procs,
         (\E operation \in {"flush", "shutdown"} : FlushBegin(p, operation)) \/ FlushHandle(p)
  PROVE StoreInv'
<1>. USE StageFacts
<1>. DEFINE q == proc[p]  h == q.handle
<1>1. /\ q.pc \in {"idle", "drain"} /\ UNCHANGED <<used, wanted, deleted, gone, losses>>
      /\ q.op # "open" /\ q.clear /\ cat.index = "ok"
  <2>1. q.pc \in {"idle", "drain"} /\ UNCHANGED <<used, wanted, deleted, gone, losses>>
    BY DEF FlushBegin, FlushHandle, Idle, At, history, budget
  <2>. QED BY <2>1 DEF InStage, Unlocked, HandleStages
<1>2. ASSUME NEW operation \in {"flush", "shutdown"}, FlushBegin(p, operation)
      PROVE StoreInv'
  <2>1. q.pc = "idle" /\ LockFree /\ q.op = "none"
    BY <1>2 DEF FlushBegin, Idle, InStage, Unlocked
  <2>2. CASE /\ cat' = Orphaned(cat, p) /\ src' = src
             /\ LET r == [Begin(p, operation, "rmark") EXCEPT !.handle = None]
                IN Step(p, IF r.needs THEN r ELSE Answer(r, "ok"))
    <3>. DEFINE r == [Begin(p, operation, "rmark") EXCEPT !.handle = None]
    <3>1. r \in Processes /\ r.handle = None /\ r.pc = "rmark" /\ r.op = operation /\ r.clear
      BY <1>1 DEF Begin, Processes, Stages, RepairStages
    <3>2. /\ cat' \in Catalogs /\ cat'.index = "ok" /\ cat'.row = cat.row /\ p \notin cat'.intents
          /\ \A i \in Procs : i \in cat'.intents => i \in cat.intents
          /\ "orphan" \in cat.intents => "orphan" \in cat'.intents
          /\ Obligation => Obligation'
      BY <1>1, <2>2, OrphanedFacts, StoreAssumption DEF Obligation
    <3>3. Step(p, IF r.needs THEN r ELSE Answer(r, "ok"))
      BY <2>2
    <3>. HIDE DEF r
    <3>4. CASE r.needs
      <4>1. Quiet(p, r)
        BY <1>1, <2>1, <2>2, <3>1, <3>2, <3>3, <3>4 DEF Quiet, Apart, Types
      <4>2. InStage(p)'
        BY <1>1, <2>2, <3>1, <3>2, <3>3, <3>4 DEF InStage, Unlocked, CreateStages, HandleStages, DeleteStages
      <4>. QED BY <3>1, <4>1, <4>2, QuietKeeps
    <3>5. CASE ~ r.needs
      <4>1. Rests(Answer(r, "ok"))
        BY <3>1, AnswerRests
      <4>2. Quiet(p, Answer(r, "ok"))
        BY <1>1, <2>1, <2>2, <3>2, <3>3, <3>5, <4>1 DEF Quiet, Apart, Types, Rests
      <4>. QED BY <3>2, <4>1, <4>2, RestKeeps
    <3>. QED BY <3>4, <3>5
  <2>3. CASE \E e \in EnsureHandle(src, cat, h) :
               /\ src' = e.src /\ cat' = KeptIntents(cat, p, e)
               /\ LET r == [Begin(p, operation, "drain") EXCEPT !.handle = e.handle]
                  IN Step(p, IF e.ok THEN r ELSE Answer(r, "err"))
    <3>1. PICK e \in EnsureHandle(src, cat, h) :
               /\ src' = e.src /\ cat' = KeptIntents(cat, p, e)
               /\ LET r == [Begin(p, operation, "drain") EXCEPT !.handle = e.handle]
                  IN Step(p, IF e.ok THEN r ELSE Answer(r, "err"))
      BY <2>3
    <3>2. /\ e.src \in Files /\ e.src.synced \subseteq e.src.facts
          /\ e.src.visible = src.visible /\ e.src.linked = src.linked
          /\ e.handle \in {None} \cup Handles
          /\ e.same => e.handle = h /\ h # None
          /\ e.ok => src.visible /\ e.handle # None
      <4>1. Ensures(src, h, e)
        BY EnsureHandleFacts
      <4>. QED BY <4>1, Zenon DEF Ensures
    <3>3. /\ cat' \in Catalogs /\ cat'.index = "ok" /\ cat'.row = cat.row
          /\ p \in cat'.intents => e.same
          /\ \A i \in Procs : i \in cat'.intents => i \in cat.intents
          /\ "orphan" \in cat.intents => "orphan" \in cat'.intents
          /\ Obligation => Obligation'
      BY <1>1, <3>1, KeptIntentsFacts DEF Obligation, Obliged
    <3>. DEFINE r == [Begin(p, operation, "drain") EXCEPT !.handle = e.handle]
    <3>4. r \in Processes /\ r.handle = e.handle /\ r.pc = "drain" /\ r.op = operation /\ r.clear
      BY <1>1, <3>2 DEF Begin, Processes, Stages, HandleStages
    <3>5. Step(p, IF e.ok THEN r ELSE Answer(r, "err")) /\ src' = e.src
      BY <3>1
    <3>. HIDE DEF r
    <3>6. CASE e.ok
      <4>1. src.visible /\ e.handle # None /\ src'.visible = src.visible
        BY <3>2, <3>5, <3>6, Zenon
      <4>2. Quiet(p, r)
        BY <1>1, <2>1, <3>2, <3>3, <3>4, <3>5, <3>6 DEF Quiet, Apart, Types
      <4>3. InStage(p)'
        BY <1>1, <3>3, <3>4, <3>5, <3>6, <4>1 DEF InStage, Unlocked, CreateStages, HandleStages, DeleteStages
      <4>. QED BY <3>4, <4>2, <4>3, QuietKeeps
    <3>7. CASE ~ e.ok
      <4>1. Rests(Answer(r, "err")) /\ Answer(r, "err").handle = e.handle
        BY <3>4, AnswerRests, AnswerFacts
      <4>2. Quiet(p, Answer(r, "err"))
        BY <1>1, <2>1, <3>2, <3>3, <3>5, <3>7, <4>1 DEF Quiet, Apart, Types, Rests
      <4>3. p \in cat'.intents => Answer(r, "err").handle # None
        BY <3>2, <3>3, <4>1, Zenon
      <4>. QED BY <3>3, <4>1, <4>2, <4>3, RestKeeps
    <3>. QED BY <3>6, <3>7
  <2>. QED BY <1>2, <2>2, <2>3 DEF FlushBegin
<1>3. CASE FlushHandle(p)
  <2>1. q.pc = "drain" /\ src.visible /\ cat' = cat /\ h \in Handles /\ h # None
    BY <1>3, StoreAssumption DEF FlushHandle, At, InStage, HandleStages
  <2>2. h.pend \in SUBSET Facts
    BY <2>1 DEF Handles
  <2>3. ASSUME src' = Persisted(src, h.pend) \/ src' \in Partly(src, h.pend)
        PROVE src' \in Files /\ src'.synced \subseteq src'.facts
              /\ src'.visible = src.visible /\ src'.linked = src.linked
    <3>1. CASE src' = Persisted(src, h.pend)
      BY <2>2, <3>1, PersistedFacts DEF Files
    <3>2. CASE src' \in Partly(src, h.pend)
      BY <2>2, <3>2, PartlyFacts
    <3>. QED BY <2>3, <3>1, <3>2
  <2>4. ASSUME NEW r, Rests(r), Step(p, r), r.handle # None,
               src' = Persisted(src, h.pend) \/ src' \in Partly(src, h.pend)
        PROVE StoreInv'
    <3>1. Quiet(p, r)
      BY <1>1, <2>1, <2>3, <2>4 DEF Quiet, Apart, Unlocked, Types, Rests
    <3>. QED BY <1>1, <2>1, <2>4, <3>1, RestKeeps
  <2>5. CASE src' = Persisted(src, h.pend) /\ Step(p, [q EXCEPT !.pc = "project", !.handle = Handle(src')])
    <3>1. src' \in Files /\ src'.visible = src.visible
      BY <2>3, <2>5
    <3>. DEFINE k == Handle(src')
                r == [q EXCEPT !.pc = "project", !.handle = k]
    <3>2. k \in Handles /\ k # None
      BY <2>2, <2>5, PersistedFacts, HandleFacts
    <3>3. Step(p, r)
      BY <2>5
    <3>. HIDE DEF k
    <3>4. r \in Processes /\ r.pc = "project" /\ r.handle = k /\ r.op = q.op /\ r.clear
      BY <1>1, <3>2 DEF Processes, Stages, HandleStages
    <3>. HIDE DEF r
    <3>5. Quiet(p, r)
      BY <1>1, <2>1, <2>3, <2>5, <3>3, <3>4 DEF Quiet, Apart, Unlocked, Types
    <3>6. InStage(p)'
      BY <1>1, <2>1, <3>1, <3>2, <3>3, <3>4 DEF InStage, Unlocked, CreateStages, HandleStages, DeleteStages
    <3>. QED BY <3>4, <3>5, <3>6, QuietKeeps
  <2>6. CASE src' = Persisted(src, h.pend) /\ Step(p, Answer([q EXCEPT !.handle.pend = {}], "err"))
    <3>. DEFINE k == [h EXCEPT !.pend = {}]
                u == [q EXCEPT !.handle = k]
    <3>1. k \in Handles /\ k # None
      BY <2>1, StoreAssumption DEF Handles
    <3>2. [q EXCEPT !.handle.pend = {}] = u
      BY DEF Processes
    <3>. HIDE DEF k
    <3>3. u \in Processes /\ u.handle = k /\ u.op = q.op
      BY <3>1 DEF Processes
    <3>4. Step(p, Answer(u, "err"))
      BY <2>6, <3>2
    <3>. HIDE DEF u
    <3>5. Rests(Answer(u, "err")) /\ Answer(u, "err").handle = k
      BY <1>1, <3>3, AnswerRests, AnswerFacts
    <3>. QED BY <2>4, <2>6, <3>1, <3>4, <3>5
  <2>7. CASE src' \in Partly(src, h.pend) /\ Step(p, Answer(q, "err"))
    <3>1. Rests(Answer(q, "err")) /\ Answer(q, "err").handle = h
      BY <1>1, AnswerRests, AnswerFacts
    <3>. QED BY <2>1, <2>4, <2>7, <3>1
  <2>. QED BY <1>3, <2>5, <2>6, <2>7, Zenon DEF FlushHandle
<1>. QED BY <1>2, <1>3

\* The steps that only end something.
LEMMA EndingKeeps ==
  ASSUME StoreInv, NEW p \in Procs,
         Evict(p) \/ RepairFails(p) \/ DeleteFails(p) \/ Close(p) \/ Kill(p)
  PROVE StoreInv'
<1>. USE StageFacts
<1>. DEFINE q == proc[p]  h == q.handle
<1>1. /\ UNCHANGED <<used, wanted, deleted, gone, losses>>
      /\ q.pc # "down" => cat.index \in {"ok", cat.index}
  BY DEF Evict, RepairFails, DeleteFails, Close, Kill, history, budget
<1>2. /\ Orphaned(cat, p) \in Catalogs /\ Orphaned(cat, p).index = cat.index
      /\ Orphaned(cat, p).row = cat.row /\ p \notin Orphaned(cat, p).intents
      /\ \A i \in Procs \cup {"orphan"} : i # p /\ i \in cat.intents => i \in Orphaned(cat, p).intents
      /\ \A i \in Procs : i \in Orphaned(cat, p).intents => i \in cat.intents
      /\ p \in cat.intents => "orphan" \in Orphaned(cat, p).intents
      /\ Orphaned(cat, p).intents = {} <=> cat.intents = {}
      /\ Obliged(Orphaned(cat, p)) <=> Obliged(cat)
      /\ Orphaned(cat, p).marker = cat.marker
  BY OrphanedFacts, StoreAssumption
<1>3. CASE Evict(p)
  <2>. DEFINE r == [q EXCEPT !.handle = None]
  <2>1. /\ q.pc = "idle" /\ LockFree /\ cat' = Orphaned(cat, p) /\ src' = src /\ Step(p, r)
        /\ q.op = "none" /\ q.clear /\ cat.index = "ok"
    BY <1>3 DEF Evict, Idle, InStage, Unlocked
  <2>2. Rests(r)
    BY <2>1 DEF Rests, Processes
  <2>. HIDE DEF r
  <2>3. Quiet(p, r)
    BY <1>1, <1>2, <2>1, <2>2, StoreAssumption DEF Quiet, Apart, Types, Rests, Obligation
  <2>. QED BY <1>2, <2>1, <2>2, <2>3, RestKeeps
<1>4. CASE RepairFails(p) \/ DeleteFails(p)
  <2>. DEFINE r == Answer(q, "err")
  <2>1. /\ q.pc \in RepairStages \cup DeleteStages /\ UNCHANGED <<src, cat>> /\ Step(p, r)
    BY <1>4 DEF RepairFails, DeleteFails, RepairStages, DeleteStages
  <2>2. Rests(r)
    BY AnswerRests
  <2>3. cat.index = "ok" /\ (p \in cat.intents => q.op # "open" /\ q.handle # None)
    BY <2>1 DEF InStage, RepairStages, DeleteStages
  <2>4. p \in cat.intents => r.handle # None
    BY <2>3, AnswerFacts
  <2>. HIDE DEF r
  <2>5. Quiet(p, r)
    BY <1>1, <2>1, <2>2 DEF Quiet, Apart, Types, Rests, Unlocked, RepairStages, DeleteStages, Obligation
  <2>. QED BY <2>1, <2>2, <2>3, <2>4, <2>5, RestKeeps
<1>5. CASE Close(p)
  <2>1. /\ q.pc = "idle" /\ LockFree /\ cat' = Orphaned(cat, p) /\ Step(p, Down)
        /\ src' \in Dropped(src, h)
    BY <1>5 DEF Close, Idle
  <2>2. /\ src' \in Files /\ src'.synced \subseteq src'.facts
        /\ src'.visible = src.visible /\ src'.linked = src.linked
    BY <2>1, DroppedFacts
  <2>3. Quiet(p, Down)
    BY <1>1, <1>2, <2>1, <2>2, StoreAssumption DEF Quiet, Apart, Types, Down, Obligation
  <2>. QED BY <1>2, <2>1, <2>3, DownRests, RestKeeps DEF Down
<1>6. CASE Kill(p)
  <2>1. cat' = Orphaned(cat, p) /\ Step(p, Down) /\ src' = src
    BY <1>6 DEF Kill
  <2>2. q.pc = "dirsync" => "orphan" \in cat'.intents
    BY <1>2, <2>1 DEF InStage
  <2>3. Quiet(p, Down)
    BY <1>1, <1>2, <2>1, <2>2, StoreAssumption DEF Quiet, Apart, Types, Down, Unlocked, Obligation
  <2>. QED BY <1>2, <2>1, <2>3, DownRests, RestKeeps DEF Down
<1>. QED BY <1>3, <1>4, <1>5, <1>6

\* repair.
LEMMA RepairingKeeps ==
  ASSUME StoreInv, NEW p \in Procs,
         \/ RepairBegin(p) \/ RepairMark(p) \/ RepairScan(p) \/ RepairSync(p)
         \/ RepairApply(p) \/ RepairUnmark(p) \/ RepairUnmarkFails(p)
  PROVE StoreInv'
<1>. USE StageFacts
<1>. DEFINE q == proc[p]  h == q.handle
<1>1. UNCHANGED <<used, wanted, deleted, gone, losses>>
  BY DEF RepairBegin, RepairMark, RepairScan, RepairSync, RepairApply, RepairUnmark, RepairUnmarkFails,
         history, budget
<1>2. /\ Orphaned(cat, p) \in Catalogs /\ Orphaned(cat, p).index = cat.index
      /\ Orphaned(cat, p).row = cat.row /\ p \notin Orphaned(cat, p).intents
      /\ "orphan" \in cat.intents => "orphan" \in Orphaned(cat, p).intents
      /\ \A i \in Procs : i \in Orphaned(cat, p).intents => i \in cat.intents
      /\ Obliged(Orphaned(cat, p)) <=> Obliged(cat)
      /\ Orphaned(cat, p).marker = cat.marker
  BY OrphanedFacts, StoreAssumption
<1>3. CASE RepairBegin(p)
  <2>. DEFINE r == [Begin(p, "repair", "rmark") EXCEPT !.handle = None]
  <2>1. q.pc = "idle" /\ LockFree /\ q.clear /\ cat.index = "ok" /\ q.op = "none"
    BY <1>3 DEF RepairBegin, Idle, InStage, Unlocked
  <2>2. r \in Processes /\ r.handle = None /\ r.pc = "rmark" /\ r.op = "repair" /\ r.clear
    BY <2>1 DEF Begin, Processes, Stages, RepairStages
  <2>3. /\ [r EXCEPT !.handle = h] \in Processes /\ [r EXCEPT !.handle = h].handle = h
        /\ [r EXCEPT !.handle = h].op = "repair"
    BY <2>2 DEF Processes
  <2>4. /\ Rests(Answer(r, "err")) /\ Rests(Answer([r EXCEPT !.handle = h], "err"))
        /\ Answer([r EXCEPT !.handle = h], "err").handle = h
    BY <2>2, <2>3, AnswerRests, AnswerFacts
  <2>. DEFINE a == Answer(r, "err")
              b == Answer([r EXCEPT !.handle = h], "err")
  <2>5. \/ src' = src /\ cat' = Orphaned(cat, p) /\ (Step(p, a) \/ Step(p, r))
        \/ h # None /\ src' = Persisted(src, h.pend) /\ cat' = Orphaned(cat, p) /\ Step(p, r)
        \/ h # None /\ src' \in Partly(src, h.pend) /\ cat' = cat /\ Step(p, b)
    BY <1>3 DEF RepairBegin
  <2>. HIDE DEF r, a, b
  <2>6. /\ src' \in Files /\ src'.synced \subseteq src'.facts
        /\ src'.visible = src.visible /\ src'.linked = src.linked
    <3>1. CASE h # None /\ src' = Persisted(src, h.pend)
      BY <3>1, PersistedFacts DEF Files
    <3>2. CASE h # None /\ src' \in Partly(src, h.pend)
      BY <3>2, PartlyFacts
    <3>. QED BY <2>5, <3>1, <3>2
  <2>7. CASE cat' = Orphaned(cat, p) /\ Step(p, a)
    <3>1. Rests(a)
      BY <2>4 DEF a
    <3>2. Quiet(p, a)
      BY <1>1, <1>2, <2>1, <2>6, <2>7, <3>1 DEF Quiet, Apart, Types, Rests, Obligation
    <3>. QED BY <1>2, <2>1, <2>7, <3>1, <3>2, RestKeeps
  <2>8. CASE cat' = Orphaned(cat, p) /\ Step(p, r)
    <3>1. Quiet(p, r)
      BY <1>1, <1>2, <2>1, <2>2, <2>6, <2>8 DEF Quiet, Apart, Types, Obligation
    <3>2. InStage(p)'
      BY <1>2, <2>1, <2>2, <2>8 DEF InStage, Unlocked, CreateStages, HandleStages, DeleteStages
    <3>. QED BY <2>2, <3>1, <3>2, QuietKeeps
  <2>9. CASE h # None /\ cat' = cat /\ Step(p, b)
    <3>1. Rests(b) /\ b.handle # None
      BY <2>4, <2>9 DEF b
    <3>2. Quiet(p, b)
      BY <1>1, <2>1, <2>6, <2>9, <3>1 DEF Quiet, Apart, Types, Rests, Obligation
    <3>. QED BY <2>1, <2>9, <3>1, <3>2, RestKeeps
  <2>. QED BY <2>5, <2>7, <2>8, <2>9
<1>4. CASE RepairMark(p)
  <2>. DEFINE r == [q EXCEPT !.pc = "scan", !.needs = TRUE]
  <2>1. q.pc = "rmark" /\ src' = src /\ cat' = [cat EXCEPT !.repair = TRUE] /\ Step(p, r)
    BY <1>4 DEF RepairMark, At
  <2>2. r \in Processes /\ r.pc = "scan" /\ r.handle = h /\ r.op = q.op /\ r.clear = q.clear
    BY DEF Processes, Stages, RepairStages
  <2>. HIDE DEF r
  <2>3. /\ cat' \in Catalogs /\ cat'.index = cat.index /\ cat'.row = cat.row /\ cat'.intents = cat.intents
        /\ Obligation'
    BY <2>1 DEF Catalogs, Obligation, Obliged
  <2>4. Quiet(p, r)
    BY <1>1, <2>1, <2>2, <2>3 DEF Quiet, Apart, Types, Unlocked
  <2>5. InStage(p)'
    BY <2>1, <2>2, <2>3 DEF InStage, Unlocked, CreateStages, HandleStages, DeleteStages
  <2>. QED BY <2>2, <2>4, <2>5, QuietKeeps
<1>5. CASE RepairScan(p)
  <2>. DEFINE r == [q EXCEPT !.pc = "rsync", !.scan = Seen]
  <2>1. q.pc = "scan" /\ UNCHANGED <<src, cat>> /\ Step(p, r)
    BY <1>5, Zenon DEF RepairScan, At, Seen
  <2>2. Seen \in Scans
    BY DEF Seen, Scans, Files
  <2>3. r \in Processes /\ r.pc = "rsync" /\ r.handle = h /\ r.op = q.op /\ r.clear = q.clear /\ r.scan = Seen
    BY <2>2 DEF Processes, Stages, RepairStages
  <2>4. Seen' = Seen
    BY <2>1 DEF Seen
  <2>. HIDE DEF r
  <2>5. Quiet(p, r)
    BY <1>1, <2>1, <2>3 DEF Quiet, Apart, Types, Unlocked, Obligation
  <2>6. InStage(p)'
    BY <2>1, <2>3, <2>4 DEF InStage, Unlocked, CreateStages, HandleStages, DeleteStages
  <2>. QED BY <2>3, <2>5, <2>6, QuietKeeps
<1>6. CASE RepairSync(p)
  <2>. DEFINE r == [q EXCEPT !.pc = "apply"]
  <2>1. /\ q.pc = "rsync" /\ cat' = cat /\ Step(p, r)
        /\ src' = IF MustSync(q.scan) THEN SyncDir(src) ELSE src
    BY <1>6, Zenon DEF RepairSync, At
  <2>2. /\ r \in Processes /\ r.pc = "apply" /\ r.handle = h /\ r.op = q.op /\ r.clear = q.clear
        /\ r.scan = q.scan
    BY DEF Processes, Stages, RepairStages
  <2>. HIDE DEF r
  <2>3. /\ src' \in Files /\ src'.synced \subseteq src'.facts
        /\ src'.visible = src.visible /\ src'.facts = src.facts /\ src'.torn = src.torn
        /\ src'.linked \in {src.linked, src.visible}
        /\ MustSync(q.scan) => src'.linked = src.visible
    BY <2>1 DEF SyncDir, Files
  <2>4. Seen' = Seen
    BY <2>1, <2>3 DEF Seen
  <2>5. Types'
    BY <1>1, <2>1, <2>2, <2>3 DEF Types, Step
  <2>6. InStage(p)'
    BY <2>1, <2>2, <2>3, <2>4 DEF InStage, Unlocked, CreateStages, HandleStages, DeleteStages
  <2>7. NoGhostRow'
    BY <1>1, <2>1, <2>3 DEF NoGhostRow, StoreInv, Obligation
  <2>8. losses = 0 /\ src'.visible /\ ~ src'.linked =>
           \/ "orphan" \in cat'.intents
           \/ "orphan" \notin cat.intents /\ src.visible /\ ~ src.linked /\ q.pc # "dirsync"
    BY <2>1, <2>3
  <2>9. deleted' => /\ gone' /\ ~ src'.visible /\ ~ src'.linked /\ cat'.row = None /\ deleted
    BY <1>1, <2>1, <2>3 DEF StoreInv, DeleteInv
  <2>. QED BY <1>1, <2>1, <2>2, <2>5, <2>6, <2>7, <2>8, <2>9, Keeps DEF Apart, Unlocked
<1>7. CASE RepairApply(p)
  <2>. DEFINE r == [q EXCEPT !.pc = "unmark"]  v == q.scan
  <2>1. q.pc = "apply" /\ src' = src /\ cat' = Applied(cat, v) /\ Step(p, r)
    BY <1>7, Zenon DEF RepairApply, At
  <2>2. r \in Processes /\ r.pc = "unmark" /\ r.handle = h /\ r.op = q.op /\ r.clear = q.clear
    BY DEF Processes, Stages, RepairStages
  <2>3. /\ v = Seen /\ cat.index = "ok" /\ q.op # "create" /\ q.clear
        /\ MustSync(v) => src.linked = src.visible
        /\ p \in cat.intents => h # None /\ q.op # "shutdown"
        /\ q.op = "open" => h = None
    BY <2>1 DEF InStage
  <2>4. v \in Scans
    <3>1. Seen \in Scans
      BY DEF Seen, Scans, Files
    <3>. QED BY <2>3, <3>1
  <2>5. /\ v.file = "missing" <=> ~ src.visible
        /\ v.file = "rebuilt" => src.visible
        /\ v.file = "unresolved" => src.visible
        /\ v.file \in {"missing", "rebuilt", "unresolved"}
        /\ v.intent <=> cat.intents # {}
    <3>1. /\ Seen.file = "missing" <=> ~ src.visible
          /\ Seen.file = "rebuilt" => src.visible
          /\ Seen.file = "unresolved" => src.visible
          /\ Seen.file \in {"missing", "rebuilt", "unresolved"}
      BY DEF Seen, Files
    <3>2. Seen.intent <=> cat.intents # {}
      BY Zenon DEF Seen
    <3>. HIDE DEF v
    <3>. QED BY <2>3, <3>1, <3>2
  <2>. HIDE DEF v, r
  <2>6. /\ cat' \in Catalogs /\ cat'.index = "ok"
        /\ \A i \in Procs : i \in cat'.intents => i \in cat.intents
        /\ src.visible \/ cat'.row = None
    BY <2>1, <2>3, <2>4, <2>5, AppliedFacts, StoreAssumption
  <2>7. losses = 0 /\ src.visible /\ ~ src.linked =>
           \/ "orphan" \in cat'.intents
           \/ "orphan" \notin cat.intents
    <3>1. CASE v.file = "rebuilt" /\ v.intent
      BY <2>3, <3>1 DEF MustSync
    <3>2. CASE v.file = "rebuilt" /\ ~ v.intent
      BY <2>5, <3>2
    <3>3. CASE v.file = "unresolved"
      BY <2>1, <2>4, <3>3, AppliedFacts
    <3>. QED BY <2>5, <3>1, <3>2, <3>3
  <2>8. Types'
    BY <1>1, <2>1, <2>2, <2>6 DEF Types, Step
  <2>9. InStage(p)'
    <3>1. proc'[p] = r /\ (p \in cat'.intents => h # None /\ q.op # "shutdown")
      BY <2>1, <2>3, <2>6
    <3>2. cat'.row # None => src'.visible
      BY <2>1, <2>6
    <3>. QED BY <2>2, <2>3, <2>6, <3>1, <3>2 DEF InStage, Unlocked, CreateStages, HandleStages, DeleteStages
  <2>10. NoGhostRow'
    BY <2>1, <2>6 DEF NoGhostRow
  <2>11. deleted' => /\ gone' /\ ~ src'.visible /\ ~ src'.linked /\ cat'.row = None /\ deleted
    BY <1>1, <2>1, <2>6 DEF StoreInv, DeleteInv
  <2>12. proc[p].pc # "dirsync" /\ proc[p].pc \notin Unlocked /\ r.pc # "publish"
    BY <2>1, <2>2 DEF Unlocked
  <2>. QED BY <1>1, <2>1, <2>2, <2>6, <2>7, <2>8, <2>9, <2>10, <2>11, <2>12, Keeps DEF Apart
<1>8. CASE RepairUnmark(p) \/ RepairUnmarkFails(p)
  <2>1. /\ q.pc = "unmark" /\ src' = src
        /\ cat' \in Catalogs /\ cat'.index = cat.index /\ cat'.row = cat.row /\ cat'.intents = cat.intents
    <3>1. CASE RepairUnmark(p)
      BY <3>1 DEF RepairUnmark, At, Catalogs
    <3>2. CASE RepairUnmarkFails(p)
      <4>1. PICK x \in Rearmed(cat) : cat' = x \/ cat' = [x EXCEPT !.marker = FALSE]
        BY <3>2, Zenon DEF RepairUnmarkFails
      <4>2. x \in Catalogs /\ x.index = cat.index /\ x.row = cat.row /\ x.intents = cat.intents
        BY DEF Rearmed, Catalogs
      <4>3. q.pc = "unmark" /\ src' = src
        BY <3>2 DEF RepairUnmarkFails, At
      <4>. QED BY <4>1, <4>2, <4>3 DEF Catalogs
    <3>. QED BY <1>8, <3>1, <3>2
  <2>2. /\ cat.index = "ok" /\ q.op # "create" /\ (src.visible \/ cat'.row = None)
        /\ p \in cat.intents => h # None
        /\ q.op = "open" => h = None
    BY <2>1 DEF InStage
  <2>3. ASSUME NEW r, Rests(r), Step(p, r), p \in cat'.intents => r.handle # None
        PROVE StoreInv'
    <3>1. Quiet(p, r)
      BY <1>1, <2>1, <2>2, <2>3 DEF Quiet, Apart, Types, Unlocked, Rests
    <3>. QED BY <2>1, <2>2, <2>3, <3>1, RestKeeps
  <2>4. CASE RepairUnmark(p)
    <3>. DEFINE u == [q EXCEPT !.needs = Obliged(cat)]
    <3>1. Step(p, Answer(u, "ok"))
      BY <1>8, <2>4 DEF RepairUnmark
    <3>2. u \in Processes /\ u.handle = h /\ u.op = q.op
      BY DEF Processes, Obliged
    <3>. HIDE DEF u
    <3>3. Rests(Answer(u, "ok"))
      BY <3>2, AnswerRests
    <3>4. p \in cat'.intents => Answer(u, "ok").handle = h
      BY <2>1, <2>2, <3>2, AnswerFacts DEF InStage
    <3>. QED BY <2>1, <2>2, <2>3, <3>1, <3>3, <3>4
  <2>5. CASE RepairUnmarkFails(p)
    <3>. DEFINE u == [q EXCEPT !.needs = TRUE]
    <3>1. Step(p, Answer(u, "err"))
      BY <2>5 DEF RepairUnmarkFails
    <3>2. u \in Processes /\ u.handle = h /\ u.op = q.op
      BY DEF Processes
    <3>. HIDE DEF u
    <3>3. Rests(Answer(u, "err"))
      BY <3>2, AnswerRests
    <3>4. p \in cat'.intents => Answer(u, "err").handle # None
      BY <2>1, <2>2, <3>2, AnswerFacts
    <3>. QED BY <2>3, <3>1, <3>3, <3>4
  <2>. QED BY <1>8, <2>4, <2>5
<1>. QED BY <1>3, <1>4, <1>5, <1>6, <1>7, <1>8

\* delete_session.
LEMMA DeletingKeeps ==
  ASSUME StoreInv, NEW p \in Procs,
         DeleteNothing(p) \/ DeleteBegin(p) \/ Unlink(p) \/ SyncUnlinked(p) \/ DeleteRow(p)
  PROVE StoreInv'
<1>. USE StageFacts
<1>. DEFINE q == proc[p]  h == q.handle
<1>1. UNCHANGED <<used, losses>>
  BY DEF DeleteNothing, DeleteBegin, Unlink, SyncUnlinked, DeleteRow, history, budget
<1>2. CASE DeleteNothing(p)
  <2>. DEFINE r == [q EXCEPT !.answer = "ok"]
  <2>1. /\ q.pc = "idle" /\ LockFree /\ h = None /\ gone' = TRUE /\ Step(p, r)
        /\ UNCHANGED <<src, cat, wanted, deleted>>
    BY <1>2 DEF DeleteNothing, Idle
  <2>2. r \in Processes /\ r.pc = "idle" /\ r.handle = None /\ r.op = "none" /\ r.clear
    BY <2>1 DEF Processes, InStage, Unlocked
  <2>. HIDE DEF r
  <2>3. Types'
    BY <1>1, <2>1, <2>2 DEF Types, Step
  <2>4. InStage(p)'
    BY <2>1, <2>2 DEF InStage, Unlocked, CreateStages, HandleStages, DeleteStages
  <2>5. NoGhostRow'
    BY <1>1, <2>1 DEF StoreInv, NoGhostRow, Obligation
  <2>6. deleted' => /\ gone' /\ ~ src'.visible /\ ~ src'.linked /\ cat'.row = None /\ deleted
    BY <2>1 DEF StoreInv, DeleteInv
  <2>. QED BY <1>1, <2>1, <2>2, <2>3, <2>4, <2>5, <2>6, Keeps DEF Apart
<1>3. CASE DeleteBegin(p)
  <2>. DEFINE r == [Begin(p, "delete", "unlink") EXCEPT !.handle = None, !.needs = TRUE]
              c == WithIntent(cat, p)
  <2>1. /\ q.pc = "idle" /\ LockFree /\ cat' = Orphaned(c, p) /\ Step(p, r)
        /\ src' \in Dropped(src, h) /\ UNCHANGED <<wanted, deleted, gone>>
    BY <1>3 DEF DeleteBegin, Idle, history
  <2>2. cat.index = "ok" /\ q.op = "none" /\ q.clear
    BY <2>1 DEF InStage, Unlocked
  <2>3. r \in Processes /\ r.pc = "unlink" /\ r.handle = None /\ r.op = "delete" /\ r.clear
    BY <2>2 DEF Begin, Processes, Stages, DeleteStages
  <2>4. /\ c \in Catalogs /\ c.index = cat.index /\ c.row = cat.row /\ c.intents = cat.intents \cup {p}
    BY WithIntentFacts
  <2>. HIDE DEF r, c
  <2>5. /\ cat' \in Catalogs /\ cat'.index = "ok" /\ cat'.row = cat.row /\ p \notin cat'.intents
        /\ "orphan" \in cat'.intents
        /\ \A i \in Procs : i # p /\ i \in cat'.intents => i \in cat.intents
    BY <2>1, <2>2, <2>4, OrphanedFacts
  <2>6. /\ src' \in Files /\ src'.synced \subseteq src'.facts
        /\ src'.visible = src.visible /\ src'.linked = src.linked
    BY <2>1, DroppedFacts
  <2>7. Obligation'
    BY <2>5 DEF Obligation, Obliged
  <2>8. Quiet(p, r)
    BY <1>1, <2>1, <2>3, <2>5, <2>6, <2>7 DEF Quiet, Apart, Types
  <2>9. InStage(p)'
    BY <2>1, <2>3, <2>5 DEF InStage, Unlocked, CreateStages, HandleStages, DeleteStages
  <2>. QED BY <2>3, <2>8, <2>9, QuietKeeps
<1>4. CASE Unlink(p) \/ SyncUnlinked(p)
  <2>. DEFINE l == IF q.pc = "unlink" THEN "unlinked" ELSE "delrow"
              r == [q EXCEPT !.pc = l]
  <2>1. q.pc \in {"unlink", "unlinked"} /\ Step(p, r) /\ UNCHANGED <<cat, deleted, gone>> /\ wanted' \in BOOLEAN
    BY <1>4 DEF Unlink, SyncUnlinked, At, history, Types
  <2>2. l \in {"unlinked", "delrow"} /\ (l = "delrow" <=> q.pc = "unlinked")
    BY <2>1
  <2>3. /\ r \in Processes /\ r.pc = l /\ r.handle = h /\ r.op = q.op /\ r.clear = q.clear
    BY <2>2 DEF Processes, Stages, DeleteStages
  <2>4. src' \in Files /\ src'.synced \subseteq src'.facts /\ ~ src'.visible /\ (src'.linked => src.linked)
        /\ (l = "delrow" => ~ src'.linked)
    <3>1. CASE Unlink(p)
      BY <3>1 DEF Unlink, At, Files
    <3>2. CASE SyncUnlinked(p)
      <4>1. src' = SyncDir(src) /\ q.pc = "unlinked"
        BY <3>2 DEF SyncUnlinked, At
      <4>2. ~ src.visible
        BY <4>1 DEF InStage
      <4>. QED BY <4>1, <4>2 DEF SyncDir, Files
    <3>. QED BY <1>4, <3>1, <3>2
  <2>5. /\ cat.index = "ok" /\ q.op = "delete" /\ h = None /\ q.clear /\ "orphan" \in cat.intents
        /\ p \notin cat.intents
    BY <2>1 DEF InStage, DeleteStages
  <2>. HIDE DEF r, l
  <2>6. Types'
    BY <1>1, <2>1, <2>3, <2>4 DEF Types, Step
  <2>7. InStage(p)'
    BY <2>1, <2>2, <2>3, <2>4, <2>5 DEF InStage, Unlocked, CreateStages, HandleStages, DeleteStages
  <2>8. NoGhostRow'
    BY <2>1, <2>5 DEF NoGhostRow, Obligation, Obliged
  <2>9. deleted' => /\ gone' /\ ~ src'.visible /\ ~ src'.linked /\ cat'.row = None /\ deleted
    BY <2>1, <2>4 DEF StoreInv, DeleteInv
  <2>10. q.pc \notin Unlocked /\ r.pc # "publish"
    BY <2>1, <2>2, <2>3 DEF Unlocked
  <2>. QED BY <1>1, <2>1, <2>3, <2>4, <2>6, <2>7, <2>8, <2>9, <2>10, Keeps DEF Apart
<1>5. CASE DeleteRow(p)
  <2>. DEFINE n == Obliged(cat')
              u == [q EXCEPT !.needs = n]
              r == Answer(u, "ok")
  <2>1. /\ q.pc = "delrow" /\ Step(p, r) /\ cat' = [cat EXCEPT !.row = None, !.intents = {}]
        /\ gone' = TRUE /\ deleted' = TRUE /\ UNCHANGED <<src, wanted>>
    BY <1>5 DEF DeleteRow, At
  <2>2. ~ src.visible /\ ~ src.linked /\ cat.index = "ok" /\ q.op = "delete" /\ h = None
    BY <2>1 DEF InStage, DeleteStages
  <2>3. n \in BOOLEAN
    BY DEF Obliged
  <2>. HIDE DEF n
  <2>4. u \in Processes /\ u.op = q.op /\ u.handle = h
    BY <2>3 DEF Processes
  <2>. HIDE DEF u
  <2>5. Rests(r) /\ r \in Processes
    BY <2>4, AnswerRests DEF Rests
  <2>. HIDE DEF r
  <2>6. cat' \in Catalogs /\ cat'.index = "ok" /\ cat'.row = None /\ cat'.intents = {}
    BY <2>1, <2>2 DEF Catalogs
  <2>7. Types'
    BY <1>1, <2>1, <2>5, <2>6 DEF Types, Step
  <2>8. InStage(p)'
    BY <2>1, <2>5, <2>6 DEF InStage, Rests, Unlocked, CreateStages, HandleStages, DeleteStages
  <2>9. NoGhostRow'
    BY <2>6 DEF NoGhostRow
  <2>10. q.pc \notin Unlocked /\ r.pc # "publish"
    BY <2>1, <2>5 DEF Unlocked, Rests
  <2>. QED BY <1>1, <2>1, <2>2, <2>5, <2>6, <2>7, <2>8, <2>9, <2>10, Keeps DEF Apart
<1>. QED BY <1>2, <1>3, <1>4, <1>5

\* A power loss and the loss of the index.
LEMMA EnvironmentKeeps ==
  ASSUME StoreInv, PowerLoss \/ LoseIndex
  PROVE StoreInv'
<1>. DEFINE down == [p \in Procs |-> Down]
<1>1. Types /\ LinkInv /\ NoGhostRow /\ DeleteInv
  BY DEF StoreInv
<1>2. Down \in Processes /\ Down.pc = "down" /\ Down.op = "none" /\ Down.handle = None /\ Down.clear
  BY DEF Down, Processes, Stages, Unlocked
<1>3. CASE PowerLoss
  <2>1. PICK entry \in {src.visible, src.linked}, survivors \in SUBSET (src.facts \ src.synced), torn \in BOOLEAN :
          src' = AfterPowerLoss(src, entry, survivors, torn)
    BY <1>3 DEF PowerLoss
  <2>2. /\ cat' = [cat EXCEPT !.intents = {IF i \in Procs THEN "orphan" ELSE i : i \in @}]
        /\ proc' = down
        /\ UNCHANGED <<wanted, deleted, gone, used, losses>>
    BY <1>3 DEF PowerLoss
  <2>3. /\ src' \in Files /\ src'.synced \subseteq src'.facts /\ src'.linked = src'.visible
        /\ src'.visible = entry
    <3>1. CASE entry
      <4>1. src' = [visible |-> TRUE, linked |-> TRUE, facts |-> src.synced \cup survivors,
                    synced |-> src.synced \cup survivors,
                    torn |-> (src.torn \/ survivors # src.facts \ src.synced) /\ torn]
        BY <2>1, <3>1 DEF AfterPowerLoss
      <4>2. src.synced \cup survivors \in SUBSET Facts
        BY <1>1 DEF Types, Files
      <4>. QED BY <1>1, <3>1, <4>1, <4>2 DEF Files
    <3>2. CASE ~ entry
      BY <1>1, <2>1, <3>2 DEF AfterPowerLoss, NoFile, Types, Files
    <3>. QED BY <3>1, <3>2
  <2>. DEFINE I == {IF i \in Procs THEN "orphan" ELSE i : i \in cat.intents}
  <2>4. /\ I \in SUBSET (Procs \cup {"orphan", "repair"})
        /\ \A i \in I : i \notin Procs
        /\ I = {} <=> cat.intents = {}
    BY <1>1, StoreAssumption DEF Types, Catalogs
  <2>. HIDE DEF I
  <2>5. /\ cat' \in Catalogs /\ cat'.index = cat.index /\ cat'.row = cat.row /\ cat'.intents = I
        /\ cat'.repair = cat.repair /\ cat'.marker = cat.marker
    BY <1>1, <2>2, <2>4 DEF Types, Catalogs, I
  <2>6. proc' \in [Procs -> Processes] /\ \A p \in Procs : proc'[p] = Down
    BY <1>2, <2>2
  <2>7. Types'
    BY <1>1, <2>2, <2>3, <2>5, <2>6 DEF Types
  <2>8. OneAtATime' /\ StageInv'
    BY <1>2, <2>4, <2>5, <2>6 DEF OneAtATime, StageInv, InStage, Unlocked, CreateStages, HandleStages, DeleteStages
  <2>9. LinkInv'
    BY <1>1, <2>2, <2>3, <2>5 DEF LinkInv
  <2>10. DeleteInv'
    BY <1>1, <1>2, <2>2, <2>3, <2>5, <2>6 DEF DeleteInv
  <2>11. NoGhostRow'
    <3>1. SUFFICES ASSUME losses = 0, cat.row # None, ~ src'.visible
                   PROVE Obligation
      BY <2>2, <2>4, <2>5 DEF NoGhostRow, Obligation, Obliged
    <3>2. CASE ~ src.visible
      BY <1>1, <3>1, <3>2 DEF NoGhostRow
    <3>3. CASE src.visible
      <4>1. ~ src.linked
        BY <2>1, <2>3, <3>1, <3>3
      <4>2. CASE "orphan" \in cat.intents
        BY <4>2 DEF Obligation, Obliged
      <4>3. CASE \E p \in Procs : proc[p].pc = "dirsync"
        <5>1. PICK p \in Procs : proc[p].pc = "dirsync"
          BY <4>3
        <5>2. p \in cat.intents
          BY <5>1, StageFacts DEF InStage
        <5>. QED BY <5>2 DEF Obligation, Obliged
      <4>. QED BY <1>1, <3>1, <3>3, <4>1, <4>2, <4>3 DEF LinkInv
    <3>. QED BY <3>2, <3>3
  <2>. QED BY <2>7, <2>8, <2>9, <2>10, <2>11 DEF StoreInv
<1>4. CASE LoseIndex
  <2>1. /\ \A p \in Procs : proc[p].pc = "down"
        /\ cat' = [EmptyCatalog EXCEPT !.index = "missing", !.marker = cat.marker]
        /\ losses' = losses + 1
        /\ UNCHANGED <<src, proc, wanted, deleted, gone, used>>
    BY <1>4 DEF LoseIndex, At, history
  <2>2. cat' \in Catalogs /\ cat'.index = "missing" /\ cat'.row = None /\ cat'.intents = {}
    BY <1>1, <2>1 DEF Types, Catalogs, EmptyCatalog
  <2>3. losses' \in Nat /\ losses' # 0
    BY <1>1, <2>1 DEF Types
  <2>4. Types'
    BY <1>1, <2>1, <2>2, <2>3 DEF Types
  <2>5. OneAtATime' /\ LinkInv' /\ NoGhostRow' /\ DeleteInv'
    BY <1>1, <2>1, <2>2, <2>3 DEF OneAtATime, LinkInv, NoGhostRow, DeleteInv, Unlocked
  <2>6. StageInv'
    <3>1. ASSUME NEW p \in Procs PROVE InStage(p)'
      <4>1. proc'[p] = proc[p] /\ proc[p].pc = "down" /\ InStage(p)
        BY <2>1 DEF StoreInv, StageInv
      <4>. QED BY <2>2, <4>1 DEF InStage, Unlocked, CreateStages, HandleStages, DeleteStages
    <3>. QED BY <3>1 DEF StageInv
  <2>. QED BY <2>4, <2>5, <2>6 DEF StoreInv
<1>. QED BY <1>3, <1>4

\* An empty directory that nobody opened.
LEMMA StoreStarts == Init => StoreInv
<1>. SUFFICES ASSUME Init PROVE StoreInv
  OBVIOUS
<1>1. Down \in Processes /\ Down.pc = "down" /\ Down.op = "none" /\ Down.handle = None /\ Down.clear
  BY DEF Down, Processes, Stages, Unlocked
<1>2. /\ src = NoFile /\ cat = EmptyCatalog /\ proc \in [Procs -> Processes]
      /\ \A p \in Procs : proc[p] = Down
      /\ wanted = FALSE /\ deleted = FALSE /\ used = 0 /\ losses = 0
  BY <1>1 DEF Init
<1>3. cat \in Catalogs /\ cat.row = None /\ cat.intents = {} /\ cat.index = "ok"
  BY <1>2 DEF EmptyCatalog, Catalogs
<1>4. src \in Files /\ src.synced = {} /\ ~ src.visible
  BY <1>2 DEF NoFile, Files
<1>5. Types
  <2>1. MaxFacts \in Nat
    BY StoreAssumption
  <2>2. 0 \in 0 .. MaxFacts
    BY <2>1
  <2>. QED BY <1>2, <1>3, <1>4, <2>2 DEF Types
<1>6. OneAtATime /\ LinkInv /\ NoGhostRow /\ DeleteInv
  BY <1>1, <1>2, <1>3, <1>4 DEF OneAtATime, LinkInv, NoGhostRow, DeleteInv, Unlocked
<1>7. StageInv
  BY <1>1, <1>2, <1>3 DEF StageInv, InStage, Unlocked, CreateStages, HandleStages, DeleteStages
<1>. QED BY <1>5, <1>6, <1>7 DEF StoreInv

\* Every step keeps the invariant.
LEMMA StoreMoves == StoreInv /\ [Next]_vars => StoreInv'
<1>. SUFFICES ASSUME StoreInv, [Next]_vars PROVE StoreInv'
  OBVIOUS
<1>1. CASE UNCHANGED vars
  <2>1. UNCHANGED <<src, cat, proc, used, losses, wanted, deleted, gone>>
    BY <1>1 DEF vars, history, budget
  <2>2. Types' /\ OneAtATime' /\ LinkInv' /\ DeleteInv'
    BY <2>1 DEF StoreInv, Types, OneAtATime, LinkInv, DeleteInv
  <2>3. NoGhostRow'
    BY <2>1 DEF StoreInv, NoGhostRow, Obligation, Obliged
  <2>4. ASSUME NEW p \in Procs PROVE InStage(p)'
    <3>1. InStage(p)
      BY DEF StoreInv, StageInv
    <3>. QED BY <2>1, <3>1 DEF InStage, Seen
  <2>. QED BY <2>2, <2>3, <2>4 DEF StoreInv, StageInv
<1>2. ASSUME NEW p \in Procs, Operation(p)
      PROVE StoreInv'
  BY <1>2, OpeningKeeps, CreatingKeeps, MutateBeginKeeps, WriteKeeps, ProjectKeeps, FlushKeeps,
     EndingKeeps, RepairingKeeps, DeletingKeeps DEF Operation
<1>3. CASE PowerLoss \/ LoseIndex
  BY <1>3, EnvironmentKeeps
<1>. QED BY <1>1, <1>2, <1>3 DEF Next

(* The state of a store is well-typed, one operation at a time has the      *)
(* domain lock and relies on what it found there, and what a power loss     *)
(* could take back is covered by an intent (StoreInv: LocalSessionStore,    *)
(* Catalog, repair).                                                        *)
THEOREM StoreInvariant == Spec => []StoreInv
  BY StoreStarts, StoreMoves, PTL DEF Spec

(* The store inside the model that is checked moves as Spec allows.         *)
LEMMA FileMoves ==
  /\ MCInit => Init
  /\ [MCNext]_<<view, vars, treeVars, listVars>> => [Next]_vars
  BY DEF MCInit, MCNext, vars

(* A delete that removed the row is final: no repair, retry, late recorder  *)
(* or power loss brings the file or the row back (delete_session:           *)
(* remove_source, sync_directory and remove_session in this order).         *)
THEOREM DeletedForGood == MCSpec => []ConfirmedDeleteIsFinal
<1>1. StoreInv => ConfirmedDeleteIsFinal
  BY DEF StoreInv, DeleteInv, ConfirmedDeleteIsFinal
<1>. QED BY <1>1, StoreStarts, StoreMoves, FileMoves, PTL DEF MCSpec

\* The types and the ghost rows of the catalog are part of the invariant.
LEMMA SoundCatalog == StoreInv => CatalogInv
<1>. SUFFICES ASSUME StoreInv PROVE CatalogInv
  OBVIOUS
<1>1. ASSUME NEW p \in Procs
      PROVE /\ proc[p].pc = "write" => proc[p].handle # None
            /\ p \in cat.intents => proc[p].handle # None \/ proc[p].op = "create"
  BY DEF StoreInv, StageInv, InStage, HandleStages
<1>2. src \in Files /\ src.synced \subseteq src.facts /\ cat \in Catalogs
  BY DEF StoreInv, Types
<1>3. cat.row \in {None} \cup SUBSET Facts /\ cat.intents \subseteq Procs \cup {"orphan", "repair"}
  BY <1>2 DEF Catalogs
<1>4. TypeOK
  BY <1>1, <1>2, <1>3 DEF StoreInv, OneAtATime, TypeOK, Files
<1>. QED BY <1>4 DEF StoreInv, CatalogInv

(* A row without a file is going to be looked at again, whatever a power    *)
(* loss took back, and however many processes open the store (the half of   *)
(* RowInv that one process does not need: SyncPublished, sync_directory in  *)
(* delete_session, repair before it clears an intent).                      *)
THEOREM CatalogStaysSound == MCSpec => []CatalogInv
  BY SoundCatalog, StoreStarts, StoreMoves, FileMoves, PTL DEF MCSpec

-----------------------------------------------------------------------------
(***************************************************************************)
(* A local store that one process opens loses no session: RecoverInv says  *)
(* what the handle knows of its file and which obligation covers what it   *)
(* does not know, at every stage of every operation.  With a second        *)
(* process that does not hold, because a repair takes all intents for its  *)
(* own.                                                                    *)
(***************************************************************************)

\* The handle has the whole file, and nothing waits.
Current(h) == h.pend = {} /\ h.stamp = Stamp(src)

\* A handle that does not know its file, or has a batch for it, is covered by
\* an intent or by the repair key.
Knows(h) == h.seen = h.stamp[1] /\ (Current(h) \/ Obliged(cat))

\* What the stages of the process add to it.
AloneIn(p) ==
  LET r == proc[p] IN
  /\ r.handle # None => Knows(r.handle)
  /\ r.pc \in {"open", "write"} => p \in cat.intents
  /\ r.pc = "write" => r.op \in {"append", "leaf"}
  /\ r.pc = "publish" /\ src.visible /\ wanted => cat.intents \ {p} # {} \/ cat.repair \/ cat.marker
  /\ r.pc \in {"write", "drain"} => r.handle.stamp = Stamp(src)
  /\ r.pc \in {"project", "reproject"} /\ r.clear => Current(r.handle)
  /\ r.pc \in {"project", "reproject"} /\ ~ r.clear => p \in cat.intents
  /\ r.pc \in RepairStages /\ r.handle # None => Current(r.handle)
  /\ r.pc \in {"scan", "rsync", "apply"} => cat.repair
  /\ r.pc = "unmark" => \/ src.visible /\ src.torn /\ "repair" \in cat.intents
                        \/ ~ Obliged(cat) /\ cat.row = IF src.visible THEN src.facts ELSE None
  /\ r.pc = "init" /\ cat.index = "missing" => cat.marker

\* The row has all the records there are, those not yet synced included.
Covered == src.visible /\ wanted => Obligation \/ (cat.row # None /\ src.facts \subseteq cat.row)

\* A name that only a power loss could bring back is not missed.
Forgotten == ~ src.visible /\ src.linked => ~ wanted

RecoverInv(p) == AloneIn(p) /\ Covered /\ Forgotten

\* A process between operations owes nothing but what its handle does not
\* know.
LEMMA RestRecovers ==
  ASSUME NEW p, Rests(proc'[p]), proc'[p].handle # None => Knows(proc[p].handle)', Covered', Forgotten'
  PROVE RecoverInv(p)'
  BY DEF RecoverInv, AloneIn, Rests, RepairStages

\* What the invariants say of the process and the file.
LEMMA AloneFacts ==
  ASSUME NEW p \in Procs, StoreInv, RecoverInv(p)
  PROVE /\ AloneIn(p) /\ Covered /\ Forgotten
        /\ Types /\ proc[p] \in Processes /\ InStage(p)
        /\ src \in Files /\ src.synced \subseteq src.facts /\ cat \in Catalogs
        /\ proc[p].handle \in {None} \cup Handles
        /\ proc[p].handle # None => proc[p].handle.pend \in SUBSET Facts
        /\ \A r : Step(p, r) => proc'[p] = r
  BY StageFacts DEF RecoverInv

(* The row and the file are as before, and so is what is due.               *)
LEMMA StillCovered ==
  ASSUME Covered, Forgotten, UNCHANGED <<src, wanted>>, cat'.row = cat.row, Obligation => Obligation'
  PROVE Covered' /\ Forgotten'
  BY DEF Covered, Forgotten

\* With an intent or the repair key left, nothing is lost.
LEMMA ObligedCovers ==
  ASSUME Forgotten, Obliged(cat'), UNCHANGED wanted, src'.visible = src.visible, src'.linked = src.linked
  PROVE Covered' /\ Forgotten'
  BY DEF Covered, Forgotten, Obligation

\* Catalog::open and repair_if_needed: the marker is set before the index
\* is made anew.
LEMMA OpeningRecovers ==
  ASSUME NEW p \in Procs, StoreInv, RecoverInv(p),
         OpenCatalog(p) \/ InitCatalog(p) \/ MarkOpened(p) \/ RepairIfNeeded(p)
  PROVE RecoverInv(p)'
<1>. /\ Covered /\ Forgotten /\ AloneIn(p) /\ InStage(p) /\ proc[p] \in Processes
     /\ src \in Files /\ src.synced \subseteq src.facts /\ cat \in Catalogs
     /\ \A r : Step(p, r) => proc'[p] = r
  BY AloneFacts
<1>1. /\ proc[p].pc \in {"down", "init", "mark", "ready"} /\ UNCHANGED <<src, wanted>>
      /\ proc'[p].pc \in {"init", "mark", "ready", "rmark", "idle", "down"} /\ proc'[p].handle = None
      /\ cat'.row = cat.row
      /\ Obligation => Obligation'
      /\ proc'[p].pc = "init" /\ cat'.index = "missing" => cat'.marker
  <2>1. CASE OpenCatalog(p)
    <3>. DEFINE l == IF cat.index = "missing" THEN "init" ELSE IF cat.marker THEN "mark" ELSE "ready"
                r == [Down EXCEPT !.pc = l, !.needs = Obliged(cat)]
    <3>1. /\ proc[p].pc = "down" /\ UNCHANGED <<src, wanted>> /\ proc'[p] = r
          /\ cat' = IF cat.index = "missing" THEN [cat EXCEPT !.marker = TRUE] ELSE cat
      BY <2>1, Zenon DEF OpenCatalog, At, history
    <3>2. r.pc = l /\ r.handle = None
      BY DEF Down
    <3>3. cat'.row = cat.row /\ (Obligation => Obligation') /\ (cat.index = "missing" => cat'.marker)
      BY <3>1 DEF Catalogs, Obligation, Obliged
    <3>. HIDE DEF r
    <3>. QED BY <3>1, <3>2, <3>3
  <2>2. CASE InitCatalog(p)
    <3>1. /\ proc[p].pc = "init" /\ proc[p].handle = None /\ UNCHANGED <<src, wanted>>
          /\ cat' = [cat EXCEPT !.index = "ok"] /\ proc'[p] = [proc[p] EXCEPT !.pc = "mark"]
      BY <2>2 DEF InitCatalog, At, InStage, history
    <3>2. cat.index = "missing" => cat.marker
      BY <3>1 DEF AloneIn
    <3>. QED BY <3>1, <3>2 DEF Processes, Catalogs, Obligation, Obliged
  <2>3. CASE MarkOpened(p)
    <3>1. proc[p].pc = "mark" /\ proc[p].handle = None /\ UNCHANGED <<src, wanted>>
      BY <2>3 DEF MarkOpened, At, InStage, history
    <3>2. CASE cat' = [cat EXCEPT !.repair = TRUE] /\ Step(p, [proc[p] EXCEPT !.pc = "ready", !.needs = TRUE])
      <4>1. proc'[p].pc = "ready" /\ proc'[p].handle = None
        BY <3>1, <3>2 DEF Processes
      <4>2. cat'.row = cat.row /\ Obligation'
        BY <3>2 DEF Catalogs, Obligation, Obliged
      <4>. QED BY <3>1, <4>1, <4>2
    <3>3. CASE cat' = cat /\ Step(p, Down)
      BY <3>1, <3>3 DEF Down, Obligation
    <3>. QED BY <2>3, <3>2, <3>3 DEF MarkOpened
  <2>4. CASE RepairIfNeeded(p)
    <3>1. proc[p].pc = "ready" /\ proc[p].handle = None /\ UNCHANGED <<src, cat, wanted>>
      BY <2>4 DEF RepairIfNeeded, At, InStage, history
    <3>2. proc'[p] = Begin(p, "open", "rmark") \/ proc'[p] = [proc[p] EXCEPT !.pc = "idle"]
      BY <2>4 DEF RepairIfNeeded
    <3>3. proc'[p].pc \in {"rmark", "idle"} /\ proc'[p].handle = None
      BY <3>1, <3>2 DEF Begin, Processes
    <3>. QED BY <3>1, <3>3 DEF Obligation
  <2>. QED BY <2>1, <2>2, <2>3, <2>4
<1>2. Covered' /\ Forgotten'
  BY <1>1, StillCovered
<1>3. AloneIn(p)'
  BY <1>1 DEF AloneIn
<1>. QED BY <1>2, <1>3 DEF RecoverInv

\* create_session_with_entries: the intent is there before the file is.
LEMMA CreatingRecovers ==
  ASSUME NEW p \in Procs, StoreInv, RecoverInv(p),
         \/ CreateBegin(p) \/ Publish(p) \/ PublishFails(p) \/ SyncPublished(p)
         \/ SyncPublishedFails(p) \/ OpenCreated(p)
  PROVE RecoverInv(p)'
<1>. /\ Covered /\ Forgotten /\ AloneIn(p) /\ InStage(p) /\ proc[p] \in Processes
     /\ src \in Files /\ src.synced \subseteq src.facts /\ cat \in Catalogs
     /\ \A r : Step(p, r) => proc'[p] = r
  BY AloneFacts
<1>1. ASSUME proc'[p].handle = None, proc'[p].pc \in {"dirsync", "open"} \/ Rests(proc'[p]),
             Obliged(cat'), proc'[p].pc = "open" => p \in cat'.intents, Forgotten'
      PROVE RecoverInv(p)'
  BY <1>1 DEF RecoverInv, AloneIn, Rests, RepairStages, Covered, Obligation
<1>2. CASE CreateBegin(p)
  <2>. DEFINE r == [Begin(p, "create", "publish") EXCEPT !.needs = TRUE, !.fact = used']
  <2>1. /\ proc[p].pc = "idle" /\ proc[p].handle = None /\ cat.row = None /\ Step(p, r)
        /\ cat' = WithIntent(cat, p) /\ UNCHANGED <<src, wanted>>
    BY <1>2 DEF CreateBegin, Idle
  <2>2. proc'[p].pc = "publish" /\ proc'[p].handle = None
    BY <2>1 DEF Begin, Processes
  <2>3. p \notin cat.intents /\ cat.index = "ok"
    BY <2>1 DEF InStage, Unlocked
  <2>4. /\ cat'.intents = cat.intents \cup {p} /\ cat'.repair = cat.repair /\ cat'.marker = cat.marker
        /\ Obliged(cat')
    BY <2>1, WithIntentFacts
  <2>5. src.visible /\ wanted => cat'.intents \ {p} # {} \/ cat'.repair \/ cat'.marker
    BY <2>1, <2>3, <2>4 DEF Covered, Obligation, Obliged
  <2>6. AloneIn(p)'
    BY <2>1, <2>2, <2>5 DEF AloneIn, RepairStages
  <2>. QED BY <2>1, <2>4, <2>6, ObligedCovers DEF RecoverInv
<1>3. CASE Publish(p)
  <2>1. /\ proc[p].pc = "publish" /\ proc'[p].pc = "dirsync" /\ proc'[p].handle = proc[p].handle
        /\ cat' = cat /\ src'.visible
    BY <1>3 DEF Publish, At, Processes, Files
  <2>2. proc[p].handle = None /\ p \in cat.intents
    BY <2>1 DEF InStage, CreateStages
  <2>. QED BY <1>1, <2>1, <2>2 DEF Obliged, Forgotten
<1>4. CASE PublishFails(p)
  <2>. DEFINE u == [proc[p] EXCEPT !.needs = Obliged(cat')]
  <2>1. proc[p].pc = "publish" /\ proc[p].op = "create" /\ proc[p].handle = None /\ UNCHANGED <<src, wanted>>
    BY <1>4 DEF PublishFails, At, history, InStage, CreateStages
  <2>2. u \in Processes /\ u.handle = None /\ u.op = "create"
    BY <2>1 DEF Processes, Obliged
  <2>3. proc'[p] = Answer(proc[p], "err") \/ proc'[p] = Answer(u, "err")
    BY <1>4 DEF PublishFails
  <2>. HIDE DEF u
  <2>4. Rests(proc'[p]) /\ proc'[p].handle = None
    BY <2>1, <2>2, <2>3, AnswerRests, AnswerFacts
  <2>5. CASE cat' = [cat EXCEPT !.intents = @ \ {p}]
    <3>1. src.visible /\ wanted => cat.intents \ {p} # {} \/ cat.repair \/ cat.marker
      BY <2>1 DEF AloneIn
    <3>2. cat'.intents = cat.intents \ {p} /\ cat'.repair = cat.repair /\ cat'.marker = cat.marker
      BY <2>5 DEF Catalogs
    <3>3. Covered' /\ Forgotten'
      BY <2>1, <3>1, <3>2 DEF Covered, Forgotten, Obligation, Obliged
    <3>. QED BY <2>4, <3>3, RestRecovers
  <2>6. CASE cat' = Orphaned(cat, p)
    <3>1. cat'.row = cat.row /\ (Obligation => Obligation')
      BY <2>6, OrphanedFacts DEF Obligation
    <3>2. Covered' /\ Forgotten'
      BY <2>1, <3>1, StillCovered
    <3>. QED BY <2>4, <3>2, RestRecovers
  <2>. QED BY <1>4, <2>5, <2>6 DEF PublishFails
<1>5. CASE SyncPublished(p)
  <2>1. /\ proc[p].pc = "dirsync" /\ proc'[p].pc = "open" /\ proc'[p].handle = proc[p].handle
        /\ cat' = cat /\ src'.visible = src.visible /\ src'.linked = src.visible
    BY <1>5 DEF SyncPublished, SyncDir, At, Processes, Files
  <2>2. proc[p].handle = None /\ p \in cat.intents
    BY <2>1 DEF InStage, CreateStages
  <2>. QED BY <1>1, <2>1, <2>2 DEF Obliged, Forgotten
<1>6. CASE SyncPublishedFails(p)
  <2>1. /\ proc[p].pc = "dirsync" /\ proc'[p] = Answer(proc[p], "err")
        /\ cat' = Orphaned(cat, p) /\ src'.visible = src.visible
    BY <1>6 DEF SyncPublishedFails, SyncDir, At, Files
  <2>2. proc[p].handle = None /\ proc[p].op = "create" /\ p \in cat.intents /\ src.visible
    BY <2>1 DEF InStage, CreateStages
  <2>3. Rests(proc'[p]) /\ proc'[p].handle = None
    BY <2>1, <2>2, AnswerRests, AnswerFacts
  <2>4. Obliged(cat')
    BY <2>1, <2>2, OrphanedFacts DEF Obliged
  <2>. QED BY <1>1, <2>1, <2>2, <2>3, <2>4 DEF Forgotten, Rests
<1>7. CASE OpenCreated(p)
  <2>1. proc[p].pc = "open" /\ UNCHANGED <<src, wanted>>
    BY <1>7 DEF OpenCreated, At, history
  <2>2. /\ proc[p].handle = None /\ proc[p].op = "create" /\ p \in cat.intents /\ src.visible /\ proc[p].clear
    BY <2>1 DEF InStage, CreateStages, AloneIn
  <2>3. CASE cat' = cat /\ Step(p, [proc[p] EXCEPT !.pc = "project", !.handle = Handle(src)])
    <3>1. proc'[p].pc = "project" /\ proc'[p].handle = Handle(src) /\ proc'[p].clear
      BY <2>2, <2>3 DEF Processes
    <3>2. Obliged(cat') /\ Covered' /\ Forgotten'
      BY <2>1, <2>2, <2>3, ObligedCovers DEF Obliged
    <3>3. Current(proc[p].handle)'
      BY <2>1, <3>1, HandleFacts DEF Current, Stamp
    <3>4. proc'[p].handle.seen = proc'[p].handle.stamp[1]
      BY <3>1, HandleFacts DEF Stamp
    <3>5. AloneIn(p)'
      BY <3>1, <3>2, <3>3, <3>4 DEF AloneIn, Knows, RepairStages
    <3>. QED BY <3>2, <3>5 DEF RecoverInv
  <2>4. CASE cat' = Orphaned(cat, p) /\ Step(p, Answer(proc[p], "err"))
    <3>1. Rests(proc'[p]) /\ proc'[p].handle = None
      BY <2>2, <2>4, AnswerRests, AnswerFacts
    <3>2. Obliged(cat')
      BY <2>2, <2>4, OrphanedFacts DEF Obliged
    <3>. QED BY <1>1, <2>1, <2>2, <3>1, <3>2 DEF Forgotten, Rests
  <2>. QED BY <1>7, <2>3, <2>4 DEF OpenCreated
<1>. QED BY <1>2, <1>3, <1>4, <1>5, <1>6, <1>7

\* What ensure_handle leaves to a process that knew what it had.
Kept(h, e) ==
  /\ src'.visible = src.visible /\ src'.linked = src.linked
  /\ e.handle \in {None} \cup Handles
  /\ e.handle # None => e.handle.seen = e.handle.stamp[1]
  /\ e.ok => e.handle # None /\ e.handle.stamp = Stamp(src')
  /\ src' # src => h = None \/ Obliged(cat)
  /\ ~ e.ok /\ src' # src => Obliged(cat)
  /\ e.handle # None => (e.handle.pend = {} /\ e.handle.stamp = Stamp(src')) \/ Obliged(cat)

\* A handle that ensure_handle replaced had nothing the file did not
\* have, or an intent says so.
LEMMA EnsuredIsKept ==
  ASSUME src \in Files, src.synced \subseteq src.facts, cat \in Catalogs,
         NEW h \in {None} \cup Handles, h # None => Knows(h),
         NEW e \in EnsureHandle(src, cat, h), src' = e.src
  PROVE Kept(h, e)
<1>1. Ensures(src, h, e)
  BY EnsureHandleFacts
<1>2. /\ e.src \in Files /\ e.src.visible = src.visible /\ e.src.linked = src.linked
      /\ e.handle \in {None} \cup Handles
      /\ e.same => e.handle = h /\ h # None
      /\ e.ok => e.handle # None /\ e.handle.stamp = Stamp(e.src)
      /\ ~ e.same => e.handle = None \/ e.handle = Handle(e.src)
      /\ e.src # src \/ ~ e.same => h = None \/ h.pend # {} \/ h.stamp # Stamp(src)
      /\ h = None /\ ~ e.ok => e.src = src
  BY <1>1, Zenon DEF Ensures
<1>3. /\ Handle(e.src).seen = Handle(e.src).stamp[1]
      /\ Handle(e.src).pend = {} /\ Handle(e.src).stamp = Stamp(e.src)
  BY <1>2, HandleFacts DEF Stamp
<1>4. h # None => /\ h.seen = h.stamp[1]
                  /\ (h.pend = {} /\ h.stamp = Stamp(src)) \/ Obliged(cat)
  BY DEF Knows, Current
<1>5. CASE e.same
  <2>1. e.handle = h /\ h # None
    BY <1>2, <1>5
  <2>2. Obliged(cat) \/ (src' = src /\ h.pend = {} /\ h.stamp = Stamp(src'))
    BY <1>2, <1>4, <2>1
  <2>. QED BY <1>2, <1>4, <2>1, <2>2 DEF Kept
<1>6. CASE ~ e.same
  <2>1. h = None \/ Obliged(cat)
    BY <1>2, <1>4, <1>6
  <2>2. e.handle # None => /\ e.handle.seen = e.handle.stamp[1]
                           /\ e.handle.pend = {} /\ e.handle.stamp = Stamp(src')
    BY <1>2, <1>3, <1>6
  <2>3. ~ e.ok /\ src' # src => Obliged(cat)
    BY <1>2, <2>1
  <2>. QED BY <1>2, <2>1, <2>2, <2>3 DEF Kept
<1>. QED BY <1>5, <1>6

\* append and set_leaf: the intent precedes the write.
LEMMA MutateBeginRecovers ==
  ASSUME NEW p \in Procs, StoreInv, RecoverInv(p), NEW operation \in {"append", "leaf"},
         MutateBegin(p, operation)
  PROVE RecoverInv(p)'
<1>. /\ Covered /\ Forgotten /\ proc[p] \in Processes
     /\ src \in Files /\ src.synced \subseteq src.facts /\ cat \in Catalogs
     /\ proc[p].handle \in {None} \cup Handles
     /\ \A r : Step(p, r) => proc'[p] = r
  BY AloneFacts
<1>. DEFINE h == proc[p].handle
<1>1. proc[p].pc = "idle" /\ proc[p].op = "none" /\ UNCHANGED wanted /\ (h # None => Knows(h))
  BY AloneFacts DEF MutateBegin, Idle, InStage, Unlocked, AloneIn
<1>2. PICK e \in EnsureHandle(src, cat, h) :
        /\ src' = e.src
        /\ cat' = IF e.ok THEN WithIntent(KeptIntents(cat, p, e), p) ELSE KeptIntents(cat, p, e)
        /\ Step(p, IF e.ok
                   THEN [Begin(p, operation, "write") EXCEPT
                           !.handle = e.handle, !.needs = TRUE, !.fact = used']
                   ELSE Answer([proc[p] EXCEPT !.handle = e.handle], "err"))
  BY DEF MutateBegin
<1>3. Kept(h, e)
  BY <1>1, <1>2, EnsuredIsKept
<1>. DEFINE c == KeptIntents(cat, p, e)
<1>4. /\ c \in Catalogs /\ c.index = cat.index /\ c.row = cat.row
      /\ c.repair = cat.repair /\ c.marker = cat.marker /\ (c.intents = {} <=> cat.intents = {})
  BY KeptIntentsFacts
<1>5. Obliged(c) <=> Obliged(cat)
  BY <1>4 DEF Obliged
<1>. HIDE DEF c
<1>6. CASE e.ok
  <2>1. p \in cat'.intents /\ Obliged(cat')
    BY <1>2, <1>4, <1>6, WithIntentFacts DEF c
  <2>2. e.handle.seen = e.handle.stamp[1] /\ e.handle # None /\ e.handle.stamp = Stamp(src')
    BY <1>3, <1>6 DEF Kept
  <2>3. Step(p, [Begin(p, operation, "write") EXCEPT !.handle = e.handle, !.needs = TRUE, !.fact = used'])
    BY <1>2, <1>6
  <2>4. proc'[p].pc = "write" /\ proc'[p].handle = e.handle /\ proc'[p].op = operation
    BY <2>3 DEF Begin, Processes
  <2>5. AloneIn(p)'
    BY <2>1, <2>2, <2>4 DEF AloneIn, Knows, RepairStages
  <2>6. Covered' /\ Forgotten'
    BY <1>1, <1>3, <2>1, ObligedCovers DEF Kept
  <2>. QED BY <2>5, <2>6 DEF RecoverInv
<1>7. CASE ~ e.ok
  <2>1. Step(p, Answer([proc[p] EXCEPT !.handle = e.handle], "err")) /\ cat' = c
    BY <1>2, <1>7 DEF c
  <2>2. Rests(proc'[p]) /\ proc'[p].handle = e.handle
    <3>. DEFINE u == [proc[p] EXCEPT !.handle = e.handle]
    <3>1. u \in Processes /\ u.op = "none" /\ u.handle = e.handle
      BY <1>1, <1>3 DEF Processes, Kept
    <3>2. proc'[p] = Answer(u, "err")
      BY <2>1
    <3>. HIDE DEF u
    <3>3. Rests(Answer(u, "err")) /\ Answer(u, "err").handle = e.handle
      BY <3>1, AnswerRests, AnswerFacts
    <3>. QED BY <3>2, <3>3
  <2>3. Covered' /\ Forgotten'
    <3>1. CASE src' = src
      <4>1. cat'.row = cat.row /\ (Obligation => Obligation')
        BY <1>4, <1>5, <2>1 DEF Obligation
      <4>. QED BY <1>1, <3>1, <4>1, StillCovered
    <3>2. CASE src' # src
      BY <1>1, <1>3, <1>5, <1>7, <2>1, <3>2, ObligedCovers DEF Kept
    <3>. QED BY <3>1, <3>2
  <2>4. e.handle # None => Knows(e.handle)'
    BY <1>3, <1>5, <2>1 DEF Kept, Knows, Current
  <2>5. proc'[p].handle # None => Knows(proc[p].handle)'
    BY <2>2, <2>4
  <2>. QED BY <2>2, <2>3, <2>5, RestRecovers
<1>. QED BY <1>6, <1>7

\* The write keeps the intent, however far it gets.
LEMMA WriteRecovers ==
  ASSUME NEW p \in Procs, StoreInv, RecoverInv(p),
         Wrote(p) \/ WroteUnread(p) \/ WriteFailed(p) \/ WriteRefused(p)
  PROVE RecoverInv(p)'
<1>. DEFINE q == proc[p]  h == q.handle
<1>. /\ Covered /\ Forgotten /\ q \in Processes
     /\ src \in Files /\ src.synced \subseteq src.facts /\ cat \in Catalogs
     /\ \A r : Step(p, r) => proc'[p] = r
  BY AloneFacts
<1>1. q.pc = "write" /\ cat' = cat /\ UNCHANGED wanted
  BY DEF Wrote, WroteUnread, WriteFailed, WriteRefused, At, history
<1>2. /\ h \in Handles /\ h # None /\ q.fact \in Facts /\ p \in cat.intents
      /\ h.stamp = Stamp(src) /\ h.seen = h.stamp[1] /\ q.op # "open"
  BY <1>1, AloneFacts, StoreAssumption DEF InStage, HandleStages, AloneIn, Knows
<1>3. Obliged(cat) /\ Obliged(cat')
  BY <1>1, <1>2 DEF Obliged
<1>4. h.pend \in SUBSET Facts /\ h.pend \cup {q.fact} \in SUBSET Facts
  BY <1>2 DEF Handles
<1>5. ASSUME src'.visible = src.visible, src'.linked = src.linked,
             proc'[p].handle # None => proc'[p].handle.seen = proc'[p].handle.stamp[1],
             \/ Rests(proc'[p])
             \/ proc'[p].pc \in {"project", "reproject"} /\ (proc'[p].clear => Current(proc[p].handle)')
      PROVE RecoverInv(p)'
  <2>1. Covered' /\ Forgotten'
    BY <1>1, <1>3, <1>5, ObligedCovers
  <2>2. AloneIn(p)'
    BY <1>1, <1>2, <1>3, <1>5 DEF AloneIn, Knows, Rests, RepairStages
  <2>. QED BY <2>1, <2>2 DEF RecoverInv
<1>6. CASE Wrote(p)
  <2>. DEFINE s == Persisted(src, h.pend \cup {q.fact})
              seen == IF h.pend = {} /\ q.op = "append" THEN h.seen \cup {q.fact} ELSE s.facts
              k == [seen |-> seen, stamp |-> Stamp(s), pend |-> {}, dirty |-> TRUE]
              r == [q EXCEPT !.pc = "project", !.handle = k]
  <2>1. src' = s /\ Step(p, r)
    BY <1>6, Zenon DEF Wrote
  <2>2. /\ s.visible = src.visible /\ s.linked = src.linked
        /\ s.facts = src.facts \cup (h.pend \cup {q.fact})
    BY <1>4, PersistedFacts
  <2>. HIDE DEF s
  <2>3. seen = Stamp(s)[1]
    BY <1>2, <2>2 DEF Stamp
  <2>. HIDE DEF seen
  <2>4. k.pend = {} /\ k.stamp = Stamp(s) /\ k.seen = k.stamp[1]
    BY <2>3
  <2>. HIDE DEF k
  <2>5. proc'[p] = r /\ r.pc = "project" /\ r.handle = k
    BY <2>1 DEF Processes
  <2>. HIDE DEF r
  <2>6. Current(proc[p].handle)'
    BY <2>1, <2>4, <2>5 DEF Current
  <2>. QED BY <1>5, <2>1, <2>2, <2>4, <2>5, <2>6
<1>7. CASE WroteUnread(p)
  <2>. DEFINE s == Persisted(src, h.pend \cup {q.fact})
              k == [h EXCEPT !.pend = {}, !.dirty = TRUE]
              u == [q EXCEPT !.handle = k]
  <2>1. src' = s /\ Step(p, Answer([q EXCEPT !.handle.pend = {}, !.handle.dirty = TRUE], "err"))
    BY <1>7, Zenon DEF WroteUnread
  <2>2. s.visible = src.visible /\ s.linked = src.linked
    BY <1>4, PersistedFacts
  <2>3. k \in Handles /\ k.seen = k.stamp[1]
    BY <1>2 DEF Handles
  <2>4. [q EXCEPT !.handle.pend = {}, !.handle.dirty = TRUE] = u
    BY <1>2 DEF Processes, Handles
  <2>. HIDE DEF k, s
  <2>5. u \in Processes /\ u.handle = k /\ u.op = q.op
    BY <2>3 DEF Processes
  <2>6. proc'[p] = Answer(u, "err")
    BY <2>1, <2>4
  <2>. HIDE DEF u
  <2>7. Rests(Answer(u, "err")) /\ Answer(u, "err").handle = k
    BY <1>2, <2>5, AnswerRests, AnswerFacts
  <2>. QED BY <1>5, <2>1, <2>2, <2>3, <2>6, <2>7
<1>8. ASSUME src'.visible = src.visible, src'.linked = src.linked,
             NEW k \in Handles, k.seen = k.stamp[1], NEW clear \in BOOLEAN, NEW read \in BOOLEAN,
             clear => k.pend = {} /\ k.stamp = Stamp(src'),
             NEW r \in Processes, r = [q EXCEPT !.clear = clear, !.handle = k],
             Step(p, IF read \/ r.op = "leaf" THEN [r EXCEPT !.pc = "reproject"] ELSE Answer(r, "err"))
      PROVE RecoverInv(p)'
  <2>1. r.op = q.op /\ r.handle = k /\ r.clear = clear
    BY <1>8 DEF Processes
  <2>2. CASE read \/ r.op = "leaf"
    <3>. DEFINE x == [r EXCEPT !.pc = "reproject"]
    <3>1. x.pc = "reproject" /\ x.handle = k /\ x.clear = clear
      BY <2>1 DEF Processes
    <3>2. proc'[p] = x
      BY <1>8, <2>2
    <3>. HIDE DEF x
    <3>3. proc'[p].clear => Current(proc[p].handle)'
      BY <1>8, <3>1, <3>2 DEF Current
    <3>. QED BY <1>5, <1>8, <3>1, <3>2, <3>3
  <2>3. CASE ~ (read \/ r.op = "leaf")
    <3>1. proc'[p] = Answer(r, "err")
      BY <1>8, <2>3
    <3>2. Rests(Answer(r, "err")) /\ Answer(r, "err").handle = k
      BY <1>2, <2>1, AnswerRests, AnswerFacts
    <3>. QED BY <1>5, <1>8, <3>1, <3>2
  <2>. QED BY <2>2, <2>3
<1>9. CASE WriteFailed(p)
  <2>1. PICK w \in FailedWrite(src, h, q.fact), read \in BOOLEAN :
          LET r == [q EXCEPT !.clear = FALSE,
                      !.handle = IF read THEN [Handle(w[1]) EXCEPT !.pend = w[2]]
                                 ELSE [@ EXCEPT !.pend = w[2], !.dirty = TRUE]]
          IN /\ src' = w[1]
             /\ Step(p, IF read \/ r.op = "leaf" THEN [r EXCEPT !.pc = "reproject"]
                        ELSE Answer(r, "err"))
    BY <1>9 DEF WriteFailed
  <2>2. /\ w[1] \in Files /\ w[2] \in SUBSET Facts
        /\ w[1].visible = src.visible /\ w[1].linked = src.linked
    <3>1. LeftBehind(src, w)
      BY <1>2, FailedWriteFacts
    <3>. QED BY <3>1 DEF LeftBehind
  <2>. DEFINE k == IF read THEN [Handle(w[1]) EXCEPT !.pend = w[2]] ELSE [h EXCEPT !.pend = w[2], !.dirty = TRUE]
              r == [q EXCEPT !.clear = FALSE, !.handle = k]
  <2>3. k \in Handles /\ k.seen = k.stamp[1]
    <3>1. Handle(w[1]) \in Handles /\ Handle(w[1]).seen = Handle(w[1]).stamp[1]
      BY <2>2, HandleFacts DEF Stamp
    <3>. QED BY <1>2, <2>2, <3>1 DEF Handles
  <2>4. Step(p, IF read \/ r.op = "leaf" THEN [r EXCEPT !.pc = "reproject"] ELSE Answer(r, "err"))
    BY <2>1
  <2>. HIDE DEF k
  <2>5. r \in Processes
    BY <2>3 DEF Processes
  <2>6. r = [q EXCEPT !.clear = FALSE, !.handle = k] /\ src' = w[1]
    BY <2>1
  <2>. HIDE DEF r
  <2>. QED BY <1>8, <2>2, <2>3, <2>4, <2>5, <2>6
<1>10. CASE WriteRefused(p)
  <2>1. PICK read \in BOOLEAN :
          LET r == [q EXCEPT !.clear = h.pend = {},
                      !.handle = IF read THEN [Handle(src) EXCEPT !.pend = h.pend]
                                 ELSE [@ EXCEPT !.dirty = TRUE]]
          IN Step(p, IF read \/ r.op = "leaf" THEN [r EXCEPT !.pc = "reproject"]
                     ELSE Answer(r, "err"))
    BY <1>10 DEF WriteRefused
  <2>2. src' = src
    BY <1>10 DEF WriteRefused
  <2>. DEFINE k == IF read THEN [Handle(src) EXCEPT !.pend = h.pend] ELSE [h EXCEPT !.dirty = TRUE]
              c == h.pend = {}
              r == [q EXCEPT !.clear = c, !.handle = k]
  <2>3. k \in Handles /\ c \in BOOLEAN /\ k.seen = k.stamp[1] /\ k.pend = h.pend /\ k.stamp = Stamp(src)
    <3>1. Handle(src) \in Handles /\ Handle(src).seen = Handle(src).stamp[1] /\ Handle(src).stamp = Stamp(src)
      BY HandleFacts DEF Stamp
    <3>. QED BY <1>2, <1>4, <3>1 DEF Handles
  <2>4. Step(p, IF read \/ r.op = "leaf" THEN [r EXCEPT !.pc = "reproject"] ELSE Answer(r, "err"))
    BY <2>1
  <2>5. c => k.pend = {} /\ k.stamp = Stamp(src')
    BY <2>2, <2>3
  <2>. HIDE DEF k, c
  <2>6. r \in Processes
    BY <2>3 DEF Processes
  <2>7. r = [q EXCEPT !.clear = c, !.handle = k]
    OBVIOUS
  <2>. HIDE DEF r
  <2>. QED BY <1>8, <2>2, <2>3, <2>4, <2>5, <2>6, <2>7
<1>. QED BY <1>6, <1>7, <1>9, <1>10

\* The intent goes with the projection of all there is, in one
\* transaction.
LEMMA ProjectRecovers ==
  ASSUME NEW p \in Procs, StoreInv, RecoverInv(p), Project(p) \/ ProjectFails(p)
  PROVE RecoverInv(p)'
<1>. PICK q : q = proc[p]
  OBVIOUS
<1>. DEFINE h == q.handle
<1>. /\ Covered /\ Forgotten /\ q \in Processes
     /\ src \in Files /\ cat \in Catalogs
     /\ \A r : Step(p, r) => proc'[p] = r
  BY AloneFacts
<1>1. q.pc \in {"project", "reproject"} /\ UNCHANGED <<src, wanted>>
  BY DEF Project, ProjectFails, history
<1>2. /\ h \in Handles /\ h # None /\ q.op # "open" /\ h.seen = h.stamp[1]
      /\ q.clear => Current(h)
      /\ ~ q.clear => p \in cat.intents
      /\ q.pc = "project" => q.clear
      /\ Current(h) \/ Obliged(cat)
  BY <1>1, AloneFacts, StoreAssumption DEF InStage, HandleStages, AloneIn, Knows
<1>3. CASE Project(p)
  <2>. DEFINE k == [h EXCEPT !.dirty = ~ q.clear]
              n == Obliged(cat')
              u == [q EXCEPT !.handle = k, !.needs = n]
  <2>1. cat' = Projected(cat, p, h.seen, q.clear)
    BY <1>3 DEF Project
  <2>2. /\ cat'.row = h.seen /\ cat'.repair = cat.repair /\ cat'.marker = cat.marker
        /\ ~ q.clear => cat'.intents = cat.intents
    BY <2>1 DEF Projected, Catalogs
  <2>3. k \in Handles /\ k # None /\ k.seen = h.seen /\ k.stamp = h.stamp /\ k.pend = h.pend
    <3>1. (~ q.clear) \in BOOLEAN
      OBVIOUS
    <3>. QED BY <1>2, <3>1, StoreAssumption DEF Handles
  <2>4. n \in BOOLEAN
    BY DEF Obliged
  <2>5. [q EXCEPT !.handle.dirty = ~ q.clear, !.needs = Obliged(cat')] = u
    BY <1>2 DEF Processes, Handles
  <2>6. Step(p, IF q.pc = "reproject" THEN Answer(u, "err")
                ELSE IF u.op \in {"flush", "shutdown"} /\ u.needs
                THEN [u EXCEPT !.pc = "rmark"]
                ELSE Answer(u, "ok"))
    BY <1>3, <2>5 DEF Project
  <2>. HIDE DEF k, n
  <2>7. u \in Processes /\ u.handle = k /\ u.op = q.op
    BY <2>3, <2>4 DEF Processes
  <2>. HIDE DEF u
  <2>8. Covered' /\ Forgotten'
    <3>1. CASE q.clear
      <4>1. cat'.row = src'.facts
        BY <1>1, <1>2, <2>2, <3>1 DEF Current, Stamp
      <4>2. src'.facts # None
        BY <1>1, StoreAssumption DEF Files
      <4>. QED BY <1>1, <4>1, <4>2 DEF Covered, Forgotten
    <3>2. CASE ~ q.clear
      BY <1>1, <1>2, <2>2, <3>2, ObligedCovers DEF Obliged
    <3>. QED BY <3>1, <3>2
  <2>9. /\ k.seen = k.stamp[1] /\ (q.clear => Current(k)')
        /\ Knows(k)'
    <3>1. ~ q.clear => Obliged(cat')
      BY <1>2, <2>2 DEF Obliged
    <3>. QED BY <1>1, <1>2, <2>3, <3>1 DEF Current, Knows
  <2>10. CASE q.pc = "project" /\ u.op \in {"flush", "shutdown"} /\ u.needs
    <3>. DEFINE r == [u EXCEPT !.pc = "rmark"]
    <3>1. proc'[p] = r /\ r.pc = "rmark" /\ r.handle = k
      BY <2>6, <2>7, <2>10 DEF Processes
    <3>. HIDE DEF r
    <3>2. AloneIn(p)'
      BY <1>2, <2>9, <2>10, <3>1 DEF AloneIn, RepairStages
    <3>. QED BY <2>8, <3>2 DEF RecoverInv
  <2>11. CASE ~ (q.pc = "project" /\ u.op \in {"flush", "shutdown"} /\ u.needs)
    <3>1. PICK a \in {"ok", "err"} : proc'[p] = Answer(u, a)
      BY <1>1, <2>6, <2>11
    <3>2. Rests(proc'[p]) /\ proc'[p].handle \in {None, k}
      BY <2>7, <3>1, AnswerRests, AnswerFacts
    <3>. QED BY <2>8, <2>9, <3>2, RestRecovers
  <2>. QED BY <2>10, <2>11
<1>4. CASE ProjectFails(p)
  <2>. DEFINE n == q.needs \/ cat'.repair
              u == [q EXCEPT !.needs = n]
  <2>1. proc'[p] = Answer(u, "err") /\ cat' \in Rearmed(cat)
    BY <1>4 DEF ProjectFails
  <2>2. cat'.row = cat.row /\ (Obliged(cat) => Obliged(cat')) /\ (Obligation => Obligation') /\ cat'.repair \in BOOLEAN
    BY <2>1 DEF Rearmed, Catalogs, Obliged, Obligation
  <2>3. n \in BOOLEAN
    BY <2>2 DEF Processes
  <2>. HIDE DEF n
  <2>4. u \in Processes /\ u.handle = h
    BY <2>3 DEF Processes
  <2>. HIDE DEF u
  <2>5. Rests(proc'[p]) /\ proc'[p].handle \in {None, h}
    BY <2>1, <2>4, AnswerRests, AnswerFacts
  <2>6. Knows(h)'
    BY <1>1, <1>2, <2>2 DEF Knows, Current
  <2>7. Covered' /\ Forgotten'
    BY <1>1, <2>2, StillCovered
  <2>. QED BY <2>5, <2>6, <2>7, RestRecovers
<1>. QED BY <1>3, <1>4

\* flush, shutdown and the eviction of a handle that has nothing to say.
LEMMA FlushRecovers ==
  ASSUME NEW p \in Procs, StoreInv, RecoverInv(p),
         \/ \E operation \in {"flush", "shutdown"} : FlushBegin(p, operation)
         \/ FlushHandle(p) \/ Evict(p)
  PROVE RecoverInv(p)'
<1>. PICK q : q = proc[p]
  OBVIOUS
<1>. DEFINE h == q.handle
<1>. /\ Covered /\ Forgotten /\ q \in Processes
     /\ src \in Files /\ src.synced \subseteq src.facts /\ cat \in Catalogs
     /\ h \in {None} \cup Handles
     /\ h # None => Knows(h)
     /\ \A r : Step(p, r) => proc'[p] = r
  BY AloneFacts DEF AloneIn
<1>1. UNCHANGED wanted
  BY DEF FlushBegin, FlushHandle, Evict, history
<1>2. ASSUME proc'[p].handle = None, proc'[p].pc \in {"rmark"} \/ Rests(proc'[p]),
             UNCHANGED src, cat' = Orphaned(cat, p)
      PROVE RecoverInv(p)'
  <2>1. cat'.row = cat.row /\ (Obligation => Obligation')
    BY <1>2, OrphanedFacts DEF Obligation
  <2>2. Covered' /\ Forgotten'
    BY <1>1, <1>2, <2>1, StillCovered
  <2>3. AloneIn(p)'
    BY <1>2 DEF AloneIn, Rests, RepairStages
  <2>. QED BY <2>2, <2>3 DEF RecoverInv
<1>3. ASSUME NEW operation \in {"flush", "shutdown"}, FlushBegin(p, operation)
      PROVE RecoverInv(p)'
  <2>1. q.pc = "idle"
    BY <1>3 DEF FlushBegin, Idle
  <2>2. CASE /\ h = None \/ (h # None /\ h.pend = {} /\ ~ src.visible)
             /\ cat' = Orphaned(cat, p) /\ src' = src
             /\ LET r == [Begin(p, operation, "rmark") EXCEPT !.handle = None]
                IN Step(p, IF r.needs THEN r ELSE Answer(r, "ok"))
    <3>. DEFINE r == [Begin(p, operation, "rmark") EXCEPT !.handle = None]
    <3>1. r \in Processes /\ r.pc = "rmark" /\ r.handle = None /\ r.op = operation
      BY <1>3 DEF Begin, Processes, Stages, RepairStages
    <3>2. proc'[p] = IF r.needs THEN r ELSE Answer(r, "ok")
      BY <2>2
    <3>. HIDE DEF r
    <3>3. Rests(Answer(r, "ok")) /\ Answer(r, "ok").handle = None
      BY <3>1, AnswerRests, AnswerFacts
    <3>. QED BY <1>2, <2>2, <3>1, <3>2, <3>3
  <2>3. CASE /\ ~ (h = None \/ (h # None /\ h.pend = {} /\ ~ src.visible))
             /\ \E e \in EnsureHandle(src, cat, h) :
                  /\ src' = e.src /\ cat' = KeptIntents(cat, p, e)
                  /\ LET r == [Begin(p, operation, "drain") EXCEPT !.handle = e.handle]
                     IN Step(p, IF e.ok THEN r ELSE Answer(r, "err"))
    <3>1. PICK e \in EnsureHandle(src, cat, h) :
            /\ src' = e.src /\ cat' = KeptIntents(cat, p, e)
            /\ Step(p, IF e.ok THEN [Begin(p, operation, "drain") EXCEPT !.handle = e.handle]
                       ELSE Answer([Begin(p, operation, "drain") EXCEPT !.handle = e.handle], "err"))
      BY <2>3
    <3>2. Kept(h, e)
      BY <3>1, EnsuredIsKept
    <3>3. cat'.row = cat.row /\ (Obliged(cat) <=> Obliged(cat')) /\ (Obligation => Obligation')
      <4>. DEFINE c == KeptIntents(cat, p, e)
      <4>1. /\ c \in Catalogs /\ c.index = cat.index /\ c.row = cat.row
            /\ c.repair = cat.repair /\ c.marker = cat.marker /\ (c.intents = {} <=> cat.intents = {})
        BY KeptIntentsFacts
      <4>2. cat' = c
        BY <3>1
      <4>. HIDE DEF c
      <4>. QED BY <4>1, <4>2 DEF Obliged, Obligation
    <3>4. Covered' /\ Forgotten'
      <4>1. CASE src' = src
        BY <1>1, <3>3, <4>1, StillCovered
      <4>2. CASE src' # src
        <5>1. h # None
          BY <2>3
        <5>. QED BY <1>1, <3>2, <3>3, <4>2, <5>1, ObligedCovers DEF Kept
      <4>. QED BY <4>1, <4>2
    <3>5. e.handle # None => Knows(e.handle)'
      BY <3>2, <3>3 DEF Kept, Knows, Current
    <3>. DEFINE r == [Begin(p, operation, "drain") EXCEPT !.handle = e.handle]
    <3>6. r \in Processes /\ r.pc = "drain" /\ r.handle = e.handle
      BY <1>3, <3>2 DEF Begin, Processes, Stages, HandleStages, Kept
    <3>7. proc'[p] = IF e.ok THEN r ELSE Answer(r, "err")
      BY <3>1
    <3>. HIDE DEF r
    <3>8. CASE e.ok
      <4>1. e.handle.stamp = Stamp(src')
        BY <3>2, <3>8 DEF Kept
      <4>2. proc'[p] = r
        BY <3>7, <3>8
      <4>3. AloneIn(p)'
        BY <3>5, <3>6, <4>1, <4>2 DEF AloneIn, RepairStages
      <4>. QED BY <3>4, <4>3 DEF RecoverInv
    <3>9. CASE ~ e.ok
      <4>1. Rests(proc'[p]) /\ proc'[p].handle \in {None, e.handle}
        BY <3>6, <3>7, <3>9, AnswerRests, AnswerFacts
      <4>. QED BY <3>4, <3>5, <4>1, RestRecovers
    <3>. QED BY <3>8, <3>9
  <2>. QED BY <1>3, <2>2, <2>3 DEF FlushBegin
<1>4. CASE FlushHandle(p)
  <2>1. q.pc = "drain" /\ cat' = cat
    BY <1>4 DEF FlushHandle, At
  <2>2. h \in Handles /\ h # None /\ h.stamp = Stamp(src) /\ h.seen = h.stamp[1] /\ q.clear /\ q.op # "open"
    BY <2>1, AloneFacts, StoreAssumption DEF InStage, HandleStages, AloneIn, Knows
  <2>3. h.pend \in SUBSET Facts /\ (h.pend = {} \/ Obliged(cat))
    BY <2>2 DEF Handles, Knows, Current
  <2>4. ASSUME src' = Persisted(src, h.pend)
        PROVE /\ Covered' /\ Forgotten' /\ src' \in Files
              /\ h.pend = {} => Stamp(src') = Stamp(src)
    <3>1. /\ src'.visible = src.visible /\ src'.linked = src.linked /\ src' \in Files
          /\ src'.facts = src.facts \cup h.pend
          /\ h.pend = {} => Stamp(src') = Stamp(src)
      BY <2>3, <2>4, PersistedFacts
    <3>2. CASE h.pend = {}
      <4>1. Covered'
        BY <1>1, <2>1, <3>1, <3>2 DEF Covered, Obligation
      <4>2. Forgotten'
        BY <1>1, <3>1 DEF Forgotten
      <4>. QED BY <3>1, <4>1, <4>2
    <3>3. CASE h.pend # {}
      BY <1>1, <2>1, <2>3, <3>1, <3>3, ObligedCovers
    <3>. QED BY <3>2, <3>3
  <2>5. CASE src' = Persisted(src, h.pend) /\ Step(p, [proc[p] EXCEPT !.pc = "project", !.handle = Handle(src')])
    <3>1. proc'[p].pc = "project" /\ proc'[p].handle = Handle(src')
      BY <2>5 DEF Processes
    <3>2. Handle(src').pend = {} /\ Handle(src').stamp = Stamp(src') /\ Handle(src').seen = Handle(src').stamp[1]
      BY <2>4, <2>5, HandleFacts DEF Stamp
    <3>3. Current(proc[p].handle)' /\ Knows(proc[p].handle)'
      BY <3>1, <3>2 DEF Current, Knows
    <3>4. proc'[p].clear
      BY <2>2, <2>5 DEF Processes
    <3>5. AloneIn(p)'
      BY <3>1, <3>3, <3>4 DEF AloneIn, RepairStages
    <3>. QED BY <2>4, <2>5, <3>5 DEF RecoverInv
  <2>6. CASE src' = Persisted(src, h.pend) /\ Step(p, Answer([proc[p] EXCEPT !.handle.pend = {}], "err"))
    <3>. DEFINE k == [h EXCEPT !.pend = {}]
                u == [q EXCEPT !.handle = k]
    <3>1. k \in Handles /\ k.seen = h.seen /\ k.stamp = h.stamp /\ k.pend = {}
      BY <2>2 DEF Handles
    <3>2. [proc[p] EXCEPT !.handle.pend = {}] = u
      BY <2>2 DEF Processes, Handles
    <3>. HIDE DEF k
    <3>3. u \in Processes /\ u.handle = k
      BY <3>1 DEF Processes
    <3>4. proc'[p] = Answer(u, "err")
      BY <2>6, <3>2
    <3>. HIDE DEF u
    <3>5. Rests(proc'[p]) /\ proc'[p].handle \in {None, k}
      BY <3>3, <3>4, AnswerRests, AnswerFacts
    <3>6. Knows(k)'
      BY <2>1, <2>2, <2>3, <2>4, <2>6, <3>1 DEF Knows, Current
    <3>. QED BY <2>4, <2>6, <3>5, <3>6, RestRecovers
  <2>7. CASE src' \in Partly(src, h.pend) /\ Step(p, Answer(proc[p], "err"))
    <3>1. src'.visible = src.visible /\ src'.linked = src.linked /\ (h.pend = {} => src' = src)
      BY <2>3, <2>7, PartlyFacts
    <3>2. Covered' /\ Forgotten' /\ Knows(h)'
      <4>1. CASE h.pend = {}
        BY <1>1, <2>1, <2>2, <3>1, <4>1, StillCovered DEF Knows, Current, Obligation
      <4>2. CASE h.pend # {}
        BY <1>1, <2>1, <2>2, <2>3, <3>1, <4>2, ObligedCovers DEF Knows
      <4>. QED BY <4>1, <4>2
    <3>3. Rests(proc'[p]) /\ proc'[p].handle \in {None, h}
      BY <2>7, AnswerRests, AnswerFacts
    <3>. QED BY <3>2, <3>3, RestRecovers
  <2>. QED BY <1>4, <2>5, <2>6, <2>7 DEF FlushHandle
<1>5. CASE Evict(p)
  <2>1. /\ q.pc = "idle" /\ UNCHANGED src /\ cat' = Orphaned(cat, p)
        /\ proc'[p] = [q EXCEPT !.handle = None]
    BY <1>5 DEF Evict, Idle
  <2>2. Rests(proc'[p]) /\ proc'[p].handle = None
    BY <2>1, AloneFacts DEF InStage, Unlocked, Processes, Rests
  <2>. QED BY <1>2, <2>1, <2>2
<1>. QED BY <1>3, <1>4, <1>5

\* repair: the key stays until the rows are what the files say.
LEMMA RepairingRecovers ==
  ASSUME NEW p \in Procs, StoreInv, RecoverInv(p),
         \/ RepairBegin(p) \/ RepairMark(p) \/ RepairScan(p) \/ RepairSync(p)
         \/ RepairApply(p) \/ RepairUnmark(p) \/ RepairUnmarkFails(p) \/ RepairFails(p)
  PROVE RecoverInv(p)'
<1>. PICK q : q = proc[p]
  OBVIOUS
<1>. DEFINE h == q.handle
<1>. /\ Covered /\ Forgotten /\ q \in Processes
     /\ src \in Files /\ src.synced \subseteq src.facts /\ cat \in Catalogs
     /\ h \in {None} \cup Handles
     /\ h # None => Knows(h) /\ h.pend \in SUBSET Facts
     /\ q.pc \in RepairStages /\ h # None => Current(h)
     /\ \A r : Step(p, r) => proc'[p] = r
  BY AloneFacts DEF AloneIn
<1>1. UNCHANGED wanted
  BY DEF RepairBegin, RepairMark, RepairScan, RepairSync, RepairApply, RepairUnmark, RepairUnmarkFails,
         RepairFails, history
<1>2. /\ Orphaned(cat, p).row = cat.row /\ (Obliged(Orphaned(cat, p)) <=> Obliged(cat))
      /\ Orphaned(cat, p).marker = cat.marker /\ Orphaned(cat, p).index = cat.index
  BY OrphanedFacts
<1>3. CASE RepairBegin(p)
  <2>. DEFINE r == [Begin(p, "repair", "rmark") EXCEPT !.handle = None]
              u == [r EXCEPT !.handle = h]
  <2>1. r \in Processes /\ r.handle = None /\ r.pc = "rmark"
    BY DEF Begin, Processes, Stages, RepairStages
  <2>2. u \in Processes /\ u.handle = h
    BY <2>1 DEF Processes
  <2>3. \/ src' = src /\ cat' = Orphaned(cat, p) /\ (proc'[p] = Answer(r, "err") \/ proc'[p] = r)
        \/ h # None /\ src' = Persisted(src, h.pend) /\ cat' = Orphaned(cat, p) /\ proc'[p] = r
        \/ h # None /\ src' \in Partly(src, h.pend) /\ cat' = cat /\ proc'[p] = Answer(u, "err")
    BY <1>3 DEF RepairBegin
  <2>. HIDE DEF r, u
  <2>4. /\ Rests(Answer(r, "err")) /\ Answer(r, "err").handle = None
        /\ Rests(Answer(u, "err")) /\ Answer(u, "err").handle \in {None, h}
    BY <2>1, <2>2, AnswerRests, AnswerFacts
  <2>5. /\ src'.visible = src.visible /\ src'.linked = src.linked
        /\ src' = src \/ (h # None /\ src'.facts = src.facts) \/ (h # None /\ h.pend # {})
        /\ h # None /\ h.pend = {} /\ src' \in Partly(src, h.pend) => src' = src
    <3>1. CASE h # None /\ src' = Persisted(src, h.pend)
      <4>1. src'.visible = src.visible /\ src'.linked = src.linked /\ src'.facts = src.facts \cup h.pend
        BY <3>1, PersistedFacts
      <4>. QED BY <3>1, <4>1, PartlyFacts
    <3>2. CASE h # None /\ src' \in Partly(src, h.pend)
      BY <3>2, PartlyFacts
    <3>. QED BY <2>3, <3>1, <3>2, PartlyFacts
  <2>6. cat'.row = cat.row /\ (Obliged(cat) <=> Obliged(cat')) /\ (Obligation => Obligation')
    BY <1>2, <2>3 DEF Obligation
  <2>7. Covered' /\ Forgotten'
    <3>1. CASE Obliged(cat)
      BY <1>1, <2>5, <2>6, <3>1, ObligedCovers
    <3>2. CASE ~ Obliged(cat)
      <4>1. src'.facts = src.facts
        BY <2>5, <3>2 DEF Knows, Current
      <4>. QED BY <1>1, <2>5, <2>6, <4>1 DEF Covered, Forgotten
    <3>. QED BY <3>1, <3>2
  <2>8. CASE proc'[p] = r
    <3>1. AloneIn(p)'
      BY <2>1, <2>8 DEF AloneIn, RepairStages
    <3>. QED BY <2>7, <3>1 DEF RecoverInv
  <2>9. CASE proc'[p] = Answer(r, "err")
    BY <2>4, <2>7, <2>9, RestRecovers
  <2>10. CASE h # None /\ src' \in Partly(src, h.pend) /\ proc'[p] = Answer(u, "err")
    <3>1. Knows(h)'
      BY <2>5, <2>6, <2>10 DEF Knows, Current
    <3>. QED BY <2>4, <2>7, <2>10, <3>1, RestRecovers
  <2>. QED BY <2>3, <2>8, <2>9, <2>10
<1>4. CASE RepairMark(p)
  <2>1. /\ q.pc = "rmark" /\ src' = src /\ cat'.repair /\ proc'[p].pc = "scan" /\ proc'[p].handle = h
    BY <1>4 DEF RepairMark, At, Processes, Catalogs
  <2>2. Covered' /\ Forgotten' /\ Obliged(cat')
    BY <1>1, <2>1, ObligedCovers DEF Obliged
  <2>3. AloneIn(p)'
    BY <2>1, <2>2 DEF AloneIn, RepairStages, Knows, Current
  <2>. QED BY <2>2, <2>3 DEF RecoverInv
<1>5. CASE RepairScan(p) \/ RepairSync(p)
  <2>1. /\ q.pc \in {"scan", "rsync"} /\ cat' = cat
        /\ proc'[p].pc \in {"rsync", "apply"} /\ proc'[p].handle = h
        /\ src' = src \/ src' = SyncDir(src)
    <3>1. CASE RepairScan(p)
      <4>1. proc'[p] = [q EXCEPT !.pc = "rsync", !.scan = Seen] /\ q.pc = "scan" /\ UNCHANGED <<src, cat>>
        BY <3>1, Zenon DEF RepairScan, At, Seen
      <4>. QED BY <4>1 DEF Processes
    <3>2. CASE RepairSync(p)
      BY <3>2 DEF RepairSync, At, Processes
    <3>. QED BY <1>5, <3>1, <3>2
  <2>2. /\ src'.visible = src.visible /\ src'.facts = src.facts /\ src'.torn = src.torn
        /\ src'.linked \in {src.linked, src.visible}
    BY <2>1 DEF SyncDir, Files
  <2>3. Covered' /\ Forgotten'
    BY <1>1, <2>1, <2>2 DEF Covered, Forgotten, Obligation
  <2>4. cat.repair
    BY <2>1, AloneFacts DEF AloneIn
  <2>5. AloneIn(p)'
    BY <2>1, <2>2, <2>4 DEF AloneIn, RepairStages, Knows, Current, Stamp
  <2>. QED BY <2>3, <2>5 DEF RecoverInv
<1>6. CASE RepairApply(p)
  <2>1. q.pc = "apply" /\ src' = src /\ cat' = Applied(cat, q.scan) /\ proc'[p].pc = "unmark" /\ proc'[p].handle = h
    BY <1>6 DEF RepairApply, At, history, Processes
  <2>2. q.scan = Seen
    BY <2>1, AloneFacts DEF InStage
  <2>3. Seen \in Scans /\ Seen.row = (cat.row # None) /\ Seen.intent = (cat.intents # {})
    BY DEF Seen, Scans, Files
  <2>. DEFINE c == Applied(cat, Seen)
  <2>4. /\ ~ c.repair /\ c \in Catalogs
        /\ Seen.file = "rebuilt" => c.row = Seen.facts /\ c.intents = {}
        /\ Seen.file = "missing" => c.row = None
        /\ Seen.file = "missing" /\ (Seen.row \/ Seen.intent) => c.intents = {}
        /\ Seen.file = "missing" /\ ~ (Seen.row \/ Seen.intent) => c.intents = cat.intents
        /\ Seen.file = "unresolved" => c.intents = cat.intents \cup {"repair"}
    BY <2>3, AppliedFacts
  <2>5. cat' = c
    BY <2>1, <2>2
  <2>. HIDE DEF c
  <2>6. \/ src.visible /\ src.torn /\ "repair" \in cat'.intents
        \/ ~ Obliged(cat') /\ cat'.row = IF src.visible THEN src.facts ELSE None
    <3>1. CASE ~ src.visible
      <4>1. Seen.file = "missing"
        BY <3>1 DEF Seen
      <4>2. cat'.row = None /\ cat'.intents = {} /\ ~ cat'.repair
        BY <2>3, <2>4, <2>5, <4>1
      <4>. QED BY <3>1, <4>2 DEF Obliged
    <3>2. CASE src.visible /\ src.torn
      <4>1. Seen.file = "unresolved"
        BY <3>2 DEF Seen
      <4>. QED BY <2>4, <2>5, <3>2, <4>1
    <3>3. CASE src.visible /\ ~ src.torn
      <4>1. Seen.file = "rebuilt" /\ Seen.facts = src.facts
        BY <3>3 DEF Seen
      <4>. QED BY <2>4, <2>5, <3>3, <4>1 DEF Obliged
    <3>. QED BY <3>1, <3>2, <3>3
  <2>7. src.facts # None
    BY StoreAssumption DEF Files
  <2>8. Covered' /\ Forgotten'
    BY <1>1, <2>1, <2>6, <2>7 DEF Covered, Forgotten, Obligation, Obliged
  <2>9. h # None => Knows(h)' /\ Current(h)'
    BY <2>1 DEF Knows, Current, RepairStages
  <2>10. AloneIn(p)'
    BY <2>1, <2>6, <2>9 DEF AloneIn
  <2>. QED BY <2>8, <2>10 DEF RecoverInv
<1>7. CASE RepairUnmark(p) \/ RepairUnmarkFails(p)
  <2>1. q.pc = "unmark" /\ src' = src
    BY <1>7 DEF RepairUnmark, RepairUnmarkFails, At, history
  <2>2. \/ src.visible /\ src.torn /\ "repair" \in cat.intents
        \/ ~ Obliged(cat) /\ cat.row = IF src.visible THEN src.facts ELSE None
    BY <2>1, AloneFacts DEF AloneIn
  <2>3. cat'.row = cat.row /\ cat'.intents = cat.intents
    BY <1>7 DEF RepairUnmark, RepairUnmarkFails, Rearmed, Catalogs
  <2>4. src.facts # None
    BY StoreAssumption DEF Files
  <2>5. Covered' /\ Forgotten'
    BY <1>1, <2>1, <2>2, <2>3, <2>4 DEF Covered, Forgotten, Obligation, Obliged
  <2>6. PICK n \in BOOLEAN, a \in {"ok", "err"} : proc'[p] = Answer([q EXCEPT !.needs = n], a)
    <3>1. CASE RepairUnmark(p)
      <4>1. Obliged(cat) \in BOOLEAN
        BY DEF Obliged
      <4>. QED BY <3>1, <4>1 DEF RepairUnmark
    <3>2. CASE RepairUnmarkFails(p)
      BY <3>2, Zenon DEF RepairUnmarkFails
    <3>. QED BY <1>7, <3>1, <3>2
  <2>. DEFINE u == [q EXCEPT !.needs = n]
  <2>7. u \in Processes /\ u.handle = h /\ proc'[p] = Answer(u, a)
    BY <2>6 DEF Processes
  <2>. HIDE DEF u
  <2>8. Rests(proc'[p]) /\ proc'[p].handle \in {None, h}
    BY <2>7, AnswerRests, AnswerFacts
  <2>9. h # None => Knows(h)'
    BY <2>1 DEF Knows, Current, RepairStages
  <2>. QED BY <2>5, <2>8, <2>9, RestRecovers
<1>8. CASE RepairFails(p)
  <2>1. UNCHANGED <<src, cat>> /\ proc'[p] = Answer(q, "err")
    BY <1>8 DEF RepairFails
  <2>2. Rests(proc'[p]) /\ proc'[p].handle \in {None, h}
    BY <2>1, AnswerRests, AnswerFacts
  <2>3. Covered' /\ Forgotten' /\ (h # None => Knows(h)')
    BY <1>1, <2>1 DEF Covered, Forgotten, Obligation, Knows, Current
  <2>. QED BY <2>2, <2>3, RestRecovers
<1>. QED BY <1>3, <1>4, <1>5, <1>6, <1>7, <1>8

\* delete_session, and the end of a process.
LEMMA DeletingRecovers ==
  ASSUME NEW p \in Procs, StoreInv, RecoverInv(p),
         \/ DeleteNothing(p) \/ DeleteBegin(p) \/ Unlink(p) \/ SyncUnlinked(p)
         \/ DeleteRow(p) \/ DeleteFails(p) \/ Close(p) \/ Kill(p)
  PROVE RecoverInv(p)'
<1>. PICK q : q = proc[p]
  OBVIOUS
<1>. DEFINE h == q.handle
<1>. /\ Covered /\ Forgotten /\ q \in Processes
     /\ src \in Files /\ src.synced \subseteq src.facts /\ cat \in Catalogs
     /\ h \in {None} \cup Handles
     /\ h # None => Knows(h)
     /\ \A r : Step(p, r) => proc'[p] = r
  BY AloneFacts DEF AloneIn
<1>1. ASSUME proc'[p].handle = None, proc'[p].pc \in DeleteStages \/ Rests(proc'[p]), Covered', Forgotten'
      PROVE RecoverInv(p)'
  BY <1>1 DEF RecoverInv, AloneIn, Rests, RepairStages, DeleteStages
<1>2. ASSUME NEW x \in Dropped(src, h), src' = x
      PROVE /\ src'.visible = src.visible /\ src'.linked = src.linked
            /\ src' = src \/ Obliged(cat)
  BY <1>2, DroppedFacts DEF Knows, Current
<1>3. CASE DeleteNothing(p)
  <2>1. /\ UNCHANGED <<src, cat, wanted>> /\ q.pc = "idle" /\ h = None
        /\ proc'[p] = [q EXCEPT !.answer = "ok"]
    BY <1>3 DEF DeleteNothing, Idle
  <2>2. proc'[p].pc = "idle" /\ proc'[p].handle = None
    BY <2>1 DEF Processes
  <2>3. Covered' /\ Forgotten'
    BY <2>1 DEF Covered, Forgotten, Obligation
  <2>4. AloneIn(p)'
    BY <2>2 DEF AloneIn, RepairStages
  <2>. QED BY <2>3, <2>4 DEF RecoverInv
<1>4. CASE DeleteBegin(p)
  <2>1. /\ cat' = Orphaned(WithIntent(cat, p), p) /\ src' \in Dropped(src, h) /\ UNCHANGED wanted
        /\ proc'[p] = [Begin(p, "delete", "unlink") EXCEPT !.handle = None, !.needs = TRUE]
    BY <1>4 DEF DeleteBegin, history
  <2>2. proc'[p].pc = "unlink" /\ proc'[p].handle = None
    BY <2>1 DEF Processes, Begin
  <2>3. Obliged(cat')
    BY <2>1, WithIntentFacts, OrphanedFacts
  <2>. QED BY <1>1, <1>2, <2>1, <2>2, <2>3, ObligedCovers DEF DeleteStages
<1>5. CASE Unlink(p)
  <2>1. q.pc = "unlink" /\ ~ wanted' /\ proc'[p].pc = "unlinked" /\ proc'[p].handle = h
    BY <1>5 DEF Unlink, At, Processes
  <2>2. h = None
    BY <2>1, AloneFacts DEF InStage, DeleteStages
  <2>. QED BY <1>1, <2>1, <2>2 DEF Covered, Forgotten, DeleteStages
<1>6. CASE SyncUnlinked(p)
  <2>1. q.pc = "unlinked" /\ src' = SyncDir(src) /\ proc'[p].pc = "delrow" /\ proc'[p].handle = h
    BY <1>6 DEF SyncUnlinked, At, Processes
  <2>2. h = None /\ ~ src.visible
    BY <2>1, AloneFacts DEF InStage, DeleteStages
  <2>3. ~ src'.visible /\ ~ src'.linked
    BY <2>1, <2>2 DEF SyncDir, Files
  <2>. QED BY <1>1, <2>1, <2>2, <2>3 DEF Covered, Forgotten, DeleteStages
<1>7. CASE DeleteRow(p)
  <2>. DEFINE n == Obliged(cat')
              u == [q EXCEPT !.needs = n]
  <2>1. q.pc = "delrow" /\ src' = src /\ proc'[p] = Answer(u, "ok")
    BY <1>7 DEF DeleteRow, At
  <2>2. h = None /\ ~ src.visible /\ ~ src.linked
    BY <2>1, AloneFacts DEF InStage, DeleteStages
  <2>3. n \in BOOLEAN
    BY DEF Obliged
  <2>. HIDE DEF n
  <2>4. u \in Processes /\ u.handle = None
    BY <2>2, <2>3 DEF Processes
  <2>. HIDE DEF u
  <2>5. Rests(proc'[p]) /\ proc'[p].handle = None
    BY <2>1, <2>4, AnswerRests, AnswerFacts
  <2>. QED BY <1>1, <2>1, <2>2, <2>5 DEF Covered, Forgotten
<1>8. CASE DeleteFails(p)
  <2>1. UNCHANGED <<src, cat, wanted>> /\ q.pc \in DeleteStages /\ proc'[p] = Answer(q, "err")
    BY <1>8 DEF DeleteFails, history, DeleteStages
  <2>2. h = None
    BY <2>1, AloneFacts DEF InStage
  <2>3. Rests(proc'[p]) /\ proc'[p].handle = None
    BY <2>1, <2>2, AnswerRests, AnswerFacts
  <2>. QED BY <1>1, <2>1, <2>3 DEF Covered, Forgotten, Obligation
<1>9. CASE Close(p) \/ Kill(p)
  <2>1. /\ cat' = Orphaned(cat, p) /\ UNCHANGED wanted /\ proc'[p] = Down
        /\ src' = src \/ src' \in Dropped(src, h)
    BY <1>9 DEF Close, Kill
  <2>2. Rests(Down) /\ Down.handle = None
    BY DownRests DEF Down
  <2>3. src'.visible = src.visible /\ src'.linked = src.linked /\ (src' = src \/ Obliged(cat))
    BY <1>2, <2>1
  <2>4. cat'.row = cat.row /\ (Obliged(cat) <=> Obliged(cat')) /\ (Obligation => Obligation')
    BY <2>1, OrphanedFacts DEF Obligation
  <2>5. CASE src' = src
    BY <1>1, <2>1, <2>2, <2>4, <2>5, StillCovered
  <2>6. CASE Obliged(cat)
    BY <1>1, <2>1, <2>2, <2>3, <2>4, <2>6, ObligedCovers
  <2>. QED BY <2>3, <2>5, <2>6
<1>. QED BY <1>3, <1>4, <1>5, <1>6, <1>7, <1>8, <1>9

(* A power loss takes records and names away, but brings none back that was *)
(* still wanted.                                                            *)
LEMMA EnvironmentRecovers ==
  ASSUME NEW p \in Procs, StoreInv, RecoverInv(p), PowerLoss \/ LoseIndex
  PROVE RecoverInv(p)'
<1>. /\ Covered /\ Forgotten /\ src \in Files /\ src.synced \subseteq src.facts /\ cat \in Catalogs
     /\ proc \in [Procs -> Processes]
  BY AloneFacts DEF Types
<1>1. ASSUME proc'[p].pc = "down", proc'[p].handle = None, Covered', Forgotten'
      PROVE RecoverInv(p)'
  BY <1>1 DEF RecoverInv, AloneIn, RepairStages
<1>2. CASE PowerLoss
  <2>1. PICK entry \in {src.visible, src.linked}, survivors \in SUBSET (src.facts \ src.synced), torn \in BOOLEAN :
          src' = AfterPowerLoss(src, entry, survivors, torn)
    BY <1>2, Zenon DEF PowerLoss
  <2>2. /\ cat' = [cat EXCEPT !.intents = {IF i \in Procs THEN "orphan" ELSE i : i \in cat.intents}]
        /\ proc' = [x \in Procs |-> Down] /\ UNCHANGED wanted
    BY <1>2 DEF PowerLoss
  <2>3. proc'[p].pc = "down" /\ proc'[p].handle = None
    BY <2>2 DEF Down
  <2>4. /\ cat'.row = cat.row /\ cat'.repair = cat.repair /\ cat'.marker = cat.marker /\ cat'.index = cat.index
        /\ cat.intents # {} => cat'.intents # {}
    BY <2>2 DEF Catalogs
  <2>5. Obligation => Obligation'
    BY <2>4 DEF Obligation, Obliged
  <2>6. /\ src'.linked = src'.visible
        /\ src'.visible => entry /\ src'.facts \subseteq src.facts
    BY <2>1 DEF AfterPowerLoss, NoFile
  <2>7. Forgotten'
    BY <2>6 DEF Forgotten
  <2>8. Covered'
    <3>1. SUFFICES ASSUME src'.visible, wanted
                   PROVE Obligation' \/ (cat.row # None /\ src'.facts \subseteq cat.row)
      BY <2>2, <2>4 DEF Covered
    <3>2. src.visible
      BY <2>1, <2>6, <3>1 DEF Forgotten, Files
    <3>. QED BY <2>5, <2>6, <3>1, <3>2 DEF Covered
  <2>. QED BY <1>1, <2>3, <2>7, <2>8
<1>3. CASE LoseIndex
  <2>1. /\ proc[p].pc = "down" /\ UNCHANGED <<src, proc, wanted>>
        /\ cat' = [EmptyCatalog EXCEPT !.index = "missing", !.marker = cat.marker]
    BY <1>3 DEF LoseIndex, At, history
  <2>2. proc[p].handle = None
    BY <2>1, AloneFacts DEF InStage
  <2>3. Obligation'
    BY <2>1 DEF EmptyCatalog, Obligation
  <2>. QED BY <1>1, <2>1, <2>2, <2>3 DEF Covered, Forgotten
<1>. QED BY <1>2, <1>3

\* A directory without a session has nothing to recover.
LEMMA RecoverStarts ==
  ASSUME NEW p \in Procs, Init
  PROVE RecoverInv(p)
<1>1. ~ src.visible /\ ~ src.linked /\ proc[p].pc = "down" /\ proc[p].handle = None
  BY DEF Init, NoFile, Down
<1>. QED BY <1>1 DEF RecoverInv, AloneIn, Covered, Forgotten, RepairStages

\* Every step of the only process keeps the invariant.
LEMMA RecoverMoves ==
  ASSUME NEW p, Procs = {p}, StoreInv, RecoverInv(p), [Next]_vars
  PROVE RecoverInv(p)'
<1>1. CASE UNCHANGED vars
  <2>1. UNCHANGED <<src, cat, proc, wanted>>
    BY <1>1 DEF vars, history
  <2>2. AloneIn(p)' /\ Covered' /\ Forgotten'
    BY <2>1 DEF RecoverInv, AloneIn, Knows, Current, Covered, Forgotten, Obligation
  <2>. QED BY <2>2 DEF RecoverInv
<1>2. CASE Operation(p)
  BY <1>2, OpeningRecovers, CreatingRecovers, MutateBeginRecovers, WriteRecovers, ProjectRecovers,
     FlushRecovers, RepairingRecovers, DeletingRecovers DEF Operation
<1>3. CASE PowerLoss \/ LoseIndex
  BY <1>3, EnvironmentRecovers
<1>. QED BY <1>1, <1>2, <1>3 DEF Next

(* Whatever step of create, append, set_leaf, flush, repair, delete or a    *)
(* catalog replacement fails or is cut short, a session whose file is there *)
(* is listed with all its durable records, or a repair of its row is due;   *)
(* for a store that one process opens.  With a second process it does not   *)
(* hold: the repair of one clears the intents of the other.                 *)
THEOREM AloneNothingIsLost ==
  ASSUME NEW p, Procs = {p}
  PROVE MCSpec => []RowInv
<1>1. Init => StoreInv /\ RecoverInv(p)
  BY StoreStarts, RecoverStarts
<1>2. StoreInv /\ RecoverInv(p) /\ [Next]_vars => StoreInv' /\ RecoverInv(p)'
  BY StoreMoves, RecoverMoves
<1>3. StoreInv /\ RecoverInv(p) => RowInv
  <2>1. SUFFICES ASSUME StoreInv, RecoverInv(p) PROVE RowInv
    OBVIOUS
  <2>2. CatalogInv
    BY <2>1, SoundCatalog
  <2>3. src.synced \subseteq src.facts /\ Covered
    BY <2>1 DEF StoreInv, Types, RecoverInv
  <2>. QED BY <2>2, <2>3 DEF RowInv, Recoverable, Covered
<1>. QED BY <1>1, <1>2, <1>3, FileMoves, PTL DEF MCSpec

\* What a flush or a shutdown that answers Ok has done.
Settled == \/ src.visible /\ src.torn
           \/ ~ Obliged(cat) /\ cat.row = IF src.visible THEN src.facts ELSE None

\* The two steps that end a flush with Ok: a projection that leaves no
\* intent, and a repair.
LEMMA FlushEnds ==
  ASSUME NEW p, Procs = {p}, StoreInv, RecoverInv(p), [Next]_vars,
         proc[p].op \in {"flush", "shutdown"}, proc'[p].op = "none", proc'[p].answer = "ok"
  PROVE Settled'
<1>. PICK q : q = proc[p]
  OBVIOUS
<1>. DEFINE h == q.handle
<1>. /\ q \in Processes /\ src \in Files /\ cat \in Catalogs /\ InStage(p) /\ AloneIn(p)
     /\ h \in {None} \cup Handles
     /\ q.op \in {"flush", "shutdown"} /\ proc'[p].op = "none" /\ proc'[p].answer = "ok"
     /\ \A r : Step(p, r) => proc'[p] = r
  BY AloneFacts
<1>1. q.pc \notin Unlocked \cup CreateStages \cup DeleteStages
  BY DEF InStage
<1>2. Operation(p)
  <2>1. ~ UNCHANGED vars /\ ~ LoseIndex
    BY DEF vars, LoseIndex
  <2>2. ~ PowerLoss
    BY DEF PowerLoss, Down
  <2>. QED BY <2>1, <2>2 DEF Next
<1>3. /\ ~ OpenCatalog(p) /\ ~ InitCatalog(p) /\ ~ MarkOpened(p) /\ ~ RepairIfNeeded(p)
      /\ ~ CreateBegin(p) /\ ~ Evict(p) /\ ~ RepairBegin(p) /\ ~ DeleteNothing(p) /\ ~ DeleteBegin(p)
      /\ ~ MutateBegin(p, "append") /\ ~ MutateBegin(p, "leaf")
      /\ ~ FlushBegin(p, "flush") /\ ~ FlushBegin(p, "shutdown") /\ ~ Close(p)
  <2>1. q.pc \notin {"down", "init", "mark", "ready", "idle"}
    BY <1>1 DEF Unlocked
  <2>2. ~ OpenCatalog(p) /\ ~ InitCatalog(p) /\ ~ MarkOpened(p) /\ ~ RepairIfNeeded(p)
    BY <2>1 DEF OpenCatalog, InitCatalog, MarkOpened, RepairIfNeeded, At
  <2>3. /\ ~ CreateBegin(p) /\ ~ Evict(p) /\ ~ RepairBegin(p) /\ ~ DeleteNothing(p) /\ ~ DeleteBegin(p)
        /\ ~ MutateBegin(p, "append") /\ ~ MutateBegin(p, "leaf")
        /\ ~ FlushBegin(p, "flush") /\ ~ FlushBegin(p, "shutdown") /\ ~ Close(p)
    BY <2>1 DEF CreateBegin, Evict, RepairBegin, DeleteNothing, DeleteBegin, MutateBegin, FlushBegin,
       Close, Idle
  <2>. QED BY <2>2, <2>3
<1>4. /\ ~ Publish(p) /\ ~ PublishFails(p) /\ ~ SyncPublished(p) /\ ~ SyncPublishedFails(p) /\ ~ OpenCreated(p)
      /\ ~ Unlink(p) /\ ~ SyncUnlinked(p) /\ ~ DeleteRow(p) /\ ~ DeleteFails(p)
  BY <1>1 DEF Publish, PublishFails, SyncPublished, SyncPublishedFails, OpenCreated, Unlink, SyncUnlinked,
     DeleteRow, DeleteFails, At, CreateStages, DeleteStages
<1>5. ~ Wrote(p) /\ ~ WroteUnread(p) /\ ~ WriteFailed(p) /\ ~ WriteRefused(p)
  <2>1. q.pc # "write"
    BY DEF AloneIn
  <2>. QED BY <2>1 DEF Wrote, WroteUnread, WriteFailed, WriteRefused, At
<1>6. /\ ~ RepairMark(p) /\ ~ RepairScan(p) /\ ~ RepairSync(p) /\ ~ RepairApply(p)
  <2>1. proc'[p].op # q.op
    OBVIOUS
  <2>2. /\ [q EXCEPT !.pc = "scan", !.needs = TRUE].op = q.op /\ [q EXCEPT !.pc = "apply"].op = q.op
        /\ [q EXCEPT !.pc = "rsync", !.scan = Seen].op = q.op /\ [q EXCEPT !.pc = "unmark"].op = q.op
    BY DEF Processes
  <2>. QED BY <2>1, <2>2, Zenon DEF RepairMark, RepairScan, RepairSync, RepairApply, Seen
<1>7. ASSUME NEW r \in Processes PROVE proc'[p] # Answer(r, "err")
  BY AnswerFacts
<1>8. ~ Kill(p) /\ ~ RepairFails(p)
  BY <1>7 DEF Kill, Down, RepairFails
<1>9. ~ ProjectFails(p) /\ ~ RepairUnmarkFails(p)
  <2>1. ASSUME NEW n \in BOOLEAN PROVE proc'[p] # Answer([q EXCEPT !.needs = n], "err")
    <3>1. [q EXCEPT !.needs = n] \in Processes
      BY DEF Processes
    <3>. QED BY <1>7, <3>1
  <2>2. ~ ProjectFails(p)
    <3>1. SUFFICES ASSUME ProjectFails(p) PROVE FALSE
      OBVIOUS
    <3>2. cat' \in Rearmed(cat) /\ proc'[p] = Answer([q EXCEPT !.needs = q.needs \/ cat'.repair], "err")
      BY <3>1 DEF ProjectFails
    <3>3. (q.needs \/ cat'.repair) \in BOOLEAN
      OBVIOUS
    <3>. QED BY <2>1, <3>2, <3>3
  <2>3. ~ RepairUnmarkFails(p)
    BY <2>1 DEF RepairUnmarkFails
  <2>. QED BY <2>2, <2>3
<1>10. ~ FlushHandle(p)
  <2>1. SUFFICES ASSUME FlushHandle(p) PROVE FALSE
    OBVIOUS
  <2>2. h \in Handles
    BY <2>1, StoreAssumption DEF FlushHandle, At, InStage, HandleStages
  <2>3. CASE proc'[p] = [q EXCEPT !.pc = "project", !.handle = Handle(src')]
    BY <2>3 DEF Processes
  <2>4. CASE proc'[p] = Answer([q EXCEPT !.handle.pend = {}], "err")
    <3>1. [q EXCEPT !.handle.pend = {}] \in Processes
      BY <2>2 DEF Processes, Handles
    <3>. QED BY <1>7, <2>4, <3>1
  <2>5. CASE proc'[p] = Answer(q, "err")
    BY <1>7, <2>5
  <2>. QED BY <2>1, <2>3, <2>4, <2>5 DEF FlushHandle
<1>11. CASE Project(p)
  <2>. DEFINE k == [h EXCEPT !.dirty = ~ q.clear]
              n == Obliged(cat')
              u == [q EXCEPT !.handle = k, !.needs = n]
  <2>1. /\ q.pc \in {"project", "reproject"} /\ src' = src
        /\ cat' = Projected(cat, p, h.seen, q.clear)
    BY <1>11 DEF Project, history
  <2>2. h \in Handles /\ h # None /\ src.visible
    BY <2>1, StoreAssumption DEF InStage, HandleStages
  <2>3. k \in Handles /\ n \in BOOLEAN
    <3>1. (~ q.clear) \in BOOLEAN
      OBVIOUS
    <3>. QED BY <2>2, <3>1 DEF Handles, Obliged
  <2>4. [q EXCEPT !.handle.dirty = ~ q.clear, !.needs = Obliged(cat')] = u
    BY <2>2 DEF Processes, Handles
  <2>5. proc'[p] = IF q.pc = "reproject" THEN Answer(u, "err")
                   ELSE IF u.op \in {"flush", "shutdown"} /\ u.needs
                   THEN [u EXCEPT !.pc = "rmark"]
                   ELSE Answer(u, "ok")
    BY <1>11, <2>4 DEF Project
  <2>. HIDE DEF k, n
  <2>6. u \in Processes /\ u.op = q.op /\ u.needs = n /\ [u EXCEPT !.pc = "rmark"].op = q.op
    BY <2>3 DEF Processes
  <2>. HIDE DEF u
  <2>7. q.pc = "project" /\ ~ n
    BY <1>7, <2>1, <2>5, <2>6
  <2>8. q.clear /\ Current(h) /\ h.seen = h.stamp[1]
    BY <2>2, <2>7, <2>1 DEF InStage, AloneIn, Knows
  <2>9. cat'.row = src.facts
    BY <2>1, <2>8 DEF Projected, Catalogs, Current, Stamp
  <2>. QED BY <2>1, <2>2, <2>7, <2>9 DEF Settled, n
<1>12. CASE RepairUnmark(p)
  <2>1. q.pc = "unmark" /\ src' = src /\ cat' = [cat EXCEPT !.marker = FALSE]
    BY <1>12 DEF RepairUnmark, At, history
  <2>2. \/ src.visible /\ src.torn /\ "repair" \in cat.intents
        \/ ~ Obliged(cat) /\ cat.row = IF src.visible THEN src.facts ELSE None
    BY <2>1 DEF AloneIn
  <2>3. cat'.row = cat.row /\ (Obliged(cat') <=> Obliged(cat))
    BY <2>1 DEF Catalogs, Obliged
  <2>. QED BY <2>1, <2>2, <2>3 DEF Settled
<1>. QED BY <1>2, <1>3, <1>4, <1>5, <1>6, <1>8, <1>9, <1>10, <1>11, <1>12, Zenon DEF Operation

(* A flush or a shutdown that answers Ok after it did something has left    *)
(* nothing to recover: the row is the file, unless the file ends in a torn  *)
(* record (flush_handle, then repair when an obligation is left).           *)
THEOREM AloneFlushSettles ==
  ASSUME NEW q, Procs = {q}
  PROVE MCSpec => FlushSettles
<1>1. Init => StoreInv /\ RecoverInv(q)
  BY StoreStarts, RecoverStarts
<1>2. StoreInv /\ RecoverInv(q) /\ [Next]_vars => StoreInv' /\ RecoverInv(q)'
  BY StoreMoves, RecoverMoves
<1>3. StoreInv /\ RecoverInv(q) /\ [Next]_vars =>
        [\A p \in Procs :
           proc[p].op \in {"flush", "shutdown"} /\ proc'[p].op = "none" /\ proc'[p].answer = "ok"
             => \/ src'.visible /\ src'.torn
                \/ ~ Obliged(cat') /\ cat'.row = IF src'.visible THEN src'.facts ELSE None]_vars
  BY FlushEnds DEF Settled
<1>4. Spec => [](StoreInv /\ RecoverInv(q))
  BY <1>1, <1>2, PTL DEF Spec
<1>5. Spec => FlushSettles
  BY <1>3, <1>4, PTL DEF Spec, FlushSettles
<1>6. MCSpec => Spec
  BY FileMoves, PTL DEF MCSpec, Spec
<1>. QED BY <1>5, <1>6
=============================================================================
