----------------------------- MODULE SessionStores -----------------------------
(***************************************************************************)
(* The two session domains of the application (session/service/domains.rs, *)
(* capabilities.rs).  Chat and agent are opened, flushed and shut down side *)
(* by side under one deadline; each fails by itself, and the capabilities  *)
(* handed out reach one domain only.  The barrier of one domain is         *)
(* StoreBarrier, of which this module keeps the slots and the outcomes.    *)
(***************************************************************************)
EXTENDS Naturals, Sequences, FiniteSets

CONSTANTS None,
          MaxWrites  \* bound on the mutations of a domain

Domains == {"chat", "agent"}
Order == <<"chat", "agent">>   \* in which both are asked, and waited for

VARIABLES
  opener,    \* of a domain: "running", "ready", "failed"
  stores,    \* DomainStoreState: "opening", "ready", "unavailable"
  expired,   \* the deadline of the opening, or of the call, has passed
  slow,      \* the domains that had not answered by then
  core,      \* accepting, closed, active, poisoned, unsaved, written
  worker,    \* the thread of a flush ("flushing", "inside") or of a shutdown
             \* ("draining", "sealing"), its answer ("ok", "failed", "gone"), "none"
  call       \* op, at: the domain it asks or waits for, jobs, failures

vars == <<opener, stores, expired, slow, core, worker, call>>

Running == {"flushing", "inside", "draining", "sealing"}

Answers == {"ok", "failed", "gone"}

NoCall == [op |-> "none", step |-> "asking", at |-> 1, jobs |-> {}, failures |-> {}]

Init ==
  /\ opener = [d \in Domains |-> "running"]
  /\ stores = [d \in Domains |-> "opening"]
  /\ expired = FALSE /\ slow = {}
  /\ core = [d \in Domains |-> [accepting |-> TRUE, closed |-> FALSE, active |-> 0,
                                poisoned |-> FALSE, unsaved |-> FALSE, written |-> <<>>]]
  /\ worker = [d \in Domains |-> "none"]
  /\ call = NoCall
--------------------------------------------------------------------------------
(* open_with: an opener for each domain, one deadline for both.             *)

\* The thread repairs and opens the store or fails: with an error, a panic, or
\* before it was spawned.  An answer nobody waits for any more is dropped, the store with it.
OpenerEnds(d) ==
  /\ opener[d] = "running" /\ stores[d] = "opening"
  /\ \E answer \in {"ready", "failed"} : opener' = [opener EXCEPT ![d] = answer]
  /\ UNCHANGED <<stores, expired, slow, core, worker, call>>

IsNext(d) == \A i \in 1 .. 2 : Order[i] = d => \A j \in 1 .. i - 1 : stores[Order[j]] # "opening"

\* receive_domain_open: an answer that is there counts, deadline or not.
ReceiveOpen(d) ==
  /\ stores[d] = "opening" /\ IsNext(d)
  /\ \/ opener[d] = "ready" /\ stores' = [stores EXCEPT ![d] = "ready"]
     \/ opener[d] = "failed" /\ stores' = [stores EXCEPT ![d] = "unavailable"]
     \/ opener[d] = "running" /\ expired /\ stores' = [stores EXCEPT ![d] = "unavailable"]
  /\ UNCHANGED <<opener, expired, slow, core, worker, call>>

Opened == \A d \in Domains : stores[d] # "opening"
Ready == {d \in Domains : stores[d] = "ready"}
--------------------------------------------------------------------------------
(* The capabilities.                                                        *)

\* conversation: the lifecycle of the target's domain, if it is there.
Lifecycle(target) == {d \in Ready : d = target}

\* ensure_domain: a capability refuses the sessions of the other domain.
EnsureDomain(d, id) == id = d

Change(d, c) == core' = [core EXCEPT ![d] = c]

\* lock_mutation of a conversation's lifecycle, on a session of id's domain.
Reserve(target, id) ==
  /\ Opened
  /\ \E d \in Lifecycle(target) :
       /\ EnsureDomain(d, id)
       /\ core[d].accepting /\ ~ core[d].closed
       /\ Len(core[d].written) + core[d].active < MaxWrites
       /\ core' = [core EXCEPT ![d].active = @ + 1, ![d].written = Append(@, id)]
  /\ UNCHANGED <<opener, stores, expired, slow, worker, call>>

\* The mutation returns, or panics inside the store.
Mutate(d) ==
  /\ core[d].active > (IF worker[d] = "inside" THEN 1 ELSE 0) /\ ~ core[d].poisoned
  /\ \E panics \in BOOLEAN :
       Change(d, [core[d] EXCEPT !.active = @ - 1, !.unsaved = TRUE, !.poisoned = panics])
  /\ UNCHANGED <<opener, stores, expired, slow, worker, call>>

\* A poisoned mutex refuses it, and its slot goes back.
Refused(d) ==
  /\ core[d].active > (IF worker[d] = "inside" THEN 1 ELSE 0) /\ core[d].poisoned
  /\ Change(d, [core[d] EXCEPT !.active = @ - 1])
  /\ UNCHANGED <<opener, stores, expired, slow, worker, call>>
--------------------------------------------------------------------------------
(* flush and shutdown: every domain is asked, then every answer is awaited. *)
Closing(c) == [c EXCEPT !.accepting = FALSE, !.closed = TRUE]

Begin(op) ==
  /\ Opened /\ call.op = "none"
  /\ call' = [NoCall EXCEPT !.op = op]
  /\ expired' = FALSE /\ slow' = {}
  /\ UNCHANGED <<opener, stores, core, worker>>

Asked == Order[call.at]
Turn(step) == call.op # "none" /\ call.step = step /\ call.at <= 2
AllAsked == call.step = "asking" /\ call.at = 2
Advance(jobs, failures) ==
  call' = [call EXCEPT !.step = IF AllAsked THEN "waiting" ELSE @,
                       !.at = IF AllAsked THEN 1 ELSE @ + 1,
                       !.jobs = @ \cup jobs, !.failures = @ \cup failures]

PassOver ==
  /\ Turn("asking") /\ Asked \notin Ready
  /\ Advance({}, {})
  /\ UNCHANGED <<opener, stores, expired, slow, core, worker>>

\* start_flush, start_shutdown.  A thread that cannot be spawned fails the
\* domain, and closes it when it was to shut it down.
StartJob ==
  /\ Turn("asking") /\ Asked \in Ready
  /\ LET refused == IF call.op = "flush" THEN core[Asked].closed
                    ELSE ~ core[Asked].accepting \/ core[Asked].closed
     IN \/ /\ refused
           /\ Advance({}, {Asked}) /\ UNCHANGED <<core, worker>>
        \/ /\ ~ refused
           /\ worker' = [worker EXCEPT ![Asked] = IF call.op = "flush" THEN "flushing" ELSE "draining"]
           /\ core' = IF call.op = "flush" THEN core ELSE [core EXCEPT ![Asked].accepting = FALSE]
           /\ Advance({Asked}, {})
        \/ /\ ~ refused
           /\ core' = IF call.op = "flush" THEN core ELSE [core EXCEPT ![Asked] = Closing(@)]
           /\ Advance({}, {Asked}) /\ UNCHANGED worker
  /\ UNCHANGED <<opener, stores, expired, slow>>

SetWorker(d, stage) == worker' = [worker EXCEPT ![d] = stage]

\* The thread of start_flush, a mutation of its own.
FlushWorker(d) ==
  /\ \/ /\ worker[d] = "flushing" /\ (~ core[d].accepting \/ core[d].closed)
        /\ SetWorker(d, "failed") /\ UNCHANGED core
     \/ /\ worker[d] = "flushing" /\ core[d].accepting /\ ~ core[d].closed
        /\ SetWorker(d, "inside") /\ Change(d, [core[d] EXCEPT !.active = @ + 1])
     \/ /\ worker[d] = "inside" /\ core[d].poisoned
        /\ SetWorker(d, "failed") /\ Change(d, [core[d] EXCEPT !.active = @ - 1])
     \/ /\ worker[d] = "inside" /\ ~ core[d].poisoned
        /\ \/ SetWorker(d, "ok") /\ Change(d, [core[d] EXCEPT !.active = @ - 1, !.unsaved = FALSE])
           \/ SetWorker(d, "failed") /\ Change(d, [core[d] EXCEPT !.active = @ - 1])
           \/ SetWorker(d, "gone") /\ Change(d, [core[d] EXCEPT !.active = @ - 1, !.poisoned = TRUE])
  /\ UNCHANGED <<opener, stores, expired, slow, call>>

\* finish_shutdown: it waits for the slots until the deadline, then flushes.
ShutdownWorker(d) ==
  /\ \/ /\ worker[d] = "draining"
        /\ \/ /\ core[d].active > 0 /\ expired
              /\ SetWorker(d, "failed") /\ Change(d, Closing(core[d]))
           \/ /\ core[d].active = 0 /\ (core[d].closed \/ core[d].poisoned)
              /\ SetWorker(d, "failed") /\ UNCHANGED core
           \/ /\ core[d].active = 0 /\ ~ core[d].closed /\ ~ core[d].poisoned
              /\ SetWorker(d, "sealing") /\ UNCHANGED core
     \/ /\ worker[d] = "sealing"
        /\ \/ SetWorker(d, "ok") /\ Change(d, [Closing(core[d]) EXCEPT !.unsaved = FALSE])
           \/ SetWorker(d, "failed") /\ Change(d, Closing(core[d]))
           \/ SetWorker(d, "gone") /\ Change(d, [core[d] EXCEPT !.poisoned = TRUE])
  /\ UNCHANGED <<opener, stores, expired, slow, call>>

\* The deadline passes: of the opening, or of the call that runs.
Expire ==
  /\ ~ expired /\ (~ Opened \/ call.op # "none")
  /\ expired' = TRUE
  /\ slow' = {d \in Domains : IF Opened THEN worker[d] \notin Answers ELSE opener[d] = "running"}
  /\ UNCHANGED <<opener, stores, core, worker, call>>

Waited == Asked
IsWaiting == Turn("waiting") /\ Waited \in call.jobs

SkipJob ==
  /\ Turn("waiting") /\ Waited \notin call.jobs
  /\ Advance({}, {})
  /\ UNCHANGED <<opener, stores, expired, slow, core, worker>>

Took == Advance({}, IF worker[Waited] = "ok" THEN {} ELSE {Waited})
GaveUp == Advance({}, {Waited}) /\ Change(Waited, Closing(core[Waited]))

\* Fault: past the deadline nobody looks whether the answer is there.
ReceiveInTime ==
  /\ IsWaiting
  /\ \/ /\ worker[Waited] \in {"ok", "failed"} /\ ~ expired
        /\ Took /\ UNCHANGED core
     \/ /\ worker[Waited] = "gone" \/ expired
        /\ GaveUp
  /\ UNCHANGED <<opener, stores, expired, slow, worker>>

\* Fault: a domain that timed out stays as it is.
ReceiveLeaving ==
  /\ IsWaiting
  /\ worker[Waited] \in Answers \/ expired
  /\ Took
  /\ UNCHANGED <<opener, stores, expired, slow, core, worker>>

\* receive_maintenance, receive_shutdown: an answer that is there counts even
\* past the deadline; no answer, or a thread that is gone, closes the domain.
ReceiveJob ==
  /\ IsWaiting
  /\ \/ /\ worker[Waited] \in {"ok", "failed"}
        /\ Took /\ UNCHANGED core
     \/ /\ worker[Waited] = "gone" \/ (expired /\ worker[Waited] \in Running)
        /\ GaveUp
  /\ UNCHANGED <<opener, stores, expired, slow, worker>>

\* The caller has its answer; a flush may be followed by another call.
Return ==
  /\ call.step = "waiting" /\ call.at = 3 /\ call.op = "flush"
  /\ call' = NoCall
  /\ worker' = [d \in Domains |-> IF worker[d] \in Answers THEN "none" ELSE worker[d]]
  /\ expired' = FALSE /\ slow' = {}
  /\ UNCHANGED <<opener, stores, core>>

\* A shutdown is the application's last call.
Stopped ==
  /\ call.op = "shutdown" /\ call.step = "waiting" /\ call.at = 3
  /\ UNCHANGED vars

Next ==
  \/ \E d \in Domains : OpenerEnds(d) \/ ReceiveOpen(d)
  \/ \E t, id \in Domains : Reserve(t, id)
  \/ \E d \in Domains : Mutate(d) \/ Refused(d) \/ FlushWorker(d) \/ ShutdownWorker(d)
  \/ \E op \in {"flush", "shutdown"} : Begin(op)
  \/ PassOver \/ StartJob \/ Expire \/ SkipJob \/ ReceiveJob \/ Return \/ Stopped

Spec == Init /\ [][Next]_vars
--------------------------------------------------------------------------------
(* Properties.                                                              *)
IsAnswered == call.step = "waiting" /\ call.at = 3

\* One domain never answers for the other: a domain is unavailable, or among
\* the failures of a call, for a reason of its own, not because the other one
\* used up the deadline they share; and holds its own sessions only
\* (receive_domain_open, receive_maintenance, receive_shutdown, ensure_domain).
EachForItself ==
  /\ (call.op = "none" /\ expired) =>
       \A d \in Domains : stores[d] = "unavailable" => opener[d] = "failed" \/ d \in slow
  /\ \A d \in call.failures \cap call.jobs : worker[d] \in {"failed", "gone"} \/ d \in slow
  /\ \A d \in Domains : \A i \in DOMAIN core[d].written : core[d].written[i] = d

\* The answer of a shutdown is the state of both domains: when it is Ok no
\* mutation is unsaved or on its way; whatever it is, no domain admits one,
\* and whoever does not hold a slot already never will (shutdown).
ShutdownTells ==
  (call.op = "shutdown" /\ IsAnswered) =>
    \A d \in Ready :
      /\ ~ core[d].accepting /\ (core[d].closed \/ core[d].poisoned)
      /\ d \notin call.failures => ~ core[d].unsaved /\ core[d].active = 0 /\ core[d].closed

\* The domains, each by itself.
DomainsHold == EachForItself /\ ShutdownTells
================================================================================
