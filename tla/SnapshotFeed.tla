----------------------------- MODULE SnapshotFeed -----------------------------
(***************************************************************************)
(* The feed of runtime snapshots (RuntimeSnapshotSource in                 *)
(* runtime/diagnostics.rs): the composition publishes every rebuilt        *)
(* snapshot, subscribers wait for the next one.  Publisher and subscribers *)
(* are tasks of one thread: a poll is atomic, the wake is not the poll.    *)
(***************************************************************************)
EXTENDS Naturals

CONSTANTS Subscribers, Guards,
          MaxPublished  \* bound: snapshots ever published

VARIABLES current,  \* the revision of the snapshot that is published
          source,   \* the source is alive
          sub,      \* subscriber: [st, seen, registered, woken]
          guard     \* guard: the revision it was taken at, 0 when it is free
vars == <<current, source, sub, guard>>

Gone == [st |-> "gone", seen |-> 0, registered |-> FALSE, woken |-> FALSE]

Init ==
  /\ current = 1 /\ source = TRUE
  /\ sub = [s \in Subscribers |-> Gone] /\ guard = [g \in Guards |-> 0]

\* A subscriber has seen what is published when it subscribes.
Subscribe(s) ==
  /\ source /\ sub[s].st = "gone"
  /\ sub' = [sub EXCEPT ![s] = [st |-> "idle", seen |-> current, registered |-> FALSE, woken |-> FALSE]]
  /\ UNCHANGED <<current, source, guard>>

Unsubscribe(s) ==
  /\ sub[s].st # "gone"
  /\ sub' = [sub EXCEPT ![s] = Gone]
  /\ UNCHANGED <<current, source, guard>>

\* RuntimeSnapshotNext::poll, of a first call or after a wake: the latest
\* snapshot, the end, or a registered waker.
Polled(me) ==
  IF ~ source THEN [me EXCEPT !.st = "ended", !.woken = FALSE]
  ELSE IF current > me.seen
  THEN [me EXCEPT !.st = "idle", !.seen = current, !.woken = FALSE]
  ELSE [me EXCEPT !.st = "pending", !.registered = TRUE, !.woken = FALSE]

Ask(s) ==
  /\ sub[s].st = "idle"
  /\ sub' = [sub EXCEPT ![s] = Polled(@)]
  /\ UNCHANGED <<current, source, guard>>

PollAgain(s) ==
  /\ sub[s].st = "pending" /\ sub[s].woken
  /\ sub' = [sub EXCEPT ![s] = Polled(@)]
  /\ UNCHANGED <<current, source, guard>>

\* Fault: the first waker that is found is the only one taken.
WokenOne ==
  LET registered == {s \in Subscribers : sub[s].registered}
  IN IF registered = {} THEN sub
     ELSE [sub EXCEPT ![CHOOSE s \in registered : TRUE].registered = FALSE,
                      ![CHOOSE s \in registered : TRUE].woken = TRUE]

\* A wake takes the registered waker.
Woken ==
  [s \in Subscribers |-> IF sub[s].registered
                         THEN [sub[s] EXCEPT !.registered = FALSE, !.woken = TRUE] ELSE sub[s]]

TakeGuard(g) ==
  /\ source /\ guard[g] = 0
  /\ guard' = [guard EXCEPT ![g] = current]
  /\ UNCHANGED <<current, source, sub>>

Published ==
  /\ source /\ current < MaxPublished
  /\ current' = current + 1
  /\ sub' = Woken

\* publish takes its guard itself.
Publish == Published /\ UNCHANGED <<source, guard>>

\* publish_if_current: a snapshot that was built on an older one is refused.
PublishIfCurrent(g) ==
  /\ guard[g] # 0 /\ guard' = [guard EXCEPT ![g] = 0]
  /\ IF guard[g] = current /\ current < MaxPublished THEN Published
     ELSE UNCHANGED <<current, sub>>
  /\ UNCHANGED source

\* The last reader is dropped; nobody is woken.
DropSource ==
  /\ source /\ source' = FALSE
  /\ UNCHANGED <<current, sub, guard>>

Next ==
  \/ \E s \in Subscribers : Subscribe(s) \/ Unsubscribe(s) \/ Ask(s) \/ PollAgain(s)
  \/ \E g \in Guards : TakeGuard(g) \/ PublishIfCurrent(g)
  \/ Publish \/ DropSource

\* The executor polls what was woken.
Fairness == \A s \in Subscribers : WF_vars(PollAgain(s))

Spec == Init /\ [][Next]_vars /\ Fairness
------------------------------------------------------------------------------
\* A subscriber that waits is shown a newer snapshot, though wakes are merged,
\* snapshots are skipped and it stops and starts asking in between
\* (publish_if_current, RuntimeSnapshotNext::poll).
SubscribersCatchUp ==
  \A s \in Subscribers :
    (sub[s].st = "pending" /\ source /\ sub[s].seen < current) ~> (sub[s].st # "pending" \/ ~ source)
=============================================================================
