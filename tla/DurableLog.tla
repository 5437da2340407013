----------------------------- MODULE DurableLog -----------------------------
(***************************************************************************)
(* What the durable recorder of a session promises its owner, whatever     *)
(* files, retries and crashes lie behind it: a log on stable storage that  *)
(* only ever grows at its end, never holds the same fact twice, and holds  *)
(* every fact that was acknowledged.                                       *)
(***************************************************************************)
EXTENDS Naturals, Sequences

VARIABLES
  log,    \* the records that survive any crash, in file order
  acked   \* the identities of the records reported as written

Ids(s) == {s[i].id : i \in DOMAIN s}

NoRepeats(s) == \A i, j \in DOMAIN s : s[i].id = s[j].id => i = j

Extends(s, t) == Len(s) <= Len(t) /\ SubSeq(t, 1, Len(s)) = s

Init == Len(log) = 1 /\ acked = {}

(***************************************************************************)
(* Records reach stable storage, and any of the stable ones may be         *)
(* acknowledged in the same step or later.                                 *)
(***************************************************************************)
Step ==
  /\ Extends(log, log')
  /\ NoRepeats(log')
  /\ acked \subseteq acked'
  /\ acked' \subseteq Ids(log')

vars == <<log, acked>>

Spec == Init /\ [][Step]_vars
=============================================================================
