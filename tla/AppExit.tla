------------------------------- MODULE AppExit -------------------------------
(***************************************************************************)
(* The durable exit (runtime/exit.rs): the menu, the native close, the     *)
(* quit observer and the teardown of the root may all ask for it.  The     *)
(* first caller runs one shutdown of the sessions and one save of the      *)
(* preferences, on a thread each, until its deadline; everyone is given    *)
(* its report.                                                             *)
(***************************************************************************)
EXTENDS Naturals, FiniteSets

CONSTANTS Callers, None

VARIABLES caller,   \* caller: "away", "waiting" for the report, "running" the exit, "answered"
          answer,   \* caller: the report it was given
          started,  \* the exit has a runner
          result,   \* the shared report
          work,     \* operation: what its thread does, and what it came to
          heard,    \* operation: what the runner has received from its thread
          late,     \* the runner's deadline has passed
          runs      \* history: how often the exit was run
vars == <<caller, answer, started, result, work, heard, late, runs>>

Operations == {"session", "preferences"}
Outcomes == {"ok", "failed"}  \* a panic of the thread is caught and reported as failed

Init ==
  /\ caller = [c \in Callers |-> "away"] /\ answer = [c \in Callers |-> None]
  /\ started = FALSE /\ result = None /\ runs = 0
  /\ work = [o \in Operations |-> "none"] /\ heard = [o \in Operations |-> None]
  /\ late = FALSE

\* Fault: whoever finds no report runs the exit.
JoinNobody(c) ==
  /\ caller[c] = "away" /\ result = None
  /\ started' = TRUE /\ runs' = runs + 1
  /\ caller' = [caller EXCEPT ![c] = "running"]
  /\ work' = [o \in Operations |-> "running"]
  /\ UNCHANGED <<answer, result, heard, late>>

\* run_blocking of the first caller, under the lock until it has started; a
\* thread that cannot be started is a failed operation.
Start(c) ==
  /\ caller[c] = "away" /\ result = None /\ ~ started
  /\ started' = TRUE /\ runs' = runs + 1
  /\ caller' = [caller EXCEPT ![c] = "running"]
  /\ \E spawned \in SUBSET Operations :
       /\ work' = [o \in Operations |-> IF o \in spawned THEN "running" ELSE "none"]
       /\ heard' = [o \in Operations |-> IF o \in spawned THEN None ELSE "failed"]
  /\ UNCHANGED <<answer, result, late>>

\* A later caller waits for the report, whatever its own timeout and snapshot.
Join(c) ==
  /\ caller[c] = "away" /\ result = None /\ started
  /\ caller' = [caller EXCEPT ![c] = "waiting"]
  /\ UNCHANGED <<answer, started, result, work, heard, late, runs>>

\* The report is there, at once or when the wait is over.
Answered(c) ==
  /\ caller[c] \in {"away", "waiting"} /\ result # None
  /\ caller' = [caller EXCEPT ![c] = "answered"]
  /\ answer' = [answer EXCEPT ![c] = result]
  /\ UNCHANGED <<started, result, work, heard, late, runs>>

\* A thread may hang as long as it likes; the save has no time limit.
WorkEnds(o) ==
  /\ work[o] = "running"
  /\ \E outcome \in Outcomes : work' = [work EXCEPT ![o] = outcome]
  /\ UNCHANGED <<caller, answer, started, result, heard, late, runs>>

Running == \E c \in Callers : caller[c] = "running"

DeadlinePasses ==
  /\ Running /\ ~ late
  /\ late' = TRUE
  /\ UNCHANGED <<caller, answer, started, result, work, heard, runs>>

\* recv_timeout, or try_recv once it is late.
Hear(o) ==
  /\ Running /\ heard[o] = None /\ work[o] \in Outcomes
  /\ heard' = [heard EXCEPT ![o] = work[o]]
  /\ UNCHANGED <<caller, answer, started, result, work, late, runs>>

Unheard == {o \in Operations : heard[o] = None}

\* Fault: a silent operation is taken for a finished one.
ReportHopeful == [o \in Operations |-> IF heard[o] = None THEN "ok" ELSE heard[o]]

\* What was not heard is reported as timed out.
Report == [o \in Operations |-> IF heard[o] = None THEN "failed" ELSE heard[o]]

\* Fault: those who wait are not woken, and nobody else comes.
FinishQuietly(c) ==
  /\ caller[c] = "running"
  /\ Unheard = {} \/ (late /\ \A o \in Unheard : work[o] = "running")
  /\ caller' = [caller EXCEPT ![c] = "answered"]
  /\ answer' = [answer EXCEPT ![c] = Report]
  /\ UNCHANGED <<started, result, work, heard, late, runs>>

\* Everything was heard, or it is late and the channel is empty.
Finish(c) ==
  /\ caller[c] = "running"
  /\ Unheard = {} \/ (late /\ \A o \in Unheard : work[o] = "running")
  /\ result' = Report
  /\ caller' = [caller EXCEPT ![c] = "answered"]
  /\ answer' = [answer EXCEPT ![c] = Report]
  /\ UNCHANGED <<started, work, heard, late, runs>>

Next ==
  \/ \E c \in Callers : Start(c) \/ Join(c) \/ Answered(c) \/ Finish(c)
  \/ \E o \in Operations : WorkEnds(o) \/ Hear(o)
  \/ DeadlinePasses

\* The runner and those it wakes go on, and time passes; threads may hang.
Fairness ==
  /\ \A c \in Callers :
       /\ WF_vars(Finish(c))
       /\ WF_vars(caller[c] = "waiting" /\ Answered(c))
  /\ \A o \in Operations : WF_vars(Hear(o))
  /\ WF_vars(DeadlinePasses)

Spec == Init /\ [][Next]_vars /\ Fairness
------------------------------------------------------------------------------
(* Properties.                                                             *)
\* One exit is run however many ask for it, all are given the same report,
\* and it calls an operation successful only if its thread succeeded
\* (ExitCoordinator::run_blocking, run_durable_exit).
OneExit ==
  /\ runs <= 1
  /\ \A c \in Callers : caller[c] = "answered" =>
       /\ answer[c] = result
       /\ \A o \in Operations : answer[c][o] = "ok" => work[o] = "ok"

\* Everyone who asks is answered, though a thread may hang for ever (the
\* condition variable and the deadline of run_blocking).
CallersAnswered ==
  \A c \in Callers : caller[c] \in {"running", "waiting"} ~> caller[c] = "answered"
=============================================================================
