----------------------------- MODULE ReplyProofs -----------------------------
(***************************************************************************)
(* Proofs about MCReply, for any values of the parameters: that a          *)
(* generation ends once and is sent again only while nothing of it came    *)
(* through, that the two session domains answer for themselves, and that   *)
(* the log keeps the newest of what it accepted.                           *)
(*                                                                         *)
(* A stream needs its phase and what it told to agree (StreamShape).  The  *)
(* domains need to know whose thread is whose: one that outlives its call  *)
(* has closed its domain (ThreadsAccounted), so that no later call takes   *)
(* its answer for one of its own; and what a thread of a shutdown has      *)
(* reached (ShutdownStages).  The log needs to know where each record is   *)
(* that it accepted (Ledger), what a rotation has moved so far (FilesInv), *)
(* and what a load has read of files that change meanwhile (LoadInv).      *)
(***************************************************************************)
EXTENDS MCReply, SequenceTheorems, TLAPS

WF == INSTANCE WellFoundedInduction

-----------------------------------------------------------------------------
(*****************************************************************************)
(* The outcome of a stream.                                                *)
(*****************************************************************************)
\* The phase, the lifecycle and the outcome of a generation agree: a phase that
\* runs has told nothing, one that has ended has told once, unless nothing was
\* started; and only the first attempt, in its body, has let a frame escape.
StreamShape ==
  /\ phase \in {"idle", "connect", "body", "ended"}
  /\ phase # "ended" => told = <<>> /\ ~ dropped
  /\ phase = "ended" /\ told = <<>> => dropped
  /\ started = IF phase = "idle" \/ (phase = "ended" /\ told = <<>>) THEN 0 ELSE 1
  /\ told = <<>> \/ told = <<told[1]>>
  /\ told = <<>> => outcome = None
  /\ outcome # None => told = <<outcome>>
  /\ attempt \in {1, 2} /\ frames \in Nat
  /\ 1 \in escaped => attempt = 1 /\ frames > 0 /\ phase \in {"body", "ended"}

LEMMA StreamInit == Init => StreamShape
BY DEF Init, StreamShape

\* A generation that is over, however it ended: it told what it delivered.
LEMMA StreamEnds ==
  ASSUME StreamShape, Running, phase' = "ended", UNCHANGED <<attempt, started, dropped>>,
         frames' \in Nat, frames' >= frames, 1 \in escaped' => attempt = 1 /\ frames' > 0,
         NEW x, told' = Append(told, x), outcome' \in {outcome, x}
  PROVE  StreamShape'
<1>1. told = <<>> /\ outcome = None /\ started = 1 /\ ~ dropped
  BY DEF StreamShape, Running
<1>2. told' = <<x>> /\ told' # <<>> /\ told'[1] = x
  BY <1>1
<1> QED BY <1>1, <1>2 DEF StreamShape

LEMMA StreamGivesUp ==
  ASSUME StreamShape, Running, GiveUp
  PROVE  StreamShape'
<1>1. ~ finished
  BY DEF StreamShape, Running, finished
<1>2. \E x : told' = Append(told, x) /\ outcome' = x
  BY <1>1 DEF GiveUp, Tell, Deliver
<1>3. 1 \in escaped => attempt = 1 /\ frames > 0
  BY DEF StreamShape
<1> QED BY <1>2, <1>3, StreamEnds DEF GiveUp, StreamShape

\* A request is sent again only from the first attempt, before any frame.
LEMMA StreamRetries ==
  ASSUME StreamShape, Running, attempt = 1, phase = "connect" \/ frames = 0, Retry
  PROVE  StreamShape'
<1>1. 1 \notin escaped
  BY DEF StreamShape
<1> QED BY <1>1 DEF StreamShape, Running, Retry

LEMMA StreamFrame ==
  ASSUME StreamShape, NEW f, NEW stops \in BOOLEAN, Frame(f, stops)
  PROVE  StreamShape'
<1>1. Running /\ phase = "body" /\ frames' = frames + 1 /\ escaped' = escaped \cup {attempt}
      /\ UNCHANGED <<attempt, started, dropped>>
  BY DEF Frame
<1>2. frames' \in Nat /\ frames' > 0 /\ frames' >= frames /\ (1 \in escaped' => attempt = 1)
  BY <1>1 DEF StreamShape
<1>3. CASE phase' = "ended" /\ told' # told
  <2>1. \E x : told' = Append(told, x) /\ outcome' \in {outcome, x}
    BY <1>3 DEF Frame, Tell, Deliver, Quiet
  <2> QED BY <2>1, <1>1, <1>2, <1>3, StreamEnds
<1>4. CASE ~ (phase' = "ended" /\ told' # told)
  <2>1. told = <<>>
    BY <1>1 DEF StreamShape, Running
  <2>2. \A x : Append(told, x) # told
    BY <2>1
  <2>3. phase' = phase /\ UNCHANGED <<told, outcome>>
    BY <1>4, <2>2 DEF Frame, Tell, Deliver, Quiet
  <2> QED BY <2>3, <1>1, <1>2 DEF StreamShape
<1> QED BY <1>3, <1>4

LEMMA StreamStep ==
  ASSUME StreamShape, [Next]_vars
  PROVE  StreamShape'
<1>1. CASE PrepareFails
  BY <1>1 DEF PrepareFails, StreamShape
<1>2. CASE Prepare
  BY <1>2 DEF Prepare, StreamShape
<1>3. CASE Body
  BY <1>3 DEF Body, Running, StreamShape
<1>4. ASSUME NEW retryable \in BOOLEAN, ConnectFails(retryable) PROVE StreamShape'
  BY <1>4, StreamRetries, StreamGivesUp DEF ConnectFails
<1>5. CASE BodyInterrupted
  BY <1>5, StreamRetries, StreamGivesUp DEF BodyInterrupted
<1>6. CASE BodyMalformed
  BY <1>6, StreamGivesUp DEF BodyMalformed
<1>7. CASE Eof
  <2>1. \E x : told' = Append(told, x) /\ outcome' = x
    BY <1>7 DEF Eof, Tell, Deliver
  <2> QED BY <1>7, <2>1, StreamEnds DEF Eof, StreamShape
<1>8. ASSUME NEW f, NEW stops \in BOOLEAN, Frame(f, stops) PROVE StreamShape'
  BY <1>8, StreamFrame
<1>9. CASE Stop
  <2>1. \E x : told' = Append(told, x) /\ outcome' = x
    BY <1>9 DEF Stop, Tell, Deliver
  <2> QED BY <1>9, <2>1, StreamEnds DEF Stop, StreamShape
<1>10. CASE Drop
  <2>1. CASE finished
    BY <1>10, <2>1 DEF Drop, finished, StreamShape
  <2>2. CASE ~ finished
    <3>1. told = <<>> /\ told' = <<[status |-> "cancelled", message |-> MessageOf(blocks)]>>
      BY <1>10, <2>2 DEF Drop, finished, Tell
    <3>2. told' # <<>> /\ told'[1] = [status |-> "cancelled", message |-> MessageOf(blocks)]
      BY <3>1
    <3> QED BY <1>10, <3>1, <3>2 DEF Drop, StreamShape
  <2> QED BY <2>1, <2>2
<1>11. CASE Done \/ UNCHANGED vars
  BY <1>11 DEF Done, vars, StreamShape
<1> QED BY <1>1, <1>2, <1>3, <1>4, <1>5, <1>6, <1>7, <1>8, <1>9, <1>10, <1>11 DEF Next

LEMMA StreamOutcome == StreamShape => OneOutcome
<1> SUFFICES ASSUME StreamShape PROVE OneOutcome
  OBVIOUS
<1>1. Len(told) = IF told = <<>> THEN 0 ELSE 1
  BY DEF StreamShape
<1> QED BY <1>1 DEF StreamShape, OneOutcome

-----------------------------------------------------------------------------
(*****************************************************************************)
(* The two session domains.                                                *)
(*****************************************************************************)
DomainCores == [accepting : BOOLEAN, closed : BOOLEAN, active : Nat, poisoned : BOOLEAN,
                unsaved : BOOLEAN, written : Seq(Both!Domains)]

DomainCalls == [op : {"none", "flush", "shutdown"}, step : {"asking", "waiting"}, at : 1 .. 3,
                jobs : SUBSET Both!Domains, failures : SUBSET Both!Domains]

\* What the domains, their threads and a call may be.
DomainTypes ==
  /\ opener \in [Both!Domains -> {"running", "ready", "failed"}]
  /\ stores \in [Both!Domains -> {"opening", "ready", "unavailable"}]
  /\ expired \in BOOLEAN /\ slow \in SUBSET Both!Domains
  /\ core \in [Both!Domains -> DomainCores]
  /\ thread \in [Both!Domains -> Both!Running \cup Both!Answers \cup {"none"}]
  /\ call \in DomainCalls /\ (call.step = "asking" => call.at <= 2)

\* Where a domain is in the order of a call, whether the call has asked it and
\* whether it has its answer.
Place(d) == IF d = "chat" THEN 1 ELSE 2
HasAsked(d) == call.step = "waiting" \/ Place(d) < call.at
HasAnswer(d) == call.step = "waiting" /\ Place(d) < call.at

\* Nothing is asked before both domains were opened, and who is late at a
\* deadline is known when it has passed.
DeadlineInv ==
  /\ ~ Both!Opened => call = Both!NoCall
  /\ ~ expired => slow = {}
  /\ call.op = "none" => call = Both!NoCall
  /\ (call.op = "none" /\ (expired \/ ~ Both!Opened)) =>
       \A d \in Both!Domains : stores[d] = "unavailable" => opener[d] = "failed" \/ d \in slow
  /\ (call.op = "none" /\ expired) => \A d \in Both!Domains : opener[d] = "running" => d \in slow
  /\ (call.op # "none" /\ expired) => \A d \in Both!Domains : thread[d] \notin Both!Answers => d \in slow

\* What is known of each domain while calls come and go.
CoreInv(d) ==
  /\ core[d].closed => ~ core[d].accepting
  /\ (~ core[d].accepting /\ ~ core[d].closed) => call.op = "shutdown" /\ d \in call.jobs
  /\ thread[d] = "inside" => core[d].active > 0
  /\ \A i \in 1 .. Len(core[d].written) : core[d].written[i] = d

\* A thread belongs to the call that runs, or has outlived its own, which
\* closed the domain; a call has a job or a failure of whomever it asked.
ThreadsAccounted(d) ==
  /\ thread[d] # "none" /\ d \notin call.jobs => core[d].closed
  /\ d \in call.jobs => stores[d] = "ready" /\ thread[d] # "none"
  /\ d \in call.jobs \cup call.failures => call.op # "none" /\ HasAsked(d)
  /\ call.op # "none" /\ HasAsked(d) /\ stores[d] = "ready" => d \in call.jobs \cup call.failures
  /\ d \in call.jobs /\ HasAnswer(d) => thread[d] \in Both!Answers \/ core[d].closed
  /\ d \in call.jobs /\ HasAnswer(d) /\ d \notin call.failures => thread[d] = "ok"
  /\ d \in call.jobs /\ d \in call.failures =>
       HasAnswer(d) /\ (thread[d] \in {"failed", "gone"} \/ d \in slow)

\* How far a shutdown has come with a domain.
ShutdownStages(d) ==
  /\ thread[d] \in {"draining", "sealing"} => call.op = "shutdown" /\ d \in call.jobs
  /\ call.op = "shutdown" /\ HasAsked(d) /\ stores[d] = "ready" =>
       ~ core[d].accepting /\ (d \notin call.jobs => core[d].closed)
  /\ call.op = "shutdown" /\ d \in call.jobs =>
       /\ thread[d] \in {"draining", "sealing"} \cup Both!Answers
       /\ thread[d] \in Both!Answers => core[d].closed \/ core[d].poisoned
       /\ thread[d] \in {"sealing", "ok"} => core[d].active = 0
       /\ thread[d] = "ok" => core[d].closed /\ ~ core[d].unsaved

\* The inductive invariant of the domains.
DomainsInv ==
  /\ DomainTypes /\ DeadlineInv
  /\ \A d \in Both!Domains : CoreInv(d) /\ ThreadsAccounted(d) /\ ShutdownStages(d)

\* The fields of a core, and what closing it does.
LEMMA CoreFields ==
  ASSUME NEW c \in DomainCores
  PROVE  /\ c.accepting \in BOOLEAN /\ c.closed \in BOOLEAN /\ c.active \in Nat
         /\ c.poisoned \in BOOLEAN /\ c.unsaved \in BOOLEAN /\ c.written \in Seq(Both!Domains)
BY DEF DomainCores

LEMMA CoreClosing ==
  ASSUME NEW c \in DomainCores
  PROVE  LET k == Both!Closing(c) IN
         /\ k \in DomainCores /\ ~ k.accepting /\ k.closed /\ k.active = c.active
         /\ k.poisoned = c.poisoned /\ k.unsaved = c.unsaved /\ k.written = c.written
BY DEF DomainCores, Both!Closing

\* The positions of a call, and whom it asks or waits for there.
LEMMA Places ==
  /\ Both!Domains = {"chat", "agent"} /\ Both!Order[1] = "chat" /\ Both!Order[2] = "agent"
  /\ Place("chat") = 1 /\ Place("agent") = 2
BY DEF Both!Domains, Both!Order, Place

LEMMA WhoIsAsked ==
  ASSUME DomainTypes, call.at <= 2
  PROVE  Both!Asked \in Both!Domains /\ \A d \in Both!Domains : Place(d) = call.at <=> d = Both!Asked
<1>1. call.at \in {1, 2}
  BY DEF DomainTypes, DomainCalls
<1> QED BY <1>1, Places DEF Both!Asked

LEMMA DomainsInit == Both!Init => DomainsInv
<1> SUFFICES ASSUME Both!Init PROVE DomainsInv
  OBVIOUS
<1> USE DEF Both!Init
<1>1. call = Both!NoCall /\ call.op = "none" /\ call.step = "asking" /\ call.at = 1 /\ call.jobs = {}
      /\ call.failures = {} /\ call \in DomainCalls
  BY DEF Both!NoCall, DomainCalls
<1>2. core \in [Both!Domains -> DomainCores] /\ \A d \in Both!Domains :
        core[d].accepting /\ ~ core[d].closed /\ core[d].written = <<>>
  BY DEF DomainCores
<1>3. DomainTypes
  <2>1. opener \in [Both!Domains -> {"running", "ready", "failed"}]
        /\ stores \in [Both!Domains -> {"opening", "ready", "unavailable"}]
        /\ thread \in [Both!Domains -> Both!Running \cup Both!Answers \cup {"none"}]
    OBVIOUS
  <2>2. expired \in BOOLEAN /\ slow \in SUBSET Both!Domains
    OBVIOUS
  <2> QED BY <1>1, <1>2, <2>1, <2>2 DEF DomainTypes
<1>4. DeadlineInv
  BY <1>1, Places DEF DeadlineInv
<1>5. ASSUME NEW d \in Both!Domains PROVE CoreInv(d) /\ ThreadsAccounted(d) /\ ShutdownStages(d)
  <2>1. thread[d] = "none" /\ core[d].accepting /\ ~ core[d].closed /\ core[d].written = <<>>
    BY <1>2
  <2>2. ~ HasAsked(d)
    BY <1>1 DEF HasAsked, Place
  <2> QED BY <1>1, <2>1, <2>2 DEF CoreInv, ThreadsAccounted, ShutdownStages
<1> QED BY <1>3, <1>4, <1>5 DEF DomainsInv

\* The opening: an opener ends, and an answer or the deadline is received.
LEMMA DomainsOpening ==
  ASSUME DomainsInv, NEW a \in Both!Domains, Both!OpenerEnds(a) \/ Both!ReceiveOpen(a)
  PROVE  DomainsInv'
<1> USE DEF DomainsInv
<1>1. UNCHANGED <<expired, slow, core, thread, call>> /\ ~ Both!Opened
  BY DEF Both!OpenerEnds, Both!ReceiveOpen, Both!Opened
<1>2. call = Both!NoCall /\ call.op = "none" /\ call.jobs = {} /\ call.failures = {} /\ call' = Both!NoCall
  BY <1>1 DEF DeadlineInv, Both!NoCall
<1>3. DomainTypes'
  BY <1>1 DEF DomainTypes, Both!OpenerEnds, Both!ReceiveOpen
<1>4. ASSUME NEW d \in Both!Domains
      PROVE  /\ (expired /\ opener'[d] = "running" => d \in slow)
             /\ (stores'[d] = "unavailable" => opener'[d] = "failed" \/ d \in slow)
  <2>1. expired /\ opener[d] = "running" => d \in slow
    BY <1>2 DEF DeadlineInv
  <2>2. stores[d] = "unavailable" => opener[d] = "failed" \/ d \in slow
    BY <1>1, <1>2 DEF DeadlineInv
  <2> QED BY <2>1, <2>2 DEF DomainTypes, Both!OpenerEnds, Both!ReceiveOpen
<1>5. DeadlineInv'
  BY <1>1, <1>2, <1>4 DEF DeadlineInv, Both!Opened
<1>6. ASSUME NEW d \in Both!Domains PROVE CoreInv(d)' /\ ThreadsAccounted(d)' /\ ShutdownStages(d)'
  <2> USE <1>1, <1>2, <1>6 DEF HasAsked, HasAnswer, Place
  <2>1. CoreInv(d)'
    BY DEF CoreInv
  <2>2. ThreadsAccounted(d)'
    BY DEF ThreadsAccounted
  <2>3. ShutdownStages(d)'
    BY DEF ShutdownStages
  <2> QED BY <2>1, <2>2, <2>3
<1> QED BY <1>3, <1>5, <1>6

Threads == Both!Running \cup Both!Answers \cup {"none"}

\* A step of one domain, with or without an advance of the call that asks it or
\* waits for it: what it keeps of that domain it keeps.
LEMMA OneDomain ==
  ASSUME DomainsInv, NEW a \in Both!Domains, NEW c \in DomainCores, NEW w \in Threads,
         core' = [core EXCEPT ![a] = c], thread' = [thread EXCEPT ![a] = w],
         UNCHANGED <<opener, stores, expired, slow>>,
         call' = call \/ (call.op # "none" /\ call'.op = call.op),
         call' \in DomainCalls /\ (call'.step = "asking" => call'.at <= 2),
         \A d \in Both!Domains \ {a} : /\ d \in call'.jobs <=> d \in call.jobs
                                       /\ d \in call'.failures <=> d \in call.failures
                                       /\ HasAsked(d)' <=> HasAsked(d)
                                       /\ HasAnswer(d)' <=> HasAnswer(d),
         thread[a] \in Both!Answers => w \in Both!Answers,
         CoreInv(a)', ThreadsAccounted(a)', ShutdownStages(a)'
  PROVE  DomainsInv'
<1> USE DEF DomainsInv
<1>1. DomainTypes'
  BY DEF DomainTypes, Threads
<1>2. \A d \in Both!Domains \ {a} : core'[d] = core[d] /\ thread'[d] = thread[d]
  BY DEF DomainTypes
<1>3. thread'[a] = w
  BY DEF DomainTypes
<1>4. DeadlineInv'
  <2>1. CASE call' = call
    <3>1. \A d \in Both!Domains : thread'[d] \notin Both!Answers => thread[d] \notin Both!Answers
      BY <1>2, <1>3
    <3> QED BY <2>1, <3>1 DEF DeadlineInv, Both!Opened
  <2>2. CASE call.op # "none" /\ call'.op = call.op
    <3>1. \A d \in Both!Domains : thread'[d] \notin Both!Answers => thread[d] \notin Both!Answers
      BY <1>2, <1>3
    <3>2. Both!Opened
      BY <2>2 DEF DeadlineInv, Both!NoCall
    <3> QED BY <2>2, <3>1, <3>2 DEF DeadlineInv, Both!Opened
  <2> QED BY <2>1, <2>2
<1>5. ASSUME NEW d \in Both!Domains \ {a} PROVE CoreInv(d)' /\ ThreadsAccounted(d)' /\ ShutdownStages(d)'
  <2>1. core'[d] = core[d] /\ thread'[d] = thread[d] /\ stores'[d] = stores[d] /\ slow' = slow
    BY <1>2
  <2>2. call'.op = call.op
    OBVIOUS
  <2>3. CoreInv(d) /\ ThreadsAccounted(d) /\ ShutdownStages(d)
    OBVIOUS
  <2>4. CoreInv(d)'
    BY <2>1, <2>2, <2>3 DEF CoreInv
  <2>5. ThreadsAccounted(d)'
    BY <2>1, <2>2, <2>3 DEF ThreadsAccounted
  <2>6. ShutdownStages(d)'
    BY <2>1, <2>2, <2>3 DEF ShutdownStages
  <2> QED BY <2>4, <2>5, <2>6
<1> QED BY <1>1, <1>4, <1>5

\* A step of one domain while no call advances.
LEMMA DomainAlone ==
  ASSUME DomainsInv, NEW a \in Both!Domains, NEW c \in DomainCores, NEW w \in Threads,
         core' = [core EXCEPT ![a] = c], thread' = [thread EXCEPT ![a] = w],
         UNCHANGED <<opener, stores, expired, slow, call>>,
         thread[a] \in Both!Answers => w \in Both!Answers,
         CoreInv(a)', ThreadsAccounted(a)', ShutdownStages(a)'
  PROVE  DomainsInv'
<1>1. call \in DomainCalls /\ (call.step = "asking" => call.at <= 2)
  BY DEF DomainsInv, DomainTypes
<1>2. \A d : (HasAsked(d)' <=> HasAsked(d)) /\ (HasAnswer(d)' <=> HasAnswer(d))
  BY DEF HasAsked, HasAnswer, Place
<1> QED BY <1>1, <1>2, OneDomain

\* Mutations of a domain: one is admitted, one ends, one is refused.
LEMMA DomainMutates ==
  ASSUME DomainsInv, NEW a \in Both!Domains, NEW c \in DomainCores,
         core' = [core EXCEPT ![a] = c], UNCHANGED <<opener, stores, expired, slow, thread, call>>,
         c.accepting = core[a].accepting, c.closed = core[a].closed,
         core[a].poisoned => c.poisoned, thread[a] = "inside" => c.active > 0,
         \A i \in 1 .. Len(c.written) : c.written[i] = a,
         core[a].accepting \/ core[a].active > 0
  PROVE  DomainsInv'
<1>1. DomainTypes /\ CoreInv(a) /\ ThreadsAccounted(a) /\ ShutdownStages(a)
  BY DEF DomainsInv
<1>2. core'[a] = c /\ thread' = [thread EXCEPT ![a] = thread[a]] /\ thread[a] \in Threads
  BY <1>1 DEF DomainTypes, Threads
<1>3. CoreInv(a)'
  BY <1>1, <1>2 DEF CoreInv
<1>4. ThreadsAccounted(a)'
  BY <1>1, <1>2 DEF ThreadsAccounted, HasAsked, HasAnswer, Place
<1>5. call.op = "shutdown" /\ a \in call.jobs => thread[a] \notin {"sealing", "ok"}
  BY <1>1 DEF ShutdownStages, ThreadsAccounted
<1>6. ShutdownStages(a)'
  BY <1>1, <1>2, <1>5 DEF ShutdownStages, HasAsked, Place
<1> QED BY <1>2, <1>3, <1>4, <1>6, DomainAlone

LEMMA DomainsReserve ==
  ASSUME DomainsInv, NEW t \in Both!Domains, NEW id \in Both!Domains, Both!Reserve(t, id)
  PROVE  DomainsInv'
<1>1. PICK a \in Both!Lifecycle(t) : /\ id = a /\ core[a].accepting
        /\ core' = [core EXCEPT ![a].active = @ + 1, ![a].written = Append(@, id)]
  BY DEF Both!Reserve, Both!EnsureDomain
<1>2. a \in Both!Domains /\ core[a] \in DomainCores /\ CoreInv(a)
  BY DEF Both!Lifecycle, Both!Ready, DomainsInv, DomainTypes
<1>3. PICK o \in DomainCores : o = core[a]
  BY <1>2
<1>4. o.active + 1 \in Nat /\ o.active + 1 > 0 /\ Append(o.written, a) \in Seq(Both!Domains)
  BY <1>2, CoreFields
<1>5. PICK c : c = [o EXCEPT !.active = @ + 1, !.written = Append(@, a)]
  OBVIOUS
<1>6. /\ c \in DomainCores /\ c.accepting = o.accepting /\ c.closed = o.closed
      /\ c.poisoned = o.poisoned /\ c.active > 0 /\ c.written = Append(o.written, a)
  BY <1>4, <1>5 DEF DomainCores
<1>7. core' = [core EXCEPT ![a] = c]
  <2>1. core' = [core EXCEPT ![a] = [core[a] EXCEPT !.active = @ + 1, !.written = Append(@, a)]]
    BY <1>1, <1>2 DEF DomainsInv, DomainTypes
  <2> QED BY <1>3, <1>5, <2>1
<1>8. \A i \in 1 .. Len(c.written) : c.written[i] = a
  <2>1. o.written \in Seq(Both!Domains) /\ \A i \in 1 .. Len(o.written) : o.written[i] = a
    BY <1>2, <1>3, CoreFields DEF CoreInv
  <2> QED BY <1>6, <2>1
<1> QED BY <1>1, <1>2, <1>3, <1>6, <1>7, <1>8, DomainMutates DEF Both!Reserve

\* A slot that is given back, the flush's own aside.
LEMMA DomainsMutate ==
  ASSUME DomainsInv, NEW a \in Both!Domains, Both!Mutate(a) \/ Both!Refused(a)
  PROVE  DomainsInv'
<1>1. core[a] \in DomainCores /\ CoreInv(a) /\ DomainTypes
  BY DEF DomainsInv, DomainTypes
<1>2. core[a].active \in Nat /\ core[a].poisoned \in BOOLEAN /\ core[a].unsaved \in BOOLEAN
  BY <1>1, CoreFields
<1>3. core[a].active > 0 /\ (thread[a] = "inside" => core[a].active - 1 > 0)
  <2>1. core[a].active > IF thread[a] = "inside" THEN 1 ELSE 0
    BY DEF Both!Mutate, Both!Refused
  <2> QED BY <1>2, <2>1
<1>4. UNCHANGED <<opener, stores, expired, slow, thread, call>>
  BY DEF Both!Mutate, Both!Refused
<1>5. PICK o \in DomainCores : o = core[a]
  BY <1>1
<1>6. o.active - 1 \in Nat
  BY <1>2, <1>3, <1>5
<1>7. PICK c : c \in {[o EXCEPT !.active = @ - 1]}
                     \cup {[o EXCEPT !.active = @ - 1, !.unsaved = TRUE, !.poisoned = p] : p \in BOOLEAN}
               /\ (o.poisoned => c = [o EXCEPT !.active = @ - 1])
               /\ core' = [core EXCEPT ![a] = c]
  BY <1>5 DEF Both!Mutate, Both!Refused, Both!Change
<1>8. CASE c = [o EXCEPT !.active = @ - 1]
  <2>1. /\ c \in DomainCores /\ c.accepting = o.accepting /\ c.closed = o.closed
        /\ c.active = o.active - 1 /\ c.poisoned = o.poisoned /\ c.written = o.written
    BY <1>6, <1>8 DEF DomainCores
  <2>2. \A i \in 1 .. Len(c.written) : c.written[i] = a
    BY <1>1, <1>5, <2>1 DEF CoreInv
  <2> QED BY <1>3, <1>4, <1>5, <1>7, <2>1, <2>2, DomainMutates
<1>9. ASSUME NEW p \in BOOLEAN, ~ o.poisoned, c = [o EXCEPT !.active = @ - 1, !.unsaved = TRUE, !.poisoned = p]
      PROVE  DomainsInv'
  <2>1. /\ c \in DomainCores /\ c.accepting = o.accepting /\ c.closed = o.closed
        /\ c.active = o.active - 1 /\ c.written = o.written
    BY <1>6, <1>9 DEF DomainCores
  <2>2. \A i \in 1 .. Len(c.written) : c.written[i] = a
    BY <1>1, <1>5, <2>1 DEF CoreInv
  <2>3. ~ core[a].poisoned
    BY <1>5, <1>9
  <2>4. core' = [core EXCEPT ![a] = c] /\ core[a] = o
    BY <1>5, <1>7
  <2> HIDE <1>7, <1>9
  <2> QED BY <1>3, <1>4, <2>1, <2>2, <2>3, <2>4, DomainMutates
<1> QED BY <1>7, <1>8, <1>9

\* The thread of a flush takes a slot, and gives it back with its answer.
LEMMA FlushMoves ==
  ASSUME DomainsInv, NEW a \in Both!Domains, NEW c \in DomainCores, NEW w \in {"inside", "ok", "failed", "gone"},
         thread[a] \in {"flushing", "inside"},
         core' = [core EXCEPT ![a] = c], thread' = [thread EXCEPT ![a] = w],
         UNCHANGED <<opener, stores, expired, slow, call>>,
         c.accepting = core[a].accepting, c.closed = core[a].closed, c.written = core[a].written,
         w = "inside" => c.active > 0
  PROVE  DomainsInv'
<1>1. DomainTypes /\ CoreInv(a) /\ ThreadsAccounted(a) /\ ShutdownStages(a)
  BY DEF DomainsInv
<1>2. core'[a] = c /\ thread'[a] = w /\ w \in Threads /\ thread[a] \notin Both!Answers
  BY <1>1 DEF DomainTypes, Threads, Both!Running, Both!Answers
<1>3. CoreInv(a)'
  BY <1>1, <1>2 DEF CoreInv
<1>4. ~ (call.op = "shutdown" /\ a \in call.jobs)
  BY <1>1 DEF ShutdownStages, Both!Answers
<1>5. ThreadsAccounted(a)'
  BY <1>1, <1>2 DEF ThreadsAccounted, HasAsked, HasAnswer, Place, Both!Answers
<1>6. ShutdownStages(a)'
  BY <1>1, <1>2, <1>4 DEF ShutdownStages, HasAsked, Place
<1> QED BY <1>2, <1>3, <1>5, <1>6, DomainAlone

LEMMA DomainsFlush ==
  ASSUME DomainsInv, NEW a \in Both!Domains, Both!FlushWorker(a)
  PROVE  DomainsInv'
<1>1. PICK o \in DomainCores : o = core[a]
  BY DEF DomainsInv, DomainTypes
<1>2. /\ core' = [core EXCEPT ![a] = core'[a]] /\ thread' = [thread EXCEPT ![a] = thread'[a]]
      /\ thread[a] \in {"flushing", "inside"} /\ UNCHANGED <<opener, stores, expired, slow, call>>
  BY DEF Both!FlushWorker, Both!SetWorker, Both!Change, DomainsInv, DomainTypes
<1>3. o.active \in Nat /\ (thread[a] = "inside" => o.active > 0)
  BY <1>1, CoreFields DEF DomainsInv, CoreInv
<1>4. PICK c, w : c = core'[a] /\ w = thread'[a]
  OBVIOUS
<1>5. \/ thread[a] = "flushing" /\ w = "failed" /\ c = o
      \/ thread[a] = "flushing" /\ w = "inside" /\ c = [o EXCEPT !.active = @ + 1]
      \/ thread[a] = "inside" /\ w = "failed" /\ c = [o EXCEPT !.active = @ - 1]
      \/ thread[a] = "inside" /\ w = "ok" /\ c = [o EXCEPT !.active = @ - 1, !.unsaved = FALSE]
      \/ thread[a] = "inside" /\ w = "gone" /\ c = [o EXCEPT !.active = @ - 1, !.poisoned = TRUE]
  BY <1>1, <1>4 DEF Both!FlushWorker, Both!SetWorker, Both!Change, DomainsInv, DomainTypes
<1>6. /\ c \in DomainCores /\ w \in {"inside", "ok", "failed", "gone"}
      /\ c.accepting = o.accepting /\ c.closed = o.closed /\ c.written = o.written
      /\ w = "inside" => c.active > 0
  <2>1. o.active + 1 \in Nat /\ o.active + 1 > 0 /\ (thread[a] = "inside" => o.active - 1 \in Nat)
    BY <1>3
  <2>2. CASE c = o /\ w = "failed"
    BY <2>2
  <2>3. CASE c = [o EXCEPT !.active = @ + 1] /\ w = "inside"
    BY <2>1, <2>3 DEF DomainCores
  <2>4. CASE thread[a] = "inside" /\ w = "failed" /\ c = [o EXCEPT !.active = @ - 1]
    BY <2>1, <2>4 DEF DomainCores
  <2>5. CASE thread[a] = "inside" /\ w = "ok" /\ c = [o EXCEPT !.active = @ - 1, !.unsaved = FALSE]
    BY <2>1, <2>5 DEF DomainCores
  <2>6. CASE thread[a] = "inside" /\ w = "gone" /\ c = [o EXCEPT !.active = @ - 1, !.poisoned = TRUE]
    BY <2>1, <2>6 DEF DomainCores
  <2> QED BY <1>5, <2>2, <2>3, <2>4, <2>5, <2>6
<1> HIDE <1>5
<1> QED BY <1>1, <1>2, <1>4, <1>6, FlushMoves

\* The thread of a shutdown waits for the slots, and seals the domain or fails.
LEMMA ShutdownMoves ==
  ASSUME DomainsInv, NEW a \in Both!Domains, NEW c \in DomainCores, NEW w \in {"sealing", "ok", "failed", "gone"},
         thread[a] \in {"draining", "sealing"},
         core' = [core EXCEPT ![a] = c], thread' = [thread EXCEPT ![a] = w],
         UNCHANGED <<opener, stores, expired, slow, call>>,
         ~ c.accepting, core[a].closed => c.closed, c.active = core[a].active, c.written = core[a].written,
         w \in {"ok", "failed", "gone"} => c.closed \/ c.poisoned,
         w \in {"sealing", "ok"} => c.active = 0, w = "ok" => c.closed /\ ~ c.unsaved
  PROVE  DomainsInv'
<1>1. DomainTypes /\ CoreInv(a) /\ ThreadsAccounted(a) /\ ShutdownStages(a)
  BY DEF DomainsInv
<1>2. core'[a] = c /\ thread'[a] = w /\ w \in Threads /\ thread[a] \notin Both!Answers
  BY <1>1 DEF DomainTypes, Threads, Both!Running, Both!Answers
<1>3. call.op = "shutdown" /\ a \in call.jobs
  BY <1>1 DEF ShutdownStages
<1>4. CoreInv(a)'
  BY <1>1, <1>2, <1>3 DEF CoreInv
<1>5. ThreadsAccounted(a)'
  BY <1>1, <1>2 DEF ThreadsAccounted, HasAsked, HasAnswer, Place, Both!Answers
<1>6. ShutdownStages(a)'
  BY <1>1, <1>2, <1>3 DEF ShutdownStages, HasAsked, Place, Both!Answers
<1> QED BY <1>2, <1>4, <1>5, <1>6, DomainAlone

LEMMA DomainsShutdown ==
  ASSUME DomainsInv, NEW a \in Both!Domains, Both!ShutdownWorker(a)
  PROVE  DomainsInv'
<1>1. PICK o \in DomainCores : o = core[a]
  BY DEF DomainsInv, DomainTypes
<1>2. /\ core' = [core EXCEPT ![a] = core'[a]] /\ thread' = [thread EXCEPT ![a] = thread'[a]]
      /\ thread[a] \in {"draining", "sealing"} /\ UNCHANGED <<opener, stores, expired, slow, call>>
  BY DEF Both!ShutdownWorker, Both!SetWorker, Both!Change, DomainsInv, DomainTypes
<1>3. ~ o.accepting /\ (thread[a] = "sealing" => o.active = 0)
  BY <1>1, <1>2 DEF DomainsInv, ThreadsAccounted, ShutdownStages
<1>4. PICK c, w, k : c = core'[a] /\ w = thread'[a] /\ k = Both!Closing(o)
  OBVIOUS
<1>5. \/ w = "failed" /\ c = k
      \/ w = "failed" /\ c = o /\ (o.closed \/ o.poisoned)
      \/ w = "sealing" /\ c = o /\ o.active = 0
      \/ thread[a] = "sealing" /\ w = "ok" /\ c = [k EXCEPT !.unsaved = FALSE]
      \/ w = "gone" /\ c = [o EXCEPT !.poisoned = TRUE]
  BY <1>1, <1>4 DEF Both!ShutdownWorker, Both!SetWorker, Both!Change, DomainsInv, DomainTypes
<1>6. /\ k \in DomainCores /\ ~ k.accepting /\ k.closed /\ k.active = o.active /\ k.written = o.written
  BY <1>4, CoreClosing
<1>7. /\ c \in DomainCores /\ w \in {"sealing", "ok", "failed", "gone"}
      /\ ~ c.accepting /\ (o.closed => c.closed) /\ c.active = o.active /\ c.written = o.written
      /\ w \in {"ok", "failed", "gone"} => c.closed \/ c.poisoned
      /\ w \in {"sealing", "ok"} => c.active = 0
      /\ w = "ok" => c.closed /\ ~ c.unsaved
  <2>1. CASE w = "failed" /\ c = k
    BY <1>6, <2>1
  <2>2. CASE w = "failed" /\ c = o /\ (o.closed \/ o.poisoned)
    BY <1>3, <2>2
  <2>3. CASE w = "sealing" /\ c = o /\ o.active = 0
    BY <1>3, <2>3
  <2>4. CASE thread[a] = "sealing" /\ w = "ok" /\ c = [k EXCEPT !.unsaved = FALSE]
    BY <1>3, <1>6, <2>4 DEF DomainCores
  <2>5. CASE w = "gone" /\ c = [o EXCEPT !.poisoned = TRUE]
    BY <1>3, <2>5 DEF DomainCores
  <2> QED BY <1>5, <2>1, <2>2, <2>3, <2>4, <2>5
<1> HIDE <1>5
<1> QED BY <1>1, <1>2, <1>4, <1>7, ShutdownMoves

\* The deadline passes.
LEMMA DomainsExpire ==
  ASSUME DomainsInv, Both!Expire
  PROVE  DomainsInv'
<1>1. DomainTypes /\ DeadlineInv
  BY DEF DomainsInv
<1>2. /\ ~ expired /\ expired' = TRUE /\ slow = {} /\ UNCHANGED <<opener, stores, core, thread, call>>
      /\ slow' = {d \in Both!Domains : IF Both!Opened THEN thread[d] \notin Both!Answers ELSE opener[d] = "running"}
  BY <1>1 DEF Both!Expire, DeadlineInv
<1>3. DomainTypes'
  BY <1>1, <1>2 DEF DomainTypes
<1>4. DeadlineInv'
  <2>1. CASE call.op = "none"
    <3>1. ~ Both!Opened
      BY <2>1 DEF Both!Expire
    <3>2. \A d \in Both!Domains : (opener[d] = "running" => d \in slow')
                                 /\ (stores[d] = "unavailable" => opener[d] = "failed")
      BY <1>1, <1>2, <2>1, <3>1 DEF DeadlineInv
    <3> QED BY <1>1, <1>2, <2>1, <3>1, <3>2 DEF DeadlineInv, Both!Opened
  <2>2. CASE call.op # "none"
    <3>1. Both!Opened
      BY <1>1, <2>2 DEF DeadlineInv, Both!NoCall
    <3> QED BY <1>1, <1>2, <2>2, <3>1 DEF DeadlineInv, Both!Opened
  <2> QED BY <2>1, <2>2
<1>5. ASSUME NEW d \in Both!Domains PROVE CoreInv(d)' /\ ThreadsAccounted(d)' /\ ShutdownStages(d)'
  <2>1. CoreInv(d) /\ ThreadsAccounted(d) /\ ShutdownStages(d)
    BY DEF DomainsInv
  <2>2. CoreInv(d)'
    BY <1>2, <2>1 DEF CoreInv
  <2>3. ThreadsAccounted(d)'
    BY <1>2, <2>1 DEF ThreadsAccounted, HasAsked, HasAnswer, Place
  <2>4. ShutdownStages(d)'
    BY <1>2, <2>1 DEF ShutdownStages, HasAsked, Place
  <2> QED BY <2>2, <2>3, <2>4
<1> QED BY <1>3, <1>4, <1>5 DEF DomainsInv

\* A flush or a shutdown begins.
LEMMA DomainsBegin ==
  ASSUME DomainsInv, NEW op \in {"flush", "shutdown"}, Both!Begin(op)
  PROVE  DomainsInv'
<1>1. DomainTypes /\ call = Both!NoCall
  BY DEF Both!Begin, DomainsInv, DeadlineInv
<1>2. /\ expired' = FALSE /\ slow' = {} /\ Both!Opened /\ UNCHANGED <<opener, stores, core, thread>>
      /\ call' = [Both!NoCall EXCEPT !.op = op]
  BY DEF Both!Begin
<1>3. /\ call.op = "none" /\ call.step = "asking" /\ call.at = 1 /\ call.jobs = {} /\ call.failures = {}
      /\ call'.op = op /\ call'.step = "asking" /\ call'.at = 1 /\ call'.jobs = {} /\ call'.failures = {}
      /\ call' \in DomainCalls
  BY <1>1, <1>2 DEF Both!NoCall, DomainCalls
<1>4. DomainTypes'
  BY <1>1, <1>2, <1>3 DEF DomainTypes
<1>5. DeadlineInv'
  BY <1>2, <1>3 DEF DeadlineInv, Both!Opened
<1>6. ASSUME NEW d \in Both!Domains PROVE CoreInv(d)' /\ ThreadsAccounted(d)' /\ ShutdownStages(d)'
  <2>1. CoreInv(d) /\ ThreadsAccounted(d) /\ ShutdownStages(d)
    BY DEF DomainsInv
  <2>2. ~ HasAsked(d)' /\ ~ HasAnswer(d)'
    BY <1>3 DEF HasAsked, HasAnswer, Place
  <2>3. CoreInv(d)'
    BY <1>2, <1>3, <2>1 DEF CoreInv
  <2>4. ThreadsAccounted(d)'
    BY <1>2, <1>3, <2>1, <2>2 DEF ThreadsAccounted
  <2>5. ShutdownStages(d)'
    BY <1>2, <1>3, <2>1, <2>2 DEF ShutdownStages
  <2> QED BY <2>3, <2>4, <2>5
<1> QED BY <1>4, <1>5, <1>6 DEF DomainsInv

\* A flush returns: the threads it gave up have closed their domain.
LEMMA DomainsReturn ==
  ASSUME DomainsInv, Both!Return
  PROVE  DomainsInv'
<1>1. DomainTypes /\ Both!Opened
  BY DEF Both!Return, DomainsInv, DeadlineInv, Both!NoCall
<1>2. /\ expired' = FALSE /\ slow' = {} /\ UNCHANGED <<opener, stores, core>> /\ call' = Both!NoCall
      /\ thread' = [d \in Both!Domains |-> IF thread[d] \in Both!Answers THEN "none" ELSE thread[d]]
      /\ call.op = "flush" /\ call.step = "waiting" /\ call.at = 3
  BY DEF Both!Return
<1>3. /\ call'.op = "none" /\ call'.step = "asking" /\ call'.at = 1 /\ call'.jobs = {} /\ call'.failures = {}
      /\ call' \in DomainCalls
  BY <1>2 DEF Both!NoCall, DomainCalls
<1>4. DomainTypes'
  <2>1. thread' \in [Both!Domains -> Both!Running \cup Both!Answers \cup {"none"}]
    BY <1>1, <1>2 DEF DomainTypes
  <2>2. expired' \in BOOLEAN /\ slow' \in SUBSET Both!Domains
    BY <1>2
  <2> QED BY <1>1, <1>2, <1>3, <2>1, <2>2 DEF DomainTypes
<1>5. DeadlineInv'
  BY <1>1, <1>2, <1>3 DEF DeadlineInv, Both!Opened
<1>6. ASSUME NEW d \in Both!Domains PROVE CoreInv(d)' /\ ThreadsAccounted(d)' /\ ShutdownStages(d)'
  <2>1. CoreInv(d) /\ ThreadsAccounted(d) /\ ShutdownStages(d)
    BY DEF DomainsInv
  <2>2. HasAnswer(d) /\ ~ HasAsked(d)' /\ ~ HasAnswer(d)'
    BY <1>2, <1>3 DEF HasAsked, HasAnswer, Place
  <2>3. thread'[d] # "none" => thread'[d] = thread[d] /\ core[d].closed
    BY <1>2, <2>1, <2>2 DEF ThreadsAccounted
  <2>4. thread'[d] \notin {"draining", "sealing"}
    BY <1>2, <2>1, <2>3 DEF ShutdownStages
  <2>5. CoreInv(d)'
    BY <1>2, <2>1, <2>3 DEF CoreInv
  <2>6. ThreadsAccounted(d)'
    BY <1>2, <1>3, <2>2, <2>3 DEF ThreadsAccounted
  <2>7. ShutdownStages(d)'
    BY <1>3, <2>4 DEF ShutdownStages
  <2> QED BY <2>5, <2>6, <2>7
<1> QED BY <1>4, <1>5, <1>6 DEF DomainsInv

\* A call goes on to its next domain: the one it leaves has been asked, or has
\* its answer, and nothing changes for the other one.
LEMMA CallAdvances ==
  ASSUME DomainsInv, call.op # "none", call.at <= 2, NEW a, a = Both!Asked,
         NEW js \in SUBSET {a}, NEW fs \in SUBSET {a}, Both!Advance(js, fs)
  PROVE  /\ a \in Both!Domains
         /\ call'.op = call.op /\ call' \in DomainCalls /\ (call'.step = "asking" => call'.at <= 2)
         /\ call'.jobs = call.jobs \cup js /\ call'.failures = call.failures \cup fs
         /\ \A d \in Both!Domains \ {a} : (HasAsked(d)' <=> HasAsked(d)) /\ (HasAnswer(d)' <=> HasAnswer(d))
         /\ HasAsked(a)' /\ (HasAnswer(a)' <=> call.step = "waiting")
         /\ ~ HasAnswer(a) /\ (HasAsked(a) <=> call.step = "waiting")
<1>1. DomainTypes /\ call \in DomainCalls /\ a \in Both!Domains
      /\ \A d \in Both!Domains : Place(d) = call.at <=> d = a
  BY WhoIsAsked DEF DomainsInv, DomainTypes
<1>2. PICK k \in DomainCalls : k = call
  BY <1>1
<1>3. PICK n : n = call'
  OBVIOUS
<1>4. k.step \in {"asking", "waiting"} /\ k.at \in {1, 2} /\ k.jobs \in SUBSET Both!Domains
      /\ k.failures \in SUBSET Both!Domains /\ (Both!AllAsked <=> k.step = "asking" /\ k.at = 2)
  BY <1>2 DEF DomainCalls, Both!AllAsked
<1>5. n = [k EXCEPT !.step = IF Both!AllAsked THEN "waiting" ELSE @,
                    !.at = IF Both!AllAsked THEN 1 ELSE @ + 1,
                    !.jobs = @ \cup js, !.failures = @ \cup fs]
  BY <1>2, <1>3 DEF Both!Advance
<1>6. /\ n.op = k.op /\ n.step = (IF Both!AllAsked THEN "waiting" ELSE k.step)
      /\ n.at = (IF Both!AllAsked THEN 1 ELSE k.at + 1)
      /\ n.jobs = k.jobs \cup js /\ n.failures = k.failures \cup fs
  BY <1>5 DEF DomainCalls
<1>7. n \in DomainCalls
  <2>1. (IF Both!AllAsked THEN "waiting" ELSE k.step) \in {"asking", "waiting"}
        /\ (IF Both!AllAsked THEN 1 ELSE k.at + 1) \in 1 .. 3
        /\ k.jobs \cup js \in SUBSET Both!Domains /\ k.failures \cup fs \in SUBSET Both!Domains
    BY <1>1, <1>4
  <2> QED BY <1>5, <2>1 DEF DomainCalls
<1>8. n.step = "asking" => n.at <= 2
  BY <1>4, <1>6
<1>9. \A d \in Both!Domains : Place(d) \in {1, 2} /\ (d # a => Place(d) # k.at)
  BY <1>1, <1>2 DEF Place
<1>10. \A d \in Both!Domains :
          /\ HasAsked(d) <=> (k.step = "waiting" \/ Place(d) < k.at)
          /\ HasAsked(d)' <=> (n.step = "waiting" \/ Place(d) < n.at)
          /\ HasAnswer(d) <=> (k.step = "waiting" /\ Place(d) < k.at)
          /\ HasAnswer(d)' <=> (n.step = "waiting" /\ Place(d) < n.at)
  BY <1>2, <1>3 DEF HasAsked, HasAnswer, Place
<1>11. Place(a) = k.at
  BY <1>1, <1>2
<1> HIDE <1>5
<1>12. \A d \in Both!Domains \ {a} : (HasAsked(d)' <=> HasAsked(d)) /\ (HasAnswer(d)' <=> HasAnswer(d))
  BY <1>4, <1>6, <1>9, <1>10
<1>13. /\ HasAsked(a)' /\ (HasAnswer(a)' <=> call.step = "waiting")
       /\ ~ HasAnswer(a) /\ (HasAsked(a) <=> call.step = "waiting")
  BY <1>1, <1>2, <1>4, <1>6, <1>10, <1>11
<1> QED BY <1>1, <1>2, <1>3, <1>6, <1>7, <1>8, <1>12, <1>13

\* The call asks a domain: it passes it over, begins its thread or counts it
\* among the failures, and closes it when it was to shut it down.
LEMMA CallAsks ==
  ASSUME DomainsInv, Both!Turn("asking"), NEW a, a = Both!Asked,
         NEW js \in SUBSET {a}, NEW fs \in SUBSET {a}, Both!Advance(js, fs),
         NEW c \in DomainCores, NEW w \in Threads,
         core' = [core EXCEPT ![a] = c], thread' = [thread EXCEPT ![a] = w],
         UNCHANGED <<opener, stores, expired, slow>>,
         c.active = core[a].active, c.written = core[a].written, core[a].closed => c.closed,
         c.closed => ~ c.accepting, w = "inside" => thread[a] = "inside",
         js # {} => fs = {} /\ stores[a] = "ready" /\ thread[a] = "none"
                    /\ w = (IF call.op = "flush" THEN "flushing" ELSE "draining"),
         js = {} => w = thread[a],
         stores[a] = "ready" => js \cup fs # {},
         call.op = "flush" => c = core[a],
         call.op = "shutdown" /\ stores[a] = "ready" => ~ c.accepting /\ (js = {} => c.closed),
         ~ c.accepting /\ ~ c.closed /\ core[a].accepting => js # {}
  PROVE  DomainsInv'
<1>1. DomainTypes /\ call.op # "none" /\ call.step = "asking" /\ call.at <= 2
  BY DEF DomainsInv, Both!Turn
<1>2. /\ a \in Both!Domains
      /\ call'.op = call.op /\ call' \in DomainCalls /\ (call'.step = "asking" => call'.at <= 2)
      /\ call'.jobs = call.jobs \cup js /\ call'.failures = call.failures \cup fs
      /\ \A d \in Both!Domains \ {a} : (HasAsked(d)' <=> HasAsked(d)) /\ (HasAnswer(d)' <=> HasAnswer(d))
      /\ HasAsked(a)' /\ ~ HasAnswer(a)' /\ ~ HasAsked(a)
  BY <1>1, CallAdvances
<1>3. CoreInv(a) /\ ThreadsAccounted(a) /\ ShutdownStages(a)
  BY <1>2 DEF DomainsInv
<1>4. core'[a] = c /\ thread'[a] = w
  BY <1>1, <1>2 DEF DomainTypes
<1>5. a \notin call.jobs /\ a \notin call.failures
  BY <1>2, <1>3 DEF ThreadsAccounted
<1>6. call.op \in {"flush", "shutdown"} /\ (a \in call'.jobs <=> js # {}) /\ (a \in call'.failures <=> fs # {})
  BY <1>1, <1>2, <1>5 DEF DomainTypes, DomainCalls
<1>7. CoreInv(a)'
  BY <1>2, <1>3, <1>4, <1>5, <1>6 DEF CoreInv
<1>8. ThreadsAccounted(a)'
  BY <1>1, <1>2, <1>3, <1>4, <1>5, <1>6 DEF ThreadsAccounted
<1>9. ShutdownStages(a)'
  BY <1>1, <1>2, <1>3, <1>4, <1>5, <1>6 DEF ShutdownStages, Both!Answers
<1>10. thread[a] \in Both!Answers => w \in Both!Answers
  BY DEF Both!Answers
<1>11. \A d \in Both!Domains \ {a} : (d \in call'.jobs <=> d \in call.jobs) /\ (d \in call'.failures <=> d \in call.failures)
  BY <1>2
<1> QED BY <1>1, <1>2, <1>4, <1>7, <1>8, <1>9, <1>10, <1>11, OneDomain

\* The call has an answer of the domain it waits for, or gives it up.
LEMMA CallWaits ==
  ASSUME DomainsInv, Both!Turn("waiting"), NEW a, a = Both!Asked,
         NEW fs \in SUBSET {a}, Both!Advance({}, fs), NEW c \in DomainCores,
         core' = [core EXCEPT ![a] = c], UNCHANGED <<opener, stores, expired, slow, thread>>,
         c = core[a] \/ c = Both!Closing(core[a]),
         a \in call.jobs => thread[a] \in Both!Answers \/ c.closed,
         a \in call.jobs /\ fs = {} => thread[a] = "ok",
         fs # {} => a \in call.jobs /\ (thread[a] \in {"failed", "gone"} \/ a \in slow)
  PROVE  DomainsInv'
<1>1. DomainTypes /\ call.op # "none" /\ call.step = "waiting" /\ call.at <= 2
  BY DEF DomainsInv, Both!Turn
<1>2. /\ a \in Both!Domains
      /\ call'.op = call.op /\ call' \in DomainCalls /\ (call'.step = "asking" => call'.at <= 2)
      /\ call'.jobs = call.jobs /\ call'.failures = call.failures \cup fs
      /\ \A d \in Both!Domains \ {a} : (HasAsked(d)' <=> HasAsked(d)) /\ (HasAnswer(d)' <=> HasAnswer(d))
      /\ HasAsked(a)' /\ HasAnswer(a)' /\ HasAsked(a) /\ ~ HasAnswer(a)
  <2>1. PICK js \in SUBSET {a} : js = {}
    OBVIOUS
  <2>2. Both!Advance(js, fs) /\ call.jobs \cup js = call.jobs
    BY <2>1
  <2> QED BY <1>1, <2>2, CallAdvances
<1>3. CoreInv(a) /\ ThreadsAccounted(a) /\ ShutdownStages(a)
  BY <1>2 DEF DomainsInv
<1>4. core'[a] = c /\ thread' = [thread EXCEPT ![a] = thread[a]] /\ thread[a] \in Threads
  BY <1>1, <1>2 DEF DomainTypes, Threads
<1>5. core[a] \in DomainCores
  BY <1>1, <1>2 DEF DomainTypes
<1>6. /\ c.active = core[a].active /\ c.written = core[a].written /\ (core[a].closed => c.closed)
      /\ c.unsaved = core[a].unsaved /\ c.poisoned = core[a].poisoned
      /\ c.closed => ~ c.accepting
      /\ ~ c.accepting /\ ~ c.closed => c = core[a]
      /\ ~ core[a].accepting => ~ c.accepting
  BY <1>3, <1>5, CoreClosing DEF CoreInv
<1>7. CoreInv(a)'
  BY <1>2, <1>3, <1>4, <1>6 DEF CoreInv
<1>8. a \in call.jobs => a \notin call.failures
  BY <1>2, <1>3 DEF ThreadsAccounted
<1>9. ThreadsAccounted(a)'
  BY <1>1, <1>2, <1>3, <1>4, <1>6, <1>8 DEF ThreadsAccounted
<1>10. ShutdownStages(a)'
  BY <1>1, <1>2, <1>3, <1>4, <1>6 DEF ShutdownStages
<1>11. \A d \in Both!Domains \ {a} : (d \in call'.jobs <=> d \in call.jobs) /\ (d \in call'.failures <=> d \in call.failures)
  BY <1>2
<1> QED BY <1>1, <1>2, <1>4, <1>7, <1>9, <1>10, <1>11, OneDomain

LEMMA DomainsPassOver ==
  ASSUME DomainsInv, Both!PassOver
  PROVE  DomainsInv'
<1>1. PICK a : a = Both!Asked
  OBVIOUS
<1>2. DomainTypes /\ call.at <= 2 /\ Both!Turn("asking") /\ Both!Advance({}, {})
      /\ UNCHANGED <<opener, stores, expired, slow, core, thread>>
  BY DEF Both!PassOver, Both!Turn, DomainsInv
<1>3. a \in Both!Domains /\ stores[a] # "ready"
  BY <1>1, <1>2, WhoIsAsked DEF Both!PassOver, Both!Ready
<1>4. /\ core[a] \in DomainCores /\ thread[a] \in Threads /\ CoreInv(a)
      /\ core' = [core EXCEPT ![a] = core[a]] /\ thread' = [thread EXCEPT ![a] = thread[a]]
  BY <1>2, <1>3 DEF DomainsInv, DomainTypes, Threads
<1>5. PICK js \in SUBSET {a}, fs \in SUBSET {a}, c \in DomainCores, w \in Threads :
        js = {} /\ fs = {} /\ c = core[a] /\ w = thread[a]
  BY <1>4
<1>6. Both!Advance(js, fs)
  BY <1>2, <1>5
<1>7. /\ c.active = core[a].active /\ c.written = core[a].written /\ (core[a].closed => c.closed)
      /\ (c.closed => ~ c.accepting) /\ (core[a].accepting => c.accepting)
      /\ core' = [core EXCEPT ![a] = c] /\ thread' = [thread EXCEPT ![a] = w]
      /\ (w = "inside" => thread[a] = "inside") /\ (call.op = "flush" => c = core[a]) /\ w = thread[a]
  BY <1>4, <1>5 DEF CoreInv
<1>8. js = {} /\ UNCHANGED <<opener, stores, expired, slow>> /\ Both!Turn("asking")
  BY <1>2, <1>5
<1>9. ~ (core[a].accepting /\ ~ c.accepting)
  BY <1>7
<1> HIDE <1>2, <1>5, <1>4
<1> QED BY <1>1, <1>3, <1>6, <1>7, <1>8, <1>9, CallAsks

\* A domain that is asked again has no thread: one that was left has closed it.
LEMMA DomainsStart ==
  ASSUME DomainsInv, Both!StartJob
  PROVE  DomainsInv'
<1>1. PICK a : a = Both!Asked
  OBVIOUS
<1>2. DomainTypes /\ call.at <= 2 /\ call.step = "asking" /\ call.op # "none" /\ Both!Turn("asking")
      /\ UNCHANGED <<opener, stores, expired, slow>>
  BY DEF Both!StartJob, Both!Turn, DomainsInv
<1>3. a \in Both!Domains /\ stores[a] = "ready" /\ call.op \in {"flush", "shutdown"}
  BY <1>1, <1>2, WhoIsAsked DEF Both!StartJob, Both!Ready, DomainTypes, DomainCalls
<1>4. /\ core[a] \in DomainCores /\ thread[a] \in Threads /\ CoreInv(a) /\ ThreadsAccounted(a)
      /\ core = [core EXCEPT ![a] = core[a]] /\ thread = [thread EXCEPT ![a] = thread[a]]
  BY <1>2, <1>3 DEF DomainsInv, DomainTypes, Threads
<1>5. a \notin call.jobs
  <2>1. ~ HasAsked(a)
    BY <1>1, <1>2, <1>3, WhoIsAsked DEF HasAsked, DomainTypes, DomainCalls, Place
  <2> QED BY <1>4, <2>1 DEF ThreadsAccounted
<1>6. ~ core[a].accepting => core[a].closed
  BY <1>4, <1>5 DEF CoreInv
<1>7. ~ core[a].closed => thread[a] = "none"
  BY <1>4, <1>5 DEF ThreadsAccounted
<1>8. CASE core' = core /\ thread' = thread /\ Both!Advance({}, {a})
           /\ (call.op = "flush" \/ core[a].closed)
  <2>1. PICK js \in SUBSET {a}, fs \in SUBSET {a}, c \in DomainCores, w \in Threads :
          js = {} /\ fs = {a} /\ c = core[a] /\ w = thread[a]
    BY <1>4
  <2>2. Both!Advance(js, fs)
    BY <1>8, <2>1
  <2>3. c.closed => ~ c.accepting
    BY <1>4, <2>1 DEF CoreInv
  <2>4. /\ core' = [core EXCEPT ![a] = c] /\ thread' = [thread EXCEPT ![a] = w] /\ js = {} /\ js \cup fs # {}
        /\ c.active = core[a].active /\ c.written = core[a].written /\ (core[a].closed => c.closed)
        /\ (core[a].accepting => c.accepting) /\ (call.op = "flush" => c = core[a]) /\ w = thread[a]
    BY <1>4, <1>8, <2>1
  <2>5. call.op = "shutdown" => c.closed /\ ~ c.accepting
    BY <1>8, <2>1, <2>3
  <2> HIDE <1>8, <2>1
  <2> QED BY <1>1, <1>2, <1>3, <2>2, <2>3, <2>4, <2>5, CallAsks
<1>9. CASE /\ ~ core[a].closed /\ Both!Advance({a}, {}) /\ thread[a] = "none"
           /\ thread' = [thread EXCEPT ![a] = IF call.op = "flush" THEN "flushing" ELSE "draining"]
           /\ core' = IF call.op = "flush" THEN core ELSE [core EXCEPT ![a].accepting = FALSE]
  <2>1. PICK o \in DomainCores : o = core[a]
    BY <1>4
  <2>2. PICK js \in SUBSET {a}, fs \in SUBSET {a} : js = {a} /\ fs = {}
    OBVIOUS
  <2>7. PICK c : c = IF call.op = "flush" THEN o ELSE [o EXCEPT !.accepting = FALSE]
    OBVIOUS
  <2>8. PICK w \in Threads : w = IF call.op = "flush" THEN "flushing" ELSE "draining"
    BY DEF Threads, Both!Running
  <2>3. /\ c \in DomainCores /\ c.active = o.active /\ c.written = o.written /\ c.closed = o.closed
        /\ (call.op = "flush" => c.accepting = o.accepting) /\ (call.op # "flush" => ~ c.accepting)
    <3>1. CASE call.op = "flush"
      BY <2>7, <3>1
    <3>2. CASE call.op # "flush"
      <4>1. c = [o EXCEPT !.accepting = FALSE]
        BY <2>7, <3>2
      <4> QED BY <3>2, <4>1 DEF DomainCores
    <3> QED BY <3>1, <3>2
  <2>4. /\ core' = [core EXCEPT ![a] = c] /\ thread' = [thread EXCEPT ![a] = w] /\ Both!Advance(js, fs)
        /\ js # {} /\ w # "inside" /\ (call.op = "flush" => c = core[a])
    BY <1>4, <1>9, <2>1, <2>2, <2>7, <2>8
  <2>5. ~ c.closed
    BY <1>9, <2>1, <2>3
  <2>6. w = (IF call.op = "flush" THEN "flushing" ELSE "draining") /\ fs = {} /\ thread[a] = "none"
    BY <1>9, <2>2, <2>8
  <2> HIDE <1>9, <2>2, <2>7, <2>8
  <2> QED BY <1>1, <1>2, <1>3, <2>1, <2>3, <2>4, <2>5, <2>6, CallAsks
<1>10. CASE /\ ~ core[a].closed /\ Both!Advance({}, {a}) /\ thread' = thread
            /\ core' = IF call.op = "flush" THEN core ELSE [core EXCEPT ![a] = Both!Closing(@)]
  <2>1. PICK o \in DomainCores : o = core[a]
    BY <1>4
  <2>2. PICK js \in SUBSET {a}, fs \in SUBSET {a}, w \in Threads : js = {} /\ fs = {a} /\ w = thread[a]
    BY <1>4
  <2>7. PICK c : c = IF call.op = "flush" THEN o ELSE Both!Closing(o)
    OBVIOUS
  <2>3. /\ c \in DomainCores /\ c.active = o.active /\ c.written = o.written
        /\ (call.op = "flush" => c = o) /\ (call.op # "flush" => c.closed /\ ~ c.accepting)
    BY <2>7, CoreClosing
  <2>4. core' = [core EXCEPT ![a] = c] /\ thread' = [thread EXCEPT ![a] = w] /\ Both!Advance(js, fs) /\ fs # {}
    BY <1>4, <1>10, <2>1, <2>2, <2>7
  <2>5. (o.closed => c.closed) /\ (c.closed => ~ c.accepting) /\ (~ c.accepting => c.closed)
    BY <1>4, <1>6, <1>10, <2>1, <2>3 DEF CoreInv
  <2>6. js = {} /\ w = thread[a]
    BY <2>2
  <2> HIDE <1>10, <2>2, <2>7
  <2> QED BY <1>1, <1>2, <1>3, <2>1, <2>3, <2>4, <2>5, <2>6, CallAsks
<1> QED BY <1>1, <1>2, <1>3, <1>6, <1>7, <1>8, <1>9, <1>10 DEF Both!StartJob

LEMMA DomainsSkip ==
  ASSUME DomainsInv, Both!SkipJob
  PROVE  DomainsInv'
<1>1. PICK a : a = Both!Asked
  OBVIOUS
<1>2. DomainTypes /\ call.at <= 2 /\ Both!Turn("waiting") /\ Both!Advance({}, {}) /\ a \notin call.jobs
      /\ UNCHANGED <<opener, stores, expired, slow, core, thread>>
  BY <1>1 DEF Both!SkipJob, Both!Turn, Both!Waited, DomainsInv
<1>3. core[a] \in DomainCores /\ core' = [core EXCEPT ![a] = core[a]]
  BY <1>1, <1>2, WhoIsAsked DEF DomainTypes
<1>4. PICK fs \in SUBSET {a}, c \in DomainCores : fs = {} /\ c = core[a]
  BY <1>3
<1> QED BY <1>1, <1>2, <1>3, <1>4, CallWaits

LEMMA DomainsReceive ==
  ASSUME DomainsInv, Both!ReceiveJob
  PROVE  DomainsInv'
<1>1. PICK a : a = Both!Asked
  OBVIOUS
<1>2. /\ DomainTypes /\ DeadlineInv /\ call.at <= 2 /\ call.op # "none" /\ Both!Turn("waiting") /\ a \in call.jobs
      /\ UNCHANGED <<opener, stores, expired, slow, thread>>
  BY <1>1 DEF Both!ReceiveJob, Both!IsWaiting, Both!Turn, Both!Waited, DomainsInv
<1>3. a \in Both!Domains /\ core[a] \in DomainCores /\ core = [core EXCEPT ![a] = core[a]]
  BY <1>1, <1>2, WhoIsAsked DEF DomainTypes
<1>4. CASE thread[a] \in {"ok", "failed"} /\ core' = core
           /\ Both!Advance({}, IF thread[a] = "ok" THEN {} ELSE {a})
  <2>1. PICK fs \in SUBSET {a}, c \in DomainCores : fs = (IF thread[a] = "ok" THEN {} ELSE {a}) /\ c = core[a]
    BY <1>3
  <2>2. Both!Advance({}, fs) /\ core' = [core EXCEPT ![a] = c]
    BY <1>3, <1>4, <2>1
  <2>3. thread[a] \in Both!Answers /\ (fs = {} => thread[a] = "ok") /\ (fs # {} => thread[a] = "failed")
    BY <1>4, <2>1 DEF Both!Answers
  <2> QED BY <1>1, <1>2, <2>1, <2>2, <2>3, CallWaits
<1>5. CASE /\ thread[a] = "gone" \/ (expired /\ thread[a] \in Both!Running)
           /\ Both!Advance({}, {a}) /\ core' = [core EXCEPT ![a] = Both!Closing(core[a])]
  <2>1. PICK fs \in SUBSET {a}, c \in DomainCores : fs = {a} /\ c = Both!Closing(core[a])
    BY <1>3, CoreClosing
  <2>2. c.closed /\ Both!Advance({}, fs) /\ core' = [core EXCEPT ![a] = c] /\ fs # {}
    BY <1>3, <1>5, <2>1, CoreClosing
  <2>3. thread[a] = "gone" \/ a \in slow
    BY <1>2, <1>3, <1>5 DEF DeadlineInv, Both!Running, Both!Answers
  <2> QED BY <1>1, <1>2, <2>1, <2>2, <2>3, CallWaits
<1> QED BY <1>1, <1>4, <1>5 DEF Both!ReceiveJob, Both!Took, Both!GaveUp, Both!Waited, Both!Change

LEMMA DomainsStep ==
  ASSUME DomainsInv, [Both!Next]_storesVars
  PROVE  DomainsInv'
<1>1. CASE Both!Stopped \/ UNCHANGED storesVars
  <2>1. UNCHANGED <<opener, stores, expired, slow, core, thread, call>>
    BY <1>1 DEF Both!Stopped, Both!vars, storesVars
  <2>2. DomainTypes'
    BY <2>1 DEF DomainsInv, DomainTypes
  <2>3. DeadlineInv'
    BY <2>1 DEF DomainsInv, DeadlineInv, Both!Opened
  <2>4. \A d \in Both!Domains : CoreInv(d)' /\ ThreadsAccounted(d)' /\ ShutdownStages(d)'
    BY <2>1 DEF DomainsInv, CoreInv, ThreadsAccounted, ShutdownStages, HasAsked, HasAnswer, Place
  <2> QED BY <2>2, <2>3, <2>4 DEF DomainsInv
<1>2. CASE Both!Next
  <2>1. ASSUME NEW d \in Both!Domains, Both!OpenerEnds(d) \/ Both!ReceiveOpen(d) PROVE DomainsInv'
    BY <2>1, DomainsOpening
  <2>2. ASSUME NEW t \in Both!Domains, NEW id \in Both!Domains, Both!Reserve(t, id) PROVE DomainsInv'
    BY <2>2, DomainsReserve
  <2>3. ASSUME NEW d \in Both!Domains,
               Both!Mutate(d) \/ Both!Refused(d) \/ Both!FlushWorker(d) \/ Both!ShutdownWorker(d)
        PROVE  DomainsInv'
    BY <2>3, DomainsMutate, DomainsFlush, DomainsShutdown
  <2>4. ASSUME NEW op \in {"flush", "shutdown"}, Both!Begin(op) PROVE DomainsInv'
    BY <2>4, DomainsBegin
  <2> QED BY <1>1, <1>2, <2>1, <2>2, <2>3, <2>4, DomainsPassOver, DomainsStart, DomainsExpire, DomainsSkip,
             DomainsReceive, DomainsReturn DEF Both!Next
<1> QED BY <1>1, <1>2

LEMMA DomainsOutcome == DomainsInv => Both!DomainsHold
<1> SUFFICES ASSUME DomainsInv PROVE Both!DomainsHold
  OBVIOUS
<1>1. DomainTypes /\ DeadlineInv
  BY DEF DomainsInv
<1>2. ASSUME NEW d \in Both!Domains
      PROVE  /\ d \in call.failures \cap call.jobs => thread[d] \in {"failed", "gone"} \/ d \in slow
             /\ \A i \in DOMAIN core[d].written : core[d].written[i] = d
  <2>1. core[d] \in DomainCores /\ CoreInv(d) /\ ThreadsAccounted(d)
    BY DEF DomainsInv, DomainTypes
  <2>2. core[d].written \in Seq(Both!Domains)
    BY <2>1, CoreFields
  <2> QED BY <2>1, <2>2 DEF CoreInv, ThreadsAccounted
<1>3. call.failures \in SUBSET Both!Domains
  BY <1>1 DEF DomainTypes, DomainCalls
<1>4. Both!EachForItself
  BY <1>1, <1>2, <1>3 DEF DeadlineInv, Both!EachForItself
<1>5. ASSUME call.op = "shutdown", Both!IsAnswered, NEW d \in Both!Domains, stores[d] = "ready"
      PROVE  /\ ~ core[d].accepting /\ (core[d].closed \/ core[d].poisoned)
             /\ d \notin call.failures => ~ core[d].unsaved /\ core[d].active = 0 /\ core[d].closed
  <2>1. HasAsked(d) /\ HasAnswer(d)
    BY <1>5 DEF HasAsked, HasAnswer, Place, Both!IsAnswered
  <2>2. ThreadsAccounted(d) /\ ShutdownStages(d)
    BY DEF DomainsInv
  <2> QED BY <1>5, <2>1, <2>2 DEF ThreadsAccounted, ShutdownStages
<1>6. Both!ShutdownTells
  BY <1>5 DEF Both!ShutdownTells, Both!Ready
<1> QED BY <1>4, <1>6 DEF Both!DomainsHold

-----------------------------------------------------------------------------
(*****************************************************************************)
(* The parts together.                                                     *)
(*****************************************************************************)
\* A stream and the domains keep their invariants while another part runs.
OutcomesInv == StreamShape /\ DomainsInv

LEMMA OutcomesInit == MCInit => OutcomesInv
BY StreamInit, DomainsInit DEF MCInit, OutcomesInv

LEMMA OutcomesStep ==
  ASSUME OutcomesInv, [MCNext]_<<half, vars, queueVars, pickerVars, storesVars, logVars>>
  PROVE  OutcomesInv'
<1>1. [Next]_vars /\ [Both!Next]_storesVars
  BY DEF MCNext
<1> QED BY <1>1, StreamStep, DomainsStep DEF OutcomesInv

\* The phase of a generation and what it told agree, and each thread of the two
\* session domains belongs to the call that runs or has closed its domain.
THEOREM OutcomesInvariant == MCSpec => []OutcomesInv
<1> QED BY OutcomesInit, OutcomesStep, PTL DEF MCSpec

\* A generation that was started ends once, for its observer as for its consumer,
\* and is sent again only while nothing of its answer came through; and neither
\* session domain is answered for by the other, at the opening, a flush or a
\* shutdown (GatewaySession::finish, cancel and Drop; HttpTransport::stream;
\* receive_domain_open, receive_maintenance, receive_shutdown, ensure_domain).
THEOREM OutcomesAreTold == MCSpec => []OutcomesTold
<1>1. OutcomesInv => OutcomesTold
  BY StreamOutcome, DomainsOutcome DEF OutcomesInv, OutcomesTold
<1> QED BY <1>1, OutcomesInvariant, PTL

-----------------------------------------------------------------------------
(*****************************************************************************)
(* The diagnostic log.                                                     *)
(*****************************************************************************)
Records == [n : Nat, urgent : BOOLEAN]
FileSets == [0 .. Backups -> Seq(Nat) \cup {None}]

\* The numbers of a sequence of numbers, and of one of records.
Has(ns) == {ns[i] : i \in DOMAIN ns}
Ns(rs) == {rs[i].n : i \in DOMAIN rs}

Rising(ns) == \A i, j \in DOMAIN ns : i < j => ns[i] < ns[j]
RisingBy(rs) == \A i, j \in DOMAIN rs : i < j => rs[i].n < rs[j].n
Under(A, B) == \A a \in A, b \in B : a < b

\* What the log and its writer may be.
LogTypes ==
  /\ accepted \in Nat /\ queue \in Seq(Records) /\ buffer \in Seq(Records)
  /\ hand \in Records \cup {None} /\ unflushed \in Nat /\ turn \in 0 .. Backups
  /\ files \in FileSets
  /\ worker \in {"wait", "append", "rotate", "flush", "last", "finished"}
  /\ shutting \in {"no", "closed", "waiting", "joined", "detached"}
  /\ sender \in BOOLEAN

\* The records that are kept in the files F (0 is the active one), in the
\* buffer, in the writer's hand and in the queue: the files are in order, all
\* comes behind them, and what is nowhere is lost, or older than anything kept
\* and given up for a file that is there.
Ledger(F, B, H, Q, last, gone) ==
  /\ \A i, j \in DOMAIN F : i < j => Under(F[j], F[i])
  /\ \A i \in DOMAIN F : Under(F[i], B) /\ Under(F[i], H) /\ Under(F[i], Q)
  /\ Under(B, H) /\ Under(B, Q) /\ Under(H, Q)
  /\ \A i \in DOMAIN F : F[i] \subseteq 1 .. last
  /\ B \subseteq 1 .. last /\ H \subseteq 1 .. last /\ Q \subseteq 1 .. last
  /\ \A m \in 1 .. last :
       \/ m \in gone \/ (\E i \in DOMAIN F : m \in F[i]) \/ m \in B \/ m \in H \/ m \in Q
       \/ /\ \E i \in DOMAIN F : F[i] # {}
          /\ \A i \in DOMAIN F : \A f \in F[i] : m < f

\* What is in the files fs, and in the hand h.
Lines(fs) == [i \in 0 .. Backups |-> IF fs[i] = None THEN <<>> ELSE fs[i]]
Filed(fs) == [i \in 0 .. Backups |-> Has(Lines(fs)[i])]
InHand(h) == IF h = None THEN {} ELSE {h.n}

LedgerInv ==
  /\ Ledger(Filed(files), Ns(buffer), InHand(hand), Ns(queue), accepted, lost)
  /\ \A i \in 0 .. Backups : Rising(Lines(files)[i])
  /\ RisingBy(buffer) /\ RisingBy(queue)

\* No file outgrows its size with what is buffered for it; a backup is not
\* empty; and a file that is made free by a rotation is free.
FilesInv ==
  /\ \A i \in 0 .. Backups : Len(Lines(files)[i]) <= MaxBytes
  /\ Len(Lines(files)[0]) + Len(buffer) <= MaxBytes
  /\ \A i \in 1 .. Backups : files[i] # <<>>
  /\ worker \in {"wait", "append", "flush", "last"} => files[0] # None
  /\ worker = "rotate" => /\ buffer = <<>>
                          /\ turn < Backups => files[turn] = None
                          /\ turn > 0 => files[0] # None /\ files[0] # <<>>

\* What the writer holds and owes at each stage, and what is left of it at the
\* end of the process.
WriterInv ==
  /\ hand # None <=> worker \in {"append", "rotate"}
  /\ worker \in {"wait", "append", "rotate"} =>
       /\ \A i \in DOMAIN buffer : ~ buffer[i].urgent
       /\ Len(buffer) <= unflushed /\ unflushed < BatchSize
  /\ worker = "finished" => buffer = <<>> /\ queue = <<>>
  /\ worker = "last" => ~ sender /\ queue = <<>>
  /\ ~ sender => asking = {}
  /\ shutting \in {"waiting", "joined", "detached"} => ~ sender
  /\ shutting = "joined" => worker = "finished"

\* A load no rotation disturbed has read the files behind the one it reads
\* next; of the active file what was there, and what came since is newer.
LoadInv ==
  /\ page = [visible |-> page.visible, at |-> page.at, rows |-> page.rows, mixed |-> page.mixed]
  /\ page.at # None =>
       /\ page.at \in 1 .. Backups + 2 /\ page.rows \in Seq(Nat)
       /\ ~ page.mixed =>
            /\ Rising(page.rows)
            /\ \A i \in 1 .. Backups : i + page.at > Backups + 1 => Filed(files)[i] \subseteq Has(page.rows)
            /\ \A r \in Has(page.rows) : \E i \in 0 .. Backups : i + page.at > Backups + 1 /\ r \in Filed(files)[i]
            /\ page.at = Backups + 2 =>
                 \A m \in Filed(files)[0], r \in Has(page.rows) : m < r => m \in Has(page.rows)

\* The inductive invariant of the log.
LogInv == LogTypes /\ LedgerInv /\ FilesInv /\ WriterInv /\ LoadInv

LEMMA HasConcat ==
  ASSUME NEW s \in Seq(Nat), NEW t \in Seq(Nat)
  PROVE  /\ s \o t \in Seq(Nat) /\ Len(s \o t) = Len(s) + Len(t)
         /\ Has(s \o t) = Has(s) \cup Has(t) /\ Has(s) \subseteq Nat
         /\ Rising(s) /\ Rising(t) /\ Under(Has(s), Has(t)) => Rising(s \o t)
<1> DEFINE u == s \o t  m == Len(s)  n == Len(t)
<1>1. /\ m \in Nat /\ n \in Nat /\ u \in Seq(Nat) /\ Len(u) = m + n
      /\ DOMAIN s = 1 .. m /\ DOMAIN t = 1 .. n /\ DOMAIN u = 1 .. m + n
      /\ \A i \in 1 .. m : s[i] \in Nat
      /\ \A i \in 1 .. m + n : u[i] = IF i <= m THEN s[i] ELSE t[i - m]
  OBVIOUS
<1> HIDE DEF u, m, n
<1>2. \A i \in 1 .. m : u[i] = s[i]
  BY <1>1
<1>3. \A i \in 1 .. n : m + i \in 1 .. m + n /\ u[m + i] = t[i]
  BY <1>1
<1>4. \A i \in 1 .. m + n : i \in 1 .. m \/ i - m \in 1 .. n
  BY <1>1
<1>5. Has(u) = Has(s) \cup Has(t)
  <2>1. ASSUME NEW i \in 1 .. m + n PROVE u[i] \in Has(s) \cup Has(t)
    <3>1. CASE i \in 1 .. m
      BY <1>1, <1>2, <3>1 DEF Has
    <3>2. CASE i - m \in 1 .. n
      <4>1. u[i] = t[i - m]
        BY <1>1, <3>2
      <4> QED BY <1>1, <3>2, <4>1 DEF Has
    <3> QED BY <1>4, <3>1, <3>2
  <2>2. ASSUME NEW i \in 1 .. m PROVE s[i] \in Has(u)
    <3>1. PICK k \in 1 .. m + n : u[k] = s[i]
      BY <1>1, <1>2
    <3> QED BY <1>1, <3>1 DEF Has
  <2>3. ASSUME NEW i \in 1 .. n PROVE t[i] \in Has(u)
    <3>1. PICK k \in 1 .. m + n : u[k] = t[i]
      BY <1>3
    <3> QED BY <1>1, <3>1 DEF Has
  <2> QED BY <1>1, <2>1, <2>2, <2>3 DEF Has
<1>6. ASSUME Rising(s), Rising(t), Under(Has(s), Has(t)) PROVE Rising(u)
  <2> SUFFICES ASSUME NEW i \in 1 .. m + n, NEW j \in 1 .. m + n, i < j PROVE u[i] < u[j]
    BY <1>1 DEF Rising
  <2>1. CASE j <= m
    <3>1. i \in 1 .. m /\ j \in 1 .. m
      BY <1>1, <2>1
    <3>2. s[i] < s[j]
      BY <1>1, <1>6, <3>1 DEF Rising
    <3> QED BY <1>2, <3>1, <3>2
  <2>2. CASE i > m
    <3>1. i - m \in 1 .. n /\ j - m \in 1 .. n /\ i - m < j - m /\ u[i] = t[i - m] /\ u[j] = t[j - m]
      BY <1>1, <2>2
    <3> QED BY <1>1, <1>6, <3>1 DEF Rising
  <2>3. CASE i <= m /\ j > m
    <3>1. i \in 1 .. m /\ j - m \in 1 .. n /\ u[i] = s[i] /\ u[j] = t[j - m]
      BY <1>1, <2>3
    <3> QED BY <1>1, <1>6, <3>1 DEF Under, Has
  <2> QED BY <1>1, <2>1, <2>2, <2>3
<1>7. Has(s) \subseteq Nat
  BY <1>1 DEF Has
<1> QED BY <1>1, <1>5, <1>6, <1>7 DEF u, m, n

\* The numbers of records are a sequence of numbers.
LEMMA NumberOf ==
  ASSUME NEW rs \in Seq(Records)
  PROVE  /\ Log!Number(rs) \in Seq(Nat) /\ Len(Log!Number(rs)) = Len(rs)
         /\ Has(Log!Number(rs)) = Ns(rs) /\ (Rising(Log!Number(rs)) <=> RisingBy(rs))
<1>1. /\ Len(rs) \in Nat /\ DOMAIN rs = 1 .. Len(rs)
      /\ \A i \in 1 .. Len(rs) : rs[i].n \in Nat
  <2>1. \A i \in 1 .. Len(rs) : rs[i] \in Records
    OBVIOUS
  <2> QED BY <2>1 DEF Records
<1>2. PICK ns \in [1 .. Len(rs) -> Nat] : ns = Log!Number(rs) /\ \A i \in 1 .. Len(rs) : ns[i] = rs[i].n
  <2> DEFINE f == [i \in 1 .. Len(rs) |-> rs[i].n]
  <2>1. f = Log!Number(rs)
    BY <1>1 DEF Log!Number
  <2>2. f \in [1 .. Len(rs) -> Nat] /\ \A i \in 1 .. Len(rs) : f[i] = rs[i].n
    BY <1>1
  <2> HIDE DEF f
  <2> QED BY <2>1, <2>2
<1>3. ns \in Seq(Nat) /\ Len(ns) = Len(rs) /\ DOMAIN ns = 1 .. Len(rs)
  BY <1>1
<1>4. Has(ns) = Ns(rs)
  BY <1>1, <1>2, <1>3 DEF Has, Ns
<1>5. Rising(ns) <=> RisingBy(rs)
  <2> DEFINE n == Len(rs)
  <2>1. /\ n \in Nat /\ DOMAIN ns = 1 .. n /\ DOMAIN rs = 1 .. n
        /\ \A i, j \in 1 .. n : (ns[i] < ns[j]) <=> (rs[i].n < rs[j].n)
    BY <1>1, <1>2, <1>3
  <2> HIDE DEF n
  <2> QED BY <2>1 DEF Rising, RisingBy
<1> QED BY <1>2, <1>3, <1>4, <1>5

\* What comes first among records that rise, and what comes behind it.
LEMMA Split ==
  ASSUME NEW rs \in Seq(Records), NEW k \in 0 .. Len(rs), RisingBy(rs)
  PROVE  LET a == SubSeq(rs, 1, k)  b == SubSeq(rs, k + 1, Len(rs))
         IN /\ a \in Seq(Records) /\ b \in Seq(Records) /\ Len(a) = k
            /\ Ns(rs) = Ns(a) \cup Ns(b) /\ Under(Ns(a), Ns(b))
            /\ RisingBy(a) /\ RisingBy(b)
<1> DEFINE a == SubSeq(rs, 1, k)  b == SubSeq(rs, k + 1, Len(rs))  n == Len(rs)
<1>1. n \in Nat /\ DOMAIN rs = 1 .. n /\ k \in 0 .. n /\ \A i \in 1 .. n : rs[i] \in Records /\ rs[i].n \in Nat
  <2>1. \A i \in 1 .. Len(rs) : rs[i] \in Records
    OBVIOUS
  <2> QED BY <2>1 DEF Records
<1>2. /\ a \in Seq(Records) /\ Len(a) = k /\ DOMAIN a = 1 .. k /\ \A i \in 1 .. k : a[i] = rs[i]
  <2>1. a \in Seq(Records) /\ Len(a) = k /\ \A i \in 1 .. k : a[i] = rs[i]
    BY <1>1, SubSeqProperties
  <2> QED BY <1>1, <2>1
<1>3. /\ b \in Seq(Records) /\ Len(b) = n - k /\ DOMAIN b = 1 .. n - k
      /\ \A i \in 1 .. n - k : k + i \in 1 .. n /\ b[i] = rs[k + i]
  <2>1. k + 1 \in Int /\ n \in Int /\ \A i \in k + 1 .. n : rs[i] \in Records
    BY <1>1
  <2>2. /\ b \in Seq(Records) /\ Len(b) = IF k + 1 <= n THEN n - (k + 1) + 1 ELSE 0
        /\ \A i \in 1 .. n - (k + 1) + 1 : b[i] = rs[(k + 1) + i - 1]
    <3> HIDE DEF n
    <3>1. \A i \in 1 .. n - (k + 1) + 1 : SubSeq(rs, k + 1, n)[i] = rs[(k + 1) + i - 1]
      BY <2>1, SubSeqProperties
    <3>2. SubSeq(rs, k + 1, n) \in Seq(Records) /\ Len(SubSeq(rs, k + 1, n)) = IF k + 1 <= n THEN n - (k + 1) + 1 ELSE 0
      BY <2>1, SubSeqProperties
    <3> QED BY <3>1, <3>2 DEF n
  <2>3. Len(b) = n - k /\ n - (k + 1) + 1 = n - k
    <3> HIDE DEF b, n
    <3> QED BY <1>1, <2>2
  <2>4. \A i \in 1 .. n - k : (k + 1) + i - 1 = k + i /\ k + i \in 1 .. n
    BY <1>1
  <2> HIDE DEF b, n
  <2>5. \A i \in 1 .. n - k : b[i] = rs[k + i]
    BY <2>2, <2>3, <2>4
  <2>6. DOMAIN b = 1 .. n - k
    BY <2>2, <2>3
  <2> QED BY <2>2, <2>3, <2>4, <2>5, <2>6
<1> HIDE DEF a, b, n
<1>4. \A i \in 1 .. n : i \in 1 .. k \/ (i - k \in 1 .. n - k /\ k + (i - k) = i)
  BY <1>1
<1>5. Ns(rs) = Ns(a) \cup Ns(b)
  <2>1. Ns(rs) \subseteq Ns(a) \cup Ns(b)
    <3> SUFFICES ASSUME NEW i \in 1 .. n PROVE rs[i].n \in Ns(a) \cup Ns(b)
      BY <1>1 DEF Ns
    <3>1. CASE i \in 1 .. k
      BY <1>2, <3>1 DEF Ns
    <3>2. CASE i - k \in 1 .. n - k /\ k + (i - k) = i
      <4>1. b[i - k] = rs[i]
        BY <1>3, <3>2
      <4> QED BY <1>3, <3>2, <4>1 DEF Ns
    <3> QED BY <1>4, <3>1, <3>2
  <2>2. ASSUME NEW i \in 1 .. k PROVE a[i].n \in Ns(rs)
    BY <1>1, <1>2 DEF Ns
  <2>3. ASSUME NEW i \in 1 .. n - k PROVE b[i].n \in Ns(rs)
    <3>1. PICK j \in 1 .. n : b[i] = rs[j]
      BY <1>3
    <3> QED BY <1>1, <3>1 DEF Ns
  <2>4. Ns(a) \subseteq Ns(rs)
    BY <1>2, <2>2 DEF Ns
  <2>5. Ns(b) \subseteq Ns(rs)
    BY <1>3, <2>3 DEF Ns
  <2> QED BY <2>1, <2>4, <2>5
<1>6. Under(Ns(a), Ns(b))
  <2> SUFFICES ASSUME NEW i \in 1 .. k, NEW j \in 1 .. n - k PROVE a[i].n < b[j].n
    BY <1>2, <1>3 DEF Under, Ns
  <2>1. i \in 1 .. n /\ k + j \in 1 .. n /\ i < k + j /\ a[i] = rs[i] /\ b[j] = rs[k + j]
    BY <1>1, <1>2, <1>3
  <2>2. rs[i].n < rs[k + j].n
    BY <1>1, <2>1 DEF RisingBy
  <2> QED BY <2>1, <2>2
<1>7. RisingBy(a) /\ RisingBy(b)
  <2>1. ASSUME NEW i \in 1 .. k, NEW j \in 1 .. k, i < j PROVE a[i].n < a[j].n
    <3>1. i \in 1 .. n /\ j \in 1 .. n /\ a[i] = rs[i] /\ a[j] = rs[j]
      BY <1>1, <1>2
    <3> QED BY <1>1, <2>1, <3>1 DEF RisingBy
  <2>2. ASSUME NEW i \in 1 .. n - k, NEW j \in 1 .. n - k, i < j PROVE b[i].n < b[j].n
    <3>1. /\ k + i \in 1 .. n /\ k + j \in 1 .. n /\ k + i < k + j
          /\ b[i] = rs[k + i] /\ b[j] = rs[k + j]
      BY <1>1, <1>3, <2>2
    <3>2. rs[k + i].n < rs[k + j].n
      BY <1>1, <3>1 DEF RisingBy
    <3> QED BY <3>1, <3>2
  <2> QED BY <1>2, <1>3, <2>1, <2>2 DEF RisingBy
<1> QED BY <1>2, <1>3, <1>5, <1>6, <1>7 DEF a, b, n

\* A record that is appended, and the first one when it is taken.
LEMMA Appended1 ==
  ASSUME NEW rs \in Seq(Records), NEW r \in Records
  PROVE  /\ Append(rs, r) \in Seq(Records) /\ Len(Append(rs, r)) = Len(rs) + 1
         /\ Ns(Append(rs, r)) = Ns(rs) \cup {r.n}
         /\ RisingBy(rs) /\ Under(Ns(rs), {r.n}) => RisingBy(Append(rs, r))
<1> DEFINE t == Append(rs, r)  n == Len(rs)
<1>1. /\ n \in Nat /\ DOMAIN rs = 1 .. n /\ t \in Seq(Records) /\ Len(t) = n + 1 /\ DOMAIN t = 1 .. n + 1
      /\ t[n + 1] = r /\ \A i \in 1 .. n : t[i] = rs[i]
  OBVIOUS
<1> HIDE DEF t, n
<1>2. \A i \in 1 .. n + 1 : i \in 1 .. n \/ i = n + 1
  BY <1>1
<1>3. Ns(t) = Ns(rs) \cup {r.n}
  BY <1>1, <1>2 DEF Ns
<1>4. ASSUME RisingBy(rs), Under(Ns(rs), {r.n}) PROVE RisingBy(t)
  <2> SUFFICES ASSUME NEW i \in 1 .. n + 1, NEW j \in 1 .. n + 1, i < j PROVE t[i].n < t[j].n
    BY <1>1 DEF RisingBy
  <2>1. i \in 1 .. n
    BY <1>1
  <2>2. CASE j \in 1 .. n
    BY <1>1, <1>4, <2>1, <2>2 DEF RisingBy
  <2>3. CASE j = n + 1
    BY <1>1, <1>4, <2>1, <2>3 DEF Under, Ns
  <2> QED BY <1>2, <2>2, <2>3
<1> QED BY <1>1, <1>3, <1>4 DEF t, n

LEMMA Taken ==
  ASSUME NEW rs \in Seq(Records), rs # <<>>, RisingBy(rs)
  PROVE  /\ Head(rs) \in Records /\ Tail(rs) \in Seq(Records)
         /\ Ns(rs) = {Head(rs).n} \cup Ns(Tail(rs)) /\ Under({Head(rs).n}, Ns(Tail(rs)))
         /\ RisingBy(Tail(rs))
<1> DEFINE t == Tail(rs)  n == Len(rs)
<1>1. /\ n \in Nat \ {0} /\ DOMAIN rs = 1 .. n /\ Head(rs) = rs[1] /\ Head(rs) \in Records
      /\ t \in Seq(Records) /\ Len(t) = n - 1 /\ DOMAIN t = 1 .. n - 1
      /\ \A i \in 1 .. n - 1 : t[i] = rs[i + 1]
  OBVIOUS
<1> HIDE DEF t, n
<1>2. \A i \in 1 .. n : i = 1 \/ (i - 1 \in 1 .. n - 1 /\ t[i - 1] = rs[i])
  BY <1>1
<1>3. \A i \in 1 .. n - 1 : i + 1 \in 1 .. n /\ 1 < i + 1
  BY <1>1
<1>4. Ns(rs) = {rs[1].n} \cup Ns(t)
  <2>1. Ns(rs) \subseteq {rs[1].n} \cup Ns(t)
    <3> SUFFICES ASSUME NEW i \in 1 .. n PROVE rs[i].n \in {rs[1].n} \cup Ns(t)
      BY <1>1 DEF Ns
    <3> QED BY <1>1, <1>2 DEF Ns
  <2>2. rs[1].n \in Ns(rs) /\ Ns(t) \subseteq Ns(rs)
    BY <1>1, <1>3 DEF Ns
  <2> QED BY <2>1, <2>2
<1>5. Under({rs[1].n}, Ns(t)) /\ RisingBy(t)
  <2>1. \A i \in 1 .. n - 1 : rs[1].n < t[i].n
    BY <1>1, <1>3 DEF RisingBy
  <2>2. ASSUME NEW i \in 1 .. n - 1, NEW j \in 1 .. n - 1, i < j PROVE t[i].n < t[j].n
    <3>1. /\ i + 1 \in 1 .. n /\ j + 1 \in 1 .. n /\ i + 1 < j + 1
          /\ t[i] = rs[i + 1] /\ t[j] = rs[j + 1]
      BY <1>1, <1>3, <2>2
    <3>2. rs[i + 1].n < rs[j + 1].n
      BY <1>1, <3>1 DEF RisingBy
    <3> QED BY <3>1, <3>2
  <2> QED BY <1>1, <2>1, <2>2 DEF Under, Ns, RisingBy
<1> QED BY <1>1, <1>4, <1>5 DEF t, n

\* The next record enters the queue.
LEMMA LedgerSends ==
  ASSUME NEW F, NEW B, NEW H, NEW Q, NEW last \in Nat, NEW gone, Ledger(F, B, H, Q, last, gone)
  PROVE  Ledger(F, B, H, Q \cup {last + 1}, last + 1, gone)
<1>1. \A m \in 1 .. last : m \in 1 .. last + 1 /\ m < last + 1
  OBVIOUS
<1>2. \A m \in 1 .. last + 1 : m \in 1 .. last \/ m = last + 1
  OBVIOUS
<1>3. last + 1 \in 1 .. last + 1
  OBVIOUS
<1>4. \A i \in DOMAIN F : F[i] \subseteq 1 .. last
  BY DEF Ledger
<1>5. B \subseteq 1 .. last /\ H \subseteq 1 .. last /\ Q \subseteq 1 .. last
  BY DEF Ledger
<1>6. \A i \in DOMAIN F : Under(F[i], Q \cup {last + 1})
  BY <1>1, <1>4 DEF Ledger, Under
<1>7. Under(B, Q \cup {last + 1}) /\ Under(H, Q \cup {last + 1})
  BY <1>1, <1>5 DEF Ledger, Under
<1>8. \A i \in DOMAIN F : F[i] \subseteq 1 .. last + 1
  BY <1>1, <1>4
<1>9. B \subseteq 1 .. last + 1 /\ H \subseteq 1 .. last + 1 /\ Q \cup {last + 1} \subseteq 1 .. last + 1
  BY <1>1, <1>3, <1>5
<1>10. \A m \in 1 .. last + 1 :
         \/ m \in gone \/ (\E i \in DOMAIN F : m \in F[i]) \/ m \in B \/ m \in H \/ m \in Q \cup {last + 1}
         \/ /\ \E i \in DOMAIN F : F[i] # {}
            /\ \A i \in DOMAIN F : \A f \in F[i] : m < f
  BY <1>2 DEF Ledger
<1> QED BY <1>6, <1>7, <1>8, <1>9, <1>10 DEF Ledger

\* The writer takes the oldest of the queue, and puts what it holds into the
\* buffer.
LEMMA LedgerTakes ==
  ASSUME NEW F, NEW B, NEW H, NEW Q, NEW last \in Nat, NEW gone, Ledger(F, B, {}, Q \cup H, last, gone), Under(H, Q)
  PROVE  Ledger(F, B, H, Q, last, gone)
<1>1. \A i \in DOMAIN F : Under(F[i], B) /\ Under(F[i], H) /\ Under(F[i], Q)
  BY DEF Ledger, Under
<1>2. Under(B, H) /\ Under(B, Q)
  BY DEF Ledger, Under
<1> QED BY <1>1, <1>2 DEF Ledger

LEMMA LedgerBuffers ==
  ASSUME NEW F, NEW B, NEW H, NEW Q, NEW last \in Nat, NEW gone, Ledger(F, B, H, Q, last, gone)
  PROVE  Ledger(F, B \cup H, {}, Q, last, gone)
<1>1. \A i \in DOMAIN F : Under(F[i], B \cup H) /\ Under(F[i], {}) /\ Under(F[i], Q)
  BY DEF Ledger, Under
<1>2. Under(B \cup H, {}) /\ Under(B \cup H, Q) /\ Under({}, Q)
  BY DEF Ledger, Under
<1> QED BY <1>1, <1>2 DEF Ledger

\* The first of what is buffered goes into the active file, and the rest stays.
LEMMA LedgerFlushes ==
  ASSUME NEW F, NEW B, NEW C, NEW H, NEW Q, NEW last \in Nat, NEW gone,
         Ledger(F, B \cup C, H, Q, last, gone), Under(B, C),
         NEW G, DOMAIN G = DOMAIN F, 0 \in DOMAIN F, DOMAIN F \subseteq Nat, G[0] = F[0] \cup B,
         \A i \in DOMAIN F : i # 0 => G[i] = F[i]
  PROVE  Ledger(G, C, H, Q, last, gone)
<1>1. \A i, j \in DOMAIN F : i < j => Under(F[j], F[i])
  BY DEF Ledger
<1>2. \A i \in DOMAIN F : Under(F[i], B \cup C) /\ Under(F[i], H) /\ Under(F[i], Q)
  BY DEF Ledger
<1>3. Under(B \cup C, H) /\ Under(B \cup C, Q) /\ Under(H, Q)
  BY DEF Ledger
<1>4. \A i, j \in DOMAIN G : i < j => Under(G[j], G[i])
  <2> SUFFICES ASSUME NEW i \in DOMAIN G, NEW j \in DOMAIN G, i < j PROVE Under(G[j], G[i])
    OBVIOUS
  <2>1. j # 0 /\ G[j] = F[j] /\ Under(F[j], F[i]) /\ Under(F[j], B)
    BY <1>1, <1>2 DEF Under
  <2>2. G[i] = F[i] \/ G[i] = F[i] \cup B
    OBVIOUS
  <2> QED BY <2>1, <2>2 DEF Under
<1>5. \A i \in DOMAIN G : G[i] = F[i] \/ G[i] = F[i] \cup B
  OBVIOUS
<1>6. Under(B, H) /\ Under(B, Q) /\ Under(C, H) /\ Under(C, Q)
  BY <1>3 DEF Under
<1>7. \A i \in DOMAIN G : Under(G[i], C) /\ Under(G[i], H) /\ Under(G[i], Q)
  BY <1>2, <1>5, <1>6 DEF Under
<1>8. \A i \in DOMAIN G : G[i] \subseteq 1 .. last
  BY <1>5 DEF Ledger
<1>9. /\ C \subseteq 1 .. last /\ H \subseteq 1 .. last /\ Q \subseteq 1 .. last
  BY DEF Ledger
<1>10. ASSUME NEW m \in 1 .. last
       PROVE  \/ m \in gone \/ (\E i \in DOMAIN G : m \in G[i]) \/ m \in C \/ m \in H \/ m \in Q
              \/ /\ \E i \in DOMAIN G : G[i] # {}
                 /\ \A i \in DOMAIN G : \A f \in G[i] : m < f
  <2>1. CASE m \in gone \/ m \in H \/ m \in Q \/ m \in C
    BY <2>1
  <2>2. CASE m \in B \/ \E i \in DOMAIN F : m \in F[i]
    BY <1>5, <2>2
  <2>3. CASE /\ \E i \in DOMAIN F : F[i] # {}
             /\ \A i \in DOMAIN F : \A f \in F[i] : m < f
    <3>0. PICK k \in DOMAIN F : F[k] # {}
      BY <2>3
    <3>1. PICK f \in F[k] : m < f
      BY <2>3, <3>0
    <3>2. \A b \in B : f < b
      BY <1>2, <3>1 DEF Under
    <3>3. f \in 1 .. last /\ B \subseteq 1 .. last
      BY DEF Ledger
    <3>4. \A b \in B : m < b
      BY <3>1, <3>2, <3>3
    <3>5. G[k] # {}
      BY <1>5
    <3> QED BY <1>5, <2>3, <3>4, <3>5
  <2>4. m \in gone \/ (\E i \in DOMAIN F : m \in F[i]) \/ m \in B \cup C \/ m \in H \/ m \in Q
        \/ (/\ \E i \in DOMAIN F : F[i] # {}
            /\ \A i \in DOMAIN F : \A f \in F[i] : m < f)
    BY DEF Ledger
  <2> QED BY <2>1, <2>2, <2>3, <2>4
<1> QED BY <1>4, <1>6, <1>7, <1>8, <1>9, <1>10 DEF Ledger

\* What is not kept any more is lost.
LEMMA LedgerLoses ==
  ASSUME NEW F, NEW B, NEW H, NEW Q, NEW last \in Nat, NEW gone, Ledger(F, B, H, Q, last, gone)
  PROVE  Ledger(F, {}, {}, {}, last, gone \cup B \cup H \cup Q)
<1>1. \A i \in DOMAIN F : Under(F[i], {})
  BY DEF Under
<1>2. Under({}, {})
  BY DEF Under
<1> QED BY <1>1, <1>2 DEF Ledger

\* The oldest file goes, and one before it has records.
LEMMA LedgerDrops ==
  ASSUME NEW F, NEW B, NEW H, NEW Q, NEW last \in Nat, NEW gone, Ledger(F, B, H, Q, last, gone),
         NEW t \in DOMAIN F, NEW k \in DOMAIN F, DOMAIN F \subseteq Nat, \A i \in DOMAIN F : i # t => i < t,
         k # t, F[k] # {},
         NEW G, DOMAIN G = DOMAIN F, G[t] = {}, \A i \in DOMAIN F : i # t => G[i] = F[i]
  PROVE  Ledger(G, B, H, Q, last, gone)
<1>1. \A i, j \in DOMAIN F : i < j => Under(F[j], F[i])
  BY DEF Ledger
<1>2. \A i, j \in DOMAIN G : i < j => Under(G[j], G[i])
  BY <1>1 DEF Under
<1>3. \A i \in DOMAIN G : Under(G[i], B) /\ Under(G[i], H) /\ Under(G[i], Q) /\ G[i] \subseteq 1 .. last
  BY DEF Ledger, Under
<1>4. ASSUME NEW m \in 1 .. last
      PROVE  \/ m \in gone \/ (\E i \in DOMAIN G : m \in G[i]) \/ m \in B \/ m \in H \/ m \in Q
             \/ /\ \E i \in DOMAIN G : G[i] # {}
                /\ \A i \in DOMAIN G : \A f \in G[i] : m < f
  <2>1. G[k] # {} /\ k \in DOMAIN G
    OBVIOUS
  <2>2. CASE m \in F[t]
    <3>1. \A i \in DOMAIN G : \A f \in G[i] : m < f
      BY <1>1, <2>2 DEF Under
    <3> QED BY <2>1, <3>1
  <2>3. CASE \A i \in DOMAIN F : \A f \in F[i] : m < f
    <3>1. \A i \in DOMAIN G : \A f \in G[i] : m < f
      BY <2>3
    <3> QED BY <2>1, <3>1
  <2>4. m \in gone \/ (\E i \in DOMAIN F : m \in F[i]) \/ m \in B \/ m \in H \/ m \in Q
        \/ (/\ \E i \in DOMAIN F : F[i] # {}
            /\ \A i \in DOMAIN F : \A f \in F[i] : m < f)
    BY DEF Ledger
  <2> QED BY <2>2, <2>3, <2>4
<1> QED BY <1>2, <1>3, <1>4 DEF Ledger

\* A file moves up to the next free place.
LEMMA LedgerMoves ==
  ASSUME NEW F, NEW B, NEW H, NEW Q, NEW last \in Nat, NEW gone, Ledger(F, B, H, Q, last, gone),
         NEW t \in Nat, t + 1 \in DOMAIN F, t \in DOMAIN F, DOMAIN F \subseteq Nat, F[t + 1] = {},
         NEW G, DOMAIN G = DOMAIN F, G[t + 1] = F[t], G[t] = {},
         \A i \in DOMAIN F : i # t /\ i # t + 1 => G[i] = F[i]
  PROVE  Ledger(G, B, H, Q, last, gone)
<1>1. \A i, j \in DOMAIN F : i < j => Under(F[j], F[i])
  BY DEF Ledger
<1>2. \A i, j \in DOMAIN G : i < j => Under(G[j], G[i])
  <2> SUFFICES ASSUME NEW i \in DOMAIN G, NEW j \in DOMAIN G, i < j PROVE Under(G[j], G[i])
    OBVIOUS
  <2>1. CASE i = t \/ j = t
    BY <2>1 DEF Under
  <2>2. CASE i = t + 1
    <3>1. t < j /\ j # t /\ j # t + 1
      BY <2>2
    <3> QED BY <1>1, <2>2, <3>1
  <2>3. CASE j = t + 1 /\ i # t
    <3>1. i < t /\ i # t + 1
      BY <2>3
    <3> QED BY <1>1, <2>3, <3>1
  <2>4. CASE i \notin {t, t + 1} /\ j \notin {t, t + 1}
    BY <1>1, <2>4
  <2> QED BY <2>1, <2>2, <2>3, <2>4
<1>3. \A i \in DOMAIN G : G[i] = {} \/ \E k \in DOMAIN F : G[i] = F[k]
  OBVIOUS
<1>4. \A k \in DOMAIN F : F[k] = {} \/ \E i \in DOMAIN G : G[i] = F[k]
  OBVIOUS
<1>5. \A i \in DOMAIN G : Under(G[i], B) /\ Under(G[i], H) /\ Under(G[i], Q) /\ G[i] \subseteq 1 .. last
  BY <1>3 DEF Ledger, Under
<1>6. ASSUME NEW m \in 1 .. last
      PROVE  \/ m \in gone \/ (\E i \in DOMAIN G : m \in G[i]) \/ m \in B \/ m \in H \/ m \in Q
             \/ /\ \E i \in DOMAIN G : G[i] # {}
                /\ \A i \in DOMAIN G : \A f \in G[i] : m < f
  <2>1. CASE \E i \in DOMAIN F : m \in F[i]
    BY <1>4, <2>1
  <2>2. CASE /\ \E i \in DOMAIN F : F[i] # {}
             /\ \A i \in DOMAIN F : \A f \in F[i] : m < f
    <3>1. \E i \in DOMAIN G : G[i] # {}
      BY <1>4, <2>2
    <3>2. \A i \in DOMAIN G : \A f \in G[i] : m < f
      BY <1>3, <2>2
    <3> QED BY <3>1, <3>2
  <2>3. m \in gone \/ (\E i \in DOMAIN F : m \in F[i]) \/ m \in B \/ m \in H \/ m \in Q
        \/ (/\ \E i \in DOMAIN F : F[i] # {}
            /\ \A i \in DOMAIN F : \A f \in F[i] : m < f)
    BY DEF Ledger
  <2> QED BY <2>1, <2>2, <2>3
<1> QED BY <1>2, <1>5, <1>6 DEF Ledger

\* The lines of the files, and of one that changes.
LEMMA FilesAre ==
  ASSUME NEW fs \in FileSets
  PROVE  /\ Lines(fs) \in [0 .. Backups -> Seq(Nat)]
         /\ \A i \in 0 .. Backups : /\ Lines(fs)[i] = IF fs[i] = None THEN <<>> ELSE fs[i]
                                    /\ Filed(fs)[i] = Has(Lines(fs)[i])
         /\ DOMAIN Filed(fs) = 0 .. Backups
<1>1. \A i \in 0 .. Backups : (IF fs[i] = None THEN <<>> ELSE fs[i]) \in Seq(Nat)
  <2> TAKE i \in 0 .. Backups
  <2>1. fs[i] \in Seq(Nat) \cup {None}
    BY DEF FileSets
  <2>2. <<>> \in Seq(Nat)
    OBVIOUS
  <2> QED BY <2>1, <2>2
<1> QED BY <1>1 DEF Lines, Filed

LEMMA FileStays ==
  ASSUME NEW fs, NEW gs, NEW i \in 0 .. Backups, gs[i] = fs[i]
  PROVE  Lines(gs)[i] = Lines(fs)[i] /\ Filed(gs)[i] = Filed(fs)[i]
<1>1. Lines(gs)[i] = IF gs[i] = None THEN <<>> ELSE gs[i]
  BY DEF Lines
<1>2. Lines(fs)[i] = IF fs[i] = None THEN <<>> ELSE fs[i]
  BY DEF Lines
<1>3. Lines(gs)[i] = Lines(fs)[i]
  BY <1>1, <1>2
<1>4. Filed(gs)[i] = Has(Lines(gs)[i]) /\ Filed(fs)[i] = Has(Lines(fs)[i])
  BY DEF Filed
<1> QED BY <1>3, <1>4

LEMMA FileHolds ==
  ASSUME NEW fs, NEW i \in 0 .. Backups
  PROVE  /\ fs[i] = None => Lines(fs)[i] = <<>> /\ Filed(fs)[i] = {}
         /\ fs[i] # None => Lines(fs)[i] = fs[i] /\ Filed(fs)[i] = Has(fs[i])
<1>1. Lines(fs)[i] = IF fs[i] = None THEN <<>> ELSE fs[i]
  BY DEF Lines
<1>2. Filed(fs)[i] = Has(Lines(fs)[i])
  BY DEF Filed
<1>3. Has(<<>>) = {}
  BY DEF Has
<1>4. CASE fs[i] = None
  BY <1>1, <1>2, <1>3, <1>4
<1>5. CASE fs[i] # None
  BY <1>1, <1>2, <1>5
<1> QED BY <1>4, <1>5

First(rs, k) == SubSeq(rs, 1, k)
Rest(rs, k) == SubSeq(rs, k + 1, Len(rs))

\* The active file takes records.
Taking(fs, rs) == [fs EXCEPT ![0] = fs[0] \o Log!Number(rs)]

\* They are the first of the buffer.
LEMMA FileGrows ==
  ASSUME Log!Parameters, LogTypes, LedgerInv, FilesInv, files[0] # None,
         NEW k \in 0 .. Len(buffer), NEW a, a = First(buffer, k), NEW b, b = Rest(buffer, k),
         NEW gs, gs = Taking(files, a)
  PROVE  /\ gs \in FileSets /\ gs[0] # None /\ \A i \in 1 .. Backups : gs[i] = files[i]
         /\ Ledger(Filed(gs), Ns(b), InHand(hand), Ns(queue), accepted, lost)
         /\ \A i \in 0 .. Backups : Rising(Lines(gs)[i])
         /\ Len(Lines(gs)[0]) = Len(Lines(files)[0]) + k
         /\ \A i \in 1 .. Backups : Lines(gs)[i] = Lines(files)[i] /\ Filed(gs)[i] = Filed(files)[i]
         /\ Filed(gs)[0] = Filed(files)[0] \cup Ns(a)
         /\ \A i \in 0 .. Backups : Under(Filed(files)[i], Ns(a))
         /\ Ns(buffer) = Ns(a) \cup Ns(b)
<1>1. buffer \in Seq(Records) /\ RisingBy(buffer) /\ files \in FileSets /\ 0 \in 0 .. Backups
      /\ None \notin Seq(Nat) /\ Backups \in Nat /\ accepted \in Nat
  BY DEF LogTypes, LedgerInv, Log!Parameters
<1>2. /\ a \in Seq(Records) /\ b \in Seq(Records) /\ Len(a) = k
      /\ Ns(buffer) = Ns(a) \cup Ns(b) /\ Under(Ns(a), Ns(b)) /\ RisingBy(a)
  BY <1>1, Split DEF First, Rest
<1>3. /\ Log!Number(a) \in Seq(Nat) /\ Len(Log!Number(a)) = k
      /\ Has(Log!Number(a)) = Ns(a) /\ Rising(Log!Number(a))
  BY <1>2, NumberOf
<1>4. files[0] \in Seq(Nat) /\ Lines(files)[0] = files[0] /\ Filed(files)[0] = Has(files[0])
  <2>1. files[0] \in Seq(Nat)
    BY <1>1 DEF FileSets
  <2>2. Lines(files)[0] = files[0]
    BY <1>1, FilesAre
  <2> QED BY <1>1, <2>1, <2>2, FilesAre
<1>5. PICK s \in Seq(Nat) : s = files[0] \o Log!Number(a)
  <2> DEFINE u == files[0]  v == Log!Number(a)
  <2>1. u \in Seq(Nat) /\ v \in Seq(Nat)
    BY <1>3, <1>4
  <2> HIDE DEF u, v
  <2>2. u \o v \in Seq(Nat)
    BY <2>1
  <2> QED BY <2>2 DEF u, v
<1>6. /\ Len(s) = Len(files[0]) + k /\ Has(s) = Has(files[0]) \cup Ns(a)
      /\ Rising(files[0]) /\ Under(Has(files[0]), Ns(a)) => Rising(s)
  <2> DEFINE u == files[0]  v == Log!Number(a)
  <2>1. /\ u \in Seq(Nat) /\ v \in Seq(Nat) /\ s = u \o v /\ Len(v) = k /\ Has(v) = Ns(a) /\ Rising(v)
    BY <1>3, <1>4, <1>5
  <2> HIDE DEF u, v
  <2>2. /\ Len(u \o v) = Len(u) + Len(v) /\ Has(u \o v) = Has(u) \cup Has(v)
        /\ Rising(u) /\ Rising(v) /\ Under(Has(u), Has(v)) => Rising(u \o v)
    BY <2>1, HasConcat
  <2>3. /\ Len(s) = Len(u) + k /\ Has(s) = Has(u) \cup Ns(a)
        /\ Rising(u) /\ Under(Has(u), Ns(a)) => Rising(s)
    BY <2>1, <2>2
  <2> QED BY <2>3 DEF u
<1>7. s # None /\ gs \in FileSets /\ gs[0] = s /\ \A i \in 0 .. Backups : i # 0 => gs[i] = files[i]
  BY <1>1, <1>5 DEF FileSets, Taking
<1>8. /\ gs \in FileSets /\ gs[0] = s
      /\ \A i \in 0 .. Backups : i # 0 => gs[i] = files[i] /\ Lines(gs)[i] = Lines(files)[i] /\ Filed(gs)[i] = Filed(files)[i]
      /\ Lines(gs)[0] = s /\ Filed(gs)[0] = Has(s)
  <2>2. Lines(gs)[0] = s /\ Filed(gs)[0] = Has(s)
    BY <1>1, <1>7, FileHolds
  <2>3. ASSUME NEW i \in 0 .. Backups, i # 0 PROVE Lines(gs)[i] = Lines(files)[i] /\ Filed(gs)[i] = Filed(files)[i]
    <3>1. gs[i] = files[i]
      BY <1>7, <2>3
    <3> QED BY <3>1, FileStays
  <2> QED BY <1>7, <2>2, <2>3
<1>9. DOMAIN Filed(gs) = 0 .. Backups /\ DOMAIN Filed(files) = 0 .. Backups
  BY <1>1, <1>8, FilesAre
<1>10. Filed(gs)[0] = Filed(files)[0] \cup Ns(a)
  BY <1>4, <1>6, <1>8
<1>11. Ledger(Filed(files), Ns(a) \cup Ns(b), InHand(hand), Ns(queue), accepted, lost)
  BY <1>2 DEF LedgerInv
<1>12. \A i \in 0 .. Backups : Under(Filed(files)[i], Ns(a))
  BY <1>9, <1>11 DEF Ledger, Under
<1>13. Ledger(Filed(gs), Ns(b), InHand(hand), Ns(queue), accepted, lost)
  <2>1. 0 .. Backups \subseteq Nat /\ \A i \in 0 .. Backups : i # 0 => Filed(gs)[i] = Filed(files)[i]
    <3>1. 0 .. Backups \subseteq Nat
      OBVIOUS
    <3> QED BY <1>8, <3>1
  <2> QED BY <1>1, <1>2, <1>9, <1>10, <1>11, <2>1, LedgerFlushes
<1>14. Rising(s)
  BY <1>1, <1>4, <1>6, <1>12 DEF LedgerInv
<1>15. \A i \in 0 .. Backups : Rising(Lines(gs)[i])
  BY <1>8, <1>14 DEF LedgerInv
<1>16. \A i \in 1 .. Backups : i \in 0 .. Backups /\ i # 0
  OBVIOUS
<1> QED BY <1>2, <1>4, <1>6, <1>7, <1>8, <1>10, <1>12, <1>13, <1>15, <1>16

-----------------------------------------------------------------------------
\* The operations of the loggers, of the writer and of the page.
LEMMA LedgerFrame ==
  ASSUME LedgerInv, UNCHANGED <<accepted, lost, queue, hand, buffer, files>>
  PROVE  LedgerInv'
BY DEF LedgerInv

LEMMA LoadFrame ==
  ASSUME LoadInv, UNCHANGED <<files, page>>
  PROVE  LoadInv'
BY DEF LoadInv

\* A logger asks, the process begins to end, and the writer wakes up.
LEMMA LogTalks ==
  ASSUME LogInv,
         \/ \E t \in Loggers : Log!Ask(t)
         \/ Log!Close \/ Log!TakeSender \/ Log!StopWaiting \/ Log!FlushDeadline \/ Log!Disconnected
  PROVE  LogInv'
<1> USE DEF LogInv, Log!log, Log!writer
<1>1. LedgerInv' /\ LoadInv'
  BY LedgerFrame, LoadFrame DEF Log!Ask, Log!Close, Log!TakeSender, Log!StopWaiting, Log!FlushDeadline, Log!Disconnected
<1>2. LogTypes'
  BY DEF LogTypes, Log!Ask, Log!Close, Log!TakeSender, Log!StopWaiting, Log!FlushDeadline, Log!Disconnected
<1>3. FilesInv'
  BY DEF FilesInv, Log!Ask, Log!Close, Log!TakeSender, Log!StopWaiting, Log!FlushDeadline, Log!Disconnected
<1>4. WriterInv'
  <2>1. CASE \E t \in Loggers : Log!Ask(t)
    BY <2>1 DEF WriterInv, Log!Ask
  <2>2. CASE Log!Close
    BY <2>2 DEF WriterInv, Log!Close
  <2>3. CASE Log!TakeSender
    BY <2>3 DEF WriterInv, Log!TakeSender
  <2>4. CASE Log!StopWaiting
    BY <2>4 DEF WriterInv, Log!StopWaiting
  <2>5. CASE Log!FlushDeadline
    BY <2>5 DEF WriterInv, Log!FlushDeadline
  <2>6. CASE Log!Disconnected
    BY <2>6 DEF WriterInv, Log!Disconnected
  <2> QED BY <2>1, <2>2, <2>3, <2>4, <2>5, <2>6
<1> QED BY <1>1, <1>2, <1>3, <1>4

\* A record enters the queue, or is dropped.
LEMMA LogSends ==
  ASSUME LogInv, NEW t \in Loggers, Log!Send(t)
  PROVE  LogInv'
<1> USE DEF LogInv, Log!log, Log!writer
<1>1. /\ UNCHANGED <<hand, buffer, files, lost, page, worker, unflushed, turn, sender, shutting>> /\ asking' = {}
      /\ sender
  BY DEF Log!Send, WriterInv
<1>2. LoadInv' /\ FilesInv'
  BY <1>1 DEF LoadInv, FilesInv
<1>3. CASE UNCHANGED <<queue, accepted>>
  <2>1. LedgerInv'
    BY <1>1, <1>3, LedgerFrame
  <2>2. LogTypes'
    BY <1>1, <1>3 DEF LogTypes
  <2>3. WriterInv'
    BY <1>1, <1>3 DEF WriterInv
  <2> QED BY <1>2, <2>1, <2>2, <2>3
<1>4. CASE /\ worker # "finished" /\ accepted' = accepted + 1
           /\ \E urgent \in BOOLEAN : queue' = Append(queue, [n |-> accepted + 1, urgent |-> urgent])
  <2>1. accepted \in Nat /\ queue \in Seq(Records) /\ RisingBy(queue)
    BY DEF LogTypes, LedgerInv
  <2>2. PICK r \in Records : queue' = Append(queue, r) /\ r.n = accepted + 1
    BY <1>4, <2>1 DEF Records
  <2>3. Ledger(Filed(files), Ns(buffer), InHand(hand), Ns(queue), accepted, lost)
    BY DEF LedgerInv
  <2>4. Ledger(Filed(files), Ns(buffer), InHand(hand), Ns(queue) \cup {accepted + 1}, accepted + 1, lost)
    BY <2>1, <2>3, LedgerSends
  <2>5. Under(Ns(queue), {r.n})
    <3>1. Ns(queue) \subseteq 1 .. accepted
      BY <2>3 DEF Ledger
    <3>2. \A m \in 1 .. accepted : m < accepted + 1
      BY <2>1
    <3> QED BY <2>2, <3>1, <3>2 DEF Under
  <2>6. queue' \in Seq(Records) /\ Ns(queue') = Ns(queue) \cup {accepted + 1} /\ RisingBy(queue')
    BY <2>1, <2>2, <2>5, Appended1
  <2>7. LedgerInv'
    BY <1>1, <1>4, <2>4, <2>6 DEF LedgerInv
  <2>8. LogTypes'
    BY <1>1, <1>4, <2>1, <2>6 DEF LogTypes
  <2>9. WriterInv'
    BY <1>1, <1>4 DEF WriterInv
  <2> QED BY <1>2, <2>7, <2>8, <2>9
<1> QED BY <1>3, <1>4 DEF Log!Send

\* The writer takes the next record.
LEMMA LogReceives ==
  ASSUME Log!Parameters, LogInv, Log!Receive
  PROVE  LogInv'
<1> USE DEF LogInv
<1>1. /\ UNCHANGED <<accepted, lost, sender, shutting, asking, buffer, unflushed, turn, files, page>>
      /\ worker = "wait" /\ worker' = "append" /\ queue # <<>> /\ hand' = Head(queue) /\ queue' = Tail(queue)
  BY DEF Log!Receive
<1>2. queue \in Seq(Records) /\ RisingBy(queue) /\ hand = None /\ accepted \in Nat
  BY <1>1 DEF LogTypes, LedgerInv, WriterInv
<1>3. /\ hand' \in Records /\ queue' \in Seq(Records) /\ RisingBy(queue')
      /\ Ns(queue) = {hand'.n} \cup Ns(queue') /\ Under({hand'.n}, Ns(queue'))
  BY <1>1, <1>2, Taken
<1>4. hand' # None
  BY <1>3 DEF Log!Parameters, Records
<1>5. LoadInv' /\ FilesInv'
  BY <1>1 DEF LoadInv, FilesInv
<1>6. LedgerInv'
  <2>1. InHand(hand) = {} /\ InHand(hand') = {hand'.n}
    BY <1>2, <1>4 DEF InHand
  <2>2. Ledger(Filed(files), Ns(buffer), {}, Ns(queue') \cup InHand(hand'), accepted, lost)
    <3>1. Ns(queue) = Ns(queue') \cup InHand(hand')
      BY <1>3, <2>1
    <3> QED BY <2>1, <3>1 DEF LedgerInv
  <2>3. Ledger(Filed(files), Ns(buffer), InHand(hand'), Ns(queue'), accepted, lost)
    BY <1>2, <1>3, <2>1, <2>2, LedgerTakes
  <2> QED BY <1>1, <1>3, <2>3 DEF LedgerInv
<1>7. LogTypes'
  BY <1>1, <1>3 DEF LogTypes
<1>8. WriterInv'
  BY <1>1, <1>4 DEF WriterInv
<1> QED BY <1>5, <1>6, <1>7, <1>8

\* A load that runs while the active file grows.
LEMMA LoadGrows ==
  ASSUME Backups \in Nat, LoadInv, page' = page, files' \in FileSets, NEW A,
         \A i \in 1 .. Backups : Filed(files')[i] = Filed(files)[i],
         Filed(files')[0] = Filed(files)[0] \cup A,
         \A i \in 0 .. Backups : Under(Filed(files)[i], A),
         \A i \in 0 .. Backups : Filed(files)[i] \subseteq Nat, A \subseteq Nat
  PROVE  LoadInv'
<1>1. /\ page = [visible |-> page.visible, at |-> page.at, rows |-> page.rows, mixed |-> page.mixed]
  BY DEF LoadInv
<1>2. ASSUME page.at # None, ~ page.mixed
      PROVE  /\ Rising(page.rows)
             /\ \A i \in 1 .. Backups : i + page.at > Backups + 1 => Filed(files')[i] \subseteq Has(page.rows)
             /\ \A r \in Has(page.rows) : \E i \in 0 .. Backups : i + page.at > Backups + 1 /\ r \in Filed(files')[i]
             /\ page.at = Backups + 2 =>
                  \A m \in Filed(files')[0], r \in Has(page.rows) : m < r => m \in Has(page.rows)
  <2>1. /\ Rising(page.rows)
        /\ \A i \in 1 .. Backups : i + page.at > Backups + 1 => Filed(files)[i] \subseteq Has(page.rows)
        /\ \A r \in Has(page.rows) : \E i \in 0 .. Backups : i + page.at > Backups + 1 /\ r \in Filed(files)[i]
        /\ page.at = Backups + 2 =>
             \A m \in Filed(files)[0], r \in Has(page.rows) : m < r => m \in Has(page.rows)
    BY <1>2 DEF LoadInv
  <2>2. \A i \in 0 .. Backups : Filed(files)[i] \subseteq Filed(files')[i]
    <3> SUFFICES ASSUME NEW i \in 0 .. Backups PROVE Filed(files)[i] \subseteq Filed(files')[i]
      OBVIOUS
    <3>1. i = 0 \/ i \in 1 .. Backups
      OBVIOUS
    <3> QED BY <3>1
  <2>3. ASSUME NEW r \in Has(page.rows)
        PROVE  \E i \in 0 .. Backups : i + page.at > Backups + 1 /\ r \in Filed(files')[i]
    <3>1. PICK i \in 0 .. Backups : i + page.at > Backups + 1 /\ r \in Filed(files)[i]
      BY <2>1
    <3> QED BY <2>2, <3>1
  <2>4. ASSUME page.at = Backups + 2, NEW m \in Filed(files')[0], NEW r \in Has(page.rows), m < r
        PROVE  m \in Has(page.rows)
    <3>1. PICK i \in 0 .. Backups : r \in Filed(files)[i]
      BY <2>1
    <3>2. m \notin A
      <4> SUFFICES ASSUME m \in A PROVE FALSE
        OBVIOUS
      <4>1. r < m
        BY <3>1 DEF Under
      <4>2. r \in Nat /\ m \in Nat
        BY <3>1
      <4> QED BY <2>4, <4>1, <4>2
    <3> QED BY <2>1, <2>4, <3>2
  <2> QED BY <2>1, <2>3, <2>4
<1>3. page.at # None => page.at \in 1 .. Backups + 2 /\ page.rows \in Seq(Nat)
  BY DEF LoadInv
<1> QED BY <1>1, <1>2, <1>3 DEF LoadInv

\* What is buffered goes into the active file.
LEMMA AllFlushed ==
  ASSUME Log!Parameters, LogInv, files[0] # None,
         files' = [files EXCEPT ![0] = @ \o Log!Number(buffer)], buffer' = <<>>,
         UNCHANGED <<accepted, lost, queue, hand, page>>
  PROVE  /\ LedgerInv' /\ LoadInv' /\ files' \in FileSets /\ files'[0] # None
         /\ Len(Lines(files')[0]) = Len(Lines(files)[0]) + Len(buffer)
         /\ \A i \in 1 .. Backups : files'[i] = files[i] /\ Lines(files')[i] = Lines(files)[i]
<1> USE DEF LogInv
<1>1. buffer \in Seq(Records) /\ accepted \in Nat /\ Backups \in Nat /\ files \in FileSets /\ RisingBy(queue)
  BY DEF LogTypes, LedgerInv, Log!Parameters
<1>2. PICK k \in 0 .. Len(buffer) : k = Len(buffer)
  BY <1>1
<1>3. First(buffer, k) = buffer /\ Rest(buffer, k) = <<>>
  <2>1. SubSeq(buffer, 1, Len(buffer)) = buffer
    BY <1>1
  <2>2. SubSeq(buffer, Len(buffer) + 1, Len(buffer)) = <<>>
    BY <1>1, SubSeqEmpty
  <2> QED BY <1>2, <2>1, <2>2 DEF First, Rest
<1>4. files' = Taking(files, buffer)
  BY DEF Taking
<1>5. PICK a : a = buffer /\ a = First(buffer, k)
  BY <1>3
<1>51. PICK b : b = <<>> /\ b = Rest(buffer, k)
  BY <1>3
<1>52. PICK gs : gs = files' /\ gs = Taking(files, a)
  BY <1>4, <1>5
<1>53. /\ gs \in FileSets /\ gs[0] # None /\ \A i \in 1 .. Backups : gs[i] = files[i]
       /\ Ledger(Filed(gs), Ns(b), InHand(hand), Ns(queue), accepted, lost)
       /\ \A i \in 0 .. Backups : Rising(Lines(gs)[i])
       /\ Len(Lines(gs)[0]) = Len(Lines(files)[0]) + k
       /\ \A i \in 1 .. Backups : Lines(gs)[i] = Lines(files)[i] /\ Filed(gs)[i] = Filed(files)[i]
       /\ Filed(gs)[0] = Filed(files)[0] \cup Ns(a)
       /\ \A i \in 0 .. Backups : Under(Filed(files)[i], Ns(a))
  <2>1. LogTypes /\ LedgerInv /\ FilesInv
    OBVIOUS
  <2>2. a = First(buffer, k) /\ b = Rest(buffer, k) /\ gs = Taking(files, a)
    BY <1>5, <1>51, <1>52
  <2> QED BY <2>1, <2>2, FileGrows
<1>6. /\ files' \in FileSets /\ files'[0] # None /\ \A i \in 1 .. Backups : files'[i] = files[i]
      /\ Ledger(Filed(files'), Ns(<<>>), InHand(hand), Ns(queue), accepted, lost)
      /\ \A i \in 0 .. Backups : Rising(Lines(files')[i])
      /\ Len(Lines(files')[0]) = Len(Lines(files)[0]) + k
      /\ \A i \in 1 .. Backups : Lines(files')[i] = Lines(files)[i] /\ Filed(files')[i] = Filed(files)[i]
      /\ Filed(files')[0] = Filed(files)[0] \cup Ns(buffer)
      /\ \A i \in 0 .. Backups : Under(Filed(files)[i], Ns(buffer))
  BY <1>5, <1>51, <1>52, <1>53
<1>7. RisingBy(<<>>)
  BY DEF RisingBy
<1>8. LedgerInv'
  BY <1>1, <1>6, <1>7 DEF LedgerInv
<1>9. \A i \in 0 .. Backups : Filed(files)[i] \subseteq Nat
  <2>1. DOMAIN Filed(files) = 0 .. Backups
    BY <1>1, FilesAre
  <2>2. \A i \in 0 .. Backups : Filed(files)[i] \subseteq 1 .. accepted
    BY <2>1 DEF LedgerInv, Ledger
  <2> QED BY <1>1, <2>2
<1>10. Ns(buffer) \subseteq Nat
  <2>1. Ns(buffer) \subseteq 1 .. accepted
    BY DEF LedgerInv, Ledger
  <2> QED BY <1>1, <2>1
<1>11. LoadInv'
  BY <1>1, <1>6, <1>9, <1>10, LoadGrows
<1> QED BY <1>2, <1>6, <1>8, <1>11

LEMMA LogFlushes ==
  ASSUME Log!Parameters, LogInv, Log!Flush
  PROVE  LogInv'
<1> USE DEF LogInv
<1>1. /\ UNCHANGED <<accepted, lost, process, sender, shutting, asking, queue, hand, turn, page>>
      /\ worker \in {"flush", "last"} /\ worker' = IF worker = "flush" THEN "wait" ELSE "finished"
      /\ buffer' = <<>> /\ unflushed' = 0
  BY DEF Log!Flush, Log!log
<1>2. files[0] # None
  BY <1>1 DEF FilesInv
<1>3. /\ LedgerInv' /\ LoadInv' /\ files' \in FileSets /\ files'[0] # None
      /\ Len(Lines(files')[0]) = Len(Lines(files)[0]) + Len(buffer)
      /\ \A i \in 1 .. Backups : files'[i] = files[i] /\ Lines(files')[i] = Lines(files)[i]
  <2>1. files' = [files EXCEPT ![0] = @ \o Log!Number(buffer)]
    BY DEF Log!Flush
  <2> QED BY <1>1, <1>2, <2>1, AllFlushed
<1>4. LogTypes'
  BY <1>1, <1>3 DEF LogTypes
<1>5. FilesInv'
  <2>1. Len(Lines(files')[0]) <= MaxBytes
    BY <1>3 DEF FilesInv
  <2>2. \A i \in 0 .. Backups : Len(Lines(files')[i]) <= MaxBytes
    <3> SUFFICES ASSUME NEW i \in 0 .. Backups PROVE Len(Lines(files')[i]) <= MaxBytes
      OBVIOUS
    <3>1. CASE i = 0
      BY <2>1, <3>1
    <3>2. CASE i \in 1 .. Backups
      BY <1>3, <3>2 DEF FilesInv
    <3>3. Backups \in Nat
      BY DEF Log!Parameters
    <3> QED BY <3>1, <3>2, <3>3
  <2>3. Len(Lines(files')[0]) + Len(buffer') <= MaxBytes
    <3>1. Len(buffer') = 0 /\ Lines(files')[0] \in Seq(Nat)
      <4>1. 0 \in 0 .. Backups
        BY DEF Log!Parameters
      <4> QED BY <1>1, <1>3, <4>1, FilesAre
    <3> QED BY <2>1, <3>1
  <2>4. \A i \in 1 .. Backups : files'[i] # <<>>
    BY <1>3 DEF FilesInv
  <2>5. worker' # "rotate"
    BY <1>1
  <2> QED BY <1>3, <2>2, <2>3, <2>4, <2>5 DEF FilesInv
<1>6. WriterInv'
  <2>1. BatchSize \in Nat /\ BatchSize # 0
    BY DEF Log!Parameters
  <2>2. Len(buffer') = 0 /\ DOMAIN buffer' = {}
    BY <1>1
  <2> QED BY <1>1, <2>1, <2>2 DEF WriterInv
<1> QED BY <1>3, <1>4, <1>5, <1>6

\* A record that would overflow the file waits for a rotation, another one is
\* buffered.
LEMMA LogAppends ==
  ASSUME Log!Parameters, LogInv, Log!AppendRecord
  PROVE  LogInv'
<1> USE DEF LogInv
<1>1. /\ UNCHANGED <<accepted, lost, process, sender, shutting, asking, queue, page>>
      /\ worker = "append"
  BY DEF Log!AppendRecord, Log!log
<1>2. files[0] # None /\ hand # None /\ hand \in Records /\ buffer \in Seq(Records) /\ files \in FileSets
      /\ 0 \in 0 .. Backups /\ Backups \in Nat \ {0} /\ MaxBytes \in Nat \ {0} /\ unflushed \in Nat /\ RisingBy(buffer)
  BY <1>1 DEF FilesInv, WriterInv, LogTypes, LedgerInv, Log!Parameters
<1>3. Log!Contents(0) = Lines(files)[0] /\ Lines(files)[0] \in Seq(Nat)
  BY <1>2, FilesAre DEF Log!Contents
<1>4. CASE Log!Overflows
  <2>1. /\ buffer' = <<>> /\ turn' = Backups /\ worker' = "rotate" /\ UNCHANGED <<hand, unflushed>>
    BY <1>4 DEF Log!AppendRecord
  <2>2. /\ LedgerInv' /\ LoadInv' /\ files' \in FileSets /\ files'[0] # None
        /\ Len(Lines(files')[0]) = Len(Lines(files)[0]) + Len(buffer)
        /\ \A i \in 1 .. Backups : files'[i] = files[i] /\ Lines(files')[i] = Lines(files)[i]
    <3>1. files' = [files EXCEPT ![0] = @ \o Log!Number(buffer)]
      BY <1>4 DEF Log!AppendRecord
    <3> QED BY <1>1, <1>2, <2>1, <3>1, AllFlushed
  <2>3. LogTypes'
    BY <1>1, <1>2, <2>1, <2>2 DEF LogTypes
  <2>4. FilesInv'
    <3>1. Len(Lines(files')[0]) <= MaxBytes
      BY <2>2 DEF FilesInv
    <3>2. \A i \in 0 .. Backups : Len(Lines(files')[i]) <= MaxBytes
      <4> SUFFICES ASSUME NEW i \in 0 .. Backups PROVE Len(Lines(files')[i]) <= MaxBytes
        OBVIOUS
      <4>1. CASE i = 0
        BY <3>1, <4>1
      <4>2. CASE i \in 1 .. Backups
        BY <2>2, <4>2 DEF FilesInv
      <4> QED BY <1>2, <4>1, <4>2
    <3>3. Len(buffer') = 0 /\ Lines(files')[0] \in Seq(Nat)
      BY <1>2, <2>1, <2>2, FilesAre
    <3>4. Len(Lines(files')[0]) + Len(buffer') <= MaxBytes
      BY <3>1, <3>3
    <3>5. \A i \in 1 .. Backups : files'[i] # <<>>
      BY <2>2 DEF FilesInv
    <3>6. files'[0] # <<>>
      <4>1. Len(Lines(files')[0]) > 0
        BY <1>3, <1>4, <2>2 DEF Log!Overflows, Log!Bytes
      <4>2. Lines(files')[0] = files'[0]
        BY <1>2, <2>2, FileHolds
      <4> QED BY <4>1, <4>2
    <3> QED BY <1>2, <2>1, <2>2, <3>2, <3>4, <3>5, <3>6 DEF FilesInv
  <2>5. WriterInv'
    <3>1. Len(buffer') = 0 /\ DOMAIN buffer' = {}
      BY <2>1
    <3> QED BY <1>1, <1>2, <2>1, <3>1 DEF WriterInv
  <2> QED BY <2>2, <2>3, <2>4, <2>5
<1>5. CASE ~ Log!Overflows
  <2>1. /\ buffer' = Append(buffer, hand) /\ hand' = None /\ unflushed' = unflushed + 1
        /\ worker' = IF hand.urgent \/ unflushed + 1 >= BatchSize THEN "flush" ELSE "wait"
        /\ UNCHANGED <<turn, files>>
    BY <1>5 DEF Log!AppendRecord
  <2>2. InHand(hand) = {hand.n} /\ InHand(hand') = {}
    BY <1>2, <2>1 DEF InHand
  <2>3. Ledger(Filed(files), Ns(buffer), InHand(hand), Ns(queue), accepted, lost) /\ accepted \in Nat
    BY DEF LedgerInv, LogTypes
  <2>4. /\ buffer' \in Seq(Records) /\ Len(buffer') = Len(buffer) + 1
        /\ Ns(buffer') = Ns(buffer) \cup InHand(hand) /\ RisingBy(buffer')
    <3>1. Under(Ns(buffer), {hand.n})
      BY <2>2, <2>3 DEF Ledger
    <3> QED BY <1>2, <2>1, <2>2, <3>1, Appended1
  <2>5. LedgerInv'
    <3>1. Ledger(Filed(files), Ns(buffer) \cup InHand(hand), {}, Ns(queue), accepted, lost)
      BY <2>3, LedgerBuffers
    <3> QED BY <1>1, <2>1, <2>2, <2>4, <3>1 DEF LedgerInv
  <2>6. LoadInv'
    BY <1>1, <2>1, LoadFrame
  <2>7. LogTypes'
    BY <1>1, <1>2, <2>1, <2>4 DEF LogTypes
  <2>8. FilesInv'
    <3>1. Len(Lines(files)[0]) + Len(buffer') <= MaxBytes
      <4> DEFINE m == Len(Lines(files)[0])  n == Len(buffer)
      <4>1. m \in Nat /\ n \in Nat /\ Log!Bytes = m + n /\ m + n <= MaxBytes
        <5>1. m \in Nat /\ n \in Nat
          BY <1>2, <1>3
        <5>2. Log!Bytes = m + n
          BY <1>3 DEF Log!Bytes
        <5>3. m + n <= MaxBytes
          BY DEF FilesInv
        <5> QED BY <5>1, <5>2, <5>3
      <4> HIDE DEF m, n
      <4>2. m + (n + 1) <= MaxBytes
        BY <1>2, <1>5, <4>1 DEF Log!Overflows
      <4> QED BY <2>4, <4>2 DEF m, n
    <3> QED BY <1>1, <1>2, <2>1, <3>1 DEF FilesInv
  <2>9. WriterInv'
    <3>1. Len(buffer) <= unflushed /\ \A i \in DOMAIN buffer : ~ buffer[i].urgent
      BY <1>1 DEF WriterInv
    <3>2. ~ hand.urgent => \A i \in DOMAIN buffer' : ~ buffer'[i].urgent
      BY <1>2, <2>1, <3>1
    <3>3. Len(buffer') <= unflushed'
      BY <1>2, <2>1, <2>4, <3>1
    <3>4. BatchSize \in Nat
      BY DEF Log!Parameters
    <3> QED BY <1>1, <1>2, <2>1, <3>2, <3>3, <3>4 DEF WriterInv
  <2> QED BY <2>5, <2>6, <2>7, <2>8, <2>9
<1> QED BY <1>4, <1>5

\* A load a rotation runs into is not exact any more.
LEMMA LoadMixes ==
  ASSUME LoadInv, Log!Mixed
  PROVE  LoadInv'
<1>1. page' = [page EXCEPT !.mixed = (page.at # None)]
  BY DEF Log!Mixed
<1>2. page = [visible |-> page.visible, at |-> page.at, rows |-> page.rows, mixed |-> page.mixed]
  BY DEF LoadInv
<1>3. page' = [visible |-> page.visible, at |-> page.at, rows |-> page.rows, mixed |-> (page.at # None)]
  BY <1>1, <1>2
<1>4. /\ page'.visible = page.visible /\ page'.at = page.at /\ page'.rows = page.rows
      /\ page'.mixed = (page.at # None)
  BY <1>3
<1>5. page' = [visible |-> page'.visible, at |-> page'.at, rows |-> page'.rows, mixed |-> page'.mixed]
  BY <1>3, <1>4
<1>6. page'.at # None => page'.at \in 1 .. Backups + 2 /\ page'.rows \in Seq(Nat)
  BY <1>4 DEF LoadInv
<1>7. page'.at # None => page'.mixed
  BY <1>4
<1> QED BY <1>5, <1>6, <1>7 DEF LoadInv

\* One step of a rotation.
LEMMA LogRotates ==
  ASSUME Log!Parameters, LogInv, Log!Rotate
  PROVE  LogInv'
<1> USE DEF LogInv
<1>1. /\ UNCHANGED <<accepted, lost, process, sender, shutting, asking, queue, hand, buffer, unflushed>>
      /\ worker = "rotate" /\ Log!Mixed
  BY DEF Log!Rotate, Log!log
<1>2. LoadInv'
  BY <1>1, LoadMixes
<1>3. /\ files \in FileSets /\ turn \in 0 .. Backups /\ Backups \in Nat \ {0} /\ accepted \in Nat
      /\ buffer = <<>> /\ MaxBytes \in Nat
      /\ turn < Backups => files[turn] = None
      /\ turn > 0 => files[0] # None /\ files[0] # <<>>
      /\ None \notin Seq(Nat)
  BY <1>1 DEF LogTypes, FilesInv, Log!Parameters
<1>4. /\ WriterInv /\ Ledger(Filed(files), Ns(buffer), InHand(hand), Ns(queue), accepted, lost)
      /\ \A i \in 0 .. Backups : Rising(Lines(files)[i])
      /\ \A i \in 0 .. Backups : Len(Lines(files)[i]) <= MaxBytes
      /\ \A i \in 1 .. Backups : files[i] # <<>>
  BY DEF LedgerInv, FilesInv
<1>5. Rising(<<>>) /\ <<>> \in Seq(Nat) /\ Len(<<>>) = 0 /\ Has(<<>>) = {} /\ <<>> # None
  <2>1. Rising(<<>>)
    BY DEF Rising
  <2>2. Has(<<>>) = {}
    BY DEF Has
  <2>3. <<>> \in Seq(Nat) /\ Len(<<>>) = 0
    OBVIOUS
  <2> QED BY <1>3, <2>1, <2>2, <2>3
<1>6. DOMAIN Filed(files) = 0 .. Backups /\ 0 .. Backups \subseteq Nat /\ 0 \in 0 .. Backups
  BY <1>3, FilesAre
\* What is left to show of each case.
<1>7. ASSUME files' \in FileSets, turn' \in 0 .. Backups, worker' \in {"append", "rotate"},
             \A i \in 0 .. Backups : Lines(files')[i] = <<>> \/ \E j \in 0 .. Backups : Lines(files')[i] = Lines(files)[j],
             Ledger(Filed(files'), Ns(buffer), InHand(hand), Ns(queue), accepted, lost),
             \A i \in 1 .. Backups : files'[i] # <<>>,
             worker' = "append" => files'[0] # None,
             worker' = "rotate" => /\ turn' < Backups => files'[turn'] = None
                                   /\ turn' > 0 => files'[0] # None /\ files'[0] # <<>>
      PROVE  LogInv'
  <2>1. LogTypes'
    BY <1>1, <1>7 DEF LogTypes
  <2>2. LedgerInv'
    <3>1. \A i \in 0 .. Backups : Rising(Lines(files')[i])
      BY <1>4, <1>5, <1>7
    <3> QED BY <1>1, <1>7, <3>1 DEF LedgerInv
  <2>3. FilesInv'
    <3>1. \A i \in 0 .. Backups : Len(Lines(files')[i]) <= MaxBytes
      <4> SUFFICES ASSUME NEW i \in 0 .. Backups PROVE Len(Lines(files')[i]) <= MaxBytes
        OBVIOUS
      <4>1. CASE Lines(files')[i] = <<>>
        BY <1>3, <1>5, <4>1
      <4>2. CASE \E j \in 0 .. Backups : Lines(files')[i] = Lines(files)[j]
        BY <1>4, <4>2
      <4> QED BY <1>7, <4>1, <4>2
    <3>2. Len(Lines(files')[0]) + Len(buffer) <= MaxBytes
      <4>1. Lines(files')[0] \in Seq(Nat) /\ Len(buffer) = 0
        BY <1>3, <1>6, <1>7, FilesAre
      <4> QED BY <1>6, <3>1, <4>1
    <3> QED BY <1>1, <1>3, <1>7, <3>1, <3>2 DEF FilesInv
  <2>4. WriterInv'
    BY <1>1, <1>4, <1>7 DEF WriterInv
  <2> QED BY <1>2, <2>1, <2>2, <2>3, <2>4
<1>8. CASE turn = 0
  <2>1. /\ worker' = "append" /\ turn' = turn
        /\ files' \in FileSets /\ files'[0] = <<>> /\ \A i \in 1 .. Backups : files'[i] = files[i]
    BY <1>1, <1>3, <1>5, <1>8 DEF Log!Rotate, FileSets
  <2>2. files[0] = None
    BY <1>3, <1>8
  <2>3. ASSUME NEW i \in 0 .. Backups PROVE Lines(files')[i] = Lines(files)[i] /\ Filed(files')[i] = Filed(files)[i]
    <3>1. CASE i = 0
      <4>1. Lines(files')[0] = <<>> /\ Filed(files')[0] = {}
        BY <1>5, <1>6, <2>1, FileHolds
      <4>2. Lines(files)[0] = <<>> /\ Filed(files)[0] = {}
        BY <1>6, <2>2, FileHolds
      <4> QED BY <3>1, <4>1, <4>2
    <3>2. CASE i \in 1 .. Backups
      <4>1. files'[i] = files[i]
        BY <2>1, <3>2
      <4> QED BY <4>1, FileStays
    <3> QED BY <1>3, <3>1, <3>2
  <2>4. Filed(files') = Filed(files)
    BY <2>3 DEF Filed
  <2>5. \A i \in 0 .. Backups : Lines(files')[i] = Lines(files)[i]
    BY <2>3
  <2> QED BY <1>3, <1>4, <1>5, <1>7, <1>8, <2>1, <2>4, <2>5
<1>9. CASE turn > 0 /\ files[turn - 1] = None /\ turn' = turn - 1 /\ files' = files /\ worker' = worker
  BY <1>1, <1>3, <1>4, <1>7, <1>9
<1>10. CASE turn > 0 /\ files[turn] # None /\ files' = [files EXCEPT ![turn] = None] /\ turn' = turn /\ worker' = worker
  <2>1. turn = Backups
    BY <1>3, <1>10
  <2>2. files' \in FileSets /\ files'[turn] = None /\ \A i \in 0 .. Backups : i # turn => files'[i] = files[i]
    BY <1>3, <1>10 DEF FileSets
  <2>3. Lines(files')[turn] = <<>> /\ Filed(files')[turn] = {}
    BY <1>3, <2>2, FileHolds
  <2>4. ASSUME NEW i \in 0 .. Backups, i # turn PROVE Lines(files')[i] = Lines(files)[i] /\ Filed(files')[i] = Filed(files)[i]
    <3>1. files'[i] = files[i]
      BY <2>2, <2>4
    <3> QED BY <3>1, FileStays
  <2>5. Filed(files)[0] # {}
    <3>1. files[0] \in Seq(Nat) /\ files[0] # <<>> /\ files[0] # None
      BY <1>3, <1>6, <1>10 DEF FileSets
    <3>2. Filed(files)[0] = Has(files[0])
      BY <1>6, <3>1, FileHolds
    <3>3. files[0][1] \in Has(files[0])
      <4>1. 1 \in DOMAIN files[0]
        BY <3>1
      <4> QED BY <4>1 DEF Has
    <3> QED BY <3>2, <3>3
  <2>6. Ledger(Filed(files'), Ns(buffer), InHand(hand), Ns(queue), accepted, lost)
    <3>1. DOMAIN Filed(files') = 0 .. Backups
      BY <2>2, FilesAre
    <3>2. turn \in DOMAIN Filed(files) /\ 0 \in DOMAIN Filed(files) /\ DOMAIN Filed(files) \subseteq Nat /\ 0 # turn
          /\ \A i \in DOMAIN Filed(files) : i # turn => i < turn
      BY <1>3, <1>6, <1>10, <2>1
    <3>3. \A i \in DOMAIN Filed(files) : i # turn => Filed(files')[i] = Filed(files)[i]
      BY <1>6, <2>4
    <3>4. DOMAIN Filed(files') = DOMAIN Filed(files)
      BY <1>6, <3>1
    <3> QED BY <1>3, <1>4, <2>3, <2>5, <3>2, <3>3, <3>4, LedgerDrops
  <2>7. \A i \in 0 .. Backups : Lines(files')[i] = <<>> \/ \E j \in 0 .. Backups : Lines(files')[i] = Lines(files)[j]
    BY <2>3, <2>4
  <2>8. /\ turn' < Backups => files'[turn'] = None
        /\ turn' > 0 => files'[0] # None /\ files'[0] # <<>>
    BY <1>3, <1>6, <1>10, <2>1, <2>2
  <2>9. \A i \in 1 .. Backups : files'[i] # <<>>
    BY <1>3, <1>4, <1>5, <2>2
  <2> QED BY <1>1, <1>3, <1>7, <1>10, <2>2, <2>6, <2>7, <2>8, <2>9
<1>11. CASE /\ turn > 0 /\ files[turn - 1] # None /\ files[turn] = None
            /\ files' = [files EXCEPT ![turn] = files[turn - 1], ![turn - 1] = None]
            /\ turn' = turn - 1 /\ worker' = worker
  <2>1. PICK t \in 0 .. Backups : t = turn - 1 /\ t + 1 = turn /\ t + 1 \in 0 .. Backups
    BY <1>3, <1>11
  <2>2. /\ files' \in FileSets /\ files'[t] = None /\ files'[t + 1] = files[t]
        /\ \A i \in 0 .. Backups : i # t /\ i # t + 1 => files'[i] = files[i]
    <3>1. files' = [files EXCEPT ![t + 1] = files[t], ![t] = None]
      BY <1>11, <2>1
    <3> QED BY <1>3, <2>1, <3>1 DEF FileSets
  <2>3. Lines(files')[t] = <<>> /\ Filed(files')[t] = {}
    BY <2>1, <2>2, FileHolds
  <2>4. Lines(files')[t + 1] = Lines(files)[t] /\ Filed(files')[t + 1] = Filed(files)[t] /\ Filed(files)[t + 1] = {}
    <3>1. files[t] # None /\ files[t + 1] = None
      BY <1>11, <2>1
    <3>2. Lines(files)[t] = files[t] /\ Filed(files)[t] = Has(files[t])
      BY <2>1, <3>1, FileHolds
    <3>3. Lines(files')[t + 1] = files'[t + 1] /\ Filed(files')[t + 1] = Has(files'[t + 1])
      BY <2>1, <2>2, <3>1, FileHolds
    <3>4. Filed(files)[t + 1] = {}
      BY <2>1, <3>1, FileHolds
    <3> QED BY <2>2, <3>2, <3>3, <3>4
  <2>5. ASSUME NEW i \in 0 .. Backups, i # t, i # t + 1
        PROVE Lines(files')[i] = Lines(files)[i] /\ Filed(files')[i] = Filed(files)[i]
    <3>1. files'[i] = files[i]
      BY <2>2, <2>5
    <3> QED BY <3>1, FileStays
  <2>6. Ledger(Filed(files'), Ns(buffer), InHand(hand), Ns(queue), accepted, lost)
    <3>1. DOMAIN Filed(files') = DOMAIN Filed(files)
      BY <1>6, <2>2, FilesAre
    <3>2. t \in Nat /\ t + 1 \in DOMAIN Filed(files) /\ t \in DOMAIN Filed(files) /\ DOMAIN Filed(files) \subseteq Nat
      BY <1>6, <2>1
    <3>3. \A i \in DOMAIN Filed(files) : i # t /\ i # t + 1 => Filed(files')[i] = Filed(files)[i]
      BY <1>6, <2>5
    <3> QED BY <1>3, <1>4, <2>3, <2>4, <3>1, <3>2, <3>3, LedgerMoves
  <2>7. \A i \in 0 .. Backups : Lines(files')[i] = <<>> \/ \E j \in 0 .. Backups : Lines(files')[i] = Lines(files)[j]
    BY <2>1, <2>3, <2>4, <2>5
  <2>8. /\ turn' = t /\ files'[turn'] = None
        /\ turn' > 0 => files'[0] # None /\ files'[0] # <<>>
    <3>1. turn' = t
      BY <1>11, <2>1
    <3>2. t > 0 => files'[0] = files[0]
      BY <1>6, <2>1, <2>2
    <3>3. files[0] # None /\ files[0] # <<>>
      BY <1>3, <1>11
    <3> QED BY <2>2, <3>1, <3>2, <3>3
  <2>9. ASSUME NEW i \in 1 .. Backups PROVE files'[i] # <<>>
    <3>1. CASE i = t
      BY <1>5, <2>2, <3>1
    <3>2. CASE i = t + 1
      <4>1. t = 0 \/ t \in 1 .. Backups
        BY <2>1
      <4>2. files[t] # <<>>
        BY <1>3, <1>4, <1>11, <4>1
      <4> QED BY <2>2, <3>2, <4>2
    <3>3. CASE i # t /\ i # t + 1
      BY <1>4, <2>2, <3>3
    <3> QED BY <3>1, <3>2, <3>3
  <2>10. turn' \in 0 .. Backups /\ worker' = "rotate"
    BY <1>1, <1>11, <2>1, <2>8
  <2> QED BY <1>7, <2>2, <2>6, <2>7, <2>8, <2>9, <2>10
<1> QED BY <1>3, <1>8, <1>9, <1>10, <1>11 DEF Log!Rotate

\* The numbers of records one behind the other.
LEMMA NumbersJoined ==
  ASSUME NEW rs \in Seq(Records), NEW ts \in Seq(Records)
  PROVE  /\ rs \o ts \in Seq(Records) /\ Ns(rs \o ts) = Ns(rs) \cup Ns(ts)
         /\ {r.n : r \in Log!ToSet(rs)} = Ns(rs)
         /\ Log!Number(rs \o ts) = Log!Number(rs) \o Log!Number(ts)
<1> DEFINE u == rs \o ts  m == Len(rs)  n == Len(ts)
<1>1. /\ m \in Nat /\ n \in Nat /\ u \in Seq(Records) /\ Len(u) = m + n
      /\ DOMAIN rs = 1 .. m /\ DOMAIN ts = 1 .. n /\ DOMAIN u = 1 .. m + n
      /\ \A i \in 1 .. m + n : u[i] = IF i <= m THEN rs[i] ELSE ts[i - m]
  OBVIOUS
<1>2. PICK v : v = u
  OBVIOUS
<1>3. Log!Number(u) = Log!Number(rs) \o Log!Number(ts)
  <2> DEFINE a == Log!Number(rs)  b == Log!Number(ts)
  <2>1. a \in Seq(Nat) /\ b \in Seq(Nat) /\ Len(a) = m /\ Len(b) = n /\ Log!Number(u) \in Seq(Nat) /\ Len(Log!Number(u)) = m + n
    BY <1>1, NumberOf
  <2>2. /\ \A i \in 1 .. m : a[i] = rs[i].n
        /\ \A i \in 1 .. n : b[i] = ts[i].n
        /\ \A i \in 1 .. m + n : Log!Number(u)[i] = u[i].n
    BY <1>1 DEF Log!Number
  <2> HIDE DEF a, b, m, n, u
  <2>3. a \o b \in Seq(Nat) /\ Len(a \o b) = m + n
        /\ \A i \in 1 .. m + n : (a \o b)[i] = IF i <= m THEN a[i] ELSE b[i - m]
    BY <2>1, ConcatProperties
  <2>4. ASSUME NEW i \in 1 .. m + n PROVE Log!Number(u)[i] = (a \o b)[i]
    <3>1. CASE i <= m
      <4>1. i \in 1 .. m
        BY <1>1, <3>1
      <4> QED BY <1>1, <2>2, <2>3, <3>1, <4>1
    <3>2. CASE ~ (i <= m)
      <4>1. i - m \in 1 .. n
        BY <1>1, <3>2
      <4> QED BY <1>1, <2>2, <2>3, <3>2, <4>1
    <3> QED BY <3>1, <3>2
  <2>5. Log!Number(u) = a \o b
    <3> DEFINE x == Log!Number(u)  y == a \o b
    <3>1. x \in Seq(Nat) /\ y \in Seq(Nat) /\ Len(x) = Len(y) /\ \A i \in 1 .. Len(x) : x[i] = y[i]
      BY <2>1, <2>3, <2>4
    <3> HIDE DEF x, y
    <3>2. x = y
      BY <3>1, SeqEqual
    <3> QED BY <3>2 DEF x, y
  <2> QED BY <2>5 DEF a, b
<1>4. Ns(u) = Ns(rs) \cup Ns(ts)
  <2> DEFINE a == Log!Number(rs)  b == Log!Number(ts)
  <2>1. a \in Seq(Nat) /\ b \in Seq(Nat) /\ Has(a) = Ns(rs) /\ Has(b) = Ns(ts) /\ Has(Log!Number(u)) = Ns(u)
    BY <1>1, NumberOf
  <2>2. Log!Number(u) = a \o b
    BY <1>3
  <2> HIDE DEF a, b, u
  <2>3. Has(a \o b) = Has(a) \cup Has(b)
    BY <2>1, HasConcat
  <2> QED BY <2>1, <2>2, <2>3
<1>5. {r.n : r \in Log!ToSet(rs)} = Ns(rs)
  BY DEF Log!ToSet, Ns
<1> QED BY <1>1, <1>3, <1>4, <1>5

\* What the writer holds, in its hand and in the queue.
LEMMA HeldNumbers ==
  ASSUME Log!Parameters, LogTypes, LedgerInv
  PROVE  /\ Log!Held \in Seq(Records) /\ Ns(Log!Held) = InHand(hand) \cup Ns(queue) /\ RisingBy(Log!Held)
<1>1. hand \in Records \cup {None} /\ queue \in Seq(Records) /\ RisingBy(queue)
  BY DEF LogTypes, LedgerInv
<1>2. CASE hand = None
  <2>1. Log!Held = queue
    BY <1>1, <1>2 DEF Log!Held
  <2>2. InHand(hand) = {}
    BY <1>2 DEF InHand
  <2> QED BY <1>1, <2>1, <2>2
<1>3. CASE hand # None
  <2>1. Log!Held = <<hand>> \o queue /\ <<hand>> \in Seq(Records) /\ InHand(hand) = {hand.n}
    BY <1>1, <1>3 DEF Log!Held, InHand
  <2>2. PICK h \in Seq(Records) : h = <<hand>> /\ Len(h) = 1 /\ h[1] = hand /\ DOMAIN h = {1}
    <3>1. Len(<<hand>>) = 1 /\ <<hand>>[1] = hand
      OBVIOUS
    <3>2. DOMAIN <<hand>> = {1}
      OBVIOUS
    <3> QED BY <2>1, <3>1, <3>2, Zenon
  <2>3. Ns(h) = {hand.n} /\ RisingBy(h)
    BY <2>2 DEF Ns, RisingBy
  <2>4. Log!Held \in Seq(Records) /\ Ns(Log!Held) = InHand(hand) \cup Ns(queue)
        /\ Log!Number(Log!Held) = Log!Number(h) \o Log!Number(queue)
    BY <1>1, <2>1, <2>2, <2>3, NumbersJoined
  <2>5. Under(Ns(h), Ns(queue))
    BY <2>1, <2>3 DEF LedgerInv, Ledger
  <2>6. Rising(Log!Number(Log!Held))
    <3> DEFINE a == Log!Number(h)  b == Log!Number(queue)
    <3>1. a \in Seq(Nat) /\ b \in Seq(Nat) /\ Rising(a) /\ Rising(b) /\ Under(Has(a), Has(b))
      BY <1>1, <2>3, <2>5, NumberOf
    <3>2. Log!Number(Log!Held) = a \o b
      BY <2>4
    <3> HIDE DEF a, b
    <3> QED BY <3>1, <3>2, HasConcat
  <2>7. RisingBy(Log!Held)
    BY <2>4, <2>6, NumberOf
  <2> QED BY <2>4, <2>7
<1> QED BY <1>2, <1>3

\* The writer stops with an error, and the process ends at any point.
LEMMA LogFails ==
  ASSUME Log!Parameters, LogInv, Log!WriterFails
  PROVE  LogInv'
<1> USE DEF LogInv
<1>1. /\ UNCHANGED <<accepted, process, sender, shutting, asking, unflushed, turn, page>>
      /\ worker' = "finished" /\ hand' = None /\ buffer' = <<>> /\ queue' = <<>>
      /\ worker # "wait" /\ worker # "finished"
  BY DEF Log!WriterFails, Log!Fails
<1>2. /\ buffer \in Seq(Records) /\ accepted \in Nat /\ files \in FileSets /\ 0 \in 0 .. Backups
      /\ RisingBy(buffer) /\ Backups \in Nat
  BY DEF LogTypes, LedgerInv, Log!Parameters
<1>3. PICK n \in IF files[0] = None THEN {0} ELSE 0 .. Len(buffer) :
        /\ files' = IF n = 0 THEN files
                    ELSE [files EXCEPT ![0] = @ \o Log!Number(SubSeq(buffer, 1, n))]
        /\ lost' = lost \cup {r.n : r \in Log!ToSet(SubSeq(buffer, n + 1, Len(buffer)) \o Log!Held)}
  BY DEF Log!WriterFails, Log!Fails
<1>4. n \in 0 .. Len(buffer)
  BY <1>2, <1>3
<1>5. PICK b : b = Rest(buffer, n)
  OBVIOUS
<1>6. PICK a : a = First(buffer, n)
  OBVIOUS
<1>7. a \in Seq(Records) /\ b \in Seq(Records) /\ Ns(buffer) = Ns(a) \cup Ns(b) /\ Len(a) = n
  BY <1>2, <1>4, <1>5, <1>6, Split DEF First, Rest
<1>8. lost' = lost \cup Ns(b) \cup InHand(hand) \cup Ns(queue)
  <2>1. Log!Held \in Seq(Records) /\ Ns(Log!Held) = InHand(hand) \cup Ns(queue)
    BY HeldNumbers
  <2>2. lost' = lost \cup {r.n : r \in Log!ToSet(b \o Log!Held)}
    BY <1>3, <1>5 DEF Rest
  <2>3. b \o Log!Held \in Seq(Records) /\ Ns(b \o Log!Held) = Ns(b) \cup InHand(hand) \cup Ns(queue)
    BY <1>7, <2>1, NumbersJoined
  <2>4. \A rs \in Seq(Records) : {r.n : r \in Log!ToSet(rs)} = Ns(rs)
    BY NumbersJoined
  <2>5. {r.n : r \in Log!ToSet(b \o Log!Held)} = Ns(b \o Log!Held)
    BY <2>3, <2>4
  <2> QED BY <2>2, <2>3, <2>5
<1>9. Ns(<<>>) = {} /\ RisingBy(<<>>) /\ InHand(None) = {}
  BY DEF Ns, RisingBy, InHand
\* What is left to show is about the files.
<1>10. ASSUME files' \in FileSets, \A i \in 0 .. Backups : Rising(Lines(files')[i]),
              Ledger(Filed(files'), Ns(b), InHand(hand), Ns(queue), accepted, lost),
              \A i \in 0 .. Backups : Len(Lines(files')[i]) <= MaxBytes, \A i \in 1 .. Backups : files'[i] # <<>>,
              LoadInv'
       PROVE  LogInv'
  <2>1. LogTypes'
    BY <1>1, <1>10 DEF LogTypes
  <2>2. LedgerInv'
    <3>1. Ledger(Filed(files'), {}, {}, {}, accepted, lost \cup Ns(b) \cup InHand(hand) \cup Ns(queue))
      BY <1>2, <1>10, LedgerLoses
    <3> QED BY <1>1, <1>8, <1>9, <1>10, <3>1 DEF LedgerInv
  <2>3. FilesInv'
    <3>1. Lines(files')[0] \in Seq(Nat) /\ Len(buffer') = 0
      BY <1>1, <1>2, <1>10, FilesAre
    <3>2. Len(Lines(files')[0]) + Len(buffer') <= MaxBytes
      BY <1>2, <1>10, <3>1
    <3> QED BY <1>1, <1>10, <3>2 DEF FilesInv
  <2>4. WriterInv'
    BY <1>1 DEF WriterInv
  <2> QED BY <1>10, <2>1, <2>2, <2>3, <2>4
<1>11. CASE n = 0
  <2>1. files' = files
    BY <1>3, <1>11
  <2>2. Ns(b) = Ns(buffer)
    <3>1. Ns(a) = {}
      BY <1>7, <1>11 DEF Ns
    <3> QED BY <1>7, <3>1
  <2>3. LoadInv'
    BY <1>1, <2>1, LoadFrame
  <2>4. Ledger(Filed(files), Ns(b), InHand(hand), Ns(queue), accepted, lost)
        /\ \A i \in 0 .. Backups : Rising(Lines(files)[i])
    BY <2>2 DEF LedgerInv
  <2>5. (\A i \in 0 .. Backups : Len(Lines(files)[i]) <= MaxBytes) /\ \A i \in 1 .. Backups : files[i] # <<>>
    BY DEF FilesInv
  <2> QED BY <1>2, <1>10, <2>1, <2>3, <2>4, <2>5
<1>12. CASE n # 0
  <2>1. files[0] # None
    BY <1>3, <1>12
  <2>2. files' = Taking(files, a)
    BY <1>3, <1>6, <1>12 DEF Taking, First
  <2>3. PICK gs : gs = files' /\ gs = Taking(files, a)
    BY <2>2
  <2>4. /\ gs \in FileSets /\ gs[0] # None /\ \A i \in 1 .. Backups : gs[i] = files[i]
        /\ Ledger(Filed(gs), Ns(b), InHand(hand), Ns(queue), accepted, lost)
        /\ \A i \in 0 .. Backups : Rising(Lines(gs)[i])
        /\ Len(Lines(gs)[0]) = Len(Lines(files)[0]) + n
        /\ \A i \in 1 .. Backups : Lines(gs)[i] = Lines(files)[i] /\ Filed(gs)[i] = Filed(files)[i]
        /\ Filed(gs)[0] = Filed(files)[0] \cup Ns(a)
        /\ \A i \in 0 .. Backups : Under(Filed(files)[i], Ns(a))
    <3>1. LogTypes /\ LedgerInv /\ FilesInv
      OBVIOUS
    <3> QED BY <1>4, <1>5, <1>6, <2>1, <2>3, <3>1, FileGrows
  <2>5. \A i \in 0 .. Backups : Len(Lines(gs)[i]) <= MaxBytes
    <3>1. Len(Lines(gs)[0]) <= MaxBytes
      <4>1. Lines(files)[0] \in Seq(Nat) /\ MaxBytes \in Nat
        BY <1>2, FilesAre DEF Log!Parameters
      <4>2. Len(Lines(files)[0]) + Len(buffer) <= MaxBytes
        BY DEF FilesInv
      <4>3. Len(Lines(files)[0]) \in Nat /\ Len(buffer) \in Nat /\ n \in Nat /\ n <= Len(buffer)
        BY <1>2, <1>4, <4>1
      <4> QED BY <2>4, <4>1, <4>2, <4>3
    <3>2. ASSUME NEW i \in 1 .. Backups PROVE Len(Lines(gs)[i]) <= MaxBytes
      BY <2>4 DEF FilesInv
    <3>3. \A i \in 0 .. Backups : i = 0 \/ i \in 1 .. Backups
      BY <1>2
    <3> QED BY <3>1, <3>2, <3>3
  <2>6. \A i \in 1 .. Backups : gs[i] # <<>>
    BY <2>4 DEF FilesInv
  <2>7. LoadInv'
    <3>1. DOMAIN Filed(files) = 0 .. Backups
      BY <1>2, FilesAre
    <3>2. \A i \in 0 .. Backups : Filed(files)[i] \subseteq 1 .. accepted
      BY <3>1 DEF LedgerInv, Ledger
    <3>3. Ns(buffer) \subseteq 1 .. accepted
      BY DEF LedgerInv, Ledger
    <3>4. (\A i \in 0 .. Backups : Filed(files)[i] \subseteq Nat) /\ Ns(a) \subseteq Nat
      BY <1>2, <1>7, <3>2, <3>3
    <3>5. /\ files' \in FileSets /\ \A i \in 1 .. Backups : Filed(files')[i] = Filed(files)[i]
          /\ Filed(files')[0] = Filed(files)[0] \cup Ns(a)
      BY <2>3, <2>4
    <3> QED BY <1>1, <1>2, <2>4, <3>4, <3>5, LoadGrows
  <2> QED BY <1>10, <2>3, <2>4, <2>5, <2>6, <2>7
<1> QED BY <1>11, <1>12

LEMMA LogRestarts ==
  ASSUME Log!Parameters, LogInv, Log!Restart
  PROVE  LogInv'
<1> USE DEF LogInv
<1>1. /\ accepted' = accepted /\ sender' = TRUE /\ shutting' = "no" /\ asking' = {} /\ queue' = <<>>
      /\ worker' = "wait" /\ hand' = None /\ buffer' = <<>> /\ unflushed' = 0 /\ turn' = 0
      /\ page' = [visible |-> FALSE, at |-> None, rows |-> <<>>, mixed |-> FALSE]
  BY DEF Log!Restart, Log!Closed
<1>2. /\ buffer \in Seq(Records) /\ accepted \in Nat /\ files \in FileSets /\ 0 \in 0 .. Backups
      /\ Backups \in Nat \ {0} /\ BatchSize \in Nat \ {0} /\ MaxBytes \in Nat /\ None \notin Seq(Nat) /\ None \notin Nat
  BY DEF LogTypes, Log!Parameters
<1>3. lost' = lost \cup Ns(buffer) \cup InHand(hand) \cup Ns(queue)
  <2>1. Log!Held \in Seq(Records) /\ Ns(Log!Held) = InHand(hand) \cup Ns(queue)
    BY HeldNumbers
  <2>2. buffer \o Log!Held \in Seq(Records) /\ Ns(buffer \o Log!Held) = Ns(buffer) \cup InHand(hand) \cup Ns(queue)
    BY <1>2, <2>1, NumbersJoined
  <2>3. {r.n : r \in Log!ToSet(buffer \o Log!Held)} = Ns(buffer \o Log!Held)
    <3>1. \A rs \in Seq(Records) : {r.n : r \in Log!ToSet(rs)} = Ns(rs)
      BY NumbersJoined
    <3> QED BY <2>2, <3>1
  <2>4. lost' = lost \cup {r.n : r \in Log!ToSet(buffer \o Log!Held)}
    BY DEF Log!Restart
  <2> QED BY <2>2, <2>3, <2>4
<1>4. /\ files' \in FileSets /\ files'[0] = Lines(files)[0] /\ files'[0] # None
      /\ \A i \in 1 .. Backups : files'[i] = files[i]
  <2>1. Log!Contents(0) = Lines(files)[0] /\ Lines(files)[0] \in Seq(Nat)
    BY <1>2, FilesAre DEF Log!Contents
  <2>2. PICK s \in Seq(Nat) : s = Lines(files)[0]
    BY <2>1
  <2>3. files' = [files EXCEPT ![0] = s]
    BY <2>1, <2>2 DEF Log!Restart
  <2>4. files' \in FileSets /\ files'[0] = s /\ \A i \in 1 .. Backups : files'[i] = files[i]
    BY <1>2, <2>3 DEF FileSets
  <2> QED BY <1>2, <2>2, <2>4
<1>5. ASSUME NEW i \in 0 .. Backups PROVE Lines(files')[i] = Lines(files)[i] /\ Filed(files')[i] = Filed(files)[i]
  <2>1. CASE i = 0
    <3>1. Lines(files')[0] = Lines(files)[0]
      BY <1>2, <1>4, FileHolds
    <3>2. Filed(files')[0] = Has(Lines(files')[0]) /\ Filed(files)[0] = Has(Lines(files)[0])
      BY <1>2, <1>4, FilesAre
    <3> QED BY <2>1, <3>1, <3>2
  <2>2. CASE i \in 1 .. Backups
    <3>1. files'[i] = files[i]
      BY <1>4, <2>2
    <3> QED BY <3>1, FileStays
  <2> QED BY <1>2, <2>1, <2>2
<1>6. Filed(files') = Filed(files)
  BY <1>5 DEF Filed
<1>7. Ns(<<>>) = {} /\ RisingBy(<<>>) /\ InHand(None) = {}
  BY DEF Ns, RisingBy, InHand
<1>8. LogTypes'
  BY <1>1, <1>2, <1>4 DEF LogTypes
<1>9. LedgerInv'
  <2>1. Ledger(Filed(files), {}, {}, {}, accepted, lost \cup Ns(buffer) \cup InHand(hand) \cup Ns(queue))
    BY <1>2, LedgerLoses DEF LedgerInv
  <2>2. \A i \in 0 .. Backups : Rising(Lines(files')[i])
    BY <1>5 DEF LedgerInv
  <2> QED BY <1>1, <1>3, <1>6, <1>7, <2>1, <2>2 DEF LedgerInv
<1>10. FilesInv'
  <2>1. \A i \in 0 .. Backups : Len(Lines(files')[i]) <= MaxBytes
    BY <1>5 DEF FilesInv
  <2>2. Len(Lines(files')[0]) \in Nat /\ Len(buffer') = 0
    BY <1>1, <1>2, <1>4, FilesAre
  <2>3. Len(Lines(files')[0]) + Len(buffer') <= MaxBytes
    BY <1>2, <2>1, <2>2
  <2>4. \A i \in 1 .. Backups : files'[i] # <<>>
    BY <1>4 DEF FilesInv
  <2> QED BY <1>1, <1>4, <2>1, <2>3, <2>4 DEF FilesInv
<1>11. WriterInv'
  <2>1. Len(buffer') = 0 /\ DOMAIN buffer' = {}
    BY <1>1
  <2> QED BY <1>1, <1>2, <2>1 DEF WriterInv
<1>12. LoadInv'
  BY <1>1 DEF LoadInv
<1> QED BY <1>8, <1>9, <1>10, <1>11, <1>12

\* The page starts a load, drops it, shows what it read.
LEMMA LogShows ==
  ASSUME Log!Parameters, LogInv, Log!QueueLoad \/ Log!Hide \/ Log!Apply \/ Log!ReadFile
  PROVE  LogInv'
<1> USE DEF LogInv
<1>1. UNCHANGED <<accepted, lost, process, sender, shutting, asking, queue,
                  worker, hand, buffer, unflushed, turn, files>>
  BY DEF Log!QueueLoad, Log!Hide, Log!Apply, Log!ReadFile, Log!log, Log!writer
<1>2. LogTypes' /\ LedgerInv' /\ FilesInv' /\ WriterInv'
  <2>1. LedgerInv'
    BY <1>1, LedgerFrame
  <2>2. LogTypes' /\ FilesInv' /\ WriterInv'
    BY <1>1 DEF LogTypes, FilesInv, WriterInv
  <2> QED BY <2>1, <2>2
<1>3. /\ page = [visible |-> page.visible, at |-> page.at, rows |-> page.rows, mixed |-> page.mixed]
      /\ Backups \in Nat \ {0} /\ files \in FileSets /\ None \notin Nat
  BY DEF LoadInv, Log!Parameters, LogTypes
<1>4. CASE Log!Hide \/ Log!Apply
  <2>1. page'.at = None /\ page' = [visible |-> page'.visible, at |-> page'.at, rows |-> page'.rows, mixed |-> page'.mixed]
    BY <1>3, <1>4 DEF Log!Hide, Log!Apply
  <2> QED BY <1>2, <2>1 DEF LoadInv
<1>5. CASE Log!QueueLoad
  <2>1. /\ page' = [visible |-> page'.visible, at |-> page'.at, rows |-> page'.rows, mixed |-> page'.mixed]
        /\ page'.at = 1 /\ page'.rows = <<>>
    BY <1>3, <1>5 DEF Log!QueueLoad
  <2>2. Rising(<<>>) /\ Has(<<>>) = {} /\ <<>> \in Seq(Nat)
    BY DEF Rising, Has
  <2>3. /\ \A i \in 1 .. Backups : ~ (i + 1 > Backups + 1)
        /\ 1 \in 1 .. Backups + 2 /\ 1 # Backups + 2
    BY <1>3
  <2> QED BY <1>2, <2>1, <2>2, <2>3 DEF LoadInv
<1>6. CASE Log!ReadFile
  <2>1. page.at \in DOMAIN Log!LogFilePaths
        /\ page' = [page EXCEPT !.at = @ + 1, !.rows = @ \o Log!Contents(Log!LogFilePaths[page.at])]
    BY <1>6 DEF Log!ReadFile
  <2>2. page.at \in 1 .. Backups + 1 /\ page.at # None
    BY <1>3, <2>1 DEF Log!LogFilePaths
  <2>3. PICK k \in 0 .. Backups : k = Backups + 1 - page.at
    BY <1>3, <2>2
  <2>4. Log!Contents(Log!LogFilePaths[page.at]) = Lines(files)[k] /\ Lines(files)[k] \in Seq(Nat)
        /\ Filed(files)[k] = Has(Lines(files)[k])
    <3>1. Log!LogFilePaths[page.at] = k
      BY <2>2, <2>3 DEF Log!LogFilePaths
    <3>2. Log!Contents(k) = Lines(files)[k]
      BY <1>3, <2>3, FilesAre DEF Log!Contents
    <3> QED BY <1>3, <2>3, <3>1, <3>2, FilesAre
  <2>5. PICK s : s = Lines(files)[k]
    OBVIOUS
  <2>6. /\ page' = [visible |-> page'.visible, at |-> page'.at, rows |-> page'.rows, mixed |-> page'.mixed]
        /\ page'.at = page.at + 1 /\ page'.rows = page.rows \o s /\ page'.mixed = page.mixed
    <3>1. page' = [page EXCEPT !.at = page.at + 1, !.rows = page.rows \o s]
      BY <2>1, <2>4, <2>5
    <3> QED BY <1>3, <3>1
  <2>7. page.rows \in Seq(Nat) /\ s \in Seq(Nat) /\ Filed(files)[k] = Has(s)
    BY <2>2, <2>4, <2>5 DEF LoadInv
  <2>8. /\ page'.rows \in Seq(Nat) /\ Has(page'.rows) = Has(page.rows) \cup Has(s)
        /\ Rising(page.rows) /\ Rising(s) /\ Under(Has(page.rows), Has(s)) => Rising(page'.rows)
    BY <2>6, <2>7, HasConcat
  <2>9. page'.at \in 1 .. Backups + 2
    BY <1>3, <2>2, <2>6
  <2>10. ASSUME ~ page.mixed
         PROVE  /\ Rising(page'.rows)
                /\ \A i \in 1 .. Backups : i + page'.at > Backups + 1 => Filed(files)[i] \subseteq Has(page'.rows)
                /\ \A r \in Has(page'.rows) : \E i \in 0 .. Backups : i + page'.at > Backups + 1 /\ r \in Filed(files)[i]
                /\ page'.at = Backups + 2 =>
                     \A m \in Filed(files)[0], r \in Has(page'.rows) : m < r => m \in Has(page'.rows)
    <3>1. /\ Rising(page.rows)
          /\ \A i \in 1 .. Backups : i + page.at > Backups + 1 => Filed(files)[i] \subseteq Has(page.rows)
          /\ \A r \in Has(page.rows) : \E i \in 0 .. Backups : i + page.at > Backups + 1 /\ r \in Filed(files)[i]
      BY <2>2, <2>10 DEF LoadInv
    <3>2. \A i \in 0 .. Backups : (i + page'.at > Backups + 1) <=> (i + page.at > Backups + 1 \/ i = k)
      BY <1>3, <2>2, <2>3, <2>6
    <3>3. \A i \in 0 .. Backups : i + page.at > Backups + 1 => k < i
      BY <1>3, <2>2, <2>3
    <3>4. Under(Has(page.rows), Has(s))
      <4>1. \A i \in 0 .. Backups : k < i => Under(Filed(files)[i], Filed(files)[k])
        <5>1. DOMAIN Filed(files) = 0 .. Backups
          BY <1>3, FilesAre
        <5> QED BY <2>3, <5>1 DEF LedgerInv, Ledger
      <4> SUFFICES ASSUME NEW x \in Has(page.rows), NEW y \in Has(s) PROVE x < y
        BY DEF Under
      <4>2. PICK i \in 0 .. Backups : i + page.at > Backups + 1 /\ x \in Filed(files)[i]
        BY <3>1
      <4> QED BY <2>7, <3>3, <4>1, <4>2 DEF Under
    <3>5. Rising(s)
      BY <2>5, <2>3 DEF LedgerInv
    <3>6. \A i \in 1 .. Backups : i \in 0 .. Backups
      OBVIOUS
    <3>7. \A i \in 1 .. Backups : i + page'.at > Backups + 1 => Filed(files)[i] \subseteq Has(page'.rows)
      BY <2>7, <2>8, <3>1, <3>2, <3>6
    <3>8. ASSUME NEW r \in Has(page'.rows)
          PROVE  \E i \in 0 .. Backups : i + page'.at > Backups + 1 /\ r \in Filed(files)[i]
      <4>1. CASE r \in Has(page.rows)
        BY <3>1, <3>2, <4>1
      <4>2. CASE r \in Has(s)
        BY <2>3, <2>7, <3>2, <4>2
      <4> QED BY <2>8, <4>1, <4>2
    <3>9. page'.at = Backups + 2 => k = 0
      BY <1>3, <2>2, <2>3, <2>6
    <3> QED BY <2>7, <2>8, <3>1, <3>4, <3>5, <3>7, <3>8, <3>9
  <2> QED BY <1>1, <1>2, <2>6, <2>8, <2>9, <2>10 DEF LoadInv
<1> QED BY <1>4, <1>5, <1>6

\* Blocks of numbers, one behind the other.
LEMMA BlocksApart ==
  ASSUME NEW M \in Nat, NEW a \in Nat, NEW b \in Nat, a < b
  PROVE  a * M \in Nat /\ b * M \in Nat /\ a * M + M <= b * M
<1>1. PICK c \in Nat : b = a + 1 + c
  <2>1. b - a - 1 \in Nat /\ b = a + 1 + (b - a - 1)
    OBVIOUS
  <2> QED BY <2>1
<1>2. (a + 1 + c) * M = a * M + M + c * M
  OBVIOUS
<1>3. a * M \in Nat /\ c * M \in Nat
  OBVIOUS
<1> QED BY <1>1, <1>2, <1>3

LEMMA BlocksCover ==
  ASSUME NEW M \in Nat \ {0}, NEW E \in Nat, NEW m \in 1 .. E * M
  PROVE  \E row \in 0 .. E - 1, k \in 1 .. M : m = row * M + k
<1> DEFINE d == m - 1  row == d \div M
<1>1. E * M \in Nat /\ d \in Nat /\ d < E * M
  OBVIOUS
<1> HIDE DEF d
<1>2. row \in Nat /\ d - row * M \in 0 .. M - 1
  BY <1>1
<1> HIDE DEF row
<1>3. row < E
  <2> SUFFICES ASSUME E <= row PROVE FALSE
    BY <1>2
  <2>1. E = row \/ E < row
    BY <1>2
  <2>2. E * M <= row * M
    <3>1. CASE E = row
      BY <1>1, <3>1
    <3>2. CASE E < row
      BY <1>1, <1>2, <3>2, BlocksApart
    <3> QED BY <2>1, <3>1, <3>2
  <2>3. row * M \in Nat
    BY <1>2
  <2> QED BY <1>1, <1>2, <2>2, <2>3
<1>4. PICK k : k = d - row * M + 1
  OBVIOUS
<1>5. row * M \in Nat
  BY <1>2
<1>6. k \in 1 .. M /\ d + 1 = row * M + k
  <2> DEFINE x == row * M
  <2>1. x \in Nat /\ d \in Nat /\ d - x \in 0 .. M - 1 /\ k = d - x + 1
    BY <1>1, <1>2, <1>4, <1>5
  <2> HIDE DEF x
  <2>2. k \in 1 .. M /\ d + 1 = x + k
    BY <2>1
  <2> QED BY <2>2 DEF x
<1>7. m = d + 1
  BY DEF d
<1>8. row \in 0 .. E - 1
  BY <1>2, <1>3
<1>9. m = row * M + k
  BY <1>6, <1>7, Zenon
<1> QED BY <1>6, <1>8, <1>9, Zenon

\* What an earlier process has left.
LEMMA LogInit ==
  ASSUME Log!Parameters, Log!Init
  PROVE  LogInv
<1>1. /\ MaxBytes \in Nat \ {0} /\ Backups \in Nat \ {0} /\ BatchSize \in Nat \ {0} /\ Earlier \in 1 .. Backups + 1
      /\ None \notin Seq(Nat)
  BY DEF Log!Parameters
<1>2. /\ lost = {} /\ sender = TRUE /\ shutting = "no" /\ asking = {} /\ queue = <<>>
      /\ worker = "wait" /\ hand = None /\ buffer = <<>> /\ unflushed = 0 /\ turn = 0
      /\ page = [visible |-> FALSE, at |-> None, rows |-> <<>>, mixed |-> FALSE]
  BY DEF Log!Init, Log!Closed
<1>3. PICK p : /\ p = [i \in 0 .. Earlier - 1 |-> (Earlier - 1 - i) * MaxBytes]
  OBVIOUS
<1>4. accepted \in Nat /\ accepted = Earlier * MaxBytes
  BY <1>1 DEF Log!Init
<1>5. ASSUME NEW i \in 0 .. Earlier - 1 PROVE p[i] \in Nat /\ p[i] + MaxBytes <= accepted
  <2>1. p[i] = (Earlier - 1 - i) * MaxBytes /\ Earlier - 1 - i \in Nat /\ Earlier \in Nat /\ Earlier - 1 - i < Earlier
    BY <1>1, <1>3
  <2>2. PICK a \in Nat : a = Earlier - 1 - i
    BY <2>1
  <2> QED BY <1>1, <1>4, <2>1, <2>2, BlocksApart
<1>6. ASSUME NEW i \in 0 .. Earlier - 1, NEW j \in 0 .. Earlier - 1, i < j PROVE p[j] + MaxBytes <= p[i]
  <2>1. p[i] = (Earlier - 1 - i) * MaxBytes /\ p[j] = (Earlier - 1 - j) * MaxBytes
    BY <1>3
  <2>2. PICK a \in Nat : a = Earlier - 1 - i
    BY <1>1
  <2>3. PICK b \in Nat : b = Earlier - 1 - j
    BY <1>1
  <2>4. b < a
    BY <1>1, <1>6, <2>2, <2>3
  <2>5. b * MaxBytes + MaxBytes <= a * MaxBytes
    BY <1>1, <2>4, BlocksApart
  <2> QED BY <2>1, <2>2, <2>3, <2>5
<1>7. ASSUME NEW m \in 1 .. accepted PROVE \E i \in 0 .. Earlier - 1, k \in 1 .. MaxBytes : m = p[i] + k
  <2>1. Earlier \in Nat
    BY <1>1
  <2>2. PICK e \in 0 .. Earlier - 1, k \in 1 .. MaxBytes : m = e * MaxBytes + k
    BY <1>1, <1>4, <2>1, BlocksCover
  <2>3. PICK i \in 0 .. Earlier - 1 : e = Earlier - 1 - i
    <3>1. Earlier - 1 - e \in 0 .. Earlier - 1 /\ e = Earlier - 1 - (Earlier - 1 - e)
      BY <2>1, <2>2
    <3> QED BY <3>1
  <2>4. p[i] = e * MaxBytes
    BY <1>3, <2>3
  <2> QED BY <2>2, <2>4
<1>8. ASSUME NEW i \in 0 .. Backups
      PROVE  /\ i < Earlier => /\ files[i] \in Seq(Nat) /\ Len(files[i]) = MaxBytes /\ i \in 0 .. Earlier - 1
                               /\ \A k \in 1 .. MaxBytes : files[i][k] = p[i] + k
             /\ ~ (i < Earlier) => files[i] = None
  <2>1. files[i] = IF i < Earlier THEN [k \in 1 .. MaxBytes |-> (Earlier - 1 - i) * MaxBytes + k] ELSE None
    BY DEF Log!Init
  <2>2. CASE i < Earlier
    <3>1. i \in 0 .. Earlier - 1
      BY <1>1, <2>2
    <3>2. p[i] = (Earlier - 1 - i) * MaxBytes /\ p[i] \in Nat
      BY <1>3, <1>5, <3>1
    <3>3. files[i] = [k \in 1 .. MaxBytes |-> p[i] + k]
      BY <2>1, <2>2, <3>2
    <3>4. PICK b \in Nat : b = p[i]
      BY <3>2
    <3>5. PICK f : f = [k \in 1 .. MaxBytes |-> b + k]
      OBVIOUS
    <3>6. f \in Seq(Nat) /\ Len(f) = MaxBytes /\ \A k \in 1 .. MaxBytes : f[k] = b + k
      BY <1>1, <3>5
    <3> QED BY <2>2, <3>1, <3>3, <3>4, <3>5, <3>6
  <2>3. CASE ~ (i < Earlier)
    BY <2>1, <2>3
  <2> QED BY <2>2, <2>3
<1>9. files \in FileSets
  <2>1. DOMAIN files = 0 .. Backups /\ files = [i \in 0 .. Backups |-> files[i]]
    BY DEF Log!Init
  <2>2. \A i \in 0 .. Backups : files[i] \in Seq(Nat) \cup {None}
    BY <1>8
  <2> QED BY <2>1, <2>2 DEF FileSets
<1>10. ASSUME NEW i \in 0 .. Backups
       PROVE  /\ i < Earlier => /\ Lines(files)[i] = files[i]
                                /\ \A m : m \in Filed(files)[i] <=> \E k \in 1 .. MaxBytes : m = p[i] + k
              /\ ~ (i < Earlier) => Lines(files)[i] = <<>> /\ Filed(files)[i] = {}
  <2>1. CASE i < Earlier
    <3>1. /\ files[i] \in Seq(Nat) /\ Len(files[i]) = MaxBytes
          /\ \A k \in 1 .. MaxBytes : files[i][k] = p[i] + k
      BY <1>8, <2>1
    <3>2. Lines(files)[i] = files[i] /\ Filed(files)[i] = Has(files[i])
      BY <1>1, <3>1, FileHolds
    <3>3. DOMAIN files[i] = 1 .. MaxBytes
      BY <3>1
    <3>4. ASSUME NEW m PROVE m \in Has(files[i]) <=> \E k \in 1 .. MaxBytes : m = p[i] + k
      BY <3>1, <3>3 DEF Has
    <3> QED BY <2>1, <3>2, <3>4
  <2>2. CASE ~ (i < Earlier)
    BY <1>8, <2>2, FileHolds
  <2> QED BY <2>1, <2>2
<1>11. LogTypes
  BY <1>1, <1>2, <1>4, <1>9 DEF LogTypes
<1>12. Ns(<<>>) = {} /\ RisingBy(<<>>) /\ InHand(None) = {} /\ Rising(<<>>)
  BY DEF Ns, RisingBy, InHand, Rising
<1>13. DOMAIN Filed(files) = 0 .. Backups
  BY <1>9, FilesAre
<1>14. LedgerInv
  <2>1. ASSUME NEW i \in 0 .. Backups, NEW j \in 0 .. Backups, i < j PROVE Under(Filed(files)[j], Filed(files)[i])
    <3>1. CASE j < Earlier
      <4>1. i < Earlier /\ i \in 0 .. Earlier - 1 /\ j \in 0 .. Earlier - 1
        BY <1>1, <2>1, <3>1
      <4>2. p[j] + MaxBytes <= p[i] /\ p[i] \in Nat /\ p[j] \in Nat
        BY <1>5, <1>6, <2>1, <4>1
      <4>3. \A k, l \in 1 .. MaxBytes : p[j] + k < p[i] + l
        BY <1>1, <4>2
      <4> QED BY <1>10, <3>1, <4>1, <4>3 DEF Under
    <3>2. CASE ~ (j < Earlier)
      BY <1>10, <3>2 DEF Under
    <3> QED BY <3>1, <3>2
  <2>2. ASSUME NEW i \in 0 .. Backups PROVE Filed(files)[i] \subseteq 1 .. accepted
    <3>1. CASE i < Earlier
      <4>1. p[i] \in Nat /\ p[i] + MaxBytes <= accepted
        BY <1>5, <1>8, <3>1
      <4>2. \A k \in 1 .. MaxBytes : p[i] + k \in 1 .. accepted
        BY <1>1, <1>4, <4>1
      <4> QED BY <1>10, <3>1, <4>2
    <3>2. CASE ~ (i < Earlier)
      BY <1>10, <3>2
    <3> QED BY <3>1, <3>2
  <2>3. ASSUME NEW m \in 1 .. accepted PROVE \E i \in 0 .. Backups : m \in Filed(files)[i]
    <3>1. PICK i \in 0 .. Earlier - 1, k \in 1 .. MaxBytes : m = p[i] + k
      BY <1>7
    <3>2. i \in 0 .. Backups /\ i < Earlier
      BY <1>1
    <3> QED BY <1>10, <3>1, <3>2
  <2>4. Ledger(Filed(files), {}, {}, {}, accepted, {})
    BY <1>13, <2>1, <2>2, <2>3 DEF Ledger, Under
  <2>5. ASSUME NEW i \in 0 .. Backups PROVE Rising(Lines(files)[i])
    <3>1. CASE i < Earlier
      <4>1. /\ Lines(files)[i] = files[i] /\ files[i] \in Seq(Nat) /\ Len(files[i]) = MaxBytes
            /\ \A k \in 1 .. MaxBytes : files[i][k] = p[i] + k
        BY <1>8, <1>10, <3>1
      <4>2. PICK f \in Seq(Nat) : f = files[i] /\ DOMAIN f = 1 .. MaxBytes /\ \A k \in 1 .. MaxBytes : f[k] = p[i] + k
        BY <4>1
      <4>3. PICK b \in Nat : b = p[i]
        BY <1>5, <1>8, <3>1
      <4>4. \A k \in 1 .. MaxBytes : f[k] = b + k
        BY <4>2, <4>3
      <4>5. Rising(f)
        <5> SUFFICES ASSUME NEW k \in 1 .. MaxBytes, NEW l \in 1 .. MaxBytes, k < l PROVE f[k] < f[l]
          BY <4>2 DEF Rising
        <5>1. b + k < b + l
          BY <1>1
        <5> QED BY <4>4, <5>1
      <4> QED BY <4>1, <4>2, <4>5
    <3>2. CASE ~ (i < Earlier)
      BY <1>10, <1>12, <3>2
    <3> QED BY <3>1, <3>2
  <2> QED BY <1>2, <1>12, <2>4, <2>5 DEF LedgerInv
<1>15. FilesInv
  <2>1. ASSUME NEW i \in 0 .. Backups PROVE Len(Lines(files)[i]) <= MaxBytes /\ files[i] # <<>>
    <3>1. CASE i < Earlier
      BY <1>1, <1>8, <1>10, <3>1
    <3>2. CASE ~ (i < Earlier)
      <4>1. files[i] = None /\ Lines(files)[i] = <<>>
        BY <1>8, <1>10, <3>2
      <4>2. <<>> \in Seq(Nat) /\ Len(<<>>) = 0
        OBVIOUS
      <4>3. files[i] # <<>>
        BY <1>1, <4>1, <4>2
      <4>4. Len(Lines(files)[i]) = 0
        BY <4>1
      <4> QED BY <1>1, <4>3, <4>4
    <3> QED BY <3>1, <3>2
  <2>2. files[0] # None /\ Len(Lines(files)[0]) = MaxBytes /\ 0 \in 0 .. Backups
    BY <1>1, <1>8, <1>10
  <2>3. Len(buffer) = 0
    BY <1>2
  <2>4. \A i \in 1 .. Backups : files[i] # <<>>
    BY <2>1
  <2>5. Len(Lines(files)[0]) + Len(buffer) <= MaxBytes
    BY <1>1, <2>2, <2>3
  <2> QED BY <1>2, <2>1, <2>2, <2>4, <2>5 DEF FilesInv
<1>16. WriterInv
  <2>1. Len(buffer) = 0 /\ DOMAIN buffer = {}
    BY <1>2
  <2> QED BY <1>1, <1>2, <2>1 DEF WriterInv
<1>17. LoadInv
  BY <1>2 DEF LoadInv
<1> QED BY <1>11, <1>14, <1>15, <1>16, <1>17 DEF LogInv

-----------------------------------------------------------------------------
\* The steps of the log, and of the others.
LEMMA LogStep ==
  ASSUME Log!Parameters, half = "log" => LogInv, [MCNext]_<<half, vars, queueVars, pickerVars, storesVars, logVars>>
  PROVE  half' = "log" => LogInv'
<1> SUFFICES ASSUME half' = "log" PROVE LogInv'
  OBVIOUS
<1>1. CASE half = "log" /\ Log!Next
  <2>1. LogInv
    BY <1>1
  <2>2. ASSUME NEW t \in Loggers, Log!Ask(t) \/ Log!Send(t) PROVE LogInv'
    BY <2>1, <2>2, LogTalks, LogSends
  <2>3. CASE Log!Close \/ Log!TakeSender \/ Log!StopWaiting \/ Log!FlushDeadline \/ Log!Disconnected
    BY <2>1, <2>3, LogTalks
  <2>4. CASE Log!Receive
    BY <2>1, <2>4, LogReceives
  <2>5. CASE Log!AppendRecord
    BY <2>1, <2>5, LogAppends
  <2>6. CASE Log!Flush
    BY <2>1, <2>6, LogFlushes
  <2>7. CASE Log!Rotate
    BY <2>1, <2>7, LogRotates
  <2>8. CASE Log!WriterFails
    BY <2>1, <2>8, LogFails
  <2>9. CASE Log!Restart
    BY <2>1, <2>9, LogRestarts
  <2>10. CASE Log!QueueLoad \/ Log!Hide \/ Log!ReadFile \/ Log!Apply
    BY <2>1, <2>10, LogShows
  <2> QED BY <1>1, <2>2, <2>3, <2>4, <2>5, <2>6, <2>7, <2>8, <2>9, <2>10 DEF Log!Next
<1>2. CASE half = half' /\ UNCHANGED logVars
  <2>1. LogInv /\ UNCHANGED <<accepted, lost, process, sender, shutting, asking, queue,
                              worker, hand, buffer, unflushed, turn, files, page>>
    BY <1>2 DEF logVars
  <2> QED BY <2>1 DEF LogInv, LogTypes, LedgerInv, FilesInv, WriterInv, LoadInv
<1>3. (half = "log" /\ Log!Next) \/ (half = half' /\ UNCHANGED logVars)
  BY DEF MCNext
<1> QED BY <1>1, <1>2, <1>3

\* The inductive invariant of the log: what it accepted is in a file, on its
\* way there in its place, lost, or older than all the files keep.
THEOREM LogInvariant == MCSpec => [](half = "log" => LogInv)
<1>1. MCInit => (half = "log" => LogInv)
  BY LogAssumption, LogInit DEF MCInit
<1>2. (half = "log" => LogInv) /\ [MCNext]_<<half, vars, queueVars, pickerVars, storesVars, logVars>>
      => (half = "log" => LogInv)'
  BY LogAssumption, LogStep
<1> QED BY <1>1, <1>2, PTL DEF MCSpec

\* Some number of a set of numbers is the least.
LEMMA LeastOf ==
  ASSUME NEW S, S \subseteq Nat, S # {}
  PROVE  \E n \in S : \A m \in S : n <= m
<1> DEFINE R == {ss \in Nat \X Nat : ss[1] < ss[2]}
<1>1. WF!IsWellFoundedOn(R, Nat)
  BY WF!NatLessThanWellFounded DEF WF!OpToRel
<1>2. \A m, n \in Nat : m < n => <<m, n>> \in R
  OBVIOUS
<1> HIDE DEF R
<1>3. PICK n \in S : \A m \in S : ~ (<<m, n>> \in R)
  BY <1>1, WF!WFMin
<1>4. \A m \in S : n <= m
  <2> TAKE m \in S
  <2>1. m \in Nat /\ n \in Nat /\ ~ (<<m, n>> \in R)
    BY <1>3
  <2> QED BY <1>2, <2>1
<1> QED BY <1>4

\* Pieces are put together one by one.
LEMMA PutTogether ==
  ASSUME NEW ss, Len(ss) \in Nat \ {0}
  PROVE  \E f : /\ f = [i \in 1 .. Len(ss) |-> IF i = 1 THEN ss[i] ELSE f[i - 1] \o ss[i]]
                /\ Log!FlattenSeq(ss) = f[Len(ss)]
<1> DEFINE n == Len(ss)
           Fits(f, k) == f = [i \in 1 .. k |-> IF i = 1 THEN ss[i] ELSE f[i - 1] \o ss[i]]
<1>1. \E f : Fits(f, n)
  <2> SUFFICES ASSUME ~ \E f : Fits(f, n) PROVE FALSE
    OBVIOUS
  <2> DEFINE Bad == {k \in Nat : k # 0 /\ ~ \E f : Fits(f, k)}
  <2>1. PICK k \in Bad : \A m \in Bad : k <= m
    <3>1. Bad \subseteq Nat /\ n \in Bad
      OBVIOUS
    <3> HIDE DEF Bad
    <3> QED BY <3>1, LeastOf
  <2>2. k \in Nat /\ k # 0 /\ ~ \E f : Fits(f, k)
    OBVIOUS
  <2>3. CASE k = 1
    <3> DEFINE g == [i \in 1 .. 1 |-> ss[1]]
    <3>1. Fits(g, 1)
      OBVIOUS
    <3> QED BY <2>2, <2>3, <3>1
  <2>4. CASE k # 1
    <3>1. k - 1 \in Nat /\ k - 1 # 0 /\ k - 1 \notin Bad
      <4> HIDE DEF Bad
      <4> QED BY <2>1, <2>2, <2>4
    <3>2. PICK f : Fits(f, k - 1)
      BY <3>1
    <3> DEFINE g == [i \in 1 .. k |-> IF i = k THEN f[k - 1] \o ss[k] ELSE f[i]]
    <3>3. Fits(g, k)
      <4>1. ASSUME NEW i \in 1 .. k PROVE g[i] = IF i = 1 THEN ss[i] ELSE g[i - 1] \o ss[i]
        <5>1. CASE i = k
          <6>1. k - 1 \in 1 .. k /\ k - 1 # k /\ k \in 1 .. k
            BY <2>2, <3>1
          <6>2. g[k] = f[k - 1] \o ss[k] /\ g[k - 1] = f[k - 1]
            BY <6>1
          <6> QED BY <2>4, <5>1, <6>2
        <5>2. CASE i = 1
          <6>1. f[1] = ss[1]
            BY <2>2, <2>4, <3>1, <3>2
          <6> QED BY <2>2, <2>4, <5>2, <6>1
        <5>3. CASE i # k /\ i # 1
          <6>1. i \in 1 .. k - 1 /\ i - 1 \in 1 .. k /\ i - 1 # k
            BY <2>2, <3>1, <5>3
          <6>2. f[i] = f[i - 1] \o ss[i]
            BY <3>2, <5>3, <6>1
          <6>3. g[i] = f[i] /\ g[i - 1] = f[i - 1]
            BY <5>3, <6>1
          <6> QED BY <5>3, <6>2, <6>3
        <5> QED BY <5>1, <5>2, <5>3
      <4> QED BY <4>1
    <3> QED BY <2>2, <3>3
  <2> QED BY <2>3, <2>4
<1>2. n # 0
  OBVIOUS
<1> DEFINE h == CHOOSE f : Fits(f, n)
<1>3. Fits(h, n)
  BY <1>1
<1>4. Log!FlattenSeq(ss) = h[n]
  BY <1>2 DEF Log!FlattenSeq
<1> QED BY <1>3, <1>4

-----------------------------------------------------------------------------
\* Pieces that rise, one behind the other, rise when they are put together.
LEMMA PiecesRise ==
  ASSUME NEW ss, Len(ss) \in Nat \ {0},
         \A i \in 1 .. Len(ss) : ss[i] \in Seq(Nat) /\ Rising(ss[i]),
         \A i, j \in 1 .. Len(ss) : i < j => Under(Has(ss[i]), Has(ss[j]))
  PROVE  /\ Log!FlattenSeq(ss) \in Seq(Nat) /\ Rising(Log!FlattenSeq(ss))
         /\ \A m : m \in Has(Log!FlattenSeq(ss)) <=> \E i \in 1 .. Len(ss) : m \in Has(ss[i])
<1> DEFINE n == Len(ss)
<1>1. PICK f : /\ f = [i \in 1 .. n |-> IF i = 1 THEN ss[i] ELSE f[i - 1] \o ss[i]]
               /\ Log!FlattenSeq(ss) = f[n]
  BY PutTogether
<1>2. /\ n \in Nat /\ n # 0 /\ f[1] = ss[1]
      /\ \A i \in 1 .. n : i # 1 => f[i] = f[i - 1] \o ss[i]
  <2>1. n \in Nat /\ n # 0
    OBVIOUS
  <2> HIDE DEF n
  <2>2. \A i \in 1 .. n : f[i] = IF i = 1 THEN ss[i] ELSE f[i - 1] \o ss[i]
    BY <1>1
  <2>3. 1 \in 1 .. n
    BY <2>1
  <2> QED BY <2>1, <2>2, <2>3
<1>3. /\ \A i \in 1 .. n : ss[i] \in Seq(Nat) /\ Rising(ss[i])
      /\ \A i, j \in 1 .. n : i < j => Under(Has(ss[i]), Has(ss[j]))
  OBVIOUS
<1> HIDE DEF n
<1> DEFINE Fine(k) == /\ f[k] \in Seq(Nat) /\ Rising(f[k])
                      /\ \A m : m \in Has(f[k]) <=> \E i \in 1 .. k : m \in Has(ss[i])
<1>4. Fine(n)
  <2> SUFFICES ASSUME ~ Fine(n) PROVE FALSE
    OBVIOUS
  <2> DEFINE Bad == {k \in 1 .. n : ~ Fine(k)}
  <2>1. PICK k \in Bad : \A m \in Bad : k <= m
    <3>1. Bad \subseteq Nat /\ n \in Bad
      BY <1>2
    <3> HIDE DEF Bad
    <3> QED BY <3>1, LeastOf
  <2>2. k \in 1 .. n /\ ~ Fine(k)
    OBVIOUS
  <2>3. CASE k = 1
    <3>1. \A i \in 1 .. 1 : i = 1
      OBVIOUS
    <3>2. 1 \in 1 .. 1 /\ 1 \in 1 .. n
      BY <2>2, <2>3
    <3>3. Fine(1)
      BY <1>2, <1>3, <3>1, <3>2
    <3> QED BY <2>2, <2>3, <3>3
  <2>4. CASE k # 1
    <3>1. k - 1 \in 1 .. n /\ k - 1 \notin Bad
      <4>1. k - 1 \in 1 .. n /\ ~ (k <= k - 1)
        BY <1>2, <2>2, <2>4
      <4> HIDE DEF Bad, Fine
      <4> QED BY <2>1, <4>1
    <3>2. PICK g : g = f[k - 1]
      OBVIOUS
    <3>3. /\ g \in Seq(Nat) /\ Rising(g)
          /\ \A m : m \in Has(g) <=> \E i \in 1 .. k - 1 : m \in Has(ss[i])
      <4>1. Fine(k - 1)
        BY <3>1
      <4> QED BY <3>2, <4>1
    <3>4. PICK t \in Seq(Nat) : t = ss[k] /\ Rising(t)
      BY <1>3, <2>2
    <3>5. f[k] = g \o t
      BY <1>2, <2>2, <2>4, <3>2, <3>4
    <3>6. Under(Has(g), Has(t))
      <4> SUFFICES ASSUME NEW x \in Has(g) PROVE \A y \in Has(t) : x < y
        BY DEF Under
      <4>1. PICK i \in 1 .. k - 1 : x \in Has(ss[i])
        BY <3>3
      <4>2. i \in 1 .. n /\ i < k
        BY <1>2, <2>2
      <4>3. Under(Has(ss[i]), Has(ss[k]))
        BY <1>3, <2>2, <4>2
      <4> QED BY <3>4, <4>1, <4>3 DEF Under
    <3>7. g \o t \in Seq(Nat) /\ Has(g \o t) = Has(g) \cup Has(t) /\ Rising(g \o t)
      BY <3>3, <3>4, <3>6, HasConcat
    <3>8. \A i : i \in 1 .. k <=> i \in 1 .. k - 1 \/ i = k
      BY <1>2, <2>2
    <3>9. \A m : m \in Has(g \o t) <=> \E i \in 1 .. k : m \in Has(ss[i])
      BY <3>3, <3>4, <3>7, <3>8
    <3>10. Fine(k)
      BY <3>5, <3>7, <3>9
    <3> QED BY <2>2, <3>10
  <2> QED BY <2>3, <2>4
<1> QED BY <1>1, <1>4 DEF n

\* What a sequence that rises has nothing of, is between two neighbours.
LEMMA Gaps ==
  ASSUME NEW ns \in Seq(Nat), Rising(ns)
  PROVE  /\ \A i \in 2 .. Len(ns) :
              /\ ns[i - 1] \in Nat /\ ns[i] \in Nat /\ ns[i - 1] \in Has(ns) /\ ns[i] \in Has(ns) /\ ns[i - 1] < ns[i]
              /\ \A m \in Nat : ns[i - 1] < m /\ m < ns[i] => m \notin Has(ns)
         /\ ns # <<>> => /\ ns[Len(ns)] \in Nat /\ ns[Len(ns)] \in Has(ns)
                         /\ \A m \in Has(ns) : m <= ns[Len(ns)]
<1> DEFINE n == Len(ns)
<1>1. n \in Nat /\ DOMAIN ns = 1 .. n /\ (\A i \in 1 .. n : ns[i] \in Nat) /\ (ns # <<>> => n # 0)
  OBVIOUS
<1> HIDE DEF n
<1>2. \A i \in 1 .. n : ns[i] \in Has(ns)
  BY <1>1 DEF Has
<1>3. \A i, j \in 1 .. n : i < j => ns[i] < ns[j]
  BY <1>1 DEF Rising
<1>4. ASSUME NEW i \in 2 .. n
      PROVE  /\ ns[i - 1] \in Nat /\ ns[i] \in Nat /\ ns[i - 1] \in Has(ns) /\ ns[i] \in Has(ns) /\ ns[i - 1] < ns[i]
             /\ \A m \in Nat : ns[i - 1] < m /\ m < ns[i] => m \notin Has(ns)
  <2>1. i \in 1 .. n /\ i - 1 \in 1 .. n /\ i - 1 < i
    BY <1>1
  <2>2. ns[i - 1] \in Nat /\ ns[i] \in Nat /\ ns[i - 1] \in Has(ns) /\ ns[i] \in Has(ns) /\ ns[i - 1] < ns[i]
    BY <1>1, <1>2, <1>3, <2>1
  <2>3. ASSUME NEW k \in 1 .. n, ns[i - 1] < ns[k], ns[k] < ns[i] PROVE FALSE
    <3>1. k = i \/ k = i - 1 \/ k < i - 1 \/ i < k
      BY <1>1, <2>1
    <3>2. ns[k] \in Nat
      BY <1>1
    <3>3. CASE k < i - 1
      <4>1. ns[k] < ns[i - 1]
        BY <1>3, <2>1, <3>3
      <4> QED BY <2>2, <2>3, <3>2, <4>1
    <3>4. CASE i < k
      <4>1. ns[i] < ns[k]
        BY <1>3, <2>1, <3>4
      <4> QED BY <2>2, <2>3, <3>2, <4>1
    <3>5. CASE k = i \/ k = i - 1
      BY <2>2, <2>3, <3>5
    <3> QED BY <3>1, <3>3, <3>4, <3>5
  <2> QED BY <1>1, <2>2, <2>3 DEF Has
<1>5. ASSUME ns # <<>>
      PROVE  ns[n] \in Nat /\ ns[n] \in Has(ns) /\ \A m \in Has(ns) : m <= ns[n]
  <2>1. n \in 1 .. n
    BY <1>1, <1>5
  <2>2. ASSUME NEW k \in 1 .. n PROVE ns[k] <= ns[n]
    <3>1. k = n \/ k < n
      BY <1>1
    <3>2. ns[k] \in Nat /\ ns[n] \in Nat
      BY <1>1, <2>1
    <3>3. k < n => ns[k] < ns[n]
      BY <1>3, <2>1
    <3> QED BY <3>1, <3>2, <3>3
  <2> QED BY <1>1, <1>2, <2>1, <2>2 DEF Has
<1> QED BY <1>4, <1>5 DEF n

All(F, B, H, Q) == B \cup H \cup Q \cup UNION {F[i] : i \in DOMAIN F}

\* A record that is nowhere, and newer than one that is kept, is lost.
LEMMA MissingIsLost ==
  ASSUME NEW F, NEW B, NEW H, NEW Q, NEW last \in Nat, NEW gone, Ledger(F, B, H, Q, last, gone),
         NEW m \in 1 .. last, m \notin All(F, B, H, Q),
         All(F, B, H, Q) = {} \/ \E s \in All(F, B, H, Q) : s < m
  PROVE  m \in gone
<1>1. PICK S : S = All(F, B, H, Q)
  OBVIOUS
<1>4. \A s : s \in S <=> s \in B \/ s \in H \/ s \in Q \/ \E i \in DOMAIN F : s \in F[i]
  BY <1>1 DEF All
<1>5. m \notin B /\ m \notin H /\ m \notin Q /\ (\A i \in DOMAIN F : m \notin F[i]) /\ (S = {} \/ \E s \in S : s < m)
  BY <1>1, <1>4
<1> SUFFICES ASSUME \E i \in DOMAIN F : F[i] # {}, \A i \in DOMAIN F : \A f \in F[i] : m < f PROVE FALSE
  BY <1>5 DEF Ledger
<1>6. PICK j \in DOMAIN F : F[j] # {}
  OBVIOUS
<1>7. PICK f \in F[j] : m < f
  BY <1>6
<1>8. PICK s \in S : s < m
  BY <1>4, <1>5, <1>7
<1>9. s \in 1 .. last /\ f \in 1 .. last
  BY <1>4 DEF Ledger
<1>10. CASE \E i \in DOMAIN F : s \in F[i]
  <2>1. m < s
    BY <1>10
  <2> QED BY <1>8, <1>9, <2>1
<1>11. CASE s \in B \/ s \in H \/ s \in Q
  <2>1. f < s
    BY <1>11 DEF Ledger, Under
  <2> QED BY <1>7, <1>8, <1>9, <2>1
<1> QED BY <1>4, <1>10, <1>11

\* The files, the oldest first.
LEMMA FilesInOrder ==
  ASSUME Log!Parameters, LogInv
  PROVE  /\ Log!Kept \in Seq(Nat) /\ Rising(Log!Kept)
         /\ \A m : m \in Has(Log!Kept) <=> \E i \in 0 .. Backups : m \in Filed(files)[i]
<1> USE DEF LogInv
<1>1. Backups \in Nat \ {0} /\ files \in FileSets
  BY DEF Log!Parameters, LogTypes
<1>2. DOMAIN Filed(files) = 0 .. Backups
  BY <1>1, FilesAre
<1>3. \A i, j \in 0 .. Backups : i < j => Under(Filed(files)[j], Filed(files)[i])
  BY <1>2 DEF LedgerInv, Ledger
<1>4. PICK ss : ss = [i \in 1 .. Backups + 1 |-> Log!Contents(Backups + 1 - i)]
  OBVIOUS
<1>5. \A i \in 0 .. Backups : /\ Log!Contents(i) = Lines(files)[i] /\ Lines(files)[i] \in Seq(Nat)
                              /\ Filed(files)[i] = Has(Lines(files)[i]) /\ Rising(Lines(files)[i])
  BY <1>1, FilesAre DEF Log!Contents, LedgerInv
<1>6. ASSUME NEW i \in 1 .. Backups + 1
      PROVE  /\ Backups + 1 - i \in 0 .. Backups /\ ss[i] \in Seq(Nat) /\ Rising(ss[i])
             /\ Has(ss[i]) = Filed(files)[Backups + 1 - i]
  <2>1. Backups + 1 - i \in 0 .. Backups
    BY <1>1
  <2>2. ss[i] = Lines(files)[Backups + 1 - i]
    BY <1>4, <1>5, <2>1
  <2> QED BY <1>5, <2>1, <2>2
<1>7. ss \in Seq(Seq(Nat)) /\ Len(ss) = Backups + 1
  <2>1. \A i \in 1 .. Backups + 1 : ss[i] \in Seq(Nat)
    BY <1>6
  <2>2. ss \in [1 .. Backups + 1 -> Seq(Nat)]
    BY <1>4, <2>1
  <2> QED BY <1>1, <2>2
<1>8. ASSUME NEW i \in 1 .. Backups + 1, NEW j \in 1 .. Backups + 1, i < j PROVE Under(Has(ss[i]), Has(ss[j]))
  <2>1. Backups + 1 - j < Backups + 1 - i
    BY <1>1, <1>8
  <2> QED BY <1>3, <1>6, <2>1
<1>9. Log!Kept = Log!FlattenSeq(ss)
  BY <1>4 DEF Log!Kept
<1>10. /\ Log!FlattenSeq(ss) \in Seq(Nat) /\ Rising(Log!FlattenSeq(ss))
       /\ \A m : m \in Has(Log!FlattenSeq(ss)) <=> \E i \in 1 .. Backups + 1 : m \in Has(ss[i])
  <2>1. Len(ss) = Backups + 1 /\ Len(ss) \in Nat \ {0}
    BY <1>1, <1>7
  <2>2. /\ \A i \in 1 .. Len(ss) : ss[i] \in Seq(Nat) /\ Rising(ss[i])
        /\ \A i, j \in 1 .. Len(ss) : i < j => Under(Has(ss[i]), Has(ss[j]))
    BY <1>6, <1>8, <2>1
  <2>3. /\ Log!FlattenSeq(ss) \in Seq(Nat) /\ Rising(Log!FlattenSeq(ss))
        /\ \A m : m \in Has(Log!FlattenSeq(ss)) <=> \E i \in 1 .. Len(ss) : m \in Has(ss[i])
    BY <2>1, <2>2, PiecesRise, Zenon
  <2> QED BY <2>1, <2>3
<1>11. ASSUME NEW m PROVE (\E i \in 1 .. Backups + 1 : m \in Has(ss[i])) <=> \E i \in 0 .. Backups : m \in Filed(files)[i]
  <2>1. ASSUME NEW i \in 0 .. Backups, m \in Filed(files)[i] PROVE \E k \in 1 .. Backups + 1 : m \in Has(ss[k])
    <3>1. Backups + 1 - i \in 1 .. Backups + 1 /\ Backups + 1 - (Backups + 1 - i) = i
      BY <1>1
    <3> QED BY <1>6, <2>1, <3>1
  <2> QED BY <1>6, <2>1
<1> QED BY <1>9, <1>10, <1>11

\* NewestKept.
LEMMA NewestAreKept ==
  ASSUME Log!Parameters, LogInv
  PROVE  Log!NewestKept
<1> USE DEF LogInv
<1>1. /\ Backups \in Nat \ {0} /\ files \in FileSets /\ accepted \in Nat /\ buffer \in Seq(Records) /\ RisingBy(buffer)
      /\ Ledger(Filed(files), Ns(buffer), InHand(hand), Ns(queue), accepted, lost)
      /\ DOMAIN Filed(files) = 0 .. Backups
  BY FilesAre DEF Log!Parameters, LogTypes, LedgerInv
<1>2. PICK a : a = Log!Kept
  OBVIOUS
<1>3. a \in Seq(Nat) /\ Rising(a) /\ \A m : m \in Has(a) <=> \E i \in 0 .. Backups : m \in Filed(files)[i]
  BY <1>2, FilesInOrder
<1>4. Log!Held \in Seq(Records) /\ Ns(Log!Held) = InHand(hand) \cup Ns(queue) /\ RisingBy(Log!Held)
  BY HeldNumbers
<1>5. PICK b : b = Log!Number(buffer \o Log!Held)
  OBVIOUS
<1>6. b \in Seq(Nat) /\ Rising(b) /\ Has(b) = Ns(buffer) \cup InHand(hand) \cup Ns(queue)
  <2> DEFINE x == Log!Number(buffer)  y == Log!Number(Log!Held)
  <2>1. x \in Seq(Nat) /\ y \in Seq(Nat) /\ Rising(x) /\ Rising(y) /\ Has(x) = Ns(buffer) /\ Has(y) = Ns(Log!Held)
    BY <1>1, <1>4, NumberOf
  <2>2. b = x \o y
    BY <1>1, <1>4, <1>5, NumbersJoined
  <2>3. Under(Has(x), Has(y))
    BY <1>1, <1>4, <2>1 DEF Ledger, Under
  <2> HIDE DEF x, y
  <2>4. x \o y \in Seq(Nat) /\ Rising(x \o y) /\ Has(x \o y) = Has(x) \cup Has(y)
    BY <2>1, <2>3, HasConcat
  <2>5. Ns(buffer) \cup Ns(Log!Held) = Ns(buffer) \cup InHand(hand) \cup Ns(queue)
    BY <1>4
  <2> QED BY <2>1, <2>2, <2>4, <2>5, Zenon
<1>7. Under(Has(a), Has(b))
  <2> SUFFICES ASSUME NEW x \in Has(a), NEW y \in Has(b) PROVE x < y
    BY DEF Under
  <2>1. PICK i \in 0 .. Backups : x \in Filed(files)[i]
    BY <1>3
  <2>2. Under(Filed(files)[i], Ns(buffer)) /\ Under(Filed(files)[i], InHand(hand)) /\ Under(Filed(files)[i], Ns(queue))
    BY <1>1 DEF Ledger
  <2> QED BY <1>6, <2>1, <2>2 DEF Under
<1>8. PICK all : all = a \o b
  OBVIOUS
<1>9. all \in Seq(Nat) /\ Rising(all) /\ Has(all) = Has(a) \cup Has(b)
  BY <1>3, <1>6, <1>7, <1>8, HasConcat
<1>10. \A s : s \in Has(all) <=> \/ s \in Ns(buffer) \/ s \in InHand(hand) \/ s \in Ns(queue)
                                 \/ \E i \in DOMAIN Filed(files) : s \in Filed(files)[i]
  BY <1>1, <1>3, <1>6, <1>9
<1>11. ASSUME NEW m \in 1 .. accepted, m \notin Has(all), Has(all) = {} \/ \E s \in Has(all) : s < m
       PROVE  m \in lost
  <2>1. Has(all) = All(Filed(files), Ns(buffer), InHand(hand), Ns(queue))
    BY <1>10 DEF All
  <2> QED BY <1>1, <1>11, <2>1, MissingIsLost
<1>12. Has(all) \subseteq 1 .. accepted
  <2>1. /\ \A i \in DOMAIN Filed(files) : Filed(files)[i] \subseteq 1 .. accepted
        /\ Ns(buffer) \subseteq 1 .. accepted /\ InHand(hand) \subseteq 1 .. accepted /\ Ns(queue) \subseteq 1 .. accepted
    BY <1>1 DEF Ledger
  <2> QED BY <1>10, <2>1
<1>13. Log!Unbroken(all)
  <2> SUFFICES ASSUME NEW i \in 2 .. Len(all)
               PROVE  all[i - 1] < all[i] /\ (all[i - 1] + 1 .. all[i] - 1) \subseteq lost
    BY DEF Log!Unbroken
  <2>1. PICK x \in Nat : x = all[i - 1] /\ x \in Has(all)
    BY <1>9, Gaps
  <2>2. PICK y \in Nat : y = all[i] /\ y \in Has(all)
    BY <1>9, Gaps
  <2>3. x < y /\ \A m \in Nat : x < m /\ m < y => m \notin Has(all)
    BY <1>9, <2>1, <2>2, Gaps
  <2>4. ASSUME NEW m \in x + 1 .. y - 1 PROVE m \in lost
    <3>1. y \in 1 .. accepted
      BY <1>12, <2>2
    <3>2. m \in 1 .. accepted /\ x < m /\ m < y
      BY <1>1, <3>1
    <3> QED BY <1>11, <2>1, <2>3, <3>2
  <2> QED BY <2>1, <2>2, <2>3, <2>4
<1>14. (IF all = <<>> THEN 1 ELSE all[Len(all)] + 1) .. accepted \subseteq lost
  <2>1. CASE all = <<>>
    <3>1. Has(all) = {}
      BY <2>1 DEF Has
    <3> QED BY <1>11, <2>1, <3>1
  <2>2. CASE all # <<>>
    <3>1. PICK x \in Nat : x = all[Len(all)] /\ x \in Has(all) /\ \A m \in Has(all) : m <= x
      BY <1>9, <2>2, Gaps
    <3>2. ASSUME NEW m \in x + 1 .. accepted PROVE m \in lost
      <4>1. m \in 1 .. accepted /\ x < m /\ ~ (m <= x)
        BY <1>1
      <4> QED BY <1>11, <3>1, <4>1
    <3> QED BY <2>2, <3>1, <3>2
  <2> QED BY <2>1, <2>2
<1>15. \A i \in 0 .. Backups : Len(Log!Contents(i)) <= MaxBytes
  <2>1. \A i \in 0 .. Backups : Log!Contents(i) = Lines(files)[i]
    BY <1>1, FilesAre DEF Log!Contents
  <2> QED BY <2>1 DEF FilesInv
<1>16. all = Log!Kept \o Log!Number(buffer \o Log!Held)
  BY <1>2, <1>5, <1>8
<1> QED BY <1>13, <1>14, <1>15, <1>16 DEF Log!NewestKept

\* PageExact.
LEMMA PagesAreExact ==
  ASSUME Log!Parameters, LogInv, page.at = Len(Log!LogFilePaths) + 1, ~ page.mixed
  PROVE  Log!Unbroken(Log!LastLines(page.rows))
<1> USE DEF LogInv
<1>1. /\ Backups \in Nat \ {0} /\ files \in FileSets /\ accepted \in Nat /\ MaxDisplayLines \in Nat /\ None \notin Nat
      /\ Ledger(Filed(files), Ns(buffer), InHand(hand), Ns(queue), accepted, lost)
      /\ DOMAIN Filed(files) = 0 .. Backups
  BY FilesAre DEF Log!Parameters, LogTypes, LedgerInv
<1>2. page.at = Backups + 2 /\ page.at # None
  <2>1. Len(Log!LogFilePaths) = Backups + 1
    <3>1. PICK f : f = [i \in 1 .. Backups + 1 |-> Backups + 1 - i]
      OBVIOUS
    <3>2. f \in [1 .. Backups + 1 -> Int]
      BY <1>1, <3>1
    <3>3. Len(f) = Backups + 1
      BY <1>1, <3>2
    <3> QED BY <3>1, <3>3 DEF Log!LogFilePaths
  <2> QED BY <1>1, <2>1
<1>3. PICK rows \in Seq(Nat) : rows = page.rows
  BY <1>2 DEF LoadInv
<1>4. /\ Rising(rows)
      /\ \A i \in 1 .. Backups : Filed(files)[i] \subseteq Has(rows)
      /\ \A r \in Has(rows) : \E i \in 0 .. Backups : r \in Filed(files)[i]
      /\ \A m \in Filed(files)[0], r \in Has(rows) : m < r => m \in Has(rows)
  <2>1. \A i \in 1 .. Backups : i + page.at > Backups + 1
    BY <1>1, <1>2
  <2> QED BY <1>2, <1>3, <2>1 DEF LoadInv
<1>5. ASSUME NEW x \in Has(rows), NEW y \in Has(rows), NEW m \in Nat, x < m, m < y, m \notin Has(rows)
      PROVE  m \in lost
  <2>1. PICK i \in 0 .. Backups : x \in Filed(files)[i]
    BY <1>4
  <2>2. PICK j \in 0 .. Backups : y \in Filed(files)[j]
    BY <1>4
  <2>3. x \in 1 .. accepted /\ y \in 1 .. accepted
    BY <1>1, <2>1, <2>2 DEF Ledger
  <2>4. m \in 1 .. accepted
    BY <1>1, <1>5, <2>3
  <2>5. ASSUME NEW k \in 0 .. Backups, m \in Filed(files)[k] PROVE FALSE
    <3>1. k = 0 \/ k \in 1 .. Backups
      BY <1>1
    <3> QED BY <1>4, <1>5, <2>5, <3>1
  <2>6. Under(Filed(files)[j], Ns(buffer)) /\ Under(Filed(files)[j], InHand(hand)) /\ Under(Filed(files)[j], Ns(queue))
    BY <1>1 DEF Ledger
  <2>7. ~ (y < m)
    BY <1>5, <2>3
  <2>8. m \notin Ns(buffer) /\ m \notin InHand(hand) /\ m \notin Ns(queue)
    BY <2>2, <2>6, <2>7 DEF Under
  <2>9. PICK S : S = All(Filed(files), Ns(buffer), InHand(hand), Ns(queue))
    OBVIOUS
  <2>10. \A s : s \in S <=> \/ s \in Ns(buffer) \/ s \in InHand(hand) \/ s \in Ns(queue)
                             \/ \E k \in DOMAIN Filed(files) : s \in Filed(files)[k]
    BY <2>9 DEF All
  <2>11. x \in S /\ m \notin S
    BY <1>1, <2>1, <2>5, <2>8, <2>10
  <2> QED BY <1>1, <1>5, <2>4, <2>9, <2>11, MissingIsLost
<1>6. ASSUME NEW i \in 2 .. Len(rows)
      PROVE  rows[i - 1] < rows[i] /\ (rows[i - 1] + 1 .. rows[i] - 1) \subseteq lost
  <2>1. PICK x \in Nat : x = rows[i - 1] /\ x \in Has(rows)
    BY <1>4, Gaps
  <2>2. PICK y \in Nat : y = rows[i] /\ y \in Has(rows)
    BY <1>4, Gaps
  <2>3. x < y /\ \A m \in Nat : x < m /\ m < y => m \notin Has(rows)
    BY <1>4, <2>1, <2>2, Gaps
  <2>4. ASSUME NEW m \in x + 1 .. y - 1 PROVE m \in lost
    <3>1. m \in Nat /\ x < m /\ m < y
      OBVIOUS
    <3> QED BY <1>5, <2>1, <2>2, <2>3, <3>1
  <2> QED BY <2>1, <2>2, <2>3, <2>4
<1>7. CASE ~ (Len(rows) > MaxDisplayLines)
  <2>1. Log!LastLines(rows) = rows
    BY <1>7 DEF Log!LastLines
  <2> QED BY <1>3, <1>6, <2>1 DEF Log!Unbroken
<1>8. CASE Len(rows) > MaxDisplayLines
  <2>1. PICK d \in Nat : d = Len(rows) - MaxDisplayLines
    <3>1. Len(rows) \in Nat
      OBVIOUS
    <3>2. Len(rows) - MaxDisplayLines \in Nat
      BY <1>1, <1>8, <3>1
    <3> QED BY <3>2
  <2>2. PICK t : t = SubSeq(rows, d + 1, Len(rows))
    OBVIOUS
  <2>3. Log!LastLines(rows) = t
    BY <1>8, <2>1, <2>2 DEF Log!LastLines
  <2>4. Len(t) = Len(rows) - d /\ \A i \in 1 .. Len(rows) - d : t[i] = rows[d + i]
    <3> DEFINE n == Len(rows)
    <3>1. n \in Nat /\ d <= n /\ \A i \in d + 1 .. n : rows[i] \in Nat
      BY <1>1, <1>8, <2>1
    <3> HIDE DEF n
    <3>2. /\ Len(SubSeq(rows, d + 1, n)) = IF d + 1 <= n THEN n - (d + 1) + 1 ELSE 0
          /\ \A i \in 1 .. n - (d + 1) + 1 : SubSeq(rows, d + 1, n)[i] = rows[(d + 1) + i - 1]
      BY <3>1, SubSeqProperties
    <3>3. n - (d + 1) + 1 = n - d /\ \A i \in 1 .. n - d : (d + 1) + i - 1 = d + i
      BY <3>1
    <3>4. (IF d + 1 <= n THEN n - (d + 1) + 1 ELSE 0) = n - d
      BY <3>1
    <3>5. t = SubSeq(rows, d + 1, n)
      BY <2>2 DEF n
    <3>6. Len(t) = n - d /\ \A i \in 1 .. n - d : t[i] = rows[d + i]
      BY <3>2, <3>3, <3>4, <3>5
    <3> QED BY <3>6 DEF n
  <2>5. ASSUME NEW i \in 2 .. Len(t)
        PROVE  t[i - 1] < t[i] /\ (t[i - 1] + 1 .. t[i] - 1) \subseteq lost
    <3> DEFINE n == Len(rows)
    <3>1. n \in Nat /\ Len(t) = n - d
      BY <2>4
    <3>2. \A j \in 1 .. n - d : t[j] = rows[d + j]
      BY <2>4
    <3> HIDE DEF n
    <3>3. i \in 1 .. n - d /\ i - 1 \in 1 .. n - d /\ d + i \in 2 .. n /\ d + (i - 1) = (d + i) - 1
      BY <3>1
    <3>4. t[i] = rows[d + i] /\ t[i - 1] = rows[(d + i) - 1]
      BY <3>2, <3>3
    <3>5. \A j \in 2 .. n : rows[j - 1] < rows[j] /\ (rows[j - 1] + 1 .. rows[j] - 1) \subseteq lost
      BY <1>6 DEF n
    <3>6. PICK j \in 2 .. n : j = d + i
      BY <3>3
    <3>7. t[i] = rows[j] /\ t[i - 1] = rows[j - 1]
      BY <3>4, <3>6
    <3> QED BY <3>5, <3>7
  <2> QED BY <1>3, <2>3, <2>5 DEF Log!Unbroken
<1> QED BY <1>7, <1>8

\* LogHolds.
LEMMA LogIsKept ==
  ASSUME Log!Parameters, LogInv
  PROVE  Log!LogHolds
<1>1. Log!NewestKept
  BY NewestAreKept
<1>2. Log!FlushedInTime
  <2>1. buffer \in Seq(Records) /\ unflushed \in Nat /\ BatchSize \in Nat
    BY DEF LogInv, LogTypes, Log!Parameters
  <2>2. buffer # <<>> => Len(buffer) > 0
    BY <2>1
  <2> QED BY <2>1, <2>2 DEF LogInv, WriterInv, Log!FlushedInTime
<1>3. Log!Drained
  <2> SUFFICES ASSUME shutting = "joined" PROVE asking = {} /\ Log!Held = <<>> /\ buffer = <<>>
    BY DEF Log!Drained
  <2>1. worker = "finished" /\ ~ sender /\ asking = {} /\ buffer = <<>> /\ queue = <<>> /\ hand = None
    BY DEF LogInv, WriterInv
  <2>2. <<>> \o <<>> = <<>>
    OBVIOUS
  <2> QED BY <2>1, <2>2 DEF Log!Held
<1>4. Log!PageExact
  BY PagesAreExact DEF Log!PageExact
<1> QED BY <1>1, <1>2, <1>3, <1>4 DEF Log!LogHolds

\* Whatever step a rotation, a failing file or a crash stopped at, the files, the
\* buffer and the queue hold the newest records, in order and each once; a writer
\* that waits owes the file nothing urgent; a shutdown that saw it end has drained
\* what was accepted; and a page read while no rotation ran is an unbroken piece
\* of the log (LogWriter::append, rotate, run_worker, shutdown, LogsPage).
THEOREM LogKeepsTheNewest == MCSpec => [](half = "log" => Log!LogHolds)
<1>1. (half = "log" => LogInv) => (half = "log" => Log!LogHolds)
  BY LogAssumption, LogIsKept
<1> QED BY <1>1, LogInvariant, PTL
=============================================================================
