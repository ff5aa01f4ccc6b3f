------------------------------ MODULE Tickets ------------------------------
(***************************************************************************)
(* The PDF ticket of an issued order: from the kick after the issue, or a  *)
(* GET of the ticket, through the RabbitMQ queue, to the file in the       *)
(* directory that the API process and the worker process share.            *)
(*                                                                         *)
(*   kick    : publish -> done | load .. mark -> done  (fallback)          *)
(*   poll    : check -> read -> done | publish -> done                     *)
(*   handler : load -> open -> fill -> replace -> mark -> ack -> idle      *)
(*             any failure -> load, MaxAttempts times, then nack -> idle   *)
(*                                                                         *)
(* A runner is an API task or a delivery that the worker handles.          *)
(***************************************************************************)
EXTENDS Integers, FiniteSets

CONSTANTS
  OrderIds,     \* issued orders
  Tasks,        \* tasks of the API process, each runs once
  Handlers,     \* deliveries the worker process can be handling at a time
  Fallback,     \* ticket_fallback_sync
  MaxAttempts,  \* _MAX_ATTEMPTS
  Faults,       \* which of "db", "broker" and "crash" may happen
  MaxFaults,    \* bound: how many faults a behaviour has
  None

ASSUME TicketsAssumption ==
  /\ Tasks \cap Handlers = {}
  /\ Fallback \in BOOLEAN
  /\ MaxAttempts \in Nat \ {0}
  /\ Faults \subseteq {"db", "broker", "crash"}
  /\ MaxFaults \in Nat
  /\ None \notin OrderIds \cup Tasks \cup Handlers \cup {"partial", "whole"}

Runners == Tasks \cup Handlers

VARIABLES
  pc,        \* pc[x]: the next step of runner x
  job,       \* job[x]: the order whose ticket x is about
  kicked,    \* orders whose issue has reached its kick
  attempt,   \* attempt[h]: the attempt of handler h, from 1
  fd,        \* fd[x]: the file x has open for writing, under its name of now
  tmp,       \* tmp[o]: <order_id>.pdf.tmp
  final,     \* final[o]: <order_id>.pdf
  recorded,  \* orders with orders.ticket_file set
  queued,    \* queued[o]: messages in ticket.generation, ready for delivery
  live,      \* the handler whose delivery the broker has unacknowledged
  dead,      \* dead[o]: messages in ticket.generation.dlq
  confirmed, \* orders for which a publish was confirmed
  outcome,   \* outcome[t]: what the client of task t received
  faults     \* how many faults have happened

work   == <<pc, job, attempt>>
files  == <<fd, tmp, final>>
broker == <<queued, live, dead>>
vars   == <<work, files, broker, kicked, recorded, confirmed, outcome, faults>>

Contents == {"partial", "whole"}
Labels   == {"idle", "check", "read", "publish", "load", "open", "fill", "replace",
             "mark", "ack", "nack", "done", "dead"}

TypeOK ==
  /\ pc \in [Runners -> Labels]
  /\ job \in [Runners -> OrderIds \cup {None}]
  /\ \A x \in Runners : job[x] = None => pc[x] \in {"idle", "done", "dead"}
  /\ attempt \in [Handlers -> 1..MaxAttempts]
  /\ fd \in [Runners -> {"none", "tmp", "final", "gone"}]
  /\ tmp \in [OrderIds -> Contents \cup {None}]
  /\ final \in [OrderIds -> Contents \cup {None}]
  /\ queued \in [OrderIds -> Nat]
  /\ live \in Handlers \cup {None}
  /\ dead \in [OrderIds -> Nat]
  /\ kicked \subseteq OrderIds
  /\ recorded \subseteq OrderIds
  /\ confirmed \subseteq OrderIds
  /\ outcome \in [Tasks -> Contents \cup {"accepted", None}]
  /\ faults \in 0..MaxFaults

Init ==
  /\ pc = [x \in Runners |-> "idle"]
  /\ job = [x \in Runners |-> None]
  /\ attempt = [h \in Handlers |-> 1]
  /\ fd = [x \in Runners |-> "none"]
  /\ tmp = [o \in OrderIds |-> None]
  /\ final = [o \in OrderIds |-> None]
  /\ queued = [o \in OrderIds |-> 0]
  /\ live = None
  /\ dead = [o \in OrderIds |-> 0]
  /\ kicked = {}
  /\ recorded = {}
  /\ confirmed = {}
  /\ outcome = [t \in Tasks |-> None]
  /\ faults = 0

-----------------------------------------------------------------------------
Process(x) == IF x \in Tasks THEN "api" ELSE "worker"

\* Rendering and writing has no await: from the row it loaded to os.replace a
\* runner holds the event loop of its process.
HoldsLoop(x) == pc[x] \in {"open", "fill", "replace"}

CanRun(x) == \A y \in Runners \ {x} : Process(y) = Process(x) => ~HoldsLoop(y)

At(x, label)   == pc[x] = label /\ CanRun(x)
Goto(x, label) == pc' = [pc EXCEPT ![x] = label]

Fault(kind) == kind \in Faults /\ faults < MaxFaults /\ faults' = faults + 1

-----------------------------------------------------------------------------
(* The API process: the kick of an issue and GET /orders/{id}/ticket *)

Kick(t, o) ==
  /\ At(t, "idle")
  /\ o \notin kicked
  /\ kicked' = kicked \cup {o}
  /\ job' = [job EXCEPT ![t] = o]
  /\ Goto(t, "publish")
  /\ UNCHANGED <<attempt, files, broker, recorded, confirmed, outcome, faults>>

Poll(t, o) ==
  /\ At(t, "idle")
  /\ job' = [job EXCEPT ![t] = o]
  /\ Goto(t, "check")
  /\ UNCHANGED <<attempt, files, broker, kicked, recorded, confirmed, outcome, faults>>

IsPoll(t) == outcome[t] = "accepted"

\* get_ticket_path: the row records the file and the file is there.
HasTicket(o) == o \in recorded /\ final[o] # None

\* Faulty variant: a poll leaves it to the kick of the issue.
CheckOnly(t) ==
  /\ At(t, "check")
  /\ Goto(t, IF HasTicket(job[t]) THEN "read" ELSE "done")
  /\ UNCHANGED <<job, attempt, files, broker, kicked, recorded, confirmed, outcome, faults>>

\* A poll that finds no ticket is bound to answer 202, whatever the publish does.
CheckTicket(t) ==
  /\ At(t, "check")
  /\ IF HasTicket(job[t])
       THEN Goto(t, "read") /\ UNCHANGED outcome
       ELSE Goto(t, "publish") /\ outcome' = [outcome EXCEPT ![t] = "accepted"]
  /\ UNCHANGED <<job, attempt, files, broker, kicked, recorded, confirmed, faults>>

ReadTicket(t) ==
  /\ At(t, "read")
  /\ outcome' = [outcome EXCEPT ![t] = final[job[t]]]
  /\ Goto(t, "done")
  /\ UNCHANGED <<job, attempt, files, broker, kicked, recorded, confirmed, faults>>

Enqueue(o) == queued' = [queued EXCEPT ![o] = @ + 1]

PublishConfirmed(t) ==
  /\ At(t, "publish")
  /\ Enqueue(job[t])
  /\ confirmed' = confirmed \cup {job[t]}
  /\ Goto(t, "done")
  /\ UNCHANGED <<job, attempt, files, live, dead, kicked, recorded, outcome, faults>>

\* publish_ticket_generation returns False: the broker cannot be reached, or
\* its confirmation does not arrive in time although the message does.
PublishFails(t) ==
  /\ At(t, "publish")
  /\ Fault("broker")
  /\ Enqueue(job[t]) \/ UNCHANGED queued
  /\ Goto(t, IF Fallback /\ ~IsPoll(t) THEN "load" ELSE "done")
  /\ UNCHANGED <<job, attempt, files, live, dead, kicked, recorded, confirmed, outcome>>

-----------------------------------------------------------------------------
(* Generation: generate_sync in the API, handle_message in the worker *)

\* Faulty variants: the file takes its name before its content; the row is
\* written before the file; the message is acknowledged before the row.
ReplaceFirst ==
  [load |-> "open", open |-> "replace", replace |-> "fill", fill |-> "mark", mark |-> "ack"]
MarkFirst ==
  [load |-> "mark", mark |-> "open", open |-> "fill", fill |-> "replace", replace |-> "ack"]
AckFirst ==
  [load |-> "open", open |-> "fill", fill |-> "replace", replace |-> "ack", mark |-> "ack"]

Generation ==
  [load |-> "open", open |-> "fill", fill |-> "replace", replace |-> "mark", mark |-> "ack"]

\* A task has nothing to acknowledge.
Proceed(x) ==
  LET next == Generation[pc[x]] IN
  Goto(x, IF next = "ack" /\ x \in Tasks THEN "done" ELSE next)

\* Faulty variants: one attempt too few, one too many, and attempts not counted.
OneAttemptLess(h) == attempt[h] + 1 < MaxAttempts
OneAttemptMore(h) == attempt[h] <= MaxAttempts
SameAttempt(h)    == attempt[h]

AttemptsLeft(h) == attempt[h] < MaxAttempts
NextAttempt(h)  == attempt[h] + 1

\* An exception: generate_sync logs it, the handler tries again or gives up.
Raise(x) ==
  /\ \/ /\ x \in Tasks
        /\ Goto(x, "done")
        /\ UNCHANGED attempt
     \/ /\ x \in Handlers
        /\ AttemptsLeft(x)
        /\ Goto(x, "load")
        /\ attempt' = [attempt EXCEPT ![x] = NextAttempt(x)]
     \/ /\ x \in Handlers
        /\ ~AttemptsLeft(x)
        /\ Goto(x, "nack")
        /\ UNCHANGED attempt
  /\ UNCHANGED job

Load(x) ==
  /\ At(x, "load")
  /\ Proceed(x)
  /\ UNCHANGED <<job, attempt, files, broker, kicked, recorded, confirmed, outcome, faults>>

LoadFails(x) ==
  /\ At(x, "load")
  /\ Fault("db")
  /\ Raise(x)
  /\ UNCHANGED <<files, broker, kicked, recorded, confirmed, outcome>>

\* open(tmp, "wb") truncates the file that has the name, or creates it.
Open(x) ==
  /\ At(x, "open")
  /\ tmp' = [tmp EXCEPT ![job[x]] = "partial"]
  /\ fd' = [fd EXCEPT ![x] = "tmp"]
  /\ Proceed(x)
  /\ UNCHANGED <<job, attempt, final, broker, kicked, recorded, confirmed, outcome, faults>>

\* write, flush, fsync and close: into the file, whatever its name is by now.
Fill(x) ==
  /\ At(x, "fill")
  /\ tmp' = [tmp EXCEPT ![job[x]] = IF fd[x] = "tmp" THEN "whole" ELSE @]
  /\ final' = [final EXCEPT ![job[x]] = IF fd[x] = "final" THEN "whole" ELSE @]
  /\ fd' = [fd EXCEPT ![x] = "none"]
  /\ Proceed(x)
  /\ UNCHANGED <<job, attempt, broker, kicked, recorded, confirmed, outcome, faults>>

\* Where a file open under a name is after os.replace of that order's files.
Renamed(name) ==
  CASE name = "tmp" -> "final" [] name = "final" -> "gone" [] OTHER -> name

Replace(x) ==
  /\ At(x, "replace")
  /\ tmp[job[x]] # None
  /\ final' = [final EXCEPT ![job[x]] = tmp[job[x]]]
  /\ tmp' = [tmp EXCEPT ![job[x]] = None]
  /\ fd' = [y \in Runners |-> IF job[y] = job[x] THEN Renamed(fd[y]) ELSE fd[y]]
  /\ Proceed(x)
  /\ UNCHANGED <<job, attempt, broker, kicked, recorded, confirmed, outcome, faults>>

\* FileNotFoundError: the other process has renamed the shared .tmp away.
ReplaceFails(x) ==
  /\ At(x, "replace")
  /\ tmp[job[x]] = None
  /\ Raise(x)
  /\ UNCHANGED <<files, broker, kicked, recorded, confirmed, outcome, faults>>

Mark(x) ==
  /\ At(x, "mark")
  /\ recorded' = recorded \cup {job[x]}
  /\ Proceed(x)
  /\ UNCHANGED <<job, attempt, files, broker, kicked, confirmed, outcome, faults>>

\* The transaction fails, or commits and its acknowledgement is lost.
MarkFails(x) ==
  /\ At(x, "mark")
  /\ Fault("db")
  /\ recorded' \in {recorded, recorded \cup {job[x]}}
  /\ Raise(x)
  /\ UNCHANGED <<files, broker, kicked, confirmed, outcome>>

-----------------------------------------------------------------------------
(* The worker process and its broker connection *)

Begin(h, o) ==
  /\ job' = [job EXCEPT ![h] = o]
  /\ attempt' = [attempt EXCEPT ![h] = 1]
  /\ Goto(h, "load")

End(h) ==
  /\ job' = [job EXCEPT ![h] = None]
  /\ attempt' = [attempt EXCEPT ![h] = 1]
  /\ Goto(h, "idle")

\* prefetch_count = 1: nothing is delivered while a delivery is unacknowledged.
Deliver(h, o) ==
  /\ At(h, "idle")
  /\ live = None
  /\ queued[o] > 0
  /\ queued' = [queued EXCEPT ![o] = @ - 1]
  /\ live' = h
  /\ Begin(h, o)
  /\ UNCHANGED <<files, dead, kicked, recorded, confirmed, outcome, faults>>

Ack(h) ==
  /\ At(h, "ack")
  /\ live = h
  /\ live' = None
  /\ End(h)
  /\ UNCHANGED <<files, queued, dead, kicked, recorded, confirmed, outcome, faults>>

\* The channel of the delivery is gone: ack() raises if the client knows, and
\* goes unheard if it does not.
AckUnheard(h) ==
  /\ At(h, "ack")
  /\ live # h
  /\ Raise(h) \/ End(h)
  /\ UNCHANGED <<files, broker, kicked, recorded, confirmed, outcome, faults>>

\* Faulty variant: the queue is declared without a dead-letter exchange.
Discard(o) == UNCHANGED dead

DeadLetter(o) == dead' = [dead EXCEPT ![o] = @ + 1]

\* nack(requeue=False) moves the message to the DLQ, if the broker hears it.
Nack(h) ==
  /\ At(h, "nack")
  /\ IF live = h
       THEN live' = None /\ DeadLetter(job[h])
       ELSE UNCHANGED <<live, dead>>
  /\ End(h)
  /\ UNCHANGED <<files, queued, kicked, recorded, confirmed, outcome, faults>>

\* The broker puts the unacknowledged message back.
Requeue ==
  /\ live' = None
  /\ queued' = [o \in OrderIds |->
       IF live # None /\ job[live] = o THEN queued[o] + 1 ELSE queued[o]]

\* The connection breaks and the worker connects again; the handler of the
\* lost delivery runs on, unaware, beside the handler of the redelivery.
Disconnect ==
  /\ live # None
  /\ Fault("broker")
  /\ Requeue
  /\ UNCHANGED <<work, files, dead, kicked, recorded, confirmed, outcome>>

\* Or the client library cancels it at its await when the channel closes.
Cancel(h) ==
  /\ CanRun(h)
  /\ pc[h] \in {"load", "mark", "ack", "nack"}
  /\ live # h
  /\ End(h)
  /\ UNCHANGED <<files, broker, kicked, recorded, confirmed, outcome, faults>>

-----------------------------------------------------------------------------
\* A process dies and is restarted, with nothing in its memory.
Crash(process) ==
  LET of(x) == Process(x) = process /\ pc[x] \notin {"idle", "done", "dead"} IN
  /\ \E x \in Runners : of(x)
  /\ Fault("crash")
  /\ pc' = [x \in Runners |->
       IF ~of(x) THEN pc[x] ELSE IF x \in Tasks THEN "dead" ELSE "idle"]
  /\ job' = [x \in Runners |-> IF of(x) /\ x \in Handlers THEN None ELSE job[x]]
  /\ attempt' = [h \in Handlers |-> IF of(h) THEN 1 ELSE attempt[h]]
  /\ fd' = [x \in Runners |-> IF of(x) THEN "none" ELSE fd[x]]
  /\ IF process = "worker" THEN Requeue ELSE UNCHANGED <<live, queued>>
  /\ UNCHANGED <<tmp, final, dead, kicked, recorded, confirmed, outcome>>

Generate(x) ==
  \/ Load(x) \/ Open(x) \/ Fill(x) \/ Replace(x) \/ ReplaceFails(x) \/ Mark(x)

Task(t) == CheckTicket(t) \/ ReadTicket(t) \/ PublishConfirmed(t) \/ Generate(t)

Handle(h) == Generate(h) \/ Ack(h) \/ AckUnheard(h) \/ Nack(h)

Step(x) == (x \in Tasks /\ Task(x)) \/ (x \in Handlers /\ Handle(x))

Deliveries == \E h \in Handlers, o \in OrderIds : Deliver(h, o)

Fails ==
  \/ \E t \in Tasks : PublishFails(t)
  \/ \E x \in Runners : LoadFails(x) \/ MarkFails(x)
  \/ \E h \in Handlers : Cancel(h)
  \/ Disconnect
  \/ \E process \in {"api", "worker"} : Crash(process)

\* Nothing is left to do: the tasks are over and the worker waits for messages.
Rest ==
  /\ \A t \in Tasks : pc[t] \in {"done", "dead"}
  /\ \A h \in Handlers : pc[h] = "idle"
  /\ \A o \in OrderIds : queued[o] = 0
  /\ UNCHANGED vars

Next ==
  \/ \E t \in Tasks, o \in OrderIds : Kick(t, o) \/ Poll(t, o)
  \/ \E x \in Runners : Step(x)
  \/ Deliveries
  \/ Fails
  \/ Rest

Spec == Init /\ [][Next]_vars

\* The event loops run every task that can go on, the broker delivers what it
\* has to a consumer that is connected, and the worker always reconnects.
FairSpec == Spec /\ (\A x \in Runners : WF_vars(Step(x))) /\ WF_vars(Deliveries)
=============================================================================
