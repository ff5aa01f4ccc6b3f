-------------------------- MODULE TicketProperties --------------------------
(***************************************************************************)
(* What must be true of the ticket pipeline (module Tickets).              *)
(***************************************************************************)
EXTENDS Tickets

\* Whoever downloads a ticket receives a whole one, also while it is written
\* again (ticket.py:118-120: "readers never observe a half-written ticket").
ReadersSeeWholeTickets == \A t \in Tasks : outcome[t] # "partial"

\* The row names a ticket only when the file is there: the file comes first
\* and is never taken away (ticket.py:126-131, 140-147).
RecordedIsOnDisk == \A o \in recorded : final[o] # None

HandledFor(o) == live # None /\ job[live] = o

\* A job the broker confirmed is in the queue, in the hands of the worker, in
\* the DLQ, or done, whatever crashed or disconnected (pdf_worker.py:5-10).
ConfirmedJobIsKept ==
  \A o \in confirmed :
    queued[o] > 0 \/ HandledFor(o) \/ dead[o] > 0 \/ o \in recorded

\* The messages in the DLQ; those of one order are told apart by a number.
DeadLetters == UNION {{<<o, n>> : n \in 1 .. dead[o]} : o \in OrderIds}

\* A message is dead-lettered only after MaxAttempts attempts that failed:
\* losing a connection or a process costs no attempt (pdf_worker.py:8-9).
DeadLettersWereTried == MaxAttempts * Cardinality(DeadLetters) <= faults

\* The directory and the rows change as module TicketStore says.
Store == INSTANCE TicketStore WITH final <- final, recorded <- recorded

ImplementsStore == Store!StoreSpec

\* A confirmed job ends with the ticket recorded or with the message in the DLQ.
ConfirmedJobSettles ==
  \A o \in OrderIds : o \in confirmed ~> o \in recorded \/ dead[o] > 0

\* A client that asks for a ticket is served unless something fails after it
\* asked, although the result of its publish is ignored: asking again enqueues
\* again, whatever became of earlier jobs (api/v1/orders.py:122-127).
PolledTicketArrives ==
  \A o \in OrderIds, n \in 0 .. MaxFaults :
    faults = n /\ (\E t \in Tasks : pc[t] = "check" /\ job[t] = o)
      ~> o \in recorded \/ dead[o] > 0 \/ faults > n

\* Every API task comes to its end, and the worker is never busy for ever.
EveryRunEnds == \A x \in Runners : pc[x] # "idle" ~> pc[x] \in {"idle", "done", "dead"}
=============================================================================
