---------------------------- MODULE TicketProofs ----------------------------
(***************************************************************************)
(* Proofs about the ticket pipeline, for any number of orders, tasks,      *)
(* deliveries and faults.                                                  *)
(***************************************************************************)
EXTENDS TicketProperties, FiniteSetTheorems, TLAPS

USE TicketsAssumption DEF Runners, Process

-----------------------------------------------------------------------------
(* Type correctness *)

\* The initial state has its type.
LEMMA InitTyped == Init => TypeOK
  BY DEF Init, TypeOK, Labels, Contents

\* A runner that moves, or raises, keeps the types of its bookkeeping.
LEMMA RaiseTyped ==
  ASSUME TypeOK, NEW x \in Runners, Raise(x), job[x] # None
  PROVE  /\ pc' \in [Runners -> Labels]
         /\ job' \in [Runners -> OrderIds \cup {None}]
         /\ \A y \in Runners : job'[y] = None => pc'[y] \in {"idle", "done", "dead"}
         /\ attempt' \in [Handlers -> 1..MaxAttempts]
  BY DEF TypeOK, Raise, Goto, AttemptsLeft, NextAttempt, Labels

\* A generation that goes on keeps the types.
LEMMA ProceedTyped ==
  ASSUME TypeOK, NEW x \in Runners, Proceed(x),
         pc[x] \in {"load", "open", "fill", "replace", "mark"}
  PROVE  /\ pc' \in [Runners -> Labels]
         /\ \A y \in Runners : job[y] = None => pc'[y] \in {"idle", "done", "dead"}
  BY DEF TypeOK, Proceed, Goto, Generation, Labels

\* One step of Next keeps every variable typed.
LEMMA NextTyped == TypeOK /\ [Next]_vars => TypeOK'
<1> SUFFICES ASSUME TypeOK, [Next]_vars PROVE TypeOK'
  OBVIOUS
<1> USE DEF TypeOK, Contents, Labels, At, Goto
<1>1. ASSUME NEW t \in Tasks, NEW o \in OrderIds, Kick(t, o) PROVE TypeOK'
  BY <1>1 DEF Kick, files, broker
<1>2. ASSUME NEW t \in Tasks, NEW o \in OrderIds, Poll(t, o) PROVE TypeOK'
  BY <1>2 DEF Poll, files, broker
<1>3. ASSUME NEW t \in Tasks, CheckTicket(t) PROVE TypeOK'
  BY <1>3 DEF CheckTicket, files, broker
<1>4. ASSUME NEW t \in Tasks, ReadTicket(t) PROVE TypeOK'
  BY <1>4 DEF ReadTicket, files, broker
<1>5. ASSUME NEW t \in Tasks, PublishConfirmed(t) PROVE TypeOK'
  BY <1>5 DEF PublishConfirmed, Enqueue, files
<1>6. ASSUME NEW t \in Tasks, PublishFails(t) PROVE TypeOK'
  BY <1>6 DEF PublishFails, Enqueue, Fault, files
<1>7. ASSUME NEW x \in Runners, Load(x) PROVE TypeOK'
  BY <1>7, ProceedTyped DEF Load, files, broker
<1>8. ASSUME NEW x \in Runners, LoadFails(x) PROVE TypeOK'
  BY <1>8, RaiseTyped DEF LoadFails, Fault, files, broker
<1>9. ASSUME NEW x \in Runners, Open(x) PROVE TypeOK'
  BY <1>9, ProceedTyped DEF Open, broker
<1>10. ASSUME NEW x \in Runners, Fill(x) PROVE TypeOK'
  BY <1>10, ProceedTyped DEF Fill, broker
<1>11. ASSUME NEW x \in Runners, Replace(x) PROVE TypeOK'
  BY <1>11, ProceedTyped DEF Replace, Renamed, broker
<1>12. ASSUME NEW x \in Runners, ReplaceFails(x) PROVE TypeOK'
  BY <1>12, RaiseTyped DEF ReplaceFails, files, broker
<1>13. ASSUME NEW x \in Runners, Mark(x) PROVE TypeOK'
  BY <1>13, ProceedTyped DEF Mark, files, broker
<1>14. ASSUME NEW x \in Runners, MarkFails(x) PROVE TypeOK'
  BY <1>14, RaiseTyped DEF MarkFails, Fault, files, broker
<1>15. ASSUME NEW h \in Handlers, NEW o \in OrderIds, Deliver(h, o) PROVE TypeOK'
  BY <1>15 DEF Deliver, Begin, files
<1>16. ASSUME NEW h \in Handlers, Ack(h) PROVE TypeOK'
  BY <1>16 DEF Ack, End, files
<1>17. ASSUME NEW h \in Handlers, AckUnheard(h) PROVE TypeOK'
  BY <1>17, RaiseTyped DEF AckUnheard, End, files, broker
<1>18. ASSUME NEW h \in Handlers, Nack(h) PROVE TypeOK'
  BY <1>18 DEF Nack, DeadLetter, End, files
<1>19. CASE Disconnect
  BY <1>19 DEF Disconnect, Requeue, Fault, work, files
<1>20. ASSUME NEW h \in Handlers, Cancel(h) PROVE TypeOK'
  BY <1>20 DEF Cancel, End, files, broker
<1>21. ASSUME NEW process \in {"api", "worker"}, Crash(process) PROVE TypeOK'
  BY <1>21 DEF Crash, Requeue, Fault
<1>22. CASE UNCHANGED vars
  BY <1>22 DEF vars, work, files, broker
<1> QED
  BY <1>1, <1>2, <1>3, <1>4, <1>5, <1>6, <1>7, <1>8, <1>9, <1>10, <1>11, <1>12, <1>13,
     <1>14, <1>15, <1>16, <1>17, <1>18, <1>19, <1>20, <1>21, <1>22
     DEF Next, Step, Task, Handle, Generate, Deliveries, Fails, Rest

\* Every variable of the pipeline keeps its type.
THEOREM TypeCorrect == Spec => []TypeOK
  BY InitTyped, NextTyped, PTL DEF Spec
-----------------------------------------------------------------------------
(* One writer of ticket files: without the fallback only the worker writes *)

\* No task of the API generates a ticket.
OnlyWorkerWrites ==
  \A t \in Tasks : pc[t] \in {"idle", "check", "read", "publish", "done", "dead"}

\* The worker is inside write_pdf_atomic for one delivery at a time.
OneWriter == \A h, k \in Handlers : HoldsLoop(h) /\ HoldsLoop(k) => h = k

\* Between its steps a writer finds its files as it left them.
FilesAsLeft ==
  \A x \in Runners :
    /\ pc[x] = "fill" => fd[x] = "tmp"
    /\ pc[x] # "fill" => fd[x] = "none"
    /\ pc[x] = "replace" => tmp[job[x]] = "whole"
    /\ pc[x] = "mark" => final[job[x]] = "whole"

WholeOrAbsent ==
  /\ \A o \in OrderIds : final[o] \in {None, "whole"}
  /\ \A t \in Tasks : outcome[t] # "partial"

WriterInv == TypeOK /\ OnlyWorkerWrites /\ OneWriter /\ FilesAsLeft /\ WholeOrAbsent

\* Before the first generation nobody writes and there is no file.
LEMMA InitWriter == Init => WriterInv
<1> SUFFICES ASSUME Init PROVE WriterInv
  OBVIOUS
<1>1. OnlyWorkerWrites /\ OneWriter /\ FilesAsLeft
  BY DEF Init, OnlyWorkerWrites, OneWriter, FilesAsLeft, HoldsLoop
<1>2. WholeOrAbsent
  BY DEF Init, WholeOrAbsent
<1> QED
  BY <1>1, <1>2, InitTyped DEF WriterInv

\* A step of x to a label that is outside write_pdf_atomic, where x was in the
\* middle of no file; the directory stays as it is.
Away(x, label) ==
  /\ UNCHANGED files
  /\ pc[x] # "fill"
  /\ pc' = [pc EXCEPT ![x] = label]
  /\ x \in Tasks => label \notin {"load", "ack", "nack"}
  /\ \A y \in Runners \ {x} : job'[y] = job[y]
  /\ \A t \in Tasks : outcome'[t] # "partial"

\* Such a step keeps the invariant.
LEMMA AwayFromFiles ==
  ASSUME WriterInv, TypeOK', NEW x \in Runners,
         NEW label \in Labels \ {"open", "fill", "replace", "mark"}, Away(x, label)
  PROVE  WriterInv'
<1> USE DEF Away, WriterInv, TypeOK, files, Labels
<1>1. OnlyWorkerWrites'
  BY DEF OnlyWorkerWrites
<1>2. OneWriter'
  BY DEF OneWriter, HoldsLoop
<1>3. FilesAsLeft'
  BY DEF FilesAsLeft
<1>4. WholeOrAbsent'
  BY DEF WholeOrAbsent
<1> QED
  BY <1>1, <1>2, <1>3, <1>4

\* An exception takes a handler out of write_pdf_atomic, to "load" or "nack".
LEMMA RaiseLeaves ==
  ASSUME WriterInv, TypeOK', UNCHANGED <<files, outcome>>,
         NEW h \in Handlers, pc[h] # "fill", Raise(h)
  PROVE  WriterInv'
<1>1. PICK label \in {"load", "nack"} : pc' = [pc EXCEPT ![h] = label]
  BY DEF Raise, Goto
<1>2. Away(h, label)
  BY <1>1 DEF Away, Raise, WriterInv, WholeOrAbsent
<1> QED
  BY <1>1, <1>2, AwayFromFiles DEF Labels

\* Only the worker is ever at a step of the generation.
LEMMA GeneratorIsHandler ==
  ASSUME WriterInv, NEW x \in Runners,
         pc[x] \in {"load", "open", "fill", "replace", "mark"}
  PROVE  x \in Handlers
  BY DEF WriterInv, OnlyWorkerWrites

\* The steps that enter, do and leave the writing of a file.
LEMMA GenerateKeeps ==
  ASSUME WriterInv, TypeOK', NEW x \in Runners,
         Load(x) \/ Open(x) \/ Fill(x) \/ Replace(x) \/ Mark(x)
  PROVE  WriterInv'
<1>1. x \in Handlers
  BY GeneratorIsHandler DEF Load, Open, Fill, Replace, Mark, At
<1>2. job[x] \in OrderIds
  BY <1>1 DEF WriterInv, TypeOK, Load, Open, Fill, Replace, Mark, At
<1>3. \A y \in Handlers \ {x} : ~HoldsLoop(y)
  BY <1>1 DEF Load, Open, Fill, Replace, Mark, At, CanRun
<1>4. /\ pc[x] \in {"load", "open", "fill", "replace", "mark"}
      /\ pc' = [pc EXCEPT ![x] = Generation[pc[x]]]
  BY <1>1 DEF Load, Open, Fill, Replace, Mark, At, Proceed, Goto
<1>5. OnlyWorkerWrites'
  BY <1>1, <1>4 DEF WriterInv, OnlyWorkerWrites, TypeOK
<1>6. OneWriter'
  BY <1>1, <1>3, <1>4 DEF WriterInv, TypeOK, OneWriter, HoldsLoop
<1>7. FilesAsLeft' /\ WholeOrAbsent'
  <2> USE <1>1, <1>2, <1>3, <1>4
      DEF WriterInv, TypeOK, FilesAsLeft, WholeOrAbsent, HoldsLoop, OnlyWorkerWrites,
          Generation, Contents
  <2>1. CASE Load(x)
    BY <2>1 DEF Load, At, files
  <2>2. CASE Open(x)
    BY <2>2 DEF Open, At
  <2>3. CASE Fill(x)
    BY <2>3 DEF Fill, At
  <2>4. CASE Replace(x)
    BY <2>4 DEF Replace, At, Renamed
  <2>5. CASE Mark(x)
    BY <2>5 DEF Mark, At, files
  <2> QED
    BY <2>1, <2>2, <2>3, <2>4, <2>5
<1> QED
  BY <1>5, <1>6, <1>7 DEF WriterInv
\* A crash leaves the directory alone and takes every runner of the process
\* out of whatever it was doing.
LEMMA CrashKeeps ==
  ASSUME WriterInv, TypeOK', NEW process \in {"api", "worker"}, Crash(process)
  PROVE  WriterInv'
<1> USE DEF WriterInv, TypeOK, Crash
<1>1. OnlyWorkerWrites'
  BY DEF OnlyWorkerWrites
<1>2. OneWriter'
  BY DEF OneWriter, HoldsLoop
<1>3. FilesAsLeft'
  BY DEF FilesAsLeft
<1>4. WholeOrAbsent'
  BY DEF WholeOrAbsent
<1> QED
  BY <1>1, <1>2, <1>3, <1>4

\* Without the fallback every step keeps the invariant of the writers.
LEMMA NextKeeps ==
  ASSUME Fallback = FALSE, WriterInv, [Next]_vars
  PROVE  WriterInv'
<1>t. TypeOK'
  BY NextTyped DEF WriterInv
<1>o. \A t \in Tasks : outcome[t] # "partial"
  BY DEF WriterInv, WholeOrAbsent
<1> USE <1>t, <1>o DEF At, Goto
<1>l. {"idle", "check", "read", "publish", "load", "done"}
        \subseteq Labels \ {"open", "fill", "replace", "mark"}
  BY DEF Labels
<1>1. ASSUME NEW t \in Tasks, NEW o \in OrderIds, Kick(t, o) \/ Poll(t, o)
      PROVE  WriterInv'
  <2>1. CASE Kick(t, o)
    <3>1. Away(t, "publish")
      BY <2>1 DEF Away, Kick
    <3> QED
      BY <3>1, <1>l, AwayFromFiles
  <2>2. CASE Poll(t, o)
    <3>1. Away(t, "check")
      BY <2>2 DEF Away, Poll
    <3> QED
      BY <3>1, <1>l, AwayFromFiles
  <2> QED
    BY <1>1, <2>1, <2>2
<1>2. ASSUME NEW t \in Tasks, CheckTicket(t) PROVE WriterInv'
  <2>1. \A u \in Tasks : outcome'[u] # "partial"
    BY <1>2 DEF CheckTicket, WriterInv, TypeOK
  <2>2. Away(t, "read") \/ Away(t, "publish")
    BY <1>2, <2>1 DEF Away, CheckTicket
  <2> QED
    BY <2>2, <1>l, AwayFromFiles
<1>3. ASSUME NEW t \in Tasks, ReadTicket(t) PROVE WriterInv'
  <2>1. job[t] \in OrderIds
    BY <1>3 DEF ReadTicket, WriterInv, TypeOK
  <2>2. final[job[t]] # "partial"
    BY <2>1 DEF WriterInv, WholeOrAbsent, TypeOK, Contents
  <2>3. \A u \in Tasks : outcome'[u] # "partial"
    BY <1>3, <2>2 DEF ReadTicket, WriterInv, TypeOK
  <2>4. Away(t, "done")
    BY <1>3, <2>3 DEF Away, ReadTicket
  <2> QED
    BY <2>4, <1>l, AwayFromFiles
<1>4. ASSUME NEW t \in Tasks, PublishConfirmed(t) \/ PublishFails(t)
      PROVE  WriterInv'
  <2>1. Away(t, "done")
    BY <1>4 DEF Away, PublishConfirmed, PublishFails
  <2> QED
    BY <2>1, <1>l, AwayFromFiles
<1>5. ASSUME NEW x \in Runners, LoadFails(x) \/ MarkFails(x) PROVE WriterInv'
  BY <1>5, GeneratorIsHandler, RaiseLeaves DEF LoadFails, MarkFails
<1>6. ASSUME NEW x \in Runners, ReplaceFails(x) PROVE WriterInv'
  BY <1>6, GeneratorIsHandler, RaiseLeaves DEF ReplaceFails
<1>7. ASSUME NEW h \in Handlers, NEW o \in OrderIds, Deliver(h, o) PROVE WriterInv'
  <2>1. Away(h, "load")
    BY <1>7 DEF Away, Deliver, Begin
  <2> QED
    BY <2>1, <1>l, AwayFromFiles
<1>8. ASSUME NEW h \in Handlers, pc[h] # "fill", End(h), UNCHANGED <<files, outcome>>
      PROVE  WriterInv'
  <2>1. Away(h, "idle")
    BY <1>8 DEF Away, End
  <2> QED
    BY <2>1, <1>l, AwayFromFiles
<1>9. ASSUME NEW h \in Handlers, Ack(h) \/ AckUnheard(h) \/ Nack(h) \/ Cancel(h)
      PROVE  WriterInv'
  BY <1>9, <1>8, RaiseLeaves DEF Ack, AckUnheard, Nack, Cancel
<1>10. CASE Disconnect \/ UNCHANGED vars
  BY <1>10 DEF Disconnect, vars, work, files, WriterInv, OnlyWorkerWrites, OneWriter,
     HoldsLoop, FilesAsLeft, WholeOrAbsent
<1> QED
  BY <1>1, <1>2, <1>3, <1>4, <1>5, <1>6, <1>7, <1>8, <1>9, <1>10, GenerateKeeps, CrashKeeps
     DEF Next, Step, Task, Handle, Generate, Deliveries, Fails, Rest

-----------------------------------------------------------------------------
(* What follows *)

\* Without the fallback nobody is ever served a half-written ticket, however
\* often the worker, its connection and the database fail.
THEOREM WholeTickets ==
  ASSUME Fallback = FALSE
  PROVE  Spec => []ReadersSeeWholeTickets
<1>1. WriterInv => ReadersSeeWholeTickets
  BY DEF WriterInv, WholeOrAbsent, ReadersSeeWholeTickets
<1>2. WriterInv /\ [Next]_vars => WriterInv'
  BY NextKeeps
<1> QED
  BY <1>1, <1>2, InitWriter, PTL DEF Spec

\* A step that leaves the directory and the rows alone is a step of the store.
LEMMA StoreStep ==
  ASSUME WriterInv, [Next]_vars
  PROVE  [Store!StoreNext]_Store!store
<1> USE DEF Store!StoreNext, Store!store, Store!Publish, Store!Record
<1>1. ASSUME NEW x \in Runners, Replace(x) PROVE Store!StoreNext
  <2>1. /\ job[x] \in OrderIds
        /\ tmp[job[x]] = "whole"
    BY <1>1 DEF Replace, At, WriterInv, FilesAsLeft, TypeOK
  <2>2. Store!Publish(job[x])
    BY <1>1, <2>1 DEF Replace
  <2> QED
    BY <2>1, <2>2
<1>2. ASSUME NEW x \in Runners, Mark(x) \/ MarkFails(x)
      PROVE  Store!StoreNext \/ UNCHANGED Store!store
  BY <1>2, GeneratorIsHandler DEF Mark, MarkFails, At, files, WriterInv, FilesAsLeft, TypeOK
<1>3. ASSUME NEW x \in Runners, Fill(x) PROVE UNCHANGED Store!store
  BY <1>3, GeneratorIsHandler DEF Fill, At, WriterInv, FilesAsLeft, TypeOK
<1>4. ASSUME NEW x \in Runners, Load(x) \/ LoadFails(x) \/ Open(x) \/ ReplaceFails(x)
      PROVE  UNCHANGED Store!store
  BY <1>4 DEF Load, LoadFails, Open, ReplaceFails, files
<1>5. ASSUME NEW t \in Tasks,
             \/ \E o \in OrderIds : Kick(t, o) \/ Poll(t, o)
             \/ CheckTicket(t) \/ ReadTicket(t) \/ PublishConfirmed(t) \/ PublishFails(t)
      PROVE  UNCHANGED Store!store
  BY <1>5 DEF Kick, Poll, CheckTicket, ReadTicket, PublishConfirmed, PublishFails, files
<1>6. ASSUME NEW h \in Handlers,
             \/ \E o \in OrderIds : Deliver(h, o)
             \/ Ack(h) \/ AckUnheard(h) \/ Nack(h) \/ Cancel(h)
      PROVE  UNCHANGED Store!store
  BY <1>6 DEF Deliver, Ack, AckUnheard, Nack, Cancel, files
<1>7. CASE Disconnect \/ (\E process \in {"api", "worker"} : Crash(process)) \/ UNCHANGED vars
  BY <1>7 DEF Disconnect, Crash, vars, files
<1> QED
  BY <1>1, <1>2, <1>3, <1>4, <1>5, <1>6, <1>7
     DEF Next, Step, Task, Handle, Generate, Deliveries, Fails, Rest

\* Without the fallback the pipeline implements the store: a ticket appears
\* whole, is replaced by whole ones, and is recorded after it appeared.
THEOREM TicketsImplementStore ==
  ASSUME Fallback = FALSE
  PROVE  Spec => ImplementsStore
<1>1. Init => Store!StoreInit
  BY DEF Init, Store!StoreInit
<1>2. WriterInv /\ [Next]_vars => WriterInv'
  BY NextKeeps
<1>3. WriterInv /\ [Next]_vars => [Store!StoreNext]_Store!store
  BY StoreStep
<1> QED
  BY <1>1, <1>2, <1>3, InitWriter, PTL DEF Spec, ImplementsStore, Store!StoreSpec
-----------------------------------------------------------------------------
(* No confirmed job is lost, with and without the fallback *)

\* The unacknowledged delivery has a handler at work on it, and a handler
\* that is about to acknowledge has recorded its ticket.
DeliveryInv ==
  /\ \A h \in Handlers : live = h => pc[h] # "idle"
  /\ \A h \in Handlers : pc[h] = "ack" => job[h] \in recorded

KeptInv == TypeOK /\ DeliveryInv /\ ConfirmedJobIsKept

\* Nothing is confirmed before the first publish.
LEMMA InitKept == Init => KeptInv
<1> SUFFICES ASSUME Init PROVE KeptInv
  OBVIOUS
<1>1. DeliveryInv /\ ConfirmedJobIsKept
  BY DEF Init, DeliveryInv, ConfirmedJobIsKept
<1> QED
  BY <1>1, InitTyped DEF KeptInv

\* A job that goes back to the queue is still kept.
LEMMA RequeueKeeps ==
  ASSUME KeptInv, Requeue, UNCHANGED <<dead, recorded, confirmed>>
  PROVE  ConfirmedJobIsKept'
<1>1. SUFFICES ASSUME NEW o \in confirmed
               PROVE  queued'[o] > 0 \/ dead[o] > 0 \/ o \in recorded
  BY DEF Requeue, ConfirmedJobIsKept, HandledFor
<1>2. queued[o] \in Nat /\ o \in OrderIds
  BY <1>1 DEF KeptInv, TypeOK
<1>3. CASE HandledFor(o)
  BY <1>1, <1>2, <1>3 DEF Requeue, HandledFor
<1>4. CASE ~HandledFor(o)
  BY <1>1, <1>2, <1>4 DEF Requeue, HandledFor, KeptInv, ConfirmedJobIsKept
<1> QED
  BY <1>3, <1>4

\* A step that leaves the broker and every handler's job alone keeps all jobs.
LEMMA SameBroker ==
  ASSUME KeptInv, UNCHANGED <<broker, confirmed>>, recorded \subseteq recorded',
         live # None => job'[live] = job[live]
  PROVE  ConfirmedJobIsKept'
  BY DEF KeptInv, ConfirmedJobIsKept, HandledFor, broker

\* Every step keeps every confirmed job.
LEMMA NextKept == KeptInv /\ [Next]_vars => KeptInv'
<1> SUFFICES ASSUME KeptInv, [Next]_vars PROVE KeptInv'
  OBVIOUS
<1>t. TypeOK /\ TypeOK'
  BY NextTyped DEF KeptInv
<1> USE <1>t DEF At, Goto
<1>1. ASSUME NEW t \in Tasks, NEW o \in OrderIds, Kick(t, o) \/ Poll(t, o)
      PROVE  DeliveryInv' /\ ConfirmedJobIsKept'
  <2>1. DeliveryInv'
    BY <1>1 DEF Kick, Poll, KeptInv, DeliveryInv, TypeOK, broker
  <2>2. live # None => job'[live] = job[live]
    BY <1>1 DEF Kick, Poll, TypeOK
  <2> QED
    BY <1>1, <2>1, <2>2, SameBroker DEF Kick, Poll
<1>2. ASSUME NEW t \in Tasks, CheckTicket(t) \/ ReadTicket(t)
      PROVE  DeliveryInv' /\ ConfirmedJobIsKept'
  <2>1. DeliveryInv'
    BY <1>2 DEF CheckTicket, ReadTicket, KeptInv, DeliveryInv, TypeOK, broker
  <2> QED
    BY <1>2, <2>1, SameBroker DEF CheckTicket, ReadTicket
<1>3. ASSUME NEW t \in Tasks, PublishConfirmed(t) \/ PublishFails(t)
      PROVE  DeliveryInv' /\ ConfirmedJobIsKept'
  <2>1. DeliveryInv'
    BY <1>3 DEF PublishConfirmed, PublishFails, KeptInv, DeliveryInv, TypeOK
  <2>2. job[t] \in OrderIds
    BY <1>3 DEF PublishConfirmed, PublishFails, TypeOK
  <2>3. ConfirmedJobIsKept'
    BY <1>3, <2>2
       DEF PublishConfirmed, PublishFails, Enqueue, KeptInv, ConfirmedJobIsKept, HandledFor, TypeOK
  <2> QED
    BY <2>1, <2>3
<1>4. ASSUME NEW x \in Runners,
             \/ Load(x) \/ LoadFails(x) \/ Open(x) \/ Fill(x) \/ Replace(x)
             \/ ReplaceFails(x) \/ Mark(x) \/ MarkFails(x)
      PROVE  DeliveryInv' /\ ConfirmedJobIsKept'
  <2>1. UNCHANGED <<job, broker, confirmed>> /\ recorded \subseteq recorded'
    BY <1>4 DEF Load, LoadFails, Open, Fill, Replace, ReplaceFails, Mark, MarkFails, Raise, files
  <2>2. \/ /\ pc' = [pc EXCEPT ![x] = Generation[pc[x]]]
           /\ pc[x] \in {"load", "open", "fill", "replace"}
        \/ /\ pc' = [pc EXCEPT ![x] = "ack"]
           /\ job[x] \in recorded'
        \/ \E label \in {"done", "load", "nack"} : pc' = [pc EXCEPT ![x] = label]
    BY <1>4 DEF Load, LoadFails, Open, Fill, Replace, ReplaceFails, Mark, MarkFails, Raise,
       Proceed, Generation
  <2>3. DeliveryInv'
    BY <2>1, <2>2 DEF KeptInv, DeliveryInv, TypeOK, Generation, broker
  <2> QED
    BY <2>1, <2>3, SameBroker
<1>5. ASSUME NEW h \in Handlers, NEW o \in OrderIds, Deliver(h, o)
      PROVE  DeliveryInv' /\ ConfirmedJobIsKept'
  <2>1. DeliveryInv'
    BY <1>5 DEF Deliver, Begin, KeptInv, DeliveryInv, TypeOK
  <2>2. ConfirmedJobIsKept'
    BY <1>5 DEF Deliver, Begin, KeptInv, ConfirmedJobIsKept, HandledFor, TypeOK
  <2> QED
    BY <2>1, <2>2
<1>6. ASSUME NEW h \in Handlers, Ack(h)
      PROVE  DeliveryInv' /\ ConfirmedJobIsKept'
  <2>1. DeliveryInv'
    BY <1>6 DEF Ack, End, KeptInv, DeliveryInv, TypeOK
  <2>2. ConfirmedJobIsKept'
    BY <1>6 DEF Ack, End, KeptInv, DeliveryInv, ConfirmedJobIsKept, HandledFor, TypeOK
  <2> QED
    BY <2>1, <2>2
<1>7. ASSUME NEW h \in Handlers, AckUnheard(h) \/ Cancel(h)
      PROVE  DeliveryInv' /\ ConfirmedJobIsKept'
  <2>1. DeliveryInv'
    BY <1>7 DEF AckUnheard, Cancel, Raise, End, KeptInv, DeliveryInv, TypeOK, broker
  <2>2. live # None => job'[live] = job[live]
    BY <1>7 DEF AckUnheard, Cancel, Raise, End, TypeOK
  <2> QED
    BY <1>7, <2>1, <2>2, SameBroker DEF AckUnheard, Cancel
<1>8. ASSUME NEW h \in Handlers, Nack(h)
      PROVE  DeliveryInv' /\ ConfirmedJobIsKept'
  <2>1. DeliveryInv'
    BY <1>8 DEF Nack, End, KeptInv, DeliveryInv, TypeOK
  <2>2. ConfirmedJobIsKept'
    BY <1>8 DEF Nack, DeadLetter, End, KeptInv, ConfirmedJobIsKept, HandledFor, TypeOK
  <2> QED
    BY <2>1, <2>2
<1>9. CASE Disconnect
  <2>1. DeliveryInv'
    BY <1>9 DEF Disconnect, Requeue, work, KeptInv, DeliveryInv, TypeOK
  <2> QED
    BY <1>9, <2>1, RequeueKeeps DEF Disconnect, KeptInv
<1>10. ASSUME NEW process \in {"api", "worker"}, Crash(process)
       PROVE  DeliveryInv' /\ ConfirmedJobIsKept'
  <2>1. DeliveryInv'
    BY <1>10 DEF Crash, Requeue, KeptInv, DeliveryInv, TypeOK
  <2>2. CASE process = "worker"
    BY <1>10, <2>1, <2>2, RequeueKeeps DEF Crash
  <2>3. CASE process = "api"
    <3>1. live # None => job'[live] = job[live]
      BY <1>10, <2>3 DEF Crash, TypeOK
    <3> QED
      BY <1>10, <2>1, <2>3, <3>1, SameBroker DEF Crash, broker
  <2> QED
    BY <2>2, <2>3
<1>11. CASE UNCHANGED vars
  BY <1>11 DEF vars, work, broker, KeptInv, DeliveryInv, ConfirmedJobIsKept, HandledFor
<1> QED
  BY <1>1, <1>2, <1>3, <1>4, <1>5, <1>6, <1>7, <1>8, <1>9, <1>10, <1>11
     DEF KeptInv, Next, Step, Task, Handle, Generate, Deliveries, Fails, Rest

\* A job whose publish the broker confirmed is queued, being handled,
\* dead-lettered, or its ticket is recorded, whatever fails and however often.
THEOREM ConfirmedKept == Spec => []ConfirmedJobIsKept
<1>1. KeptInv => ConfirmedJobIsKept
  BY DEF KeptInv
<1> QED
  BY <1>1, InitKept, NextKept, PTL DEF Spec
-----------------------------------------------------------------------------
(* The row comes after the file, with and without the fallback *)

\* Whoever is about to write the row has its file in place.
FileFirst == \A x \in Runners : pc[x] = "mark" => final[job[x]] # None

DiskInv == TypeOK /\ FileFirst /\ RecordedIsOnDisk

\* A step that records nothing, takes no file away and brings no runner to the
\* row keeps the files in place.
Harmless ==
  /\ UNCHANGED recorded
  /\ \A o \in OrderIds : final[o] # None => final'[o] # None
  /\ \A x \in Runners : pc'[x] = "mark" => pc[x] = "mark" /\ job'[x] = job[x]

\* A harmless step keeps rows and files together.
LEMMA HarmlessKeeps ==
  ASSUME DiskInv, TypeOK', Harmless
  PROVE  DiskInv'
<1>1. FileFirst'
  BY DEF Harmless, DiskInv, FileFirst, TypeOK
<1>2. RecordedIsOnDisk'
  BY DEF Harmless, DiskInv, RecordedIsOnDisk, TypeOK
<1> QED
  BY <1>1, <1>2 DEF DiskInv

\* A runner that comes or goes between two messages is not at the row, and
\* leaves the directory alone.
LEMMA QuietSteps ==
  ASSUME TypeOK, Next,
         ~ \E x \in Runners : Fill(x) \/ Replace(x) \/ Mark(x) \/ MarkFails(x)
  PROVE  Harmless
<1> USE DEF TypeOK, At, Goto, Harmless, files
<1>1. ASSUME NEW t \in Tasks, NEW o \in OrderIds, Kick(t, o) \/ Poll(t, o) PROVE Harmless
  BY <1>1 DEF Kick, Poll
<1>2. ASSUME NEW t \in Tasks, CheckTicket(t) \/ ReadTicket(t) PROVE Harmless
  BY <1>2 DEF CheckTicket, ReadTicket
<1>3. ASSUME NEW t \in Tasks, PublishConfirmed(t) \/ PublishFails(t) PROVE Harmless
  BY <1>3 DEF PublishConfirmed, PublishFails
<1>4. ASSUME NEW x \in Runners, Load(x) \/ Open(x) PROVE Harmless
  BY <1>4 DEF Load, Open, Proceed, Generation
<1>5. ASSUME NEW x \in Runners, LoadFails(x) \/ ReplaceFails(x) PROVE Harmless
  BY <1>5 DEF LoadFails, ReplaceFails, Raise
<1>6. ASSUME NEW h \in Handlers, NEW o \in OrderIds, Deliver(h, o) PROVE Harmless
  BY <1>6 DEF Deliver, Begin
<1>7. ASSUME NEW h \in Handlers, Ack(h) \/ Nack(h) \/ Cancel(h) PROVE Harmless
  BY <1>7 DEF Ack, Nack, Cancel, End
<1>8. ASSUME NEW h \in Handlers, AckUnheard(h) PROVE Harmless
  BY <1>8 DEF AckUnheard, Raise, End
<1>9. ASSUME NEW process \in {"api", "worker"}, Crash(process) PROVE Harmless
  BY <1>9 DEF Crash
<1>10. CASE Disconnect \/ Rest
  BY <1>10 DEF Disconnect, Rest, vars, work
<1> QED
  BY <1>1, <1>2, <1>3, <1>4, <1>5, <1>6, <1>7, <1>8, <1>9, <1>10
     DEF Next, Step, Task, Handle, Generate, Deliveries, Fails

\* Every step keeps the file of every row, and of every row about to be written.
LEMMA NextDisk == DiskInv /\ [Next]_vars => DiskInv'
<1> SUFFICES ASSUME DiskInv, [Next]_vars PROVE DiskInv'
  OBVIOUS
<1>t. TypeOK /\ TypeOK'
  BY NextTyped DEF DiskInv
<1> USE <1>t DEF At, Goto
<1>1. ASSUME NEW x \in Runners, Fill(x) PROVE DiskInv'
  BY <1>1, HarmlessKeeps DEF Fill, Harmless, Proceed, Generation, TypeOK
<1>2. ASSUME NEW x \in Runners, Replace(x) PROVE DiskInv'
  <2>1. job[x] \in OrderIds /\ tmp[job[x]] # None /\ final' = [final EXCEPT ![job[x]] = tmp[job[x]]]
    BY <1>2 DEF Replace, TypeOK
  <2>2. \A o \in OrderIds : final[o] # None => final'[o] # None
    BY <2>1 DEF TypeOK
  <2>3. FileFirst'
    BY <1>2, <2>1, <2>2 DEF Replace, Proceed, Generation, DiskInv, FileFirst, TypeOK
  <2>4. RecordedIsOnDisk'
    BY <1>2, <2>2 DEF Replace, DiskInv, RecordedIsOnDisk, TypeOK
  <2> QED
    BY <2>3, <2>4 DEF DiskInv
<1>3. ASSUME NEW x \in Runners, Mark(x) \/ MarkFails(x) PROVE DiskInv'
  <2>1. /\ recorded' \subseteq recorded \cup {job[x]}
        /\ final[job[x]] # None
        /\ UNCHANGED <<final, job>>
    BY <1>3 DEF Mark, MarkFails, Raise, files, DiskInv, FileFirst
  <2>2. \A y \in Runners : pc'[y] = "mark" => pc[y] = "mark"
    BY <1>3 DEF Mark, MarkFails, Raise, Proceed, Generation, TypeOK
  <2>3. FileFirst' /\ RecordedIsOnDisk'
    BY <2>1, <2>2 DEF DiskInv, FileFirst, RecordedIsOnDisk
  <2> QED
    BY <2>3 DEF DiskInv
<1>4. CASE /\ Next
           /\ ~ \E x \in Runners : Fill(x) \/ Replace(x) \/ Mark(x) \/ MarkFails(x)
  BY <1>4, QuietSteps, HarmlessKeeps
<1>5. CASE UNCHANGED vars
  BY <1>5, HarmlessKeeps DEF vars, work, files, Harmless
<1> QED
  BY <1>1, <1>2, <1>3, <1>4, <1>5

\* A row names a ticket only when the file is there, whichever processes write
\* it at once and whatever fails between its replacement and the row
\* (ticket.py:126-131, 140-147).
THEOREM RecordedOnDisk == Spec => []RecordedIsOnDisk
<1>1. Init => DiskInv
  BY InitTyped DEF Init, DiskInv, FileFirst, RecordedIsOnDisk
<1>2. DiskInv => RecordedIsOnDisk
  BY DEF DiskInv
<1> QED
  BY <1>1, <1>2, NextDisk, PTL DEF Spec
-----------------------------------------------------------------------------
(* Every dead letter was tried: the failures it took, counted *)

\* The attempts of the delivery in h that failed so far.
Failures(h) == IF pc[h] = "nack" THEN MaxAttempts ELSE attempt[h] - 1

\* What the broker's one unacknowledged delivery has cost.
Spent == IF live = None THEN 0 ELSE Failures(live)

TriedInv ==
  /\ IsFiniteSet(DeadLetters)
  /\ MaxAttempts * Cardinality(DeadLetters) + Spent <= faults

\* One more dead letter of o is one more letter.
LEMMA OneMoreLetter ==
  ASSUME TypeOK, NEW o \in OrderIds, DeadLetter(o), IsFiniteSet(DeadLetters)
  PROVE  /\ IsFiniteSet(DeadLetters')
         /\ Cardinality(DeadLetters') = Cardinality(DeadLetters) + 1
<1> DEFINE letter == <<o, dead[o] + 1>>
<1>1. dead \in [OrderIds -> Nat] /\ dead' = [dead EXCEPT ![o] = @ + 1]
  BY DEF TypeOK, DeadLetter
<1>2. ASSUME NEW p \in OrderIds, p # o
      PROVE  {<<p, n>> : n \in 1 .. dead'[p]} = {<<p, n>> : n \in 1 .. dead[p]}
  BY <1>1, <1>2
<1>3. {<<o, n>> : n \in 1 .. dead'[o]} = {<<o, n>> : n \in 1 .. dead[o]} \cup {letter}
  BY <1>1
<1>4. DeadLetters' = DeadLetters \cup {letter}
  <2> DEFINE of(p)  == {<<p, n>> : n \in 1 .. dead[p]}
             ofN(p) == {<<p, n>> : n \in 1 .. dead'[p]}
  <2>1. \A p \in OrderIds : p # o => ofN(p) = of(p)
    BY <1>2
  <2>2. ofN(o) = of(o) \cup {letter}
    BY <1>3
  <2>3. DeadLetters = UNION {of(p) : p \in OrderIds}
    BY DEF DeadLetters
  <2>4. DeadLetters' = UNION {ofN(p) : p \in OrderIds}
    BY DEF DeadLetters
  <2> HIDE DEF of, ofN, letter
  <2> QED
    BY <2>1, <2>2, <2>3, <2>4
<1>5. letter \notin DeadLetters
  BY <1>1 DEF DeadLetters
<1> QED
  BY <1>4, <1>5, FS_AddElement

\* What a step may do short of dead-lettering: it costs the unacknowledged
\* delivery no more failures than there were faults.
Paid == UNCHANGED dead /\ Spent' + faults <= Spent + faults'

\* A failure is paid for by its fault: the attempt that ends is counted, once.
LEMMA RaisePaid ==
  ASSUME TypeOK, NEW x \in Runners, Raise(x), pc[x] \in {"load", "mark"},
         NEW kind, Fault(kind), UNCHANGED <<live, dead>>
  PROVE  Paid
  BY DEF TypeOK, Raise, Goto, AttemptsLeft, NextAttempt, Fault, Paid, Spent, Failures

\* A runner that goes on, ends or begins costs the delivery nothing.
LEMMA GoodSteps ==
  ASSUME TypeOK, UNCHANGED <<dead, attempt>>, faults <= faults', faults' \in Nat, live' \in {live, None},
         NEW x \in Runners, NEW label \in Labels \ {"nack"},
         pc[x] # "nack", pc' = [pc EXCEPT ![x] = label]
  PROVE  Paid
  BY DEF TypeOK, Paid, Spent, Failures, Labels

\* A handler whose delivery is not the broker's, or not any more.
LEMMA FreeEnds ==
  ASSUME TypeOK, NEW h \in Handlers, End(h), UNCHANGED <<dead, faults>>,
         live' \in {live, None}, live' # h
  PROVE  Paid
  BY DEF TypeOK, Paid, Spent, Failures, End, Goto

\* Every step but a dead-lettering is paid for, when nobody else renames the
\* file of a writer away.
LEMMA StepPaid ==
  ASSUME WriterInv, TypeOK', Next, ~ \E h \in Handlers : Nack(h) /\ live = h
  PROVE  Paid
<1>t. TypeOK
  BY DEF WriterInv
<1> USE <1>t DEF At, Goto
<1>1. ASSUME NEW t \in Tasks, NEW o \in OrderIds, Kick(t, o) \/ Poll(t, o) PROVE Paid
  BY <1>1, GoodSteps DEF Kick, Poll, broker, Labels, TypeOK
<1>2. ASSUME NEW t \in Tasks, CheckTicket(t) \/ ReadTicket(t) PROVE Paid
  BY <1>2, GoodSteps DEF CheckTicket, ReadTicket, broker, Labels, TypeOK
<1>3. ASSUME NEW t \in Tasks, PublishConfirmed(t) \/ PublishFails(t) PROVE Paid
  BY <1>3, GoodSteps DEF PublishConfirmed, PublishFails, Fault, Labels, TypeOK
<1>4. ASSUME NEW x \in Runners, Load(x) \/ Open(x) \/ Fill(x) \/ Replace(x) \/ Mark(x)
      PROVE  Paid
  <2>1. PICK label \in Labels \ {"nack"} : pc' = [pc EXCEPT ![x] = label]
    BY <1>4 DEF Load, Open, Fill, Replace, Mark, Proceed, Generation, Labels
  <2>2. pc[x] # "nack" /\ UNCHANGED <<attempt, live, dead, faults>>
    BY <1>4 DEF Load, Open, Fill, Replace, Mark, broker
  <2>3. UNCHANGED <<dead, attempt>> /\ faults <= faults' /\ faults' \in Nat /\ live' \in {live, None}
    BY <2>2 DEF TypeOK
  <2> QED
    BY <2>1, <2>2, <2>3, GoodSteps
<1>5. ASSUME NEW x \in Runners, LoadFails(x) \/ MarkFails(x) PROVE Paid
  BY <1>5, RaisePaid DEF LoadFails, MarkFails, broker
<1>6. ASSUME NEW x \in Runners, ReplaceFails(x) PROVE FALSE
  BY <1>6 DEF ReplaceFails, WriterInv, FilesAsLeft, Contents, TypeOK
<1>7. ASSUME NEW h \in Handlers, NEW o \in OrderIds, Deliver(h, o) PROVE Paid
  BY <1>7 DEF Deliver, Begin, TypeOK, Paid, Spent, Failures
<1>8. ASSUME NEW h \in Handlers, Ack(h) \/ Cancel(h) PROVE Paid
  BY <1>8, FreeEnds DEF Ack, Cancel, broker
<1>9. ASSUME NEW h \in Handlers, Nack(h), live # h PROVE Paid
  BY <1>9, FreeEnds DEF Nack
<1>10. ASSUME NEW h \in Handlers, AckUnheard(h) PROVE Paid
  <2>1. CASE End(h)
    BY <1>10, <2>1, FreeEnds DEF AckUnheard, broker
  <2>2. CASE Raise(h)
    BY <1>10, <2>2 DEF AckUnheard, Raise, broker, TypeOK, Paid, Spent, Failures
  <2> QED
    BY <1>10, <2>1, <2>2 DEF AckUnheard
<1>11. CASE Disconnect \/ Rest
  BY <1>11 DEF Disconnect, Requeue, Fault, Rest, vars, work, broker, TypeOK, Paid, Spent, Failures
<1>12. ASSUME NEW process \in {"api", "worker"}, Crash(process) PROVE Paid
  BY <1>12 DEF Crash, Requeue, Fault, TypeOK, Paid, Spent, Failures
<1> QED
  BY <1>1, <1>2, <1>3, <1>4, <1>5, <1>6, <1>7, <1>8, <1>9, <1>10, <1>11, <1>12
     DEF Next, Step, Task, Handle, Generate, Deliveries, Fails

\* A dead-lettering spends MaxAttempts failures, which were counted.
LEMMA NackSpends ==
  ASSUME TypeOK, NEW h \in Handlers, Nack(h), live = h, TriedInv
  PROVE  TriedInv'
<1>1. job[h] \in OrderIds /\ live # None /\ Spent = MaxAttempts
  BY DEF Nack, At, TypeOK, Spent, Failures
<1>2. DeadLetter(job[h]) /\ Spent' = 0 /\ faults' = faults
  BY DEF Nack, Spent
<1>3. /\ IsFiniteSet(DeadLetters')
      /\ Cardinality(DeadLetters') = Cardinality(DeadLetters) + 1
  BY <1>1, <1>2, OneMoreLetter DEF TriedInv
<1>4. Cardinality(DeadLetters) \in Nat
  BY FS_CardinalityType DEF TriedInv
<1> QED
  BY <1>1, <1>2, <1>3, <1>4 DEF TriedInv, TypeOK

\* Every step keeps the count.
LEMMA NextTried ==
  ASSUME WriterInv, WriterInv', TriedInv, [Next]_vars
  PROVE  TriedInv'
<1>1. CASE \E h \in Handlers : Nack(h) /\ live = h
  BY <1>1, NackSpends DEF WriterInv
<1>2. ASSUME Paid PROVE TriedInv'
  <2>1. DeadLetters' = DeadLetters
    BY <1>2 DEF Paid, DeadLetters
  <2>2. /\ Cardinality(DeadLetters) \in Nat
        /\ Spent \in Int /\ Spent' \in Int /\ faults \in Nat /\ faults' \in Nat
    BY FS_CardinalityType DEF TriedInv, WriterInv, TypeOK, Spent, Failures
  <2>3. ASSUME NEW c \in Nat, NEW s \in Int, NEW t \in Int, NEW f \in Nat, NEW g \in Nat,
               MaxAttempts * c + s <= f, t + f <= s + g
        PROVE  MaxAttempts * c + t <= g
    BY <2>3
  <2>4. MaxAttempts * Cardinality(DeadLetters) + Spent' <= faults'
    BY <1>2, <2>2, <2>3 DEF Paid, TriedInv
  <2> QED
    BY <2>1, <2>4 DEF TriedInv
<1>3. CASE Next /\ ~ \E h \in Handlers : Nack(h) /\ live = h
  BY <1>2, <1>3, StepPaid DEF WriterInv
<1>4. CASE UNCHANGED vars
  BY <1>2, <1>4 DEF vars, work, broker, Paid, Spent, Failures, WriterInv, TypeOK
<1> QED
  BY <1>1, <1>3, <1>4

\* Without the fallback a job goes to the DLQ only after MaxAttempts attempts
\* that failed, each of them by a fault of its own: a lost connection, a crash
\* or a lost acknowledgement costs no attempt (pdf_worker.py:8-9).
THEOREM DeadWereTried ==
  ASSUME Fallback = FALSE
  PROVE  Spec => []DeadLettersWereTried
<1>1. Init => WriterInv /\ TriedInv
  <2> SUFFICES ASSUME Init PROVE TriedInv
    BY InitWriter
  <2>1. DeadLetters = {} /\ Spent = 0 /\ faults = 0
    BY DEF Init, DeadLetters, Spent
  <2> QED
    BY <2>1, FS_EmptySet DEF TriedInv
<1>2. WriterInv /\ [Next]_vars => WriterInv'
  BY NextKeeps
<1>3. WriterInv /\ WriterInv' /\ TriedInv /\ [Next]_vars => TriedInv'
  BY NextTried
<1>4. WriterInv /\ TriedInv => DeadLettersWereTried
  <2> SUFFICES ASSUME WriterInv, TriedInv PROVE DeadLettersWereTried
    OBVIOUS
  <2>1. /\ Cardinality(DeadLetters) \in Nat
        /\ Spent \in Nat
    BY FS_CardinalityType DEF TriedInv, WriterInv, TypeOK, Spent, Failures
  <2> QED
    BY <2>1 DEF TriedInv, DeadLettersWereTried, WriterInv, TypeOK
<1> QED
  BY <1>1, <1>2, <1>3, <1>4, PTL DEF Spec
=============================================================================
