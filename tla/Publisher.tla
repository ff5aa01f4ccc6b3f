------------------------------ MODULE Publisher ------------------------------
(***************************************************************************)
(* What publish_ticket_generation promises its callers, without            *)
(* connections: a job enters the queue at most once and only after it was  *)
(* asked for; True is answered only for a job that is in the queue.  A job *)
(* answered False may be in the queue, or may still come there.            *)
(***************************************************************************)
CONSTANT Tasks

VARIABLES
  asked,   \* the publishes that were called
  queue,   \* the jobs that reached the ticket queue
  answer   \* answer[t]: what the caller was told, "none" before that

publisher == <<asked, queue, answer>>

PublisherInit == asked = {} /\ queue = {} /\ answer = [t \in Tasks |-> "none"]

Ask(t) ==
  /\ t \notin asked
  /\ asked' = asked \cup {t}
  /\ UNCHANGED <<queue, answer>>

Enqueue(t) ==
  /\ t \in asked \ queue
  /\ queue' = queue \cup {t}
  /\ UNCHANGED <<asked, answer>>

AnswerTrue(t) ==
  /\ t \in queue
  /\ answer[t] = "none"
  /\ answer' = [answer EXCEPT ![t] = "true"]
  /\ UNCHANGED <<asked, queue>>

AnswerFalse(t) ==
  /\ t \in asked
  /\ answer[t] = "none"
  /\ answer' = [answer EXCEPT ![t] = "false"]
  /\ UNCHANGED <<asked, queue>>

PublisherNext ==
  \E t \in Tasks : Ask(t) \/ Enqueue(t) \/ AnswerTrue(t) \/ AnswerFalse(t)

PublisherSpec == PublisherInit /\ [][PublisherNext]_publisher
=============================================================================
