--------------------------------- MODULE Bus ---------------------------------
(***************************************************************************)
(* RabbitMessageBus: the publishes of one API process over one connection  *)
(* and one channel that they share, open lazily, and drop when one of them *)
(* fails.  A publish yields while it dials, while it opens and declares,   *)
(* while it waits for the confirm and while it closes; the others run      *)
(* there and find, or replace, what it relies on.                          *)
(*                                                                         *)
(*   idle -> (dial ->) (open ->) publish -> done,                          *)
(*   from dial, open or publish, failing: -> (close ->) done               *)
(*                                                                         *)
(* A publish dials at most once, so a connection is named by the publish   *)
(* that dialled it, and a channel by its connection: nothing closes the    *)
(* one without the other.                                                  *)
(***************************************************************************)
EXTENDS Integers

CONSTANTS
  Tasks,     \* one call of publish_ticket_generation each
  None,
  MaxFaults  \* how often the broker or the network fails

ASSUME BusAssumption == None \notin Tasks /\ MaxFaults \in Nat

VARIABLES
  pc,          \* pc[t]: the await at which publish t stands
  connection,  \* self._connection
  channel,     \* self._channel, by its connection
  via,         \* via[t]: the connection t waits for
  link,        \* link[c]: the state of connection c
  wire,        \* wire[t]: the connection that carries the message of t
  queue,       \* the messages that reached the ticket queue
  answer,      \* answer[t]: what publish t returned
  faults,      \* how often something failed
  raced,       \* auxiliary: the connections dialled while another was
  troubled     \* auxiliary: a fault may still be felt

attrs == <<connection, channel>>
aux   == <<faults, raced, troubled>>
vars  == <<pc, attrs, via, link, wire, queue, answer, aux>>

Labels == {"idle", "dial", "open", "publish", "close", "done"}

\* "half": the peer is gone and the client does not know it yet.
LinkStates == {"none", "open", "half", "closed"}

TypeOK ==
  /\ pc \in [Tasks -> Labels]
  /\ connection \in Tasks \cup {None}
  /\ channel \in Tasks \cup {None}
  /\ via \in [Tasks -> Tasks \cup {None}]
  /\ link \in [Tasks -> LinkStates]
  /\ wire \in [Tasks -> Tasks \cup {None}]
  /\ queue \subseteq Tasks
  /\ answer \in [Tasks -> {"none", "true", "false"}]
  /\ faults \in 0 .. MaxFaults
  /\ raced \subseteq Tasks
  /\ troubled \in BOOLEAN

Init ==
  /\ pc = [t \in Tasks |-> "idle"]
  /\ connection = None
  /\ channel = None
  /\ via = [t \in Tasks |-> None]
  /\ link = [c \in Tasks |-> "none"]
  /\ wire = [t \in Tasks |-> None]
  /\ queue = {}
  /\ answer = [t \in Tasks |-> "none"]
  /\ faults = 0
  /\ raced = {}
  /\ troubled = FALSE

-----------------------------------------------------------------------------
(* _ensure *)

\* Neither None nor is_closed; a half-dead connection still passes for open.
Usable(c) == c # None /\ link[c] \in {"open", "half"}

Goto(t, label) == pc' = [pc EXCEPT ![t] = label]

\* default_exchange.publish on the channel of connection c: the message is
\* on its way if c carries anything.
Send(t, c) ==
  /\ Goto(t, "publish")
  /\ via' = [via EXCEPT ![t] = c]
  /\ wire' = [wire EXCEPT ![t] = IF link[c] = "open" THEN c ELSE None]

\* The second half of _ensure, on connection c: use the channel that is
\* there, whatever connection it is of, or open one.
UseChannel(t, c) ==
  IF Usable(channel)
    THEN Send(t, channel)
    ELSE Goto(t, "open") /\ via' = [via EXCEPT ![t] = c] /\ UNCHANGED wire

Dialling == {t \in Tasks : pc[t] = "dial"}

\* Nothing is under way and the bus holds no half-dead connection.
Calm ==
  /\ \A t \in Tasks : pc[t] \in {"idle", "done"}
  /\ \A c \in {connection, channel} \ {None} : link[c] # "half"

Dial(t) ==
  /\ pc[t] = "idle"
  /\ ~Usable(connection)
  /\ channel' = None
  /\ Goto(t, "dial")
  /\ raced' = raced \cup IF Dialling = {} THEN {} ELSE Dialling \cup {t}
  /\ troubled' = (troubled /\ ~Calm)
  /\ UNCHANGED <<connection, via, link, wire, queue, answer, faults>>

Reuse(t) ==
  /\ pc[t] = "idle"
  /\ Usable(connection)
  /\ UseChannel(t, connection)
  /\ troubled' = (troubled /\ ~Calm)
  /\ UNCHANGED <<attrs, link, queue, answer, faults, raced>>

\* Faulty variant: a connection that a slower dial finds in place is closed,
\* whoever publishes on it.
DialledClosing(t) ==
  /\ pc[t] = "dial"
  /\ connection' = t
  /\ link' = [c \in Tasks |-> IF c = t THEN "open"
                             ELSE IF c = connection THEN "closed" ELSE link[c]]
  /\ Goto(t, "open")
  /\ via' = [via EXCEPT ![t] = t]
  /\ UNCHANGED <<channel, wire, queue, answer, aux>>

\* The new connection replaces whatever another dial has left there.
Dialled(t) ==
  /\ pc[t] = "dial"
  /\ connection' = t
  /\ link' = [link EXCEPT ![t] = "open"]
  /\ IF Usable(channel)
       THEN Send(t, channel)
       ELSE Goto(t, "open") /\ via' = [via EXCEPT ![t] = t] /\ UNCHANGED wire
  /\ UNCHANGED <<channel, queue, answer, aux>>

\* channel(), confirm_delivery() and the two declarations are answered.
Opened(t) ==
  /\ pc[t] = "open"
  /\ link[via[t]] = "open"
  /\ channel' = via[t]
  /\ Send(t, via[t])
  /\ UNCHANGED <<connection, link, queue, answer, aux>>

-----------------------------------------------------------------------------
(* publish_ticket_generation *)

Return(t, verdict) ==
  /\ Goto(t, "done")
  /\ via' = [via EXCEPT ![t] = None]
  /\ answer' = [answer EXCEPT ![t] = verdict]

\* Faulty variant: without publisher confirms, a message sent is one delivered.
Unconfirmed(t) ==
  /\ pc[t] = "publish"
  /\ Return(t, "true")
  /\ UNCHANGED <<attrs, link, wire, queue, aux>>

\* The broker confirms a message that is in the queue.
Confirmed(t) ==
  /\ pc[t] = "publish"
  /\ t \in queue
  /\ link[via[t]] = "open"
  /\ Return(t, "true")
  /\ UNCHANGED <<attrs, link, wire, queue, aux>>

\* Faulty variant: the connection is dropped, not closed.
DiscardOpen(t) == connection' = None /\ channel' = None /\ Return(t, "false")

\* _discard_connection up to its await: the attributes are reset, whichever
\* connection they name by now.
Discard(t) ==
  /\ connection' = None
  /\ channel' = None
  /\ IF Usable(connection)
       THEN Goto(t, "close") /\ via' = [via EXCEPT ![t] = connection] /\ UNCHANGED answer
       ELSE Return(t, "false")

Closed(t) ==
  /\ pc[t] = "close"
  /\ link' = [link EXCEPT ![via[t]] = "closed"]
  /\ Return(t, "false")
  /\ UNCHANGED <<attrs, wire, queue, aux>>

\* Faulty variant: opening a channel waits for the connection to come back, as
\* that of a robust connection does.
GivesUpLate(t) == pc[t] = "publish" /\ link[via[t]] \in {"half", "closed"}

\* Waiting for the confirm is cut after _PUBLISH_TIMEOUT_S; opening a channel
\* is not, and ends when the connection is found closed.
GivesUp(t) ==
  \/ pc[t] = "open" /\ link[via[t]] = "closed"
  \/ pc[t] = "publish" /\ link[via[t]] \in {"half", "closed"}

Fails(t) ==
  /\ GivesUp(t)
  /\ Discard(t)
  /\ UNCHANGED <<link, wire, queue, aux>>

-----------------------------------------------------------------------------
(* The broker and the network *)

Arrive(t) ==
  /\ wire[t] # None
  /\ link[wire[t]] = "open"
  /\ wire' = [wire EXCEPT ![t] = None]
  /\ queue' = queue \cup {t}
  /\ UNCHANGED <<pc, attrs, via, link, answer, aux>>

Fault ==
  /\ faults < MaxFaults
  /\ faults' = faults + 1
  /\ troubled' = TRUE
  /\ UNCHANGED raced

\* The broker refuses the connection or does not answer within
\* _CONNECT_TIMEOUT_S, or does not confirm within _PUBLISH_TIMEOUT_S.
Unavailable(t) ==
  /\ pc[t] \in {"dial", "publish"}
  /\ Fault
  /\ Discard(t)
  /\ UNCHANGED <<link, wire, queue>>

\* A connection is reset, or goes silent.
Break(c, state) ==
  /\ link[c] = "open"
  /\ Fault
  /\ link' = [link EXCEPT ![c] = state]
  /\ UNCHANGED <<pc, attrs, via, wire, queue, answer>>

\* A missed heartbeat.
Notice(c) ==
  /\ link[c] = "half"
  /\ link' = [link EXCEPT ![c] = "closed"]
  /\ UNCHANGED <<pc, attrs, via, wire, queue, answer, aux>>

-----------------------------------------------------------------------------
Step(t) ==
  \/ Dial(t)
  \/ Reuse(t)
  \/ Dialled(t)
  \/ Opened(t)
  \/ Confirmed(t)
  \/ Fails(t)
  \/ Closed(t)

Finished == (\A t \in Tasks : pc[t] = "done") /\ UNCHANGED vars

Next ==
  \/ \E t \in Tasks : Step(t) \/ Arrive(t) \/ Unavailable(t)
  \/ \E c \in Tasks : Notice(c) \/ \E state \in {"half", "closed"} : Break(c, state)
  \/ Finished

Spec == Init /\ [][Next]_vars

\* What was called goes on; messages travel; heartbeats are missed.
Advance(t) == pc[t] # "idle" /\ Step(t)

Fairness ==
  \A t \in Tasks :
    WF_vars(Advance(t)) /\ WF_vars(Arrive(t)) /\ WF_vars(Notice(t))

FairSpec == Spec /\ Fairness

-----------------------------------------------------------------------------
(* Properties *)

\* Seen by its callers, the bus is module Publisher: True is answered for a
\* job that is in the queue, and no job is queued twice (bus.py:73-75, 84-86).
Promise == INSTANCE Publisher WITH
  asked  <- {t \in Tasks : pc[t] # "idle"},
  queue  <- queue,
  answer <- answer

ImplementsPublisher == Promise!PublisherSpec

\* No publish fails because publishes race: after the last fault, once the
\* bus was idle and held nothing half-dead, none gives up (bus.py:64-82).
FailuresNeedTrouble == \A t \in Tasks : GivesUp(t) => troubled

InUse(c) ==
  \/ c \in {connection, channel}
  \/ \E t \in Tasks : pc[t] \in {"open", "publish", "close"} /\ via[t] = c

\* An open connection that the bus has lost sight of was dialled while
\* another was: failures alone leave none behind (bus.py:66-71, 120-125).
LeaksNeedRaces == \A c \in Tasks : Usable(c) /\ ~InUse(c) => c \in raced

\* Every publish returns; its caller can fall back (bus.py:85-86).
EveryPublishEnds == \A t \in Tasks : pc[t] # "idle" ~> pc[t] = "done"
=============================================================================
