------------------------------ MODULE BusProofs ------------------------------
(***************************************************************************)
(* Proofs about module Bus, for any number of publishes and of faults.     *)
(***************************************************************************)
EXTENDS Bus, TLAPS

\* The publishes that wait for an answer on a connection.
Waiting == {"open", "publish"}

\* An open connection belongs to the bus or is being closed, unless it was
\* dialled in a race; a dial finds another's connection only if they raced.
Owned ==
  /\ \A c \in Tasks : Usable(c) =>
       \/ c \in raced
       \/ connection = c
       \/ \E t \in Tasks : pc[t] = "close" /\ via[t] = c
  /\ \A t \in Tasks : pc[t] = "dial" /\ Usable(connection) => connection \in raced
  /\ \A s, t \in Tasks : pc[s] = "dial" /\ pc[t] = "dial" /\ s # t => t \in raced

\* A bus without trouble waits on open connections and holds none that is
\* half-dead; nobody closes one.
Untroubled ==
  ~troubled =>
    /\ \A t \in Tasks : pc[t] \in Waiting => link[via[t]] = "open"
    /\ \A t \in Tasks : pc[t] # "close"
    /\ connection # None => link[connection] # "half"
    /\ channel # None => link[channel] # "half"

\* Where a publish stands, what it was answered, and where its message is.
Answers ==
  \A t \in Tasks :
    /\ answer[t] # "none" <=> pc[t] = "done"
    /\ pc[t] \in {"open", "publish", "close"} => via[t] # None /\ link[via[t]] # "none"
    /\ pc[t] \in {"idle", "dial"} => link[t] = "none"
    /\ pc[t] = "idle" => t \notin queue /\ wire[t] = None
    /\ pc[t] \in {"dial", "open"} => wire[t] = None /\ t \notin queue
    /\ wire[t] # None => t \notin queue

IInv == TypeOK /\ Answers /\ Owned /\ Untroubled

-----------------------------------------------------------------------------
(* Every step keeps the invariant *)

\* Every step keeps the types.
LEMMA TypeStep ==
  ASSUME TypeOK, Answers, [Next]_vars
  PROVE  TypeOK'
<1> USE BusAssumption DEF TypeOK, Labels, LinkStates, attrs, aux
<1>1. ASSUME NEW t \in Tasks, Dial(t) PROVE TypeOK'
  BY <1>1 DEF Dial, Goto, Dialling
<1>2. ASSUME NEW t \in Tasks, Reuse(t) PROVE TypeOK'
  BY <1>2 DEF Reuse, UseChannel, Send, Goto, Usable
<1>3. ASSUME NEW t \in Tasks, Dialled(t) PROVE TypeOK'
  BY <1>3 DEF Dialled, Send, Goto, Usable
<1>4. ASSUME NEW t \in Tasks, Opened(t) PROVE TypeOK'
  BY <1>4 DEF Opened, Send, Goto, Answers
<1>5. ASSUME NEW t \in Tasks, Confirmed(t) PROVE TypeOK'
  BY <1>5 DEF Confirmed, Return, Goto
<1>6. ASSUME NEW t \in Tasks, Fails(t) PROVE TypeOK'
  BY <1>6 DEF Fails, Discard, Return, Goto, Usable
<1>7. ASSUME NEW t \in Tasks, Closed(t) PROVE TypeOK'
  BY <1>7 DEF Closed, Return, Goto
<1>8. ASSUME NEW t \in Tasks, Arrive(t) PROVE TypeOK'
  BY <1>8 DEF Arrive
<1>9. ASSUME NEW t \in Tasks, Unavailable(t) PROVE TypeOK'
  BY <1>9 DEF Unavailable, Fault, Discard, Return, Goto, Usable
<1>10. ASSUME NEW c \in Tasks, NEW state \in {"half", "closed"}, Break(c, state)
       PROVE  TypeOK'
  BY <1>10 DEF Break, Fault
<1>11. ASSUME NEW c \in Tasks, Notice(c) PROVE TypeOK'
  BY <1>11 DEF Notice
<1>12. CASE UNCHANGED vars
  BY <1>12 DEF vars
<1> QED
  BY <1>1, <1>2, <1>3, <1>4, <1>5, <1>6, <1>7, <1>8, <1>9, <1>10, <1>11, <1>12
  DEF Next, Step, Finished

\* Every step keeps what a publish has to say of its message.
LEMMA AnswersStep ==
  ASSUME TypeOK, Answers, [Next]_vars
  PROVE  Answers'
<1> USE BusAssumption DEF TypeOK, Answers, attrs, aux
<1>1. ASSUME NEW t \in Tasks, Dial(t) PROVE Answers'
  BY <1>1 DEF Dial, Goto
<1>2. ASSUME NEW t \in Tasks, Reuse(t) PROVE Answers'
  BY <1>2 DEF Reuse, UseChannel, Send, Goto, Usable
<1>3. ASSUME NEW t \in Tasks, Dialled(t) PROVE Answers'
  BY <1>3 DEF Dialled, Send, Goto, Usable
<1>4. ASSUME NEW t \in Tasks, Opened(t) PROVE Answers'
  BY <1>4 DEF Opened, Send, Goto
<1>5. ASSUME NEW t \in Tasks, Confirmed(t) PROVE Answers'
  BY <1>5 DEF Confirmed, Return, Goto
<1>6. ASSUME NEW t \in Tasks, Fails(t) PROVE Answers'
  BY <1>6 DEF Fails, GivesUp, Discard, Return, Goto, Usable
<1>7. ASSUME NEW t \in Tasks, Closed(t) PROVE Answers'
  BY <1>7 DEF Closed, Return, Goto
<1>8. ASSUME NEW t \in Tasks, Arrive(t) PROVE Answers'
  BY <1>8 DEF Arrive
<1>9. ASSUME NEW t \in Tasks, Unavailable(t) PROVE Answers'
  BY <1>9 DEF Unavailable, Fault, Discard, Return, Goto, Usable
<1>10. ASSUME NEW c \in Tasks, NEW state \in {"half", "closed"}, Break(c, state)
       PROVE  Answers'
  BY <1>10 DEF Break, Fault
<1>11. ASSUME NEW c \in Tasks, Notice(c) PROVE Answers'
  BY <1>11 DEF Notice
<1>12. CASE UNCHANGED vars
  BY <1>12 DEF vars
<1> QED
  BY <1>1, <1>2, <1>3, <1>4, <1>5, <1>6, <1>7, <1>8, <1>9, <1>10, <1>11, <1>12
  DEF Next, Step, Finished

\* Every step keeps the account of open connections and of races.
LEMMA OwnedStep ==
  ASSUME TypeOK, Answers, Owned, [Next]_vars
  PROVE  Owned'
<1> USE BusAssumption DEF TypeOK, Answers, Owned, Usable, attrs, aux
<1>1. ASSUME NEW t \in Tasks, Dial(t) PROVE Owned'
  BY <1>1 DEF Dial, Goto, Dialling, Calm
<1>2. ASSUME NEW t \in Tasks, Reuse(t) PROVE Owned'
  BY <1>2 DEF Reuse, UseChannel, Send, Goto, Calm
<1>3. ASSUME NEW t \in Tasks, Dialled(t) PROVE Owned'
  BY <1>3 DEF Dialled, Send, Goto
<1>4. ASSUME NEW t \in Tasks, Opened(t) PROVE Owned'
  BY <1>4 DEF Opened, Send, Goto
<1>5. ASSUME NEW t \in Tasks, Confirmed(t) PROVE Owned'
  BY <1>5 DEF Confirmed, Return, Goto
<1>6. ASSUME NEW t \in Tasks, Fails(t) PROVE Owned'
  BY <1>6 DEF Fails, GivesUp, Discard, Return, Goto
<1>7. ASSUME NEW t \in Tasks, Closed(t) PROVE Owned'
  BY <1>7 DEF Closed, Return, Goto
<1>8. ASSUME NEW t \in Tasks, Arrive(t) PROVE Owned'
  BY <1>8 DEF Arrive
<1>9. ASSUME NEW t \in Tasks, Unavailable(t) PROVE Owned'
  BY <1>9 DEF Unavailable, Fault, Discard, Return, Goto
<1>10. ASSUME NEW c \in Tasks, NEW state \in {"half", "closed"}, Break(c, state)
       PROVE  Owned'
  BY <1>10 DEF Break, Fault
<1>11. ASSUME NEW c \in Tasks, Notice(c) PROVE Owned'
  BY <1>11 DEF Notice
<1>12. CASE UNCHANGED vars
  BY <1>12 DEF vars
<1> QED
  BY <1>1, <1>2, <1>3, <1>4, <1>5, <1>6, <1>7, <1>8, <1>9, <1>10, <1>11, <1>12
  DEF Next, Step, Finished

\* Every step keeps what is known of the bus while there has been no trouble.
LEMMA UntroubledStep ==
  ASSUME TypeOK, Answers, Untroubled, [Next]_vars
  PROVE  Untroubled'
<1> USE BusAssumption DEF TypeOK, Answers, Untroubled, Waiting, LinkStates, Usable, attrs, aux
<1>1. ASSUME NEW t \in Tasks, Dial(t) PROVE Untroubled'
  BY <1>1 DEF Dial, Goto, Dialling, Calm
<1>2. ASSUME NEW t \in Tasks, Reuse(t) PROVE Untroubled'
  BY <1>2 DEF Reuse, UseChannel, Send, Goto, Calm
<1>3. ASSUME NEW t \in Tasks, Dialled(t) PROVE Untroubled'
  BY <1>3 DEF Dialled, Send, Goto
<1>4. ASSUME NEW t \in Tasks, Opened(t) PROVE Untroubled'
  BY <1>4 DEF Opened, Send, Goto
<1>5. ASSUME NEW t \in Tasks, Confirmed(t) PROVE Untroubled'
  BY <1>5 DEF Confirmed, Return, Goto
<1>6. ASSUME NEW t \in Tasks, Fails(t) PROVE Untroubled'
  BY <1>6 DEF Fails, GivesUp, Discard, Return, Goto
<1>7. ASSUME NEW t \in Tasks, Closed(t) PROVE Untroubled'
  BY <1>7 DEF Closed, Return, Goto
<1>8. ASSUME NEW t \in Tasks, Arrive(t) PROVE Untroubled'
  BY <1>8 DEF Arrive
<1>9. ASSUME NEW t \in Tasks, Unavailable(t) PROVE Untroubled'
  BY <1>9 DEF Unavailable, Fault, Discard, Return, Goto
<1>10. ASSUME NEW c \in Tasks, NEW state \in {"half", "closed"}, Break(c, state)
       PROVE  Untroubled'
  BY <1>10 DEF Break, Fault
<1>11. ASSUME NEW c \in Tasks, Notice(c) PROVE Untroubled'
  BY <1>11 DEF Notice
<1>12. CASE UNCHANGED vars
  BY <1>12 DEF vars
<1> QED
  BY <1>1, <1>2, <1>3, <1>4, <1>5, <1>6, <1>7, <1>8, <1>9, <1>10, <1>11, <1>12
  DEF Next, Step, Finished

\* The invariant holds of every reachable state.
LEMMA Invariant == Spec => []IInv
<1>1. Init => IInv
  <2> SUFFICES ASSUME Init PROVE IInv
    OBVIOUS
  <2>1. TypeOK
    <3>1. faults \in 0 .. MaxFaults
      BY BusAssumption DEF Init
    <3>2. /\ pc \in [Tasks -> Labels]
          /\ link \in [Tasks -> LinkStates]
          /\ answer \in [Tasks -> {"none", "true", "false"}]
      BY DEF Init, Labels, LinkStates
    <3>3. via \in [Tasks -> Tasks \cup {None}] /\ wire \in [Tasks -> Tasks \cup {None}]
      BY DEF Init
    <3> QED
      BY <3>1, <3>2, <3>3 DEF Init, TypeOK
  <2>2. Answers
    BY DEF Init, Answers
  <2>3. Owned
    BY DEF Init, Owned, Usable
  <2>4. Untroubled
    BY DEF Init, Untroubled, Waiting
  <2> QED
    BY <2>1, <2>2, <2>3, <2>4 DEF IInv
<1>2. IInv /\ [Next]_vars => IInv'
  BY TypeStep, AnswersStep, OwnedStep, UntroubledStep DEF IInv
<1> QED
  BY <1>1, <1>2, PTL DEF Spec

-----------------------------------------------------------------------------
(* The results *)

\* Every variable of the bus keeps its type.
THEOREM TypeCorrect == Spec => []TypeOK
BY Invariant, PTL DEF IInv

\* However many publishes race, none fails of it (FailuresNeedTrouble): a
\* publish that gives up waits on a connection that is not open.
THEOREM OnlyTroubleFails == Spec => []FailuresNeedTrouble
<1>1. IInv => FailuresNeedTrouble
  BY DEF IInv, Untroubled, Waiting, FailuresNeedTrouble, GivesUp
<1> QED
  BY <1>1, Invariant, PTL

\* A connection is leaked by racing dials only, never by a failure alone
\* (LeaksNeedRaces): what was not raced is the bus's own or being closed.
THEOREM OnlyRacesLeak == Spec => []LeaksNeedRaces
<1>1. IInv => LeaksNeedRaces
  BY DEF IInv, Owned, LeaksNeedRaces, InUse
<1> QED
  BY <1>1, Invariant, PTL

\* The bus implements module Publisher (ImplementsPublisher): whatever the
\* connections do, True is answered for queued jobs only, and none is queued
\* twice.
THEOREM BusRefinesPublisher == Spec => ImplementsPublisher
<1> USE BusAssumption DEF attrs, aux, Promise!publisher
<1>1. Init => Promise!PublisherInit
  BY DEF Init, Promise!PublisherInit
<1>2. ASSUME IInv, [Next]_vars
      PROVE  [Promise!PublisherNext]_(Promise!publisher)
  <2> USE <1>2 DEF IInv, TypeOK, Promise!PublisherNext
  <2> DEFINE asked == {t \in Tasks : pc[t] # "idle"}
  <2>1. ASSUME NEW t \in Tasks, Dial(t) \/ Reuse(t) PROVE Promise!Ask(t)
    <3>1. pc[t] = "idle" /\ UNCHANGED <<queue, answer>>
      BY <2>1 DEF Dial, Reuse
    <3>2. \E label \in Labels \ {"idle"} : pc' = [pc EXCEPT ![t] = label]
      BY <2>1 DEF Dial, Reuse, UseChannel, Send, Goto, Labels
    <3> QED
      BY <3>1, <3>2 DEF Promise!Ask
  <2>2. ASSUME NEW t \in Tasks, Dialled(t) \/ Opened(t) PROVE UNCHANGED Promise!publisher
    <3>1. pc[t] # "idle" /\ UNCHANGED <<queue, answer>>
      BY <2>2 DEF Dialled, Opened
    <3>2. \E label \in Labels \ {"idle"} : pc' = [pc EXCEPT ![t] = label]
      BY <2>2 DEF Dialled, Opened, Send, Goto, Labels
    <3> QED
      BY <3>1, <3>2
  <2>3. ASSUME NEW t \in Tasks, Confirmed(t) PROVE Promise!AnswerTrue(t)
    BY <2>3 DEF Confirmed, Return, Goto, Answers, Promise!AnswerTrue
  <2>4. ASSUME NEW t \in Tasks, Discard(t), pc[t] \in {"dial", "open", "publish"},
               UNCHANGED queue
        PROVE  Promise!AnswerFalse(t) \/ UNCHANGED Promise!publisher
    BY <2>4 DEF Discard, Return, Goto, Answers, Promise!AnswerFalse
  <2>5. ASSUME NEW t \in Tasks, Closed(t) PROVE Promise!AnswerFalse(t)
    BY <2>5 DEF Closed, Return, Goto, Answers, Promise!AnswerFalse
  <2>6. ASSUME NEW t \in Tasks, Arrive(t) PROVE Promise!Enqueue(t)
    BY <2>6 DEF Arrive, Answers, Promise!Enqueue
  <2>7. ASSUME NEW t \in Tasks, Fails(t) \/ Unavailable(t)
        PROVE  Promise!AnswerFalse(t) \/ UNCHANGED Promise!publisher
    BY <2>4, <2>7 DEF Fails, Unavailable, GivesUp
  <2>8. ASSUME NEW c \in Tasks, Notice(c) \/ \E state \in {"half", "closed"} : Break(c, state)
        PROVE  UNCHANGED Promise!publisher
    BY <2>8 DEF Notice, Break
  <2>9. CASE UNCHANGED vars
    BY <2>9 DEF vars
  <2> QED
    BY <2>1, <2>2, <2>3, <2>5, <2>6, <2>7, <2>8, <2>9 DEF Next, Step, Finished
<1> QED
  BY <1>1, <1>2, Invariant, PTL DEF Spec, ImplementsPublisher, Promise!PublisherSpec
=============================================================================
