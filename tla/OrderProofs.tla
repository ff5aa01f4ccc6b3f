---------------------------- MODULE OrderProofs ----------------------------
(***************************************************************************)
(* Type correctness of module Orders, and what holds at each await.  The   *)
(* steps of one request disturb no other request (the Frame lemmas): they  *)
(* touch only its own session and its own uncommitted keys.  Then locks    *)
(* and money: the row locks are held as the code says, hence a request     *)
(* decides on the balance it debits, hence every step of module Orders is  *)
(* a step of module Account or leaves the books alone, hence the ledger is *)
(* right.                                                                  *)
(***************************************************************************)
EXTENDS OrderProperties, TLAPS

-----------------------------------------------------------------------------
(* Types *)


\* The initial tables, sessions and locks have their types.
LEMMA InitTyped == Init => TypeOK
<1> SUFFICES ASSUME Init PROVE TypeOK
  OBVIOUS
<1>1. KeysTypeOK
  BY DEF Init, KeysInit, KeysTypeOK
<1>2. orders \in [OrderIds -> OrderRows \cup {None}]
  BY OrderIdAssumption DEF Init, OpeningOrders, OrderIds, OrderRows
<1>3. balance \in [Agents -> Nat] /\ ledger \in [Agents -> Seq(Debits)]
  BY MoneyAssumption DEF Init
<1>4. /\ call \in [Requests -> Calls \cup {None}]
      /\ pc \in [Requests -> Labels]
      /\ reply \in [Requests -> [code : Codes, body : Bodies \cup {None}] \cup {None}]
      /\ acct \in [Requests -> Nat]
      /\ keyShare \in [Agents -> SUBSET Requests]
      /\ forUpdate \in [Agents -> Requests \cup {None}]
      /\ orderLock \in [OrderIds -> Requests \cup {None}]
      /\ kicked \in SUBSET OrderIds
  BY DEF Init, Labels
<1> QED
  BY <1>1, <1>2, <1>3, <1>4 DEF TypeOK

\* Before the first request nothing is claimed, locked or booked.
LEMMA InitAwaits == Init => AwaitsAreSound
  BY OrderIdAssumption DEF Init, AwaitsAreSound, AwaitOK, OpeningOrders, OrderIds

\* The end of a transaction keeps the locks and the key table typed.
LEMMA ReleaseTyped ==
  ASSUME TypeOK, NEW r \in Requests, ReleaseLocks(r)
  PROVE  /\ keyShare' \in [Agents -> SUBSET Requests]
         /\ forUpdate' \in [Agents -> Requests \cup {None}]
         /\ orderLock' \in [OrderIds -> Requests \cup {None}]
  BY DEF TypeOK, ReleaseLocks

\* A rollback keeps the key table and the locks typed.
LEMMA RollBackTyped ==
  ASSUME TypeOK, NEW r \in Requests, RollBackKeys(r)
  PROVE  keys' \in [Slots -> KeyRows \cup {None}]
         /\ pending' \in [Slots -> [by : Requests, row : KeyRows] \cup {None}]
  BY DEF TypeOK, KeysTypeOK, RollBackKeys, Writes

\* A commit keeps the key table and the locks typed.
LEMMA CommitTyped ==
  ASSUME TypeOK, NEW r \in Requests, CommitKeys(r)
  PROVE  keys' \in [Slots -> KeyRows \cup {None}]
         /\ pending' \in [Slots -> [by : Requests, row : KeyRows] \cup {None}]
  BY DEF TypeOK, KeysTypeOK, CommitKeys, Writes

\* Storing an answer keeps the replies typed.
LEMMA AnswerTyped ==
  ASSUME TypeOK, NEW r \in Requests, NEW code \in Codes, NEW body \in Bodies \cup {None},
         Answer(r, code, body)
  PROVE  reply' \in [Requests -> [code : Codes, body : Bodies \cup {None}] \cup {None}]
  BY DEF TypeOK, Answer

\* An answer that was stored is there to be completed with.
LEMMA AnsweredNotNone ==
  ASSUME TypeOK, NEW r \in Requests, NEW code \in Codes, NEW body \in Bodies,
         Answer(r, code, body)
  PROVE  reply'[r] # None /\ reply'[r].body # None
<1>1. reply'[r] = [code |-> code, body |-> body]
  BY DEF Answer, TypeOK
<1> QED
  BY <1>1, NoneAssumption, ReplyAssumption

\* A request that ends leaves a typed state.
LEMMA FinishTyped ==
  ASSUME TypeOK, NEW r \in Requests, NEW code \in Codes, NEW body \in Bodies \cup {None},
         Finish(r, code, body)
  PROVE  TypeOK'
<1>1. ReleaseLocks(r) /\ RollBackKeys(r)
  BY DEF Finish, RollBack
<1>2. idem' \in [Requests -> KeyRows \cup {None}]
  BY DEF TypeOK, KeysTypeOK, Finish
<1>3. reply' \in [Requests -> [code : Codes, body : Bodies \cup {None}] \cup {None}]
  BY DEF TypeOK, Finish, Answer
<1>4. pc' \in [Requests -> Labels]
  BY DEF TypeOK, Finish, Goto, Labels
<1> QED
  BY <1>1, <1>2, <1>3, <1>4, ReleaseTyped, RollBackTyped
     DEF TypeOK, KeysTypeOK, Finish, books
\* What a request that has arrived asks for.
LEMMA CallTyped ==
  ASSUME TypeOK, NEW r \in Requests, AwaitOK(r), pc[r] # "idle"
  PROVE  /\ AgentOf(r) \in Agents
         /\ call[r].op \in Ops
         /\ call[r].arg \in Hashes
         /\ Keyed(r) => SlotOf(r) \in Slots
         /\ call[r].op = "book" => call[r].arg \in Payloads
         /\ call[r].op = "issue" => call[r].arg \in OrderIds
  BY DEF AwaitOK, Calls, AgentOf, Keyed, SlotOf, Slots, Ops, Hashes

\* Storing an answer keeps the key table typed.
LEMMA CompleteKeyTyped ==
  ASSUME TypeOK, NEW r \in Requests, NEW s \in Slots, NEW body \in Bodies,
         Writes(r, s) \/ keys[s] # None, CompleteKey(r, s, body)
  PROVE  /\ keys' \in [Slots -> KeyRows \cup {None}]
         /\ pending' \in [Slots -> [by : Requests, row : KeyRows] \cup {None}]
         /\ keys'[s] # None
<1> DEFINE row == IF Writes(r, s) THEN pending[s].row ELSE keys[s]
<1>1. row \in KeyRows
  BY DEF Writes, TypeOK, KeysTypeOK
<1>2. [row EXCEPT !.status = "COMPLETED", !.body = body] \in KeyRows
  <2> HIDE DEF row
  <2> QED
    BY <1>1 DEF KeyRows, KeyStatus
<1>3. /\ keys' = [keys EXCEPT ![s] = [row EXCEPT !.status = "COMPLETED", !.body = body]]
      /\ pending' = [pending EXCEPT ![s] = None]
  BY DEF CompleteKey
<1> QED
  <2> HIDE DEF row
  <2> QED
    BY <1>2, <1>3, NoneAssumption DEF TypeOK, KeysTypeOK

\* The claim, the replay, the reclaim and the completion of a key.
LEMMA ClaimKeyTyped ==
  ASSUME TypeOK, AwaitsAreSound, NEW r \in Requests, ClaimKey(r)
  PROVE  TypeOK'
<1> DEFINE s == SlotOf(r)
<1>1. AwaitOK(r)
  BY DEF AwaitsAreSound
<1>2. CASE Claim(r)
  <2>1. /\ s \in Slots /\ AgentOf(r) \in Agents /\ call[r].arg \in Hashes
        /\ call[r].op \in Ops
    BY <1>1, <1>2, CallTyped DEF Claim, AwaitOK
  <2>2. LockedRow(r, call[r].arg) \in KeyRows
    BY <2>1 DEF LockedRow, KeyRows, KeyStatus
  <2>3. KeysTypeOK'
    BY <1>2, <2>1, <2>2 DEF Claim, InsertKey, TypeOK, KeysTypeOK
  <2>4. pc' \in [Requests -> Labels]
    BY <1>2, <2>1 DEF Claim, Goto, TypeOK, WorkOf, LockSequence, Labels
  <2> QED
    BY <1>2, <2>1, <2>3, <2>4 DEF Claim, TypeOK, books
<1>3. CASE ClaimConflict(r)
  BY <1>3 DEF ClaimConflict, Goto, TypeOK, KeysTypeOK, Labels, keyVars, lockVars, books
<1>4. CASE ClaimReplay(r)
  <2>1. s \in Slots /\ keys[s] # None
    BY <1>1, <1>4, CallTyped DEF ClaimReplay, AwaitOK
  <2>2. keys[s].body \in Bodies \cup {None}
    BY <2>1 DEF TypeOK, KeysTypeOK, KeyRows
  <2> QED
    BY <1>4, <2>2, FinishTyped DEF ClaimReplay, Codes
<1>5. CASE ClaimReused(r) \/ ClaimInProgress(r)
  BY <1>5, FinishTyped DEF ClaimReused, ClaimInProgress, Codes
<1>6. CASE ClaimFailed(r)
  <2>1. s \in Slots /\ keys[s] # None
    BY <1>1, <1>6, CallTyped DEF ClaimFailed, AwaitOK
  <2> QED
    BY <1>6, <2>1 DEF ClaimFailed, Goto, TypeOK, KeysTypeOK, Labels, lockVars, books
<1>7. CASE Reclaim(r)
  <2>1. /\ s \in Slots /\ call[r].arg \in Hashes /\ call[r].op \in Ops
        /\ keys[s] # None /\ idem[r] # None
    BY <1>1, <1>7, CallTyped DEF Reclaim, AwaitOK
  <2>2. keys[s] \in KeyRows /\ idem[r] \in KeyRows
    BY <2>1 DEF TypeOK, KeysTypeOK
  <2>3. pending' \in [Slots -> [by : Requests, row : KeyRows] \cup {None}]
    BY <1>7, <2>1, <2>2
       DEF Reclaim, ReclaimKey, TypeOK, KeysTypeOK, KeyRows, KeyStatus
  <2>4. idem' \in [Requests -> KeyRows \cup {None}]
    BY <1>7, <2>1, <2>2
       DEF Reclaim, ReclaimKey, TypeOK, KeysTypeOK, KeyRows, KeyStatus
  <2>5. pc' \in [Requests -> Labels]
    BY <1>7, <2>1 DEF Reclaim, Goto, TypeOK, WorkOf, LockSequence, Labels
  <2> QED
    BY <1>7, <2>3, <2>4, <2>5
       DEF Reclaim, ReclaimKey, TypeOK, KeysTypeOK, lockVars, books
<1>8. CASE Complete(r)
  <2>1. s \in Slots /\ keys[s] # None /\ reply[r] # None /\ reply[r].body # None
    BY <1>1, <1>8, CallTyped DEF Complete, AwaitOK
  <2>2. keys[s] \in KeyRows /\ reply[r].body \in Bodies
    BY <2>1 DEF TypeOK, KeysTypeOK
  <2>3. keys' \in [Slots -> KeyRows \cup {None}]
    BY <1>8, <2>1, <2>2, CompleteKeyTyped DEF Complete, TypeOK, KeysTypeOK
  <2>4. pending' \in [Slots -> [by : Requests, row : KeyRows] \cup {None}]
    BY <1>8 DEF Complete, CompleteKey, TypeOK, KeysTypeOK
  <2> QED
    BY <1>8, <2>3, <2>4
       DEF Complete, AfterComplete, Goto, TypeOK, KeysTypeOK, Labels, lockVars, books
<1> QED
  BY <1>2, <1>3, <1>4, <1>5, <1>6, <1>7, <1>8 DEF ClaimKey

\* Rolling back on the way to fail().
LEMMA RollBackThenFailTyped ==
  ASSUME TypeOK, NEW r \in Requests, NEW code \in Codes, RollBackThenFail(r, code)
  PROVE  TypeOK'
<1>1. ReleaseLocks(r) /\ RollBackKeys(r)
  BY DEF RollBackThenFail, RollBack
<1>2. reply' \in [Requests -> [code : Codes, body : Bodies \cup {None}] \cup {None}]
  BY DEF TypeOK, RollBackThenFail, Answer
<1>3. pc' \in [Requests -> Labels]
  BY DEF TypeOK, RollBackThenFail, Goto, Labels
<1> QED
  BY <1>1, <1>2, <1>3, ReleaseTyped, RollBackTyped
     DEF TypeOK, KeysTypeOK, RollBackThenFail, books

\* The booking handler.
LEMMA BookTyped ==
  ASSUME TypeOK, AwaitsAreSound, NEW r \in Requests, Book(r)
  PROVE  TypeOK'
<1> DEFINE s == SlotOf(r)
<1>1. AwaitOK(r)
  BY DEF AwaitsAreSound
<1>2. CASE Persist(r) \/ PersistUnacknowledged(r)
  <2>1. InsertOrder(r)
    BY <1>2 DEF Persist, PersistUnacknowledged
  <2>2. AgentOf(r) \in Agents /\ call[r].arg \in Payloads
    BY <1>1, <2>1, CallTyped DEF InsertOrder, AwaitOK
  <2>3. orders' \in [OrderIds -> OrderRows \cup {None}]
    BY <2>1, <2>2 DEF InsertOrder, NewOrder, TypeOK, OrderRows
  <2>4. BookingBody(r) \in Bodies
    BY DEF BookingBody, Bodies, OrderIds
  <2>5. reply' \in [Requests -> [code : Codes, body : Bodies \cup {None}] \cup {None}]
    BY <1>2, <2>4, AnswerTyped DEF Persist, PersistUnacknowledged, Codes
  <2>6. pc' \in [Requests -> Labels]
    BY <1>2 DEF Persist, PersistUnacknowledged, Goto, TypeOK, Labels
  <2>7. ReleaseLocks(r) /\ CommitKeys(r)
    BY <2>1 DEF InsertOrder, Commit
  <2>8. UNCHANGED <<idem, call, acct, balance, ledger, kicked>>
    BY <1>2, <2>1 DEF Persist, PersistUnacknowledged, InsertOrder
  <2> QED
    BY <2>3, <2>5, <2>6, <2>7, <2>8, ReleaseTyped, CommitTyped DEF TypeOK, KeysTypeOK
<1>3. CASE ProviderFails(r)
  BY <1>3, FinishTyped, RollBackThenFailTyped DEF ProviderFails, Codes
<1>4. CASE FailSkipped(r)
  BY <1>4 DEF FailSkipped, Goto, TypeOK, KeysTypeOK, Labels, lockVars, books
<1>5. CASE FailFound(r)
  <2>1. s \in Slots /\ keys[s] # None
    BY <1>1, <1>5, CallTyped DEF FailFound, KeyRemains, AwaitOK
  <2> QED
    BY <1>5, <2>1 DEF FailFound, Goto, TypeOK, KeysTypeOK, Labels, lockVars, books
<1>6. CASE MarkFailed(r)
  <2>1. s \in Slots /\ keys[s] # None
    BY <1>1, <1>6, CallTyped DEF MarkFailed, AwaitOK
  <2>2. keys[s] \in KeyRows
    BY <2>1 DEF TypeOK, KeysTypeOK
  <2>3. keys' \in [Slots -> KeyRows \cup {None}]
    BY <1>6, <2>1, <2>2 DEF MarkFailed, FailKey, TypeOK, KeysTypeOK, KeyRows, KeyStatus
  <2> QED
    BY <1>6, <2>3
       DEF MarkFailed, FailKey, Goto, TypeOK, KeysTypeOK, Labels, lockVars, books
<1> QED
  BY <1>2, <1>3, <1>4, <1>5, <1>6 DEF Book

\* The issuing handler.
LEMMA IssueTyped ==
  ASSUME TypeOK, AwaitsAreSound, NEW r \in Requests, Issue(r)
  PROVE  TypeOK'
<1> DEFINE o == call[r].arg
<1>1. AwaitOK(r)
  BY DEF AwaitsAreSound
<1>2. CASE LockAgent(r)
  <2>1. AgentOf(r) \in Agents
    BY <1>1, <1>2, CallTyped DEF LockAgent
  <2> QED
    BY <1>2, <2>1 DEF LockAgent, LockedRead, LockSequence, Goto, TypeOK, KeysTypeOK,
                      Labels, keyVars, books
<1>3. CASE LockOrder(r)
  <2>1. o \in OrderIds
    BY <1>1, <1>3, CallTyped DEF LockOrder, AwaitOK
  <2> QED
    BY <1>3, <2>1 DEF LockOrder, LockSequence, Goto, TypeOK, KeysTypeOK, Labels,
                      keyVars, books
<1>4. CASE NoSuchOrder(r) \/ Forbidden(r) \/ ConstraintFails(r)
  BY <1>4, FinishTyped DEF NoSuchOrder, Forbidden, ConstraintFails, Codes
<1>5. CASE InsufficientFunds(r)
  BY <1>5, FinishTyped, RollBackThenFailTyped DEF InsufficientFunds, Codes
<1>6. CASE AlreadyIssued(r)
  <2> DEFINE body == IssueBody(o, orders[o].ticket, acct[r])
  <2>1. o \in OrderIds /\ orders[o] # None /\ (Keyed(r) => SlotOf(r) \in Slots)
    BY <1>1, <1>6, CallTyped DEF AlreadyIssued, AwaitOK
  <2>2. body \in Bodies
    BY <2>1 DEF IssueBody, Bodies, TypeOK, OrderRows
  <2>3. KeysTypeOK'
    <3>1. CASE Keyed(r)
      <4>1. CompleteKey(r, SlotOf(r), body) /\ (Writes(r, SlotOf(r)) \/ keys[SlotOf(r)] # None)
        BY <1>1, <1>6, <3>1 DEF AlreadyIssued, AwaitOK
      <4> HIDE DEF body
      <4> QED
        BY <1>6, <2>1, <2>2, <3>1, <4>1, CompleteKeyTyped
           DEF AlreadyIssued, TypeOK, KeysTypeOK
    <3>2. CASE ~Keyed(r)
      BY <1>6, <3>2, RollBackTyped DEF AlreadyIssued, TypeOK, KeysTypeOK
    <3> QED
      BY <3>1, <3>2
  <2>4. reply' \in [Requests -> [code : Codes, body : Bodies \cup {None}] \cup {None}]
    BY <1>6, <2>2 DEF AlreadyIssued, Answer, TypeOK, Codes
  <2>5. pc' \in [Requests -> Labels]
    BY <1>6 DEF AlreadyIssued, Goto, TypeOK, Labels
  <2>6. ReleaseLocks(r) /\ UNCHANGED <<call, acct, books, kicked>>
    BY <1>6 DEF AlreadyIssued
  <2> QED
    BY <2>3, <2>4, <2>5, <2>6, ReleaseTyped DEF TypeOK, books
<1>7. CASE IssueCommit(r)
  <2> DEFINE a == AgentOf(r)
             left == acct[r] - Total(o)
  <2>1. /\ o \in OrderIds /\ a \in Agents /\ orders[o] # None
        /\ acct[r] >= Total(o)
    BY <1>1, <1>7, CallTyped DEF IssueCommit, Issuable, AwaitOK, Affords
  <2>2. orders[o] \in OrderRows
    BY <2>1 DEF TypeOK
  <2>3. Total(o) \in Nat /\ left \in Nat
    BY <2>1, <2>2, MoneyAssumption DEF Total, TypeOK, OrderRows
  <2>4. TicketOf[o] \in Tickets
    BY <2>1, OrderIdAssumption
  <2>5. orders' \in [OrderIds -> OrderRows \cup {None}]
    BY <1>7, <2>1, <2>2, <2>4 DEF IssueCommit, IssuedRow, TypeOK, OrderRows
  <2>6. balance' \in [Agents -> Nat]
    BY <1>7, <2>1, <2>3 DEF IssueCommit, TypeOK
  <2>7. ledger' \in [Agents -> Seq(Debits)]
    <3>1. [order |-> o, amount |-> Total(o), after |-> left] \in Debits
      BY <2>1, <2>3 DEF Debits
    <3> QED
      BY <1>7, <2>1, <3>1 DEF IssueCommit, TypeOK
  <2>8. reply' \in [Requests -> [code : Codes, body : Bodies \cup {None}] \cup {None}]
    BY <1>7, <2>1, <2>3, <2>4 DEF IssueCommit, IssueBody, Bodies, Answer, TypeOK, Codes
  <2>9. pc' \in [Requests -> Labels]
    BY <1>7 DEF IssueCommit, Goto, TypeOK, Labels
  <2>10. ReleaseLocks(r) /\ CommitKeys(r) /\ UNCHANGED <<idem, call, acct, kicked>>
    BY <1>7 DEF IssueCommit, Commit
  <2> QED
    BY <2>5, <2>6, <2>7, <2>8, <2>9, <2>10, ReleaseTyped, CommitTyped DEF TypeOK, KeysTypeOK
<1>8. CASE Kick(r)
  <2>1. o \in OrderIds
    BY <1>1, <1>8, CallTyped DEF Kick, AwaitOK
  <2> QED
    BY <1>8, <2>1 DEF Kick, Goto, TypeOK, KeysTypeOK, Labels, keyVars, lockVars, books
<1> QED
  BY <1>2, <1>3, <1>4, <1>5, <1>6, <1>7, <1>8 DEF Issue

\* Every step keeps the state typed.
LEMMA NextTyped ==
  ASSUME TypeOK, AwaitsAreSound, [Next]_vars
  PROVE  TypeOK'
<1>1. ASSUME NEW r \in Requests, NEW c \in Traffic, Arrive(r, c) PROVE TypeOK'
  <2>1. c \in Calls /\ c.agent \in Agents /\ c.op \in Ops
    BY TrafficAssumption DEF Calls, Ops
  <2>2. pc' \in [Requests -> Labels]
    BY <1>1, <2>1 DEF Arrive, Goto, WorkOf, LockSequence, TypeOK, Labels
  <2> QED
    BY <1>1, <2>1, <2>2 DEF Arrive, TypeOK, KeysTypeOK, keyVars, lockVars, books
<1>2. ASSUME NEW r \in Requests, DeadlockAbort(r) PROVE TypeOK'
  BY <1>2, FinishTyped DEF DeadlockAbort, Codes
<1>3. ASSUME NEW r \in Requests, Die(r) PROVE TypeOK'
  <2>1. ReleaseLocks(r) /\ RollBackKeys(r)
    BY <1>3 DEF Die, RollBack
  <2>2. /\ pc' \in [Requests -> Labels]
        /\ idem' \in [Requests -> KeyRows \cup {None}]
        /\ reply' \in [Requests -> [code : Codes, body : Bodies \cup {None}] \cup {None}]
    BY <1>3 DEF Die, Goto, TypeOK, KeysTypeOK, Labels
  <2> QED
    BY <1>3, <2>1, <2>2, ReleaseTyped, RollBackTyped DEF Die, TypeOK, KeysTypeOK, books
<1>4. CASE UNCHANGED vars
  BY <1>4 DEF vars, keyVars, lockVars, books, TypeOK, KeysTypeOK
<1> QED
  BY <1>1, <1>2, <1>3, <1>4, ClaimKeyTyped, BookTyped, IssueTyped DEF Next, Step, Rest

-----------------------------------------------------------------------------
(* What a step of request r leaves alone *)

\* In the key table: a committed row stays, and so does what others write.
KeyFrame(r) ==
  /\ \A q \in Requests \ {r}, s \in Slots : Writes(q, s) => Writes(q, s)'
  /\ \A s \in Slots : keys[s] # None => keys'[s] # None

\* In the requests and the orders: r moves only itself, and no order vanishes.
Frame(r) ==
  /\ \A q \in Requests \ {r} :
       /\ pc'[q] = pc[q] /\ call'[q] = call[q]
       /\ idem'[q] = idem[q] /\ reply'[q] = reply[q]
       /\ orders[q] = None => orders'[q] = None
  /\ \A o \in OrderIds : orders[o] # None => orders'[o] # None
  /\ KeyFrame(r)

\* A rollback of r leaves the committed keys and the writes of others alone.
LEMMA RollBackFrame ==
  ASSUME TypeOK, NEW r \in Requests, RollBackKeys(r)
  PROVE  KeyFrame(r)
  BY DEF RollBackKeys, KeyFrame, Writes, TypeOK, KeysTypeOK

\* A commit of r never removes a row and leaves the writes of others alone.
LEMMA CommitFrame ==
  ASSUME TypeOK, NEW r \in Requests, CommitKeys(r)
  PROVE  KeyFrame(r)
<1>1. \A s \in Slots : Writes(r, s) => pending[s].row # None
  BY NoneAssumption DEF Writes, TypeOK, KeysTypeOK
<1> QED
  BY <1>1 DEF CommitKeys, KeyFrame, Writes, TypeOK, KeysTypeOK

\* complete() never removes a row and leaves the writes of others alone.
LEMMA CompleteFrame ==
  ASSUME TypeOK, NEW r \in Requests, NEW s \in Slots, NEW body \in Bodies,
         Writes(r, s) \/ keys[s] # None, CompleteKey(r, s, body)
  PROVE  KeyFrame(r)
<1>1. keys'[s] # None
  BY CompleteKeyTyped
<1>2. \A t \in Slots \ {s} : keys'[t] = keys[t] /\ pending'[t] = pending[t]
  BY DEF CompleteKey, TypeOK, KeysTypeOK
<1>3. \A q \in Requests \ {r} : ~Writes(q, s)
  BY DEF CompleteKey, Writable, Writes
<1> QED
  BY <1>1, <1>2, <1>3 DEF KeyFrame, Writes

\* The requests that do not move keep what they rely on.
LEMMA OthersAwait ==
  ASSUME TypeOK, AwaitsAreSound, NEW r \in Requests, Frame(r), NEW q \in Requests \ {r}
  PROVE  AwaitOK(q)'
<1>1. AwaitOK(q)
  BY DEF AwaitsAreSound
<1>2. /\ pc'[q] = pc[q] /\ call'[q] = call[q]
      /\ idem'[q] = idem[q] /\ reply'[q] = reply[q]
      /\ orders[q] = None => orders'[q] = None
  BY DEF Frame
<1>3. pc[q] # "idle" => (Keyed(q) => SlotOf(q) \in Slots)
                         /\ (call[q].op = "issue" => call[q].arg \in OrderIds)
  BY <1>1, CallTyped
<1>4. SlotOf(q)' = SlotOf(q) /\ Keyed(q)' = Keyed(q)
  BY <1>2 DEF SlotOf, Keyed
<1>5. pc[q] # "idle" /\ Keyed(q) =>
        /\ keys[SlotOf(q)] # None => keys'[SlotOf(q)] # None
        /\ Writes(q, SlotOf(q)) => Writes(q, SlotOf(q))'
  BY <1>2, <1>3, <1>4 DEF Frame, KeyFrame, Writes
<1>6. pc[q] = "decide" => orders[call[q].arg] # None /\ orders'[call[q].arg] # None
  BY <1>1, <1>3 DEF AwaitOK, Frame
<1> QED
  BY <1>1, <1>2, <1>4, <1>5, <1>6 DEF AwaitOK

\* A request that is over relies on nothing.
LEMMA EndedAwaits ==
  ASSUME NEW r \in Requests, call'[r] \in Calls, pc'[r] \in {"done", "dead"}
  PROVE  AwaitOK(r)'
  BY DEF AwaitOK

\* The end of r disturbs no other request.
LEMMA FinishFrame ==
  ASSUME TypeOK, NEW r \in Requests, AwaitOK(r), pc[r] # "idle",
         NEW code, NEW body, Finish(r, code, body)
  PROVE  Frame(r) /\ AwaitOK(r)'
<1>1. KeyFrame(r)
  BY RollBackFrame DEF Finish, RollBack
<1>2. call'[r] \in Calls /\ pc'[r] = "done"
  BY DEF Finish, Goto, TypeOK, AwaitOK
<1> QED
  BY <1>1, <1>2, EndedAwaits
     DEF Finish, Frame, Goto, Answer, TypeOK, KeysTypeOK, books

\* The exception path of r disturbs no other request.
LEMMA RollBackThenFailFrame ==
  ASSUME TypeOK, NEW r \in Requests, AwaitOK(r), pc[r] # "idle",
         Keyed(r), idem[r] # None, NEW code, RollBackThenFail(r, code)
  PROVE  Frame(r) /\ AwaitOK(r)'
<1>1. KeyFrame(r)
  BY RollBackFrame DEF RollBackThenFail, RollBack
<1>2. /\ call'[r] = call[r] /\ pc'[r] = "fail" /\ idem'[r] = idem[r]
      /\ UNCHANGED <<call, idem, books>>
  BY DEF RollBackThenFail, Goto, TypeOK
<1>3. AwaitOK(r)'
  BY <1>2 DEF AwaitOK, Keyed
<1> QED
  BY <1>1, <1>2, <1>3 DEF RollBackThenFail, Frame, Goto, Answer, TypeOK, books

\* The steps around the key keep every await sound.
LEMMA ClaimKeyAwaits ==
  ASSUME TypeOK, AwaitsAreSound, NEW r \in Requests, ClaimKey(r)
  PROVE  Frame(r) /\ AwaitOK(r)'
<1> DEFINE s == SlotOf(r)
<1>1. AwaitOK(r)
  BY DEF AwaitsAreSound
<1>2. CASE Claim(r)
  <2>1. /\ s \in Slots /\ Keyed(r) /\ call[r] \in Calls /\ call[r].op \in Ops
        /\ orders[r] = None
    BY <1>1, <1>2, CallTyped DEF Claim, AwaitOK
  <2>2. LockedRow(r, call[r].arg) # None
    <3>1. call[r].arg \in Hashes
      BY <1>1, <1>2, CallTyped DEF Claim
    <3>2. LockedRow(r, call[r].arg) \in KeyRows
      BY <3>1 DEF LockedRow, KeyRows, KeyStatus
    <3> QED
      BY <3>2, NoneAssumption
  <2>3. /\ pending'[s] = [by |-> r, row |-> LockedRow(r, call[r].arg)]
        /\ idem'[r] = LockedRow(r, call[r].arg)
        /\ pending[s] = None /\ UNCHANGED keys
        /\ \A t \in Slots \ {s} : pending'[t] = pending[t]
    BY <1>2, <2>1 DEF Claim, InsertKey, TypeOK, KeysTypeOK
  <2>4. Writes(r, s)'
    <3>1. [by |-> r, row |-> LockedRow(r, call[r].arg)] # None
      <4>1. LockedRow(r, call[r].arg) \in KeyRows
        BY <1>1, <1>2, CallTyped DEF Claim, LockedRow, KeyRows, KeyStatus
      <4> QED
        BY <4>1, NoneAssumption
    <3>2. call' = call
      BY <1>2 DEF Claim
    <3> QED
      BY <2>3, <3>1, <3>2 DEF Writes, SlotOf
  <2>5. KeyFrame(r)
    BY <2>1, <2>3 DEF KeyFrame, Writes
  <2>6. pc'[r] = WorkOf(call[r].op) /\ call' = call /\ orders' = orders
    BY <1>2 DEF Claim, Goto, TypeOK, books
  <2>7. AwaitOK(r)'
    BY <2>1, <2>2, <2>3, <2>4, <2>6 DEF AwaitOK, WorkOf, LockSequence, Ops, Keyed, SlotOf
  <2> QED
    BY <1>2, <2>5, <2>7 DEF Frame, Claim, InsertKey, Goto, TypeOK, KeysTypeOK, books
<1>3. CASE ClaimConflict(r)
  <2>1. keys[s] # None /\ UNCHANGED <<keyVars, call, reply, books>>
        /\ pc' = [pc EXCEPT ![r] = "conflict"]
    BY <1>3 DEF ClaimConflict, ConflictKey, Goto
  <2> QED
    BY <1>1, <1>3, <2>1
       DEF AwaitOK, Keyed, SlotOf, Frame, KeyFrame, Writes, TypeOK, keyVars, books,
           ClaimConflict
<1>4. CASE ClaimReplay(r) \/ ClaimReused(r) \/ ClaimInProgress(r)
  BY <1>1, <1>4, FinishFrame DEF ClaimReplay, ClaimReused, ClaimInProgress
<1>5. CASE ClaimFailed(r)
  <2>1. /\ keys[s] # None /\ UNCHANGED <<keys, pending, call, reply, books>>
        /\ pc' = [pc EXCEPT ![r] = "reclaim"] /\ idem' = [idem EXCEPT ![r] = keys[s]]
    BY <1>1, <1>5 DEF ClaimFailed, Goto, AwaitOK
  <2> QED
    BY <1>1, <1>5, <2>1
       DEF AwaitOK, Keyed, SlotOf, Frame, KeyFrame, Writes, TypeOK, KeysTypeOK, books,
           ClaimFailed
<1>6. CASE Reclaim(r)
  <2>1. /\ s \in Slots /\ Keyed(r) /\ call[r] \in Calls /\ call[r].op \in Ops
        /\ orders[r] = None /\ keys[s] # None /\ idem[r] # None
    BY <1>1, <1>6, CallTyped DEF Reclaim, AwaitOK
  <2>2. /\ \A t \in Slots \ {s} : pending'[t] = pending[t]
        /\ \A q \in Requests \ {r} : ~Writes(q, s)
        /\ UNCHANGED <<keys, call, reply, books>>
        /\ pc' = [pc EXCEPT ![r] = WorkOf(call[r].op)]
        /\ \A q \in Requests \ {r} : idem'[q] = idem[q]
    BY <1>6, <2>1 DEF Reclaim, ReclaimKey, Writable, Writes, Goto, TypeOK, KeysTypeOK
  <2>3. idem'[r] # None
    <3>1. idem' \in [Requests -> KeyRows \cup {None}] /\ idem[r] \in KeyRows
      BY <1>6, <2>1, ClaimKeyTyped DEF ClaimKey, TypeOK, KeysTypeOK
    <3>2. idem'[r] = [idem[r] EXCEPT !.status = "LOCKED", !.hash = call[r].arg]
      BY <1>6 DEF Reclaim, ReclaimKey, TypeOK, KeysTypeOK
    <3>3. call[r].arg \in Hashes
      BY <1>1, <1>6, CallTyped DEF Reclaim
    <3>4. [idem[r] EXCEPT !.status = "LOCKED", !.hash = call[r].arg] \in KeyRows
      BY <3>1, <3>3 DEF KeyRows, KeyStatus
    <3> QED
      BY <3>2, <3>4, NoneAssumption
  <2>4. KeyFrame(r)
    BY <2>1, <2>2 DEF KeyFrame, Writes
  <2>5. AwaitOK(r)'
    BY <2>1, <2>2, <2>3
       DEF AwaitOK, WorkOf, LockSequence, Ops, Keyed, SlotOf, TypeOK, books
  <2> QED
    BY <2>2, <2>4, <2>5 DEF Frame, TypeOK, books
<1>7. CASE Complete(r)
  <2>1. /\ s \in Slots /\ keys[s] # None /\ call[r] \in Calls
        /\ reply[r] # None /\ reply[r].body # None
    BY <1>1, <1>7, CallTyped DEF Complete, AwaitOK
  <2>2. reply[r].body \in Bodies
    BY <2>1 DEF TypeOK
  <2>3. KeyFrame(r)
    BY <1>7, <2>1, <2>2, CompleteFrame DEF Complete
  <2>4. /\ pc' = [pc EXCEPT ![r] = AfterComplete(call[r].op)]
        /\ UNCHANGED <<call, reply, books>> /\ idem' = [idem EXCEPT ![r] = None]
    BY <1>7 DEF Complete, Goto
  <2>5. AwaitOK(r)'
    BY <2>1, <2>4 DEF AwaitOK, AfterComplete, TypeOK
  <2> QED
    BY <2>3, <2>4, <2>5 DEF Frame, TypeOK, KeysTypeOK, books
<1> QED
  BY <1>2, <1>3, <1>4, <1>5, <1>6, <1>7 DEF ClaimKey

\* The steps of a booking keep every await sound.
LEMMA BookAwaits ==
  ASSUME TypeOK, AwaitsAreSound, NEW r \in Requests, Book(r)
  PROVE  Frame(r) /\ AwaitOK(r)'
<1> DEFINE s == SlotOf(r)
<1>1. AwaitOK(r)
  BY DEF AwaitsAreSound
<1>2. CASE Persist(r) \/ PersistUnacknowledged(r)
  <2>1. InsertOrder(r) /\ UNCHANGED idem
    BY <1>2 DEF Persist, PersistUnacknowledged
  <2>2. /\ call[r] \in Calls /\ AgentOf(r) \in Agents /\ call[r].arg \in Payloads
        /\ Keyed(r) => s \in Slots /\ idem[r] # None
    BY <1>1, <2>1, CallTyped DEF InsertOrder, AwaitOK
  <2>3. KeyFrame(r)
    BY <2>1, CommitFrame DEF InsertOrder, Commit
  <2>4. NewOrder(AgentOf(r), call[r].arg) # None
    <3>1. NewOrder(AgentOf(r), call[r].arg) \in OrderRows
      BY <2>2 DEF NewOrder, OrderRows
    <3> QED
      BY <3>1, NoneAssumption
  <2>5. orders' = [orders EXCEPT ![r] = NewOrder(AgentOf(r), call[r].arg)] /\ call' = call
    BY <2>1 DEF InsertOrder
  <2>6. Frame(r)
    <3>1. r \in OrderIds
      BY DEF OrderIds
    <3>2. \A q \in Requests \ {r} : orders'[q] = orders[q]
      BY <2>5, <3>1 DEF TypeOK, OrderIds
    <3>3. \A o \in OrderIds : orders[o] # None => orders'[o] # None
      BY <2>4, <2>5 DEF TypeOK
    <3> QED
      BY <1>2, <2>1, <2>3, <2>5, <3>2, <3>3
         DEF Frame, Persist, PersistUnacknowledged, Goto, Answer, TypeOK
  <2>7. AwaitOK(r)'
    <3>1. CASE Persist(r) /\ Keyed(r)
      <4>1. Writes(r, s) \/ keys[s] # None
        BY <1>1, <2>1, <3>1 DEF AwaitOK, InsertOrder
      <4>2. Writes(r, s) => pending[s].row # None
        BY <2>2, <3>1, NoneAssumption DEF Writes, TypeOK, KeysTypeOK
      <4>3. keys'[s] # None
        BY <2>1, <2>2, <3>1, <4>1, <4>2 DEF InsertOrder, Commit, CommitKeys
      <4>4. BookingBody(r) \in Bodies
        BY DEF BookingBody, Bodies, OrderIds
      <4>5. reply'[r] # None /\ reply'[r].body # None
        BY <3>1, <4>4, AnsweredNotNone DEF Persist, Codes
      <4>6. pc'[r] = "complete"
        BY <3>1 DEF Persist, Goto, TypeOK
      <4> QED
        BY <2>2, <2>5, <3>1, <4>3, <4>5, <4>6 DEF AwaitOK, Keyed, SlotOf
    <3>2. CASE PersistUnacknowledged(r) /\ Keyed(r)
      <4>1. pc'[r] = "fail"
        BY <3>2 DEF PersistUnacknowledged, Goto, TypeOK
      <4> QED
        BY <2>1, <2>2, <2>5, <3>2, <4>1 DEF AwaitOK, Keyed
    <3>3. CASE ~Keyed(r)
      <4>1. pc'[r] = "done"
        BY <1>2, <3>3 DEF Persist, PersistUnacknowledged, Goto, TypeOK
      <4> QED
        BY <2>2, <2>5, <4>1, EndedAwaits
    <3> QED
      BY <1>2, <3>1, <3>2, <3>3
  <2> QED
    BY <2>6, <2>7
<1>3. CASE ProviderFails(r)
  BY <1>1, <1>3, FinishFrame, RollBackThenFailFrame DEF ProviderFails, AwaitOK
<1>4. CASE FailSkipped(r)
  <2>1. /\ call[r] \in Calls /\ UNCHANGED <<keys, pending, call, reply, books>>
        /\ pc' = [pc EXCEPT ![r] = "done"] /\ idem' = [idem EXCEPT ![r] = None]
    BY <1>1, <1>4 DEF FailSkipped, Goto, AwaitOK
  <2> QED
    BY <2>1, EndedAwaits DEF Frame, KeyFrame, Writes, TypeOK, KeysTypeOK, books
<1>5. CASE FailFound(r)
  <2>1. /\ call[r] \in Calls /\ Keyed(r) /\ keys[s] # None
        /\ UNCHANGED <<keys, pending, call, reply, books>>
        /\ pc' = [pc EXCEPT ![r] = "mark"] /\ idem' = [idem EXCEPT ![r] = keys[s]]
    BY <1>1, <1>5 DEF FailFound, KeyRemains, Goto, AwaitOK
  <2>2. AwaitOK(r)'
    BY <2>1 DEF AwaitOK, Keyed, SlotOf, TypeOK
  <2> QED
    BY <2>1, <2>2 DEF Frame, KeyFrame, Writes, TypeOK, KeysTypeOK, books
<1>6. CASE MarkFailed(r)
  <2>1. /\ call[r] \in Calls /\ s \in Slots /\ keys[s] # None
        /\ keys' = [keys EXCEPT ![s] = [@ EXCEPT !.status = "FAILED"]]
        /\ UNCHANGED <<pending, call, reply, books>>
        /\ pc' = [pc EXCEPT ![r] = "done"] /\ idem' = [idem EXCEPT ![r] = None]
    BY <1>1, <1>6, CallTyped DEF MarkFailed, FailKey, Goto, AwaitOK
  <2>2. keys'[s] \in KeyRows
    <3>1. keys[s] \in KeyRows
      BY <2>1 DEF TypeOK, KeysTypeOK
    <3>2. [keys[s] EXCEPT !.status = "FAILED"] \in KeyRows
      BY <3>1 DEF KeyRows, KeyStatus
    <3> QED
      BY <2>1, <3>2 DEF TypeOK, KeysTypeOK
  <2>3. KeyFrame(r)
    BY <2>1, <2>2, NoneAssumption DEF KeyFrame, Writes, TypeOK, KeysTypeOK
  <2> QED
    BY <2>1, <2>3, EndedAwaits DEF Frame, TypeOK, KeysTypeOK, books
<1> QED
  BY <1>2, <1>3, <1>4, <1>5, <1>6 DEF Book

\* The steps of an issue keep every await sound.
LEMMA IssueAwaits ==
  ASSUME TypeOK, AwaitsAreSound, NEW r \in Requests, Issue(r)
  PROVE  Frame(r) /\ AwaitOK(r)'
<1> DEFINE s == SlotOf(r)
           o == call[r].arg
<1>1. AwaitOK(r)
  BY DEF AwaitsAreSound
<1>2. CASE LockAgent(r)
  <2>1. /\ pc' = [pc EXCEPT ![r] = "lockOrder"] /\ call[r] \in Calls
        /\ UNCHANGED <<keyVars, call, reply, books>>
    BY <1>1, <1>2 DEF LockAgent, LockSequence, Goto, AwaitOK
  <2>2. AwaitOK(r)'
    BY <1>1, <1>2, <2>1
       DEF AwaitOK, LockAgent, Keyed, SlotOf, Writes, TypeOK, keyVars, books
  <2> QED
    BY <2>1, <2>2 DEF Frame, KeyFrame, Writes, TypeOK, keyVars, books
<1>3. CASE LockOrder(r)
  <2>1. /\ pc' = [pc EXCEPT ![r] = "decide"] /\ call[r] \in Calls /\ orders[o] # None
        /\ UNCHANGED <<keyVars, call, reply, books>>
    BY <1>1, <1>3 DEF LockOrder, LockSequence, Goto, AwaitOK
  <2>2. AwaitOK(r)'
    BY <1>1, <1>3, <2>1
       DEF AwaitOK, LockOrder, Keyed, SlotOf, Writes, TypeOK, keyVars, books
  <2> QED
    BY <2>1, <2>2 DEF Frame, KeyFrame, Writes, TypeOK, keyVars, books
<1>4. CASE NoSuchOrder(r) \/ Forbidden(r) \/ ConstraintFails(r)
  BY <1>1, <1>4, FinishFrame DEF NoSuchOrder, Forbidden, ConstraintFails, Issuable
<1>5. CASE InsufficientFunds(r)
  BY <1>1, <1>5, FinishFrame, RollBackThenFailFrame
     DEF InsufficientFunds, Issuable, AwaitOK
<1>6. CASE AlreadyIssued(r)
  <2> DEFINE body == IssueBody(o, orders[o].ticket, acct[r])
  <2>1. /\ call[r] \in Calls /\ o \in OrderIds /\ orders[o] # None
        /\ Keyed(r) => s \in Slots /\ (Writes(r, s) \/ keys[s] # None)
    BY <1>1, <1>6, CallTyped DEF AlreadyIssued, AwaitOK
  <2>2. body \in Bodies
    BY <2>1 DEF IssueBody, Bodies, TypeOK, OrderRows
  <2>3. KeyFrame(r)
    <3> HIDE DEF body
    <3>1. CASE Keyed(r)
      <4>1. CompleteKey(r, s, body)
        BY <1>6, <3>1 DEF AlreadyIssued, body
      <4> QED
        BY <2>1, <2>2, <3>1, <4>1, CompleteFrame
    <3>2. CASE ~Keyed(r)
      BY <1>6, <3>2, RollBackFrame DEF AlreadyIssued
    <3> QED
      BY <3>1, <3>2
  <2>4. /\ pc' = [pc EXCEPT ![r] = "done"] /\ UNCHANGED <<call, books>>
        /\ idem' = [idem EXCEPT ![r] = None]
        /\ reply' = [reply EXCEPT ![r] = [code |-> "ok", body |-> body]]
    BY <1>6 DEF AlreadyIssued, Goto, Answer
  <2> HIDE DEF body
  <2> QED
    BY <2>1, <2>3, <2>4, EndedAwaits DEF Frame, TypeOK, KeysTypeOK, books
<1>7. CASE IssueCommit(r)
  <2> DEFINE left == acct[r] - Total(o)
  <2>1. /\ call[r] \in Calls /\ o \in OrderIds /\ orders[o] # None
        /\ Keyed(r) => s \in Slots /\ (Writes(r, s) \/ keys[s] # None)
        /\ call[r].op = "issue" /\ acct[r] >= Total(o)
    BY <1>1, <1>7, CallTyped DEF IssueCommit, Issuable, AwaitOK, Affords
  <2>2. IssuedRow(o) # None
    <3>1. orders[o] \in OrderRows /\ TicketOf[o] \in Tickets
      BY <2>1, OrderIdAssumption DEF TypeOK
    <3>2. IssuedRow(o) \in OrderRows
      BY <3>1 DEF IssuedRow, OrderRows
    <3> QED
      BY <3>2, NoneAssumption
  <2>3. IssueBody(o, TicketOf[o], left) \in Bodies
    <3>1. Total(o) \in Nat
      BY <2>1, MoneyAssumption DEF Total, TypeOK, OrderRows
    <3>2. left \in Nat /\ TicketOf[o] \in Tickets
      BY <2>1, <3>1, OrderIdAssumption DEF TypeOK
    <3> QED
      BY <2>1, <3>2 DEF IssueBody, Bodies
  <2>4. /\ CommitKeys(r) /\ orders' = [orders EXCEPT ![o] = IssuedRow(o)]
        /\ Answer(r, "ok", IssueBody(o, TicketOf[o], left))
        /\ pc' = [pc EXCEPT ![r] = IF Keyed(r) THEN "complete" ELSE "kick"]
        /\ UNCHANGED <<idem, call>>
    BY <1>7 DEF IssueCommit, Commit, Goto
  <2>5. KeyFrame(r)
    BY <2>4, CommitFrame
  <2>6. Frame(r)
    <3>1. \A p \in OrderIds : orders[p] = None <=> orders'[p] = None
      BY <2>1, <2>2, <2>4 DEF TypeOK
    <3> QED
      BY <2>4, <2>5, <3>1 DEF Frame, Answer, TypeOK, OrderIds
  <2>7. AwaitOK(r)'
    <3>1. CASE Keyed(r)
      <4>1. Writes(r, s) => pending[s].row # None
        BY <2>1, <3>1, NoneAssumption DEF Writes, TypeOK, KeysTypeOK
      <4>2. keys'[s] # None
        BY <2>1, <2>4, <3>1, <4>1 DEF CommitKeys
      <4>3. reply'[r] # None /\ reply'[r].body # None
        BY <2>3, <2>4, AnsweredNotNone DEF Codes
      <4>4. pc'[r] = "complete"
        BY <2>4, <3>1 DEF TypeOK
      <4> QED
        BY <2>1, <2>4, <3>1, <4>2, <4>3, <4>4 DEF AwaitOK, Keyed, SlotOf
    <3>2. CASE ~Keyed(r)
      BY <2>1, <2>4, <3>2 DEF AwaitOK, TypeOK
    <3> QED
      BY <3>1, <3>2
  <2> QED
    BY <2>6, <2>7
<1>8. CASE Kick(r)
  <2>1. /\ call[r] \in Calls /\ UNCHANGED <<keyVars, call, reply, books>>
        /\ pc' = [pc EXCEPT ![r] = "done"]
    BY <1>1, <1>8 DEF Kick, Goto, AwaitOK
  <2> QED
    BY <2>1, EndedAwaits DEF Frame, KeyFrame, Writes, TypeOK, keyVars, books
<1> QED
  BY <1>2, <1>3, <1>4, <1>5, <1>6, <1>7, <1>8 DEF Issue

\* A step of request r.
Acts(r) == (\E c \in Traffic : Arrive(r, c)) \/ Step(r) \/ Die(r)

\* Whatever request r does, it disturbs no other request and is where it can
\* go on.
LEMMA ActsAwaits ==
  ASSUME TypeOK, AwaitsAreSound, NEW r \in Requests, Acts(r)
  PROVE  Frame(r) /\ AwaitOK(r)'
<1>1. ASSUME NEW c \in Traffic, Arrive(r, c) PROVE Frame(r) /\ AwaitOK(r)'
  <2>1. /\ c \in Calls /\ c.op \in Ops /\ orders[r] = None
    BY <1>1, TrafficAssumption DEF Calls, Ops, Arrive, AwaitsAreSound, AwaitOK
  <2>2. /\ call' = [call EXCEPT ![r] = c]
        /\ pc' = [pc EXCEPT ![r] = IF c.key = NoKey THEN WorkOf(c.op) ELSE "claim"]
        /\ UNCHANGED <<keyVars, reply, books>>
    BY <1>1 DEF Arrive, Goto
  <2>3. AwaitOK(r)'
    BY <2>1, <2>2
       DEF AwaitOK, WorkOf, LockSequence, Ops, Keyed, TypeOK, books
  <2>4. Frame(r)
    BY <2>2 DEF Frame, KeyFrame, Writes, TypeOK, keyVars, books
  <2> QED
    BY <2>3, <2>4
<1>2. CASE DeadlockAbort(r)
  BY <1>2, FinishFrame DEF DeadlockAbort, AwaitsAreSound
<1>3. CASE Die(r)
  <2>1. /\ call[r] \in Calls /\ RollBackKeys(r) /\ UNCHANGED <<call, books>>
        /\ pc' = [pc EXCEPT ![r] = "dead"] /\ idem' = [idem EXCEPT ![r] = None]
        /\ reply' = [reply EXCEPT ![r] = None]
    BY <1>3 DEF Die, RollBack, Goto, AwaitsAreSound, AwaitOK
  <2>2. Frame(r)
    BY <2>1, RollBackFrame DEF Frame, TypeOK, KeysTypeOK, books
  <2>3. AwaitOK(r)'
    BY <2>1, EndedAwaits DEF TypeOK
  <2> QED
    BY <2>2, <2>3
<1> QED
  BY <1>1, <1>2, <1>3, ClaimKeyAwaits, BookAwaits, IssueAwaits DEF Acts, Step

\* Every step keeps every await sound.
LEMMA NextAwaits ==
  ASSUME TypeOK, AwaitsAreSound, [Next]_vars
  PROVE  AwaitsAreSound'
<1>1. ASSUME NEW r \in Requests, Acts(r) PROVE AwaitsAreSound'
  BY <1>1, ActsAwaits, OthersAwait DEF AwaitsAreSound
<1>2. CASE UNCHANGED vars
  BY <1>2 DEF vars, keyVars, lockVars, books, AwaitsAreSound, AwaitOK, Keyed, SlotOf, Writes
<1> QED
  BY <1>1, <1>2 DEF Next, Rest, Acts

\* The state of the tables, the sessions and the locks has its type, and every
\* request is at an await its call can reach.
THEOREM TypeCorrect == Spec => []TypeOK
<1>1. Init => TypeOK /\ AwaitsAreSound
  BY InitTyped, InitAwaits
<1>2. TypeOK /\ AwaitsAreSound /\ [Next]_vars => (TypeOK /\ AwaitsAreSound)'
  BY NextTyped, NextAwaits
<1> QED
  BY <1>1, <1>2, PTL DEF Spec

\* Whatever runs in between, what a handler reads again after an await is there.
THEOREM AwaitsSound == Spec => []AwaitsAreSound
<1>1. Init => TypeOK /\ AwaitsAreSound
  BY InitTyped, InitAwaits
<1>2. TypeOK /\ AwaitsAreSound /\ [Next]_vars => (TypeOK /\ AwaitsAreSound)'
  BY NextTyped, NextAwaits
<1> QED
  BY <1>1, <1>2, PTL DEF Spec


-----------------------------------------------------------------------------
(* Row locks *)

Locking == {"lockOrder", "decide"}

\* A request that holds row locks locks the rows of its call.
LEMMA LockingTyped ==
  ASSUME TypeOK, AwaitsAreSound, NEW r \in Requests, pc[r] \in Locking
  PROVE  AgentOf(r) \in Agents /\ call[r].arg \in OrderIds /\ call[r].op = "issue"
  BY CallTyped DEF AwaitsAreSound, AwaitOK, Locking

\* A transaction that ends gives back what it held.
LEMMA ReleasedLocks ==
  ASSUME TypeOK, AwaitsAreSound, LocksAreHeldToTheEnd, NEW r \in Requests,
         ReleaseLocks(r), UNCHANGED call,
         NEW label, label \notin Locking, pc' = [pc EXCEPT ![r] = label]
  PROVE  LocksAreHeldToTheEnd'
<1>1. \A q \in Requests : q # r => pc'[q] = pc[q] /\ AgentOf(q)' = AgentOf(q)
  BY DEF TypeOK, AgentOf
<1>2. pc'[r] \notin Locking
  BY DEF TypeOK
<1>3. \A a \in Agents : forUpdate'[a] = IF forUpdate[a] = r THEN None ELSE forUpdate[a]
  BY DEF ReleaseLocks
<1>4. \A o \in OrderIds : orderLock'[o] = IF orderLock[o] = r THEN None ELSE orderLock[o]
  BY DEF ReleaseLocks
<1>5. \A q \in Requests : pc'[q] \in Locking =>
        forUpdate'[AgentOf(q)'] = q /\ (pc'[q] = "decide" => orderLock'[call'[q].arg] = q)
  BY <1>1, <1>2, <1>3, <1>4, LockingTyped DEF LocksAreHeldToTheEnd, Locking
<1>6. \A a \in Agents : forUpdate'[a] # None =>
        pc'[forUpdate'[a]] \in Locking /\ AgentOf(forUpdate[a])' = a
             /\ forUpdate'[a] = forUpdate[a]
  BY <1>1, <1>3 DEF LocksAreHeldToTheEnd, Locking, TypeOK
<1>7. \A o \in OrderIds : orderLock'[o] # None =>
        pc'[orderLock'[o]] = "decide" /\ call'[orderLock'[o]].arg = o
  BY <1>1, <1>4 DEF LocksAreHeldToTheEnd, TypeOK
<1> QED
  BY <1>5, <1>6, <1>7 DEF LocksAreHeldToTheEnd, Locking, AgentOf

\* A request that holds no row lock moves without touching those of others.
LEMMA UntouchedLocks ==
  ASSUME TypeOK, AwaitsAreSound, LocksAreHeldToTheEnd, NEW r \in Requests,
         pc[r] \notin Locking, UNCHANGED <<forUpdate, orderLock>>,
         NEW label, label \notin Locking, pc' = [pc EXCEPT ![r] = label],
         \A q \in Requests \ {r} : call'[q] = call[q]
  PROVE  LocksAreHeldToTheEnd'
<1>1. \A q \in Requests : q # r => pc'[q] = pc[q] /\ AgentOf(q)' = AgentOf(q)
                                   /\ call'[q] = call[q]
  BY DEF TypeOK, AgentOf
<1>2. pc'[r] \notin Locking
  BY DEF TypeOK
<1>3. /\ \A a \in Agents : forUpdate[a] # r
      /\ \A o \in OrderIds : orderLock[o] # r
  BY NoneAssumption DEF LocksAreHeldToTheEnd, Locking
<1>4. \A q \in Requests : pc'[q] \in Locking =>
        forUpdate'[AgentOf(q)'] = q /\ (pc'[q] = "decide" => orderLock'[call'[q].arg] = q)
  BY <1>1, <1>2 DEF LocksAreHeldToTheEnd, Locking
<1>5. \A a \in Agents : forUpdate'[a] # None =>
        pc'[forUpdate'[a]] \in Locking /\ call'[forUpdate'[a]].agent = a
  BY <1>1, <1>3 DEF LocksAreHeldToTheEnd, Locking, TypeOK, AgentOf
<1>6. \A o \in OrderIds : orderLock'[o] # None =>
        pc'[orderLock'[o]] = "decide" /\ call'[orderLock'[o]].arg = o
  BY <1>1, <1>3 DEF LocksAreHeldToTheEnd, TypeOK
<1> QED
  BY <1>4, <1>5, <1>6 DEF LocksAreHeldToTheEnd, Locking, AgentOf

\* Granting FOR UPDATE on the agent row keeps the lock discipline.
LEMMA LockAgentLocks ==
  ASSUME TypeOK, AwaitsAreSound, LocksAreHeldToTheEnd, NEW r \in Requests, LockAgent(r)
  PROVE  LocksAreHeldToTheEnd'
<1>1. AgentOf(r) \in Agents
  BY CallTyped DEF LockAgent, AwaitsAreSound
<1>2. /\ forUpdate[AgentOf(r)] \in {r, None}
      /\ forUpdate' = [forUpdate EXCEPT ![AgentOf(r)] = r]
      /\ pc' = [pc EXCEPT ![r] = "lockOrder"] /\ pc[r] = "lockAgent"
      /\ UNCHANGED <<call, orderLock>>
  BY DEF LockAgent, ForUpdateGranted, KeyShareGranted, LockSequence, Goto
<1>3. \A q \in Requests \ {r} : pc[q] \in Locking => AgentOf(q) # AgentOf(r)
  BY <1>2, NoneAssumption DEF LocksAreHeldToTheEnd, Locking
<1>4. \A o \in OrderIds : orderLock[o] # r
  BY <1>2, NoneAssumption DEF LocksAreHeldToTheEnd
<1>5. \A q \in Requests : pc'[q] \in Locking =>
        forUpdate'[AgentOf(q)] = q /\ (pc'[q] = "decide" => orderLock[call[q].arg] = q)
  BY <1>1, <1>2, <1>3, LockingTyped DEF LocksAreHeldToTheEnd, Locking, TypeOK
<1>6. \A a \in Agents : forUpdate'[a] # None =>
        pc'[forUpdate'[a]] \in Locking /\ AgentOf(forUpdate'[a]) = a
  BY <1>1, <1>2 DEF LocksAreHeldToTheEnd, Locking, TypeOK
<1>7. \A o \in OrderIds : orderLock[o] # None =>
        pc'[orderLock[o]] = "decide" /\ call[orderLock[o]].arg = o
  BY <1>2, <1>4 DEF LocksAreHeldToTheEnd, TypeOK
<1> QED
  BY <1>2, <1>5, <1>6, <1>7 DEF LocksAreHeldToTheEnd, Locking, AgentOf

\* Granting FOR UPDATE on the order row keeps the lock discipline.
LEMMA LockOrderLocks ==
  ASSUME TypeOK, AwaitsAreSound, LocksAreHeldToTheEnd, NEW r \in Requests, LockOrder(r)
  PROVE  LocksAreHeldToTheEnd'
<1>1. pc[r] \in Locking /\ call[r].arg \in OrderIds
  BY LockingTyped DEF LockOrder, Locking
<1>2. /\ orderLock[call[r].arg] = None
      /\ orderLock' = [orderLock EXCEPT ![call[r].arg] = r]
      /\ pc' = [pc EXCEPT ![r] = "decide"] /\ pc[r] = "lockOrder"
      /\ UNCHANGED <<call, forUpdate>>
  BY DEF LockOrder, LockSequence, Goto
<1>3. \A q \in Requests \ {r} : pc[q] = "decide" => call[q].arg # call[r].arg
  BY <1>2, NoneAssumption DEF LocksAreHeldToTheEnd
<1>4. \A q \in Requests : pc'[q] \in Locking =>
        forUpdate[AgentOf(q)] = q /\ (pc'[q] = "decide" => orderLock'[call[q].arg] = q)
  BY <1>1, <1>2, <1>3, LockingTyped DEF LocksAreHeldToTheEnd, Locking, TypeOK
<1>5. \A a \in Agents : forUpdate[a] # None =>
        pc'[forUpdate[a]] \in Locking /\ AgentOf(forUpdate[a]) = a
  BY <1>2 DEF LocksAreHeldToTheEnd, Locking, TypeOK
<1>6. \A o \in OrderIds : orderLock'[o] # None =>
        pc'[orderLock'[o]] = "decide" /\ call[orderLock'[o]].arg = o
  BY <1>1, <1>2 DEF LocksAreHeldToTheEnd, TypeOK
<1> QED
  BY <1>2, <1>4, <1>5, <1>6 DEF LocksAreHeldToTheEnd, Locking, AgentOf

\* Every step keeps the lock discipline.
LEMMA NextLocks ==
  ASSUME TypeOK, AwaitsAreSound, LocksAreHeldToTheEnd, [Next]_vars
  PROVE  LocksAreHeldToTheEnd'
<1>1. ASSUME NEW r \in Requests, NEW code, NEW body, Finish(r, code, body)
      PROVE  LocksAreHeldToTheEnd'
  BY <1>1, ReleasedLocks DEF Finish, RollBack, Goto, Locking
<1>2. ASSUME NEW r \in Requests, NEW code, RollBackThenFail(r, code)
      PROVE  LocksAreHeldToTheEnd'
  BY <1>2, ReleasedLocks DEF RollBackThenFail, RollBack, Goto, Locking
<1>3. ASSUME NEW r \in Requests, NEW c \in Traffic, Arrive(r, c)
      PROVE  LocksAreHeldToTheEnd'
  <2>1. /\ pc[r] = "idle" /\ UNCHANGED <<forUpdate, orderLock>>
        /\ pc' = [pc EXCEPT ![r] = IF c.key = NoKey THEN WorkOf(c.op) ELSE "claim"]
        /\ \A q \in Requests \ {r} : call'[q] = call[q]
    BY <1>3 DEF Arrive, Goto, lockVars, TypeOK
  <2>2. (IF c.key = NoKey THEN WorkOf(c.op) ELSE "claim") \notin Locking
    BY DEF WorkOf, LockSequence, Locking
  <2> QED
    BY <2>1, <2>2, UntouchedLocks DEF Locking
<1>4. ASSUME NEW r \in Requests, ClaimKey(r) PROVE LocksAreHeldToTheEnd'
  <2>1. CASE Claim(r) \/ Reclaim(r)
    <3>1. WorkOf(call[r].op) \notin Locking
      BY DEF WorkOf, LockSequence, Locking
    <3>2. /\ pc[r] \in {"claim", "reclaim"} /\ UNCHANGED <<forUpdate, orderLock, call>>
          /\ pc' = [pc EXCEPT ![r] = WorkOf(call[r].op)]
      BY <2>1 DEF Claim, Reclaim, Goto, lockVars
    <3> QED
      BY <3>1, <3>2, UntouchedLocks DEF Locking
  <2>2. CASE ClaimConflict(r) \/ ClaimFailed(r)
    BY <2>2, UntouchedLocks DEF ClaimConflict, ClaimFailed, Goto, lockVars, Locking
  <2>3. CASE ClaimReplay(r) \/ ClaimReused(r) \/ ClaimInProgress(r)
    BY <1>1, <2>3 DEF ClaimReplay, ClaimReused, ClaimInProgress
  <2>4. CASE Complete(r)
    <3>1. AfterComplete(call[r].op) \notin Locking
      BY DEF AfterComplete, Locking
    <3> QED
      BY <2>4, <3>1, UntouchedLocks DEF Complete, Goto, lockVars, Locking
  <2> QED
    BY <1>4, <2>1, <2>2, <2>3, <2>4 DEF ClaimKey
<1>5. ASSUME NEW r \in Requests, Book(r) PROVE LocksAreHeldToTheEnd'
  <2>1. CASE Persist(r) \/ PersistUnacknowledged(r)
    <3>1. /\ ReleaseLocks(r) /\ UNCHANGED call
          /\ \E label \in {"complete", "done", "fail"} : pc' = [pc EXCEPT ![r] = label]
      BY <2>1 DEF Persist, PersistUnacknowledged, InsertOrder, Commit, Goto
    <3> QED
      BY <3>1, ReleasedLocks DEF Locking
  <2>2. CASE ProviderFails(r)
    BY <1>1, <1>2, <2>2 DEF ProviderFails
  <2>3. CASE FailSkipped(r) \/ FailFound(r) \/ MarkFailed(r)
    <3>1. /\ pc[r] \in {"fail", "mark"} /\ UNCHANGED <<forUpdate, orderLock, call>>
          /\ \E label \in {"done", "mark"} : pc' = [pc EXCEPT ![r] = label]
      BY <2>3 DEF FailSkipped, FailFound, MarkFailed, Goto, lockVars
    <3> QED
      BY <3>1, UntouchedLocks DEF Locking
  <2> QED
    BY <1>5, <2>1, <2>2, <2>3 DEF Book
<1>6. ASSUME NEW r \in Requests, Issue(r) PROVE LocksAreHeldToTheEnd'
  <2>1. CASE NoSuchOrder(r) \/ Forbidden(r) \/ ConstraintFails(r)
    BY <1>1, <2>1 DEF NoSuchOrder, Forbidden, ConstraintFails
  <2>2. CASE InsufficientFunds(r)
    BY <1>1, <1>2, <2>2 DEF InsufficientFunds
  <2>3. CASE AlreadyIssued(r) \/ IssueCommit(r)
    <3>1. /\ ReleaseLocks(r) /\ UNCHANGED call
          /\ \E label \in {"complete", "done", "kick"} : pc' = [pc EXCEPT ![r] = label]
      BY <2>3 DEF AlreadyIssued, IssueCommit, Commit, Goto
    <3> QED
      BY <3>1, ReleasedLocks DEF Locking
  <2>4. CASE Kick(r)
    BY <2>4, UntouchedLocks DEF Kick, Goto, lockVars, Locking
  <2> QED
    BY <1>6, <2>1, <2>2, <2>3, <2>4, LockAgentLocks, LockOrderLocks DEF Issue
<1>7. ASSUME NEW r \in Requests, DeadlockAbort(r) PROVE LocksAreHeldToTheEnd'
  BY <1>1, <1>7 DEF DeadlockAbort
<1>8. ASSUME NEW r \in Requests, Die(r) PROVE LocksAreHeldToTheEnd'
  BY <1>8, ReleasedLocks DEF Die, RollBack, Goto, Locking
<1>9. CASE UNCHANGED vars
  BY <1>9 DEF vars, lockVars, LocksAreHeldToTheEnd, AgentOf
<1> QED
  BY <1>3, <1>4, <1>5, <1>6, <1>7, <1>8, <1>9 DEF Next, Step, Rest

-----------------------------------------------------------------------------
(* The balance a request decides on *)

\* Only a booking's insert and an issue's commit change the books.
LEMMA BooksChange ==
  ASSUME [Next]_vars
  PROVE  \/ UNCHANGED books
         \/ \E r \in Requests : InsertOrder(r) \/ IssueCommit(r)
<1>1. ASSUME NEW r \in Requests, NEW c \in Traffic, Arrive(r, c) PROVE UNCHANGED books
  BY <1>1 DEF Arrive
<1>2. ASSUME NEW r \in Requests, ClaimKey(r) PROVE UNCHANGED books
  BY <1>2 DEF ClaimKey, Claim, ClaimConflict, ClaimReplay, ClaimReused, ClaimInProgress,
              ClaimFailed, Reclaim, Complete, Finish
<1>3. ASSUME NEW r \in Requests, Book(r) PROVE UNCHANGED books \/ InsertOrder(r)
  BY <1>3 DEF Book, Persist, PersistUnacknowledged, ProviderFails, FailSkipped, FailFound,
              MarkFailed, Finish, RollBackThenFail
<1>4. ASSUME NEW r \in Requests, Issue(r) PROVE UNCHANGED books \/ IssueCommit(r)
  BY <1>4 DEF Issue, LockAgent, LockOrder, NoSuchOrder, Forbidden, AlreadyIssued,
              InsufficientFunds, ConstraintFails, Kick, Finish, RollBackThenFail
<1>5. ASSUME NEW r \in Requests, DeadlockAbort(r) \/ Die(r) PROVE UNCHANGED books
  BY <1>5 DEF DeadlockAbort, Die, Finish
<1>6. CASE UNCHANGED vars
  BY <1>6 DEF vars, books
<1> QED
  BY <1>1, <1>2, <1>3, <1>4, <1>5, <1>6 DEF Next, Step, Rest

\* The account a session has loaded changes with its arrival and its lock only.
LEMMA AcctChange ==
  ASSUME [Next]_vars
  PROVE  \/ UNCHANGED acct
         \/ \E r \in Requests, c \in Traffic : Arrive(r, c)
         \/ \E r \in Requests : LockAgent(r)
<1>1. ASSUME NEW r \in Requests, ClaimKey(r) PROVE UNCHANGED acct
  BY <1>1 DEF ClaimKey, Claim, ClaimConflict, ClaimReplay, ClaimReused, ClaimInProgress,
              ClaimFailed, Reclaim, Complete, Finish
<1>2. ASSUME NEW r \in Requests, Book(r) PROVE UNCHANGED acct
  BY <1>2 DEF Book, Persist, PersistUnacknowledged, ProviderFails, FailSkipped, FailFound,
              MarkFailed, Finish, RollBackThenFail, InsertOrder
<1>3. ASSUME NEW r \in Requests, Issue(r) PROVE UNCHANGED acct \/ LockAgent(r)
  BY <1>3 DEF Issue, LockOrder, NoSuchOrder, Forbidden, AlreadyIssued, IssueCommit,
              InsufficientFunds, ConstraintFails, Kick, Finish, RollBackThenFail
<1>4. ASSUME NEW r \in Requests, DeadlockAbort(r) \/ Die(r) PROVE UNCHANGED acct
  BY <1>4 DEF DeadlockAbort, Die, Finish
<1>5. CASE UNCHANGED vars
  BY <1>5 DEF vars
<1> QED
  BY <1>1, <1>2, <1>3, <1>4, <1>5 DEF Next, Step, Rest

\* A lock is taken by LockAgent and by nothing else.
LEMMA LockTaken ==
  ASSUME TypeOK, [Next]_vars, NEW a \in Agents, forUpdate'[a] # None,
         forUpdate'[a] # forUpdate[a]
  PROVE  \E r \in Requests : LockAgent(r) /\ forUpdate'[a] = r /\ AgentOf(r) = a
<1> DEFINE Same == forUpdate'[a] = forUpdate[a] \/ forUpdate'[a] = None
<1>1. ASSUME NEW r \in Requests, ReleaseLocks(r) PROVE Same
  BY <1>1 DEF ReleaseLocks
<1>2. ASSUME NEW r \in Requests, NEW c \in Traffic, Arrive(r, c) PROVE Same
  BY <1>2 DEF Arrive, lockVars
<1>3. ASSUME NEW r \in Requests, ClaimKey(r) PROVE Same
  BY <1>1, <1>3 DEF ClaimKey, Claim, ClaimConflict, ClaimReplay, ClaimReused,
              ClaimInProgress, ClaimFailed, Reclaim, Complete, Finish, RollBack, lockVars
<1>4. ASSUME NEW r \in Requests, Book(r) PROVE Same
  BY <1>1, <1>4 DEF Book, Persist, PersistUnacknowledged, ProviderFails, FailSkipped,
              FailFound, MarkFailed, Finish, RollBackThenFail, InsertOrder, RollBack,
              Commit, lockVars
<1>5. ASSUME NEW r \in Requests, Issue(r) PROVE Same \/ LockAgent(r)
  BY <1>1, <1>5 DEF Issue, LockOrder, NoSuchOrder, Forbidden, AlreadyIssued, IssueCommit,
              InsufficientFunds, ConstraintFails, Kick, Finish, RollBackThenFail, RollBack,
              Commit, lockVars
<1>6. ASSUME NEW r \in Requests, DeadlockAbort(r) \/ Die(r) PROVE Same
  BY <1>1, <1>6 DEF DeadlockAbort, Die, Finish, RollBack
<1>7. CASE UNCHANGED vars
  BY <1>7 DEF vars, lockVars
<1>8. \E r \in Requests : LockAgent(r)
  BY <1>2, <1>3, <1>4, <1>5, <1>6, <1>7 DEF Next, Step, Rest
<1>9. PICK r \in Requests : LockAgent(r)
  BY <1>8
<1>10. forUpdate' = [forUpdate EXCEPT ![AgentOf(r)] = r]
  BY <1>9 DEF LockAgent
<1> QED
  BY <1>9, <1>10 DEF TypeOK

\* No step changes a balance under a lock that another request holds.
LEMMA NextFresh ==
  ASSUME TypeOK, AwaitsAreSound, LocksAreHeldToTheEnd, LockedCopyIsFresh, [Next]_vars
  PROVE  LockedCopyIsFresh'
<1> SUFFICES ASSUME NEW a \in Agents, forUpdate'[a] # None
             PROVE  acct'[forUpdate'[a]] = balance'[a]
  BY DEF LockedCopyIsFresh
<1>1. CASE forUpdate'[a] # forUpdate[a]
  <2>1. PICK r \in Requests : LockAgent(r) /\ forUpdate'[a] = r /\ AgentOf(r) = a
    BY <1>1, LockTaken
  <2> QED
    BY <2>1 DEF LockAgent, LockedRead, TypeOK, books
<1>2. CASE forUpdate'[a] = forUpdate[a]
  <2> DEFINE q == forUpdate[a]
  <2>1. /\ q \in Requests /\ q # None /\ pc[q] \in Locking /\ AgentOf(q) = a
        /\ acct[q] = balance[a]
    BY <1>2 DEF TypeOK, LocksAreHeldToTheEnd, LockedCopyIsFresh, Locking
  <2>2. acct'[q] = acct[q]
    <3>1. ASSUME NEW r \in Requests, NEW c \in Traffic, Arrive(r, c) PROVE acct'[q] = acct[q]
      BY <2>1, <3>1 DEF Arrive, Locking, TypeOK
    <3>2. ASSUME NEW r \in Requests, LockAgent(r) PROVE acct'[q] = acct[q]
      BY <2>1, <3>2 DEF LockAgent, LockedRead, Locking, TypeOK
    <3> QED
      BY <3>1, <3>2, AcctChange
  <2>3. balance'[a] = balance[a]
    <3>1. ASSUME NEW r \in Requests, IssueCommit(r) PROVE balance'[a] = balance[a]
      <4>1. AgentOf(r) \in Agents /\ forUpdate[AgentOf(r)] = r /\ ReleaseLocks(r)
        BY <3>1, LockingTyped
           DEF IssueCommit, Issuable, Commit, LocksAreHeldToTheEnd, Locking
      <4>2. AgentOf(r) # a
        BY <1>2, <2>1, <4>1, NoneAssumption DEF ReleaseLocks
      <4> QED
        BY <3>1, <4>1, <4>2 DEF IssueCommit, TypeOK
    <3>2. ASSUME NEW r \in Requests, InsertOrder(r) PROVE balance'[a] = balance[a]
      BY <3>2 DEF InsertOrder
    <3> QED
      BY <3>1, <3>2, BooksChange DEF books
  <2> QED
    BY <1>2, <2>1, <2>2, <2>3
<1> QED
  BY <1>1, <1>2

-----------------------------------------------------------------------------
(* The inductive invariant *)

\* The inductive invariant: types, awaits, lock discipline, fresh copies.
Inv == TypeOK /\ AwaitsAreSound /\ LocksAreHeldToTheEnd /\ LockedCopyIsFresh

\* The inductive invariant holds at the start...
LEMMA InitInv == Init => Inv
<1>1. Init => LocksAreHeldToTheEnd /\ LockedCopyIsFresh
  BY DEF Init, LocksAreHeldToTheEnd, LockedCopyIsFresh
<1> QED
  BY <1>1, InitTyped, InitAwaits DEF Inv

\* ... and every step keeps it...
LEMMA NextInv == Inv /\ [Next]_vars => Inv'
  BY NextTyped, NextAwaits, NextLocks, NextFresh DEF Inv

\* ... hence it holds for ever.
LEMMA Invariance == Spec => []Inv
  BY InitInv, NextInv, PTL DEF Spec

\* FOR UPDATE locks are exclusive and last until the transaction ends.
THEOREM LocksHeld == Spec => []LocksAreHeldToTheEnd
<1>1. Inv => LocksAreHeldToTheEnd
  BY DEF Inv
<1> QED
  BY <1>1, Invariance, PTL

\* Under its lock, a request reads the balance that is in the table.
THEOREM LockedCopyFresh == Spec => []LockedCopyIsFresh
<1>1. Inv => LockedCopyIsFresh
  BY DEF Inv
<1> QED
  BY <1>1, Invariance, PTL

-----------------------------------------------------------------------------
(* Refinement *)

\* The opening tables are the opening accounts.
LEMMA InitAccount == Init => Promise!AccountInit
  BY DEF Init, Promise!AccountInit, OpeningOrders, Promise!OpeningOrders, OrderIds,
         Promise!OrderIds

\* A booking's insert is a BookOrder of a new order.
LEMMA InsertIsBookOrder ==
  ASSUME Inv, NEW r \in Requests, InsertOrder(r)
  PROVE  Promise!BookOrder(r, AgentOf(r), call[r].arg)
         /\ AgentOf(r) \in Agents /\ call[r].arg \in Payloads
  BY CallTyped
     DEF Inv, InsertOrder, AwaitsAreSound, AwaitOK, Promise!BookOrder, NewOrder,
         Promise!NewOrder

\* The commit of an issue is an IssueOrder: what the request has read under
\* its locks is what the tables hold.
LEMMA CommitIsIssueOrder ==
  ASSUME Inv, NEW r \in Requests, IssueCommit(r)
  PROVE  call[r].arg \in OrderIds /\ Promise!IssueOrder(call[r].arg)
<1> DEFINE o == call[r].arg
           a == AgentOf(r)
<1>1. /\ o \in OrderIds /\ a \in Agents /\ orders[o] # None
      /\ orders[o].agent = a /\ orders[o].status = "BOOKED"
      /\ acct[r] >= Total(o)
  BY LockingTyped
     DEF Inv, IssueCommit, Issuable, Owns, Locking, AwaitsAreSound, AwaitOK, Affords
<1>2. acct[r] = balance[a]
  BY <1>1, NoneAssumption
     DEF Inv, IssueCommit, Issuable, LocksAreHeldToTheEnd, LockedCopyIsFresh
<1>3. \A p \in Promise!OrderIds : orders[p] # None => orders[p].ticket # TicketOf[o]
  BY DEF IssueCommit, TicketTaken, OrderIds, Promise!OrderIds
<1>4. /\ orders' = [orders EXCEPT ![o] = IssuedRow(o)]
      /\ balance' = [balance EXCEPT ![a] = acct[r] - Total(o)]
      /\ ledger' = [ledger EXCEPT ![a] = Append(@,
           [order |-> o, amount |-> Total(o), after |-> acct[r] - Total(o)])]
  BY DEF IssueCommit
<1>5. Total(o) = Price[orders[o].payload]
  BY DEF Total
<1>6. /\ balance' = [balance EXCEPT ![a] = @ - Total(o)]
      /\ ledger' = [ledger EXCEPT ![a] = Append(@,
           [order |-> o, amount |-> Total(o), after |-> balance[a] - Total(o)])]
      /\ balance[a] >= Total(o)
  BY <1>1, <1>2, <1>4 DEF Inv, TypeOK
<1> QED
  BY <1>1, <1>3, <1>4, <1>5, <1>6 DEF Promise!IssueOrder, IssuedRow

\* Every step is a step of the account, or leaves the books alone.
LEMMA StepAccount == Inv /\ [Next]_vars => [Promise!AccountNext]_(Promise!accountVars)
<1> SUFFICES ASSUME Inv, [Next]_vars
             PROVE  Promise!AccountNext \/ UNCHANGED Promise!accountVars
  OBVIOUS
<1>1. ASSUME NEW r \in Requests, InsertOrder(r) PROVE Promise!AccountNext
  BY <1>1, InsertIsBookOrder DEF Promise!AccountNext
<1>2. ASSUME NEW r \in Requests, IssueCommit(r) PROVE Promise!AccountNext
  BY <1>2, CommitIsIssueOrder DEF Promise!AccountNext, OrderIds, Promise!OrderIds
<1>3. CASE UNCHANGED books
  BY <1>3 DEF books, Promise!accountVars
<1> QED
  BY <1>1, <1>2, <1>3, BooksChange

\* Whatever requests, keys, crashes and lost answers do, the orders, the
\* balances and the ledger change as the abstract account allows.
THEOREM Refinement == Spec => ImplementsAccount
  BY InitAccount, StepAccount, Invariance, PTL DEF Spec, ImplementsAccount, Promise!AccountSpec

-----------------------------------------------------------------------------
(* The ledger *)

\* An abstract issue, in the terms of module Orders.
LEMMA IssueOrderEffect ==
  ASSUME TypeOK, NEW o \in OrderIds, Promise!IssueOrder(o)
  PROVE  LET a == orders[o].agent
             e == [order |-> o, amount |-> Total(o), after |-> balance[a] - Total(o)]
         IN  /\ a \in Agents /\ orders[o] # None /\ orders[o].status = "BOOKED"
             /\ ledger[a] \in Seq(Debits) /\ e \in Debits
             /\ e.order = o /\ e.amount = Total(o) /\ e.after = balance[a] - e.amount
             /\ ledger'[a] = Append(ledger[a], e)
             /\ balance'[a] = e.after
             /\ \A b \in Agents \ {a} : ledger'[b] = ledger[b] /\ balance'[b] = balance[b]
             /\ orders'[o] = [orders[o] EXCEPT !.status = "ISSUED", !.ticket = TicketOf[o]]
             /\ \A p \in OrderIds \ {o} : orders'[p] = orders[p]
<1> DEFINE a == orders[o].agent
           left == balance[a] - Total(o)
<1>1. orders[o] \in OrderRows /\ orders[o] # None /\ orders[o].status = "BOOKED"
  BY DEF Promise!IssueOrder, TypeOK
<1>2. a \in Agents /\ orders[o].payload \in Payloads
  BY <1>1 DEF OrderRows
<1>3. Total(o) \in Nat /\ balance[a] \in Nat /\ ledger[a] \in Seq(Debits)
  BY <1>2, MoneyAssumption DEF Total, TypeOK
<1>4. balance[a] >= Total(o)
  BY DEF Promise!IssueOrder, Total
<1>5. left \in Nat
  BY <1>3, <1>4
<1>6. [order |-> o, amount |-> Total(o), after |-> left] \in Debits
  BY <1>3, <1>5 DEF Debits
<1>7. /\ balance' = [balance EXCEPT ![a] = left]
      /\ ledger' = [ledger EXCEPT ![a] =
           Append(@, [order |-> o, amount |-> Total(o), after |-> left])]
      /\ orders' = [orders EXCEPT ![o] = [@ EXCEPT !.status = "ISSUED", !.ticket = TicketOf[o]]]
  BY <1>2 DEF Promise!IssueOrder, Total, TypeOK
<1>8. /\ balance'[a] = left
      /\ ledger'[a] = Append(ledger[a], [order |-> o, amount |-> Total(o), after |-> left])
      /\ \A b \in Agents \ {a} : ledger'[b] = ledger[b] /\ balance'[b] = balance[b]
      /\ orders'[o] = [orders[o] EXCEPT !.status = "ISSUED", !.ticket = TicketOf[o]]
      /\ \A p \in OrderIds \ {o} : orders'[p] = orders[p]
  BY <1>2, <1>7 DEF TypeOK
<1> HIDE DEF left
<1> QED
  BY <1>1, <1>2, <1>3, <1>6, <1>8 DEF left

\* A debit of what is there extends a log that explains the balance.
LEMMA ExplainsAppend ==
  ASSUME NEW log \in Seq(Debits), NEW opening \in Nat, NEW current \in Nat,
         NEW e \in Debits, Explains(log, opening, current), e.after = current - e.amount
  PROVE  Explains(Append(log, e), opening, e.after)
<1> DEFINE n == Len(log)
           more == Append(log, e)
           before(l, i) == IF i = 1 THEN opening ELSE l[i - 1].after
<1>1. /\ n \in Nat /\ Len(more) = n + 1 /\ DOMAIN more = 1 .. n + 1 /\ DOMAIN log = 1 .. n
      /\ more[n + 1] = e /\ \A i \in 1 .. n : more[i] = log[i]
  OBVIOUS
<1>2. \A i \in 1 .. n : log[i].after = before(log, i) - log[i].amount
  BY <1>1 DEF Explains
<1>3. current = before(log, n + 1)
  BY DEF Explains
<1> HIDE DEF more, n
<1>4. \A i \in 1 .. n + 1 : before(more, i) = before(log, i)
  BY <1>1
<1>5. \A i \in 1 .. n + 1 : more[i].after = before(more, i) - more[i].amount
  BY <1>1, <1>2, <1>3, <1>4
<1>6. e.after = before(more, n + 2)
  BY <1>1
<1> QED
  BY <1>1, <1>5, <1>6 DEF Explains, more

\* What Append leaves where it was, and what it adds.
LEMMA AppendShape ==
  ASSUME NEW log \in Seq(Debits), NEW e \in Debits
  PROVE  /\ DOMAIN log = 1 .. Len(log) /\ Len(log) \in Nat
         /\ DOMAIN Append(log, e) = 1 .. Len(log) + 1
         /\ \A i \in DOMAIN log : Append(log, e)[i] = log[i]
         /\ Append(log, e)[Len(log) + 1] = e
  OBVIOUS

\* An appended entry is an entry of its own order...
LEMMA OwnEntry ==
  ASSUME NEW log \in Seq(Debits), NEW e \in Debits
  PROVE  Entries(Append(log, e), e.order) = Entries(log, e.order) \cup {Len(log) + 1}
<1> DEFINE n == Len(log)
           more == Append(log, e)
<1>1. /\ n \in Nat /\ DOMAIN more = 1 .. n + 1 /\ DOMAIN log = 1 .. n
      /\ more[n + 1] = e /\ \A i \in 1 .. n : more[i] = log[i]
  OBVIOUS
<1> HIDE DEF more, n
<1>2. Entries(more, e.order) = Entries(log, e.order) \cup {n + 1}
  BY <1>1 DEF Entries
<1> QED
  BY <1>2 DEF more, n

\* ... and of no other.
LEMMA OtherEntries ==
  ASSUME NEW log \in Seq(Debits), NEW e \in Debits, NEW o, e.order # o
  PROVE  Entries(Append(log, e), o) = Entries(log, o)
<1> DEFINE n == Len(log)
           more == Append(log, e)
<1>1. /\ n \in Nat /\ DOMAIN more = 1 .. n + 1 /\ DOMAIN log = 1 .. n
      /\ more[n + 1] = e /\ \A i \in 1 .. n : more[i] = log[i]
  OBVIOUS
<1> HIDE DEF more, n
<1>2. Entries(more, o) = Entries(log, o)
  BY <1>1 DEF Entries
<1> QED
  BY <1>2 DEF more, n

\* A step of the account keeps the ledger explaining the balances.
LEMMA LedgerStep ==
  ASSUME TypeOK, LedgerExplainsBalance, Promise!AccountNext
  PROVE  LedgerExplainsBalance'
<1>1. ASSUME NEW o \in Requests, NEW a \in Agents, NEW p \in Payloads,
             Promise!BookOrder(o, a, p)
      PROVE  LedgerExplainsBalance'
  BY <1>1 DEF Promise!BookOrder, LedgerExplainsBalance
<1>2. ASSUME NEW o \in OrderIds, Promise!IssueOrder(o)
      PROVE  LedgerExplainsBalance'
  <2> DEFINE a == orders[o].agent
             e == [order |-> o, amount |-> Total(o), after |-> balance[a] - Total(o)]
  <2>1. /\ a \in Agents /\ ledger[a] \in Seq(Debits) /\ e \in Debits
        /\ ledger'[a] = Append(ledger[a], e) /\ balance'[a] = e.after
        /\ e.after = balance[a] - e.amount
        /\ \A b \in Agents \ {a} : ledger'[b] = ledger[b] /\ balance'[b] = balance[b]
    BY <1>2, IssueOrderEffect
  <2> HIDE DEF e, a
  <2>2. Explains(ledger[a], Opening[a], balance[a])
    BY <2>1 DEF LedgerExplainsBalance
  <2>3. Explains(ledger'[a], Opening[a], balance'[a])
    BY <2>1, <2>2, ExplainsAppend, MoneyAssumption DEF TypeOK
  <2> QED
    BY <2>1, <2>3 DEF LedgerExplainsBalance
<1> QED
  BY <1>1, <1>2 DEF Promise!AccountNext, OrderIds, Promise!OrderIds

\* A step of the account keeps orders and debits one to one.
LEMMA DebitStep ==
  ASSUME TypeOK, DebitedOnceWhenIssued, Promise!AccountNext
  PROVE  DebitedOnceWhenIssued'
<1>1. ASSUME NEW o \in Requests, NEW a \in Agents, NEW p \in Payloads,
             Promise!BookOrder(o, a, p)
      PROVE  DebitedOnceWhenIssued'
  <2>1. /\ orders[o] = None /\ ledger' = ledger /\ orders'[o].status = "BOOKED"
        /\ \A q \in OrderIds \ {o} : orders'[q] = orders[q]
    BY <1>1 DEF Promise!BookOrder, Promise!NewOrder, TypeOK, OrderIds
  <2> QED
    BY <2>1 DEF DebitedOnceWhenIssued, Total
<1>2. ASSUME NEW o \in OrderIds, Promise!IssueOrder(o)
      PROVE  DebitedOnceWhenIssued'
  <2> DEFINE a == orders[o].agent
             n == Len(ledger[a])
             e == [order |-> o, amount |-> Total(o), after |-> balance[a] - Total(o)]
  <2>1. /\ a \in Agents /\ orders[o] # None /\ orders[o].status = "BOOKED"
        /\ ledger[a] \in Seq(Debits) /\ e \in Debits
        /\ ledger'[a] = Append(ledger[a], e) /\ e.order = o /\ e.amount = Total(o)
        /\ \A b \in Agents \ {a} : ledger'[b] = ledger[b]
        /\ orders'[o] = [orders[o] EXCEPT !.status = "ISSUED", !.ticket = TicketOf[o]]
        /\ \A p \in OrderIds \ {o} : orders'[p] = orders[p]
    BY <1>2, IssueOrderEffect
  <2>2. /\ orders'[o].agent = a /\ orders'[o].status = "ISSUED"
        /\ orders'[o] # None /\ Total(o)' = Total(o)
    <3>1. orders[o] \in OrderRows /\ TicketOf[o] \in Tickets
      BY <2>1, OrderIdAssumption DEF TypeOK
    <3>2. orders'[o] \in OrderRows
      BY <2>1, <3>1 DEF OrderRows
    <3> QED
      BY <2>1, <3>1, <3>2, NoneAssumption DEF OrderRows, Total
  <2> HIDE DEF e
  <2>3. /\ DOMAIN ledger'[a] = 1 .. n + 1 /\ n \in Nat /\ ledger'[a][n + 1] = e
        /\ \A i \in DOMAIN ledger[a] : ledger'[a][i] = ledger[a][i] /\ i \in DOMAIN ledger'[a]
    BY <2>1, AppendShape
  <2>4. /\ Entries(ledger'[a], o) = {n + 1}
        /\ \A b \in Agents \ {a} : Entries(ledger'[b], o) = {}
    <3>1. \A b \in Agents : Entries(ledger[b], o) = {}
      BY <2>1 DEF DebitedOnceWhenIssued
    <3>2. Entries(Append(ledger[a], e), o) = Entries(ledger[a], o) \cup {n + 1}
      <4>1. ledger[a] \in Seq(Debits) /\ e \in Debits /\ e.order = o
        BY <2>1
      <4>2. Entries(Append(ledger[a], e), e.order)
              = Entries(ledger[a], e.order) \cup {Len(ledger[a]) + 1}
        BY <4>1, OwnEntry
      <4> QED
        BY <4>1, <4>2
    <3> QED
      BY <2>1, <3>1, <3>2
  <2>5. \A b \in Agents, p \in OrderIds \ {o} : Entries(ledger'[b], p) = Entries(ledger[b], p)
    <3>1. ASSUME NEW p \in OrderIds \ {o}
          PROVE  Entries(Append(ledger[a], e), p) = Entries(ledger[a], p)
      <4>1. e.order # p
        BY <2>1, <3>1
      <4> QED
        BY <2>1, <4>1, OtherEntries
    <3> QED
      BY <2>1, <3>1
  <2> HIDE DEF a, n
  <2>6. ASSUME NEW p \in OrderIds, p # o, orders'[p] # None, orders'[p].status = "ISSUED"
        PROVE  LET b == orders'[p].agent IN
               /\ \E i \in DOMAIN ledger'[b] :
                    Entries(ledger'[b], p) = {i} /\ ledger'[b][i].amount = Total(p)'
               /\ \A c \in Agents \ {b} : Entries(ledger'[c], p) = {}
    <3> DEFINE b == orders[p].agent
    <3>1. orders'[p] = orders[p] /\ Total(p)' = Total(p)
      BY <2>1, <2>6 DEF Total
    <3>2. b \in Agents
      BY <2>6, <3>1 DEF TypeOK, OrderRows
    <3>3. PICK i \in DOMAIN ledger[b] :
                 Entries(ledger[b], p) = {i} /\ ledger[b][i].amount = Total(p)
      BY <2>6, <3>1 DEF DebitedOnceWhenIssued
    <3>4. i \in DOMAIN ledger'[b] /\ ledger'[b][i] = ledger[b][i]
      BY <2>1, <2>3, <3>2, <3>3
    <3>5. \A c \in Agents \ {b} : Entries(ledger[c], p) = {}
      BY <2>6, <3>1 DEF DebitedOnceWhenIssued
    <3> QED
      BY <2>5, <2>6, <3>1, <3>2, <3>3, <3>4, <3>5
  <2>7. ASSUME NEW p \in OrderIds, p # o, ~(orders'[p] # None /\ orders'[p].status = "ISSUED")
        PROVE  \A b \in Agents : Entries(ledger'[b], p) = {}
    <3>1. ~(orders[p] # None /\ orders[p].status = "ISSUED")
      BY <2>1, <2>7
    <3>2. \A b \in Agents : Entries(ledger[b], p) = {}
      BY <2>7, <3>1 DEF DebitedOnceWhenIssued
    <3> QED
      BY <2>5, <2>7, <3>2
  <2>8. n + 1 \in DOMAIN ledger'[a] /\ ledger'[a][n + 1].amount = Total(o)'
    BY <2>1, <2>2, <2>3
  <2> QED
    BY <2>2, <2>4, <2>6, <2>7, <2>8 DEF DebitedOnceWhenIssued
<1> QED
  BY <1>1, <1>2 DEF Promise!AccountNext, OrderIds, Promise!OrderIds

\* In every reachable state the ledger explains every balance.
THEOREM LedgerExplains == Spec => []LedgerExplainsBalance
<1>1. Init => LedgerExplainsBalance
  BY MoneyAssumption DEF Init, LedgerExplainsBalance, Explains
<1>2. Inv /\ LedgerExplainsBalance /\ [Promise!AccountNext]_(Promise!accountVars)
        => LedgerExplainsBalance'
  BY LedgerStep DEF Inv, Promise!accountVars, LedgerExplainsBalance
<1> QED
  BY <1>1, <1>2, StepAccount, Invariance, PTL DEF Spec

\* In every reachable state an order is issued exactly when it was paid, once.
THEOREM DebitedOnce == Spec => []DebitedOnceWhenIssued
<1>1. Init => DebitedOnceWhenIssued
  BY OrderIdAssumption
     DEF Init, DebitedOnceWhenIssued, Entries, OpeningOrders, OrderIds
<1>2. Inv /\ DebitedOnceWhenIssued /\ [Promise!AccountNext]_(Promise!accountVars)
        => DebitedOnceWhenIssued'
  BY DebitStep DEF Inv, Promise!accountVars, DebitedOnceWhenIssued, Total
<1> QED
  BY <1>1, <1>2, StepAccount, Invariance, PTL DEF Spec

\* The unique constraint on debits never has to stop an issue.
THEOREM ConstraintUnused == Spec => []DebitConstraintUnused
<1>1. Inv /\ DebitedOnceWhenIssued => DebitConstraintUnused
  BY LockingTyped
     DEF Inv, DebitedOnceWhenIssued, DebitConstraintUnused, Issuable, Debited, Entries,
         Locking
<1> QED
  BY <1>1, Invariance, DebitedOnce, PTL
=============================================================================
