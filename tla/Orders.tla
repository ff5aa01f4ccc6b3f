------------------------------- MODULE Orders -------------------------------
(***************************************************************************)
(* Booking and issuing, with their idempotency keys, as the requests of    *)
(* one or more API processes run them against PostgreSQL.  Every request   *)
(* has one session, hence one transaction at a time; it advances from one  *)
(* await to the next, and the requests interleave there.                   *)
(*                                                                         *)
(*   book  : idle -> claim -> (conflict -> reclaim ->) provider            *)
(*                -> complete -> done,    failing: -> fail -> mark -> done *)
(*   issue : idle -> claim -> (conflict ->) lockAgent -> lockOrder         *)
(*                -> decide -> complete -> kick -> done                    *)
(*                                                                         *)
(* Without a key the steps claim and complete are skipped.                 *)
(***************************************************************************)
EXTENDS IdempotencyKeys

CONSTANT Faults  \* which of "die" and "ackloss" may happen

ASSUME FaultsAssumption == Faults \subseteq {"die", "ackloss"}

VARIABLES
  call,       \* call[r]: what request r asks for
  pc,         \* pc[r]: the await at which r stands
  reply,      \* reply[r]: the answer r computed, sent to the client at "done"
  acct,       \* acct[r]: the balance in the session's copy of the agent row
  keyShare,   \* keyShare[a]: transactions with FOR KEY SHARE on agent row a
  forUpdate,  \* forUpdate[a]: the transaction with FOR UPDATE on agent row a
  orderLock,  \* orderLock[o]: the transaction with FOR UPDATE on order row o
  orders,     \* table orders
  balance,    \* agents.balance
  ledger,     \* table balance_transactions, by agent, in commit order
  kicked      \* orders handed to the ticket pipeline by a finished issue

lockVars == <<keyShare, forUpdate, orderLock>>
books    == <<orders, balance, ledger>>
vars     == <<keyVars, call, pc, reply, acct, lockVars, books, kicked>>

Labels == {"idle", "claim", "conflict", "reclaim", "provider", "fail", "mark",
           "lockAgent", "lockOrder", "decide", "complete", "kick", "done", "dead"}

Codes == {"ok", "replayed", "in_progress", "key_reused", "no_offer", "no_order",
          "forbidden", "no_funds", "error"}

ASSUME ReplyAssumption == None \notin [code : Codes, body : Bodies \cup {None}]

TypeOK ==
  /\ KeysTypeOK
  /\ call \in [Requests -> Calls \cup {None}]
  /\ pc \in [Requests -> Labels]
  /\ reply \in [Requests -> [code : Codes, body : Bodies \cup {None}] \cup {None}]
  /\ acct \in [Requests -> Nat]
  /\ keyShare \in [Agents -> SUBSET Requests]
  /\ forUpdate \in [Agents -> Requests \cup {None}]
  /\ orderLock \in [OrderIds -> Requests \cup {None}]
  /\ orders \in [OrderIds -> OrderRows \cup {None}]
  /\ balance \in [Agents -> Nat]
  /\ ledger \in [Agents -> Seq(Debits)]
  /\ kicked \in SUBSET OrderIds

Init ==
  /\ KeysInit
  /\ call = [r \in Requests |-> None]
  /\ pc = [r \in Requests |-> "idle"]
  /\ reply = [r \in Requests |-> None]
  /\ acct = [r \in Requests |-> 0]
  /\ keyShare = [a \in Agents |-> {}]
  /\ forUpdate = [a \in Agents |-> None]
  /\ orderLock = [o \in OrderIds |-> None]
  /\ orders = OpeningOrders
  /\ balance = Opening
  /\ ledger = [a \in Agents |-> <<>>]
  /\ kicked = {}

-----------------------------------------------------------------------------
(* What a request stands for *)

AgentOf(r) == call[r].agent
Keyed(r)   == call[r].key # NoKey
SlotOf(r)  == <<call[r].agent, call[r].op, call[r].key>>
Total(o)   == Price[orders[o].payload]

\* Faulty variant: the order row first, then the agent row.
OrderThenAgent == [begin |-> "lockOrder", order |-> "lockAgent", agent |-> "decide"]

\* The fixed global lock order of an issue: the agent row, then the order row.
LockSequence == [begin |-> "lockAgent", agent |-> "lockOrder", order |-> "decide"]

\* The first await of a handler after its key is claimed.
WorkOf(op) == IF op = "book" THEN "provider" ELSE LockSequence.begin

Goto(r, label) == pc' = [pc EXCEPT ![r] = label]

Answer(r, code, body) ==
  reply' = [reply EXCEPT ![r] = [code |-> code, body |-> body]]

(* Row locks of PostgreSQL *)

\* FOR KEY SHARE conflicts with FOR UPDATE only.
KeyShareGranted(r, a) == forUpdate[a] \in {r, None}

\* Faulty variant: the agent row is read without FOR UPDATE.
NoRowLock(r, a) == TRUE

\* FOR UPDATE conflicts with both; a transaction never waits for itself.
ForUpdateGranted(r, a) == KeyShareGranted(r, a) /\ keyShare[a] \subseteq {r}

\* The end of a transaction releases all its locks.
ReleaseLocks(r) ==
  /\ keyShare' = [a \in Agents |-> keyShare[a] \ {r}]
  /\ forUpdate' = [a \in Agents |-> IF forUpdate[a] = r THEN None ELSE forUpdate[a]]
  /\ orderLock' = [o \in OrderIds |-> IF orderLock[o] = r THEN None ELSE orderLock[o]]

\* Faulty variant: the session is not rolled back, its locks stay.
KeepLocks(r) == RollBackKeys(r) /\ UNCHANGED lockVars

Commit(r)   == CommitKeys(r) /\ ReleaseLocks(r)
RollBack(r) == RollBackKeys(r) /\ ReleaseLocks(r)

\* Request r raises or returns: its session closes, what is open rolls back.
Finish(r, code, body) ==
  /\ RollBack(r)
  /\ idem' = [idem EXCEPT ![r] = None]
  /\ Answer(r, code, body)
  /\ Goto(r, "done")
  /\ UNCHANGED <<call, acct, books, kicked>>

-----------------------------------------------------------------------------
(* Both endpoints: authentication, then the claim of the key *)

\* get_current_agent loads the agent row in the request's own transaction.
Arrive(r, c) ==
  /\ pc[r] = "idle"
  /\ call' = [call EXCEPT ![r] = c]
  /\ acct' = [acct EXCEPT ![r] = balance[c.agent]]
  /\ Goto(r, IF c.key = NoKey THEN WorkOf(c.op) ELSE "claim")
  /\ UNCHANGED <<keyVars, reply, lockVars, books, kicked>>

\* The INSERT takes FOR KEY SHARE on the agent row: idempotency_keys.agent_id
\* references agents.id.
Claim(r) ==
  /\ pc[r] = "claim"
  /\ KeyShareGranted(r, AgentOf(r))
  /\ InsertKey(r, SlotOf(r), call[r].arg)
  /\ keyShare' = [keyShare EXCEPT ![AgentOf(r)] = @ \cup {r}]
  /\ Goto(r, WorkOf(call[r].op))
  /\ UNCHANGED <<call, reply, acct, forUpdate, orderLock, books, kicked>>

ClaimConflict(r) ==
  /\ pc[r] = "claim"
  /\ ConflictKey(SlotOf(r))
  /\ Goto(r, "conflict")
  /\ UNCHANGED <<keyVars, call, reply, acct, lockVars, books, kicked>>

\* The SELECT after the conflict sees the row as last committed.
ClaimReplay(r) ==
  LET row == keys[SlotOf(r)] IN
  /\ pc[r] = "conflict"
  /\ row.status = "COMPLETED"
  /\ SamePayload(SlotOf(r), call[r].arg)
  /\ Finish(r, "replayed", row.body)

ClaimReused(r) ==
  LET row == keys[SlotOf(r)] IN
  /\ pc[r] = "conflict"
  /\ row.status = "COMPLETED"
  /\ ~SamePayload(SlotOf(r), call[r].arg)
  /\ Finish(r, "key_reused", None)

ClaimInProgress(r) ==
  /\ pc[r] = "conflict"
  /\ keys[SlotOf(r)].status = "LOCKED"
  /\ Finish(r, "in_progress", None)

ClaimFailed(r) ==
  /\ pc[r] = "conflict"
  /\ Retryable(SlotOf(r))
  /\ idem' = [idem EXCEPT ![r] = keys[SlotOf(r)]]
  /\ Goto(r, "reclaim")
  /\ UNCHANGED <<keys, pending, call, reply, acct, lockVars, books, kicked>>

Reclaim(r) ==
  /\ pc[r] = "reclaim"
  /\ ReclaimKey(r, SlotOf(r), call[r].arg)
  /\ Goto(r, WorkOf(call[r].op))
  /\ UNCHANGED <<call, reply, acct, lockVars, books, kicked>>

\* Faulty variant: issue() returns before it hands the ticket over.
NoKick(op) == "done"

\* What follows complete(): an issue still asks for the ticket.
AfterComplete(op) == IF op = "issue" THEN "kick" ELSE "done"

\* complete(): an UPDATE by id in a transaction of its own.
Complete(r) ==
  /\ pc[r] = "complete"
  /\ CompleteKey(r, SlotOf(r), reply[r].body)
  /\ idem' = [idem EXCEPT ![r] = None]
  /\ Goto(r, AfterComplete(call[r].op))
  /\ UNCHANGED <<call, reply, acct, lockVars, books, kicked>>

-----------------------------------------------------------------------------
(* BookingService.create_order *)

BookingBody(r) == [order |-> r, ticket |-> None, left |-> None]

\* The INSERT of the order takes FOR KEY SHARE on the agent row as well; the
\* commit applies the order and the key together.
InsertOrder(r) ==
  /\ pc[r] = "provider"
  /\ KeyShareGranted(r, AgentOf(r))
  /\ orders' = [orders EXCEPT ![r] = NewOrder(AgentOf(r), call[r].arg)]
  /\ Commit(r)
  /\ UNCHANGED <<call, acct, balance, ledger, kicked>>

Persist(r) ==
  /\ InsertOrder(r)
  /\ Answer(r, "ok", BookingBody(r))
  /\ Goto(r, IF Keyed(r) THEN "complete" ELSE "done")
  /\ UNCHANGED idem

\* The commit is applied but its acknowledgement is lost: _persist raises.
PersistUnacknowledged(r) ==
  /\ "ackloss" \in Faults
  /\ InsertOrder(r)
  /\ Answer(r, "error", None)
  /\ Goto(r, IF Keyed(r) THEN "fail" ELSE "done")
  /\ UNCHANGED idem

\* The exception handlers of both services: roll back, then look the key up.
RollBackThenFail(r, code) ==
  /\ RollBack(r)
  /\ Answer(r, code, None)
  /\ Goto(r, "fail")
  /\ UNCHANGED <<idem, call, acct, books, kicked>>

\* The provider does not answer in time, or does not know the offer.
ProviderFails(r) ==
  /\ pc[r] = "provider"
  /\ IF Keyed(r) THEN RollBackThenFail(r, "no_offer") ELSE Finish(r, "no_offer", None)

\* fail(): nothing to do when the rollback removed the row.
FailSkipped(r) ==
  /\ pc[r] = "fail"
  /\ KeyRemains(r, SlotOf(r)) => keys[SlotOf(r)].status = "FAILED"
  /\ idem' = [idem EXCEPT ![r] = None]
  /\ Goto(r, "done")
  /\ UNCHANGED <<keys, pending, call, reply, acct, lockVars, books, kicked>>

FailFound(r) ==
  /\ pc[r] = "fail"
  /\ KeyRemains(r, SlotOf(r))
  /\ keys[SlotOf(r)].status # "FAILED"
  /\ idem' = [idem EXCEPT ![r] = keys[SlotOf(r)]]
  /\ Goto(r, "mark")
  /\ UNCHANGED <<keys, pending, call, reply, acct, lockVars, books, kicked>>

MarkFailed(r) ==
  /\ pc[r] = "mark"
  /\ FailKey(r, SlotOf(r))
  /\ idem' = [idem EXCEPT ![r] = None]
  /\ Goto(r, "done")
  /\ UNCHANGED <<call, reply, acct, lockVars, books, kicked>>

-----------------------------------------------------------------------------
(* IssuingService.issue *)

\* Faulty variant: the locked row does not replace the copy loaded before.
StaleRead(r) == UNCHANGED acct

\* populate_existing refreshes the session's copy with the locked row.
LockedRead(r) == acct' = [acct EXCEPT ![r] = balance[AgentOf(r)]]

LockAgent(r) ==
  /\ pc[r] = "lockAgent"
  /\ ForUpdateGranted(r, AgentOf(r))
  /\ forUpdate' = [forUpdate EXCEPT ![AgentOf(r)] = r]
  /\ LockedRead(r)
  /\ Goto(r, LockSequence.agent)
  /\ UNCHANGED <<keyVars, call, reply, keyShare, orderLock, books, kicked>>

LockOrder(r) ==
  /\ pc[r] = "lockOrder"
  /\ orders[call[r].arg] # None
  /\ orderLock[call[r].arg] = None
  /\ orderLock' = [orderLock EXCEPT ![call[r].arg] = r]
  /\ Goto(r, LockSequence.order)
  /\ UNCHANGED <<keyVars, call, reply, acct, keyShare, forUpdate, books, kicked>>

NoSuchOrder(r) ==
  /\ pc[r] = "lockOrder"
  /\ orders[call[r].arg] = None
  /\ Finish(r, "no_order", None)

\* Faulty variant: no ownership check.
OwnsAny(r) == TRUE

Owns(r) == orders[call[r].arg].agent = AgentOf(r)

Forbidden(r) ==
  /\ pc[r] = "decide"
  /\ ~Owns(r)
  /\ Finish(r, "forbidden", None)

IssueBody(o, ticket, left) == [order |-> o, ticket |-> ticket, left |-> left]

\* Already ISSUED: the body is rebuilt, nothing is debited, and the key (if
\* any) is completed by the same transaction that inserted it.
AlreadyIssued(r) ==
  LET order == orders[call[r].arg]
      body  == IssueBody(call[r].arg, order.ticket, acct[r])
  IN
  /\ pc[r] = "decide"
  /\ Owns(r)
  /\ order.status = "ISSUED"
  /\ IF Keyed(r) THEN CompleteKey(r, SlotOf(r), body) ELSE RollBackKeys(r)
  /\ ReleaseLocks(r)
  /\ idem' = [idem EXCEPT ![r] = None]
  /\ Answer(r, "ok", body)
  /\ Goto(r, "done")
  /\ UNCHANGED <<call, acct, books, kicked>>

\* Faulty variants: no status check; a balance one short is enough; a second
\* ticket with the same number; a debit without the change of status.
IssuableTwice(r)   == pc[r] = "decide" /\ Owns(r)
AlmostAfford(r)    == acct[r] + 1 >= Total(call[r].arg)
NoTicketIndex(o)   == FALSE
IssuedRowBooked(o) == [orders[o] EXCEPT !.ticket = TicketOf[o]]

Issuable(r) == pc[r] = "decide" /\ Owns(r) /\ orders[call[r].arg].status = "BOOKED"

Affords(r) == acct[r] >= Total(call[r].arg)

IssuedRow(o) == [orders[o] EXCEPT !.status = "ISSUED", !.ticket = TicketOf[o]]

InsufficientFunds(r) ==
  /\ Issuable(r)
  /\ ~Affords(r)
  /\ IF Keyed(r) THEN RollBackThenFail(r, "no_funds") ELSE Finish(r, "no_funds", None)

\* The unique constraints the commit runs into: one DEBIT per order, and one
\* order per ticket number.
Debited(o)     == \E a \in Agents : \E i \in DOMAIN ledger[a] : ledger[a][i].order = o
TicketTaken(o) == \E p \in OrderIds : orders[p] # None /\ orders[p].ticket = TicketOf[o]

ConstraintFails(r) ==
  /\ Issuable(r)
  /\ Affords(r)
  /\ Debited(call[r].arg) \/ TicketTaken(call[r].arg)
  /\ Finish(r, "error", None)

IssueCommit(r) ==
  LET o    == call[r].arg
      a    == AgentOf(r)
      left == acct[r] - Total(o)
  IN
  /\ Issuable(r)
  /\ Affords(r)
  /\ ~Debited(o)
  /\ ~TicketTaken(o)
  /\ balance' = [balance EXCEPT ![a] = left]
  /\ ledger' = [ledger EXCEPT
       ![a] = Append(@, [order |-> o, amount |-> Total(o), after |-> left])]
  /\ orders' = [orders EXCEPT ![o] = IssuedRow(o)]
  /\ Commit(r)
  /\ Answer(r, "ok", IssueBody(o, TicketOf[o], left))
  /\ Goto(r, IF Keyed(r) THEN "complete" ELSE "kick")
  /\ UNCHANGED <<idem, call, acct, kicked>>

\* The ticket pipeline is asked after the commit; it can never fail the issue.
Kick(r) ==
  /\ pc[r] = "kick"
  /\ kicked' = kicked \cup {call[r].arg}
  /\ Goto(r, "done")
  /\ UNCHANGED <<keyVars, call, reply, acct, lockVars, books>>

-----------------------------------------------------------------------------
(* What PostgreSQL and the machine do to a request *)

\* The transactions that request r waits for.
SlotWaits(r)  == IF Writable(r, SlotOf(r)) THEN {} ELSE {pending[SlotOf(r)].by}
ShareWaits(r) == {forUpdate[AgentOf(r)]} \ {r, None}

WaitsFor(r) ==
  CASE pc[r] = "claim"     -> SlotWaits(r) \cup ShareWaits(r)
    [] pc[r] \in {"reclaim", "complete", "mark"} -> SlotWaits(r)
    [] pc[r] = "provider"  -> ShareWaits(r)
    [] pc[r] = "lockAgent" -> ShareWaits(r) \cup (keyShare[AgentOf(r)] \ {r})
    [] pc[r] = "lockOrder" -> {orderLock[call[r].arg]} \ {None}
    [] OTHER               -> {}

\* r waits for itself through others: it is in every set that holds what r
\* waits for and is closed under waiting.
InCycle(r) ==
  \A S \in SUBSET Requests :
    (WaitsFor(r) \subseteq S /\ \A q \in S : WaitsFor(q) \subseteq S) => r \in S

\* The deadlock detector aborts a member of a cycle: an error from its statement.
DeadlockAbort(r) ==
  /\ pc[r] = "lockAgent"
  /\ InCycle(r)
  /\ Finish(r, "error", None)

\* The process is killed, the client's connection ends the task, or a statement
\* fails where no handler catches it: no further line of the request runs.
Die(r) ==
  /\ "die" \in Faults
  /\ pc[r] \notin {"idle", "done", "dead"}
  /\ RollBack(r)
  /\ idem' = [idem EXCEPT ![r] = None]
  /\ reply' = [reply EXCEPT ![r] = None]
  /\ Goto(r, "dead")
  /\ UNCHANGED <<call, acct, books, kicked>>

-----------------------------------------------------------------------------
Book(r) ==
  \/ Persist(r) \/ PersistUnacknowledged(r) \/ ProviderFails(r)
  \/ FailSkipped(r) \/ FailFound(r) \/ MarkFailed(r)

ClaimKey(r) ==
  \/ Claim(r) \/ ClaimConflict(r) \/ ClaimReplay(r) \/ ClaimReused(r)
  \/ ClaimInProgress(r) \/ ClaimFailed(r) \/ Reclaim(r) \/ Complete(r)

Issue(r) ==
  \/ LockAgent(r) \/ LockOrder(r) \/ NoSuchOrder(r) \/ Forbidden(r)
  \/ AlreadyIssued(r) \/ InsufficientFunds(r) \/ ConstraintFails(r)
  \/ IssueCommit(r) \/ Kick(r)

Step(r) == ClaimKey(r) \/ Book(r) \/ Issue(r) \/ DeadlockAbort(r)

\* Nothing is left to do once every request is over.
Rest == (\A r \in Requests : pc[r] \in {"done", "dead"}) /\ UNCHANGED vars

Next ==
  \/ \E r \in Requests : \/ \E c \in Traffic : Arrive(r, c)
                         \/ Step(r)
                         \/ Die(r)
  \/ Rest

Spec == Init /\ [][Next]_vars

\* An admitted request keeps running: its coroutine is resumed when its await
\* is answered, a lock is granted when its holders end, a deadlock is detected.
FairSpec == Spec /\ \A r \in Requests : WF_vars(Step(r))
=============================================================================
