-------------------------- MODULE OrderProperties --------------------------
(***************************************************************************)
(* What must be true of booking and issuing (module Orders).               *)
(***************************************************************************)
EXTENDS Orders

-----------------------------------------------------------------------------
(* Money *)

\* The balance a request decides on is the balance of the row it has locked,
\* although its session loaded the row earlier, in the auth dependency
\* (issuing.py:58-63: "no stale-balance race").
LockedCopyIsFresh ==
  \A a \in Agents : forUpdate[a] # None => acct[forUpdate[a]] = balance[a]

\* A log of debits leads from one balance to another, entry by entry.
Explains(log, opening, current) ==
  LET before(i) == IF i = 1 THEN opening ELSE log[i - 1].after
  IN  /\ \A i \in DOMAIN log : log[i].after = before(i) - log[i].amount
      /\ current = before(Len(log) + 1)

\* The ledger explains the balance: each entry continues from the one before,
\* and the last one is the balance of the account (issuing.py:115-127,
\* models/agent.py:43).
LedgerExplainsBalance ==
  \A a \in Agents : Explains(ledger[a], Opening[a], balance[a])

Entries(log, o) == {i \in DOMAIN log : log[i].order = o}

\* An order is ISSUED exactly when its own agent was debited its own total,
\* once, whoever asked for it and however often (issuing.py:72-140).
DebitedOnceWhenIssued ==
  \A o \in OrderIds :
    IF orders[o] # None /\ orders[o].status = "ISSUED"
      THEN LET a == orders[o].agent IN
           /\ \E i \in DOMAIN ledger[a] :
                Entries(ledger[a], o) = {i} /\ ledger[a][i].amount = Total(o)
           /\ \A b \in Agents \ {a} : Entries(ledger[b], o) = {}
      ELSE \A a \in Agents : Entries(ledger[a], o) = {}

\* The unique constraint on (order_id, txn_type) is the last resort only: no
\* request that finds its order BOOKED under the lock is about to insert a
\* second DEBIT (models/agent.py:48-49).
DebitConstraintUnused ==
  \A r \in Requests : Issuable(r) => ~Debited(call[r].arg)

-----------------------------------------------------------------------------
(* Idempotency keys *)

\* The order whose existence, or whose issue, is the effect of a committed
\* row: the row is inserted in the transaction of its effect.
EffectOf(s) == IF s[2] = "book" THEN keys[s].id ELSE keys[s].hash

\* What a committed row stands for: the order it booked exists, with the payload
\* of the key; the order it issued is ISSUED; a stored body is about that order.
HasItsEffect(s) ==
  LET order == orders[EffectOf(s)] IN
  /\ order # None
  /\ order.agent = s[1]
  /\ s[2] = "book"  => order.payload = keys[s].hash
  /\ s[2] = "issue" => order.status = "ISSUED"
  /\ keys[s].status = "COMPLETED" =>
       /\ keys[s].body.order = EffectOf(s)
       /\ s[2] = "issue" => keys[s].body.ticket = order.ticket

\* A key that answers IDEMPOTENCY_IN_PROGRESS or replays a body has done its
\* work, whatever happened to the requests that carried it (idempotency.py:84-103).
KeyHasItsEffect == \A s \in Slots : keys[s] # None => HasItsEffect(s)

\* Requests that share a key and were answered with success were answered
\* with the same body for the same arguments (idempotency.py:84-90).
SameKeySameAnswer ==
  \A q, r \in Requests :
    /\ pc[q] = "done" /\ pc[r] = "done"
    /\ reply[q].code \in {"ok", "replayed"} /\ reply[r].code \in {"ok", "replayed"}
    /\ Keyed(q) /\ Keyed(r) /\ SlotOf(q) = SlotOf(r)
    => call[q].arg = call[r].arg /\ reply[q].body = reply[r].body

\* One Idempotency-Key books at most one order, also when the first request
\* died without an answer (README.md:44, api/v1/orders.py:50-51).
OneOrderPerKey ==
  \A q, r \in Requests :
    /\ orders[q] # None /\ orders[r] # None
    /\ Keyed(q) /\ SlotOf(q) = SlotOf(r)
    => q = r

\* A stored answer is never withdrawn or rewritten.
CompletedIsFinal ==
  [][\A s \in Slots : keys[s] # None /\ keys[s].status = "COMPLETED"
       => keys'[s] = keys[s]]_vars

-----------------------------------------------------------------------------
(* Locks *)

\* Concurrent issues never deadlock (issuing.py:58-60).
NoDeadlock == \A r \in Requests : ~InCycle(r)

\* The only deadlocks are those of issues that carry a key: their INSERT of
\* the key has locked the agent row FOR KEY SHARE before they ask FOR UPDATE.
DeadlocksAreKeyUpgrades ==
  \A r \in Requests : InCycle(r) =>
    /\ pc[r] = "lockAgent"
    /\ r \in keyShare[AgentOf(r)]
    /\ \E q \in Requests \ {r} : pc[q] = "lockAgent" /\ q \in keyShare[AgentOf(r)]

-----------------------------------------------------------------------------
(* What holds at each await *)

\* A request is where its call and its key lead it; what a handler reads again
\* after an await, the claimed key row, the order it locked, is still there.
AwaitOK(r) ==
  /\ pc[r] # "idle" => call[r] \in Calls
  /\ pc[r] \in {"claim", "conflict", "reclaim", "fail", "mark", "complete"} => Keyed(r)
  /\ pc[r] \in {"conflict", "reclaim", "mark", "complete"} => keys[SlotOf(r)] # None
  /\ pc[r] \in {"reclaim", "fail"} => idem[r] # None
  /\ pc[r] = "provider" => call[r].op = "book"
  /\ pc[r] \in {"lockAgent", "lockOrder", "decide", "kick"} => call[r].op = "issue"
  /\ pc[r] \in {"provider", "lockAgent", "lockOrder", "decide"} /\ Keyed(r) =>
       idem[r] # None /\ (Writes(r, SlotOf(r)) \/ keys[SlotOf(r)] # None)
  /\ pc[r] = "decide" => orders[call[r].arg] # None
  /\ pc[r] = "complete" => reply[r] # None /\ reply[r].body # None
  /\ pc[r] \in {"idle", "claim", "conflict", "reclaim", "provider"} => orders[r] = None

AwaitsAreSound == \A r \in Requests : AwaitOK(r)

\* FOR UPDATE is held from the statement that takes it to the end of its
\* transaction, by a request of that agent, and the order lock inside it.
LocksAreHeldToTheEnd ==
  /\ \A r \in Requests :
       /\ pc[r] \in {"lockOrder", "decide"} => forUpdate[AgentOf(r)] = r
       /\ pc[r] = "decide" => orderLock[call[r].arg] = r
  /\ \A a \in Agents : forUpdate[a] # None =>
       pc[forUpdate[a]] \in {"lockOrder", "decide"} /\ AgentOf(forUpdate[a]) = a
  /\ \A o \in OrderIds : orderLock[o] # None =>
       pc[orderLock[o]] = "decide" /\ call[orderLock[o]].arg = o

-----------------------------------------------------------------------------
(* Progress *)

\* Every admitted request comes to its end: no wait is for ever.
EveryRequestEnds ==
  \A r \in Requests : pc[r] # "idle" ~> pc[r] \in {"done", "dead"}

\* A LOCKED key is settled, whatever else fails, unless a request that carries
\* it died: the client that is told IDEMPOTENCY_IN_PROGRESS is told so for a
\* while only (issuing.py:159-160, booking.py:76-84).
LockedKeySettles ==
  \A s \in Slots :
    keys[s] # None /\ keys[s].status = "LOCKED"
      ~> \/ keys[s] # None /\ keys[s].status # "LOCKED"
         \/ \E r \in Requests : pc[r] = "dead" /\ Keyed(r) /\ SlotOf(r) = s

\* The ticket of an issued order is asked for, unless a request that issues it
\* died (issuing.py:162-173).
IssuedIsKicked ==
  \A o \in OrderIds :
    orders[o] # None /\ orders[o].status = "ISSUED"
      ~> \/ o \in kicked
         \/ \E r \in Requests : pc[r] = "dead" /\ call[r].op = "issue" /\ call[r].arg = o

-----------------------------------------------------------------------------
(* Refinement *)

\* Orders, balances and the ledger change as module Account says; requests,
\* keys and locks are not seen there.
Promise == INSTANCE Account WITH orders <- orders, balance <- balance, ledger <- ledger

ImplementsAccount == Promise!AccountSpec
=============================================================================
