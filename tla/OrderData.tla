----------------------------- MODULE OrderData -----------------------------
(***************************************************************************)
(* The data of order booking and issuing: the parameters of the system,    *)
(* the calls its clients send, the rows of its tables and the bodies of    *)
(* its answers.  Names, passports, fares and timestamps are abstracted to  *)
(* what the handlers branch on: a payload is a model value with a price,   *)
(* an order is its agent, its payload, its status and its ticket number.   *)
(***************************************************************************)
EXTENDS Integers, Sequences

CONSTANTS
  Requests,    \* one HTTP request each; a booking request names its order
  Agents,      \* rows of table agents
  Keys,        \* values of the Idempotency-Key header
  NoKey,       \* the header is absent
  Payloads,    \* canonical booking payloads (offer, passengers, contact)
  Price,       \* Price[p]: total fare of payload p
  Opening,     \* Opening[a]: balance of agent a when the system starts
  SeedOrders,  \* SeedOrders[o]: agent and payload of a BOOKED order that exists already
  Tickets,     \* 13-digit ticket numbers
  TicketOf,    \* TicketOf[o]: form code and the last ten digits of the order id
  Traffic,     \* the calls that clients may send
  None         \* SQL NULL, a missing row, an absent value

OrderIds == Requests \cup DOMAIN SeedOrders

Ops == {"book", "issue"}

\* The request hash of a slot stands for the payload (create_order) or for
\* the order id (issue): equal hashes are equal arguments.
Hashes == Payloads \cup OrderIds

\* One call of POST /orders or POST /orders/{id}/issue by an authenticated agent.
Calls ==
  [op : {"book"}, agent : Agents, key : Keys \cup {NoKey}, arg : Payloads]
    \cup [op : {"issue"}, agent : Agents, key : Keys \cup {NoKey}, arg : OrderIds]

\* The unique constraint of table idempotency_keys: (agent_id, scope, key).
Slots == Agents \X Ops \X Keys

\* The part of OrderOut and IssueOut that depends on the state.
Bodies ==
  [order : OrderIds, ticket : Tickets \cup {None}, left : Nat \cup {None}]

KeyStatus == {"LOCKED", "COMPLETED", "FAILED"}

\* A row of idempotency_keys; its id is the request that inserted it.
KeyRows ==
  [id : Requests, status : KeyStatus, hash : Hashes, body : Bodies \cup {None}]

OrderRows ==
  [agent : Agents, payload : Payloads, status : {"BOOKED", "ISSUED"},
   ticket : Tickets \cup {None}]

\* A DEBIT row of balance_transactions.
Debits == [order : OrderIds, amount : Nat, after : Nat]

\* The orders that exist before the first request.
OpeningOrders ==
  [o \in OrderIds |->
     IF o \in DOMAIN SeedOrders
       THEN [agent |-> SeedOrders[o].agent, payload |-> SeedOrders[o].payload,
             status |-> "BOOKED", ticket |-> None]
       ELSE None]

\* The order a booking inserts.
NewOrder(a, p) ==
  [agent |-> a, payload |-> p, status |-> "BOOKED", ticket |-> None]

\* CHECK total_amount > 0, and money is never negative at the start.
ASSUME MoneyAssumption ==
  /\ Price \in [Payloads -> Nat \ {0}]
  /\ Opening \in [Agents -> Nat]

\* Primary keys are UUIDs: a new order never has the id of an old one.
ASSUME OrderIdAssumption ==
  /\ SeedOrders \in [DOMAIN SeedOrders -> [agent : Agents, payload : Payloads]]
  /\ DOMAIN SeedOrders \cap Requests = {}
  /\ TicketOf \in [OrderIds -> Tickets]

ASSUME TrafficAssumption == Traffic \subseteq Calls /\ NoKey \notin Keys

\* None is told apart from every value it stands beside.
ASSUME NoneAssumption ==
  /\ None \notin Requests
  /\ None \notin Tickets
  /\ None \notin Calls
  /\ None \notin Bodies
  /\ None \notin KeyRows
  /\ None \notin OrderRows
  /\ None \notin [by : Requests, row : KeyRows]
=============================================================================
