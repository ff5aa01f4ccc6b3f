------------------------------ MODULE Account ------------------------------
(***************************************************************************)
(* What booking and issuing promise an agency, without requests, sessions, *)
(* locks or keys: orders appear BOOKED, and an order is issued at most     *)
(* once, in one atomic step that checks the balance, debits it, writes the *)
(* ledger entry and assigns a ticket number nobody else has.               *)
(***************************************************************************)
EXTENDS OrderData

VARIABLES orders, balance, ledger

accountVars == <<orders, balance, ledger>>

AccountInit ==
  /\ orders = OpeningOrders
  /\ balance = Opening
  /\ ledger = [a \in Agents |-> <<>>]

BookOrder(o, a, p) ==
  /\ orders[o] = None
  /\ orders' = [orders EXCEPT ![o] = NewOrder(a, p)]
  /\ UNCHANGED <<balance, ledger>>

IssueOrder(o) ==
  LET a    == orders[o].agent
      cost == Price[orders[o].payload]
  IN
  /\ orders[o] # None
  /\ orders[o].status = "BOOKED"
  /\ balance[a] >= cost
  /\ \A p \in OrderIds : orders[p] # None => orders[p].ticket # TicketOf[o]
  /\ orders' = [orders EXCEPT
       ![o] = [@ EXCEPT !.status = "ISSUED", !.ticket = TicketOf[o]]]
  /\ balance' = [balance EXCEPT ![a] = @ - cost]
  /\ ledger' = [ledger EXCEPT ![a] =
       Append(@, [order |-> o, amount |-> cost, after |-> balance[a] - cost])]

AccountNext ==
  \/ \E o \in Requests, a \in Agents, p \in Payloads : BookOrder(o, a, p)
  \/ \E o \in OrderIds : IssueOrder(o)

AccountSpec == AccountInit /\ [][AccountNext]_accountVars
=============================================================================
