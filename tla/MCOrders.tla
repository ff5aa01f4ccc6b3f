------------------------------ MODULE MCOrders ------------------------------
(***************************************************************************)
(* Small instances of module Orders.                                       *)
(***************************************************************************)
EXTENDS OrderProperties, TLC

CONSTANTS r1, r2, r3, a1, a2, k1, k2, p1, p2, s1, s2, t1, t2, t3, t4, t5

\* p1 costs 2, p2 costs 1: with a balance of 3 one of two p1 orders is paid.
MCPrice == [p \in Payloads |-> IF p = p1 THEN 2 ELSE 1]

\* Accounts: one agency with 3, and, where there are two, a poor one with 1.
MCOpening == [a \in Agents |-> IF a = a1 THEN 3 ELSE 1]

\* No order exists, or one or two seeded orders of a1.
NoSeeds  == [o \in {} |-> [agent |-> a1, payload |-> p1]]
OneSeed  == [o \in {s1} |-> [agent |-> a1, payload |-> p1]]
TwoSeeds == [o \in {s1, s2} |-> [agent |-> a1, payload |-> p1]]
MixedSeeds ==
  [o \in {s1, s2} |-> [agent |-> a1, payload |-> IF o = s1 THEN p1 ELSE p2]]

\* Distinct ticket numbers, or two orders, s1 and s2, that end in the same ten digits.
DistinctTickets ==
  [o \in OrderIds |-> CASE o = r1 -> t1 [] o = r2 -> t2 [] o = r3 -> t3
                        [] o = s1 -> t4 [] o = s2 -> t5]
CollidingTickets ==
  [o \in OrderIds |-> CASE o = r1 -> t1 [] o = r2 -> t2 [] o = r3 -> t3 [] OTHER -> t4]

\* Keys are told apart by nothing but their name.
AlikeKeys == Permutations({k1, k2})

Headers == Keys \cup {NoKey}

BookCalls(agents, keysUsed, payloads) ==
  [op : {"book"}, agent : agents, key : keysUsed, arg : payloads]
IssueCalls(agents, keysUsed, ids) ==
  [op : {"issue"}, agent : agents, key : keysUsed, arg : ids]

\* One agency books two payloads, with one key or none.
BookTraffic == BookCalls({a1}, Headers, Payloads)

\* One agency issues two seeded orders under two keys or none.
IssueTraffic == IssueCalls({a1}, Headers, {s1, s2})

\* Booking and issuing by two agencies, of a booked and of a seeded order; the
\* other seeded order, whose ticket number collides, is issued without a key.
MixedTraffic ==
  BookCalls({a1}, Headers, Payloads) \cup BookCalls({a2}, Headers, {p2})
    \cup IssueCalls({a1, a2}, Headers, {r1, s1})
    \cup IssueCalls({a1}, {NoKey}, {s2})

\* One agency books and issues; every call waits behind the others.
LiveTraffic == BookCalls({a1}, Headers, Payloads) \cup IssueCalls({a1}, Headers, {s1, r1})
=============================================================================
