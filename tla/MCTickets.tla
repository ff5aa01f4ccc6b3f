----------------------------- MODULE MCTickets -----------------------------
(***************************************************************************)
(* Small instances of module Tickets: one or two orders, two or three      *)
(* tasks of the API, two deliveries at a time (one of them may be lost).   *)
(***************************************************************************)
EXTENDS TicketProperties, TLC

CONSTANTS o1, o2, c1, c2, c3, h1, h2

\* Tasks are interchangeable, and so are handlers and orders.
Alike == Permutations(Tasks) \cup Permutations(Handlers) \cup Permutations(OrderIds)
=============================================================================
