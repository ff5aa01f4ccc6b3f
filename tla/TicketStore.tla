----------------------------- MODULE TicketStore -----------------------------
(***************************************************************************)
(* What write_pdf_atomic and mark_ticket_generated promise to a reader of  *)
(* the ticket directory, whoever generates a ticket and however often: a   *)
(* ticket appears whole under its name, is replaced by a whole one only,   *)
(* never disappears, and is recorded in its order's row after it appeared. *)
(***************************************************************************)
CONSTANTS OrderIds, None

VARIABLES
  final,    \* final[o]: the content under the name <order_id>.pdf
  recorded  \* orders with orders.ticket_file set

store == <<final, recorded>>

StoreInit == final = [o \in OrderIds |-> None] /\ recorded = {}

Publish(o) ==
  /\ final' = [final EXCEPT ![o] = "whole"]
  /\ UNCHANGED recorded

Record(o) ==
  /\ final[o] = "whole"
  /\ recorded' = recorded \cup {o}
  /\ UNCHANGED final

StoreNext == \E o \in OrderIds : Publish(o) \/ Record(o)

StoreSpec == StoreInit /\ [][StoreNext]_store
=============================================================================
