---------------------------- MODULE TicketDocument ----------------------------
(***************************************************************************)
(* What the client and the traveller read of an order: the order as it is  *)
(* booked from an offer, the JSON the API answers, and the text of the PDF *)
(* ticket.  Wording and layout are left out, rows are records.             *)
(***************************************************************************)
EXTENDS Catalog

Missing == "-"

\* Python's "x or y" on a string.
OrElse(x, y) == IF x = "" THEN y ELSE x

-----------------------------------------------------------------------------
(* The order and its view *)

Party(passengers) ==
  [type \in PaxTypes |->
     Cardinality({i \in DOMAIN passengers : passengers[i].type = type})]

\* BookingService._persist: the offer is kept as it is now.
Booked(offer, passengers, contact) ==
  [status     |-> "BOOKED",
   ticket     |-> "",
   total      |-> Total(offer.price, Party(passengers)),
   snapshot   |-> offer,
   contact    |-> contact,
   passengers |-> [i \in DOMAIN passengers |->
                     [type |-> passengers[i].type,
                      name |-> passengers[i].name,
                      fare |-> PaxFare(offer.price, passengers[i].type)]]]

\* RouteOut: from the first segment to the last, whatever lies between.
Route(segments) ==
  [origin      |-> segments[1].origin,
   destination |-> segments[Len(segments)].destination,
   departure   |-> segments[1].departure,
   arrival     |-> segments[Len(segments)].arrival]

\* OrderOut.from_order
OrderOut(order) ==
  [status     |-> order.status,
   ticket     |-> order.ticket,
   total      |-> order.total,
   passengers |-> order.passengers,
   route      |-> IF order.snapshot.segments = <<>>
                    THEN <<>>
                    ELSE <<Route(order.snapshot.segments)>>]

-----------------------------------------------------------------------------
(* The ticket *)

\* build_ticket_data
TicketData(order, company) ==
  [status     |-> order.status,
   ticket     |-> order.ticket,
   company    |-> company,
   contact    |-> order.contact,
   total      |-> order.total,
   passengers |-> [i \in DOMAIN order.passengers |->
                     [type |-> order.passengers[i].type,
                      name |-> order.passengers[i].name]],
   segments   |-> order.snapshot.segments,
   baggage    |-> order.snapshot.baggage]

\* _fmt_duration: hours and minutes, or nothing.
HoursAndMinutes(minutes) ==
  IF minutes <= 0 THEN <<>> ELSE <<minutes \div 60, minutes % 60>>

\* _flights_block, without the rows that are the segment's own fields.
FlightsBlock(segments) ==
  [i \in DOMAIN segments |->
     [origin      |-> segments[i].origin,
      destination |-> segments[i].destination,
      departure   |-> segments[i].departure,
      arrival     |-> segments[i].arrival,
      duration    |-> HoursAndMinutes(segments[i].duration)]]

\* _fmt_bunch: the parts that are not zero, or no text at all.
Bunch(bag) ==
  {part \in {[unit |-> "pc", n |-> bag.pieces], [unit |-> "kg", n |-> bag.kg]} :
     part.n # 0}

\* _fmt_baggage: the bunches that have a text; none: "not included".
BaggageNote(baggage) ==
  {kind \in {"cabin", "checked"} : Bunch(baggage[kind]) # {}}

\* _info_block
InfoBlock(data) ==
  [status  |-> data.status,
   ticket  |-> OrElse(data.ticket, Missing),
   company |-> OrElse(data.company, Missing),
   contact |-> OrElse(data.contact, Missing)]

\* render_ticket_pdf; the barcode is drawn if there is a number to draw.
Document(data) ==
  [info       |-> InfoBlock(data),
   flights    |-> FlightsBlock(data.segments),
   passengers |-> data.passengers,
   total      |-> data.total,
   baggage    |-> BaggageNote(data.baggage),
   barcode    |-> data.ticket # ""]
=============================================================================
