------------------------------ MODULE MCOffers ------------------------------
(***************************************************************************)
(* Instances of Offers for TLC, and the pure functions of Catalog and      *)
(* TicketDocument against reference definitions on bounded inputs.         *)
(***************************************************************************)
EXTENDS Offers, TicketDocument, SequencesExt, TLC

CONSTANTS a, b, s1, s2, s3

\* Clients and seeds are told apart by nothing but their name.
Alike == Permutations({a, b}) \cup Permutations({s1, s2, s3})

-----------------------------------------------------------------------------
\* Bounds: prices around the baggage threshold and where halves are rounded.
Prices == {12000, 12002, 12005, 12006, 12010, 24999, 25000, 180000}

People == UNION {[1 .. n -> [type : PaxTypes, name : {"N"}]] : n \in 1 .. 3}

SumOfFares(price, passengers) ==
  FoldLeft(LAMBDA sum, who : sum + PaxFare(price, who.type), 0, passengers)

\* The order's total is the sum of the fares it stores (booking.py:97-98).
ASSUME TotalIsSumOfFares ==
  \A price \in Prices, passengers \in People :
    Total(price, Party(passengers)) = SumOfFares(price, passengers)

Segment(from, to, leaves, takes) ==
  [origin |-> from, destination |-> to, departure |-> leaves,
   arrival |-> leaves + takes, duration |-> takes]

Drawn ==
  UNION {[1 .. n -> {Offer(price, FALSE, 1, <<Segment("A", "B", 0, 60)>>) :
                       price \in {12000, 24999, 25000}}] : n \in 1 .. 4}

\* Every offer drawn gets an index, and the indices rise with the price
\* (mock.py:246-250).
ASSUME OffersAreSorted ==
  \A drawn \in Drawn :
    LET listed == [n \in DOMAIN drawn |-> OfferAt(drawn, n - 1)] IN
    /\ \A i \in DOMAIN drawn : Before(drawn, i) \in 0 .. Len(drawn) - 1
    /\ \A i, j \in DOMAIN drawn :
         /\ i # j => Before(drawn, i) # Before(drawn, j)
         /\ i < j => listed[i].price <= listed[j].price

\* Bounds: the extremes of what a leg may draw.
Legs(from, to, day) ==
  {Leg(stops, day, start, durations) :
     stops \in {Stops(from, to, "H", FALSE)}, start \in {0, 780},
     durations \in [1 .. 1 -> {60, 720}]} \cup
  {Leg(stops, day, start, durations) :
     stops \in {Stops(from, to, "H", TRUE)}, start \in {0, 780},
     durations \in [1 .. 2 -> {60, 360}]}

\* On the day after the departure a return flight may leave while its
\* travellers are still on their way out; two days after it no longer can
\* (mock.py:184-186, 215-221).
ASSUME ReturnMayOverlap ==
  LET overlaps(day) ==
        \E out \in Legs("A", "B", 0), back \in Legs("B", "A", day) :
          back[1].departure < out[Len(out)].arrival
  IN  overlaps(0) /\ overlaps(1) /\ ~overlaps(2)

\* The route the API gives for a round trip ends where it began, on either
\* kind of leg (schemas/orders.py:118-126).
ASSUME RoundTripEndsAtItsOrigin ==
  \A out \in Legs("A", "B", 0), back \in Legs("B", "A", 2) :
    LET route == Route(out \o back) IN
    route.origin = "A" /\ route.destination = "A"

\* The ticket of an issued order names its travellers, flights and price as
\* they were booked, and prints no bag that the offer does not carry
\* (booking.py:100-123, ticket.py:63-112, pdf.py:341-371).
ASSUME TicketShowsTheOrder ==
  \A price \in Prices, passengers \in People, out \in Legs("A", "B", 0) :
    LET order    == [Booked(Offer(price, FALSE, 1, out), passengers, "c")
                       EXCEPT !.status = "ISSUED", !.ticket = "232"]
        document == Document(TicketData(order, ""))
    IN  /\ document.total = SumOfFares(price, passengers)
        /\ document.passengers = passengers
        /\ Len(document.flights) = Len(out)
        /\ document.flights[1].origin = OrderOut(order).route[1].origin
        /\ document.info.company = Missing /\ document.barcode
        /\ "checked" \in document.baggage <=> price >= 25000
=============================================================================
