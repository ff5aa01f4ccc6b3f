------------------------------- MODULE Catalog -------------------------------
(***************************************************************************)
(* The offers that MockAviaProvider makes up, and their prices, as         *)
(* functions of what its random generator draws.  Money is in cents, time  *)
(* in minutes since the first midnight (UTC).                              *)
(***************************************************************************)
EXTENDS Integers, Sequences, FiniteSets

\* Decimal.quantize(_CENT, ROUND_HALF_UP) of x / d, for x >= 0.
HalfUp(x, d) == (2 * x + d) \div (2 * d)

-----------------------------------------------------------------------------
(* Fares per passenger (booking.py) *)

PaxTypes == {"ADULT", "CHILD", "INFANT"}

\* _PAX_MULTIPLIERS, in hundredths.
Multiplier == [ADULT |-> 100, CHILD |-> 75, INFANT |-> 10]

PaxFare(price, type) == HalfUp(price * Multiplier[type], 100)

\* How many travellers of each type a booking names: one to nine in all, of
\* any types.
Parties ==
  {n \in [PaxTypes -> 0 .. 9] : n["ADULT"] + n["CHILD"] + n["INFANT"] \in 1 .. 9}

\* The sum of the fares of all travellers.
Total(price, n) ==
  n["ADULT"] * PaxFare(price, "ADULT") + n["CHILD"] * PaxFare(price, "CHILD")
    + n["INFANT"] * PaxFare(price, "INFANT")

-----------------------------------------------------------------------------
(* Legs *)

Day     == 1440
Layover == 90

\* Nonstop, or through the carrier's hub when the draw says so and the hub is
\* neither end of the leg.
Stops(origin, destination, hub, lucky) ==
  IF lucky /\ hub \notin {origin, destination}
    THEN <<origin, hub, destination>>
    ELSE <<origin, destination>>

\* The minutes a flight may take, by the number of stops.
Durations(stops) == IF Len(stops) = 3 THEN 60 .. 360 ELSE 60 .. 720

\* When a leg may leave, in minutes after midnight.
Starts == 0 .. 780

\* The flights of one direction; the second leaves Layover after the first
\* arrives.
Leg(stops, day, start, durations) ==
  LET departure(i) ==
        day * Day + start + IF i = 1 THEN 0 ELSE durations[1] + Layover
  IN  [i \in 1 .. Len(stops) - 1 |->
         [origin      |-> stops[i],
          destination |-> stops[i + 1],
          departure   |-> departure(i),
          arrival     |-> departure(i) + durations[i],
          duration    |-> durations[i]]]

-----------------------------------------------------------------------------
(* Offers *)

EconomyPrices == 12000 .. 180000
Surcharges    == 280 .. 350

BusinessPrice(price, surcharge) == HalfUp(price * surcharge, 100)

Bag(kg, pieces) == [kg |-> kg, pieces |-> pieces]

\* Cheap offers carry no checked bag.
Checked(price) == IF price < 25000 THEN Bag(0, 0) ELSE Bag(20, 1)

Offer(price, refundable, seats, segments) ==
  [price      |-> price,
   refundable |-> refundable,
   seats      |-> seats,
   segments   |-> segments,
   baggage    |-> [cabin |-> Bag(8, 1), checked |-> Checked(price)]]

\* How many of the drawn offers come before the i-th when they are sorted by
\* price; equal prices keep their order.
Before(drawn, i) ==
  Cardinality({j \in DOMAIN drawn :
                 \/ drawn[j].price < drawn[i].price
                 \/ drawn[j].price = drawn[i].price /\ j < i})

\* The offer whose identifier ends in index.
OfferAt(drawn, index) ==
  drawn[CHOOSE i \in DOMAIN drawn : Before(drawn, i) = index]

StandardExtras == 4500 .. 8000
FlexExtras     == 11000 .. 18000

AtLeastOne(n) == IF n < 1 THEN 1 ELSE n

\* _enrich: the fare families, the cheapest first.
Families(offer, standard, flex) ==
  LET family(price, changeable, bag, fewer) ==
        [price        |-> price,
         refundable   |-> changeable,
         exchangeable |-> changeable,
         baggage      |-> [cabin |-> Bag(8, 1), checked |-> bag],
         seats        |-> AtLeastOne(offer.seats - fewer)]
  IN  <<family(offer.price, FALSE, offer.baggage.checked, 0),
        family(offer.price + standard, TRUE, Bag(20, 1), 1),
        family(offer.price + flex, TRUE, Bag(23, 2), 2)>>
=============================================================================
