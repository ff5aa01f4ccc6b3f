---------------------------- MODULE OfferProofs ----------------------------
(***************************************************************************)
(* Proofs about Offers: the provider's map stays within its bound and      *)
(* keeps the last search, a cached detail hardly outlives its offer, and   *)
(* only what a search has found is shown or booked.  And about the pure    *)
(* functions an offer is made and printed with (Catalog, TicketDocument),  *)
(* for every price, every party and every draw.                            *)
(***************************************************************************)
EXTENDS Offers, TicketDocument, FiniteSetTheorems, TLAPS

\* What a search did not find is in no memory.
FoundInv ==
  /\ seeds \subseteq found
  /\ \A s \in Seeds : cache[s] # None => s \in found
  /\ \A c \in Clients : pc[c] \in {"set", "seen", "booked"} => offer[c] \in found

\* How long a detail may live, in Redis and on its way there.
ExpiryInv ==
  /\ \A s \in Seeds : cache[s] # None => cache[s].until <= cache[s].expires + Lag
  /\ \A c \in Clients : pc[c] = "set" => now <= shown[c] - TTL + Lag

Inv == TypeOK /\ LatestIsKnown /\ FoundInv /\ ExpiryInv /\ ShownIsOpen

\* The map after a search has ended: it holds the new seed and at most
\* MaxSeeds of them (mock.py:167-170).
LEMMA RememberedFits ==
  ASSUME NEW s \in Seeds, seeds \subseteq Seeds, Cardinality(seeds) <= MaxSeeds
  PROVE  /\ Remembered(s) \subseteq Seeds
         /\ s \in Remembered(s)
         /\ Cardinality(Remembered(s)) <= MaxSeeds
<1>1. IsFiniteSet(seeds) /\ Cardinality(seeds) \in Nat
  BY OffersAssumption, FS_Subset, FS_CardinalityType
<1>2. CASE Cardinality(seeds) >= MaxSeeds
  <2>1. Remembered(s) = {s}
    BY <1>2 DEF Remembered
  <2> QED
    BY <2>1, FS_Singleton, OffersAssumption
<1>3. CASE ~(Cardinality(seeds) >= MaxSeeds)
  <2>1. Remembered(s) = seeds \cup {s}
    BY <1>3 DEF Remembered
  <2>2. Cardinality(seeds \cup {s}) = IF s \in seeds THEN Cardinality(seeds)
                                      ELSE Cardinality(seeds) + 1
    BY <1>1, FS_AddElement, Zenon
  <2> QED
    BY <1>1, <1>3, <2>1, <2>2, OffersAssumption
<1> QED
  BY <1>2, <1>3

\* The invariant holds at first.
LEMMA InitInv == Init => Inv
<1> SUFFICES ASSUME Init PROVE Inv
  OBVIOUS
<1>1. Cardinality({}) = 0
  BY FS_EmptySet
<1> QED
  BY <1>1, OffersAssumption
  DEF Init, Inv, TypeOK, LatestIsKnown, FoundInv, ExpiryInv, ShownIsOpen, Labels, Times

\* Every step keeps the invariant.
LEMMA NextInv == Inv /\ [Next]_vars => Inv'
<1> SUFFICES ASSUME Inv, [Next]_vars PROVE Inv'
  OBVIOUS
<1> USE OffersAssumption
<1> USE DEF Inv, TypeOK, LatestIsKnown, FoundInv, ExpiryInv, ShownIsOpen, Rebuilds, Times, Labels, client
<1>1. ASSUME NEW s \in Seeds, FinishSearch(s) PROVE Inv'
  <2>1. Remembered(s) \subseteq Seeds /\ s \in Remembered(s) /\ Cardinality(Remembered(s)) <= MaxSeeds
    BY RememberedFits
  <2>2. seeds' \subseteq found'
    BY <1>1 DEF FinishSearch, Remembered
  <2> QED
    BY <1>1, <2>1, <2>2 DEF FinishSearch
<1>2. ASSUME NEW c \in Clients, NEW s \in Seeds, Get(c, s) PROVE Inv'
  BY <1>2 DEF Get, Goto
<1>3. ASSUME NEW c \in Clients, Hit(c) PROVE Inv'
  BY <1>3 DEF Hit, Show, Goto, Entries
<1>4. ASSUME NEW c \in Clients, Miss(c) PROVE Inv'
  BY <1>4 DEF Miss, Goto
<1>5. ASSUME NEW c \in Clients, AskProvider(c) PROVE Inv'
  BY <1>5 DEF AskProvider, Goto, Expiry
<1>6. ASSUME NEW c \in Clients, NotFound(c) PROVE Inv'
  BY <1>6 DEF NotFound, Goto
<1>7. ASSUME NEW c \in Clients, Set(c) PROVE Inv'
  BY <1>7 DEF Set, Show, Goto, Entry, Entries
<1>8. ASSUME NEW c \in Clients, Book(c) PROVE Inv'
  BY <1>8 DEF Book, Goto, Verdict, Expiry
<1>9. ASSUME Restart PROVE Inv'
  BY <1>9, FS_EmptySet DEF Restart
<1>10. ASSUME Tick PROVE Inv'
  BY <1>10 DEF Tick
<1>11. ASSUME UNCHANGED vars PROVE Inv'
  BY <1>11 DEF vars
<1> QED
  BY <1>1, <1>2, <1>3, <1>4, <1>5, <1>6, <1>7, <1>8, <1>9, <1>10, <1>11 DEF Next

\* The invariant holds of every reachable state.
LEMMA Invariance == Spec => []Inv
<1> QED
  BY InitInv, NextInv, PTL DEF Spec

\* The map of remembered searches never outgrows its bound, whatever the
\* number of searches, clients and restarts.
THEOREM TypeCorrect == Spec => []TypeOK
<1>1. Inv => TypeOK
  BY DEF Inv
<1> QED
  BY <1>1, Invariance, PTL

\* The offers of the search that ended last can be looked at and booked.
THEOREM LatestKnown == Spec => []LatestIsKnown
<1>1. Inv => LatestIsKnown
  BY DEF Inv
<1> QED
  BY <1>1, Invariance, PTL

\* A detail is shown at most Lag after its offer_expires_at, for any time to
\* live and any lag.
THEOREM ShownOpen == Spec => []ShownIsOpen
<1>1. Inv => ShownIsOpen
  BY DEF Inv
<1> QED
  BY <1>1, Invariance, PTL

\* Nothing is shown or sold that no search has found.
THEOREM FoundSold == Spec => []OnlyFoundIsSold
<1>1. Inv => OnlyFoundIsSold
  BY DEF Inv, FoundInv, OnlyFoundIsSold
<1> QED
  BY <1>1, Invariance, PTL

-----------------------------------------------------------------------------
(* Fares *)

\* Rounding errs by half a unit at most.
LEMMA HalfUpIsNear ==
  ASSUME NEW x \in Nat
  PROVE  /\ HalfUp(x, 100) \in Nat
         /\ 100 * HalfUp(x, 100) - x \in -49 .. 50
BY DEF HalfUp

\* The fares of the three types, written out.
LEMMA FareOf ==
  ASSUME NEW price
  PROVE  /\ PaxFare(price, "ADULT") = HalfUp(price * 100, 100)
         /\ PaxFare(price, "CHILD") = HalfUp(price * 75, 100)
         /\ PaxFare(price, "INFANT") = HalfUp(price * 10, 100)
BY DEF PaxFare, Multiplier

\* An adult pays the price of the offer, a child no more, an infant no more
\* than a child; each fare is within half a cent of its share of the price
\* (booking.py:26-36).
THEOREM FaresAreFair ==
  ASSUME NEW price \in Nat
  PROVE  /\ PaxFare(price, "ADULT") = price
         /\ PaxFare(price, "CHILD") <= PaxFare(price, "ADULT")
         /\ PaxFare(price, "INFANT") <= PaxFare(price, "CHILD")
         /\ \A type \in PaxTypes :
              /\ PaxFare(price, type) \in Nat
              /\ 100 * PaxFare(price, type) - price * Multiplier[type] \in -49 .. 50
<1>1. /\ PaxFare(price, "ADULT") = (200 * price + 100) \div 200
      /\ PaxFare(price, "CHILD") = (150 * price + 100) \div 200
      /\ PaxFare(price, "INFANT") = (20 * price + 100) \div 200
  BY FareOf DEF HalfUp
<1>2. /\ PaxFare(price, "ADULT") = price
      /\ PaxFare(price, "CHILD") <= PaxFare(price, "ADULT")
      /\ PaxFare(price, "INFANT") <= PaxFare(price, "CHILD")
  BY <1>1
<1>3. ASSUME NEW type \in PaxTypes
      PROVE  /\ PaxFare(price, type) \in Nat
             /\ 100 * PaxFare(price, type) - price * Multiplier[type] \in -49 .. 50
  <2>1. Multiplier[type] \in {100, 75, 10}
    BY DEF PaxTypes, Multiplier
  <2>2. price * Multiplier[type] \in Nat
    BY <2>1
  <2> QED BY <2>2, HalfUpIsNear DEF PaxFare
<1> QED BY <1>2, <1>3

\* A factor of at least one does not shrink a product.
LEMMA ProductBounds ==
  ASSUME NEW n \in Nat, NEW x \in Nat, NEW y \in Nat, x <= y
  PROVE  n * x \in Nat /\ n * x <= n * y /\ (n >= 1 => x <= n * x)
<1>1. n * x \in Nat
  OBVIOUS
<1>2. n * (y - x) >= 0
  BY SMT
<1>3. n * (y - x) = n * y - n * x
  BY SMT
<1>4. ASSUME n >= 1 PROVE x <= n * x
  <2>1. (n - 1) * x >= 0
    BY <1>4, SMT
  <2>2. (n - 1) * x = n * x - x
    BY SMT
  <2> QED BY <2>1, <2>2
<1>5. n * y \in Nat
  OBVIOUS
<1> QED BY <1>1, <1>2, <1>3, <1>4, <1>5

\* One to nine fares, none above p, add up to at most nine p.
LEMMA SumBounds ==
  ASSUME NEW p \in Nat, NEW x \in 1 .. p, NEW y \in 1 .. p, NEW z \in 1 .. p,
         NEW a \in Nat, NEW b \in Nat, NEW c \in Nat, a + b + c \in 1 .. 9
  PROVE  a * x + b * y + c * z \in 1 .. 9 * p
<1>1. a * x \in Nat /\ a * x <= a * p /\ (a >= 1 => x <= a * x)
  BY ProductBounds
<1>2. b * y \in Nat /\ b * y <= b * p /\ (b >= 1 => y <= b * y)
  BY ProductBounds
<1>3. c * z \in Nat /\ c * z <= c * p /\ (c >= 1 => z <= c * z)
  BY ProductBounds
<1>4. a * p + b * p + c * p <= 9 * p
  <2> DEFINE m == a + b + c
  <2>1. m * p = a * p + b * p + c * p
    BY SMT
  <2>2. m \in 1 .. 9
    OBVIOUS
  <2> HIDE DEF m
  <2>3. m * p <= 9 * p
    BY <2>2
  <2> QED BY <2>1, <2>3
<1>5. a * p \in Nat /\ b * p \in Nat /\ c * p \in Nat
  OBVIOUS
<1> DEFINE ax == a * x  by == b * y  cz == c * z
           ap == a * p  bp == b * p  cp == c * p
<1>6. ax + by + cz <= ap + bp + cp
  <2>1. /\ ax \in Nat /\ by \in Nat /\ cz \in Nat /\ ap \in Nat /\ bp \in Nat /\ cp \in Nat
        /\ ax <= ap /\ by <= bp /\ cz <= cp
    BY <1>1, <1>2, <1>3, <1>5
  <2> HIDE DEF ax, by, cz, ap, bp, cp
  <2> QED BY <2>1
<1>7. ax + by + cz >= 1
  <2>1. a >= 1 \/ b >= 1 \/ c >= 1
    OBVIOUS
  <2>2. /\ ax \in Nat /\ by \in Nat /\ cz \in Nat
        /\ ax >= 1 \/ by >= 1 \/ cz >= 1
    BY <1>1, <1>2, <1>3, <2>1
  <2> HIDE DEF ax, by, cz
  <2> QED BY <2>2
<1> QED BY <1>1, <1>2, <1>3, <1>4, <1>5, <1>6, <1>7

\* Every booking of an offer of five cents or more has a positive total, which
\* the order table demands, and none costs more than nine adults
\* (booking.py:97-98; schemas/orders.py:56; models/order.py:36).
THEOREM TotalIsPositive ==
  ASSUME NEW price \in Nat, price >= 5, NEW n \in Parties
  PROVE  Total(price, n) \in 1 .. 9 * price
<1>1. /\ PaxFare(price, "ADULT") \in 1 .. price
      /\ PaxFare(price, "CHILD") \in 1 .. price
      /\ PaxFare(price, "INFANT") \in 1 .. price
  <2>1. PaxFare(price, "INFANT") = (20 * price + 100) \div 200
    BY FareOf DEF HalfUp
  <2>2. PaxFare(price, "INFANT") >= 1
    BY <2>1
  <2> QED BY <2>2, FaresAreFair DEF PaxTypes
<1>2. /\ n["ADULT"] \in Nat /\ n["CHILD"] \in Nat /\ n["INFANT"] \in Nat
      /\ n["ADULT"] + n["CHILD"] + n["INFANT"] \in 1 .. 9
  BY DEF Parties, PaxTypes
<1> QED BY <1>1, <1>2, SumBounds DEF Total

-----------------------------------------------------------------------------
(* Flights *)

\* A leg leads from its origin to its destination without a gap: it leaves
\* on its day, each flight leaves Layover after the one before has arrived,
\* and the last arrives within 26.5 hours of the day's start (mock.py:182-206).
LEMMA LegConnects ==
  ASSUME NEW from, NEW to, NEW hub, NEW lucky \in BOOLEAN, NEW day \in Int,
         NEW start \in Starts,
         NEW durations \in [1 .. 2 -> Durations(Stops(from, to, hub, lucky))]
  PROVE  LET leg == Leg(Stops(from, to, hub, lucky), day, start, durations)
             n == Len(Stops(from, to, hub, lucky)) - 1
         IN  /\ n \in {1, 2} /\ DOMAIN leg = 1 .. n
             /\ leg[1].origin = from /\ leg[n].destination = to
             /\ n = 2 => /\ leg[1].destination = leg[2].origin
                         /\ leg[2].departure = leg[1].arrival + Layover
             /\ leg[1].departure \in Int /\ leg[n].arrival \in Int
             /\ leg[1].departure >= day * Day
             /\ leg[n].arrival <= day * Day + 1590
<1>0. day * Day \in Int /\ start \in 0 .. 780 /\ Layover = 90
  BY DEF Day, Starts, Layover
<1>1. CASE lucky /\ hub \notin {from, to}
  <2>1. Stops(from, to, hub, lucky) = <<from, hub, to>>
    BY <1>1 DEF Stops
  <2>2. durations[1] \in 60 .. 360 /\ durations[2] \in 60 .. 360
    BY <2>1 DEF Durations
  <2> DEFINE leg == Leg(<<from, hub, to>>, day, start, durations)
             first == day * Day + start
             second == day * Day + start + (durations[1] + Layover)
  <2>3. Len(<<from, hub, to>>) = 3
    OBVIOUS
  <2>4. DOMAIN leg = 1 .. 2
    BY <2>3 DEF Leg
  <2>5. leg[1] = [origin |-> from, destination |-> hub, departure |-> first + 0,
                  arrival |-> first + 0 + durations[1], duration |-> durations[1]]
    BY <2>3 DEF Leg
  <2>6. leg[2] = [origin |-> hub, destination |-> to, departure |-> second,
                  arrival |-> second + durations[2], duration |-> durations[2]]
    BY <2>3 DEF Leg
  <2> HIDE DEF leg
  <2>7. /\ leg[1].origin = from /\ leg[2].destination = to
        /\ leg[1].destination = leg[2].origin
        /\ leg[2].departure = leg[1].arrival + Layover
        /\ leg[1].departure \in Int /\ leg[2].arrival \in Int
        /\ leg[1].departure >= day * Day
        /\ leg[2].arrival <= day * Day + 1590
    <3>1. /\ leg[1].origin = from /\ leg[1].destination = hub
          /\ leg[1].departure = first + 0 /\ leg[1].arrival = first + 0 + durations[1]
      BY <2>5
    <3>2. /\ leg[2].origin = hub /\ leg[2].destination = to
          /\ leg[2].departure = second /\ leg[2].arrival = second + durations[2]
      BY <2>6
    <3>3. PICK d \in Int, s \in 0 .. 780, x \in 60 .. 360, y \in 60 .. 360 :
            d = day * Day /\ s = start /\ x = durations[1] /\ y = durations[2]
      BY <1>0, <2>2
    <3>4. /\ leg[1].departure = d + s /\ leg[1].arrival = d + s + x
          /\ leg[2].departure = d + s + x + 90
          /\ leg[2].arrival = d + s + x + 90 + y
      <4>1. first + 0 = d + s /\ second = d + s + (x + 90)
        BY <1>0, <3>3
      <4> HIDE DEF first, second
      <4> QED BY <3>1, <3>2, <3>3, <4>1
    <3>5. /\ leg[2].departure = leg[1].arrival + Layover
          /\ leg[1].departure \in Int /\ leg[2].arrival \in Int
          /\ leg[1].departure >= d
          /\ leg[2].arrival <= d + 1590
      BY <1>0, <3>4
    <3> QED BY <3>1, <3>2, <3>3, <3>5
  <2> QED BY <2>1, <2>3, <2>4, <2>7 DEF leg
<1>2. CASE ~(lucky /\ hub \notin {from, to})
  <2>1. Stops(from, to, hub, lucky) = <<from, to>>
    BY <1>2 DEF Stops
  <2>2. durations[1] \in 60 .. 720
    BY <2>1 DEF Durations
  <2> DEFINE leg == Leg(<<from, to>>, day, start, durations)
             first == day * Day + start
  <2>3. Len(<<from, to>>) = 2
    OBVIOUS
  <2>4. DOMAIN leg = 1 .. 1
    BY <2>3 DEF Leg
  <2>5. leg[1] = [origin |-> from, destination |-> to, departure |-> first + 0,
                  arrival |-> first + 0 + durations[1], duration |-> durations[1]]
    BY <2>3 DEF Leg
  <2> HIDE DEF leg
  <2>6. /\ leg[1].origin = from /\ leg[1].destination = to
        /\ leg[1].departure \in Int /\ leg[1].arrival \in Int
        /\ leg[1].departure >= day * Day
        /\ leg[1].arrival <= day * Day + 1590
    BY <1>0, <2>2, <2>5
  <2> QED BY <2>1, <2>3, <2>4, <2>6 DEF leg
<1> QED BY <1>1, <1>2

\* Two days after the departure, or later, no return flight leaves before its
\* travellers have arrived (mock.py:184-186, 215-221); on the next day it may.
THEOREM ReturnFollowsArrival ==
  ASSUME NEW from, NEW to, NEW hub, NEW day \in Int, NEW later \in Int,
         later >= day + 2,
         NEW luckyOut \in BOOLEAN, NEW luckyBack \in BOOLEAN,
         NEW startOut \in Starts, NEW startBack \in Starts,
         NEW out \in [1 .. 2 -> Durations(Stops(from, to, hub, luckyOut))],
         NEW back \in [1 .. 2 -> Durations(Stops(to, from, hub, luckyBack))]
  PROVE  LET outward == Leg(Stops(from, to, hub, luckyOut), day, startOut, out)
             homeward == Leg(Stops(to, from, hub, luckyBack), later, startBack, back)
         IN  outward[Len(Stops(from, to, hub, luckyOut)) - 1].arrival
               < homeward[1].departure
<1> DEFINE outward == Leg(Stops(from, to, hub, luckyOut), day, startOut, out)
           homeward == Leg(Stops(to, from, hub, luckyBack), later, startBack, back)
           n == Len(Stops(from, to, hub, luckyOut)) - 1
<1>1. outward[n].arrival \in Int /\ outward[n].arrival <= day * Day + 1590
  BY LegConnects
<1>2. homeward[1].departure \in Int /\ homeward[1].departure >= later * Day
  BY LegConnects
<1> HIDE DEF outward, homeward, n
<1>3. day * Day + 1590 < later * Day
  BY DEF Day
<1>4. outward[n].arrival < homeward[1].departure
  BY <1>1, <1>2, <1>3 DEF Day
<1> QED BY <1>4 DEF outward, homeward, n

-----------------------------------------------------------------------------
(* Bags *)

\* The ticket prints a checked bag exactly when the offer was dear enough to
\* carry one, and always prints the cabin bag (mock.py:226-230, pdf.py:160-184).
THEOREM PrintedBaggage ==
  ASSUME NEW price \in Nat, NEW refundable, NEW seats, NEW segments,
         NEW passengers, NEW contact, NEW company
  PROVE  Document(TicketData(
           Booked(Offer(price, refundable, seats, segments), passengers, contact),
           company)).baggage
         = IF price < 25000 THEN {"cabin"} ELSE {"cabin", "checked"}
<1> DEFINE sold == Offer(price, refundable, seats, segments)
           baggage == [cabin |-> Bag(8, 1), checked |-> Checked(price)]
<1>1. TicketData(Booked(sold, passengers, contact), company).baggage = baggage
  BY DEF TicketData, Booked, Offer
<1>2. Document(TicketData(Booked(sold, passengers, contact), company)).baggage
        = BaggageNote(baggage)
  BY <1>1 DEF Document
<1>3. Bunch(Bag(8, 1)) # {} /\ Bunch(Bag(20, 1)) # {} /\ Bunch(Bag(0, 0)) = {}
  <2>1. [unit |-> "kg", n |-> 8] \in Bunch(Bag(8, 1))
    BY DEF Bunch, Bag
  <2>2. [unit |-> "kg", n |-> 20] \in Bunch(Bag(20, 1))
    BY DEF Bunch, Bag
  <2>3. Bunch(Bag(0, 0)) = {}
    BY DEF Bunch, Bag
  <2> QED BY <2>1, <2>2, <2>3
<1>4. BaggageNote(baggage) = IF price < 25000 THEN {"cabin"} ELSE {"cabin", "checked"}
  <2>1. baggage["cabin"] = Bag(8, 1) /\ baggage["checked"] = Checked(price)
    OBVIOUS
  <2> QED BY <1>3, <2>1 DEF BaggageNote, Checked
<1> QED BY <1>2, <1>4
=============================================================================
