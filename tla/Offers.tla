------------------------------- MODULE Offers -------------------------------
(***************************************************************************)
(* Offers between the search that lists them and the order that books      *)
(* them: the search parameters MockAviaProvider remembers, the details     *)
(* SearchService.get_offer_detail caches in Redis, and the offer           *)
(* BookingService._load_offer asks the provider for anew.                  *)
(*                                                                         *)
(*   client : idle -> get -> (provider -> set ->) seen -> booked | refused *)
(*                                                                         *)
(* All offers of one search share its seed and its fate: an offer is       *)
(* named by its seed.                                                      *)
(***************************************************************************)
EXTENDS Integers, FiniteSets

CONSTANTS
  Clients,    \* agents that look at an offer and then book it
  Seeds,      \* seeds of the searches that are made
  MaxSeeds,   \* _MAX_REMEMBERED_SEEDS
  TTL,        \* search_session_ttl_seconds, in ticks
  Lag,        \* bound: the longest a detail takes from the provider to Redis
  Horizon,    \* bound on the clock
  None

ASSUME OffersAssumption ==
  /\ MaxSeeds \in Nat \ {0} /\ TTL \in Nat \ {0} /\ Lag \in Nat /\ Horizon \in Nat
  /\ IsFiniteSet(Seeds)
  /\ None \notin Seeds

VARIABLES
  now,      \* the clock
  seeds,    \* MockAviaProvider._seeds, in the memory of the API process
  cache,    \* cache[s]: "offer:{offer_id}" of Redis, or None
  found,    \* history: the seeds of all finished searches
  latest,   \* history: the seed of the last search this process finished, or None
  pc,       \* pc[c]: where client c is
  offer,    \* offer[c]: the offer c looks at
  shown,    \* shown[c]: the offer_expires_at in c's hands
  at        \* at[c]: when c got its last answer

vars == <<now, seeds, cache, found, latest, pc, offer, shown, at>>
client == <<pc, offer, shown, at>>

Times   == 0..(Horizon + TTL)
Entries == [expires : Times, until : Times]

Init ==
  /\ now = 0
  /\ seeds = {} /\ found = {} /\ latest = None
  /\ cache = [s \in Seeds |-> None]
  /\ pc = [c \in Clients |-> "idle"]
  /\ offer = [c \in Clients |-> None]
  /\ shown = [c \in Clients |-> 0]
  /\ at = [c \in Clients |-> 0]

Goto(c, label) == pc' = [pc EXCEPT ![c] = label]

-----------------------------------------------------------------------------
(* MockAviaProvider *)

\* Faulty variants: one seed too many; the new seed is cleared with the others.
OneTooMany(s) == (IF Cardinality(seeds) > MaxSeeds THEN {} ELSE seeds) \cup {s}
ThenClear(s) == IF Cardinality(seeds) >= MaxSeeds THEN {} ELSE seeds \cup {s}

\* A full map is emptied first, even if s is in it.
Remembered(s) == (IF Cardinality(seeds) >= MaxSeeds THEN {} ELSE seeds) \cup {s}

\* A background search ends: its offers may now be asked for.
FinishSearch(s) ==
  /\ seeds' = Remembered(s)
  /\ found' = found \cup {s}
  /\ latest' = s
  /\ UNCHANGED <<now, cache, client>>

\* Faulty variant: the offer set is rebuilt from any well-formed identifier.
AnySeed(s) == TRUE

\* get_offer_detail rebuilds the offers of a seed it remembers.
Rebuilds(s) == s \in seeds

\* The offer_expires_at of a detail built now.
Expiry == now + TTL

-----------------------------------------------------------------------------
(* SearchService.get_offer_detail *)

Get(c, s) ==
  /\ pc[c] = "idle"
  /\ offer' = [offer EXCEPT ![c] = s]
  /\ Goto(c, "get")
  /\ UNCHANGED <<now, seeds, cache, found, latest, shown, at>>

Show(c, expires) ==
  /\ shown' = [shown EXCEPT ![c] = expires]
  /\ at' = [at EXCEPT ![c] = now]
  /\ Goto(c, "seen")

Hit(c) ==
  LET entry == cache[offer[c]] IN
  /\ pc[c] = "get"
  /\ entry # None /\ now < entry.until
  /\ Show(c, entry.expires)
  /\ UNCHANGED <<now, seeds, cache, found, latest, offer>>

\* A miss, or an error of Redis that passes for one.
Miss(c) ==
  /\ pc[c] = "get"
  /\ Goto(c, "provider")
  /\ UNCHANGED <<now, seeds, cache, found, latest, offer, shown, at>>

AskProvider(c) ==
  /\ pc[c] = "provider"
  /\ Rebuilds(offer[c])
  /\ shown' = [shown EXCEPT ![c] = Expiry]
  /\ Goto(c, "set")
  /\ UNCHANGED <<now, seeds, cache, found, latest, offer, at>>

\* 404: the client may try again.
NotFound(c) ==
  /\ pc[c] = "provider"
  /\ ~Rebuilds(offer[c])
  /\ Goto(c, "idle")
  /\ UNCHANGED <<now, seeds, cache, found, latest, offer, shown, at>>

\* Faulty variant: the time to live of another cache.
LongEntry(c) == [expires |-> shown[c], until |-> now + 2 * TTL]

Entry(c) == [expires |-> shown[c], until |-> now + TTL]

\* An error of Redis leaves the cache as it is; the answer is given anyway.
Set(c) ==
  /\ pc[c] = "set"
  /\ \/ cache' = [cache EXCEPT ![offer[c]] = Entry(c)]
     \/ UNCHANGED cache
  /\ Show(c, shown[c])
  /\ UNCHANGED <<now, seeds, found, latest, offer>>

-----------------------------------------------------------------------------
(* BookingService._load_offer: the offer is asked for anew, past the cache *)

\* The price and the expiry are those of a detail built for this order.
Verdict(c) ==
  CASE ~Rebuilds(offer[c]) -> "unknown"                \* 404
    [] Rebuilds(offer[c]) /\ Expiry <= now -> "gone"   \* 410
    [] OTHER -> "booked"                               \* 201

Book(c) ==
  /\ pc[c] = "seen"
  /\ Goto(c, Verdict(c))
  /\ at' = [at EXCEPT ![c] = now]
  /\ UNCHANGED <<now, seeds, cache, found, latest, offer, shown>>

-----------------------------------------------------------------------------
\* The API process restarts: its memory is gone, requests under way are cut.
Restart ==
  /\ seeds' = {} /\ latest' = None
  /\ pc' = [c \in Clients |-> IF pc[c] \in {"get", "provider", "set"} THEN "idle" ELSE pc[c]]
  /\ UNCHANGED <<now, cache, found, offer, shown, at>>

\* No detail takes longer than Lag from the provider to the client.
Tick ==
  /\ now < Horizon
  /\ \A c \in Clients : pc[c] = "set" => now < shown[c] - TTL + Lag
  /\ now' = now + 1
  /\ UNCHANGED <<seeds, cache, found, latest, client>>

Next ==
  \/ \E s \in Seeds : FinishSearch(s)
  \/ \E c \in Clients :
       \/ \E s \in Seeds : Get(c, s)
       \/ Hit(c) \/ Miss(c) \/ AskProvider(c) \/ NotFound(c) \/ Set(c) \/ Book(c)
  \/ Restart
  \/ Tick

Spec == Init /\ [][Next]_vars

-----------------------------------------------------------------------------
Labels == {"idle", "get", "provider", "set", "seen", "booked", "unknown", "gone"}

\* Types, and the size of the provider's map (mock.py:167-170).
TypeOK ==
  /\ now \in 0..Horizon
  /\ seeds \subseteq Seeds /\ Cardinality(seeds) <= MaxSeeds
  /\ cache \in [Seeds -> Entries \cup {None}]
  /\ found \subseteq Seeds
  /\ latest \in Seeds \cup {None}
  /\ pc \in [Clients -> Labels]
  /\ offer \in [Clients -> Seeds \cup {None}]
  /\ \A c \in Clients : pc[c] # "idle" => offer[c] # None
  /\ shown \in [Clients -> Times]
  /\ at \in [Clients -> 0..Horizon]

\* The map is emptied at its limit, but never of the search that has just
\* ended: its offers can be looked at and booked (mock.py:147, 167-170).
LatestIsKnown == latest # None => Rebuilds(latest)

\* Redis never keeps a detail alive past its own offer_expires_at by more than
\* the time it took to get there (search.py:136-170).
ShownIsOpen == \A c \in Clients : pc[c] = "seen" => at[c] <= shown[c] + Lag

\* Whatever restarts and caches do, only an offer some search has found is
\* shown or booked (search.py:163-164, booking.py:145-146).
OnlyFoundIsSold ==
  \A c \in Clients : pc[c] \in {"seen", "booked"} => offer[c] \in found
=============================================================================
