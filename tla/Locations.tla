----------------------------- MODULE Locations -----------------------------
(***************************************************************************)
(* The IATA directory: LocationsService.search in front of the provider's  *)
(* search_locations, with its answers cached in Redis for an hour and      *)
(* shared by all agents.                                                   *)
(*                                                                         *)
(*   request : idle -> get -> (provider -> set ->) done                    *)
(***************************************************************************)
EXTENDS Integers, Sequences, FiniteSets

CONSTANTS
  Requests,   \* GET /avia/locations requests
  Directory,  \* LOCATIONS: the locations, in dataset order
  Words,      \* query strings, up to their case
  Exact,      \* Exact[w]: the location whose code is w, or None
  Prefix,     \* Prefix[w]: the locations whose code starts with w
  Matches,    \* Matches[w]: the locations with w in code, name, city or country
  MaxLimit,   \* bound: the largest limit asked for
  Traffic,    \* the queries that are asked
  None

Limits  == 1..MaxLimit
\* "upper": at most three letters, all of them upper case.
Queries == [word : Words, upper : BOOLEAN, limit : Limits]

Locs == {Directory[i] : i \in DOMAIN Directory}

ASSUME LocationsAssumption ==
  /\ Directory \in Seq(Locs)
  /\ \A i, j \in DOMAIN Directory : Directory[i] = Directory[j] => i = j
  /\ \A w \in Words : Prefix[w] \subseteq Matches[w] /\ Matches[w] \subseteq Locs
  /\ \A w \in Words : Exact[w] \in Prefix[w] \cup {None}
  /\ MaxLimit \in Nat
  /\ Traffic \subseteq Queries
  /\ None \notin Locs

VARIABLES
  cache,   \* cache[k]: the answer stored under key k, or None
  pc,      \* pc[r]: the next step of request r
  query,   \* query[r]: what r asks for
  answer   \* answer[r]: the locations found for r

vars == <<cache, pc, query, answer>>

\* Faulty variant: the limit is left out of the key.
WordKey(q) == <<q.word, 1>>

\* "locations:{cleaned.lower()}:{limit}"
CacheKey(q) == <<q.word, q.limit>>

TypeOK ==
  /\ cache \in [Words \X Limits -> Seq(Locs) \cup {None}]
  /\ \A k \in Words \X Limits : cache[k] # None => Len(cache[k]) <= k[2]
  /\ pc \in [Requests -> {"idle", "get", "provider", "set", "done"}]
  /\ query \in [Requests -> Traffic \cup {None}]
  /\ answer \in [Requests -> Seq(Locs)]

Init ==
  /\ cache = [k \in Words \X Limits |-> None]
  /\ pc = [r \in Requests |-> "idle"]
  /\ query = [r \in Requests |-> None]
  /\ answer = [r \in Requests |-> <<>>]

-----------------------------------------------------------------------------
(* MockAviaProvider.search_locations *)

\* The positions of the locations in S, and the one that has n of them up to itself.
Places(S) == {i \in DOMAIN Directory : Directory[i] \in S}
Nth(S, n) == CHOOSE i \in Places(S) : Cardinality({j \in Places(S) : j <= i}) = n

\* The locations in S, in dataset order.
InOrder(S) == [n \in 1..Cardinality(Places(S)) |-> Directory[Nth(S, n)]]

\* Faulty variants: an upper-case query is not ranked; what was ranked is
\* listed again; the limit is not applied.
Unranked(w) == InOrder(Matches[w])
RankedTwice(w) ==
  (IF Exact[w] = None THEN <<>> ELSE <<Exact[w]>>) \o InOrder(Prefix[w]) \o InOrder(Matches[w])
AllOf(list, limit) == list

\* The exact code, then the codes that start with it, then the other matches.
Ranked(w) ==
  LET exact == IF Exact[w] = None THEN {} ELSE {Exact[w]} IN
  InOrder(exact) \o InOrder(Prefix[w] \ exact) \o InOrder(Matches[w] \ (Prefix[w] \cup exact))

FirstOf(list, limit) == SubSeq(list, 1, IF Len(list) < limit THEN Len(list) ELSE limit)

Lookup(q) ==
  FirstOf(IF q.upper THEN Ranked(q.word) ELSE InOrder(Matches[q.word]), q.limit)

-----------------------------------------------------------------------------
(* LocationsService.search *)

Goto(r, label) == pc' = [pc EXCEPT ![r] = label]

Ask(r, q) ==
  /\ pc[r] = "idle"
  /\ query' = [query EXCEPT ![r] = q]
  /\ Goto(r, "get")
  /\ UNCHANGED <<cache, answer>>

Hit(r) ==
  /\ pc[r] = "get"
  /\ cache[CacheKey(query[r])] # None
  /\ answer' = [answer EXCEPT ![r] = cache[CacheKey(query[r])]]
  /\ Goto(r, "done")
  /\ UNCHANGED <<cache, query>>

\* A miss, or an error of Redis that passes for one.
Miss(r) ==
  /\ pc[r] = "get"
  /\ Goto(r, "provider")
  /\ UNCHANGED <<cache, query, answer>>

AskProvider(r) ==
  /\ pc[r] = "provider"
  /\ answer' = [answer EXCEPT ![r] = Lookup(query[r])]
  /\ Goto(r, "set")
  /\ UNCHANGED <<cache, query>>

\* An error of Redis leaves the cache as it is; the answer is given anyway.
Set(r) ==
  /\ pc[r] = "set"
  /\ \/ cache' = [cache EXCEPT ![CacheKey(query[r])] = answer[r]]
     \/ UNCHANGED cache
  /\ Goto(r, "done")
  /\ UNCHANGED <<query, answer>>

\* The time to live of a key passes.
Expire(k) ==
  /\ cache[k] # None
  /\ cache' = [cache EXCEPT ![k] = None]
  /\ UNCHANGED <<pc, query, answer>>

Rest == (\A r \in Requests : pc[r] = "done") /\ UNCHANGED vars

Next ==
  \/ \E r \in Requests :
       \/ \E q \in Traffic : Ask(r, q)
       \/ Hit(r) \/ Miss(r) \/ AskProvider(r) \/ Set(r)
  \/ \E k \in Words \X Limits : Expire(k)
  \/ Rest

Spec == Init /\ [][Next]_vars

-----------------------------------------------------------------------------
Answered(r) == pc[r] = "done"

\* Whoever asked before, with whatever limit, an answer lists matches only,
\* each once, and as many of them as the limit allows (locations.py:25-63).
AnswersAreComplete ==
  \A r \in Requests : Answered(r) =>
    LET list == answer[r]
        listed == {list[i] : i \in DOMAIN list}
        w == query[r].word
    IN
    /\ listed \subseteq Matches[w]
    /\ \A i, j \in DOMAIN list : list[i] = list[j] => i = j
    /\ Len(list) = query[r].limit \/ listed = Matches[w]

ExactFirst(r) == answer[r] # <<>> /\ answer[r][1] = Exact[query[r].word]

\* Asked for an IATA code, the directory lists the location with that code
\* first (api/v1/locations.py:25 "exact IATA codes rank first"; docs/API.md:63),
\* unless the same word was asked for in lower case: the two share a cache key.
ExactCodeFirst ==
  \A r \in Requests :
    Answered(r) /\ query[r].upper /\ Exact[query[r].word] # None =>
      \/ ExactFirst(r)
      \/ \E q \in Requests :
           query[q] = [query[r] EXCEPT !.upper = FALSE] /\ pc[q] \notin {"idle", "get", "provider"}
=============================================================================
