-------------------------- MODULE LocationsProofs --------------------------
(***************************************************************************)
(* The directory: what InOrder lists, hence what the provider ranks, hence *)
(* what any request is answered, whatever others asked before it.          *)
(***************************************************************************)
EXTENDS Locations, FiniteSetTheorems, SequenceTheorems, TLAPS

-----------------------------------------------------------------------------
(* Lists *)

\* A list of the locations in S, each once.
Lists(list, S) ==
  /\ list \in Seq(Locs)
  /\ {list[i] : i \in DOMAIN list} = S
  /\ \A i, j \in DOMAIN list : list[i] = list[j] => i = j

\* How many places of S there are up to i.
UpTo(S, i) == {j \in Places(S) : j <= i}

\* The dataset is a list of locations.
LEMMA DirectoryTyped ==
  /\ Len(Directory) \in Nat
  /\ DOMAIN Directory = 1..Len(Directory)
  /\ \A i \in DOMAIN Directory : Directory[i] \in Locs
  BY LocationsAssumption DEF Locs

\* A set of locations has finitely many places.
LEMMA PlacesFinite ==
  ASSUME NEW S
  PROVE  /\ Places(S) \subseteq 1..Len(Directory)
         /\ IsFiniteSet(Places(S)) /\ Cardinality(Places(S)) \in Nat
<1>1. Places(S) \subseteq 1..Len(Directory)
  BY DirectoryTyped DEF Places
<1>2. IsFiniteSet(1..Len(Directory))
  BY DirectoryTyped, FS_Interval
<1> QED
  BY <1>1, <1>2, FS_Subset, FS_CardinalityType

\* A place has a number, and no two places have the same.
LEMMA Rank ==
  ASSUME NEW S, NEW i \in Places(S)
  PROVE  /\ Cardinality(UpTo(S, i)) \in 1..Cardinality(Places(S))
         /\ \A j \in Places(S) : Cardinality(UpTo(S, i)) = Cardinality(UpTo(S, j)) => i = j
<1> DEFINE P == Places(S)
<1>1. \A k \in P : /\ UpTo(S, k) \in SUBSET P /\ k \in UpTo(S, k)
                   /\ IsFiniteSet(UpTo(S, k)) /\ Cardinality(UpTo(S, k)) <= Cardinality(P)
  <2> SUFFICES ASSUME NEW k \in P
               PROVE  /\ UpTo(S, k) \in SUBSET P /\ k \in UpTo(S, k)
                      /\ IsFiniteSet(UpTo(S, k)) /\ Cardinality(UpTo(S, k)) <= Cardinality(P)
    OBVIOUS
  <2>1. UpTo(S, k) \in SUBSET P /\ k \in UpTo(S, k)
    BY PlacesFinite DEF UpTo
  <2> QED
    BY <2>1, PlacesFinite, FS_Subset
<1>2. Cardinality(UpTo(S, i)) \in Nat /\ Cardinality(UpTo(S, i)) # 0
  BY <1>1, FS_CardinalityType, FS_EmptySet
<1>3. ASSUME NEW a \in P, NEW b \in P, a < b
      PROVE  Cardinality(UpTo(S, a)) # Cardinality(UpTo(S, b))
  <2>1. UpTo(S, a) \in SUBSET UpTo(S, b) /\ b \notin UpTo(S, a)
    BY <1>3, PlacesFinite DEF UpTo
  <2> QED
    BY <1>1, <2>1, FS_Subset
<1>4. ASSUME NEW j \in P, Cardinality(UpTo(S, i)) = Cardinality(UpTo(S, j))
      PROVE  i = j
  <2>1. ~(i < j) /\ ~(j < i)
    BY <1>3, <1>4
  <2> QED
    BY <2>1, PlacesFinite
<1> QED
  BY <1>1, <1>2, <1>4, PlacesFinite

\* The places of S are numbered from 1 without a gap.
LEMMA Numbered ==
  ASSUME NEW S, NEW n \in 1..Cardinality(Places(S))
  PROVE  Nth(S, n) \in Places(S) /\ Cardinality(UpTo(S, Nth(S, n))) = n
<1> DEFINE P == Places(S)
           rank == [i \in P |-> Cardinality(UpTo(S, i))]
           N == 1..Cardinality(P)
<1>1. rank \in Injection(P, N)
  BY Rank DEF Injection, IsInjective
<1>2. IsFiniteSet(N) /\ Cardinality(N) = Cardinality(P)
  BY PlacesFinite, FS_Interval
<1>3. IsFiniteSet(P)
  BY PlacesFinite
<1>4. rank \in Surjection(P, N)
  <2> HIDE DEF P, N, rank
  <2> QED
    BY <1>1, <1>2, <1>3, FS_Injection
<1>5. PICK i \in P : rank[i] = n
  BY <1>4 DEF Surjection
<1>6. \E k \in Places(S) : Cardinality({j \in Places(S) : j <= k}) = n
  BY <1>5 DEF UpTo
<1> QED
  BY <1>6 DEF Nth, UpTo

\* InOrder keeps the order of the dataset.
LEMMA InOrderOrders ==
  ASSUME NEW S, NEW m \in 1..Cardinality(Places(S)), NEW n \in 1..Cardinality(Places(S)), m < n
  PROVE  Nth(S, m) < Nth(S, n)
<1>1. /\ Nth(S, m) \in Places(S) /\ Cardinality(UpTo(S, Nth(S, m))) = m
      /\ Nth(S, n) \in Places(S) /\ Cardinality(UpTo(S, Nth(S, n))) = n
      /\ Nth(S, m) \in Int /\ Nth(S, n) \in Int /\ m \in Int /\ n \in Int
  BY Numbered, PlacesFinite
<1>2. SUFFICES ASSUME Nth(S, n) <= Nth(S, m)
               PROVE  FALSE
  BY <1>1
<1>3. UpTo(S, Nth(S, n)) \in SUBSET UpTo(S, Nth(S, m)) /\ UpTo(S, Nth(S, m)) \in SUBSET Places(S)
  BY <1>1, <1>2, PlacesFinite DEF UpTo
<1>4. IsFiniteSet(UpTo(S, Nth(S, m)))
  BY <1>3, PlacesFinite, FS_Subset
<1>5. n <= m
  BY <1>1, <1>3, <1>4, FS_Subset
<1> QED
  BY <1>1, <1>5

\* InOrder lists the locations of a set, each once.
LEMMA InOrderLists ==
  ASSUME NEW S, S \subseteq Locs
  PROVE  Lists(InOrder(S), S)
<1> DEFINE P == Places(S)
           N == 1..Cardinality(P)
<1>1. /\ Cardinality(P) \in Nat
      /\ \A n \in N : Nth(S, n) \in P /\ Directory[Nth(S, n)] \in S
  BY PlacesFinite, Numbered DEF Places
<1>2. DOMAIN InOrder(S) = N /\ \A n \in N : InOrder(S)[n] = Directory[Nth(S, n)]
  BY DEF InOrder
<1>3. InOrder(S) \in Seq(Locs)
  BY <1>1 DEF InOrder
<1>4. ASSUME NEW m \in N, NEW n \in N, InOrder(S)[m] = InOrder(S)[n]
      PROVE  m = n
  <2>1. Nth(S, m) = Nth(S, n)
    BY <1>1, <1>2, <1>4, LocationsAssumption DEF Places
  <2> QED
    BY <2>1, Numbered
<1>5. ASSUME NEW l \in S
      PROVE  \E n \in N : InOrder(S)[n] = l
  <2>1. PICK i \in P : Directory[i] = l
    BY <1>5 DEF Locs, Places
  <2> DEFINE n == Cardinality(UpTo(S, i))
  <2>2. n \in N /\ Nth(S, n) = i
    BY Rank, Numbered
  <2> QED
    BY <1>2, <2>1, <2>2
<1>6. {InOrder(S)[n] : n \in N} = S
  BY <1>1, <1>2, <1>5
<1> QED
  BY <1>2, <1>3, <1>4, <1>6 DEF Lists

\* A list of one location starts with it.
LEMMA ListsOne ==
  ASSUME NEW s, NEW l, Lists(s, {l})
  PROVE  s \in Seq(Locs) /\ Len(s) \in Nat /\ 1 \in 1..Len(s) /\ s[1] = l
<1>1. s \in Seq(Locs) /\ DOMAIN s = 1..Len(s) /\ Len(s) \in Nat
  BY DEF Lists
<1>2. (\E i \in DOMAIN s : s[i] = l) /\ (\A i \in DOMAIN s : s[i] = l)
  BY DEF Lists
<1> QED
  BY <1>1, <1>2

\* Two lists that have nothing in common make one.
LEMMA Concatenated ==
  ASSUME NEW s, NEW t, NEW S, NEW T, Lists(s, S), Lists(t, T), S \cap T = {}
  PROVE  Lists(s \o t, S \cup T)
<1>1. /\ s \in Seq(Locs) /\ t \in Seq(Locs) /\ s \o t \in Seq(Locs)
      /\ Len(s) \in Nat /\ Len(t) \in Nat
      /\ DOMAIN s = 1..Len(s) /\ DOMAIN t = 1..Len(t)
      /\ DOMAIN (s \o t) = 1..(Len(s) + Len(t))
  BY DEF Lists
<1>2. /\ \A i \in 1..Len(s) : (s \o t)[i] = s[i] /\ s[i] \in S
      /\ \A i \in (Len(s) + 1)..(Len(s) + Len(t)) :
           (s \o t)[i] = t[i - Len(s)] /\ t[i - Len(s)] \in T
  BY <1>1 DEF Lists
<1>3. ASSUME NEW i \in DOMAIN (s \o t), NEW j \in DOMAIN (s \o t), (s \o t)[i] = (s \o t)[j]
      PROVE  i = j
  <2>1. CASE i <= Len(s) /\ j <= Len(s)
    BY <1>1, <1>2, <1>3, <2>1 DEF Lists
  <2>2. CASE i > Len(s) /\ j > Len(s)
    <3>1. i - Len(s) \in DOMAIN t /\ j - Len(s) \in DOMAIN t /\ t[i - Len(s)] = t[j - Len(s)]
      BY <1>1, <1>2, <1>3, <2>2
    <3>2. i - Len(s) = j - Len(s)
      BY <3>1 DEF Lists
    <3> QED
      BY <1>1, <3>2
  <2>3. CASE ~(i <= Len(s) <=> j <= Len(s))
    BY <1>1, <1>2, <1>3, <2>3
  <2> QED
    BY <1>1, <2>1, <2>2, <2>3
<1>4. ASSUME NEW l \in S \cup T
      PROVE  \E i \in DOMAIN (s \o t) : (s \o t)[i] = l
  <2>1. CASE l \in S
    <3>1. PICK i \in DOMAIN s : s[i] = l
      BY <2>1 DEF Lists
    <3> QED
      BY <1>1, <1>2, <3>1
  <2>2. CASE l \in T
    <3>1. PICK i \in DOMAIN t : t[i] = l
      BY <2>2 DEF Lists
    <3>2. Len(s) + i \in DOMAIN (s \o t) /\ (s \o t)[Len(s) + i] = t[i]
      BY <1>1, <1>2, <3>1
    <3> QED
      BY <3>1, <3>2
  <2> QED
    BY <2>1, <2>2, <1>4
<1>5. \A i \in DOMAIN (s \o t) : (s \o t)[i] \in S \cup T
  BY <1>1, <1>2
<1> QED
  BY <1>1, <1>3, <1>4, <1>5 DEF Lists

\* The first of a list are some of it, each once, and all of it unless the limit
\* is reached.
LEMMA FirstOfList ==
  ASSUME NEW s, NEW S, Lists(s, S), NEW limit \in Limits
  PROVE  /\ FirstOf(s, limit) \in Seq(Locs)
         /\ DOMAIN FirstOf(s, limit) = 1..Len(FirstOf(s, limit))
         /\ Len(FirstOf(s, limit)) = IF Len(s) < limit THEN Len(s) ELSE limit
         /\ \A i \in DOMAIN FirstOf(s, limit) : i \in DOMAIN s /\ FirstOf(s, limit)[i] = s[i]
         /\ Len(FirstOf(s, limit)) # limit => FirstOf(s, limit) = s
<1>1. limit \in Nat /\ limit >= 1 /\ s \in Seq(Locs) /\ Len(s) \in Nat /\ DOMAIN s = 1..Len(s)
  BY LocationsAssumption DEF Limits, Lists
<1> DEFINE m == IF Len(s) < limit THEN Len(s) ELSE limit
<1>2. m \in Nat /\ m <= Len(s) /\ FirstOf(s, limit) = SubSeq(s, 1, m)
  BY <1>1 DEF FirstOf
<1> HIDE DEF m
<1>3. /\ SubSeq(s, 1, m) \in Seq(Locs) /\ Len(SubSeq(s, 1, m)) = m
      /\ DOMAIN SubSeq(s, 1, m) = 1..m
      /\ \A i \in 1..m : SubSeq(s, 1, m)[i] = s[i]
  BY <1>1, <1>2
<1>4. m = Len(s) => SubSeq(s, 1, m) = s
  BY <1>1, <1>3, SeqEqual
<1>5. /\ m = IF Len(s) < limit THEN Len(s) ELSE limit
      /\ m # limit => m = Len(s)
      /\ \A i \in 1..m : i \in DOMAIN s
  BY <1>1, <1>2 DEF m
<1> QED
  BY <1>2, <1>3, <1>4, <1>5
-----------------------------------------------------------------------------
(* What the provider answers *)

\* An answer to a query: matches only, each once, all of them or as many as asked.
IsComplete(list, w, limit) ==
  LET listed == {list[i] : i \in DOMAIN list} IN
  /\ listed \subseteq Matches[w]
  /\ \A i, j \in DOMAIN list : list[i] = list[j] => i = j
  /\ Len(list) = limit \/ listed = Matches[w]

\* The list that the limit is applied to.
Found(q) == IF q.upper THEN Ranked(q.word) ELSE InOrder(Matches[q.word])

\* With or without the ranking, what is found is what matches, each once.
LEMMA FoundLists ==
  ASSUME NEW q \in Queries
  PROVE  Lists(Found(q), Matches[q.word])
<1> DEFINE w == q.word
           exact == IF Exact[w] = None THEN {} ELSE {Exact[w]}
<1>1. /\ w \in Words /\ exact \subseteq Prefix[w]
      /\ Prefix[w] \subseteq Matches[w] /\ Matches[w] \subseteq Locs
  BY LocationsAssumption DEF Queries
<1>2. Lists(InOrder(Matches[w]), Matches[w])
  BY <1>1, InOrderLists
<1>3. Lists(Ranked(w), Matches[w])
  <2> DEFINE e == InOrder(exact)
             p == InOrder(Prefix[w] \ exact)
             m == InOrder(Matches[w] \ (Prefix[w] \cup exact))
  <2>1. Lists(e, exact) /\ Lists(p, Prefix[w] \ exact) /\ Lists(m, Matches[w] \ (Prefix[w] \cup exact))
    BY <1>1, InOrderLists
  <2>2. Ranked(w) = e \o p \o m
    BY DEF Ranked
  <2> HIDE DEF e, p, m, exact, w
  <2>3. Lists(e \o p, exact \cup (Prefix[w] \ exact))
    BY <2>1, Concatenated
  <2>4. /\ exact \cup (Prefix[w] \ exact) = Prefix[w] /\ Prefix[w] \cup exact = Prefix[w]
        /\ Prefix[w] \cup (Matches[w] \ Prefix[w]) = Matches[w]
    BY <1>1
  <2>5. Lists((e \o p) \o m, Prefix[w] \cup (Matches[w] \ Prefix[w]))
    BY <2>1, <2>3, <2>4, Concatenated
  <2> QED
    BY <2>2, <2>4, <2>5
<1> QED
  BY <1>2, <1>3 DEF Found

\* The provider's answer is complete and no longer than the limit (mock.py:112-135).
LEMMA LookupComplete ==
  ASSUME NEW q \in Queries
  PROVE  /\ Lookup(q) \in Seq(Locs) /\ Len(Lookup(q)) <= q.limit
         /\ IsComplete(Lookup(q), q.word, q.limit)
<1>1. Lists(Found(q), Matches[q.word]) /\ q.limit \in Limits
  BY FoundLists DEF Queries
<1>2. Lookup(q) = FirstOf(Found(q), q.limit)
  BY DEF Lookup, Found
<1>3. /\ Lookup(q) \in Seq(Locs)
      /\ Len(Lookup(q)) = IF Len(Found(q)) < q.limit THEN Len(Found(q)) ELSE q.limit
      /\ \A i \in DOMAIN Lookup(q) : i \in DOMAIN Found(q) /\ Lookup(q)[i] = Found(q)[i]
      /\ Len(Lookup(q)) # q.limit => Lookup(q) = Found(q)
  BY <1>1, <1>2, FirstOfList
<1>4. q.limit \in Int /\ Len(Found(q)) \in Nat
  BY <1>1 DEF Limits, Lists
<1> QED
  BY <1>1, <1>3, <1>4 DEF IsComplete, Lists

\* Asked for a code in upper case, the provider lists its location first.
LEMMA LookupExact ==
  ASSUME NEW q \in Queries, q.upper, Exact[q.word] # None
  PROVE  Lookup(q) # <<>> /\ Lookup(q)[1] = Exact[q.word]
<1> DEFINE w == q.word
           e == InOrder({Exact[w]})
           p == InOrder(Prefix[w] \ {Exact[w]})
           m == InOrder(Matches[w] \ (Prefix[w] \cup {Exact[w]}))
<1>1. Exact[w] \in Locs /\ Prefix[w] \subseteq Locs /\ Matches[w] \subseteq Locs /\ q.limit \in Limits
  BY LocationsAssumption DEF Queries
<1>2. Lists(e, {Exact[w]}) /\ p \in Seq(Locs) /\ m \in Seq(Locs)
  <2>1. Lists(e, {Exact[w]})
    BY <1>1, InOrderLists
  <2>2. Lists(p, Prefix[w] \ {Exact[w]})
    BY <1>1, InOrderLists
  <2>3. Lists(m, Matches[w] \ (Prefix[w] \cup {Exact[w]}))
    BY <1>1, InOrderLists
  <2> QED
    BY <2>1, <2>2, <2>3 DEF Lists
<1>3. e \in Seq(Locs) /\ Len(e) \in Nat /\ 1 \in 1..Len(e) /\ e[1] = Exact[w]
  BY <1>2, ListsOne
<1>4. Found(q) = e \o p \o m
  BY DEF Found, Ranked
<1>5. Found(q) \in Seq(Locs) /\ Len(Found(q)) >= 1 /\ Found(q)[1] = Exact[w]
  <2> HIDE DEF e, p, m, w
  <2>1. e \o p \in Seq(Locs) /\ Len(e \o p) \in Nat /\ Len(e \o p) >= 1 /\ (e \o p)[1] = Exact[w]
    BY <1>2, <1>3
  <2> DEFINE ep == e \o p
  <2> HIDE DEF ep
  <2>2. (ep \o m) \in Seq(Locs) /\ Len(ep \o m) >= 1 /\ (ep \o m)[1] = Exact[w]
    BY <1>2, <2>1 DEF ep
  <2> QED
    BY <1>4, <2>2 DEF ep
<1>6. Lookup(q) = FirstOf(Found(q), q.limit) /\ Lists(Found(q), Matches[w])
  BY FoundLists DEF Lookup, Found
<1>7. /\ Lookup(q) \in Seq(Locs)
      /\ Len(Lookup(q)) = IF Len(Found(q)) < q.limit THEN Len(Found(q)) ELSE q.limit
      /\ DOMAIN Lookup(q) = 1..Len(Lookup(q))
      /\ \A i \in DOMAIN Lookup(q) : Lookup(q)[i] = Found(q)[i]
  BY <1>1, <1>6, FirstOfList
<1>8. q.limit >= 1 /\ q.limit \in Int /\ Len(Found(q)) \in Nat
  BY <1>1, <1>5 DEF Limits
<1>9. 1 \in DOMAIN Lookup(q) /\ Len(Lookup(q)) # 0
  BY <1>5, <1>7, <1>8
<1> QED
  BY <1>5, <1>7, <1>9

-----------------------------------------------------------------------------
(* The cache *)

Asked(q) == \E r \in Requests : query[r] = q /\ pc[r] \notin {"idle", "get", "provider"}

\* A list is what the provider answered to this word and limit: to the upper-case
\* form, or to the other one, which then was asked for.
Provided(list, k) ==
  \E q \in Queries : CacheKey(q) = k /\ list = Lookup(q) /\ (q.upper \/ Asked(q))

\* The cache holds what the provider answered, and so does a request that has been
\* answered; one about to store has its own answer.
LocationsInv ==
  /\ TypeOK
  /\ \A r \in Requests : pc[r] # "idle" => query[r] \in Traffic
  /\ \A k \in Words \X Limits : cache[k] # None => Provided(cache[k], k)
  /\ \A r \in Requests : pc[r] = "set" => answer[r] = Lookup(query[r])
  /\ \A r \in Requests : Answered(r) => Provided(answer[r], CacheKey(query[r]))

\* Every query has a key.
LEMMA KeyTyped ==
  ASSUME NEW q \in Traffic
  PROVE  q \in Queries /\ CacheKey(q) \in Words \X Limits /\ q.limit \in Int
  BY LocationsAssumption DEF CacheKey, Queries, Limits

\* What was provided stays so: a request that has asked has asked for good.
LEMMA StillProvided ==
  ASSUME TypeOK, NEW r \in Requests,
         \/ UNCHANGED pc
         \/ pc[r] = "idle" /\ pc' = [pc EXCEPT ![r] = "get"]
         \/ \E l \in {"provider", "set", "done"} : pc' = [pc EXCEPT ![r] = l],
         pc[r] \in {"set", "done"} => pc'[r] \in {"set", "done"},
         \A p \in Requests : pc[p] # "idle" => query'[p] = query[p],
         NEW list, NEW k, Provided(list, k)
  PROVE  Provided(list, k)'
<1>1. \A q \in Queries : Asked(q) => Asked(q)'
  BY DEF Asked, TypeOK
<1> QED
  BY <1>1 DEF Provided, Lookup, CacheKey

\* Through hits, misses, lost SETs and expiry, cache and answers are the provider's.
LEMMA LocationsInvariant == Spec => []LocationsInv
<1>1. Init => LocationsInv
  BY LocationsAssumption DEF Init, LocationsInv, TypeOK, Answered
<1>2. ASSUME LocationsInv, [Next]_vars PROVE LocationsInv'
  <2>t. TypeOK
    BY <1>2 DEF LocationsInv
  <2>1. ASSUME NEW r \in Requests, NEW q \in Traffic, Ask(r, q)
        PROVE  LocationsInv'
    <3>1. \A list, k : Provided(list, k) => Provided(list, k)'
      BY <2>1, <2>t, StillProvided DEF Ask, Goto, TypeOK
    <3>2. TypeOK'
      BY <2>1, <2>t DEF Ask, Goto, TypeOK
    <3>3. \A p \in Requests : p # r => query'[p] = query[p] /\ pc'[p] = pc[p] /\ answer'[p] = answer[p]
      BY <2>1, <2>t DEF Ask, Goto, TypeOK
    <3>4. query'[r] = q /\ pc'[r] = "get" /\ cache' = cache
      BY <2>1, <2>t DEF Ask, Goto, TypeOK
    <3> QED
      BY <1>2, <3>1, <3>2, <3>3, <3>4 DEF LocationsInv, Answered, CacheKey, Lookup
  <2>2. ASSUME NEW r \in Requests, Hit(r)
        PROVE  LocationsInv'
    <3> DEFINE k0 == CacheKey(query[r])
    <3>0. query[r] \in Traffic /\ k0 \in Words \X Limits /\ cache[k0] # None /\ cache[k0] \in Seq(Locs)
      <4>1. query[r] \in Traffic
        BY <1>2, <2>2 DEF LocationsInv, Hit
      <4> QED
        BY <4>1, <2>2, <2>t, KeyTyped DEF TypeOK, Hit
    <3>1. \A list, k : Provided(list, k) => Provided(list, k)'
      BY <2>2, <2>t, StillProvided DEF Hit, Goto
    <3>2. TypeOK'
      BY <2>2, <2>t, <3>0 DEF Hit, Goto, TypeOK
    <3>3. \A p \in Requests : p # r => pc'[p] = pc[p] /\ answer'[p] = answer[p]
      BY <2>2, <2>t DEF Hit, Goto, TypeOK
    <3>4. /\ pc'[r] = "done" /\ answer'[r] = cache[k0] /\ cache' = cache /\ query' = query
      BY <2>2, <2>t DEF Hit, Goto, TypeOK
    <3>5. Provided(answer[r], k0)'
      BY <1>2, <3>0, <3>1, <3>4 DEF LocationsInv
    <3> QED
      BY <1>2, <3>0, <3>1, <3>2, <3>3, <3>4, <3>5 DEF LocationsInv, Answered, CacheKey, Lookup
  <2>3. ASSUME NEW r \in Requests, Miss(r)
        PROVE  LocationsInv'
    <3>1. \A list, k : Provided(list, k) => Provided(list, k)'
      BY <2>3, <2>t, StillProvided DEF Miss, Goto
    <3>2. TypeOK'
      BY <2>3, <2>t DEF Miss, Goto, TypeOK
    <3>3. /\ pc[r] = "get" /\ pc'[r] = "provider" /\ UNCHANGED <<cache, query, answer>>
          /\ \A p \in Requests : p # r => pc'[p] = pc[p]
      BY <2>3, <2>t DEF Miss, Goto, TypeOK
    <3> QED
      BY <1>2, <3>1, <3>2, <3>3 DEF LocationsInv, Answered, CacheKey, Lookup
  <2>4. ASSUME NEW r \in Requests, AskProvider(r)
        PROVE  LocationsInv'
    <3>0. query[r] \in Traffic /\ Lookup(query[r]) \in Seq(Locs)
      <4>1. query[r] \in Traffic
        BY <1>2, <2>4 DEF LocationsInv, AskProvider
      <4> QED
        BY <4>1, KeyTyped, LookupComplete
    <3>1. \A list, k : Provided(list, k) => Provided(list, k)'
      BY <2>4, <2>t, StillProvided DEF AskProvider, Goto
    <3>2. TypeOK'
      BY <2>4, <2>t, <3>0 DEF AskProvider, Goto, TypeOK
    <3>3. /\ \A p \in Requests : p # r => pc'[p] = pc[p] /\ answer'[p] = answer[p]
          /\ UNCHANGED <<cache, query>> /\ pc'[r] = "set" /\ answer'[r] = Lookup(query[r])
          /\ pc[r] # "idle"
      BY <2>4, <2>t DEF AskProvider, Goto, TypeOK
    <3> QED
      BY <1>2, <3>1, <3>2, <3>3 DEF LocationsInv, Answered, CacheKey, Lookup
  <2>5. ASSUME NEW r \in Requests, Set(r)
        PROVE  LocationsInv'
    <3> DEFINE k0 == CacheKey(query[r])
    <3>0. /\ query[r] \in Traffic /\ query[r] \in Queries /\ k0 \in Words \X Limits
          /\ answer[r] = Lookup(query[r])
      <4>1. query[r] \in Traffic /\ answer[r] = Lookup(query[r])
        BY <1>2, <2>5 DEF LocationsInv, Set
      <4> QED
        BY <4>1, KeyTyped
    <3>1. \A list, k : Provided(list, k) => Provided(list, k)'
      <4>1. pc'[r] = "done"
        BY <2>5, <2>t DEF Set, Goto, TypeOK
      <4> QED
        BY <2>5, <2>t, <4>1, StillProvided DEF Set, Goto
    <3>2. TypeOK'
      <4>1. answer[r] \in Seq(Locs) /\ Len(answer[r]) <= k0[2]
        BY <3>0, LookupComplete DEF CacheKey
      <4> QED
        BY <2>5, <2>t, <3>0, <4>1 DEF Set, Goto, TypeOK
    <3>3. /\ \A p \in Requests : p # r => pc'[p] = pc[p]
          /\ UNCHANGED <<query, answer>> /\ pc[r] = "set" /\ pc'[r] = "done"
          /\ \A k \in Words \X Limits : cache'[k] = cache[k] \/ (k = k0 /\ cache'[k] = answer[r])
      <4>1. /\ \A p \in Requests : p # r => pc'[p] = pc[p]
            /\ UNCHANGED <<query, answer>> /\ pc[r] = "set" /\ pc'[r] = "done"
        BY <2>5, <2>t DEF Set, Goto, TypeOK
      <4>2. cache' = [cache EXCEPT ![k0] = answer[r]] \/ cache' = cache
        BY <2>5 DEF Set
      <4> HIDE DEF k0
      <4>3. \A k \in Words \X Limits : cache'[k] = cache[k] \/ (k = k0 /\ cache'[k] = answer[r])
        BY <2>t, <4>2 DEF TypeOK
      <4> QED
        BY <4>1, <4>3
    <3>4. Provided(answer[r], k0)'
      <4>1. Asked(query[r])'
        BY <3>3 DEF Asked
      <4> QED
        BY <4>1, <3>0, <3>3 DEF Provided, CacheKey, Lookup
    <3> QED
      BY <1>2, <3>0, <3>1, <3>2, <3>3, <3>4 DEF LocationsInv, Answered, CacheKey, Lookup
  <2>6. ASSUME NEW k0 \in Words \X Limits, Expire(k0)
        PROVE  LocationsInv'
    <3>1. TypeOK'
      BY <2>6, <2>t DEF Expire, TypeOK
    <3>2. /\ \A k \in Words \X Limits : cache'[k] = cache[k] \/ cache'[k] = None
          /\ UNCHANGED <<pc, query, answer>>
      BY <2>6, <2>t DEF Expire, TypeOK
    <3> QED
      BY <1>2, <3>1, <3>2 DEF LocationsInv, Answered, CacheKey, Lookup, Provided, Asked
  <2>7. CASE UNCHANGED vars
    BY <1>2, <2>7 DEF vars, LocationsInv, TypeOK, Answered, Provided, Asked, CacheKey, Lookup
  <2> QED
    BY <1>2, <2>1, <2>2, <2>3, <2>4, <2>5, <2>6, <2>7 DEF Next, Rest
<1> QED
  BY <1>1, <1>2, PTL DEF Spec

\* The cache and the requests have their types; no list stored under a key is longer
\* than the limit in that key (locations.py:32).
THEOREM TypeCorrect == Spec => []TypeOK
<1>1. LocationsInv => TypeOK
  BY DEF LocationsInv
<1> QED
  BY <1>1, LocationsInvariant, PTL

\* Whatever was asked before and by whom, with whatever case and limit, an answer
\* lists matches only, each once, as many as there are or as the limit allows: the
\* key of the cache tells apart what must be told apart (locations.py:25-63).
THEOREM Complete == Spec => []AnswersAreComplete
<1>1. ASSUME LocationsInv PROVE AnswersAreComplete
  <2> SUFFICES ASSUME NEW r \in Requests, Answered(r)
               PROVE  IsComplete(answer[r], query[r].word, query[r].limit)
    BY DEF AnswersAreComplete, IsComplete
  <2>1. PICK q \in Queries : CacheKey(q) = CacheKey(query[r]) /\ answer[r] = Lookup(q)
    BY <1>1 DEF LocationsInv, Provided
  <2>2. q.word = query[r].word /\ q.limit = query[r].limit
    BY <2>1 DEF CacheKey
  <2> QED
    BY <2>1, <2>2, LookupComplete
<1> QED
  BY <1>1, LocationsInvariant, PTL

\* An IATA code in upper case finds the location with that code first, unless the
\* same word was asked for in lower case too (api/v1/locations.py:25): the only way
\* to another order is the shared key.
THEOREM ExactFirstUnlessShared == Spec => []ExactCodeFirst
<1>1. ASSUME LocationsInv PROVE ExactCodeFirst
  <2> SUFFICES ASSUME NEW r \in Requests, Answered(r), query[r].upper,
                      Exact[query[r].word] # None, ~ExactFirst(r)
               PROVE  \E p \in Requests :
                        /\ query[p] = [query[r] EXCEPT !.upper = FALSE]
                        /\ pc[p] \notin {"idle", "get", "provider"}
    BY DEF ExactCodeFirst
  <2>1. PICK q \in Queries : /\ CacheKey(q) = CacheKey(query[r]) /\ answer[r] = Lookup(q)
                             /\ q.upper \/ Asked(q)
    BY <1>1 DEF LocationsInv, Provided
  <2>2. q.word = query[r].word /\ q.limit = query[r].limit
    BY <2>1 DEF CacheKey
  <2>3. query[r] \in Queries
    BY <1>1, KeyTyped DEF LocationsInv, Answered
  <2>4. ~q.upper
    BY <2>1, <2>2, LookupExact DEF ExactFirst
  <2>5. q = [query[r] EXCEPT !.upper = FALSE]
    BY <2>2, <2>3, <2>4 DEF Queries
  <2> QED
    BY <2>1, <2>4, <2>5 DEF Asked
<1> QED
  BY <1>1, LocationsInvariant, PTL
=============================================================================
