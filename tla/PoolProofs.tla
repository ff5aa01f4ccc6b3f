------------------------------ MODULE PoolProofs ------------------------------
(***************************************************************************)
(* Theorems about module Pool, for every number of requests and every pool *)
(* size.  All that the proofs know of the operations is lemma PlanFacts.   *)
(***************************************************************************)
EXTENDS Pool, FiniteSetTheorems, TLAPS

-----------------------------------------------------------------------------
(* The plans *)

Nested == {"read", "write", "note"}

\* How many steps of its plan an operation has behind it when its session
\* holds a connection.
OwnAt == [
  view    |-> {1},
  book    |-> {1, 3},
  issue   |-> {1, 3},
  reject  |-> {1, 3},
  content |-> {1, 2},
  search  |-> {1, 2},
  poll    |-> {1, 2, 3},
  task    |-> {},
  ready   |-> {}]

\* What the invariants need to know of each operation's plan: after a statement
\* the session holds a connection, beside it only content operations open a
\* second session, and only bookings and issues go on after they have written.
LEMMA PlanFacts ==
  ASSUME NEW k \in Kinds
  PROVE  /\ Len(Plan[k]) \in 0 .. 6
         /\ \A i \in 0 .. 6 : i < Len(Plan[k]) =>
              /\ Plan[k][i + 1] \in Steps
              /\ Plan[k][i + 1] = "own" => i + 1 \in OwnAt[k]
              /\ i \in OwnAt[k] /\ Plan[k][i + 1] \in Nested
                   => i + 1 \in OwnAt[k] /\ k \in Nesting
              /\ Plan[k][i + 1] \in {"commit", "write"}
                   => k \in {"book", "issue"} \/ i + 1 = Len(Plan[k])
<1>1. CASE k = "view"
  BY <1>1 DEF Plan, ViewSteps, Steps, OwnAt, Nested, Nesting
<1>2. CASE k = "book"
  BY <1>2 DEF Plan, BookSteps, Steps, OwnAt, Nested, Nesting
<1>3. CASE k = "issue"
  BY <1>3 DEF Plan, IssueSteps, Steps, OwnAt, Nested, Nesting
<1>4. CASE k = "reject"
  BY <1>4 DEF Plan, RejectSteps, Steps, OwnAt, Nested, Nesting
<1>5. CASE k = "content"
  BY <1>5 DEF Plan, ContentSteps, Steps, OwnAt, Nested, Nesting
<1>6. CASE k = "search"
  BY <1>6 DEF Plan, SearchSteps, Steps, OwnAt, Nested, Nesting
<1>7. CASE k = "poll"
  BY <1>7 DEF Plan, PollSteps, Steps, OwnAt, Nested, Nesting
<1>8. CASE k = "task"
  BY <1>8 DEF Plan, TaskSteps, Steps, OwnAt, Nested, Nesting
<1>9. CASE k = "ready"
  BY <1>9 DEF Plan, ReadySteps, Steps, OwnAt, Nested, Nesting
<1> QED BY <1>1, <1>2, <1>3, <1>4, <1>5, <1>6, <1>7, <1>8, <1>9 DEF Kinds, Plan

-----------------------------------------------------------------------------
(* Type correctness *)

\* The facts about a running request that every step needs.
LEMMA NowFacts ==
  ASSUME TypeOK, NEW r \in Requests, Left(r)
  PROVE  /\ kind[r] \in Kinds
         /\ at[r] \in 0 .. 5
         /\ at[r] + 1 <= Len(Plan[kind[r]])
         /\ Now(r) \in Steps
<1>1. kind[r] \in Kinds /\ at[r] \in 0 .. 6
  BY DEF TypeOK
<1>2. Len(Plan[kind[r]]) \in 0 .. 6 /\ at[r] < Len(Plan[kind[r]])
  BY <1>1, PlanFacts DEF Left
<1>3. Plan[kind[r]][at[r] + 1] \in Steps
  BY <1>1, <1>2, PlanFacts
<1> QED BY <1>1, <1>2, <1>3 DEF Now

\* The connections in use are finitely many.
LEMMA HeldIsFinite ==
  ASSUME TypeOK
  PROVE  IsFiniteSet(held) /\ Cardinality(held) \in 0 .. PoolSize
<1>1. IsFiniteSet({"own", "extra"})
  BY FS_EmptySet, FS_AddElement, {"own", "extra"} = ({} \cup {"own"}) \cup {"extra"}
<1>2. IsFiniteSet(Requests \X {"own", "extra"})
  BY <1>1, PoolAssumption, FS_Product
<1>3. IsFiniteSet(held)
  BY <1>2, FS_Subset DEF TypeOK
<1> QED BY <1>3, FS_CardinalityType, PoolAssumption DEF TypeOK

\* Returning a connection frees at most what was held.
LEMMA FewerHeld ==
  ASSUME TypeOK, NEW S, S \subseteq held
  PROVE  S \subseteq Requests \X {"own", "extra"} /\ Cardinality(S) <= PoolSize
<1>1. IsFiniteSet(S) /\ Cardinality(S) <= Cardinality(held)
  BY HeldIsFinite, FS_Subset
<1>2. Cardinality(S) \in Nat
  BY <1>1, FS_CardinalityType
<1> QED BY <1>1, <1>2, HeldIsFinite, PoolAssumption DEF TypeOK

\* A checkout finds room.
LEMMA OneMoreHeld ==
  ASSUME TypeOK, ~Full, NEW h \in Requests \X {"own", "extra"}
  PROVE  /\ held \cup {h} \subseteq Requests \X {"own", "extra"}
         /\ Cardinality(held \cup {h}) <= PoolSize
<1>1. Cardinality(held) + 1 <= PoolSize
  BY HeldIsFinite, PoolAssumption DEF Full
<1>2. Cardinality(held \cup {h}) = Cardinality(held)
        \/ Cardinality(held \cup {h}) = Cardinality(held) + 1
  BY HeldIsFinite, FS_AddElement
<1> QED BY <1>1, <1>2, HeldIsFinite, PoolAssumption DEF TypeOK

\* Going on keeps within the plan.
LEMMA GoesType ==
  ASSUME TypeOK, NEW r \in Requests, Left(r), Goes(r), kind' = kind
  PROVE  /\ at' \in [Requests -> 0 .. 6]
         /\ \A q \in Requests : at'[q] <= Len(Plan[kind'[q]])
<1>1. at[r] \in 0 .. 5 /\ at[r] + 1 <= Len(Plan[kind[r]])
  BY NowFacts
<1>2. at' = [at EXCEPT ![r] = at[r] + 1] /\ at \in [Requests -> 0 .. 6]
  BY DEF Goes, TypeOK
<1>3. at' \in [Requests -> 0 .. 6]
  BY <1>1, <1>2
<1>4. ASSUME NEW q \in Requests
      PROVE  at'[q] <= Len(Plan[kind'[q]])
  BY <1>1, <1>2 DEF TypeOK
<1> QED BY <1>3, <1>4

\* Every step keeps the types and the size of the pool.
LEMMA TypeStep ==
  ASSUME TypeOK, [Next]_vars
  PROVE  TypeOK'
<1>1. CASE UNCHANGED vars
  BY <1>1 DEF vars, TypeOK
<1>2. ASSUME NEW r \in Requests, CheckOut(r)
      PROVE  TypeOK'
  <2>1. Left(r) /\ ~Full /\ kind' = kind /\ wrote' = wrote /\ answer' = answer
    BY <1>2 DEF CheckOut, TakesOne, Waits, At
  <2>2. CASE Now(r) = "own"
    <3>1. held' = held \cup {Own(r)} /\ Goes(r)
      BY <1>2, <2>2 DEF CheckOut, TakesOne
    <3>2. Own(r) \in Requests \X {"own", "extra"}
      BY DEF Own
    <3> QED BY <2>1, <3>1, <3>2, OneMoreHeld, GoesType DEF TypeOK
  <2>3. CASE Now(r) # "own"
    <3>1. held' = held \cup {Extra(r)} /\ at' = at
      BY <1>2, <2>3 DEF CheckOut, TakesOne
    <3>2. Extra(r) \in Requests \X {"own", "extra"}
      BY DEF Extra
    <3> QED BY <2>1, <3>1, <3>2, OneMoreHeld DEF TypeOK
  <2> QED BY <2>2, <2>3
<1>3. ASSUME NEW r \in Requests, EndTransaction(r)
      PROVE  TypeOK'
  <2>1. Left(r) /\ Goes(r) /\ kind' = kind /\ held' \subseteq held
    BY <1>3 DEF EndTransaction, At
  <2>2. wrote' \subseteq Requests /\ answer' = answer
    BY <1>3 DEF EndTransaction, TypeOK
  <2> QED BY <2>1, <2>2, GoesType, FewerHeld DEF TypeOK
<1>4. ASSUME NEW r \in Requests, CheckIn(r)
      PROVE  TypeOK'
  <2>1. Left(r) /\ Goes(r) /\ kind' = kind /\ held' \subseteq held
    BY <1>4 DEF CheckIn, At
  <2>2. wrote' \subseteq Requests /\ answer' = answer
    BY <1>4 DEF CheckIn, TypeOK
  <2> QED BY <2>1, <2>2, GoesType, FewerHeld DEF TypeOK
<1>5. ASSUME NEW r \in Requests, Expire(r)
      PROVE  TypeOK'
  <2>1. Left(r) /\ kind' = kind /\ wrote' = wrote
    BY <1>5 DEF Expire, Waits, At
  <2>2. CASE Now(r) = "note"
    <3>1. Goes(r) /\ held' = held /\ answer' = answer
      BY <1>5, <2>2 DEF Expire
    <3> QED BY <2>1, <3>1, GoesType DEF TypeOK
  <2>3. CASE Now(r) # "note"
    <3>1. End(r, "error") /\ at' = at
      BY <1>5, <2>3 DEF Expire
    <3>2. held' \subseteq held
      BY <3>1 DEF End
    <3> QED BY <2>1, <3>1, <3>2, FewerHeld DEF End, TypeOK
  <2> QED BY <2>2, <2>3
<1>6. ASSUME NEW r \in Requests, Respond(r)
      PROVE  TypeOK'
  <2>1. held' \subseteq held
    BY <1>6 DEF Respond, End
  <2> QED BY <1>6, <2>1, FewerHeld DEF Respond, End, TypeOK
<1> QED BY <1>1, <1>2, <1>3, <1>4, <1>5, <1>6 DEF Next, Step, Finished

-----------------------------------------------------------------------------
(* Who holds what *)

\* A second connection is held only at the step that uses it.
ExtraInUse == \A r \in Requests : Extra(r) \in held => At(r, Nested)

\* A session holds a connection only while its request runs, after a statement
\* and before the commit that follows.
OwnInUse ==
  \A r \in Requests :
    Own(r) \in held => answer[r] = "none" /\ at[r] \in OwnAt[kind[r]]

\* Who has written and is not a booking or an issue has no step left, and
\* cannot fail any more.
WrittenIsDone ==
  \A r \in wrote :
    \/ kind[r] \in {"book", "issue"}
    \/ ~Left(r) /\ answer[r] # "error"

Inductive == TypeOK /\ ExtraInUse /\ OwnInUse /\ WrittenIsDone

\* A step of one request leaves the connections of the others alone.
LEMMA HoldingsStep ==
  ASSUME Inductive, [Next]_vars
  PROVE  ExtraInUse' /\ OwnInUse'
<1> USE DEF Inductive
<1>0. \A r, q : /\ Own(r) # Extra(q)
                /\ Own(r) = Own(q) => r = q
                /\ Extra(r) = Extra(q) => r = q
  BY DEF Own, Extra
<1>1. CASE UNCHANGED vars
  BY <1>1 DEF vars, ExtraInUse, OwnInUse, At, Left, Now
<1>2. ASSUME NEW r \in Requests, Step(r), NEW q \in Requests, q # r
      PROVE  /\ kind'[q] = kind[q] /\ at'[q] = at[q] /\ answer'[q] = answer[q]
             /\ Own(q) \in held' <=> Own(q) \in held
             /\ Extra(q) \in held' <=> Extra(q) \in held
  BY <1>0, <1>2 DEF Step, CheckOut, TakesOne, EndTransaction, CheckIn, Expire,
     Respond, End, Goes, TypeOK
<1>3. ASSUME NEW r \in Requests, Step(r)
      PROVE  Extra(r) \in held' => At(r, Nested)'
  <2>1. CASE CheckOut(r)
    BY <2>1, <1>0 DEF CheckOut, TakesOne, Waits, At, Left, Now, Nested, ExtraInUse, TypeOK
  <2>2. CASE EndTransaction(r)
    BY <2>2 DEF EndTransaction, At, Nested, ExtraInUse
  <2>3. CASE CheckIn(r)
    BY <2>3, <1>0 DEF CheckIn
  <2>4. CASE Expire(r)
    BY <2>4, <1>0 DEF Expire, Waits, At, Nested, ExtraInUse, End
  <2>5. CASE Respond(r)
    BY <2>5, <1>0 DEF Respond, At, ExtraInUse, End
  <2> QED BY <1>3, <2>1, <2>2, <2>3, <2>4, <2>5 DEF Step
<1>4. ASSUME NEW r \in Requests, Step(r), Own(r) \in held'
      PROVE  answer'[r] = "none" /\ at'[r] \in OwnAt[kind'[r]]
  <2>0. kind[r] \in Kinds /\ at[r] \in 0 .. 6 /\ kind' = kind
    BY <1>4 DEF TypeOK, Step, CheckOut, EndTransaction, CheckIn,
       Expire, Respond
  <2>1. /\ Left(r) /\ Now(r) = "own" => at[r] + 1 \in OwnAt[kind[r]]
        /\ Left(r) /\ at[r] \in OwnAt[kind[r]] /\ Now(r) \in Nested
             => at[r] + 1 \in OwnAt[kind[r]]
    BY <2>0, PlanFacts DEF Left, Now
  <2>2. Goes(r) => at'[r] = at[r] + 1
    BY DEF Goes, TypeOK
  <2>3. CASE CheckOut(r)
    BY <2>0, <2>1, <2>2, <2>3, <1>0, <1>4
       DEF CheckOut, TakesOne, Waits, At, OwnInUse
  <2>4. CASE EndTransaction(r)
    BY <2>4, <1>4 DEF EndTransaction
  <2>5. CASE CheckIn(r)
    BY <2>0, <2>1, <2>2, <2>5, <1>0, <1>4 DEF CheckIn, At, OwnInUse, Nested
  <2>6. CASE Expire(r)
    BY <2>0, <2>1, <2>2, <2>6, <1>4 DEF Expire, Waits, At, OwnInUse, Nested, End
  <2>7. CASE Respond(r)
    BY <2>7, <1>4 DEF Respond, End
  <2> QED BY <1>4, <2>3, <2>4, <2>5, <2>6, <2>7 DEF Step
<1>5. ASSUME NEW r \in Requests, Step(r)
      PROVE  ExtraInUse' /\ OwnInUse'
  <2>1. ASSUME NEW q \in Requests, Extra(q) \in held'
        PROVE  At(q, Nested)'
    BY <1>2, <1>3, <1>5, <2>1 DEF ExtraInUse, At, Left, Now
  <2>2. ASSUME NEW q \in Requests, Own(q) \in held'
        PROVE  answer'[q] = "none" /\ at'[q] \in OwnAt[kind'[q]]
    BY <1>2, <1>4, <1>5, <2>2 DEF OwnInUse
  <2> QED BY <2>1, <2>2 DEF ExtraInUse, OwnInUse
<1> QED BY <1>1, <1>5 DEF Next, Finished

\* Every step keeps what is known of a request that has written.
LEMMA WrittenStep ==
  ASSUME Inductive, [Next]_vars
  PROVE  WrittenIsDone'
<1> USE DEF Inductive
<1>1. CASE UNCHANGED vars
  BY <1>1 DEF vars, WrittenIsDone, Left
<1>2. ASSUME NEW r \in Requests, Step(r)
      PROVE  WrittenIsDone'
  <2> SUFFICES ASSUME NEW q \in wrote'
               PROVE  \/ kind'[q] \in {"book", "issue"}
                      \/ ~Left(q)' /\ answer'[q] # "error"
    BY DEF WrittenIsDone
  <2>0. kind' = kind
    BY <1>2 DEF Step, CheckOut, EndTransaction, CheckIn, Expire, Respond
  <2>1. CASE q # r
    <3>1. q \in wrote /\ at'[q] = at[q] /\ answer'[q] = answer[q]
      BY <1>2, <2>1 DEF Step, CheckOut, TakesOne, EndTransaction, CheckIn,
         Expire, Respond, End, Goes, TypeOK
    <3> QED BY <2>0, <3>1 DEF WrittenIsDone, Left
  <2>2. CASE q = r /\ q \in wrote
    <3>1. CASE kind[r] \in {"book", "issue"}
      BY <2>0, <2>2, <3>1
    <3>2. CASE ~Left(r) /\ answer[r] # "error"
      <4>1. Respond(r)
        BY <1>2, <3>2 DEF Step, CheckOut, EndTransaction, CheckIn,
           Expire, Waits, At
      <4> QED BY <4>1, <3>2, <2>2 DEF Respond, End, Left, TypeOK
    <3> QED BY <2>2, <3>1, <3>2 DEF WrittenIsDone
  <2>3. CASE q = r /\ q \notin wrote
    <3>1. /\ Left(r) /\ answer[r] = "none" /\ Now(r) \in {"commit", "write"}
          /\ Goes(r) /\ answer' = answer
      BY <1>2, <2>3 DEF Step, CheckOut, EndTransaction, CheckIn, Expire,
         Respond, At
    <3>2. kind[r] \in Kinds /\ at[r] \in 0 .. 6 /\ at'[r] = at[r] + 1
      BY <3>1 DEF TypeOK, Goes
    <3>3. kind[r] \in {"book", "issue"} \/ at[r] + 1 = Len(Plan[kind[r]])
      BY <3>1, <3>2, PlanFacts DEF Left, Now
    <3>4. Len(Plan[kind[r]]) \in 0 .. 6
      BY <3>2, PlanFacts
    <3> QED BY <2>0, <2>3, <3>1, <3>2, <3>3, <3>4 DEF Left
  <2> QED BY <2>1, <2>2, <2>3
<1> QED BY <1>1, <1>2 DEF Next, Finished

\* The invariant holds of every reachable state.
LEMMA Invariant == Spec => []Inductive
<1>1. Init => Inductive
  <2> SUFFICES ASSUME Init PROVE Inductive
    OBVIOUS
  <2>1. \A r \in Requests : Len(Plan[kind[r]]) \in 0 .. 6
    BY PlanFacts DEF Init
  <2>2. Cardinality({}) = 0
    BY FS_EmptySet
  <2>3. TypeOK
    BY <2>1, <2>2, PoolAssumption DEF Init, TypeOK
  <2> QED BY <2>3 DEF Init, Inductive, ExtraInUse, OwnInUse, WrittenIsDone
<1>2. Inductive /\ [Next]_vars => Inductive'
  BY TypeStep, HoldingsStep, WrittenStep DEF Inductive
<1> QED BY <1>1, <1>2, PTL DEF Spec

-----------------------------------------------------------------------------
(* Theorems *)

\* Never more connections than the pool has (db/session.py:24-25), every
\* request within its plan.
THEOREM TypeCorrect == Spec => []TypeOK
<1>1. Inductive => TypeOK
  BY DEF Inductive
<1> QED BY <1>1, Invariant, PTL

\* A standstill of the pool is made of content lookups, searches and polls
\* alone, each waiting for a second connection.
THEOREM StandstillIsNested == Spec => []StuckIsNested
<1>1. ASSUME Inductive, Stuck, NEW h \in held
      PROVE  /\ h = Own(h[1])
             /\ kind[h[1]] \in Nesting
             /\ At(h[1], {"read", "write", "note"})
  <2>1. PICK r \in Requests : h = Own(r) \/ h = Extra(r)
    BY <1>1 DEF Inductive, TypeOK, Own, Extra
  <2>2. h[1] = r
    BY <2>1 DEF Own, Extra
  <2>3. h = Own(r)
    <3>1. SUFFICES ASSUME h = Extra(r) PROVE FALSE
      BY <2>1
    <3>2. At(r, Nested) /\ answer[r] = "none"
      BY <1>1, <3>1 DEF Inductive, ExtraInUse, At
    <3>3. Waits(r)
      BY <1>1, <3>2 DEF Stuck
    <3> QED BY <1>1, <3>1, <3>2, <3>3 DEF Waits, At, Nested
  <2>4. answer[r] = "none" /\ at[r] \in OwnAt[kind[r]]
    BY <1>1, <2>3 DEF Inductive, OwnInUse
  <2>5. At(r, Nested)
    BY <1>1, <2>3, <2>4 DEF Stuck, Waits, At, Nested
  <2>6. kind[r] \in Nesting
    <3>1. kind[r] \in Kinds /\ at[r] \in 0 .. 6
      BY <1>1 DEF Inductive, TypeOK
    <3> QED BY <2>4, <2>5, <3>1, PlanFacts DEF At, Left, Now
  <2> QED BY <2>2, <2>3, <2>5, <2>6 DEF Nested
<1>2. Inductive => StuckIsNested
  BY <1>1 DEF StuckIsNested
<1> QED BY <1>2, Invariant, PTL

\* A request that fails for want of a connection has written nothing, keyed
\* bookings and issues excepted.
THEOREM OnlyKeysFailLate == Spec => []OnlyKeysAreLeftBehind
<1>1. Inductive => OnlyKeysAreLeftBehind
  BY DEF Inductive, WrittenIsDone, OnlyKeysAreLeftBehind
<1> QED BY <1>1, Invariant, PTL
=============================================================================
