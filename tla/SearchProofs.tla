---------------------------- MODULE SearchProofs ----------------------------
(***************************************************************************)
(* Theorems about module Search, for any number of clients and faults, any *)
(* deadline, grace and time to live that leave a second between the grace  *)
(* and the end of the session.                                             *)
(***************************************************************************)
EXTENDS Search, TLAPS

USE SearchAssumption, NoneAssumption

-----------------------------------------------------------------------------
(* The clock and the time to live *)

\* Division by whole seconds takes less than a second away.
LEMMA WholeSeconds ==
  ASSUME NEW left \in Int
  PROVE  /\ left \div Second \in Int
         /\ Second * (left \div Second) <= left
         /\ left < Second * (left \div Second) + Second
  OBVIOUS

\* The time to live that is left ends within the last second of the session,
\* or, when less than two are left, one second from now.
LEMMA TtlBounds ==
  ASSUME now \in 0 .. Horizon
  PROVE  /\ RemainingTtl \in Nat
         /\ now + RemainingTtl <= Horizon + Second
         /\ now + RemainingTtl > SessionTTL - Second
<1> DEFINE left == (SessionTTL - now) \div Second
<1>1. /\ left \in Int
      /\ Second * left <= SessionTTL - now
      /\ SessionTTL - now < Second * left + Second
  BY WholeSeconds
<1> HIDE DEF left
<1>2. RemainingTtl = Second * (IF left > 1 THEN left ELSE 1)
  BY DEF RemainingTtl, left
<1>3. CASE left > 1
  <2>1. RemainingTtl = Second * left /\ Second * left >= Second
    BY <1>1, <1>2, <1>3
  <2> QED
    BY <1>1, <2>1
<1>4. CASE ~(left > 1)
  <2>1. RemainingTtl = Second /\ Second * left <= Second
    BY <1>1, <1>2, <1>4
  <2> QED
    BY <1>1, <2>1
<1> QED
  BY <1>1, <1>3, <1>4

\* A fault is counted, and no count ever falls.
LEMMA FaultTyped ==
  ASSUME TypeOK, NEW kind \in {"die", "redis", "pg"}, Fault(kind)
  PROVE  /\ faults' \in [die : 0..MaxFaults, redis : 0..MaxFaults, pg : 0..MaxFaults]
         /\ Healthy' => Healthy /\ kind = "die"
  BY DEF TypeOK, Fault, Healthy

-----------------------------------------------------------------------------
(* What the shared parts of the actions do *)

\* A snapshot is stored with the time that is left, unless Redis fails.
LEMMA StoreFacts ==
  ASSUME TypeOK, NEW snapshot \in Snapshots, StoreSnapshot(snapshot)
  PROVE  /\ cache' \in CacheEntries \cup {None}
         /\ faults' \in [die : 0..MaxFaults, redis : 0..MaxFaults, pg : 0..MaxFaults]
         /\ Healthy' => /\ Healthy
                        /\ cache' # None
                        /\ cache'.is = snapshot
                        /\ cache'.until > SessionTTL - Second
<1>1. CASE SetCache(snapshot, RemainingTtl) /\ UNCHANGED faults
  <2>1. cache' = [is |-> snapshot, until |-> now + RemainingTtl]
    BY <1>1 DEF SetCache
  <2>2. /\ now + RemainingTtl \in 0 .. (Horizon + Second)
        /\ now + RemainingTtl > SessionTTL - Second
    BY TtlBounds DEF TypeOK
  <2> HIDE DEF RemainingTtl
  <2>3. cache' \in CacheEntries
    BY <2>1, <2>2 DEF CacheEntries
  <2> QED
    BY <1>1, <2>1, <2>2, <2>3 DEF TypeOK, Healthy
<1>2. CASE UNCHANGED cache /\ Fault("redis")
  BY <1>2, FaultTyped DEF TypeOK
<1> QED
  BY <1>1, <1>2 DEF StoreSnapshot, OrFails

\* A row is written unless PostgreSQL fails.
LEMMA PersistFacts ==
  ASSUME TypeOK, NEW status \in {"done", "failed"}, PersistResult(status)
  PROVE  /\ row' \in {row, status}
         /\ faults' \in [die : 0..MaxFaults, redis : 0..MaxFaults, pg : 0..MaxFaults]
         /\ Healthy' => Healthy /\ row' = status
<1>1. CASE row' = status /\ UNCHANGED faults
  BY <1>1 DEF TypeOK, Healthy
<1>2. CASE UNCHANGED row /\ Fault("pg")
  BY <1>2, FaultTyped
<1> QED
  BY <1>1, <1>2 DEF PersistResult, OrFails

\* A client is answered, or goes on.
LEMMA JudgeTyped ==
  ASSUME TypeOK, NEW c \in Clients, NEW snapshot \in Snapshots \cup {None},
         Judge(c, snapshot) \/ Respond(c, snapshot)
  PROVE  /\ poll' \in [Clients -> {"idle", "get", "load", "storeFailed", "persistFailed"}]
         /\ told' \in [Clients -> Answers \cup {None}]
  BY DEF TypeOK, Judge, Respond, Goto, Answers

-----------------------------------------------------------------------------
(* Type correctness, and how far the clock is at each step *)

\* Only a started search is polled, and only a session that is old enough is
\* looked for in the database or failed.
Clocked ==
  /\ \A c \in Clients : poll[c] # "idle" => task \notin {"insert", "cache", "lost"}
  /\ task \in {"insert", "cache"} => now = 0 /\ cache = None
  /\ task = "insert" => row = None
  /\ task = "provider" => now <= Deadline
  /\ task \in {"store", "persist"} => now <= Deadline + Grace
  /\ task \in {"store", "persist", "done"} => result # None

Base == TypeOK /\ Clocked

\* Types and clock are right at first.
LEMMA InitBase == Init => Base
  BY DEF Init, Base, TypeOK, Clocked

\* The snapshot of a new search is stored at once, for the whole session.
LEMMA CacheSessionFacts ==
  ASSUME Base, CacheSession
  PROVE  /\ cache' \in CacheEntries \cup {None}
         /\ faults' \in [die : 0..MaxFaults, redis : 0..MaxFaults, pg : 0..MaxFaults]
         /\ Healthy' => /\ Healthy
                        /\ cache' # None
                        /\ cache'.is = "pending"
                        /\ cache'.until > SessionTTL - Second
<1>1. TypeOK /\ now = 0
  BY DEF Base, Clocked, CacheSession
<1>2. CASE SetCache("pending", SessionTTL) /\ UNCHANGED faults
  <2>1. cache' = [is |-> "pending", until |-> SessionTTL]
    BY <1>1, <1>2 DEF SetCache
  <2>2. cache' \in CacheEntries
    BY <2>1 DEF CacheEntries, Snapshots
  <2> QED
    BY <1>1, <1>2, <2>1, <2>2 DEF TypeOK, Healthy
<1>3. CASE UNCHANGED cache /\ Fault("redis")
  BY <1>1, <1>3, FaultTyped DEF TypeOK
<1> QED
  BY <1>2, <1>3 DEF CacheSession, OrFails

\* Every step keeps every variable typed.
LEMMA TypeStep ==
  ASSUME Base, [Next]_vars
  PROVE  TypeOK'
<1>t. TypeOK
  BY DEF Base
<1> USE <1>t
<1>1. CASE InsertSession
  BY <1>1, FaultTyped DEF InsertSession, TypeOK
<1>2. CASE CacheSession
  BY <1>2, CacheSessionFacts DEF CacheSession, TypeOK
<1>3. CASE ProviderEnds
  BY <1>3 DEF ProviderEnds, TypeOK
<1>4. CASE TaskStores
  <2>1. result \in Snapshots
    BY <1>4 DEF TaskStores, Base, Clocked, TypeOK, Snapshots, Verdicts
  <2> QED
    BY <1>4, <2>1, StoreFacts DEF TaskStores, TypeOK
<1>5. CASE TaskPersists
  <2>1. result \in {"done", "failed"}
    BY <1>5 DEF TaskPersists, Base, Clocked, TypeOK
  <2> QED
    BY <1>5, <2>1, PersistFacts DEF TaskPersists, TypeOK
<1>6. ASSUME NEW c \in Clients, Poll(c) PROVE TypeOK'
  BY <1>6 DEF Poll, Goto, TypeOK
<1>7. ASSUME NEW c \in Clients, GetHit(c) PROVE TypeOK'
  <2>1. cache.is \in Snapshots
    BY <1>7 DEF GetHit, Cached, TypeOK, CacheEntries
  <2> QED
    BY <1>7, <2>1, JudgeTyped DEF GetHit, TypeOK
<1>8. ASSUME NEW c \in Clients, GetMiss(c) PROVE TypeOK'
  BY <1>8, FaultTyped DEF GetMiss, Goto, TypeOK
<1>9. ASSUME NEW c \in Clients, LoadSnapshot(c) PROVE TypeOK'
  <2>1. FromRow \in Snapshots \cup {None}
    BY DEF FromRow, TypeOK, Snapshots, Verdicts
  <2> QED
    BY <1>9, <2>1, JudgeTyped DEF LoadSnapshot, TypeOK
<1>10. ASSUME NEW c \in Clients, LoadFails(c) PROVE TypeOK'
  BY <1>10, FaultTyped DEF LoadFails, TypeOK, Answers
<1>11. ASSUME NEW c \in Clients, StoreFailed(c) PROVE TypeOK'
  BY <1>11, StoreFacts DEF StoreFailed, Goto, TypeOK, Snapshots, Verdicts
<1>12. ASSUME NEW c \in Clients, PersistFailed(c) PROVE TypeOK'
  <2>1. "failed" \in Snapshots
    BY DEF Snapshots, Verdicts
  <2> QED
    BY <1>12, <2>1, PersistFacts, JudgeTyped DEF PersistFailed, TypeOK
<1>13. CASE Die
  BY <1>13, FaultTyped DEF Die, TypeOK, Answers
<1>14. CASE Tick
  BY <1>14 DEF Tick, TypeOK
<1>15. CASE UNCHANGED vars
  BY <1>15 DEF vars, TypeOK
<1> QED
  BY <1>1, <1>2, <1>3, <1>4, <1>5, <1>6, <1>7, <1>8, <1>9, <1>10, <1>11, <1>12, <1>13,
     <1>14, <1>15 DEF Next, Task, PollStep, Rest

\* Every step leaves the clock where the next one may find it.
LEMMA ClockStep ==
  ASSUME Base, [Next]_vars
  PROVE  Clocked'
<1>t. TypeOK /\ Clocked
  BY DEF Base
<1> USE <1>t DEF TypeOK, Clocked
<1>1. CASE InsertSession
  BY <1>1 DEF InsertSession
<1>2. CASE CacheSession
  BY <1>2 DEF CacheSession
<1>3. CASE ProviderEnds
  BY <1>3 DEF ProviderEnds, Answers, Snapshots, Verdicts
<1>4. CASE TaskStores \/ TaskPersists
  BY <1>4 DEF TaskStores, TaskPersists
<1>5. ASSUME NEW c \in Clients, Poll(c) PROVE Clocked'
  BY <1>5 DEF Poll, Goto
<1>6. ASSUME NEW c \in Clients, poll[c] # "idle",
             UNCHANGED <<now, task, result, row>>,
             \E label \in {"idle", "get", "load", "storeFailed", "persistFailed"} :
               poll' = [poll EXCEPT ![c] = label]
      PROVE  Clocked'
  BY <1>6
<1>7. ASSUME NEW c \in Clients, PollStep(c) \/ LoadFails(c) PROVE Clocked'
  BY <1>6, <1>7
     DEF PollStep, GetHit, GetMiss, LoadSnapshot, LoadFails, StoreFailed, PersistFailed,
         Judge, Respond, Goto
<1>8. CASE Die
  BY <1>8 DEF Die
<1>9. CASE Tick
  BY <1>9 DEF Tick
<1>10. CASE UNCHANGED vars
  BY <1>10 DEF vars
<1> QED
  BY <1>1, <1>2, <1>3, <1>4, <1>5, <1>7, <1>8, <1>9, <1>10 DEF Next, Task, Rest

\* An error of Redis or PostgreSQL is not forgotten.
LEMMA HealthLasts ==
  ASSUME Base, [Next]_vars, Healthy'
  PROVE  Healthy
<1>t. TypeOK
  BY DEF Base
<1> USE <1>t
<1>1. CASE CacheSession \/ TaskStores \/ TaskPersists
  <2>1. task \in {"store", "persist"} => result \in {"done", "failed"} /\ result \in Snapshots
    BY DEF Base, Clocked, TypeOK, Snapshots, Verdicts
  <2> QED
    BY <1>1, <2>1, CacheSessionFacts, StoreFacts, PersistFacts
       DEF CacheSession, TaskStores, TaskPersists
<1>2. ASSUME NEW c \in Clients, PollStep(c) PROVE Healthy
  BY <1>2, FaultTyped, StoreFacts, PersistFacts
     DEF PollStep, GetHit, GetMiss, LoadSnapshot, StoreFailed, PersistFailed, Healthy,
         Snapshots, Verdicts
<1>3. CASE \/ InsertSession \/ ProviderEnds \/ Die \/ Tick \/ UNCHANGED vars
           \/ \E c \in Clients : Poll(c) \/ LoadFails(c)
  BY <1>3, FaultTyped
     DEF InsertSession, ProviderEnds, Die, Tick, vars, Poll, LoadFails, Healthy
<1> QED
  BY <1>1, <1>2, <1>3 DEF Next, Task, Rest

\* Types and clock are right in every reachable state.
LEMMA BaseInvariant == Spec => []Base
<1>1. Base /\ [Next]_vars => Base'
  BY TypeStep, ClockStep DEF Base
<1> QED
  BY <1>1, InitBase, PTL DEF Spec

\* Every variable of the search keeps its type, the time to live in its bounds.
THEOREM TypeCorrect == Spec => []TypeOK
  BY BaseInvariant, PTL DEF Base
-----------------------------------------------------------------------------
(* While Redis and PostgreSQL work *)

\* The snapshot outlives all but the last second of the session.
CacheLasts ==
  /\ task \in {"provider", "store", "persist", "done", "dead"}
       => cache # None /\ cache.until > SessionTTL - Second
  /\ \A c \in Clients : poll[c] = "load" => now > SessionTTL - Second

\* The snapshot and the row are written by the task, or by polls after its death.
CacheFollowsTask ==
  /\ task = "cache" => row = "pending"
  /\ task \in {"provider", "store"} => cache.is = "pending" /\ row = "pending"
  /\ task = "persist" => cache.is = result /\ row = "pending"
  /\ task = "done" => cache.is = result /\ row = result
  /\ task = "dead" => /\ cache.is \in {"pending", "done", "failed"}
                      /\ cache.is = "done" => result = "done"
                      /\ row \in {"pending", "failed"}

\* Only a search whose task died is failed by polls, snapshot first.
FailedTogether ==
  /\ \A c \in Clients : poll[c] \in {"storeFailed", "persistFailed"} => task = "dead"
  /\ \A c \in Clients : poll[c] = "persistFailed" => cache.is = "failed"
  /\ row = "failed" => cache.is = "failed"

\* What a client was told is what the snapshot says since, but for a failing
\* of the search after its death.
ToldIsBacked ==
  \A c \in Clients :
    /\ told[c] \in Verdicts => cache # None /\ cache.is # "pending"
    /\ told[c] = "failed" => cache.is = "failed"
    /\ told[c] \in {"done", "bare"} => result = "done" /\ task \in {"persist", "done", "dead"}

HealthyInv == CacheLasts /\ CacheFollowsTask /\ FailedTogether /\ ToldIsBacked

SearchInv == Base /\ (Healthy => HealthyInv)

\* The invariant holds at first.
LEMMA InitSearch == Init => SearchInv
<1> SUFFICES ASSUME Init PROVE HealthyInv
  BY InitBase DEF SearchInv
<1>1. CacheLasts /\ CacheFollowsTask /\ FailedTogether
  BY DEF Init, CacheLasts, CacheFollowsTask, FailedTogether, Answers, Snapshots, Verdicts
<1>2. ToldIsBacked
  BY DEF Init, ToldIsBacked, Answers, Snapshots, Verdicts
<1> QED
  BY <1>1, <1>2 DEF HealthyInv

\* The tasks' steps.
LEMMA TaskKeeps ==
  ASSUME Base, Base', HealthyInv, Healthy, Healthy', Task
  PROVE  HealthyInv'
<1> USE DEF HealthyInv, Answers, Snapshots, Verdicts
<1>t. TypeOK /\ Clocked
  BY DEF Base
<1>p. task \in {"insert", "cache"} => \A c \in Clients : poll[c] = "idle"
  BY <1>t DEF Clocked, TypeOK
<1> USE <1>t, <1>p DEF TypeOK
<1>1. CASE InsertSession
  <2>1. row' = "pending" /\ task' = "cache"
    BY <1>1 DEF InsertSession, Fault, Healthy
  <2>2. CacheLasts' /\ CacheFollowsTask' /\ FailedTogether'
    BY <1>1, <2>1 DEF InsertSession, CacheLasts, CacheFollowsTask, FailedTogether
  <2>3. ToldIsBacked'
    BY <1>1, <2>1 DEF InsertSession, ToldIsBacked
  <2> QED
    BY <2>2, <2>3
<1>2. CASE CacheSession
  <2>1. cache' # None /\ cache'.is = "pending" /\ cache'.until > SessionTTL - Second
    BY <1>2, CacheSessionFacts
  <2>2. CacheLasts' /\ CacheFollowsTask'
    BY <1>2, <2>1 DEF CacheSession, CacheLasts, CacheFollowsTask
  <2>3. FailedTogether' /\ ToldIsBacked'
    BY <1>2, <2>1 DEF CacheSession, CacheFollowsTask, FailedTogether, ToldIsBacked, Clocked
  <2> QED
    BY <2>2, <2>3
<1>3. CASE ProviderEnds
  <2>1. CacheLasts' /\ CacheFollowsTask' /\ FailedTogether'
    BY <1>3 DEF ProviderEnds, CacheLasts, CacheFollowsTask, FailedTogether
  <2>2. ToldIsBacked'
    BY <1>3 DEF ProviderEnds, CacheFollowsTask, ToldIsBacked
  <2> QED
    BY <2>1, <2>2
<1>4. CASE TaskStores
  <2>1. cache' # None /\ cache'.is = result /\ cache'.until > SessionTTL - Second
    BY <1>4, StoreFacts DEF TaskStores, Clocked
  <2>2. CacheLasts' /\ CacheFollowsTask' /\ FailedTogether'
    BY <1>4, <2>1 DEF TaskStores, CacheLasts, CacheFollowsTask, FailedTogether
  <2>3. ToldIsBacked'
    BY <1>4, <2>1 DEF TaskStores, CacheFollowsTask, ToldIsBacked, Clocked
  <2> QED
    BY <2>2, <2>3
<1>5. CASE TaskPersists
  <2>1. row' = result
    BY <1>5, PersistFacts DEF TaskPersists, Clocked
  <2>2. CacheLasts' /\ CacheFollowsTask' /\ FailedTogether'
    BY <1>5, <2>1 DEF TaskPersists, CacheLasts, CacheFollowsTask, FailedTogether
  <2>3. ToldIsBacked'
    BY <1>5, <2>1 DEF TaskPersists, CacheFollowsTask, ToldIsBacked
  <2> QED
    BY <2>2, <2>3
<1> QED
  BY <1>1, <1>2, <1>3, <1>4, <1>5 DEF Task

\* A snapshot that a poll finds in Redis, or rebuilds from the row, is fit to
\* be judged: it is stale only if the task died, and it says what clients were
\* told before.
Found(snapshot) ==
  /\ snapshot \in Snapshots
  /\ Stale(snapshot) => task = "dead"
  /\ snapshot \in {"done", "bare"}
       => cache.is = "done" /\ result = "done" /\ task \in {"persist", "done", "dead"}
  /\ snapshot = "failed" => cache.is = "failed"
  /\ snapshot = "pending" /\ ~Stale(snapshot) => cache.is = "pending"

\* Judging leaves the snapshot and the row alone.
LEMMA JudgeKeeps ==
  ASSUME TypeOK, TypeOK', HealthyInv, NEW c \in Clients, NEW snapshot, Found(snapshot),
         cache # None, Judge(c, snapshot), UNCHANGED <<now, task, result, row, cache>>
  PROVE  HealthyInv'
<1> USE DEF HealthyInv, TypeOK, Found, Judge, Respond, Goto
<1>1. CacheLasts' /\ CacheFollowsTask'
  BY DEF CacheLasts, CacheFollowsTask
<1>2. FailedTogether'
  BY DEF FailedTogether
<1>3. ToldIsBacked'
  BY DEF ToldIsBacked, Verdicts, Snapshots, Answers
<1> QED
  BY <1>1, <1>2, <1>3

\* Redis still has the snapshot of a search whose task is at work.
LEMMA HitIsFound ==
  ASSUME Base, HealthyInv, NEW c \in Clients, GetHit(c)
  PROVE  Found(cache.is) /\ cache # None
<1>1. TypeOK /\ Clocked /\ cache # None /\ task \in {"provider", "store", "persist", "done", "dead"}
  BY DEF Base, Clocked, GetHit, Cached, TypeOK
<1>2. Stale(cache.is) => task = "dead"
  BY <1>1 DEF Stale, TypeOK, Clocked, HealthyInv, CacheFollowsTask, Answers, Snapshots, Verdicts
<1>3. cache.is \in Snapshots
  BY <1>1 DEF TypeOK, CacheEntries
<1>4. cache.is \in {"done", "bare"}
       => cache.is = "done" /\ result = "done" /\ task \in {"persist", "done", "dead"}
  BY <1>1 DEF TypeOK, Clocked, HealthyInv, CacheFollowsTask
<1> QED
  BY <1>1, <1>2, <1>3, <1>4 DEF Found

\* By the time Redis has dropped the snapshot the task is done or dead.
LEMMA RowIsFound ==
  ASSUME Base, HealthyInv, NEW c \in Clients, poll[c] = "load"
  PROVE  Found(FromRow) /\ cache # None
<1>1. TypeOK /\ Clocked /\ now > Deadline + Grace
  BY DEF Base, HealthyInv, CacheLasts, TypeOK
<1>2. task \in {"done", "dead"} /\ cache # None
  BY <1>1 DEF TypeOK, Clocked, HealthyInv, CacheLasts
<1> QED
  BY <1>1, <1>2
     DEF Found, FromRow, Stale, TypeOK, CacheEntries, Clocked, HealthyInv, CacheFollowsTask,
         FailedTogether, Answers, Snapshots, Verdicts

\* The polls' steps.
LEMMA PollKeeps ==
  ASSUME Base, Base', HealthyInv, Healthy, Healthy',
         NEW c \in Clients, Poll(c) \/ PollStep(c) \/ LoadFails(c)
  PROVE  HealthyInv'
<1>t. TypeOK /\ TypeOK' /\ Clocked
  BY DEF Base
<1> USE <1>t DEF HealthyInv
<1>1. CASE Poll(c)
  <2>1. CacheLasts' /\ CacheFollowsTask' /\ FailedTogether'
    BY <1>1 DEF Poll, Goto, CacheLasts, CacheFollowsTask, FailedTogether, TypeOK
  <2>2. ToldIsBacked'
    BY <1>1 DEF Poll, Goto, ToldIsBacked
  <2> QED
    BY <2>1, <2>2
<1>2. CASE GetHit(c)
  BY <1>2, HitIsFound, JudgeKeeps DEF GetHit
<1>3. CASE GetMiss(c)
  <2>1. ~Cached
    BY <1>3 DEF GetMiss, Fault, Healthy, TypeOK
  <2>2. now > SessionTTL - Second
    BY <1>3, <2>1 DEF GetMiss, Cached, Clocked, CacheLasts, TypeOK, CacheEntries
  <2>3. CacheLasts' /\ CacheFollowsTask' /\ FailedTogether'
    BY <1>3, <2>2 DEF GetMiss, Goto, CacheLasts, CacheFollowsTask, FailedTogether, TypeOK
  <2>4. ToldIsBacked'
    BY <1>3 DEF GetMiss, Goto, ToldIsBacked
  <2> QED
    BY <2>3, <2>4
<1>4. CASE LoadSnapshot(c)
  BY <1>4, RowIsFound, JudgeKeeps DEF LoadSnapshot
<1>5. CASE LoadFails(c)
  BY <1>5, FaultTyped DEF LoadFails
<1>6. CASE StoreFailed(c)
  <2>1. cache' # None /\ cache'.is = "failed" /\ cache'.until > SessionTTL - Second
    BY <1>6, StoreFacts DEF StoreFailed, Snapshots, Verdicts
  <2>2. task = "dead"
    BY <1>6 DEF StoreFailed, FailedTogether
  <2>3. CacheLasts' /\ CacheFollowsTask' /\ FailedTogether'
    BY <1>6, <2>1, <2>2 DEF StoreFailed, Goto, CacheLasts, CacheFollowsTask, FailedTogether, TypeOK
  <2>4. ToldIsBacked'
    BY <1>6, <2>1, <2>2 DEF StoreFailed, Goto, ToldIsBacked, Verdicts
  <2> QED
    BY <2>3, <2>4
<1>7. CASE PersistFailed(c)
  <2>1. row' = "failed" /\ task = "dead" /\ cache.is = "failed" /\ cache # None
    BY <1>7, PersistFacts DEF PersistFailed, FailedTogether, CacheLasts
  <2>2. CacheLasts' /\ CacheFollowsTask' /\ FailedTogether'
    BY <1>7, <2>1 DEF PersistFailed, Respond, CacheLasts, CacheFollowsTask, FailedTogether, TypeOK
  <2>3. ToldIsBacked'
    BY <1>7, <2>1 DEF PersistFailed, Respond, ToldIsBacked, Verdicts, TypeOK
  <2> QED
    BY <2>2, <2>3
<1> QED
  BY <1>1, <1>2, <1>3, <1>4, <1>5, <1>6, <1>7 DEF PollStep

\* Deaths and the clock.
LEMMA OtherKeeps ==
  ASSUME Base, Base', HealthyInv, Die \/ Tick \/ UNCHANGED vars
  PROVE  HealthyInv'
<1>t. TypeOK /\ Clocked
  BY DEF Base
<1> USE <1>t DEF HealthyInv, TypeOK
<1>1. CASE Die
  <2>1. CacheLasts' /\ CacheFollowsTask' /\ FailedTogether'
    BY <1>1 DEF Die, CacheLasts, CacheFollowsTask, FailedTogether, Clocked
  <2>2. ToldIsBacked'
    BY <1>1 DEF Die, ToldIsBacked, Verdicts
  <2> QED
    BY <2>1, <2>2
<1>2. CASE Tick
  <2>1. CacheLasts' /\ CacheFollowsTask' /\ FailedTogether'
    BY <1>2 DEF Tick, CacheLasts, CacheFollowsTask, FailedTogether
  <2>2. ToldIsBacked'
    BY <1>2 DEF Tick, ToldIsBacked
  <2> QED
    BY <2>1, <2>2
<1>3. CASE UNCHANGED vars
  BY <1>3 DEF vars, CacheLasts, CacheFollowsTask, FailedTogether, ToldIsBacked
<1> QED
  BY <1>1, <1>2, <1>3

\* Every step keeps the invariant.
LEMMA NextSearch == SearchInv /\ [Next]_vars => SearchInv'
<1> SUFFICES ASSUME SearchInv, [Next]_vars PROVE SearchInv'
  OBVIOUS
<1>1. Base /\ Base'
  BY TypeStep, ClockStep DEF SearchInv, Base
<1>2. ASSUME Healthy' PROVE HealthyInv'
  <2>1. Healthy
    BY <1>1, <1>2, HealthLasts
  <2> QED
    BY <1>1, <1>2, <2>1, TaskKeeps, PollKeeps, OtherKeeps DEF SearchInv, Next, Rest
<1> QED
  BY <1>1, <1>2 DEF SearchInv

\* The invariant holds of every reachable state.
LEMMA SearchInvariant == Spec => []SearchInv
  BY InitSearch, NextSearch, PTL DEF Spec
-----------------------------------------------------------------------------
(* What follows *)

\* While Redis and PostgreSQL work, a poll fails a session only when its task
\* died: no interleaving of polls, task and clock fails a search that lives or
\* has ended (search.py:112-119).
THEOREM LiveSearchesLast == Spec => []OnlyErrorsFailLiveSearches
<1>1. SearchInv => OnlyErrorsFailLiveSearches
  BY DEF SearchInv, HealthyInv, FailedTogether, OnlyErrorsFailLiveSearches, LazyFailMeansDead
<1> QED
  BY <1>1, SearchInvariant, PTL

\* A step that ends without an error of Redis or PostgreSQL began without one, so
\* the invariant is known of the state it began in.
LEMMA HealthyStep ==
  ASSUME SearchInv, [Next]_vars, Healthy'
  PROVE  Healthy /\ HealthyInv /\ Base /\ TypeOK
  BY HealthLasts DEF SearchInv, Base

\* While the database works the row of a search leaves PENDING at most once:
\* the task and the polls that fail it never overwrite each other's verdict.
THEOREM VerdictIsFinal == Spec => RowVerdictIsFinal
<1>1. ASSUME SearchInv, [Next]_vars, Healthy', row \notin {"pending", None}
      PROVE  row' = row
  <2>h. Healthy /\ HealthyInv /\ Clocked /\ TypeOK
    BY <1>1, HealthyStep DEF Base
  <2> USE <1>1, <2>h
  <2>1. CASE Task
    BY <2>1 DEF Task, InsertSession, CacheSession, ProviderEnds, TaskStores, TaskPersists,
                Clocked, HealthyInv, CacheFollowsTask
  <2>2. ASSUME NEW c \in Clients, PersistFailed(c) PROVE row' = row
    <3>1. task = "dead"
      BY <2>2 DEF PersistFailed, HealthyInv, FailedTogether
    <3>2. row = "failed"
      BY <3>1 DEF HealthyInv, CacheFollowsTask
    <3> QED
      BY <2>2, <3>2, PersistFacts DEF PersistFailed
  <2> QED
    BY <2>1, <2>2
       DEF Next, PollStep, Poll, GetHit, GetMiss, LoadSnapshot, LoadFails, StoreFailed,
           Die, Tick, Rest, vars
<1>2. SearchInv /\ [Next]_vars => [Healthy' /\ ~(row \in {"pending", None}) => row' = row]_vars
  BY <1>1
<1> QED
  BY <1>2, SearchInvariant, PTL DEF Spec, RowVerdictIsFinal

\* An answer is an error, or what the session's snapshot or row says.
LEMMA AnswerIsFound ==
  ASSUME SearchInv, [Next]_vars, Healthy', NEW c \in Clients, told'[c] # told[c]
  PROVE  \/ told'[c] \in {"expired", "forbidden", "error"}
         \/ Found(told'[c]) /\ ~Stale(told'[c])
         \/ told'[c] = "failed" /\ task = "dead"
<1>h. Healthy /\ HealthyInv /\ Base /\ TypeOK
  BY HealthyStep
<1>1. ASSUME NEW d \in Clients, PollStep(d)
      PROVE  \/ told'[c] \in {"expired", "forbidden", "error"}
             \/ Found(told'[c]) /\ ~Stale(told'[c])
             \/ told'[c] = "failed" /\ task = "dead"
  <2>1. ASSUME NEW snapshot, Judge(d, snapshot)
        PROVE  \/ told'[c] \in {"expired", "forbidden"}
               \/ told'[c] = snapshot /\ ~Stale(snapshot)
    BY <1>h, <2>1 DEF Judge, Respond, Goto, TypeOK
  <2>2. CASE GetHit(d)
    BY <1>h, <2>1, <2>2, HitIsFound DEF GetHit
  <2>3. CASE LoadSnapshot(d)
    BY <1>h, <2>1, <2>3, RowIsFound DEF LoadSnapshot
  <2>4. CASE PersistFailed(d)
    BY <1>h, <2>4 DEF PersistFailed, Respond, HealthyInv, FailedTogether, TypeOK
  <2>5. CASE GetMiss(d) \/ StoreFailed(d)
    BY <2>5 DEF GetMiss, StoreFailed, Goto
  <2> QED
    BY <1>1, <2>2, <2>3, <2>4, <2>5 DEF PollStep
<1>2. CASE Die \/ \E d \in Clients : LoadFails(d)
  BY <1>h, <1>2 DEF Die, LoadFails, TypeOK
<1> QED
  BY <1>1, <1>2
     DEF Next, Task, InsertSession, CacheSession, ProviderEnds, TaskStores, TaskPersists,
         Poll, Goto, Tick, Rest, vars

\* A client that was given a verdict is not told "pending" afterwards, nor the
\* opposite verdict, except "failed" after "done" when the task died before it
\* wrote the row; whichever polls and writes interleave (search.py:102-125).
THEOREM NoGoingBack == Spec => AnswersNeverGoBack
<1>1. ASSUME SearchInv, [Next]_vars, Healthy', NEW c \in Clients, told[c] \in Verdicts
      PROVE  /\ told'[c] # "pending"
             /\ told[c] # "failed" /\ told'[c] = "failed" => task = "dead"
             /\ told[c] = "failed" => told'[c] \notin {"done", "bare"}
  <2>1. HealthyInv /\ TypeOK
    BY <1>1, HealthyStep
  <2>2. /\ cache.is # "pending"
        /\ told[c] = "failed" => cache.is = "failed"
        /\ told[c] \in {"done", "bare"} => result = "done" /\ task \in {"persist", "done", "dead"}
    BY <1>1, <2>1 DEF HealthyInv, ToldIsBacked
  <2>3. CASE told'[c] = told[c]
    BY <1>1, <2>3 DEF Verdicts
  <2>4. CASE Found(told'[c]) /\ ~Stale(told'[c])
    <3>1. told'[c] # "pending"
      BY <2>2, <2>4 DEF Found
    <3>2. told[c] # "failed" /\ told'[c] = "failed" => task = "dead"
      BY <1>1, <2>1, <2>2, <2>4 DEF Found, Verdicts, HealthyInv, CacheFollowsTask
    <3>3. told[c] = "failed" => told'[c] \notin {"done", "bare"}
      BY <2>2, <2>4 DEF Found
    <3> QED
      BY <3>1, <3>2, <3>3
  <2>5. CASE \/ told'[c] \in {"expired", "forbidden", "error"}
             \/ told'[c] = "failed" /\ task = "dead"
    BY <2>5
  <2> QED
    BY <1>1, <2>3, <2>4, <2>5, AnswerIsFound
<1>2. SearchInv /\ [Next]_vars =>
        [\A c \in Clients : Healthy' /\ told[c] \in Verdicts =>
           /\ told'[c] # "pending"
           /\ told[c] # "failed" /\ told'[c] = "failed" => task = "dead"
           /\ told[c] = "failed" => told'[c] \notin {"done", "bare"}]_vars
  BY <1>1
<1> QED
  BY <1>2, SearchInvariant, PTL DEF Spec, AnswersNeverGoBack

\* While Redis works, a client that asks for a search that is done receives its
\* offers, until at most the last second of the session (search.py:218-222).
THEOREM DoneShowsOffers == Spec => DoneHasOffers
<1>1. ASSUME SearchInv, [Next]_vars, Healthy', NEW c \in Clients,
             poll[c] # "idle", poll'[c] = "idle", told'[c] = "bare"
      PROVE  now > SessionTTL - Second
  <2>1. HealthyInv /\ Base /\ TypeOK
    BY <1>1, HealthyStep
  <2>2. \/ Die
        \/ \E d \in Clients : PollStep(d) \/ LoadFails(d)
    BY <1>1, <2>1
       DEF Next, Task, InsertSession, CacheSession, ProviderEnds, TaskStores, TaskPersists,
           Poll, Goto, Tick, Rest, vars, TypeOK
  <2>3. CASE Die
    BY <1>1, <2>3 DEF Die
  <2>4. ASSUME NEW d \in Clients, PollStep(d) \/ LoadFails(d) PROVE d = c
    BY <1>1, <2>1, <2>4
       DEF PollStep, GetHit, GetMiss, LoadSnapshot, LoadFails, StoreFailed, PersistFailed,
           Judge, Respond, Goto, TypeOK
  <2>5. CASE LoadFails(c) \/ GetMiss(c) \/ StoreFailed(c) \/ PersistFailed(c)
    BY <1>1, <2>1, <2>5 DEF LoadFails, GetMiss, StoreFailed, PersistFailed, Goto, Respond, TypeOK
  <2>6. CASE LoadSnapshot(c)
    BY <2>1, <2>6 DEF LoadSnapshot, HealthyInv, CacheLasts
  <2>7. CASE GetHit(c)
    <3>1. cache.is # "bare"
      BY <2>1, <2>7, HitIsFound DEF Found
    <3> QED
      BY <1>1, <2>1, <2>7, <3>1 DEF GetHit, Judge, Respond, Goto, TypeOK
  <2> QED
    BY <2>2, <2>3, <2>4, <2>5, <2>6, <2>7 DEF PollStep
<1>2. SearchInv /\ [Next]_vars =>
        [\A c \in Clients :
           Healthy' /\ poll[c] # "idle" /\ poll'[c] = "idle" /\ told'[c] = "bare"
             => now > SessionTTL - Second]_vars
  BY <1>1
<1> QED
  BY <1>2, SearchInvariant, PTL DEF Spec, DoneHasOffers
=============================================================================
