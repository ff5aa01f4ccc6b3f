------------------------------- MODULE Search -------------------------------
(***************************************************************************)
(* One asynchronous flight search: start_search, its background task       *)
(* _run_search, and the clients that poll get_search, which share a        *)
(* snapshot in Redis (with a time to live) and a row in PostgreSQL         *)
(* (status and count, no offers).                                          *)
(*                                                                         *)
(*   task : insert -> cache -> provider -> store -> persist -> done        *)
(*   poll : idle -> get -> (load ->) (storeFailed -> persistFailed ->) idle*)
(*                                                                         *)
(* Time is counted in ticks since expires_at was computed.                 *)
(***************************************************************************)
EXTENDS Integers

CONSTANTS
  Clients,     \* the clients that know the search_id
  Foreign,     \* those among them that are another agent's
  Second,      \* ticks in a second
  Deadline,    \* search_deadline_seconds, in ticks
  Grace,       \* _LAZY_FAIL_GRACE_SECONDS, in ticks
  SessionTTL,  \* search_session_ttl_seconds, in ticks
  Horizon,     \* bound: the last tick
  Faults,      \* which of "die", "redis" and "pg" may happen
  MaxFaults,   \* bound: how many faults a behaviour has
  None

ASSUME SearchAssumption ==
  /\ Foreign \subseteq Clients
  /\ Second \in Nat \ {0}
  /\ Deadline \in Nat /\ Grace \in Nat /\ SessionTTL \in Nat
  /\ Horizon \in Nat /\ Horizon > SessionTTL
  /\ SessionTTL - Second >= Deadline + Grace
  /\ Faults \subseteq {"die", "redis", "pg"}
  /\ MaxFaults \in Nat

VARIABLES
  now,     \* the clock
  task,    \* the next step of start_search and of the task it creates
  result,  \* what the provider call came to
  row,     \* search_sessions.status
  cache,   \* search:session:<id>: the snapshot, and the tick it expires at
  poll,    \* poll[c]: the next step of the poll that c has under way
  told,    \* told[c]: the last answer c received
  faults   \* faults[kind]: how many faults of a kind have happened

vars == <<now, task, result, row, cache, poll, told, faults>>

\* A snapshot is its status; "bare" is a done one without its offers.
Verdicts  == {"done", "bare", "failed"}
Snapshots == Verdicts \cup {"pending"}
Answers   == Snapshots \cup {"expired", "forbidden", "error"}

\* What Redis holds under the search id: a snapshot, and the tick it expires at.
CacheEntries == [is : Snapshots, until : 0 .. (Horizon + Second)]

\* None is told apart from every value it stands beside.
ASSUME NoneAssumption == None \notin Answers /\ None \notin CacheEntries

TypeOK ==
  /\ now \in 0..Horizon
  /\ task \in {"insert", "cache", "provider", "store", "persist", "done", "dead", "lost"}
  /\ result \in {"done", "failed", None}
  /\ row \in {"pending", "done", "failed", None}
  /\ cache \in CacheEntries \cup {None}
  /\ poll \in [Clients -> {"idle", "get", "load", "storeFailed", "persistFailed"}]
  /\ told \in [Clients -> Answers \cup {None}]
  /\ faults \in [die : 0..MaxFaults, redis : 0..MaxFaults, pg : 0..MaxFaults]

Init ==
  /\ now = 0
  /\ task = "insert"
  /\ result = None
  /\ row = None
  /\ cache = None
  /\ poll = [c \in Clients |-> "idle"]
  /\ told = [c \in Clients |-> None]
  /\ faults = [die |-> 0, redis |-> 0, pg |-> 0]

Fault(kind) ==
  /\ kind \in Faults
  /\ faults.die + faults.redis + faults.pg < MaxFaults
  /\ faults' = [faults EXCEPT ![kind] = @ + 1]

\* Redis and PostgreSQL have done what they were asked; processes may have died.
Healthy == faults.redis = 0 /\ faults.pg = 0

\* A statement succeeds, or fails where the code logs the failure and goes on.
OrFails(kind, statement, nothing) ==
  \/ statement /\ UNCHANGED faults
  \/ nothing /\ Fault(kind)

-----------------------------------------------------------------------------
(* Redis *)

SetCache(snapshot, ttl) == cache' = [is |-> snapshot, until |-> now + ttl]

\* The clock stops at the horizon: what Redis holds by then counts as expired.
Cached == cache # None /\ now < cache.until /\ now < Horizon

\* Faulty variants: the full TTL again, or one second.
FullTtl   == SessionTTL
OneSecond == Second

\* _store_snapshot: the seconds left to expires_at, rounded down, at least one.
RemainingTtl ==
  LET left == (SessionTTL - now) \div Second IN Second * (IF left > 1 THEN left ELSE 1)

StoreSnapshot(snapshot) ==
  OrFails("redis", SetCache(snapshot, RemainingTtl), UNCHANGED cache)

PersistResult(status) == OrFails("pg", row' = status, UNCHANGED row)

-----------------------------------------------------------------------------
(* start_search and its background task *)

\* If the INSERT fails, the request does, and there is no session to poll.
InsertSession ==
  /\ task = "insert"
  /\ \/ row' = "pending" /\ task' = "cache" /\ UNCHANGED faults
     \/ task' = "lost" /\ UNCHANGED row /\ Fault("pg")
  /\ UNCHANGED <<now, result, cache, poll, told>>

CacheSession ==
  /\ task = "cache"
  /\ OrFails("redis", SetCache("pending", SessionTTL), UNCHANGED cache)
  /\ task' = "provider"
  /\ UNCHANGED <<now, result, row, poll, told>>

\* The call returns offers, raises, or is cut off at the deadline.
ProviderEnds ==
  /\ task = "provider"
  /\ \/ result' = "done" /\ now < Deadline
     \/ result' = "failed"
  /\ task' = "store"
  /\ UNCHANGED <<now, row, cache, poll, told, faults>>

\* Whatever snapshot Redis still has, its verdict is overwritten.
TaskStores ==
  /\ task = "store"
  /\ StoreSnapshot(result)
  /\ task' = "persist"
  /\ UNCHANGED <<now, result, row, poll, told>>

TaskPersists ==
  /\ task = "persist"
  /\ PersistResult(result)
  /\ task' = "done"
  /\ UNCHANGED <<now, result, cache, poll, told>>

-----------------------------------------------------------------------------
(* get_search *)

\* Faulty variants: no grace; a poll never fails a session; a session is
\* failed by its age, whatever its status.
NoGrace(snapshot) == snapshot = "pending" /\ now >= Deadline
NeverStale(snapshot) == FALSE
StaleAnyway(snapshot) == now > Deadline + Grace

\* A pending session this old has lost its worker.
Stale(snapshot) == snapshot = "pending" /\ now > Deadline + Grace

\* Expiry and ownership are looked at last, after what a stale session causes.
Respond(c, snapshot) ==
  /\ told' = [told EXCEPT ![c] =
       IF now > SessionTTL THEN "expired" ELSE IF c \in Foreign THEN "forbidden" ELSE snapshot]
  /\ poll' = [poll EXCEPT ![c] = "idle"]

Goto(c, label) == poll' = [poll EXCEPT ![c] = label] /\ UNCHANGED told

\* What a poll does with the snapshot it found.
Judge(c, snapshot) ==
  \/ Stale(snapshot) /\ Goto(c, "storeFailed")
  \/ ~Stale(snapshot) /\ Respond(c, snapshot)

\* The search_id is known to a client once start_search has returned.
Poll(c) ==
  /\ poll[c] = "idle"
  /\ task \notin {"insert", "cache", "lost"}
  /\ Goto(c, "get")
  /\ UNCHANGED <<now, task, result, row, cache, faults>>

GetHit(c) ==
  /\ poll[c] = "get"
  /\ Cached
  /\ Judge(c, cache.is)
  /\ UNCHANGED <<now, task, result, row, cache, faults>>

\* A miss, or an error of Redis that passes for one.
GetMiss(c) ==
  /\ poll[c] = "get"
  /\ IF Cached THEN Fault("redis") ELSE UNCHANGED faults
  /\ Goto(c, "load")
  /\ UNCHANGED <<now, task, result, row, cache>>

FromRow == IF row = "done" THEN "bare" ELSE row

LoadSnapshot(c) ==
  /\ poll[c] = "load"
  /\ Judge(c, FromRow)
  /\ UNCHANGED <<now, task, result, row, cache, faults>>

LoadFails(c) ==
  /\ poll[c] = "load"
  /\ Fault("pg")
  /\ told' = [told EXCEPT ![c] = "error"]
  /\ poll' = [poll EXCEPT ![c] = "idle"]
  /\ UNCHANGED <<now, task, result, row, cache>>

StoreFailed(c) ==
  /\ poll[c] = "storeFailed"
  /\ StoreSnapshot("failed")
  /\ Goto(c, "persistFailed")
  /\ UNCHANGED <<now, task, result, row>>

PersistFailed(c) ==
  /\ poll[c] = "persistFailed"
  /\ PersistResult("failed")
  /\ Respond(c, "failed")
  /\ UNCHANGED <<now, task, result, cache>>

-----------------------------------------------------------------------------
\* The API process dies with the task and the polls it runs, and is restarted.
Die ==
  /\ Fault("die")
  /\ task' = CASE task \in {"insert", "cache"} -> "lost"
               [] task \in {"done", "lost"} -> task
               [] OTHER -> "dead"
  /\ told' = [c \in Clients |-> IF poll[c] = "idle" THEN told[c] ELSE "error"]
  /\ poll' = [c \in Clients |-> "idle"]
  /\ UNCHANGED <<now, result, row, cache>>

\* Time passes, but the provider call is cut off at the deadline, starting
\* takes less than a tick, and recording the result less than the grace.
Tick ==
  /\ now < Horizon
  /\ task \notin {"insert", "cache", "lost"}
  /\ task = "provider" => now < Deadline
  /\ task \in {"store", "persist"} => now < Deadline + Grace
  /\ now' = now + 1
  /\ UNCHANGED <<task, result, row, cache, poll, told, faults>>

Task == InsertSession \/ CacheSession \/ ProviderEnds \/ TaskStores \/ TaskPersists

PollStep(c) ==
  \/ GetHit(c) \/ GetMiss(c) \/ LoadSnapshot(c) \/ StoreFailed(c) \/ PersistFailed(c)

\* A search that was not started, or whose client never got its id.
Rest == task = "lost" /\ UNCHANGED vars

Next ==
  \/ Task
  \/ \E c \in Clients : Poll(c) \/ PollStep(c) \/ LoadFails(c)
  \/ Die
  \/ Tick
  \/ Rest

Spec == Init /\ [][Next]_vars

\* Tasks and polls run on, time passes, and a client polls again and again.
FairSpec ==
  /\ Spec
  /\ WF_vars(Task)
  /\ WF_vars(Tick)
  /\ \A c \in Clients : WF_vars(Poll(c)) /\ WF_vars(PollStep(c))

-----------------------------------------------------------------------------
\* A poll fails a session only when the task of the search died before it
\* recorded its result (search.py:113; docs/API.md:148).
LazyFailMeansDead ==
  \A c \in Clients : poll[c] \in {"storeFailed", "persistFailed"} => task = "dead"

\* It takes an error of Redis or PostgreSQL to fail a search that lives, or has
\* ended: age alone does not, however polls and task interleave (search.py:112-119).
OnlyErrorsFailLiveSearches == Healthy => LazyFailMeansDead

\* The status of the row leaves PENDING once, unless an error hid it.
RowVerdictIsFinal == [][Healthy' /\ ~(row \in {"pending", None}) => row' = row]_vars

\* A client that was given a verdict is never told "pending" again, nor the
\* opposite verdict, unless the task died between its two writes or an error
\* hid one of them.
AnswersNeverGoBack ==
  [][\A c \in Clients : Healthy' /\ told[c] \in Verdicts =>
       /\ told'[c] # "pending"
       /\ told[c] # "failed" /\ told'[c] = "failed" => task = "dead"
       /\ told[c] = "failed" => told'[c] \notin {"done", "bare"}]_vars

\* "done" comes with the offers that were found (docs/API.md:146) while Redis
\* works, up to the last second of the session: there the snapshot, whose time
\* to live was cut to whole seconds, may be gone, and the row has no offers.
DoneHasOffers ==
  [][\A c \in Clients : Healthy' /\ poll[c] # "idle" /\ poll'[c] = "idle" /\ told'[c] = "bare"
       => now > SessionTTL - Second]_vars

\* A search whose client polls it does not stay PENDING, even if its task died.
SessionSettles == row = "pending" ~> row \in {"done", "failed"} \/ task = "lost"
=============================================================================
