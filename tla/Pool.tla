--------------------------------- MODULE Pool --------------------------------
(***************************************************************************)
(* The database connections of one API process (db/session.py).  A request *)
(* checks a connection out with the first statement of its session and     *)
(* returns it at a commit, a rollback or its end; some operations open a   *)
(* second session meanwhile, and wait for a second connection while they   *)
(* hold the first.  A checkout that waits too long raises.                 *)
(***************************************************************************)
EXTENDS Sequences, FiniteSets, Integers

CONSTANTS
  Requests,  \* the requests and background tasks of the process
  PoolSize   \* pool_size + max_overflow

ASSUME PoolAssumption == IsFiniteSet(Requests) /\ PoolSize \in Nat \ {0}

\* What each operation asks of the database, in order:
\*   "own"     a statement of the request's session
\*   "commit"  a commit of that session
\*   "drop"    a rollback of that session
\*   "read"    a session of its own that reads, whose failure is the request's
\*   "write"   the same, and commits
\*   "note"    a session of its own whose failure is swallowed
Steps == {"own", "commit", "drop", "read", "write", "note"}

\* Every operation but tasks and health checks begins with the auth
\* dependency's look at the agent.  One that needs less (no key, a cache hit,
\* a poll in time) does a part of these.
ViewSteps    == <<"own">>
BookSteps    == <<"own", "commit", "own", "commit">>
RejectSteps  == <<"own", "drop", "own", "commit">>
ContentSteps == <<"own", "note">>
PollSteps    == <<"own", "read", "note">>
TaskSteps    == <<"note", "note">>
ReadySteps   == <<"note">>

\* Faulty variants: the fallback renders before the key is completed; the new
\* search is read back after it was committed.
RendersFirst == <<"own", "commit", "own", "note", "note", "commit">>
ReadsBack    == <<"own", "write", "read">>

IssueSteps  == <<"own", "commit", "own", "commit", "note", "note">>
SearchSteps == <<"own", "write">>

Plan == [
  view    |-> ViewSteps,
  book    |-> BookSteps,
  issue   |-> IssueSteps,
  reject  |-> RejectSteps,
  content |-> ContentSteps,
  search  |-> SearchSteps,
  poll    |-> PollSteps,
  task    |-> TaskSteps,
  ready   |-> ReadySteps]

Kinds == DOMAIN Plan

VARIABLES
  kind,    \* kind[r]: the operation that r performs
  at,      \* at[r]: how many steps of its plan r has behind it
  held,    \* who holds a connection, and for which session
  wrote,   \* the requests that committed something
  answer   \* answer[r]: how r ended

vars == <<kind, at, held, wrote, answer>>

Own(r)   == <<r, "own">>
Extra(r) == <<r, "extra">>

TypeOK ==
  /\ kind \in [Requests -> Kinds]
  /\ at \in [Requests -> 0 .. 6]
  /\ \A r \in Requests : at[r] <= Len(Plan[kind[r]])
  /\ held \subseteq Requests \X {"own", "extra"}
  /\ Cardinality(held) <= PoolSize
  /\ wrote \subseteq Requests
  /\ answer \in [Requests -> {"none", "ok", "error"}]

Init ==
  /\ kind \in [Requests -> Kinds]
  /\ at = [r \in Requests |-> 0]
  /\ held = {}
  /\ wrote = {}
  /\ answer = [r \in Requests |-> "none"]

-----------------------------------------------------------------------------
Left(r) == at[r] < Len(Plan[kind[r]])

\* The step that r is about to take, or takes.
Now(r) == Plan[kind[r]][at[r] + 1]

At(r, steps) == answer[r] = "none" /\ Left(r) /\ Now(r) \in steps

Full == Cardinality(held) = PoolSize

\* r needs a connection that it does not have.
Waits(r) ==
  \/ At(r, {"own"}) /\ Own(r) \notin held
  \/ At(r, {"read", "write", "note"}) /\ Extra(r) \notin held

Goes(r) == at' = [at EXCEPT ![r] = @ + 1]

TakesOne(r) ==
  IF Now(r) = "own"
    THEN held' = held \cup {Own(r)} /\ Goes(r)
    ELSE held' = held \cup {Extra(r)} /\ UNCHANGED at

\* Faulty variant: a pool without a limit.
CheckOutAnyway(r) ==
  Waits(r) /\ TakesOne(r) /\ UNCHANGED <<kind, wrote, answer>>

CheckOut(r) ==
  /\ Waits(r)
  /\ ~Full
  /\ TakesOne(r)
  /\ UNCHANGED <<kind, wrote, answer>>

EndTransaction(r) ==
  /\ At(r, {"commit", "drop"})
  /\ held' = held \ {Own(r)}
  /\ wrote' = wrote \cup IF Now(r) = "commit" THEN {r} ELSE {}
  /\ Goes(r)
  /\ UNCHANGED <<kind, answer>>

\* The second session is done and closed.
CheckIn(r) ==
  /\ At(r, {"read", "write", "note"})
  /\ Extra(r) \in held
  /\ held' = held \ {Extra(r)}
  /\ wrote' = wrote \cup IF Now(r) = "write" THEN {r} ELSE {}
  /\ Goes(r)
  /\ UNCHANGED <<kind, answer>>

End(r, verdict) ==
  /\ held' = held \ {Own(r)}
  /\ answer' = [answer EXCEPT ![r] = verdict]

\* Faulty variant: audit records wait for a connection as long as it takes.
ExpireStrictly(r) ==
  /\ Waits(r)
  /\ Full
  /\ Now(r) # "note"
  /\ End(r, "error")
  /\ UNCHANGED <<kind, at, wrote>>

\* The pool's timeout: r has waited and finds no connection free.  A note is
\* given up, anything else fails the request.
Expire(r) ==
  /\ Waits(r)
  /\ Full
  /\ IF Now(r) = "note"
       THEN Goes(r) /\ UNCHANGED <<held, answer>>
       ELSE End(r, "error") /\ UNCHANGED at
  /\ UNCHANGED <<kind, wrote>>

\* get_session closes the session.
Respond(r) ==
  /\ answer[r] = "none"
  /\ ~Left(r)
  /\ End(r, "ok")
  /\ UNCHANGED <<kind, at, wrote>>

Step(r) ==
  \/ CheckOut(r)
  \/ EndTransaction(r)
  \/ CheckIn(r)
  \/ Expire(r)
  \/ Respond(r)

Finished == (\A r \in Requests : answer[r] # "none") /\ UNCHANGED vars

Next == (\E r \in Requests : Step(r)) \/ Finished

Spec == Init /\ [][Next]_vars

\* No request stops running by itself, and waiting is bounded.
FairSpec == Spec /\ \A r \in Requests : WF_vars(Step(r))

-----------------------------------------------------------------------------
(* Properties *)

\* Nobody can go on but by giving up.
Stuck == Full /\ \A r \in Requests : answer[r] = "none" => Waits(r)

\* The operations that wait for a connection while they hold one.
Nesting == {"content", "search", "poll"}

\* The pool can stand still, every connection held by a request that waits
\* for its second one: but only content lookups, searches and polls do that,
\* never a booking, an issue or a background task (api/deps.py:36 against
\* audit.py:30, search.py:64, 200, 237).
StuckIsNested ==
  Stuck => \A h \in held : /\ h = Own(h[1])
                           /\ kind[h[1]] \in Nesting
                           /\ At(h[1], {"read", "write", "note"})

\* A request that fails for want of a connection has written nothing, unless
\* it is a keyed booking or issue, which commits before it completes its key
\* (booking.py:132, 84; issuing.py:140, 160).
OnlyKeysAreLeftBehind ==
  \A r \in wrote : answer[r] = "error" => kind[r] \in {"book", "issue"}

\* Every request ends, the standstill included (db/session.py:21-26).
EveryRequestEnds == \A r \in Requests : <>(answer[r] # "none")
=============================================================================
