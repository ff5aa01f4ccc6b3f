-------------------------- MODULE IdempotencyKeys --------------------------
(***************************************************************************)
(* Table idempotency_keys under PostgreSQL READ COMMITTED, and the         *)
(* statements IdempotencyRepository sends to it.  A row is reached through *)
(* its slot (agent, scope, key).  At most one transaction at a time has an *)
(* uncommitted write in a slot: an INSERT waits in the unique index for an *)
(* uncommitted writer of the slot, an UPDATE waits for the row lock.       *)
(* The handlers that issue these statements are in module Orders.          *)
(***************************************************************************)
EXTENDS OrderData

VARIABLES
  keys,     \* keys[s]: the committed row of slot s
  pending,  \* pending[s]: the uncommitted write in slot s, and its request
  idem      \* idem[r]: the row object in the session of request r

keyVars == <<keys, pending, idem>>

KeysTypeOK ==
  /\ keys \in [Slots -> KeyRows \cup {None}]
  /\ pending \in [Slots -> [by : Requests, row : KeyRows] \cup {None}]
  /\ idem \in [Requests -> KeyRows \cup {None}]

KeysInit ==
  /\ keys = [s \in Slots |-> None]
  /\ pending = [s \in Slots |-> None]
  /\ idem = [r \in Requests |-> None]

\* The open transaction of r has written slot s.
Writes(r, s) == pending[s] # None /\ pending[s].by = r

\* No transaction but that of r has an uncommitted write in slot s.
Writable(r, s) == pending[s] # None => pending[s].by = r

LockedRow(r, h) == [id |-> r, status |-> "LOCKED", hash |-> h, body |-> None]

\* Faulty variant: the claim is committed before the work it guards.
InsertKeyCommitted(r, s, h) ==
  /\ pending[s] = None
  /\ keys[s] = None
  /\ keys' = [keys EXCEPT ![s] = LockedRow(r, h)]
  /\ idem' = [idem EXCEPT ![r] = LockedRow(r, h)]
  /\ UNCHANGED pending

\* INSERT ... ON CONFLICT DO NOTHING RETURNING id, when no row conflicts.
\* The row stays invisible to the others until the caller commits.
InsertKey(r, s, h) ==
  /\ pending[s] = None
  /\ keys[s] = None
  /\ pending' = [pending EXCEPT ![s] = [by |-> r, row |-> LockedRow(r, h)]]
  /\ idem' = [idem EXCEPT ![r] = LockedRow(r, h)]
  /\ UNCHANGED keys

\* The same statement, when it meets a committed row: nothing is inserted.
ConflictKey(s) == pending[s] = None /\ keys[s] # None

\* Faulty variants: a replay for any payload; COMPLETED or LOCKED keys retried.
AnyPayload(s, h)   == TRUE
AlsoCompleted(s)   == keys[s].status # "LOCKED"
AlsoLocked(s)      == keys[s].status # "COMPLETED"

\* A COMPLETED key is replayed for the payload it was completed with.
SamePayload(s, h) == keys[s].hash = h

\* A FAILED key may be claimed again.
Retryable(s) == keys[s].status = "FAILED"

\* A FAILED row is taken over with an UPDATE of the attributes that differ
\* from the object read before; nothing checks that it is still FAILED.
ReclaimKey(r, s, h) ==
  LET row == [keys[s] EXCEPT !.status = "LOCKED",
                             !.hash = IF idem[r].hash = h THEN @ ELSE h]
  IN  /\ Writable(r, s)
      /\ pending' = [pending EXCEPT ![s] = [by |-> r, row |-> row]]
      /\ idem' = [idem EXCEPT ![r] = [@ EXCEPT !.status = "LOCKED", !.hash = h]]
      /\ UNCHANGED keys

\* Faulty variant: the key is not part of the transaction that commits.
CommitWithoutKey(r) ==
  /\ pending' = [s \in Slots |-> IF Writes(r, s) THEN None ELSE pending[s]]
  /\ UNCHANGED keys

\* The writes of r become visible with the commit of its transaction...
CommitKeys(r) ==
  /\ keys' = [s \in Slots |-> IF Writes(r, s) THEN pending[s].row ELSE keys[s]]
  /\ pending' = [s \in Slots |-> IF Writes(r, s) THEN None ELSE pending[s]]

\* ... and vanish with its rollback: an inserted row is gone.
RollBackKeys(r) ==
  /\ pending' = [s \in Slots |-> IF Writes(r, s) THEN None ELSE pending[s]]
  /\ UNCHANGED keys

\* Faulty variant: the answer is stored, the status stays LOCKED.
CompleteKeyLocked(r, s, body) ==
  LET row == IF Writes(r, s) THEN pending[s].row ELSE keys[s]
  IN  /\ Writable(r, s)
      /\ keys' = [keys EXCEPT ![s] = [row EXCEPT !.body = body]]
      /\ pending' = [pending EXCEPT ![s] = None]

\* complete(): store the answer in the claimed row and commit.
CompleteKey(r, s, body) ==
  LET row == IF Writes(r, s) THEN pending[s].row ELSE keys[s]
  IN  /\ Writable(r, s)
      /\ keys' = [keys EXCEPT ![s] = [row EXCEPT !.status = "COMPLETED", !.body = body]]
      /\ pending' = [pending EXCEPT ![s] = None]

\* fail(), first statement: does the claimed row exist after the rollback?
KeyRemains(r, s) == keys[s] # None /\ keys[s].id = idem[r].id

\* fail(), second statement: mark the row FAILED and commit.
FailKey(r, s) ==
  /\ Writable(r, s)
  /\ keys' = [keys EXCEPT ![s] = [@ EXCEPT !.status = "FAILED"]]
  /\ UNCHANGED pending
=============================================================================
