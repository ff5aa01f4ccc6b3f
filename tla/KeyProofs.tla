------------------------------ MODULE KeyProofs ------------------------------
(***************************************************************************)
(* Idempotency keys: as long as no acknowledgement of a commit is lost, a  *)
(* key row and its effect appear in one step and a request touches no row  *)
(* but its own, hence a committed key has done its work, its answer is     *)
(* final, and the requests that share it book one order and get one        *)
(* answer.  And, with or without lost acknowledgements: the only deadlocks *)
(* are those of issues that carry a key.                                   *)
(***************************************************************************)
EXTENDS OrderProofs

-----------------------------------------------------------------------------
(* The inductive invariant *)

\* Where a request stands between its claim and the end of its transaction,
\* and where it may stand once its row is committed.
Working == {"provider", "lockAgent", "lockOrder", "decide"}
Past    == {"complete", "kick", "done", "dead"}

Success == {"ok", "replayed"}

\* An uncommitted key row is the claim of a request at work: it was inserted,
\* in a free slot, by the transaction that is still open.
ClaimOK(s) ==
  LET r == pending[s].by IN
  /\ pc[r] \in Working
  /\ Keyed(r) /\ SlotOf(r) = s
  /\ pending[s].row = LockedRow(r, call[r].arg)
  /\ keys[s] = None

\* A committed key row was inserted by a request that got past its commit.
RowOK(s) ==
  LET r == keys[s].id IN
  /\ pc[r] \in Past
  /\ Keyed(r) /\ SlotOf(r) = s
  /\ keys[s].hash = call[r].arg
  /\ keys[s].status \in {"LOCKED", "COMPLETED"}
  /\ HasItsEffect(s)

SlotOK(s) ==
  /\ pending[s] # None => ClaimOK(s)
  /\ keys[s] # None => RowOK(s)

\* A body to be stored in slot s is about the effect of its row.
Fits(body, s) ==
  /\ body.order = EffectOf(s)
  /\ s[2] = "issue" => body.ticket = orders[EffectOf(s)].ticket

\* The row of r holds the answer of r.
Stored(r) ==
  /\ keys[SlotOf(r)] # None
  /\ keys[SlotOf(r)].status = "COMPLETED"
  /\ keys[SlotOf(r)].hash = call[r].arg
  /\ keys[SlotOf(r)].body = reply[r].body

\* The row of r is committed, and r is about to complete it.
Completing(r) ==
  /\ keys[SlotOf(r)].id = r
  /\ keys[SlotOf(r)].status = "LOCKED"
  /\ reply[r].code = "ok"
  /\ Fits(reply[r].body, SlotOf(r))

\* A request works under a claim of its own, completes its own row, and its
\* success is the answer of the row of its key; an order that a keyed request
\* booked has that key's row.
RequestOK(r) ==
  /\ pc[r] \notin {"reclaim", "mark"}
  /\ pc[r] \in Working /\ Keyed(r) => Writes(r, SlotOf(r))
  /\ pc[r] \in Working \cup {"fail"} /\ Keyed(r) => idem[r].id = r
  /\ pc[r] = "fail" => reply[r].code \notin Success
  /\ pc[r] = "complete" => Completing(r)
  /\ pc[r] \in {"kick", "done"} /\ Keyed(r) /\ reply[r].code \in Success => Stored(r)
  /\ orders[r] # None =>
       /\ call[r].op = "book"
       /\ Keyed(r) => keys[SlotOf(r)] # None /\ keys[SlotOf(r)].id = r

KeyInv ==
  /\ \A s \in Slots : SlotOK(s)
  /\ \A r \in Requests : RequestOK(r)

-----------------------------------------------------------------------------
(* What any step leaves alone *)

\* No order vanishes or changes hands, and an issued one is final.
OrdersKept ==
  \A o \in OrderIds : orders[o] # None =>
    /\ orders'[o] # None
    /\ orders'[o].agent = orders[o].agent
    /\ orders'[o].payload = orders[o].payload
    /\ orders[o].status = "ISSUED" => orders'[o] = orders[o]

\* An order is inserted where there was none, and issued when it is BOOKED.
LEMMA NextOrdersKept ==
  ASSUME Inv, [Next]_vars
  PROVE  OrdersKept
<1>1. ASSUME NEW r \in Requests, InsertOrder(r) PROVE OrdersKept
  <2>1. /\ orders[r] = None
        /\ orders' = [orders EXCEPT ![r] = NewOrder(AgentOf(r), call[r].arg)]
    BY <1>1 DEF InsertOrder, Inv, AwaitsAreSound, AwaitOK
  <2> QED
    BY <2>1 DEF OrdersKept, Inv, TypeOK
<1>2. ASSUME NEW r \in Requests, IssueCommit(r) PROVE OrdersKept
  <2> DEFINE o == call[r].arg
  <2>1. /\ o \in OrderIds /\ orders[o] # None /\ orders[o].status = "BOOKED"
        /\ orders' = [orders EXCEPT ![o] = IssuedRow(o)]
    BY <1>2, LockingTyped
       DEF Inv, IssueCommit, Issuable, Locking, AwaitsAreSound, AwaitOK
  <2>2. orders[o] \in OrderRows /\ TicketOf[o] \in Tickets
    BY <2>1, OrderIdAssumption DEF Inv, TypeOK
  <2>3. /\ IssuedRow(o) \in OrderRows
        /\ IssuedRow(o).agent = orders[o].agent
        /\ IssuedRow(o).payload = orders[o].payload
    BY <2>2 DEF IssuedRow, OrderRows
  <2> HIDE DEF o
  <2> QED
    BY <2>1, <2>3, NoneAssumption DEF OrdersKept, Inv, TypeOK
<1>3. CASE UNCHANGED books
  BY <1>3 DEF OrdersKept, books
<1> QED
  BY <1>1, <1>2, <1>3, BooksChange

\* The request and the slot of a committed row, and the order it stands for.
LEMMA RowTyped ==
  ASSUME Inv, NEW s \in Slots, keys[s] # None, RowOK(s)
  PROVE  /\ keys[s] \in KeyRows
         /\ keys[s].id \in Requests
         /\ s = <<AgentOf(keys[s].id), call[keys[s].id].op, call[keys[s].id].key>>
         /\ call[keys[s].id] \in Calls
         /\ EffectOf(s) \in OrderIds
<1> DEFINE q == keys[s].id
<1>1. keys[s] \in KeyRows /\ q \in Requests
  BY DEF Inv, TypeOK, KeysTypeOK, KeyRows
<1>2. pc[q] # "idle" /\ AwaitOK(q)
  BY <1>1 DEF RowOK, Past, Inv, AwaitsAreSound
<1>3. call[q] \in Calls
  BY <1>2 DEF AwaitOK
<1>4. s = <<AgentOf(q), call[q].op, call[q].key>> /\ keys[s].hash = call[q].arg
  BY DEF RowOK, SlotOf, AgentOf
<1>5. s[2] = call[q].op
  BY <1>4
<1>6. EffectOf(s) \in OrderIds
  <2>1. CASE s[2] = "book"
    BY <1>1, <2>1 DEF EffectOf, OrderIds
  <2>2. CASE s[2] # "book"
    <3>1. call[q].op = "issue"
      BY <1>3, <1>5, <2>2 DEF Calls
    <3>2. call[q].arg \in OrderIds
      BY <1>1, <1>2, <3>1, CallTyped DEF Inv
    <3> QED
      BY <1>4, <2>2, <3>2 DEF EffectOf
  <2> QED
    BY <2>1, <2>2
<1> QED
  BY <1>1, <1>3, <1>4, <1>6

\* A row that stays as it is keeps its effect.
LEMMA EffectKept ==
  ASSUME Inv, OrdersKept, NEW s \in Slots, keys[s] # None, RowOK(s), keys'[s] = keys[s]
  PROVE  HasItsEffect(s)' /\ EffectOf(s)' = EffectOf(s)
<1> DEFINE o == EffectOf(s)
<1>1. o \in OrderIds /\ EffectOf(s)' = o
  BY RowTyped DEF EffectOf
<1>2. /\ orders[o] # None /\ orders[o].agent = s[1]
      /\ s[2] = "book" => orders[o].payload = keys[s].hash
      /\ s[2] = "issue" => orders[o].status = "ISSUED"
      /\ keys[s].status = "COMPLETED" =>
           /\ keys[s].body.order = o
           /\ s[2] = "issue" => keys[s].body.ticket = orders[o].ticket
  BY DEF RowOK, HasItsEffect
<1> HIDE DEF o
<1>3. /\ orders'[o] # None /\ orders'[o].agent = orders[o].agent
      /\ orders'[o].payload = orders[o].payload
      /\ s[2] = "issue" => orders'[o] = orders[o]
  BY <1>1, <1>2 DEF OrdersKept
<1> QED
  BY <1>1, <1>2, <1>3 DEF HasItsEffect, o

\* Request r, in whatever it does, is the only one to move (Frame), and goes on.
Moves(r) ==
  /\ Frame(r)
  /\ OrdersKept
  /\ pc[r] # "idle" => call'[r] = call[r]
  /\ pc[r] \in Past => pc'[r] \in Past

\* A slot r does not write stays right; so does one whose write r takes back.
LEMMA SlotStays ==
  ASSUME Inv, KeyInv, NEW r \in Requests, Moves(r), NEW s \in Slots,
         keys'[s] = keys[s], pending'[s] \in {pending[s], None},
         Writes(r, s)' => pc'[r] \in Working
  PROVE  SlotOK(s)'
<1>1. SlotOK(s)
  BY DEF KeyInv
<1>2. ASSUME pending'[s] # None PROVE ClaimOK(s)'
  <2> DEFINE q == pending[s].by
  <2>1. /\ pending'[s] = pending[s] /\ pending[s] # None
        /\ ClaimOK(s) /\ q \in Requests
    BY <1>1, <1>2 DEF SlotOK, Inv, TypeOK, KeysTypeOK
  <2>2. pc[q] \in Working
    BY <2>1 DEF ClaimOK
  <2>3. pc'[q] \in Working /\ call'[q] = call[q]
    <3>1. CASE q = r
      BY <1>2, <2>1, <2>2, <3>1 DEF Moves, Working, Writes
    <3>2. CASE q # r
      BY <2>1, <2>2, <3>2 DEF Moves, Frame
    <3> QED
      BY <3>1, <3>2
  <2> QED
    BY <2>1, <2>3 DEF ClaimOK, Keyed, SlotOf
<1>3. ASSUME keys'[s] # None PROVE RowOK(s)'
  <2> DEFINE q == keys[s].id
  <2>1. keys[s] # None /\ RowOK(s)
    BY <1>1, <1>3 DEF SlotOK
  <2>2. q \in Requests
    BY <2>1, RowTyped
  <2>3. pc[q] \in Past
    BY <2>1 DEF RowOK
  <2>4. pc'[q] \in Past /\ call'[q] = call[q]
    <3>1. CASE q = r
      BY <2>3, <3>1 DEF Moves, Past
    <3>2. CASE q # r
      BY <2>2, <2>3, <3>2 DEF Moves, Frame
    <3> QED
      BY <3>1, <3>2
  <2>5. HasItsEffect(s)'
    BY <2>1, EffectKept DEF Moves
  <2> QED
    BY <2>1, <2>4, <2>5 DEF RowOK, Keyed, SlotOf
<1> QED
  BY <1>2, <1>3 DEF SlotOK

\* Request r changes no slot but its own, there nothing that another request
\* writes, and of committed rows only the one it has still to complete.
OwnSlotOnly(r) ==
  \A s \in Slots :
    \/ keys'[s] = keys[s] /\ pending'[s] = pending[s]
    \/ /\ Keyed(r) /\ SlotOf(r) = s
       /\ Writable(r, s)
       /\ keys[s] # None => keys[s].id = r /\ keys[s].status = "LOCKED"

\* What the others rely on stays: they share the slot of r, or they do not.
LEMMA OthersKeep ==
  ASSUME Inv, KeyInv, NEW r \in Requests, Moves(r), OwnSlotOnly(r),
         NEW q \in Requests \ {r}
  PROVE  RequestOK(q)'
<1> DEFINE s == SlotOf(q)
<1>1. /\ RequestOK(q) /\ AwaitOK(q)
      /\ pc[q] # "idle" /\ Keyed(q) => s \in Slots
  BY CallTyped DEF KeyInv, Inv, AwaitsAreSound
<1>2. /\ pc'[q] = pc[q] /\ call'[q] = call[q] /\ idem'[q] = idem[q]
      /\ reply'[q] = reply[q] /\ (orders[q] = None => orders'[q] = None)
  BY DEF Moves, Frame
<1>3. SlotOf(q)' = s /\ Keyed(q)' = Keyed(q)
  BY <1>2 DEF SlotOf, Keyed
<1>4. pc[q] \in Working /\ Keyed(q) => Writes(q, s)'
  BY <1>1, <1>2, <1>3 DEF RequestOK, Working, Moves, Frame, KeyFrame
<1>5. ASSUME pc[q] = "complete" PROVE Completing(q)'
  <2>1. /\ Keyed(q) /\ s \in Slots /\ keys[s] # None /\ Completing(q)
    BY <1>1, <1>5 DEF AwaitOK, RequestOK
  <2>2. keys'[s] = keys[s]
    BY <2>1 DEF OwnSlotOnly, Completing
  <2>3. RowOK(s)
    BY <2>1 DEF KeyInv, SlotOK
  <2>4. EffectOf(s) \in OrderIds /\ EffectOf(s)' = EffectOf(s)
    <3>1. EffectOf(s) \in OrderIds
      BY <2>1, <2>3, RowTyped
    <3> QED
      BY <1>3, <2>2, <3>1 DEF EffectOf
  <2>5. s[2] = "issue" => orders'[EffectOf(s)] = orders[EffectOf(s)]
    BY <2>3, <2>4 DEF RowOK, HasItsEffect, Moves, OrdersKept
  <2>6. Fits(reply[q].body, s) => Fits(reply[q].body, s)'
    BY <1>2, <1>3, <2>4, <2>5 DEF Fits
  <2> QED
    BY <1>2, <1>3, <2>1, <2>2, <2>6 DEF Completing, Fits
<1>6. ASSUME pc[q] \in {"kick", "done"}, Keyed(q), reply[q].code \in Success
      PROVE  Stored(q)'
  <2>1. s \in Slots /\ Stored(q)
    BY <1>1, <1>6 DEF RequestOK
  <2>2. keys'[s] = keys[s]
    BY <2>1 DEF OwnSlotOnly, Stored
  <2> QED
    BY <1>2, <1>3, <2>1, <2>2 DEF Stored
<1>7. ASSUME orders'[q] # None
      PROVE  /\ call[q].op = "book"
             /\ Keyed(q) => keys'[s] # None /\ keys'[s].id = q
  <2>1. /\ orders[q] # None /\ call[q].op = "book"
        /\ Keyed(q) => keys[s] # None /\ keys[s].id = q
    BY <1>1, <1>2, <1>7 DEF RequestOK
  <2>2. pc[q] # "idle"
    BY <1>1, <2>1 DEF AwaitOK
  <2> QED
    BY <1>1, <2>1, <2>2 DEF OwnSlotOnly
<1> QED
  BY <1>1, <1>2, <1>3, <1>4, <1>5, <1>6, <1>7 DEF RequestOK

-----------------------------------------------------------------------------
(* What each step does to the key of its request *)

\* What a step of r has to keep.
KeptBy(r) == OwnSlotOnly(r) /\ (\A s \in Slots : SlotOK(s)') /\ RequestOK(r)'

\* A step between the claim and the end, or outside both, writes no key.
LEMMA QuietStep ==
  ASSUME Inv, KeyInv, NEW r \in Requests, Moves(r), UNCHANGED <<keys, pending>>,
         pc[r] \in Working => pc'[r] \in Working
  PROVE  OwnSlotOnly(r) /\ (\A s \in Slots : SlotOK(s)')
<1>1. OwnSlotOnly(r)
  BY DEF OwnSlotOnly
<1>2. ASSUME NEW s \in Slots PROVE SlotOK(s)'
  <2>1. Writes(r, s)' => pc[r] \in Working
    BY DEF Writes, KeyInv, SlotOK, ClaimOK
  <2> QED
    BY <2>1, SlotStays
<1> QED
  BY <1>1, <1>2

\* A rollback takes back the claim of r, if it has one, and nothing else.
LEMMA RollBackStep ==
  ASSUME Inv, KeyInv, NEW r \in Requests, Moves(r), RollBackKeys(r)
  PROVE  OwnSlotOnly(r) /\ (\A s \in Slots : SlotOK(s)')
<1>1. ASSUME NEW s \in Slots PROVE ~Writes(r, s)' /\ SlotOK(s)'
  <2>1. /\ keys'[s] = keys[s] /\ pending'[s] \in {pending[s], None}
        /\ ~Writes(r, s)'
    BY DEF RollBackKeys, Writes
  <2> QED
    BY <2>1, SlotStays
<1>2. ASSUME NEW s \in Slots, Writes(r, s)
      PROVE  Keyed(r) /\ SlotOf(r) = s /\ Writable(r, s) /\ keys[s] = None
  BY <1>2 DEF KeyInv, SlotOK, ClaimOK, Writes, Writable
<1>3. ASSUME NEW s \in Slots, ~Writes(r, s)
      PROVE  keys'[s] = keys[s] /\ pending'[s] = pending[s]
  BY <1>3 DEF RollBackKeys
<1>4. OwnSlotOnly(r)
  BY <1>2, <1>3 DEF OwnSlotOnly
<1> QED
  BY <1>1, <1>4

\* The books row of r and its key row stand as they stood.
LEMMA BookingStays ==
  ASSUME NEW r \in Requests, RequestOK(r), UNCHANGED <<keys, call, orders>>
  PROVE  orders'[r] # None =>
           /\ call'[r].op = "book"
           /\ Keyed(r)' => keys'[SlotOf(r)'] # None /\ keys'[SlotOf(r)'].id = r
BY DEF RequestOK, Keyed, SlotOf

\* A request that raises, or that replays what its key has stored.
LEMMA FinishKept ==
  ASSUME Inv, KeyInv, NEW r \in Requests, Moves(r), NEW code \in Codes, NEW body,
         Finish(r, code, body),
         code \in Success /\ Keyed(r) =>
           LET row == keys[SlotOf(r)] IN
           row # None /\ row.status = "COMPLETED" /\ row.hash = call[r].arg /\ row.body = body
  PROVE  KeptBy(r)
<1>1. /\ RollBackKeys(r) /\ UNCHANGED <<keys, call, orders>>
      /\ pc'[r] = "done" /\ reply'[r] = [code |-> code, body |-> body]
  BY DEF Finish, RollBack, RollBackKeys, Goto, Answer, books, Inv, TypeOK
<1>2. RequestOK(r)
  BY DEF KeyInv
<1>3. code \in Success /\ Keyed(r)' => Stored(r)'
  BY <1>1 DEF Stored, Keyed, SlotOf
<1>4. RequestOK(r)'
  BY <1>1, <1>2, <1>3, BookingStays DEF RequestOK, Working
<1> QED
  BY <1>1, <1>4, RollBackStep DEF KeptBy

\* The exception handlers: the claim is gone, fail() will not find it.
LEMMA RollBackThenFailKept ==
  ASSUME Inv, KeyInv, NEW r \in Requests, Moves(r), pc[r] \in Working, Keyed(r),
         NEW code \in Codes \ Success, RollBackThenFail(r, code)
  PROVE  KeptBy(r)
<1>1. /\ RollBackKeys(r) /\ UNCHANGED <<keys, call, orders, idem>>
      /\ pc'[r] = "fail" /\ reply'[r] = [code |-> code, body |-> None]
  BY DEF RollBackThenFail, RollBack, RollBackKeys, Goto, Answer, books, Inv, TypeOK
<1>2. RequestOK(r)
  BY DEF KeyInv
<1>3. RequestOK(r)'
  BY <1>1, <1>2, BookingStays DEF RequestOK, Working
<1> QED
  BY <1>1, <1>3, RollBackStep DEF KeptBy

\* The arrival of a request.
LEMMA ArriveKept ==
  ASSUME Inv, KeyInv, NEW r \in Requests, Moves(r), NEW c \in Traffic, Arrive(r, c)
  PROVE  KeptBy(r)
<1>1. /\ pc[r] = "idle" /\ c \in Calls /\ orders[r] = None
      /\ UNCHANGED <<keys, pending, orders>> /\ call'[r] = c
      /\ pc'[r] = IF c.key = NoKey THEN WorkOf(c.op) ELSE "claim"
  BY TrafficAssumption
     DEF Arrive, Goto, keyVars, books, Inv, TypeOK, AwaitsAreSound, AwaitOK
<1>2. RequestOK(r)'
  BY <1>1 DEF RequestOK, Working, Keyed, WorkOf, LockSequence
<1> QED
  BY <1>1, <1>2, QuietStep DEF KeptBy, Working

\* The death of a request.
LEMMA DieKept ==
  ASSUME Inv, KeyInv, NEW r \in Requests, Moves(r), Die(r)
  PROVE  KeptBy(r)
<1>1. RollBackKeys(r) /\ UNCHANGED <<keys, call, orders>> /\ pc'[r] = "dead"
  BY DEF Die, RollBack, RollBackKeys, Goto, books, Inv, TypeOK
<1>2. RequestOK(r)
  BY DEF KeyInv
<1>3. RequestOK(r)'
  BY <1>1, <1>2, BookingStays DEF RequestOK, Working
<1> QED
  BY <1>1, <1>3, RollBackStep DEF KeptBy

\* The claim of a free slot.
LEMMA ClaimKept ==
  ASSUME Inv, KeyInv, NEW r \in Requests, Moves(r), Claim(r)
  PROVE  KeptBy(r)
<1> DEFINE s == SlotOf(r)
           row == LockedRow(r, call[r].arg)
<1>1. /\ pc[r] = "claim" /\ Keyed(r) /\ s \in Slots /\ call[r].op \in Ops
      /\ orders[r] = None /\ call[r].arg \in Hashes
  BY CallTyped DEF Claim, Inv, AwaitsAreSound, AwaitOK
<1>2. row \in KeyRows /\ row.id = r
  BY <1>1 DEF LockedRow, KeyRows, KeyStatus
<1>3. /\ keys[s] = None /\ pending[s] = None
      /\ UNCHANGED <<keys, call, orders>>
      /\ pending' = [pending EXCEPT ![s] = [by |-> r, row |-> row]]
      /\ idem'[r] = row
      /\ pc'[r] = WorkOf(call[r].op)
  BY DEF Claim, InsertKey, Goto, books, Inv, TypeOK, KeysTypeOK
<1> HIDE DEF row
<1>4. [by |-> r, row |-> row] # None /\ pc'[r] \in Working
  BY <1>1, <1>2, <1>3, NoneAssumption DEF WorkOf, LockSequence, Ops, Working
<1>5. /\ pending'[s] = [by |-> r, row |-> row]
      /\ \A t \in Slots \ {s} : pending'[t] = pending[t]
  BY <1>1, <1>3 DEF Inv, TypeOK, KeysTypeOK
<1>6. SlotOf(r)' = s /\ Keyed(r)'
  BY <1>1, <1>3 DEF SlotOf, Keyed
<1>7. OwnSlotOnly(r)
  BY <1>1, <1>3, <1>5 DEF OwnSlotOnly, Writable
<1>8. SlotOK(s)'
  <2>1. s' = s /\ pending'[s].by = r /\ pending'[s].row = row /\ row' = row
    BY <1>3, <1>5, <1>6 DEF row, LockedRow
  <2>2. ClaimOK(s)'
    BY <1>3, <1>4, <1>6, <2>1 DEF ClaimOK, row
  <2> QED
    BY <1>3, <2>1, <2>2 DEF SlotOK
<1>9. ASSUME NEW t \in Slots, t # s PROVE SlotOK(t)'
  BY <1>3, <1>4, <1>5, <1>9, SlotStays
<1>10. RequestOK(r)'
  <2>1. Writes(r, s)'
    BY <1>4, <1>5, <1>6 DEF Writes
  <2>2. SlotOf(r)' = s
    BY <1>6
  <2> QED
    BY <1>1, <1>2, <1>3, <1>4, <2>1, <2>2 DEF RequestOK, Working
<1> QED
  BY <1>6, <1>7, <1>8, <1>9, <1>10 DEF KeptBy

\* What complete() finds: the row of r, committed, and no other write.
LEMMA CompletingRow ==
  ASSUME Inv, KeyInv, NEW r \in Requests, pc[r] = "complete"
  PROVE  LET s == SlotOf(r) IN
         /\ Keyed(r) /\ s \in Slots /\ call[r] \in Calls
         /\ keys[s] # None /\ RowOK(s) /\ Completing(r)
         /\ pending[s] = None
         /\ reply[r] # None /\ reply[r].body \in Bodies
<1>1. RequestOK(r) /\ (SlotOf(r) \in Slots => SlotOK(SlotOf(r)))
  BY DEF KeyInv
<1>2. /\ Keyed(r) /\ SlotOf(r) \in Slots /\ call[r] \in Calls /\ keys[SlotOf(r)] # None
      /\ reply[r] # None /\ reply[r].body \in Bodies
  <2>1. AwaitOK(r)
    BY DEF Inv, AwaitsAreSound
  <2> QED
    BY <2>1, CallTyped DEF AwaitOK, Inv, TypeOK
<1> QED
  BY <1>1, <1>2 DEF RequestOK, SlotOK, ClaimOK

\* complete(): the LOCKED row of r gets the answer of r, once.
LEMMA CompleteKept ==
  ASSUME Inv, KeyInv, NEW r \in Requests, Moves(r), Complete(r)
  PROVE  KeptBy(r)
<1> DEFINE s == SlotOf(r)
           body == reply[r].body
           row == [keys[s] EXCEPT !.status = "COMPLETED", !.body = body]
<1>1. /\ pc[r] = "complete" /\ Keyed(r) /\ s \in Slots /\ call[r] \in Calls
      /\ keys[s] # None /\ RowOK(s) /\ Completing(r) /\ pending[s] = None
      /\ body \in Bodies
  BY CompletingRow DEF Complete
<1>2. keys[s] \in KeyRows /\ RequestOK(r)
  BY <1>1, RowTyped DEF KeyInv
<1>3. /\ row \in KeyRows
      /\ row.id = r /\ row.status = "COMPLETED" /\ row.body = body
      /\ row.hash = keys[s].hash
  <2> HIDE DEF body
  <2> QED
    BY <1>1, <1>2 DEF KeyRows, KeyStatus, Completing
<1>4. /\ keys' = [keys EXCEPT ![s] = row]
      /\ pending' = [pending EXCEPT ![s] = None]
      /\ pc'[r] = AfterComplete(call[r].op)
      /\ UNCHANGED <<call, reply, orders>>
  BY <1>1 DEF Complete, CompleteKey, Writes, Goto, books, Inv, TypeOK
<1> HIDE DEF row
<1>5. /\ keys'[s] = row /\ pending'[s] = None
      /\ \A t \in Slots \ {s} : keys'[t] = keys[t] /\ pending'[t] = pending[t]
  BY <1>1, <1>4 DEF Inv, TypeOK, KeysTypeOK
<1>6. /\ SlotOf(r)' = s /\ Keyed(r)' /\ pc'[r] \in {"kick", "done"}
      /\ reply'[r].body = body /\ reply'[r].code = reply[r].code
  BY <1>1, <1>4 DEF SlotOf, Keyed, AfterComplete
<1>7. OwnSlotOnly(r)
  BY <1>1, <1>5 DEF OwnSlotOnly, Writable, Completing
<1>8. HasItsEffect(s)'
  <2> DEFINE o == EffectOf(s)
  <2>1. s' = s /\ EffectOf(s)' = o
    BY <1>1, <1>3, <1>5, <1>6 DEF EffectOf, Completing
  <2>2. /\ orders[o] # None /\ orders[o].agent = s[1]
        /\ s[2] = "book" => orders[o].payload = keys[s].hash
        /\ s[2] = "issue" => orders[o].status = "ISSUED"
    BY <1>1 DEF RowOK, HasItsEffect
  <2>3. body.order = o /\ (s[2] = "issue" => body.ticket = orders[o].ticket)
    BY <1>1 DEF Completing, Fits
  <2> HIDE DEF o, body, s
  <2> QED
    BY <1>3, <1>4, <1>5, <2>1, <2>2, <2>3 DEF HasItsEffect
<1>9. SlotOK(s)'
  <2>1. keys'[s].hash = call'[r].arg /\ keys'[s].id = r
    BY <1>1, <1>3, <1>4, <1>5, RowTyped DEF RowOK, Completing
  <2>2. RowOK(s)'
    BY <1>3, <1>5, <1>6, <1>8, <2>1 DEF RowOK, Past
  <2> QED
    BY <1>5, <1>6, <2>2 DEF SlotOK
<1>10. ASSUME NEW t \in Slots, t # s PROVE SlotOK(t)'
  <2>1. Writes(r, t)' => pc[r] \in Working
    BY <1>5, <1>10 DEF Writes, KeyInv, SlotOK, ClaimOK
  <2> QED
    BY <1>1, <1>5, <1>10, <2>1, SlotStays DEF Working
<1>11. RequestOK(r)'
  <2>1. keys'[s] # None /\ keys'[s].hash = call'[r].arg
    BY <1>1, <1>3, <1>4, <1>5, NoneAssumption DEF RowOK, Completing
  <2>2. Stored(r)'
    BY <1>3, <1>5, <1>6, <2>1 DEF Stored
  <2>3. orders'[r] # None => call'[r].op = "book"
    BY <1>2, <1>4 DEF RequestOK
  <2> QED
    BY <1>3, <1>5, <1>6, <2>1, <2>2, <2>3 DEF RequestOK, Working
<1> QED
  BY <1>6, <1>7, <1>9, <1>10, <1>11 DEF KeptBy

\* The steps of a claim, of what follows a conflict, and of the completion.
LEMMA ClaimKeyKept ==
  ASSUME Inv, KeyInv, NEW r \in Requests, Moves(r), ClaimKey(r)
  PROVE  KeptBy(r)
<1> DEFINE s == SlotOf(r)
<1>1. RequestOK(r) /\ AwaitOK(r)
  BY DEF KeyInv, Inv, AwaitsAreSound
<1>2. CASE ClaimConflict(r)
  <2>1. /\ pc[r] = "claim" /\ pc'[r] = "conflict"
        /\ UNCHANGED <<keys, pending, call, orders>>
    BY <1>2 DEF ClaimConflict, Goto, keyVars, books, Inv, TypeOK
  <2>2. RequestOK(r)'
    BY <1>1, <2>1, BookingStays DEF RequestOK, Working
  <2> QED
    BY <2>1, <2>2, QuietStep DEF KeptBy, Working
<1>3. ASSUME pc[r] = "conflict" PROVE s \in Slots /\ keys[s] # None /\ RowOK(s)
  BY <1>1, <1>3, CallTyped DEF AwaitOK, KeyInv, SlotOK, Inv
<1>4. CASE ClaimReplay(r)
  BY <1>3, <1>4, FinishKept DEF ClaimReplay, SamePayload, Codes
<1>5. CASE ClaimReused(r) \/ ClaimInProgress(r)
  BY <1>5, FinishKept DEF ClaimReused, ClaimInProgress, Codes, Success
<1>6. ~ClaimFailed(r)
  BY <1>3 DEF ClaimFailed, Retryable, RowOK
<1>7. ~Reclaim(r)
  BY <1>1 DEF Reclaim, RequestOK
<1> QED
  BY <1>2, <1>4, <1>5, <1>6, <1>7, ClaimKept, CompleteKept DEF ClaimKey

\* A commit makes the claim of r a LOCKED row, and touches no other slot.
LEMMA CommitStep ==
  ASSUME Inv, KeyInv, NEW r \in Requests, Moves(r), CommitKeys(r)
  PROVE  /\ OwnSlotOnly(r)
         /\ \A s \in Slots : ~Writes(r, s) => SlotOK(s)'
         /\ \A s \in Slots : Writes(r, s) =>
              /\ Keyed(r) /\ SlotOf(r) = s
              /\ keys'[s] = LockedRow(r, call[r].arg) /\ pending'[s] = None
<1>1. ASSUME NEW s \in Slots, ~Writes(r, s)
      PROVE  keys'[s] = keys[s] /\ pending'[s] = pending[s] /\ SlotOK(s)'
  <2>1. keys'[s] = keys[s] /\ pending'[s] = pending[s] /\ ~Writes(r, s)'
    BY <1>1 DEF CommitKeys, Writes
  <2> QED
    BY <2>1, SlotStays
<1>2. ASSUME NEW s \in Slots, Writes(r, s)
      PROVE  /\ Keyed(r) /\ SlotOf(r) = s /\ Writable(r, s) /\ keys[s] = None
             /\ keys'[s] = LockedRow(r, call[r].arg) /\ pending'[s] = None
  BY <1>2 DEF KeyInv, SlotOK, ClaimOK, Writes, Writable, CommitKeys
<1> QED
  BY <1>1, <1>2 DEF OwnSlotOnly

\* A committed claim is right when the same step has its effect.
LEMMA ClaimCommitted ==
  ASSUME NEW r \in Requests, NEW s \in Slots, Keyed(r), SlotOf(r) = s, UNCHANGED call,
         keys'[s] = LockedRow(r, call[r].arg), pending'[s] = None,
         pc'[r] \in Past, HasItsEffect(s)'
  PROVE  SlotOK(s)'
<1>1. /\ keys'[s].id = r /\ keys'[s].status = "LOCKED" /\ keys'[s].hash = call'[r].arg
      /\ Keyed(r)' /\ SlotOf(r)' = s
  BY DEF LockedRow, Keyed, SlotOf
<1>2. RowOK(s)'
  BY <1>1 DEF RowOK
<1> QED
  BY <1>2 DEF SlotOK

\* _persist: the order and the key row appear together.
LEMMA PersistKept ==
  ASSUME Inv, KeyInv, NEW r \in Requests, Moves(r), Persist(r)
  PROVE  KeptBy(r)
<1> DEFINE s == SlotOf(r)
           order == NewOrder(AgentOf(r), call[r].arg)
<1>1. /\ pc[r] = "provider" /\ call[r].op = "book" /\ call[r] \in Calls
      /\ AgentOf(r) \in Agents /\ call[r].arg \in Payloads /\ r \in OrderIds
      /\ Keyed(r) => s \in Slots /\ Writes(r, s)
  BY CallTyped
     DEF Persist, InsertOrder, Inv, AwaitsAreSound, AwaitOK, KeyInv, RequestOK, Working,
         OrderIds
<1>2. /\ CommitKeys(r) /\ UNCHANGED call
      /\ orders'[r] = order
      /\ pc'[r] = IF Keyed(r) THEN "complete" ELSE "done"
      /\ reply'[r] = [code |-> "ok", body |-> BookingBody(r)]
  BY <1>1 DEF Persist, InsertOrder, Commit, Goto, Answer, Inv, TypeOK
<1>3. order # None
  <2>1. order \in OrderRows
    BY <1>1 DEF NewOrder, OrderRows
  <2> QED
    BY <2>1, NoneAssumption
<1>4. CASE Keyed(r)
  <2>1. /\ keys'[s] = LockedRow(r, call[r].arg) /\ pending'[s] = None
        /\ s' = s /\ Keyed(r)' /\ s \in Slots
        /\ \A t \in Slots : t # s => SlotOK(t)'
    BY <1>1, <1>2, <1>4, CommitStep DEF SlotOf, Keyed
  <2>2. /\ keys'[s] # None /\ keys'[s].id = r /\ keys'[s].status = "LOCKED"
        /\ keys'[s].hash = call[r].arg
    <3>1. LockedRow(r, call[r].arg) \in KeyRows
      BY <1>1 DEF LockedRow, KeyRows, KeyStatus, Hashes
    <3> QED
      BY <2>1, <3>1, NoneAssumption DEF LockedRow
  <2>3. s[1] = AgentOf(r) /\ s[2] = "book"
    BY <1>1 DEF SlotOf, AgentOf
  <2>4. EffectOf(s)' = r
    BY <2>1, <2>2, <2>3 DEF EffectOf
  <2>5. HasItsEffect(s)'
    BY <1>2, <1>3, <2>1, <2>2, <2>3, <2>4 DEF HasItsEffect, NewOrder
  <2>6. SlotOK(s)'
    BY <1>2, <1>4, <2>1, <2>5, ClaimCommitted DEF Past
  <2>7. Completing(r)'
    BY <1>2, <2>1, <2>2, <2>3, <2>4 DEF Completing, Fits, BookingBody
  <2>8. RequestOK(r)'
    BY <1>1, <1>2, <1>4, <2>1, <2>2, <2>7 DEF RequestOK, Working
  <2> QED
    BY <1>2, <2>1, <2>6, <2>8, CommitStep DEF KeptBy
<1>5. CASE ~Keyed(r)
  <2>1. \A t \in Slots : SlotOK(t)'
    BY <1>2, <1>5, CommitStep
  <2>2. RequestOK(r)'
    BY <1>1, <1>2, <1>5 DEF RequestOK, Working, Keyed
  <2> QED
    BY <1>2, <2>1, <2>2, CommitStep DEF KeptBy
<1> QED
  BY <1>4, <1>5

\* The steps of a booking; with every acknowledgement delivered, fail() finds
\* no row and marks none.
LEMMA BookKept ==
  ASSUME Inv, KeyInv, "ackloss" \notin Faults, NEW r \in Requests, Moves(r), Book(r)
  PROVE  KeptBy(r)
<1>1. RequestOK(r) /\ AwaitOK(r)
  BY DEF KeyInv, Inv, AwaitsAreSound
<1>2. CASE ProviderFails(r)
  <2>1. pc[r] \in Working
    BY <1>2 DEF ProviderFails, Working
  <2> QED
    BY <1>2, <2>1, FinishKept, RollBackThenFailKept DEF ProviderFails, Codes, Success
<1>3. CASE FailSkipped(r)
  <2>1. /\ pc[r] = "fail" /\ pc'[r] = "done"
        /\ UNCHANGED <<keys, pending, call, orders, reply>>
    BY <1>3 DEF FailSkipped, Goto, keyVars, books, Inv, TypeOK
  <2>2. RequestOK(r)'
    BY <1>1, <2>1, BookingStays DEF RequestOK, Working
  <2> QED
    BY <2>1, <2>2, QuietStep DEF KeptBy, Working
<1>4. ~FailFound(r)
  <2> SUFFICES ASSUME FailFound(r) PROVE FALSE
    OBVIOUS
  <2>1. /\ SlotOf(r) \in Slots /\ keys[SlotOf(r)] # None
        /\ keys[SlotOf(r)].id = r /\ pc[r] = "fail"
    BY <1>1, CallTyped
       DEF FailFound, KeyRemains, AwaitOK, RequestOK, Inv
  <2> QED
    BY <2>1 DEF KeyInv, SlotOK, RowOK, Past
<1>5. ~MarkFailed(r)
  BY <1>1 DEF MarkFailed, RequestOK
<1>6. ~PersistUnacknowledged(r)
  BY DEF PersistUnacknowledged
<1> QED
  BY <1>2, <1>3, <1>4, <1>5, <1>6, PersistKept DEF Book

\* The commit of an issue: the debit, the ticket number and the key row appear
\* together.
LEMMA IssueCommitKept ==
  ASSUME Inv, KeyInv, NEW r \in Requests, Moves(r), IssueCommit(r)
  PROVE  KeptBy(r)
<1> DEFINE s == SlotOf(r)
           o == call[r].arg
           left == acct[r] - Total(o)
<1>1. /\ pc[r] = "decide" /\ call[r].op = "issue" /\ call[r] \in Calls
      /\ o \in OrderIds /\ orders[o] # None /\ orders[o].agent = AgentOf(r)
      /\ Keyed(r) => s \in Slots /\ Writes(r, s)
  BY CallTyped
     DEF IssueCommit, Issuable, Owns, Inv, AwaitsAreSound, AwaitOK, KeyInv, RequestOK,
         Working
<1>2. /\ CommitKeys(r) /\ UNCHANGED call
      /\ orders' = [orders EXCEPT ![o] = IssuedRow(o)]
      /\ pc'[r] = IF Keyed(r) THEN "complete" ELSE "kick"
      /\ reply'[r] = [code |-> "ok", body |-> IssueBody(o, TicketOf[o], left)]
  BY <1>1 DEF IssueCommit, Commit, Goto, Answer, Inv, TypeOK
<1>3. /\ orders'[o] # None /\ orders'[o].agent = AgentOf(r)
      /\ orders'[o].status = "ISSUED" /\ orders'[o].ticket = TicketOf[o]
  <2>1. orders[o] \in OrderRows /\ TicketOf[o] \in Tickets
    BY <1>1, OrderIdAssumption DEF Inv, TypeOK
  <2>2. /\ IssuedRow(o) \in OrderRows /\ IssuedRow(o).agent = AgentOf(r)
        /\ IssuedRow(o).status = "ISSUED" /\ IssuedRow(o).ticket = TicketOf[o]
    BY <1>1, <2>1 DEF IssuedRow, OrderRows
  <2>3. orders'[o] = IssuedRow(o)
    BY <1>1, <1>2 DEF Inv, TypeOK
  <2> QED
    BY <2>2, <2>3, NoneAssumption
<1>4. orders'[r] = None
  <2>1. orders[r] = None /\ r \in OrderIds
    BY <1>1 DEF KeyInv, RequestOK, OrderIds
  <2> QED
    BY <1>1, <1>2, <2>1 DEF Inv, TypeOK
<1> HIDE DEF left
<1>5. CASE Keyed(r)
  <2>1. /\ keys'[s] = LockedRow(r, o) /\ pending'[s] = None
        /\ s' = s /\ Keyed(r)' /\ s \in Slots
        /\ \A t \in Slots : t # s => SlotOK(t)'
    BY <1>1, <1>2, <1>5, CommitStep DEF SlotOf, Keyed
  <2>2. /\ keys'[s].id = r /\ keys'[s].status = "LOCKED" /\ keys'[s].hash = o
    BY <2>1 DEF LockedRow
  <2>3. s[1] = AgentOf(r) /\ s[2] = "issue"
    BY <1>1 DEF SlotOf, AgentOf
  <2>4. EffectOf(s)' = o
    BY <2>1, <2>2, <2>3 DEF EffectOf
  <2>5. HasItsEffect(s)'
    BY <1>3, <2>1, <2>2, <2>3, <2>4 DEF HasItsEffect
  <2>6. SlotOK(s)'
    BY <1>2, <1>5, <2>1, <2>5, ClaimCommitted DEF Past
  <2>7. Completing(r)'
    BY <1>2, <1>3, <2>1, <2>2, <2>3, <2>4 DEF Completing, Fits, IssueBody
  <2>8. RequestOK(r)'
    BY <1>2, <1>4, <1>5, <2>7 DEF RequestOK, Working
  <2> QED
    BY <1>2, <2>1, <2>6, <2>8, CommitStep DEF KeptBy
<1>6. CASE ~Keyed(r)
  <2>1. \A t \in Slots : SlotOK(t)'
    BY <1>2, <1>6, CommitStep
  <2>2. RequestOK(r)'
    BY <1>2, <1>4, <1>6 DEF RequestOK, Working, Keyed
  <2> QED
    BY <1>2, <2>1, <2>2, CommitStep DEF KeptBy
<1> QED
  BY <1>5, <1>6

\* An issue that finds its order ISSUED: the claim is committed with the
\* rebuilt answer in it.
LEMMA AlreadyIssuedKept ==
  ASSUME Inv, KeyInv, NEW r \in Requests, Moves(r), AlreadyIssued(r)
  PROVE  KeptBy(r)
<1> DEFINE s == SlotOf(r)
           o == call[r].arg
           body == IssueBody(o, orders[o].ticket, acct[r])
           row == [LockedRow(r, o) EXCEPT !.status = "COMPLETED", !.body = body]
<1>1. /\ pc[r] = "decide" /\ call[r].op = "issue" /\ call[r] \in Calls
      /\ o \in OrderIds /\ orders[o] # None /\ orders[o].agent = AgentOf(r)
      /\ orders[o].status = "ISSUED" /\ orders[r] = None
      /\ Keyed(r) => s \in Slots /\ Writes(r, s)
  BY CallTyped
     DEF AlreadyIssued, Owns, Inv, AwaitsAreSound, AwaitOK, KeyInv, RequestOK, Working
<1>2. /\ UNCHANGED <<call, orders>>
      /\ pc'[r] = "done" /\ reply'[r] = [code |-> "ok", body |-> body]
  BY <1>1 DEF AlreadyIssued, Goto, Answer, books, Inv, TypeOK
<1>3. body \in Bodies /\ body.order = o /\ body.ticket = orders[o].ticket
  BY <1>1 DEF IssueBody, Bodies, Inv, TypeOK, OrderRows
<1> HIDE DEF body
<1>4. CASE Keyed(r)
  <2>1. /\ SlotOK(s) /\ s \in Slots /\ Writes(r, s)
        /\ pending[s] # None /\ keys[s] = None
        /\ pending[s].row = LockedRow(r, o)
    BY <1>1, <1>4 DEF KeyInv, SlotOK, ClaimOK, Writes
  <2>2. /\ row \in KeyRows
        /\ row.id = r /\ row.status = "COMPLETED" /\ row.hash = o /\ row.body = body
    <3>1. LockedRow(r, o) \in KeyRows /\ LockedRow(r, o).id = r /\ LockedRow(r, o).hash = o
      BY <1>1 DEF LockedRow, KeyRows, KeyStatus, Hashes
    <3> QED
      BY <1>3, <3>1 DEF KeyRows, KeyStatus
  <2>3. /\ keys' = [keys EXCEPT ![s] = row]
        /\ pending' = [pending EXCEPT ![s] = None]
    BY <1>4, <2>1 DEF AlreadyIssued, CompleteKey, body
  <2> HIDE DEF row
  <2>4. /\ keys'[s] = row /\ pending'[s] = None
        /\ \A t \in Slots \ {s} : keys'[t] = keys[t] /\ pending'[t] = pending[t]
    BY <2>1, <2>3 DEF Inv, TypeOK, KeysTypeOK
  <2>5. SlotOf(r)' = s /\ Keyed(r)' /\ s[1] = AgentOf(r) /\ s[2] = "issue"
    BY <1>1, <1>2, <1>4 DEF SlotOf, Keyed, AgentOf
  <2>6. OwnSlotOnly(r)
    BY <1>4, <2>1, <2>4 DEF OwnSlotOnly, Writable, Writes
  <2>7. HasItsEffect(s)'
    <3>1. EffectOf(s)' = o
      BY <2>2, <2>4, <2>5 DEF EffectOf
    <3> QED
      BY <1>1, <1>2, <1>3, <2>2, <2>4, <2>5, <3>1 DEF HasItsEffect
  <2>8. SlotOK(s)'
    <3>1. RowOK(s)'
      BY <1>2, <2>2, <2>4, <2>5, <2>7 DEF RowOK, Past
    <3> QED
      BY <2>4, <2>5, <3>1 DEF SlotOK
  <2>9. ASSUME NEW t \in Slots, t # s PROVE SlotOK(t)'
    <3>1. ~Writes(r, t)'
      BY <1>4, <2>4, <2>9 DEF Writes, KeyInv, SlotOK, ClaimOK
    <3> QED
      BY <2>4, <2>9, <3>1, SlotStays
  <2>10. Stored(r)'
    BY <1>2, <2>2, <2>4, <2>5, NoneAssumption DEF Stored
  <2>11. RequestOK(r)'
    BY <1>1, <1>2, <2>10 DEF RequestOK, Working
  <2> QED
    BY <2>5, <2>6, <2>8, <2>9, <2>11 DEF KeptBy
<1>5. CASE ~Keyed(r)
  <2>1. RollBackKeys(r)
    BY <1>5 DEF AlreadyIssued
  <2>2. RequestOK(r)'
    BY <1>1, <1>2, <1>5 DEF RequestOK, Working, Keyed
  <2> QED
    BY <2>1, <2>2, RollBackStep DEF KeptBy
<1> QED
  BY <1>4, <1>5

\* The steps of an issue.
LEMMA IssueKept ==
  ASSUME Inv, KeyInv, NEW r \in Requests, Moves(r), Issue(r)
  PROVE  KeptBy(r)
<1> DEFINE s == SlotOf(r)
<1>1. RequestOK(r) /\ AwaitOK(r)
  BY DEF KeyInv, Inv, AwaitsAreSound
<1>2. CASE LockAgent(r) \/ LockOrder(r)
  <2>1. /\ pc[r] \in {"lockAgent", "lockOrder"} /\ pc'[r] \in {"lockOrder", "decide"}
        /\ UNCHANGED <<keys, pending, idem, call, orders>>
    BY <1>2 DEF LockAgent, LockOrder, LockSequence, Goto, keyVars, books, Inv, TypeOK
  <2>2. SlotOf(r)' = s /\ Keyed(r)' = Keyed(r)
    BY <2>1 DEF SlotOf, Keyed
  <2>3. Keyed(r) => Writes(r, s)'
    BY <1>1, <2>1, <2>2 DEF RequestOK, Working, Writes
  <2>4. RequestOK(r)'
    BY <1>1, <2>1, <2>2, <2>3, BookingStays DEF RequestOK, Working
  <2> QED
    BY <2>1, <2>4, QuietStep DEF KeptBy, Working
<1>3. CASE NoSuchOrder(r) \/ Forbidden(r) \/ ConstraintFails(r)
  BY <1>3, FinishKept DEF NoSuchOrder, Forbidden, ConstraintFails, Codes, Success
<1>4. CASE InsufficientFunds(r)
  <2>1. pc[r] \in Working
    BY <1>4 DEF InsufficientFunds, Issuable, Working
  <2> QED
    BY <1>4, <2>1, FinishKept, RollBackThenFailKept DEF InsufficientFunds, Codes, Success
<1>5. CASE Kick(r)
  <2>1. /\ pc[r] = "kick" /\ pc'[r] = "done"
        /\ UNCHANGED <<keys, pending, call, orders, reply>>
    BY <1>5 DEF Kick, Goto, keyVars, books, Inv, TypeOK
  <2>2. Stored(r) => Stored(r)'
    BY <2>1 DEF Stored, SlotOf
  <2>3. RequestOK(r)'
    BY <1>1, <2>1, <2>2, BookingStays DEF RequestOK, Working, Keyed
  <2> QED
    BY <2>1, <2>3, QuietStep DEF KeptBy, Working
<1> QED
  BY <1>2, <1>3, <1>4, <1>5, IssueCommitKept, AlreadyIssuedKept DEF Issue

-----------------------------------------------------------------------------
(* The invariant, and what it says of keys *)

\* A request keeps its call once it has arrived, and does not go back behind
\* its commit.
LEMMA CallStays ==
  ASSUME TypeOK, NEW r \in Requests, Acts(r), pc[r] # "idle"
  PROVE  call'[r] = call[r] /\ (pc[r] \in Past => pc'[r] \in Past)
<1>1. ASSUME NEW code, NEW body, Finish(r, code, body)
      PROVE  call' = call /\ pc'[r] \in Past
  BY <1>1 DEF Finish, Goto, TypeOK, Past
<1>2. ASSUME NEW code, RollBackThenFail(r, code)
      PROVE  call' = call
  BY <1>2 DEF RollBackThenFail
<1>3. ASSUME NEW c \in Traffic, Arrive(r, c) PROVE FALSE
  BY <1>3 DEF Arrive
<1>4. CASE ClaimKey(r)
  <2>1. CASE ClaimReplay(r) \/ ClaimReused(r) \/ ClaimInProgress(r)
    BY <1>1, <2>1 DEF ClaimReplay, ClaimReused, ClaimInProgress
  <2>2. CASE Claim(r) \/ ClaimConflict(r) \/ ClaimFailed(r) \/ Reclaim(r)
    BY <2>2 DEF Claim, ClaimConflict, ClaimFailed, Reclaim, Past
  <2>3. CASE Complete(r)
    BY <2>3 DEF Complete, AfterComplete, Goto, TypeOK, Past
  <2> QED
    BY <1>4, <2>1, <2>2, <2>3 DEF ClaimKey
<1>5. CASE Book(r)
  <2>1. call' = call
    BY <1>1, <1>2, <1>5
       DEF Book, Persist, PersistUnacknowledged, InsertOrder, ProviderFails, FailSkipped,
           FailFound, MarkFailed
  <2>2. pc[r] \notin Past
    BY <1>5
       DEF Book, Persist, PersistUnacknowledged, InsertOrder, ProviderFails, FailSkipped,
           FailFound, MarkFailed, Past
  <2> QED
    BY <2>1, <2>2
<1>6. CASE Issue(r)
  <2>1. call' = call
    BY <1>1, <1>2, <1>6
       DEF Issue, LockAgent, LockOrder, NoSuchOrder, Forbidden, AlreadyIssued,
           InsufficientFunds, ConstraintFails, IssueCommit, Kick
  <2>2. pc[r] \in Past => Kick(r)
    BY <1>6
       DEF Issue, LockAgent, LockOrder, NoSuchOrder, Forbidden, AlreadyIssued,
           InsufficientFunds, ConstraintFails, IssueCommit, Issuable, Past
  <2>3. Kick(r) => pc'[r] \in Past
    BY DEF Kick, Goto, TypeOK, Past
  <2> QED
    BY <2>1, <2>2, <2>3
<1>7. CASE DeadlockAbort(r)
  BY <1>1, <1>7 DEF DeadlockAbort
<1>8. CASE Die(r)
  BY <1>8 DEF Die, Goto, TypeOK, Past
<1> QED
  BY <1>3, <1>4, <1>5, <1>6, <1>7, <1>8 DEF Acts, Step

\* Every step of a request is a move of that request alone.
LEMMA ActsMoves ==
  ASSUME Inv, [Next]_vars, NEW r \in Requests, Acts(r)
  PROVE  Moves(r)
<1>1. Frame(r) /\ OrdersKept
  BY ActsAwaits, NextOrdersKept DEF Inv
<1>2. pc[r] \in Past => pc[r] # "idle"
  BY DEF Past
<1> QED
  BY <1>1, <1>2, CallStays DEF Moves, Inv

\* Whatever request r does, it keeps its own key right.
LEMMA ActsKept ==
  ASSUME Inv, KeyInv, "ackloss" \notin Faults, NEW r \in Requests, Moves(r), Acts(r)
  PROVE  KeptBy(r)
<1>1. CASE DeadlockAbort(r)
  BY <1>1, FinishKept DEF DeadlockAbort, Codes, Success
<1> QED
  BY <1>1, ArriveKept, DieKept, ClaimKeyKept, BookKept, IssueKept DEF Acts, Step

\* Every step keeps all keys right.
LEMMA NextKey ==
  ASSUME Inv, KeyInv, "ackloss" \notin Faults, [Next]_vars
  PROVE  KeyInv'
<1>1. ASSUME NEW r \in Requests, Acts(r) PROVE KeyInv'
  <2>1. Moves(r) /\ KeptBy(r)
    BY <1>1, ActsMoves, ActsKept
  <2> QED
    BY <2>1, OthersKeep DEF KeptBy, KeyInv
<1>2. CASE UNCHANGED vars
  BY <1>2
     DEF vars, keyVars, books, KeyInv, SlotOK, ClaimOK, RowOK, HasItsEffect, EffectOf,
         RequestOK, Completing, Fits, Stored, Writes, Keyed, SlotOf
<1> QED
  BY <1>1, <1>2 DEF Next, Rest, Acts

\* Before the first request there is no key, and no order of a request.
LEMMA InitKey == Init => KeyInv
  BY OrderIdAssumption
     DEF Init, KeysInit, KeyInv, SlotOK, RequestOK, Working, OpeningOrders, OrderIds

\* The key invariant holds for ever.
LEMMA KeysRight ==
  ASSUME "ackloss" \notin Faults
  PROVE  Spec => [](Inv /\ KeyInv)
<1>1. Init => Inv /\ KeyInv
  BY InitInv, InitKey
<1>2. Inv /\ KeyInv /\ [Next]_vars => (Inv /\ KeyInv)'
  BY NextInv, NextKey
<1> QED
  BY <1>1, <1>2, PTL DEF Spec

\* A committed key has done its work: the order it stands for is booked, or
\* issued, and a stored answer is about that order.
THEOREM KeysHaveEffects ==
  ASSUME "ackloss" \notin Faults
  PROVE  Spec => []KeyHasItsEffect
<1>1. Inv /\ KeyInv => KeyHasItsEffect
  BY DEF KeyInv, SlotOK, RowOK, KeyHasItsEffect
<1> QED
  BY <1>1, KeysRight, PTL

\* Whoever carries a key and is answered with success gets the same answer for
\* the same arguments, first request or replay.
THEOREM KeysAnswerAlike ==
  ASSUME "ackloss" \notin Faults
  PROVE  Spec => []SameKeySameAnswer
<1>1. Inv /\ KeyInv => SameKeySameAnswer
  BY DEF KeyInv, RequestOK, Stored, Success, SameKeySameAnswer
<1> QED
  BY <1>1, KeysRight, PTL

\* However often a key is sent, it books at most one order.
THEOREM KeysBookOnce ==
  ASSUME "ackloss" \notin Faults
  PROVE  Spec => []OneOrderPerKey
<1>1. Inv /\ KeyInv => OneOrderPerKey
  <2> SUFFICES ASSUME KeyInv, NEW q \in Requests, NEW r \in Requests,
                      orders[q] # None, orders[r] # None,
                      Keyed(q), SlotOf(q) = SlotOf(r)
               PROVE  q = r
    BY DEF OneOrderPerKey
  <2>1. Keyed(r)
    BY DEF Keyed, SlotOf
  <2> QED
    BY <2>1 DEF KeyInv, RequestOK
<1> QED
  BY <1>1, KeysRight, PTL

\* No request rewrites or withdraws the answer a key has stored.
THEOREM AnswersAreFinal ==
  ASSUME "ackloss" \notin Faults
  PROVE  Spec => CompletedIsFinal
<1> DEFINE Final == \A s \in Slots :
             keys[s] # None /\ keys[s].status = "COMPLETED" => keys'[s] = keys[s]
<1>1. Inv /\ KeyInv /\ [Next]_vars => [Final]_vars
  <2> SUFFICES ASSUME Inv, KeyInv, [Next]_vars PROVE Final \/ UNCHANGED vars
    OBVIOUS
  <2>1. ASSUME NEW r \in Requests, Acts(r) PROVE Final
    <3>1. OwnSlotOnly(r)
      BY <2>1, ActsMoves, ActsKept DEF KeptBy
    <3> QED
      BY <3>1 DEF OwnSlotOnly
  <2> QED
    BY <2>1 DEF Next, Rest, Acts
<1> QED
  BY <1>1, KeysRight, PTL DEF Spec, CompletedIsFinal

-----------------------------------------------------------------------------
(* Deadlocks: whatever acknowledgement is lost *)

\* A request holds the agent row FOR KEY SHARE, or an uncommitted key, only
\* while it works, only if it carries a key, and only those of its call.
HoldsOwn(r) ==
  /\ \A a \in Agents : r \in keyShare[a] => pc[r] \in Working /\ Keyed(r) /\ AgentOf(r) = a
  /\ \A s \in Slots : Writes(r, s) => pc[r] \in Working /\ Keyed(r) /\ SlotOf(r) = s

HoldInv == \A r \in Requests : HoldsOwn(r)

\* A step of r takes nothing for another request.
TakesForNoOther(r) ==
  \A q \in Requests \ {r} :
    /\ \A a \in Agents : q \in keyShare'[a] => q \in keyShare[a]
    /\ \A s \in Slots : Writes(q, s)' => Writes(q, s)

\* The end of a transaction takes nothing.
LEMMA EndHolds ==
  ASSUME TypeOK, NEW r \in Requests, ReleaseLocks(r),
         RollBackKeys(r) \/ CommitKeys(r)
  PROVE  TakesForNoOther(r) /\ HoldsOwn(r)'
<1>1. \A a \in Agents : keyShare'[a] = keyShare[a] \ {r}
  BY DEF ReleaseLocks
<1>2. \A s \in Slots : pending'[s] = IF Writes(r, s) THEN None ELSE pending[s]
  BY DEF RollBackKeys, CommitKeys
<1>3. \A s \in Slots : ~Writes(r, s)'
  BY <1>2 DEF Writes
<1> QED
  BY <1>1, <1>2, <1>3 DEF TakesForNoOther, HoldsOwn, Writes

\* A step that neither takes nor gives back.
LEMMA SameHolds ==
  ASSUME TypeOK, NEW r \in Requests, HoldsOwn(r), UNCHANGED <<keyShare, pending>>,
         pc[r] \in Working => pc'[r] \in Working /\ call'[r] = call[r]
  PROVE  TakesForNoOther(r) /\ HoldsOwn(r)'
BY DEF TakesForNoOther, HoldsOwn, Writes, AgentOf, Keyed, SlotOf

\* The steps around the key: a claim takes the row and the slot of its call.
LEMMA ClaimKeyHolds ==
  ASSUME TypeOK, AwaitsAreSound, NEW r \in Requests, HoldsOwn(r), ClaimKey(r)
  PROVE  TakesForNoOther(r) /\ HoldsOwn(r)'
<1> DEFINE s == SlotOf(r)
<1>1. AwaitOK(r)
  BY DEF AwaitsAreSound
<1>2. CASE Claim(r) \/ Reclaim(r)
  <2>1. /\ pc[r] \in {"claim", "reclaim"} /\ Keyed(r) /\ s \in Slots /\ AgentOf(r) \in Agents
        /\ call[r].op \in Ops
    BY <1>1, <1>2, CallTyped DEF Claim, Reclaim, AwaitOK
  <2>2. /\ Writable(r, s) /\ call' = call
        /\ pc'[r] = WorkOf(call[r].op)
        /\ \/ keyShare' = keyShare
           \/ keyShare' = [keyShare EXCEPT ![AgentOf(r)] = @ \cup {r}]
        /\ \E row : pending' = [pending EXCEPT ![s] = [by |-> r, row |-> row]]
    <3>1. CASE Claim(r)
      BY <3>1 DEF Claim, InsertKey, Writable, Goto, TypeOK
    <3>2. CASE Reclaim(r)
      BY <3>2 DEF Reclaim, ReclaimKey, lockVars, Goto, TypeOK
    <3> QED
      BY <1>2, <3>1, <3>2
  <2>3. pc'[r] \in Working /\ SlotOf(r)' = s /\ Keyed(r)' /\ AgentOf(r)' = AgentOf(r)
    BY <2>1, <2>2 DEF WorkOf, LockSequence, Ops, Working, SlotOf, Keyed, AgentOf
  <2>4. \A a \in Agents : r \notin keyShare[a]
    BY <2>1 DEF HoldsOwn, Working
  <2>5. \A t \in Slots : ~Writes(r, t)
    BY <2>1 DEF HoldsOwn, Working
  <2>6. \A a \in Agents :
          /\ \A q \in Requests \ {r} : q \in keyShare'[a] => q \in keyShare[a]
          /\ r \in keyShare'[a] => a = AgentOf(r)
    BY <2>1, <2>2, <2>4 DEF TypeOK
  <2>7. /\ \A t \in Slots \ {s} : pending'[t] = pending[t]
        /\ pending'[s].by = r
    BY <2>1, <2>2 DEF TypeOK, KeysTypeOK
  <2>8. /\ \A q \in Requests \ {r}, t \in Slots : Writes(q, t)' => Writes(q, t)
        /\ \A t \in Slots : Writes(r, t)' => t = s
    BY <2>5, <2>7 DEF Writes
  <2> QED
    BY <2>3, <2>6, <2>8 DEF TakesForNoOther, HoldsOwn
<1>3. CASE ClaimConflict(r) \/ ClaimFailed(r)
  <2>1. pc[r] \notin Working /\ UNCHANGED <<keyShare, pending>>
    BY <1>3 DEF ClaimConflict, ClaimFailed, keyVars, lockVars, Working
  <2> QED
    BY <2>1, SameHolds
<1>4. CASE ClaimReplay(r) \/ ClaimReused(r) \/ ClaimInProgress(r)
  BY <1>4, EndHolds DEF ClaimReplay, ClaimReused, ClaimInProgress, Finish, RollBack
<1>5. CASE Complete(r)
  <2>1. /\ pc[r] \notin Working /\ UNCHANGED keyShare
        /\ pending' = [pending EXCEPT ![s] = None]
    BY <1>5 DEF Complete, CompleteKey, lockVars, Working
  <2>2. \A q \in Requests, t \in Slots : Writes(q, t)' => Writes(q, t)
    BY <2>1 DEF Writes, TypeOK, KeysTypeOK
  <2> QED
    BY <2>1, <2>2 DEF TakesForNoOther, HoldsOwn
<1> QED
  BY <1>2, <1>3, <1>4, <1>5 DEF ClaimKey

\* The steps of a booking.
LEMMA BookHolds ==
  ASSUME TypeOK, NEW r \in Requests, HoldsOwn(r), Book(r)
  PROVE  TakesForNoOther(r) /\ HoldsOwn(r)'
<1>1. CASE Persist(r) \/ PersistUnacknowledged(r)
  BY <1>1, EndHolds DEF Persist, PersistUnacknowledged, InsertOrder, Commit
<1>2. CASE ProviderFails(r)
  BY <1>2, EndHolds DEF ProviderFails, RollBackThenFail, Finish, RollBack
<1>3. CASE FailSkipped(r) \/ FailFound(r) \/ MarkFailed(r)
  <2>1. pc[r] \notin Working /\ UNCHANGED <<keyShare, pending>>
    BY <1>3 DEF FailSkipped, FailFound, MarkFailed, FailKey, lockVars, Working
  <2> QED
    BY <2>1, SameHolds
<1> QED
  BY <1>1, <1>2, <1>3 DEF Book

\* The steps of an issue.
LEMMA IssueHolds ==
  ASSUME TypeOK, NEW r \in Requests, HoldsOwn(r), Issue(r)
  PROVE  TakesForNoOther(r) /\ HoldsOwn(r)'
<1>1. CASE LockAgent(r) \/ LockOrder(r)
  <2>1. pc'[r] \in Working /\ UNCHANGED <<keyShare, pending, call>>
    BY <1>1 DEF LockAgent, LockOrder, LockSequence, Goto, keyVars, Working, TypeOK
  <2> QED
    BY <2>1, SameHolds
<1>2. CASE NoSuchOrder(r) \/ Forbidden(r) \/ ConstraintFails(r) \/ InsufficientFunds(r)
  BY <1>2, EndHolds
     DEF NoSuchOrder, Forbidden, ConstraintFails, InsufficientFunds, RollBackThenFail,
         Finish, RollBack
<1>3. CASE IssueCommit(r)
  BY <1>3, EndHolds DEF IssueCommit, Commit
<1>4. CASE AlreadyIssued(r)
  <2>1. CASE ~Keyed(r)
    BY <1>4, <2>1, EndHolds DEF AlreadyIssued
  <2>2. CASE Keyed(r)
    <3>1. /\ ReleaseLocks(r)
          /\ pending' = [pending EXCEPT ![SlotOf(r)] = None]
      BY <1>4, <2>2 DEF AlreadyIssued, CompleteKey
    <3>2. \A a \in Agents : keyShare'[a] = keyShare[a] \ {r}
      BY <3>1 DEF ReleaseLocks
    <3>3. \A q \in Requests, t \in Slots :
            Writes(q, t)' => Writes(q, t) /\ (q = r => t # SlotOf(r))
      BY <3>1 DEF Writes, TypeOK, KeysTypeOK
    <3> QED
      BY <3>2, <3>3 DEF TakesForNoOther, HoldsOwn
  <2> QED
    BY <2>1, <2>2
<1>5. CASE Kick(r)
  <2>1. pc[r] \notin Working /\ UNCHANGED <<keyShare, pending>>
    BY <1>5 DEF Kick, keyVars, lockVars, Working
  <2> QED
    BY <2>1, SameHolds
<1> QED
  BY <1>1, <1>2, <1>3, <1>4, <1>5 DEF Issue

\* Every step keeps what is held with its holder.
LEMMA NextHolds ==
  ASSUME TypeOK, AwaitsAreSound, HoldInv, [Next]_vars
  PROVE  HoldInv'
<1>1. ASSUME NEW r \in Requests, Acts(r) PROVE HoldInv'
  <2>1. HoldsOwn(r)
    BY DEF HoldInv
  <2>2. ASSUME NEW c \in Traffic, Arrive(r, c) PROVE TakesForNoOther(r) /\ HoldsOwn(r)'
    <3>1. pc[r] \notin Working /\ UNCHANGED <<keyShare, pending>>
      BY <2>2 DEF Arrive, keyVars, lockVars, Working
    <3> QED
      BY <2>1, <3>1, SameHolds
  <2>3. ASSUME DeadlockAbort(r) \/ Die(r) PROVE TakesForNoOther(r) /\ HoldsOwn(r)'
    <3>1. ReleaseLocks(r) /\ RollBackKeys(r)
      BY <2>3 DEF DeadlockAbort, Die, Finish, RollBack
    <3> QED
      BY <3>1, EndHolds
  <2>4. TakesForNoOther(r) /\ HoldsOwn(r)'
    BY <1>1, <2>1, <2>2, <2>3, ClaimKeyHolds, BookHolds, IssueHolds DEF Acts, Step
  <2>5. ASSUME NEW q \in Requests \ {r} PROVE HoldsOwn(q)'
    <3>1. HoldsOwn(q) /\ pc'[q] = pc[q] /\ call'[q] = call[q]
      BY <1>1, ActsAwaits DEF HoldInv, Frame
    <3> QED
      BY <2>4, <3>1 DEF TakesForNoOther, HoldsOwn, AgentOf, Keyed, SlotOf
  <2> QED
    BY <2>4, <2>5 DEF HoldInv
<1>2. CASE UNCHANGED vars
  BY <1>2 DEF vars, keyVars, lockVars, HoldInv, HoldsOwn, Writes, AgentOf, Keyed, SlotOf
<1> QED
  BY <1>1, <1>2 DEF Next, Rest, Acts

\* The requests that hold FOR UPDATE on an agent row, and those that hold it on
\* an order row too.
Lockers   == {q \in Requests : pc[q] \in Locking}
Deciders  == {q \in Requests : pc[q] = "decide"}
Workers   == {q \in Requests : pc[q] \in Working}

Closed(S) == \A q \in S : WaitsFor(q) \subseteq S

\* Who can be waited for, at each await.
LEMMA WaitsTyped ==
  ASSUME Inv, HoldInv, NEW r \in Requests
  PROVE  /\ pc[r] = "provider" => WaitsFor(r) \subseteq Lockers
         /\ pc[r] = "lockOrder" => WaitsFor(r) \subseteq Deciders
         /\ pc[r] = "lockAgent" =>
              /\ AgentOf(r) \in Agents
              /\ WaitsFor(r) \subseteq Lockers \cup (keyShare[AgentOf(r)] \ {r})
         /\ pc[r] \in {"claim", "reclaim", "complete", "mark"} =>
              WaitsFor(r) \subseteq Workers
         /\ pc[r] \in {"idle", "conflict", "fail", "decide", "kick", "done", "dead"} =>
              WaitsFor(r) = {}
<1>1. AwaitOK(r)
  BY DEF Inv, AwaitsAreSound
<1>2. pc[r] # "idle" =>
        /\ AgentOf(r) \in Agents
        /\ Keyed(r) => SlotOf(r) \in Slots
        /\ call[r].op = "issue" => call[r].arg \in OrderIds
  BY <1>1, CallTyped DEF Inv
<1>3. ASSUME AgentOf(r) \in Agents PROVE ShareWaits(r) \subseteq Lockers
  BY <1>3 DEF ShareWaits, Inv, TypeOK, LocksAreHeldToTheEnd, Lockers, Locking
<1>4. ASSUME SlotOf(r) \in Slots PROVE SlotWaits(r) \subseteq Workers
  BY <1>4 DEF SlotWaits, Writable, Writes, Inv, TypeOK, KeysTypeOK, HoldInv, HoldsOwn,
              Workers
<1>5. Lockers \subseteq Workers
  BY DEF Lockers, Workers, Locking, Working
<1>6. ASSUME pc[r] = "lockOrder" PROVE WaitsFor(r) \subseteq Deciders
  <2>1. call[r].arg \in OrderIds
    BY <1>1, <1>2, <1>6 DEF AwaitOK
  <2> QED
    BY <1>6, <2>1 DEF WaitsFor, Inv, TypeOK, LocksAreHeldToTheEnd, Deciders
<1>7. ASSUME pc[r] = "lockAgent"
      PROVE  /\ AgentOf(r) \in Agents
             /\ WaitsFor(r) \subseteq Lockers \cup (keyShare[AgentOf(r)] \ {r})
  BY <1>2, <1>3, <1>7 DEF WaitsFor
<1>8. ASSUME pc[r] \in {"claim", "reclaim", "complete", "mark"}
      PROVE  WaitsFor(r) \subseteq Workers
  <2>1. AgentOf(r) \in Agents /\ SlotOf(r) \in Slots
    BY <1>1, <1>2, <1>8 DEF AwaitOK
  <2> QED
    BY <1>3, <1>4, <1>5, <1>8, <2>1 DEF WaitsFor
<1>9. ASSUME pc[r] = "provider" PROVE WaitsFor(r) \subseteq Lockers
  BY <1>2, <1>3, <1>9 DEF WaitsFor
<1>10. ASSUME pc[r] \in {"idle", "conflict", "fail", "decide", "kick", "done", "dead"}
       PROVE  WaitsFor(r) = {}
  BY <1>10 DEF WaitsFor
<1> QED
  BY <1>6, <1>7, <1>8, <1>9, <1>10

\* The holders of row locks wait among themselves only, and so do the requests
\* that work.
LEMMA ClosedSets ==
  ASSUME Inv, HoldInv
  PROVE  Closed(Deciders) /\ Closed(Lockers) /\ Closed(Workers)
<1>1. Deciders \subseteq Lockers /\ Lockers \subseteq Workers
  BY DEF Deciders, Lockers, Workers, Locking, Working
<1>2. Closed(Deciders)
  BY WaitsTyped DEF Closed, Deciders
<1>3. ASSUME NEW q \in Lockers PROVE WaitsFor(q) \subseteq Lockers
  BY <1>1, WaitsTyped DEF Lockers, Locking
<1>4. ASSUME NEW q \in Workers PROVE WaitsFor(q) \subseteq Workers
  <2>1. CASE pc[q] = "lockAgent"
    <3>1. keyShare[AgentOf(q)] \subseteq Workers
      BY <2>1, WaitsTyped DEF Workers, HoldInv, HoldsOwn, Inv, TypeOK
    <3> QED
      BY <1>1, <2>1, <3>1, WaitsTyped DEF Workers
  <2>2. CASE pc[q] # "lockAgent"
    BY <1>1, <2>2, WaitsTyped DEF Workers, Working
  <2> QED
    BY <2>1, <2>2
<1> QED
  BY <1>2, <1>3, <1>4 DEF Closed

\* A request in a cycle is in every closed set it waits into.
LEMMA CycleStays ==
  ASSUME NEW r \in Requests, InCycle(r), NEW S, S \subseteq Requests,
         WaitsFor(r) \subseteq S, Closed(S)
  PROVE  r \in S
BY DEF InCycle, Closed

\* Only issues that wait for an agent row they share are ever in a cycle, and
\* never one of them alone.
LEMMA CyclesAreUpgrades ==
  ASSUME Inv, HoldInv
  PROVE  DeadlocksAreKeyUpgrades
<1> SUFFICES ASSUME NEW r \in Requests, InCycle(r)
             PROVE  /\ pc[r] = "lockAgent"
                    /\ r \in keyShare[AgentOf(r)]
                    /\ \E q \in Requests \ {r} :
                         pc[q] = "lockAgent" /\ q \in keyShare[AgentOf(r)]
  BY DEF DeadlocksAreKeyUpgrades
<1> DEFINE a == AgentOf(r)
<1>1. /\ Closed(Deciders) /\ Closed(Lockers) /\ Closed(Workers)
      /\ Deciders \subseteq Requests /\ Lockers \subseteq Requests
      /\ Workers \subseteq Requests
  BY ClosedSets DEF Deciders, Lockers, Workers
<1>2. pc[r] \in Labels
  BY DEF Inv, TypeOK
<1>3. pc[r] = "lockAgent"
  <2>1. ASSUME pc[r] \in {"idle", "conflict", "fail", "decide", "kick", "done", "dead"}
        PROVE  FALSE
    <3>1. WaitsFor(r) = {} /\ Closed({})
      BY <2>1, WaitsTyped DEF Closed
    <3> QED
      BY <3>1, CycleStays
  <2>2. pc[r] # "lockOrder"
    BY <1>1, WaitsTyped, CycleStays DEF Deciders
  <2>3. pc[r] # "provider"
    BY <1>1, WaitsTyped, CycleStays DEF Lockers, Locking
  <2>4. pc[r] \notin {"claim", "reclaim", "complete", "mark"}
    BY <1>1, WaitsTyped, CycleStays DEF Workers, Working
  <2> QED
    BY <1>2, <2>1, <2>2, <2>3, <2>4 DEF Labels
<1>4. /\ a \in Agents /\ keyShare[a] \subseteq Requests
      /\ WaitsFor(r) \subseteq Lockers \cup (keyShare[a] \ {r})
      /\ \A q \in keyShare[a] : pc[q] \in Working /\ AgentOf(q) = a
      /\ r \notin Lockers
  BY <1>3, WaitsTyped DEF Inv, TypeOK, HoldInv, HoldsOwn, Lockers, Locking
<1>5. \A q \in keyShare[a] : pc[q] # "lockAgent" => WaitsFor(q) \subseteq Lockers
  <2>1. Deciders \subseteq Lockers
    BY DEF Deciders, Lockers, Locking
  <2> QED
    BY <1>4, <2>1, WaitsTyped DEF Working
<1>6. \A q \in keyShare[a] : pc[q] = "lockAgent" =>
        WaitsFor(q) \subseteq Lockers \cup keyShare[a]
  BY <1>4, WaitsTyped
<1> HIDE DEF a
<1>7. r \in keyShare[a]
  <2> SUFFICES ASSUME r \notin keyShare[a] PROVE FALSE
    OBVIOUS
  <2> DEFINE S == Lockers \cup keyShare[a]
  <2>1. Closed(S)
    BY <1>1, <1>5, <1>6 DEF Closed
  <2>2. S \subseteq Requests /\ WaitsFor(r) \subseteq S /\ r \notin S
    BY <1>1, <1>4
  <2> HIDE DEF S
  <2> QED
    BY <2>1, <2>2, CycleStays
<1>8. \E q \in Requests \ {r} : pc[q] = "lockAgent" /\ q \in keyShare[a]
  <2> SUFFICES ASSUME \A q \in keyShare[a] \ {r} : pc[q] # "lockAgent" PROVE FALSE
    BY <1>4
  <2> DEFINE S == Lockers \cup (keyShare[a] \ {r})
  <2>1. Closed(S)
    BY <1>1, <1>5 DEF Closed
  <2>2. S \subseteq Requests /\ WaitsFor(r) \subseteq S /\ r \notin S
    BY <1>1, <1>4
  <2> HIDE DEF S
  <2> QED
    BY <2>1, <2>2, CycleStays
<1> QED
  BY <1>3, <1>7, <1>8 DEF a

\* In every reachable state a deadlock is one of issues that carry a key: the
\* fixed lock order excludes every other.
THEOREM DeadlocksAreUpgrades == Spec => []DeadlocksAreKeyUpgrades
<1>1. Init => HoldInv
  BY DEF Init, KeysInit, HoldInv, HoldsOwn, Writes
<1>2. Inv /\ HoldInv /\ [Next]_vars => HoldInv'
  BY NextHolds DEF Inv
<1>3. Inv /\ HoldInv => DeadlocksAreKeyUpgrades
  BY CyclesAreUpgrades
<1> QED
  BY <1>1, <1>2, <1>3, Invariance, PTL DEF Spec

\* Every call at work was sent by a client.
CallsAreSent == \A r \in Requests : pc[r] # "idle" => call[r] \in Traffic

\* Before it arrives a request does nothing else.
LEMMA IdleArrives ==
  ASSUME NEW r \in Requests, pc[r] = "idle", Acts(r)
  PROVE  \E c \in Traffic : Arrive(r, c)
<1>1. ~ClaimKey(r)
  BY DEF ClaimKey, Claim, ClaimConflict, ClaimReplay, ClaimReused, ClaimInProgress,
         ClaimFailed, Reclaim, Complete
<1>2. ~Book(r)
  BY DEF Book, Persist, PersistUnacknowledged, InsertOrder, ProviderFails, FailSkipped,
         FailFound, MarkFailed
<1>3. ~Issue(r)
  BY DEF Issue, LockAgent, LockOrder, NoSuchOrder, Forbidden, AlreadyIssued,
         InsufficientFunds, ConstraintFails, IssueCommit, Issuable, Kick
<1>4. ~DeadlockAbort(r) /\ ~Die(r)
  BY DEF DeadlockAbort, Die
<1> QED
  BY <1>1, <1>2, <1>3, <1>4 DEF Acts, Step

\* A request keeps the call it arrived with.
LEMMA NextCalls ==
  ASSUME TypeOK, AwaitsAreSound, CallsAreSent, [Next]_vars
  PROVE  CallsAreSent'
<1>1. ASSUME NEW r \in Requests, Acts(r) PROVE CallsAreSent'
  <2>1. \A q \in Requests \ {r} : pc'[q] = pc[q] /\ call'[q] = call[q]
    BY <1>1, ActsAwaits DEF Frame
  <2>2. call'[r] \in Traffic
    <3>1. CASE pc[r] # "idle"
      BY <1>1, <3>1, CallStays DEF CallsAreSent
    <3>2. CASE pc[r] = "idle"
      <4>1. PICK c \in Traffic : Arrive(r, c)
        BY <1>1, <3>2, IdleArrives
      <4> QED
        BY <4>1 DEF Arrive, TypeOK
    <3> QED
      BY <3>1, <3>2
  <2> QED
    BY <2>1, <2>2 DEF CallsAreSent
<1>2. CASE UNCHANGED vars
  BY <1>2 DEF vars, CallsAreSent
<1> QED
  BY <1>1, <1>2 DEF Next, Rest, Acts

\* Concurrent issues never deadlock, as the comment on their lock order says
\* (issuing.py:58-60), as long as no issue carries a key.
THEOREM UnkeyedIssuesNeverDeadlock ==
  ASSUME \A c \in Traffic : c.op = "issue" => c.key = NoKey
  PROVE  Spec => []NoDeadlock
<1>1. Init => HoldInv /\ CallsAreSent
  BY DEF Init, KeysInit, HoldInv, HoldsOwn, Writes, CallsAreSent
<1>2. Inv /\ HoldInv /\ CallsAreSent /\ [Next]_vars => (HoldInv /\ CallsAreSent)'
  BY NextHolds, NextCalls DEF Inv
<1>3. Inv /\ HoldInv /\ CallsAreSent => NoDeadlock
  <2> SUFFICES ASSUME Inv, HoldInv, CallsAreSent, NEW r \in Requests, InCycle(r)
               PROVE  FALSE
    BY DEF NoDeadlock
  <2>1. pc[r] = "lockAgent" /\ r \in keyShare[AgentOf(r)]
    BY CyclesAreUpgrades DEF DeadlocksAreKeyUpgrades
  <2>2. AgentOf(r) \in Agents /\ call[r].op = "issue" /\ call[r] \in Traffic
    BY <2>1, CallTyped DEF Inv, AwaitsAreSound, AwaitOK, CallsAreSent
  <2> QED
    BY <2>1, <2>2 DEF HoldInv, HoldsOwn, Keyed
<1> QED
  BY <1>1, <1>2, <1>3, Invariance, PTL DEF Spec
=============================================================================
