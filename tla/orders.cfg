SPECIFICATION Spec
CONSTANTS
  r1 = r1  r2 = r2  r3 = r3
  a1 = a1  a2 = a2
  k1 = k1  k2 = k2
  p1 = p1  p2 = p2
  s1 = s1  s2 = s2
  t1 = t1  t2 = t2  t3 = t3  t4 = t4  t5 = t5
  None = None
  NoKey = NoKey
  Requests = {r1, r2, r3}
  Agents = {a1, a2}
  Keys = {k1, k2}
  Payloads = {p1, p2}
  SeedOrders <- MixedSeeds
  Tickets = {t1, t2, t3, t4, t5}
  TicketOf <- CollidingTickets
  Traffic <- MixedTraffic
  Faults = {"die"}
  Price <- MCPrice
  Opening <- MCOpening
SYMMETRY AlikeKeys
INVARIANTS
  LockedCopyIsFresh
  LedgerExplainsBalance
  DebitedOnceWhenIssued
  DebitConstraintUnused
  DeadlocksAreKeyUpgrades
  KeyHasItsEffect
  SameKeySameAnswer
  OneOrderPerKey
PROPERTIES
  CompletedIsFinal
  ImplementsAccount
