SPECIFICATION FairSpec
CONSTANTS
  c1 = c1  c2 = c2
  None = None
  Clients = {c1, c2}
  Foreign = {c2}
  Second = 2
  Deadline = 2
  Grace = 2
  SessionTTL = 8
  Horizon = 10
  Faults = {"die", "redis", "pg"}
  MaxFaults = 2
INVARIANTS
  OnlyErrorsFailLiveSearches
PROPERTIES
  RowVerdictIsFinal
  AnswersNeverGoBack
  DoneHasOffers
  SessionSettles
