SPECIFICATION FairSpec
CONSTANTS
  Requests = {r1, r2, r3}
  PoolSize = 2
INVARIANTS
  TypeOK
  StuckIsNested
  OnlyKeysAreLeftBehind
PROPERTIES
  EveryRequestEnds
