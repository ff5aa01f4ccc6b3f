SPECIFICATION FairSpec
CONSTANTS
  Tasks = {t1, t2, t3}
  None = None
  MaxFaults = 2
INVARIANTS
  FailuresNeedTrouble
  LeaksNeedRaces
PROPERTIES
  ImplementsPublisher
  EveryPublishEnds
