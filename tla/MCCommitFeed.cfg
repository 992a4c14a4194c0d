CONSTANTS
  r1 = r1
  r2 = r2
  MaxVersion = 2
  Replicas <- MCReplicas
  Histories <- MCHistories
  Authenticates = TRUE
  Grace = 0
  Horizon = 1
  Retention = 2
  MaxTime = 3
  CommitTimes = {0, 2}
  MaxFaults = 1
SPECIFICATION Spec
INVARIANTS
  CountedIsNotLost
PROPERTIES
  CommitsAreHeard
  ImplementsAnnouncements
