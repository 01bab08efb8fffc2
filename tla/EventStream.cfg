SPECIFICATION Spec
CONSTANTS
  Run = {t1, t2}
  Handler = {h1, h2}
  NoHandler = NoHandler
  Connection = {s1}
  MaxChannels = 1
  MaxProgress = 2
  SnapshotFails = TRUE
  MaxHistory = 3
  MaxQueue = 2
INVARIANTS
  TypeOK
  NewestIsOnItsWay
  NoGapWithoutOverflow
  ReplayReachesTheEnd
PROPERTIES
  EndReachesEveryStream
CHECK_DEADLOCK FALSE
