SPECIFICATION Spec
CONSTANTS
  u1 = u1
  u2 = u2
  Post = {p1, p2}
  NoPost = NoPost
  Name = {u1, u2}
  Upload <- Uploaded
  Cap = 2
  Field = {"vendor", "items", "total"}
  Orders <- ResponseOrders
  MaxFailures = 2
  Thread = {t1, t2, t3}
  Mine = {t1, t2}
  Limit = 2
  Window = 1
  Widening = 2
  MaxWindow = 3
  MaxCheckpoints = 6
  Viewer = {v1, v2}
  Lifetime = 3
  Margin = 1
  MaxLatency = 1
  MaxTime = 9
  Cent = 10
  RoundsUp <- HalfCents
  Dataset <- TwoRows
  Predictions <- Returned
  MaxRuns = 2
INVARIANTS
  TypeOK
  StoredIsExtracted
  FileOutlivesTheDay
  RefusedLeavesNothing
  AnnouncedOnceAndWhole
  ShortListIsComplete
  CountsTally
  MatchingIsStable
  ExactIsEqual
  ReportIsPinned
  AcceptedIsBalanced
PROPERTIES
  LinkIsAlive
CHECK_DEADLOCK FALSE
