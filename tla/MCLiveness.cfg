SPECIFICATION Spec
CONSTANTS
  Run = {t1, t2}
  Creator = {c1, c2}
  Reviewer = {v1}
  NoRequest = NoRequest
  Invoice = {i1}
  NoInvoice = NoInvoice
  MaxConcurrency = 1
  MaxChannels = 1
  Reposts = FALSE
  MaxCrashes = 0
  MaxUnreadable = 0
PROPERTIES
  EveryRequestAnswered
  LocksAreReleased
CHECK_DEADLOCK FALSE
