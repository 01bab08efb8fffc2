SPECIFICATION Spec
CONSTANTS
  Run = {t1}
  Creator = {c1, c2}
  Reviewer = {v1}
  NoRequest = NoRequest
  Invoice = {i1, i2}
  NoInvoice = NoInvoice
  MaxConcurrency = 1
  MaxChannels = 1
  Reposts = TRUE
  MaxCrashes = 0
  MaxUnreadable = 0
INVARIANTS
  FlaggedSaveWasApproved
CHECK_DEADLOCK FALSE
