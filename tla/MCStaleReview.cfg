SPECIFICATION Spec
CONSTANTS
  Run = {t1}
  Creator = {c1}
  Reviewer = {v1, v2}
  NoRequest = NoRequest
  Invoice = {i1, i2}
  NoInvoice = NoInvoice
  MaxConcurrency = 1
  MaxChannels = 1
  Reposts = FALSE
  MaxCrashes = 0
  MaxUnreadable = 0
SYMMETRY ReviewSymmetry
INVARIANTS
  FlaggedSaveWasMeant
CHECK_DEADLOCK FALSE
