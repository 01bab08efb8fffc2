SPECIFICATION Spec
CONSTANTS
  Run = {t1}
  Creator = {c1}
  Reviewer = {v1, v2}
  NoRequest = NoRequest
  Invoice = {i1, i2}
  NoInvoice = NoInvoice
  MaxConcurrency = 2
  MaxChannels = 1
  Reposts = FALSE
  MaxCrashes = 0
  MaxUnreadable = 0
INVARIANTS
  ValidatedOnFinalForm
  FlaggedSaveWasApproved
  LedgerAgreesWithDatabase
  ServedStatusIsCurrent
  NoOrphan
PROPERTIES
  EndedIsFinal
  ImplementsContract
CHECK_DEADLOCK FALSE
