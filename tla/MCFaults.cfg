SPECIFICATION Spec
CONSTANTS
  Run = {t1, t2}
  Creator = {c1, c2}
  Reviewer = {v1}
  NoRequest = NoRequest
  Invoice = {i1}
  NoInvoice = NoInvoice
  MaxConcurrency = 1
  MaxChannels = 1
  Reposts = TRUE
  MaxCrashes = 1
  MaxUnreadable = 1
SYMMETRY FaultSymmetry
INVARIANTS
  TypeOK
  LockDiscipline
  PermitsConserved
  LedgerOnlyAfterSave
CHECK_DEADLOCK FALSE
