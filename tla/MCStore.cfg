SPECIFICATION Spec
CONSTANTS
  Run = {r1, r2}
  Key = {k1, k2}
  NoRun = NoRun
  MaxAttempt = 2
  Historic = {r1}
  PageSize = 1
  MaxLines = 2
INVARIANTS
  TypeOK
  FailedSaveKeepsItems
  SettledInvoiceIsWhole
  LinkLeadsToThePdf
  DownloadIsComplete
  StatusHasATime
PROPERTIES
  OverwriteHasAReason
CHECK_DEADLOCK FALSE
