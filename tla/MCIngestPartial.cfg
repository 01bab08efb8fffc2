SPECIFICATION Spec
CONSTANTS
  a = a
  b = b
  d1 = d1
  d2 = d2
  d3 = d3
  k1 = k1
  k2 = k2
  n1 = n1
  n2 = n2
  Item = {a, b}
  ItemOrder <- InboxOrder
  Doc = {d1, d2, d3}
  Name = {n1, n2}
  Key = {k1, k2}
  NoDoc = NoDoc
  Inboxes <- Messages
  Kinds <- KindsOfDocs
  Keyings <- KeysOfDocs
  Limit = 1
  MaxAttachments = 2
  MaxFailures = 2
INVARIANTS
  MarkedIsFullyPersisted
CHECK_DEADLOCK FALSE
