SPECIFICATION MCSpec
CONSTANTS
  Keys = {"k1"}
  Bytes <- KeyBytes
  Limits = {2}
  Editors = {e1, e2}
  IngestCapacity = 1
  MaxPending = 2
  MaxReceipts = 1
  MaxSends = 1
  MaxRevision = 3
PROPERTY
  DraftIsCurrent
CHECK_DEADLOCK FALSE
