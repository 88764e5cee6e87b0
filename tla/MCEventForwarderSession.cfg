SPECIFICATION MCSpec
CONSTANTS
  Keys = {"k1"}
  Bytes <- KeyBytes
  Limits = {2}
  Editors = {e1}
  IngestCapacity = 1
  MaxPending = 2
  MaxReceipts = 1
  MaxSends = 1
  MaxRevision = 2
PROPERTY
  ConfigurationReplacesSession
CHECK_DEADLOCK FALSE
