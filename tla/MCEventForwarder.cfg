SPECIFICATION MCSpec
CONSTANTS
  Keys = {"k1", "k2", "k3"}
  Bytes <- KeyBytes
  Limits = {2}
  Editors = {e1}
  IngestCapacity = 1
  MaxPending = 2
  MaxReceipts = 1
  MaxSends = 3
  MaxRevision = 3
INVARIANTS
  TypeOK NothingLost DrainedInSequence AccountsAreExact
PROPERTIES
  AcceptedIsDelivered EnabledSettles
CHECK_DEADLOCK FALSE
