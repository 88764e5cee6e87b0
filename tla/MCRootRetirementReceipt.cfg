CONSTANTS
  Ops = {o1}
  MaxReceipts = 1
  MaxFaults = 1
  MaxPowerFailures = 1
SPECIFICATION Spec
CHECK_DEADLOCK FALSE
INVARIANT ReceiptSurvives
