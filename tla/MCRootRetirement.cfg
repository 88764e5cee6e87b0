CONSTANTS
  Ops = {o1, o2, o3}
  MaxReceipts = 2
  MaxFaults = 1
  MaxPowerFailures = 1
SPECIFICATION LiveSpec
CHECK_DEADLOCK FALSE
INVARIANTS
  AbsenceIsExplained
  QuarantineIsOwned
  CleanupHasProof
  QuarantineBounded
PROPERTIES
  RetirementFinishes
  ImplementsRemoval
