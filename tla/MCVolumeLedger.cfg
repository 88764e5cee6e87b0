SPECIFICATION SafeSpec
CONSTANTS
    v1 = v1
    v2 = v2
    o1 = o1
    o2 = o2
    Ops = {o1, o2}
    Volumes = {v1, v2}
    Filesystem <- MCFilesystem
    Capacity <- MCCapacity
    Limit <- MCLimit
    Minimum <- MCMinimum
    GrowthBytes = 2
    MaxPending = 2
    MaxLen = 3
    Operated = {v2}
    MaxFaults = 1
SYMMETRY OpSymmetry
INVARIANTS CountersExact AdmittedFits WrittenWithinReservation LiveWriterUntouched NoUnownedFile ReadersKeepRecording RemovedIsEmpty
CHECK_DEADLOCK FALSE
