CONSTANTS
  Jobs = {j1, j2}
  Origin = origin
  Volumes = {v1, v2}
  Home = v1
  Workers = {w1, w2}
  Readers = {r1}
  Size = 2
  MaxFaults = 1
SPECIFICATION LiveSpec
INVARIANTS
  AuthoritativeCopy
  ReadersKeepTheirFile
  SourceRetained
  ReleasedBytesAreFree
PROPERTIES
  CancelledNeverPublishes
  RemovesInOrder
  MovesFinish
