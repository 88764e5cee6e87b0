CONSTANTS
  Jobs = {j1}
  Origin = origin
  Volumes = {v1, v2}
  Home = v1
  Workers = {w1}
  Readers = {r1}
  Size = 1
  MaxFaults = 0
SPECIFICATION LiveSpec
PROPERTY CancellationFinishes
