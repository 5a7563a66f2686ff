SPECIFICATION SnapshotSpec
CONSTANTS
  c1 = c1  c2 = c2  d1 = d1  d2 = d2  b1 = b1
  Calls = {c1, c2}
  Texts = {d1, d2}
  Broken = {b1}
  Missing = Missing
  Torn = Torn
  Mixed = Mixed
  Undefined = Undefined
  MaxRuns = 2
CHECK_DEADLOCK FALSE
INVARIANTS SnapshotTypeOK CompareRunsAreSound GreenUpdateSticks StrictUpdatePasses
