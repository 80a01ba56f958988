SPECIFICATION FairSpec
CONSTANTS
  a = a
  b = b
  Absent = Absent
  Files = {1}
  History <- OneHistory
  SegmentIds = {1, 2, 3, 4, 5, 6, 7, 8, 9, 10}
  MaxSeq = 3
  Options <- AllModes
  Legacy = FALSE
  Faults = {"error", "sync_error", "kill"}
  MaxFaults = 2
PROPERTIES
  LeftoversAreRemoved
