SPECIFICATION Spec
CONSTANTS
  a = a
  b = b
  Absent = Absent
  Files = {1}
  History <- OneHistory
  SegmentIds = {1, 2, 3, 4, 5, 6}
  MaxSeq = 3
  Options <- IncrementalModes
  Legacy = FALSE
  Faults = {"kill"}
  MaxFaults = 1
INVARIANTS
  DurablyReadable
