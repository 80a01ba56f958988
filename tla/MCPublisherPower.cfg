SPECIFICATION Spec
CONSTANTS
  a = a
  b = b
  Absent = Absent
  Files = {1, 2}
  History <- MCHistory
  SegmentIds = {1, 2, 3, 4, 5, 6, 7, 8, 9, 10}
  MaxSeq = 3
  Options <- AllModes
  Legacy = TRUE
  Faults = {"power", "loss"}
  MaxFaults = 1
INVARIANTS
  DurablyReadable
  AcknowledgedIsDurable
  NewReleaseIsComplete
\* Builds that fail for want of a deleted segment leave new segments behind,
\* until SegmentIds is used up and no further build is explored.
CHECK_DEADLOCK FALSE
