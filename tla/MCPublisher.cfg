SPECIFICATION Spec
CONSTANTS
  a = a
  b = b
  Absent = Absent
  Files = {1, 2}
  History <- MCHistory
  SegmentIds = {1, 2, 3, 4, 5, 6, 7, 8, 9, 10}
  MaxSeq = 3
  Options <- AllModes
  Legacy = FALSE
  Faults = {"error", "sync_error", "kill"}
  MaxFaults = 1
INVARIANTS
  ActiveReleaseReadable
  PublishedContentWasScanned
  StrictReleaseIsOneInstant
  SuccessLeavesNothingElse
PROPERTIES
  AcknowledgedReleasesAdvance
  ImplementsReleaseHistory
