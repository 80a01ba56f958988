SPECIFICATION FairSpec
CONSTANTS
  r1 = r1
  r2 = r2
  trimmer = trimmer
  k1 = k1
  k2 = k2
  k3 = k3
  p1 = p1
  p2 = p2
  s1 = s1
  s2 = s2
  s3 = s3
  Readers <- MCReaders
  Trimmer = trimmer
  NoThread = NoThread
  Keys = {k1, k2, k3}
  Pages = {p1, p2}
  Segments = {s1, s2, s3}
  PageOf <- MCPageOf
  SegmentOf <- MCSegmentOf
  BlockLen <- MCBlockLen
  PageLen <- MCPageLen
  PageBudget = 1
  BlockBudget = 1
  PrefetchBudget = 1
  HandleCapacity = 2
  ProbationCapacity = 1
  Installed = {s1, s2}
  Requests <- MCRequests
  MaxRequests = 3
INVARIANTS
  HandlesInOrder
  PrefetchedNotHidden
  AdmittedAfterTwoReads
  TrimReleasesWhatItFound
PROPERTIES
  EverythingReturns
