SPECIFICATION Spec
CONSTANTS
  x = x
  y = y
  z = z
  N = 2
  Chunks = {x, y, z}
  History <- MCHistory
  AccessOf <- MCAccessOf
  PolicyOf <- MCPolicyOf
  Compressible = {x}
  PlainLen <- MCPlainLen
  StoredLen <- MCStoredLen
  Target <- MCTarget
  Options <- MCOptions
  SegmentIds = {1, 2, 3, 4, 5, 6, 7, 8, 9, 10, 11, 12, 13, 14}
  MaxSeq = 5
  MaxQuiet = 1
  Small = 1
  MinFragments = 3
  DeadBytes = 2
  RewriteBudget = 3
INVARIANTS
  ReleaseHoldsSources
  PlacedByClass
  SegmentsWithinTarget
  NewBlocksShared
  CacheNeverLosesABlock
  CompactionSettles
  CompactionFillsBudget
