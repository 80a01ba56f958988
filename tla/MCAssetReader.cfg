SPECIFICATION Spec
CONSTANTS
  bgm = bgm
  big = big
  clip = clip
  map = map
  text = text
  other = other
  missing = missing
  Hash <- MCHash
  HashBits = 4
  PathLength <- MCPathLength
  SegmentTarget = 40
  BlocksPerMapPage = 3
  ReusePerPage = 4
  HotFileLimit = 1
  ContentDefinedLimit = 4
  ShortAudioLimit = 3
  AudioBlock = 2
  StreamBlock = 3
  BulkBlock = 2
  CompressionSavings = 0
  CutAfter = {2}
  Squeezed <- MCSqueezed
  Trees <- MCTrees
  Lengths = {1, 4}
  Steps <- MCSteps
INVARIANTS
  EveryPathIsFound
  EveryOffsetIsFound
  ReusePairsChunksWithBlocks
  StreamingWindow
  PrefetchedRange
PROPERTIES
  RequestsAreAnswered
  ImplementsSeekableFile
\* An empty release has nothing to open.
CHECK_DEADLOCK FALSE
