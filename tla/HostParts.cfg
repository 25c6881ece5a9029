SPECIFICATION PartsSpec
CONSTANTS
  SEQS = 4
  SCALE = 2
  DELAYS = 2
  MaxArrivals = 3
  MaxReports = 2
  MaxTime = 3
  RW_MAX_SIZE = 2
  Bases = {0, 5}
  Sizes = {0, 3}
  WORD = 4
  Tables <- SmallTables
  MaxOpens = 2
  MaxPosition = 1
  BLOCKS = 2
  PER_PACKET = 2
  QUEUE_MAX = 1
  BoxCounts = {0, 2, 3}
  MaxBlocks = 5
  MaxResults = 1
  MaxRepeats = 1
  MaxGuests = 3
  INITIAL = 8
  UNIT = 12
  RECV = 9
  PORT = 8
  MaxSize = 120
  Layers <- TwoLayers
  classNum = 2
  TOP = 2
  DEFAULT_BOXES = 2
  MaxBoxNums = {2, 3}
  Detects <- DetectSizes
  Sources <- SourceSizes
  BoxEnds <- Ends
  BLOCK = 4
  BITS = 2
  COUNTS = 16
  BUFFER = 12
  TextLengths = {1, 2, 3, 4, 5, 6, 8, 9, 10}
  Pairs <- CfgPairs
  MaxLines = 5
  GOP = 4
  MaxParts = 3
  MaxUnits = 6
  MaxLost = 2
  Edge = 3
INVARIANTS
  ReportsFaithful
  DeviceKept
  RawDataKept
  EarlyClientsHarmless
  DataFits
  BoxesSound
  PlacesAgree
  SumsComputed
  ConfigAsWritten
  UnitsRebuilt
  OverlapSound
PROPERTY
  StartsOnWholePicture
CHECK_DEADLOCK FALSE
