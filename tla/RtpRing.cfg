SPECIFICATION FairSpec
CONSTANTS
  BUFFER_SIZE = 4
  SEQS = 8
  FirstSeq = 6
  LAG = 1
  WINDOW = 2
  MaxSent = 5
  MaxLost = 1
  MaxDup = 1
INVARIANTS
  BlocksOwnedOnce
  TrailingDistance
PROPERTIES
  RingKeepsOrder
  ParsedAfterLag
  ParserStops
CHECK_DEADLOCK FALSE
