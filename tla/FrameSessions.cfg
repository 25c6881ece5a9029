SPECIFICATION FairSpec
CONSTANTS
  DELAY = 1
  HOLD = 2
  GOP = 4
  MaxUnits = 9
  MaxSessions = 3
INVARIANTS
  ClearMeetsOnlyStragglers
  PicturesKeepTheirTime
  NoPictureOfAnEarlierClient
  DecoderStartsAtParamSet
  TimestampFound
PROPERTIES
  HandedInOrder
  StrangersOnlyFirst
  NothingStuck
CHECK_DEADLOCK FALSE
