SPECIFICATION FairSpec
CONSTANTS
  SLOTS = 3
  PERMITS = 2
  W = 6
  StartRegs <- MCStartRegs
  MaxPoll = 3
  MaxStale = 0
  MaxFrames = 5
PROPERTIES
  FifoSpec
  EveryFrameAnswered
  DestructorJoins
CHECK_DEADLOCK FALSE
