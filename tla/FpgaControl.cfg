SPECIFICATION Spec
CONSTANTS
  SLOTS = 3
  PERMITS = 2
  W = 6
  StartRegs <- MCStartRegs
  MaxPoll = 3
  MaxStale = 1
  MaxFrames = 5
INVARIANTS
  CallbackSlotStable
  InputSlotExclusive
  InDataAlive
  PopFindsFrame
  PermitsConserved
CHECK_DEADLOCK FALSE
