SPECIFICATION Spec
CONSTANTS
  STX = 253
  HEAD_LEN = 2
  END_LEN = 1
  READ = 8
  LIMIT = 40
  INITIAL = 16
  Payloads <- SmallPayloads
  Noise = {0, 7}
  MaxSent = 4
  MaxNoise = 1
INVARIANTS
  MessagesInTurn
CHECK_DEADLOCK FALSE
