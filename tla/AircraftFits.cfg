SPECIFICATION Spec
CONSTANTS
  STX = 253
  HEAD_LEN = 2
  END_LEN = 1
  READ = 8
  LIMIT = 32
  INITIAL = 32
  Payloads <- Attitudes
  Noise = {0, 7}
  MaxSent = 8
  MaxNoise = 0
PROPERTY PacketFits
CHECK_DEADLOCK FALSE
