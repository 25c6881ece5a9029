SPECIFICATION Spec
CONSTANTS
  STX = 253
  HEAD_LEN = 2
  END_LEN = 1
  READ = 8
  LIMIT = 24
  INITIAL = 24
  Payloads <- GpsOnly
  Noise = {0, 7}
  MaxSent = 12
  MaxNoise = 0
INVARIANT PacketUnderLimit
CHECK_DEADLOCK FALSE
