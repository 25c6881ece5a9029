SPECIFICATION Spec
CONSTANTS
  DELAY = 0
  HOLD = 2
  GOP = 4
  MaxUnits = 4
  MaxSessions = 1
INVARIANT TimestampFound
CHECK_DEADLOCK FALSE
