SPECIFICATION Spec
CONSTANTS
  PER_PACKET = 2
  Nums = {4}
  MaxClients = 2
  MaxPics = 2
  MaxAsks = 1
INVARIANT SurvivesClient
CHECK_DEADLOCK FALSE
