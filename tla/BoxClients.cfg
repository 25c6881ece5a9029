SPECIFICATION FairSpec
CONSTANTS
  PER_PACKET = 2
  Nums = {0, 4, 5}
  MaxClients = 2
  MaxPics = 2
  MaxAsks = 2
INVARIANTS
  OnlyWhoAsked
  PicturesFromTheirStart
PROPERTIES
  WholePicture
  ServerServes
CHECK_DEADLOCK FALSE
