SPECIFICATION UpdateLiveSpec
CONSTANTS
  SeqMod = 3
  MaxFaults = 3
  MayUnplug = TRUE
  u1 = u1
  Updaters = {u1}
  ImageSize <- AllSizes
  NoImage = NoImage
  SmallPacket = 2
  BigPacket = 4
  FlashBlocks = 3
  Tries = 3
  ShortRead = 6
  MaxObjects = 2
INVARIANT UpdateTypeOK
INVARIANT SuccessIsInstalled
INVARIANT InstallsWholeImages
INVARIANT PortIsReleased
PROPERTY UpdateEnds
PROPERTY TransferCompletes
CHECK_DEADLOCK FALSE
