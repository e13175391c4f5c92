SPECIFICATION SearchSpec
CONSTANTS
  MaxCom = 6
  Found = {1, 2, 4, 5}
  MayClose = TRUE
INVARIANT OffersFirstWatch
INVARIANT LeavesPortsFree
PROPERTY MainComesUp
CHECK_DEADLOCK FALSE
