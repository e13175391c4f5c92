SPECIFICATION ComLiveSpec
CONSTANTS
  sync = sync
  r1 = r1
  Users = {sync}
  Single = {}
  Readers = {r1}
  NoThread = NoThread
  Deleted = Deleted
  MaxObjects = 1
  GoesOn = FALSE
PROPERTY ReaderEnds
CHECK_DEADLOCK FALSE
