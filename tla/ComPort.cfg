SPECIFICATION ComLiveSpec
CONSTANTS
  sync = sync
  update = update
  r1 = r1
  r2 = r2
  Users = {sync, update}
  Single = {update}
  Readers = {r1, r2}
  NoThread = NoThread
  Deleted = Deleted
  MaxObjects = 2
  GoesOn = FALSE
INVARIANT NobodyIsLost
INVARIANT ReadsOwnObject
PROPERTY RefinesPortUse
PROPERTY DeleteEnds
CHECK_DEADLOCK FALSE
