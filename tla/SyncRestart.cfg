SPECIFICATION Spec
CONSTANTS
  MaxSn = 2
  LogSize <- FullCard
  NoFile = NoFile
  t1 = t1
  Syncers = {t1}
  k1 = k1
  Stoppers = {k1}
  NoThread = NoThread
  MaxPorts = 2
  MaxItems = 1
  MaxRuns = 2
  PromptDevice = FALSE
  MayFail = {1}
  GraceSleep = FALSE
INVARIANT SyncTypeOK
INVARIANT NoOrphanPort
CHECK_DEADLOCK FALSE
