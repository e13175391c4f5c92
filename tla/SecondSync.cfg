SPECIFICATION Spec
CONSTANTS
  MaxSn = 2
  LogSize <- OneLog
  NoFile = NoFile
  t1 = t1
  Syncers = {t1}
  k1 = k1
  Stoppers = {k1}
  NoThread = NoThread
  MaxPorts = 2
  MaxItems = 1
  MaxRuns = 1
  PromptDevice = TRUE
  MayFail = {}
  GraceSleep = TRUE
INVARIANT OpensChosenPort
CHECK_DEADLOCK FALSE
