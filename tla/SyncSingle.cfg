SPECIFICATION LiveSpec
CONSTANTS
  MaxSn = 3
  LogSize <- TwoLogs
  NoFile = NoFile
  t1 = t1
  Syncers = {t1}
  k1 = k1
  Stoppers = {k1}
  NoThread = NoThread
  MaxPorts = 2
  MaxItems = 2
  MaxRuns = 1
  PromptDevice = TRUE
  MayFail = {1}
  GraceSleep = TRUE
INVARIANT NotFoundIsTrue
INVARIANT SkipsOnlyStored
INVARIANT FinishedIsComplete
INVARIANT QuiescentClean
PROPERTY RefinesLogStore
PROPERTY StopCompletes
PROPERTY SyncEnds
PROPERTY SyncCompletes
PROPERTY DownloadedIsParsed
CHECK_DEADLOCK FALSE
