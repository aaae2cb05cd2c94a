CONSTANTS
  None = None
  NoJob = NoJob
  Jobs = {d1, d2}
  Retry = {}
  Keys = {k1}
  EarlierKeys = {}
  Workers = {w1, w2}
  Patient = {}
  MaxSize = 2
  MaxAttempts = 2
  HttpTotal = 1
  MaxWait = 3
  Interval = 1
  StaleAfter = 2
SPECIFICATION RemoteSpec
INVARIANTS
  NoParallelDownload
CHECK_DEADLOCK FALSE
