CONSTANTS
  None = None
  NoJob = NoJob
  Jobs = {d1, r1}
  Retry = {r1}
  Keys = {k1}
  EarlierKeys = {k1}
  Workers = {w1, w2, w3}
  Patient = {d1, r1}
  MaxSize = 1
  MaxAttempts = 2
  HttpTotal = 1
  MaxWait = 1
  Interval = 1
  StaleAfter = 4
SPECIFICATION RemoteFairSpec
INVARIANTS
  RunBounded
  TempsOwned
  OnePlace
PROPERTIES
  OnTimeSpec
  CallersReturn
  JobsLeave
CHECK_DEADLOCK FALSE
