CONSTANTS
  None = None
  NoJob = NoJob
  Jobs = {d1, d2, r1}
  Retry = {r1}
  Keys = {k1, k2}
  EarlierKeys = {k2}
  Workers = {w1, w2}
  Patient = {}
  MaxSize = 2
  MaxAttempts = 2
SYMMETRY Interchangeable
SPECIFICATION SoundSpec
INVARIANTS
  PInv
  Balanced
  OnePlace
  NoLostWaiter
  OneDownloadPerKey
  ReservationsReleased
  FailuresBounded
PROPERTIES
  AnswerIsFinal
  DownloadsKept
CHECK_DEADLOCK FALSE
