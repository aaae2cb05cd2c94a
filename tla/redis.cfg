CONSTANTS
  None = None
  Calls = {c1, c2}
  wanted = wanted
  refused = refused
  Keys <- MCKeys
  Allowed <- MCAllowed
  BlobOf <- MCBlobOf
  Capacity = 1
  HighWater = 1
  MaxTerminal = 1
SYMMETRY Interchangeable
SPECIFICATION Spec
INVARIANTS
  TypeOK
  AckedIsSettled
  OpenJobsMove
  DirsOwned
  InboxShape
  RememberedHasNoWaiter
  MemoryBounded
PROPERTIES
  SettledStays
  FuturesSettleOnce
  TerminalStepWakes
  DurablyKept
CHECK_DEADLOCK FALSE
