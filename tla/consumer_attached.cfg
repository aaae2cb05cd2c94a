CONSTANTS
  None = None
  Calls = {c1, c2}
  chatA = chatA
  chatB = chatB
  refused = refused
  Keys <- MCKeys
  Allowed <- MCAllowed
  BlobOf <- MCBlobOf
  Capacity = 1
  HighWater = 1
  MaxTerminal = 1
SPECIFICATION FaultySpec
INVARIANTS
  ConsumerAttached
CHECK_DEADLOCK FALSE
