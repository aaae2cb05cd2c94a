CONSTANTS
  Users = {alice, bob}
  Tokens = {t1, t2}
  MaxEvents = 2
  Window = 2
  EventKinds = {"message", "callback"}
  Ttl = 3
  Horizon = 5
SYMMETRY Interchangeable
SPECIFICATION Spec
INVARIANTS
  WindowKept
  RefusedWithReason
  MenuUsedOnce
CHECK_DEADLOCK FALSE
