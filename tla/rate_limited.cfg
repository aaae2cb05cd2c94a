CONSTANTS
  Users = {alice, bob}
  Tokens = {t1, t2}
  MaxEvents = 2
  Window = 2
  EventKinds = {"update"}
  Ttl = 3
  Horizon = 5
SPECIFICATION Spec
INVARIANTS
  WindowKept
CHECK_DEADLOCK FALSE
