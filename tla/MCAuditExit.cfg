SPECIFICATION Spec
CONSTANTS
  Records = {r1}
  Closers = {x}
  Capacity = 1
CHECK_DEADLOCK FALSE
INVARIANTS AuditCompleteAtExit
