\* One buffer ready and the other tried twice; the table fills up.
CONSTANTS
  Buffers = {"data", "options"}
  MaxFds = 7
  MaxInits = 3
  MaxSockets = 2
SPECIFICATION Spec
INVARIANTS
  TypeOK
  NeverStrays
  HoldsAsStated
CHECK_DEADLOCK FALSE
