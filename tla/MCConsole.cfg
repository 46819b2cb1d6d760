SPECIFICATION Spec
CONSTANTS
  Shell = {s}
  User = {p1, p2}
  INPUT_CAP = 2
  MAX_LINE = 1
  WRITE_MAX = 2
  ReadLen = {0, 1, 3}
  Received = {"char", "cr", "bs"}
  FifoDepth = 1
  MaxBytes = 4
INVARIANTS
  NothingMissed
PROPERTIES
  ImplementsInputQueue
SYMMETRY Users
\* The bytes of a run are bounded, and readers wait for more.
CHECK_DEADLOCK FALSE
