SPECIFICATION Spec
CONSTANTS
  Shell = {}
  User = {p1}
  INPUT_CAP = 2
  MAX_LINE = 1
  WRITE_MAX = 2
  ReadLen = {1, 3}
  Received = {"char", "cr"}
  FifoDepth = 1
  MaxBytes = 4
INVARIANTS
  ReadsALine
\* The bytes of a run are bounded, and readers wait for more.
CHECK_DEADLOCK FALSE
