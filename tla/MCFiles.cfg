SPECIFICATION Spec
CONSTANTS
  PAGE_SIZE = 2
  VA_MAX = 8
  USIZE = 10
  Name = {"motd", "readme"}
  data <- Data
  MAX_FDS = 2
  MaxPid = 2
  PATH_MAX = 2
  WRITE_MAX = 2
  Path = {"motd", "readme", "nonesuch"}
  Ptr = {3, 5}
  Size = {0, 1, 3}
  FdArg = {0, 1, 2}
  Image <- Layout
  HeapPage = 3
INVARIANTS
  ReadsInOrder
  RangesExact
PROPERTIES
  DescriptorsStable
\* All processes may have exited.
CHECK_DEADLOCK FALSE
