SPECIFICATION Spec
CONSTANTS
  heap_start = 4
  HEAP_SIZE = 26
  ALIGN = 2
  MIN_BLOCK = 4
  HeaderSize = 2
  Size = {0, 3, 6}
  Align = {1, 4, 8}
INVARIANTS
  Partition
  AllocationsSound
  Coalesced
  NullOnlyWhenFull
