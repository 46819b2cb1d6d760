SPECIFICATION Spec
CONSTANTS
  NFrames = 17
  Dtb <- Dtbs
  Loader = {l1}
  MaxPid = 2
  MaxExec = 1
  Prog = {1}
  L1Entries = 3
  L0Entries = 2
  PAGE_SIZE = 2
  StackPage = 2
  HeapPage = 4
  HeapPages = 1
  USIZE = 16
  Delta = {1, 15}
  Val = {9}
INVARIANTS
  FramesPartitioned
  KernelMapped
  LayoutOK
PROPERTIES
  Isolated
  BornAsCopyOrImage
  DemandPagesAreZero
\* A panic stops the kernel, and a run may end with all processes gone.
CHECK_DEADLOCK FALSE
