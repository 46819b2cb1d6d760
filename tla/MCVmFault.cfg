SPECIFICATION Spec
CONSTANTS
  NFrames = 8
  Dtb <- NoDtb
  Loader = {l1}
  MaxPid = 1
  MaxExec = 0
  Prog = {1}
  L1Entries = 3
  L0Entries = 2
  PAGE_SIZE = 2
  StackPage = 2
  HeapPage = 4
  HeapPages = 1
  USIZE = 16
  Delta = {1, 15}
  Val = {9}
INVARIANTS
  FaultsSpareTheKernel
\* A panic stops the kernel, and a run may end with all processes gone.
CHECK_DEADLOCK FALSE
