SPECIFICATION FairSpec
CONSTANTS
  Thread = {t1, t2}
  t1 = t1
  t2 = t2
  Lock = {"CONSOLE", "INPUT", "FS", "HEAP"}
  Nest <- Nesting
  Rank <- Order
  IrqRegion = {"off", "wakeup", "INPUT", "CONSOLE"}
  LoopRegion = {"off", "HEAP"}
  MaxDepth = 2
INVARIANTS
  NeverSpins
  LinesWhole
  SectionsNest
PROPERTIES
  PanicHeard
\* After a panic the hart stays in wfi.
CHECK_DEADLOCK FALSE
