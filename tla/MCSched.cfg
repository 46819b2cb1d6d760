SPECIFICATION Spec
CONSTANTS
  MaxPid = 3
  NBoot = 2
  User = {2, 3}
  Ops = {"yield", "join", "nap", "spawn", "exec", "exit", "nop"}
  MaxNap = 1
  MaxDepth = 3
INVARIANTS
  SectionsExclusive
  InterruptIntent
  CurrentIsOnHart
  ReapSafe
  NoLostWakeup
  SscratchTellsMode
PROPERTIES
  NoOvertaking
