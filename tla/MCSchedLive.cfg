SPECIFICATION FairSpec
CONSTANTS
  MaxPid = 2
  NBoot = 2
  User = {2}
  Ops = {"join", "nap", "exit"}
  MaxNap = 1
  MaxDepth = 3
PROPERTIES
  RunnableRuns
  CallsEnd
