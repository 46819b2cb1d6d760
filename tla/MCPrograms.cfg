SPECIFICATION FairSpec
CONSTANTS
  PAGE_SIZE = 2
  VA_MAX = 10
  USIZE = 16
  Name = {"motd"}
  data <- Data
  MAX_FDS = 2
  MaxPid = 4
  Boot <- BootPrograms
  Cmd = {"greet", "fault", "echoline", "uname", "heapgrow", "fork", "ush", "motd", "poweroff"}
  Line = {"newline", "q", "forker", "catfile", "g"}
  Chunk = 2
  WRITE_MAX = 4
  PATH_MAX = 2
INVARIANTS
  OneReader
  SelfTestsPass
PROPERTIES
  ProgramsEnd
\* The machine may be switched off.
CHECK_DEADLOCK FALSE
