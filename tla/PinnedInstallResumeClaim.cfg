SPECIFICATION PSpec
CONSTANTS
  Installers = {p1, p2}
  NFiles = 2
  Chunks = 2
  MaxFaults = 2
  MaxCrashes = 2
INVARIANTS
  InterruptedInstallIsReusable
CHECK_DEADLOCK FALSE
