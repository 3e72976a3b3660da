SPECIFICATION Spec
CONSTANTS
  MaxEntries = 1
  MaxSec = 1
  MaxClock = 1
  MaxFaults = 1
  CleanStart = TRUE
  Options <- TargetOptions
  Profiles <- OneEntry
INVARIANTS
  CleanupOnExitRemoves
