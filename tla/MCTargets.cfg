SPECIFICATION Spec
CONSTANTS
  MaxEntries = 1
  MaxSec = 1
  MaxClock = 1
  MaxFaults = 2
  CleanStart = FALSE
  Options <- TargetOptions
  Profiles <- OneEntry
INVARIANTS
  ShapedWhileReplaying
  RedirectNeedsLink
  CleanupComplete
