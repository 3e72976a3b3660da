SPECIFICATION Spec
CONSTANTS
  MaxEntries = 3
  MaxSec = 3
  MaxClock = 4
  MaxFaults = 1
  CleanStart = TRUE
  Options <- EventOptions
  Profiles <- AllProfiles
INVARIANTS
  TypeOK
  NoBaselineDuringEvent
  LatestEventShown
  NeverEarly
  PlannedMonotone
  LogTellsDevices
  CompletedLogAccepted
  CompletedRestoresBaseline
  StopIsPrompt
PROPERTY ImplementsSchedule
