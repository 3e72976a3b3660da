SPECIFICATION FairSpec
CONSTANTS
  MaxEntries = 3
  MaxSec = 2
  MaxClock = 2
  MaxFaults = 1
  CleanStart = TRUE
  Options <- StopOptions
  Profiles <- AllProfiles
INVARIANT SeriesFollowsProfile
PROPERTIES
  Terminates
  StopRestoresBaseline
