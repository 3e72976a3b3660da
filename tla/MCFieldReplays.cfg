SPECIFICATION Spec
\* The waits are the default ones in a unit of two seconds or so; the replays
\* are shorter than, as long as and longer than the measurement.
CONSTANTS
  MaxEvents = 3
  MaxSec = 3
  Profiles <- AllProfiles
  Offsets <- SomeOffsets
  Files <- SomeFiles
  Modes = {"event", "profile"}
  Formats = {"v1", "legacy"}
  Lengths = {1, 4}
  IterMax = 2
  Duration = 4
  Linger = 2
  Lead = 1
  StartDelay = 2
  Tries = 2
  MaxClock = 4
  MaxFaults = 1
INVARIANTS
  ReplaysTrue
  ResultsSound
PROPERTIES
  ImplementsSchedule
  WorkGetsDone
