SPECIFICATION Spec
CONSTANTS
  None = None
  ProfileFiles <- AllFiles
  Policies <- ChosenPolicies
  DefaultDelay = 4
  DefaultJitter = 2
  DefaultRate = 6
  MinDelay = 2
  MaxDelay = 8
  MaxJitter = 6
  MaxSpike = 4
  Corrections <- Steps
  MaxCommands = 3
  Sessions <- SomeSessions
  BinSec = 2
  MinDuration = 2
  Degraded = 1
  Severe = 2
  Collapse = 3
  Measurements <- SomeMeasurements
  Gap = 1
  LongestDelay = 64
  LeastRate = 1
  FirstDelay = 8
  FirstRate = 8
  Captures <- SomeCaptures
  Kind <- SomeKinds
  Builds <- SomeBuilds
  Strange <- OtherFiles
INVARIANTS
  DirectionsFaithful
  FormsAgree
  GeneratedFaithful
  ManifestsTrue
PROPERTIES
  GoodFilesStay
CHECK_DEADLOCK FALSE
