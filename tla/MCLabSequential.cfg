SPECIFICATION Spec
CONSTANTS
  a = a
  b = b
  Evaluations = {a, b}
  Repetitions = 2
  MaxRunning = 1
  KeepLab <- MayKeep
  OrphanTests = FALSE
SYMMETRY Alike
INVARIANTS
  OwnArtifacts
  OwnCondition
PROPERTIES
  FinishedIsComplete
CHECK_DEADLOCK FALSE
