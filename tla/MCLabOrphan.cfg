SPECIFICATION Spec
CONSTANTS
  a = a
  b = b
  Evaluations = {a, b}
  Repetitions = 1
  MaxRunning = 1
  KeepLab <- NotKept
  OrphanTests = TRUE
INVARIANTS
  OwnArtifacts
CHECK_DEADLOCK FALSE
