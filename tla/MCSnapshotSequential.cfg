SPECIFICATION Spec
CONSTANTS
  f1 = f1
  f2 = f2
  f3 = f3
  gp = gp
  other = other
  history = history
  Nobody = Nobody
  Fetches = {f1, f2, f3}
  Requests = {gp, history}
  Celestrak = {gp}
  Commands <- AllCommands
  Refresh = 1
  MaxRunning = 1
  MaxClock = 2
SYMMETRY Symmetry
PROPERTIES
  ReusedAnswers
INVARIANTS
  SurvivesFailure
  RefreshPolicy
CHECK_DEADLOCK FALSE
