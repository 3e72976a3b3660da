SPECIFICATION Spec
CONSTANTS
  f1 = f1
  f2 = f2
  f3 = f3
  gp = gp
  other = other
  history = history
  Nobody = Nobody
  Fetches = {f1, f2, f3}
  Requests = {gp, other}
  Celestrak = {gp}
  Commands <- ForceCommands
  Refresh = 1
  MaxRunning = 3
  MaxClock = 0
INVARIANTS
  TypeOK
  NoMixture
  NoTempLeft
PROPERTIES
  IsRegister
CHECK_DEADLOCK FALSE
