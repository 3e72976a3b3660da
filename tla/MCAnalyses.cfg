SPECIFICATION Spec
CONSTANTS
  None = None
  NoRtt = NoRtt
  Histories <- SomeHistories
  Starts = {0}
  Steps = {1}
  ObservedFor = 3
  Lags = {0, 1}
  StaleAfter = 1
  Unpropagable = {2}
  Visible = {1, 2}
  Skies <- SomeSkies
  Failures <- SomeFailures
  EventLists <- SomeEvents
  Duration = 7
  Step = 2
  WindowBefore = 2
  WindowAfter = 1
  Inputs <- SomeInputs
  Nearby = 1
  Logs <- SomeLogs
  WindowLists <- SomeWindows
  Thresholds <- SomeThresholds
  Margin = 1
  Alignment = 1
  Series <- SomeSeries
  BinSize = 2
  PairTolerance = 2
INVARIANTS
  SelectionSound
  VisibilitySound
  FramesTrue
  ScoresFair
CHECK_DEADLOCK FALSE
