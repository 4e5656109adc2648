SPECIFICATION Spec
CONSTANTS
  Fds = {1, 2}
  TicksPerMs = 2
  INT_MAX = 1
  Delays = {0, 3}
  MaxTime = 3
  MaxTokens = 3
  MaxTimers = 2
PROPERTIES
  NextIteration
