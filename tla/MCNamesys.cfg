SPECIFICATION Spec
CONSTANTS
  Requests = {r1}
  Jobs = {j1}
  Watchers = {w1}
  RedisMayFail = TRUE
  MaxVersion = 2
  None = None
INVARIANTS RegisteredWatcherLives
PROPERTIES Converges StopEndsWatchers
