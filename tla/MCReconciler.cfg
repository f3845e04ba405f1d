SPECIFICATION Spec
CONSTANTS
  Kinds = {"published", "publishedNoCid", "removed", "unknown"}
  MaxJournal = 3
  MaxGeneration = 3
  MaxReconcilePages = 2
  UseRedis = TRUE
  PortalMayStall = FALSE
INVARIANTS TypeOK OneRunAtATime ReadyMeansCaughtUp CursorBehindEffects NoSessionForgotten
PROPERTIES EventuallyReady ImplementsReplay
