SPECIFICATION Spec
CONSTANTS
  Kinds = {"published"}
  MaxJournal = 2
  MaxGeneration = 1
  MaxReconcilePages = 3
  UseRedis = TRUE
  PortalMayStall = FALSE
PROPERTIES GapLosesNothing
