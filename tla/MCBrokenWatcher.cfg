SPECIFICATION Spec
CONSTANTS
  Domains = {d1, d2}
  NoDomain = NoDomain
  DeletedConfirmCount = 2
  MaxCallbacks = 1
INVARIANTS DeletionConfirmed StoppedIsQuiet
PROPERTIES StopReturns Recovers
