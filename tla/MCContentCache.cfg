SPECIFICATION Spec
CONSTANTS
  c1 = c1
  c2 = c2
  c3 = c3
  c4 = c4
  Cids = {c1, c2, c3, c4}
  NoCid = NoCid
  Size <- Sizes
  Quotas = {2}
  LruSize = 1
  Legacy = {c1}
  DiskMayFail = TRUE
  MaxDrift = 0
INVARIANTS Accounting TrackedOnDisk RefusesOnlyTooLarge
