SPECIFICATION Spec
CONSTANTS
  cr = cr
  cs = cs
  cx = cx
  Cids = {cr, cs, cx}
  Roots = {cr, cs}
  Links <- MCLinks
  Reach <- MCReach
  Submitters = {s1}
  Tasks = {t1, t2}
  MaxConc = 2
  UseResolver = TRUE
  None = None
INVARIANTS OneWalkPerRoot MarkedWalkCovers
PROPERTIES Released
