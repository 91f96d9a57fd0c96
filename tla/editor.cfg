SPECIFICATION FairSpec
CHECK_DEADLOCK FALSE
CONSTANTS
  v1 = v1
  v2 = v2
  x1 = x1
  h1 = h1
  g1 = g1
  g2 = g2
  p = p
  t = t
  w = w
  n = n
  None = None
  System = {v1, v2}
  XenHost = {x1}
  HyperV = {h1}
  Profile = {g1, g2}
  First = g1
  JobId = {p, t, w, n}
  Initial <- Jobs
  MaxOpen = 2
  MaxAct = 5
  MaxLate = 3
  Faults = {"failed"}
INVARIANTS
  HostOnce
  
  StorageFits
  DisksOnce
PROPERTIES
  RetentionKept
  OwnVersion
  RunNowRuns
