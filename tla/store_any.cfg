SPECIFICATION Spec
CHECK_DEADLOCK FALSE
CONSTANTS
  p1 = p1
  p2 = p2
  v1 = v1
  v2 = v2
  Prints <- MCPrints
  Version <- MCVersion
  Ecl <- MCEcl
  NoVersion = NoVersion
  MaxTx = 3
  PurgeBatch = 1
  MaxConflicts = 0
  MaxRestarts = 1
  Faults = {"fail", "failOverlap", "purgeOverlap", "tornDelLog"}
INVARIANTS
  SealTrusted
  NoOrphans
  SentKept
