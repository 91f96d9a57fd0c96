SPECIFICATION Spec
CONSTANTS
  p1 = p1
  p2 = p2
  v1 = v1
  v2 = v2
  Prints <- MCPrints
  Version <- MCVersion
  Ecl <- MCEcl
  NoVersion = NoVersion
  MaxTx = 3
  PurgeBatch = 2
  MaxConflicts = 1
  MaxRestarts = 0
  Faults = {"purgeOverlap"}
INVARIANTS
  Complete
