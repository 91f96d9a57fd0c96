SPECIFICATION Spec
CHECK_DEADLOCK FALSE
CONSTANTS
  p1 = p1
  p2 = p2
  v1 = v1
  v2 = v2
  Prints <- MCPrints
  Version <- MCVersion
  Ecl <- MCEcl
  NoVersion = NoVersion
  MaxTx = 3
  PurgeBatch = 2
  MaxConflicts = 1
  MaxRestarts = 2
  Faults = {"fail"}
INVARIANTS
  TypeOK
  Durable
  Catalog
  RefcountsExact
  FlagsAgree
PROPERTIES
  TxLifecycle
  Promise
