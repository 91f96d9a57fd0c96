SPECIFICATION FairSpec
CHECK_DEADLOCK FALSE
CONSTANTS
  j1 = j1
  c1 = c1
  c2 = c2
  Me = Me
  None = None
  Site = {0, 1}
  Job = {j1}
  Caller = {c1, c2}
  Run <- MCRun
  MaxTx <- MCMaxTx
  Uses <- MCUses
  Freq = 1
  vile = FALSE
INVARIANTS
  OnePurge
PROPERTIES
  ForceReturns
  NeedIsMet
