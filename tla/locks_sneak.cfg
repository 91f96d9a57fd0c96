SPECIFICATION Spec
CHECK_DEADLOCK FALSE
CONSTANTS
  p1 = p1
  p2 = p2
  m1 = m1
  file = file
  None = None
  Prints = {p1, p2}
  Munger = {m1, m2}
  Sender = {}
  Resumer = {}
  Parent = None
  Path = {file}
  PathOf <- MCPathOf
  Delta <- TwoPrints
  MaxKey = 2
  Faults = {}
INVARIANTS
  LockedKept
