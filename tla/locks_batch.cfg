SPECIFICATION Spec
CHECK_DEADLOCK FALSE
CONSTANTS
  p1 = p1
  p2 = p2
  m1 = m1
  file = file
  None = None
  Prints = {p1}
  Munger = {m1}
  Sender = {s1, s2, s3}
  Resumer = {}
  Parent = s1
  Path = {file}
  PathOf <- MCPathOf
  Delta <- OnePrint
  MaxKey = 4
  Faults = {"abort", "timeout"}
INVARIANTS
  BatchComplete
  LastCommits
