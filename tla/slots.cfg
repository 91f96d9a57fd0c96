SPECIFICATION FairSpec
CHECK_DEADLOCK FALSE
CONSTANTS
  c1 = c1
  c2 = c2
  s1 = s1
  s2 = s2
  None = None
  Client = {c1, c2}
  Slot = {s1, s2}
  Buf = 4
  Read = {9}
  Stat = 2
  Path = 3
  Name = 2
  Names = {1, 3}
  MaxReq = 2
  Faults = {"slow", "write"}
INVARIANTS
  SlotsAccounted
  OwnAnswer
  WholeAnswer
  NoStall
PROPERTIES
  CallsEnd
