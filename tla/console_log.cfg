SPECIFICATION FairSpec
CHECK_DEADLOCK FALSE
CONSTANTS
  j1 = j1
  j2 = j2
  a1 = a1
  a2 = a2
  None = None
  Job = {j1, j2}
  Site = {a1}
  Menu = {"jobsRun", "a3s", "insta"}
  Watched = {"instaPart"}
  MaxClick = 3
  Faults = {}
INVARIANTS
  LiveLogPolled
PROPERTIES
  LogShowsEnd
  LoadingEnds
