SPECIFICATION Spec
CHECK_DEADLOCK FALSE
CONSTANTS
  j1 = j1
  j2 = j2
  a1 = a1
  a2 = a2
  None = None
  Job = {j1}
  Site = {a1}
  Menu <- Screens
  Watched = {"scheduleRows", "instaPart", "abdPart", "backupRows", "vmHeader", "a3Settings", "netUse"}
  MaxClick = 2
  Faults = {"failed", "lost"}
INVARIANTS
  TypeOK
  TimersBelong
PROPERTIES
  LogNotStolen
