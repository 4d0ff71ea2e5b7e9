SPECIFICATION FairSpec
CONSTANTS
  Folders = {home, other}
  DefaultFolder = home
  Ports <- MCPorts
  Garbage <- MCGarbage
  Servers = {stun}
  DiskFails = TRUE
  Absent = Absent
  Garbled = Garbled
  None = None
  Sendable = {f, g}
  Unopenable = {g}
  NoFile = NoFile
  MaxEvents = 4
INVARIANTS
  TypeOK
  SectionsSurvive
  RunningIsShown
  NoGhostTransfer
  FolderAgrees
PROPERTIES
  
  CancelClears
CHECK_DEADLOCK FALSE
