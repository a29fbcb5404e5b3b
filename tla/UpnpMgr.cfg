SPECIFICATION MgrFairSpec
CONSTANTS
  Ports = {80, 81}
  PortVecs <- PortVecsDef
  NoRequest = NoRequest
  Addrs = {a1, a2}
  NoAddr = NoAddr
  SecureRouter = TRUE
  RefusesConflicts = FALSE
  Faults = {"noIGD", "refuseNew", "refuseRefresh", "lostReply", "deleteFails", "reboot", "hostMoves", "noThread"}
  MaxFaults = 4
  DarkCap = 60
INVARIANTS
  MgrTypeOK
  CleanupCanReach
  ClientOwnsMembers
  StopNotLost
  NoStaleInterrupt
  ErrorReportedOnce
  OutageBounded
PROPERTIES
  StopHeeded
  CallsReturn
  KeptOpen
