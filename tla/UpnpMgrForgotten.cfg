SPECIFICATION MgrSpec
CONSTANTS
  Ports = {80, 81}
  PortVecs <- PortVecsDef
  NoRequest = NoRequest
  Addrs = {a1, a2}
  NoAddr = NoAddr
  SecureRouter = TRUE
  RefusesConflicts = FALSE
  Faults = {"refuseRefresh"}
  MaxFaults = 1
  DarkCap = 0
INVARIANTS
  ClosedAfterRun
