SPECIFICATION MgrFairSpec
CONSTANTS
  Ports = {80, 81}
  PortVecs <- TwoPorts
  NoRequest = NoRequest
  Addrs = {a1, a2}
  NoAddr = NoAddr
  SecureRouter = FALSE
  RefusesConflicts = FALSE
  Faults = {"hostMoves"}
  MaxFaults = 1
  DarkCap = 0
PROPERTIES
  KeptOpen
