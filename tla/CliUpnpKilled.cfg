SPECIFICATION Spec
CONSTANTS
  Ports = {80}
  PortVecs <- OnePort
  NoRequest = NoRequest
  Addrs = {a1, a2}
  NoAddr = NoAddr
  SecureRouter = TRUE
  RefusesConflicts = FALSE
  Faults = {}
  MaxFaults = 0
  DarkCap = 0
  Signals <- TwoSignals
  HandlerThreads = {"os"}
  HandlerPersists = FALSE
  ReadRestarts = TRUE
  MaxSignals = 2
INVARIANTS
  InterruptCloses
