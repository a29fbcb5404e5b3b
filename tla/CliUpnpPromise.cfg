SPECIFICATION FairSpec
CONSTANTS
  Ports = {80, 81}
  PortVecs <- TwoPorts
  NoRequest = NoRequest
  Addrs = {a1, a2}
  NoAddr = NoAddr
  SecureRouter = FALSE
  RefusesConflicts = TRUE
  Faults = {"noIGD", "refuseNew", "reboot", "hostMoves", "noThread"}
  MaxFaults = 4
  DarkCap = 0
  Signals <- TwoSignals
  HandlerThreads = {"main", "upnp", "os"}
  HandlerPersists = TRUE
  ReadRestarts = TRUE
  MaxSignals = 3
INVARIANTS
  OneWakeUp
  ClosedAfterRun
  InterruptCloses
PROPERTIES
  KeepsPromise
  ShutdownCompletes
