SPECIFICATION Spec
CONSTANTS
  Ports = {80, 81}
  PortVecs <- TwoPorts
  NoRequest = NoRequest
  Addrs = {a1, a2}
  NoAddr = NoAddr
  SecureRouter = FALSE
  RefusesConflicts = TRUE
  Faults = {"noIGD", "refuseNew", "refuseRefresh", "lostReply", "deleteFails", "reboot", "hostMoves", "noThread"}
  MaxFaults = 3
  DarkCap = 0
  Signals <- TwoSignals
  HandlerThreads = {"main", "upnp"}
  HandlerPersists = TRUE
  ReadRestarts = FALSE
  MaxSignals = 4
INVARIANTS
  TypeOK
  SemAliveWhenUsed
  OneWakeUp
  EndsWhenTold
  ExitCodeCorrect
  NotKilledInRun
  LeftOpenBounded
