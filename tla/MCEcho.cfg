\* Three clients that may be killed, two slots: the limit of the loop is reached.
CONSTANTS
  a = a
  Conns = {a, b, d}
  SockBuf = 1
  Backlog = 1
  FD_SETSIZE = 2
  OpenMax = 7
  ListenFd = 3
  NUnits <- OneUnit
  MaxLine = 1
  Mortal <- AllMortal
SYMMETRY ClientSymmetry
SPECIFICATION Spec
CHECK_DEADLOCK FALSE
INVARIANTS
  TablesAgree
  ReadyCountExact
  NeverBlocksOnStaleReady
  PrematureOnlyIfDead
  ExitHasCause
PROPERTY ImplementsPipe
