\* Three clients, one unit each: a broadcast has two recipients.
CONSTANTS
  Conns = {a, b, d}
  SockBuf = 1
  Backlog = 1
  FD_SETSIZE = 3
  OpenMax = 7
  ListenFd = 3
  NUnits <- OneUnit
  MaxLine = 1
  Silent = {}
  Mortal <- NoneMortal
SYMMETRY ClientSymmetry
SPECIFICATION ChatSpec
CHECK_DEADLOCK FALSE
INVARIANTS
  EveryoneElseHears
