\* More input than both directions and both buffers hold.
CONSTANTS
  a = a
  Conns = {a, b}
  SockBuf = 2
  Backlog = 1
  FD_SETSIZE = 2
  OpenMax = 6
  ListenFd = 3
  NUnits <- OneTypesALot
  MaxLine = 2
  Mortal <- NoneMortal
SPECIFICATION FairSpec
CHECK_DEADLOCK FALSE
INVARIANTS
  EchoStream
  NormalMeansComplete
  WedgeNeedsFullPipe
PROPERTY EndsUnlessWedged
