\* Two clients, one of which may be killed; a second unit starts with a NUL.
CONSTANTS
  Conns = {a, b}
  SockBuf = 1
  Backlog = 1
  FD_SETSIZE = 2
  OpenMax = 6
  ListenFd = 3
  NUnits <- TwoUnits
  MaxLine = 2
  Silent = {2}
  Mortal = {a}
SPECIFICATION ChatFairSpec
CHECK_DEADLOCK FALSE
INVARIANTS
  RoomSurvivesLeaving
PROPERTY EveryoneCanLeave
