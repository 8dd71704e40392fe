\* Three agents: a may give up and has a NUL in its request, b's request line
\* is cut before the end of the URL, d's is malformed; two descriptors, so
\* that Accept can fail.
CONSTANTS
  Conns = {a, b, d}
  SockBuf = 2
  Backlog = 1
  FD_SETSIZE = 2
  OpenMax = 6
  ListenFd = 3
  ReqLen = 2
  MaxLine = 2
  Hasty = {a}
  Split = {b}
  Malformed = {d}
  a = a
  Nul <- NulUnits
SPECIFICATION FairSpec
CHECK_DEADLOCK FALSE
INVARIANTS
  DeathHasCause
  WholeRequestAnswered
  OwnBytesFirst
PROPERTY EveryAgentEnds
