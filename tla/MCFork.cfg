\* Three clients, two processes at most: a, the child of b and the parent may be
\* killed, and the user of a may fall silent.
CONSTANTS
  b = b
  Conns = {a, b, d}
  SockBuf = 1
  Backlog = 1
  MaxLine = 1
  Lines <- LinesTyped
  NLines <- HowMany
  MaxProcs = 2
  MaxFiles = 2
  Mortal = {a}
  Idle = {a}
  Doomed <- KidAndParent
SPECIFICATION FairSpec
CHECK_DEADLOCK FALSE
INVARIANTS
  AnswersInOrder
  TroubleIsOwn
PROPERTIES
  ChildrenCollected
  
