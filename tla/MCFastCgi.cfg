\* Three threads, three requests of any kind.
CONSTANTS
  THREAD_COUNT = 3
  MaxLine = 3
  MaxReqs = 3
  Kinds <- SomeKinds
SPECIFICATION FairSpec
CHECK_DEADLOCK FALSE
INVARIANTS
  AnswersTellOrder
  ForeignBytesHaveCause
PROPERTIES
  AcceptedAreAnswered
  WaitingAreAccepted
