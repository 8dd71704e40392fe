\* Four messages of two pieces, flushed two by two or when forced.
CONSTANTS
  MaxLogs = 4
  Pieces = 2
  Threhold = 2
  MAX_WRITE_RETRY = 1
SPECIFICATION FairSpec
CHECK_DEADLOCK FALSE
INVARIANTS
  StoredOnceInOrder
  TrueMeansShipped
PROPERTY EndsWithAnswers
