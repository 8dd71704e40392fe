\* Two databases and two values; the script may be of any length.
CONSTANTS
  Dbs = {a, b}
  Vals = {0, 1}
SYMMETRY DbSymmetry
SPECIFICATION Spec
CHECK_DEADLOCK FALSE
INVARIANTS
  AllOrNothing
  RollBackRestores
  DurableUnlessLeaked
  CacheAheadHasReason
