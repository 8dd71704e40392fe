\* Two requests with four calls in all; two sub-tables, one with a row.
CONSTANTS
  v = v
  t1 = t1
  t2 = t2
  Tables = {t1, t2}
  w = w
  Reqs = {r1, r2}
  Values = {v, w}
  MaxId = 2
  FirstRows <- OneRow
  MaxOps = 4
  Default = v
SYMMETRY ReqSymmetry
SPECIFICATION Spec
CHECK_DEADLOCK FALSE
INVARIANTS
  StaleHasReason
  ReadsOwnWrites
