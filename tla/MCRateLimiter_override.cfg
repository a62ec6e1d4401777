SPECIFICATION Spec
CONSTANTS
  k1 = k1
  k2 = k2
  t1 = t1
  t2 = t2
  global = global
  fast = fast
  Keys = {k1}
  Tasks = {t1}
  Endpoints = {global, fast}
  NoRequest = NoRequest
  Limit <- MCOverride
  MaxLag = 0
  MaxTime = 4
  MaxCount = 3
CHECK_DEADLOCK FALSE
INVARIANTS
  OverrideHolds
