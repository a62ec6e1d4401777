SPECIFICATION Spec
CONSTANTS
  k1 = k1
  k2 = k2
  t1 = t1
  t2 = t2
  global = global
  fast = fast
  Keys = {k1, k2}
  Tasks = {t1, t2}
  Endpoints = {global}
  NoRequest = NoRequest
  Limit <- MCGlobal
  MaxLag = 2
  MaxTime = 6
  MaxCount = 2
CHECK_DEADLOCK FALSE
SYMMETRY Symmetry
INVARIANTS
  WindowIsBounded
  WindowsAreApart
