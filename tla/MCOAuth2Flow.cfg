SPECIFICATION Spec
CONSTANTS
  f1 = f1
  f2 = f2
  b1 = b1
  b2 = b2
  Flows = {f1, f2}
  Callbacks = {b1, b2}
  NoFlow = NoFlow
  NumConfigs = 3
  Settings <- MCSettings
  DefaultTtl = 2
  MaxTime = 3
CHECK_DEADLOCK FALSE
SYMMETRY Symmetry
INVARIANTS
  OneLoginPerFlow
  FirstInTimePasses
PROPERTIES
  LimitInForce
