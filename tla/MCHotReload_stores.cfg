SPECIFICATION Spec
CONSTANTS
  r1 = r1
  r2 = r2
  q1 = q1
  s1 = s1
  s2 = s2
  Reloads = {r1}
  Requests = {q1}
  Boot = Boot
  NoWriter = NoWriter
  NumConfigs = 2
  Invalid = {}
  Serving = {1, 2}
  StoresOf <- MCStoresOf
  Kind <- MCKindCreate
INVARIANTS
  StoresAreSwapped
