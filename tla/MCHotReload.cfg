SPECIFICATION Spec
CONSTANTS
  r1 = r1
  r2 = r2
  q1 = q1
  s1 = s1
  s2 = s2
  Reloads = {r1, r2}
  Requests = {q1}
  Boot = Boot
  NoWriter = NoWriter
  NumConfigs = 3
  Invalid = {2}
  Serving = {1}
  StoresOf <- MCStoresOf
  Kind <- MCKindRegister
INVARIANTS
  TypeOK
  SwapIsAtomic
  CurrentPoolsOpen
  OneCloserPerMap
  RegistryFollowsConfig
  ClosedPoolsDrained
