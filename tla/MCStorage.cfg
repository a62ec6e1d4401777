SPECIFICATION MCSpec
CONSTANTS
  c1 = c1
  c2 = c2
  Calls = {c1, c2}
  Absent = Absent
  NoToken = NoToken
  Files <- MCFiles
  Dirs <- MCDirs
  Cut <- MCCut
  Backends <- MCBackends
  Callers = {c1, c2}
  Life = 4
  Margin = 1
  Timeout = 1
  MaxTime = 7
INVARIANTS
  ListingsAgree
  TokenOutlivesRequest
PROPERTY KeepsContract
CHECK_DEADLOCK FALSE
