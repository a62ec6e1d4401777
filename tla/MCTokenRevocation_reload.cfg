SPECIFICATION Spec
CONSTANTS
  t1 = t1
  t2 = t2
  u1 = u1
  u2 = u2
  v1 = v1
  v2 = v2
  Tokens = {t1, t2}
  Exp <- MCExp
  Epoch = 10
  Leeway = 1
  Checks = {v1}
  Revokes = {u1}
  NoToken = NoToken
  NoEntry <- NoEntryValue
  TableExists = TRUE
  Reloads = TRUE
  MaxTime = 2
CHECK_DEADLOCK FALSE
INVARIANTS
  BlacklistedIsRejected
