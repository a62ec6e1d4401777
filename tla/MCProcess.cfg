SPECIFICATION MCSpec
CONSTANTS
  k1 = k1
  k2 = k2
  t1 = t1
  t2 = t2
  u1 = u1
  u2 = u2
  v1 = v1
  v2 = v2
  Tokens = {t1, t2}
  Exp <- MCExp
  Epoch = 10
  Leeway = 1
  Checks = {v1, v2}
  Revokes = {u1}
  NoToken = NoToken
  NoEntry <- NoEntryValue
  TableExists = TRUE
  Reloads = TRUE
  MaxTime = 3
  Connections = {k1, k2}
  ConnTimeout = 2
  MaxClock = 5
CHECK_DEADLOCK FALSE
INVARIANTS
  RevokedIsRejected
  QuietBeforeClose
  ReadyBeforeServing
  InFlightGetTheirTime
PROPERTY ShutdownEnds
