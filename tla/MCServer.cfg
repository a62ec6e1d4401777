SPECIFICATION MCSpec
CONSTANTS
  m1 = m1
  m2 = m2
  c1 = c1
  c2 = c2
  Migrators = {m1, m2}
  Configurations <- MCConfigurations
  Existing <- MCExisting
  Keyed = {"id"}
  Required = {"strict"}
  Indexed = {"plain", "c", "b_c"}
  Bound = {"unique"}
  Clashes <- MCClashes
  MaxStarts = 3
  Nobody = Nobody
  Inputs <- MCInputs
  Unset = Unset
  Beginnings <- MCBeginnings
  Sites <- MCSites
  Asked <- MCAsked
  Provisions = {{"jwt", "cookie"}}
  MaxReloads = 1
  Callers = {c1, c2}
  Offers <- MCOffers
  Queried <- MCQueried
  Rows <- MCRows
  Keys = {1, 2, 3, 4, 5, 6}
  NewIds = {4, 5, 6}
  Null = Null
  Me = Me
  Junk = Junk
  Wraps = 64
  MaxCalls = 2
INVARIANTS
  SortIsCanonical
  SuccessIsWhole
  DeclaredDataKept
  RestartHeals
  IncludesRefused
  CyclesFound
  AcceptedResolves
  ServedAsChecked
  AdmittedByRole
  ListIsExact
  TouchesTheAsked
  CreatedIsOwn
CHECK_DEADLOCK FALSE
