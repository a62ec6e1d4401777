CONSTANTS
  i1 = i1
  i2 = i2
  n1 = n1
  u1 = u1
  u2 = u2
  r1 = r1
  r2 = r2
  p1 = p1
  p2 = p2
  admin = admin
  None = None
  Items <- MCItems
  Names <- MCNames
  Users <- MCUsers
  Requests <- MCRequests
  MaxRequests = 4
  Nothing = Nothing
  Ids = {1, 2}
  FilePaths <- MCPaths
  Subjects <- MCSubjects
  Admins = {admin}
  Slots <- MCRequests
  MaxDispatched = 3
  Mixes <- MCMixes
SPECIFICATION MCSpec
SYMMETRY Symmetry
INVARIANTS
  KeptUnlessDeleted
  CataloguedFilesKept
  
  RestoreIsWhole
PROPERTY TrashHeals
CHECK_DEADLOCK FALSE
