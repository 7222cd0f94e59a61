SPECIFICATION FairSpecWithU1
CONSTANTS
  r1 = r1
  r2 = r2
  u1 = u1
  u2 = u2
  Roles = {r1, r2}
  Grantees = {u1, u2}
  Workers = {w1, w2}
  None = None
  Broken = Broken
  Contents <- Versions
  PageSize = 2
  MaxPulls = 1
  MaxPeople = 1
  MaxFaults = 1
INVARIANT TypeOK
PROPERTY KeptWhileGranted
PROPERTY UndisturbedSyncIsExact
PROPERTY AccessSettles
