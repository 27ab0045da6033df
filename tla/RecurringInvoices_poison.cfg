SPECIFICATION FairSpec
CONSTANTS
  s1 = s1 s2 = s2 t1 = t1 t2 = t2 b1 = b1 b2 = b2 u1 = u1 u2 = u2
  Schedules = {s1, s2}
  Tenants = {t1, t2}
  TenantOf <- TwoTenants
  Intervals = {1}
  Starts = {0}
  Ends = {None}
  Statuses = {}
  Batches = {b1}
  Users = {u1}
  MaxTime = 1
  MaxEdits = 3
  MaxUpsets = 3
  None = None
PROPERTY DueIsRun
CHECK_DEADLOCK FALSE
