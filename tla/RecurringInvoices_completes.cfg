SPECIFICATION FairSpec
CONSTANTS
  s1 = s1 s2 = s2 t1 = t1 t2 = t2 b1 = b1 b2 = b2 u1 = u1 u2 = u2
  Schedules = {s1}
  Tenants = {t1}
  TenantOf <- OneTenant
  Intervals = {1}
  Starts = {0}
  Ends = {1}
  Statuses = {"active", "paused", "cancelled"}
  Batches = {b1, b2}
  Users = {u1}
  MaxTime = 2
  MaxEdits = 3
  MaxUpsets = 0
  None = None
PROPERTY Completes
CHECK_DEADLOCK FALSE
