SPECIFICATION Spec
CONSTANTS
  s1 = s1 s2 = s2 t1 = t1 t2 = t2 b1 = b1 b2 = b2 u1 = u1 u2 = u2
  Schedules = {s1, s2}
  Tenants = {t1, t2}
  TenantOf <- TwoTenants
  Intervals = {1, 2}
  Starts = {0}
  Ends = {None, 0}
  Statuses = {"active", "cancelled", None}
  Batches = {b1, b2}
  Users = {u1}
  MaxTime = 1
  MaxEdits = 2
  MaxUpsets = 1
  None = None
SYMMETRY Alike
INVARIANTS TypeOK OneExecutionEach GeneratedHasFile
PROPERTIES Accounted PauseSticks ImplementsLedger
CHECK_DEADLOCK FALSE
