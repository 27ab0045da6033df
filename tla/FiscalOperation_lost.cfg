SPECIFICATION Spec
CONSTANTS
  o1 = o1 o2 = o2 e1 = e1 e2 = e2 w1 = w1 w2 = w2 s1 = s1 s2 = s2 r1 = r1 r2 = r2
  Ops = {o1}
  Encfs = {e1}
  EncfOf <- OwnNumber
  Workers = {w1}
  Submits = {s1}
  Retries = {}
  Verdicts = {"ACEPTADO"}
  OdooEnabled = FALSE
  Watchdog = TRUE
  MaxCrashes = 0
  None = None
INVARIANT TrackIdPersisted
CHECK_DEADLOCK FALSE
