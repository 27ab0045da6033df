SPECIFICATION Spec
CONSTANTS
  o1 = o1 o2 = o2 e1 = e1 e2 = e2 w1 = w1 w2 = w2 s1 = s1 s2 = s2 r1 = r1 r2 = r2
  Ops = {o1, o2}
  Encfs = {e1}
  EncfOf <- SharedNumber
  Workers = {w1, w2}
  Submits = {s1, s2}
  Retries = {r1}
  Verdicts = {"ACEPTADO", "RECHAZADO"}
  OdooEnabled = TRUE
  Watchdog = TRUE
  MaxCrashes = 1
  None = None
SYMMETRY Alike
INVARIANTS TypeOK OneInFlight NoDoubleCreate RegisteredIsBilled BilledIsReceived FinalStateIsDgiis InvoiceIsDgiis SyncedHasMove OnlyAcceptedInBooks SignedFileKept
PROPERTY InvoiceVerdictStands
CHECK_DEADLOCK FALSE
