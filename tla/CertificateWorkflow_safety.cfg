SPECIFICATION FairSpec
CONSTANTS
  c1 = c1 c2 = c2 c3 = c3 t1 = t1 t2 = t2 s1 = s1 r1 = r1 r2 = r2 w1 = w1 q1 = q1
  Cases = {c1, c2, c3}
  Tracks = {t1, t2, s1}
  Simulated = {s1}
  Refused = {r2}
  Live = TRUE
  Reminders = {r1, r2}
  Scheduled = {r1}
  Mails = {1, 2}
  CaseOf <- MailForFirst
  Workers = {w1}
  Runners = {w1}
  Requests = {q1}
  Menu <- AnyRequest
  HostOf <- OneWorker
  Start <- OneComes
  Queue <- SilentFirst
  Limit = 3
  MaxFaults = 1
  None = None
INVARIANTS TypeOK ProductionIsAccepted OverdueIsTried
CHECK_DEADLOCK FALSE
PROPERTIES ImplementsBook DueIsHandled AcceptedMovesOn
