SPECIFICATION FairSpec
CONSTANTS
  s1 = s1 s2 = s2 x1 = x1 x2 = x2 d1 = d1 p1 = p1
  Scripts = {s1, s2}
  Others = {x1, x2}
  Settings <- MCSettings
  Menu <- MCMenu
  Mixes <- MCMixes
  Runs <- MCRuns
  JobIds <- MCJobIds
  JobOf <- MCJobOf
  Profiles = {p1}
  Releases <- MCReleases
  Listeners = {d1}
  MaxFaults = 1
  None = None
INVARIANTS TypeOK OpenIsReleasable RunningIsUnderWay NothingLeftOpen
PROPERTIES ListenersAreTold
CHECK_DEADLOCK FALSE
