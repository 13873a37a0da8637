CONSTANTS
  c1 = c1
  c2 = c2
  p1 = p1
  e1 = e1
  e2 = e2
  NULL = NULL
  Chan = {c1, c2}
  Proc = {p1}
  Ec = {e1, e2}
  Lens = {1, 2}
  Modes = {31, 0}
  DefaultMode = 31
  Costs = {1, 4}
  Uptime = 9
  TC = 2
  MayFail = TRUE
  ProcDuringInit = FALSE
SPECIFICATION FairSpec
INVARIANTS NoUseAfterFree MonitoredIsRegistered ReportConsistent CyclesOneWriter
PROPERTIES ImplementsMonitor LockReleased
CHECK_DEADLOCK FALSE
