SPECIFICATION Spec
CONSTANTS
  m1 = m1
  p1 = p1
  p2 = p2
  r1 = r1
  r2 = r2
  NoProc = NoProc
  Members = {m1}
  Requests = {r1, r2}
  Procs = {p1, p2}
  DefaultPresence = "awake"
  MaxFaults = 1
  Regimes = {"serial", "overlap", "fetch"}
INVARIANTS ManagerTypeOK HotIsWhole EveryServerIsOwned QuietHubIsRight
PROPERTIES WeightsSurvive RequestsEnd WakingEnds
CHECK_DEADLOCK FALSE
