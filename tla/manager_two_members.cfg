SPECIFICATION Spec
CONSTANTS
  m1 = m1
  m2 = m2
  p1 = p1
  p2 = p2
  r1 = r1
  NoProc = NoProc
  Members = {m1, m2}
  Requests = {r1}
  Procs = {p1, p2}
  DefaultPresence = "awake"
  MaxFaults = 0
  Regimes = {"serial"}
INVARIANT LoadIsPerMember
CHECK_DEADLOCK FALSE
