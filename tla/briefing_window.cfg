SPECIFICATION Spec
CONSTANTS
  vera = vera
  e1 = e1
  None = None
  Members = {vera}
  Persons = {}
  FirstMember = vera
  Turns = {}
  Legacy = {}
  Batch = 1
  AskedOrigins = {}
  Events = {e1}
  Sleepers = {vera}
  MaxTime = 2
  Day = 1
  FetchLimit = 3
  EventCap = 3
  DefaultPresence = "awake"
INVARIANT WindowIsSleepEdge
CHECK_DEADLOCK FALSE
