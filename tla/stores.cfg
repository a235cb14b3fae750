SPECIFICATION StoresSpec
CONSTANTS
  vera = vera
  jeffery = jeffery
  drew = drew
  t1 = t1
  t2 = t2
  o1 = o1
  o2 = o2
  e1 = e1
  None = None
  Members = {vera, jeffery}
  Persons = {drew}
  FirstMember = vera
  Turns = {t1}
  Legacy = {o1, o2}
  Batch = 1
  AskedOrigins = {"conversation", "promotion", "rumour"}
  Events = {e1}
  Sleepers = {vera}
  MaxTime = 1
  Day = 1
  FetchLimit = 3
  EventCap = 3
  DefaultPresence = "awake"
  Threads = {r1, r2}
  Names = {n1, n2}
  Tokens = {k1, k2}
  NoToken = NoToken
  MaxVersion = 3
SYMMETRY Symmetry
INVARIANTS FeedTypeOK NoCrossing PaperTrail NoUnscopedAfterMigration 
  TokenTypeOK NamesAreUnique TokensAreKept VerdictIsRight
PROPERTIES ScopedRowsAreFinal
CHECK_DEADLOCK FALSE
