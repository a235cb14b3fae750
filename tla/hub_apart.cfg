SPECIFICATION ApartSpec
CONSTANTS
  vera = vera
  drew = drew
  guest = guest
  c1 = c1
  c2 = c2
  g1 = g1
  g2 = g2
  s1 = s1
  s2 = s2
  s3 = s3
  NoSid = NoSid
  NoMember = NoMember
  NoText = NoText
  DefaultPresence = "awake"
  Members = {vera}
  Persons = {drew, guest}
  Texts <- MCTexts
  To <- MCTo
  ClientSid <- MCClientSid
  Chats = {c1, c2}
  Generates = {g1}
  From <- MCFromOne
  Sids = {s1, s2, s3}
  ClientSids = {s3}
  Reporters = {manager}
  Workers = 3
  MaxCrashes = 1
  DiskFaults = TRUE
  ReadFaults = TRUE
  CortexFaults = TRUE
  LateWrites = FALSE
SYMMETRY HubSids
INVARIANTS
  TypeOK
  ClaimedMemoryIsKept
  NoDuplicateTurnIdx
