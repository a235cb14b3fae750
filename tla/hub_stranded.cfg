SPECIFICATION Spec
CONSTANTS
  vera = vera
  drew = drew
  guest = guest
  c1 = c1
  c2 = c2
  g1 = g1
  g2 = g2
  s1 = s1
  s2 = s2
  s3 = s3
  NoSid = NoSid
  NoMember = NoMember
  NoText = NoText
  DefaultPresence = "awake"
  Members = {vera}
  Persons = {drew, guest}
  Texts <- MCTexts
  To <- MCTo
  ClientSid <- MCClientSid
  Chats = {c1}
  Generates = {}
  From <- MCFrom
  Sids = {s1}
  ClientSids = {}
  Reporters = {manager}
  Workers = 2
  MaxCrashes = 0
  DiskFaults = FALSE
  ReadFaults = FALSE
  CortexFaults = FALSE
  LateWrites = FALSE
INVARIANT NoStrandedMessage
