SPECIFICATION Spec
CONSTANTS
  ana = ana
  bo = bo
  acme = acme
  sales = sales
  pricing = pricing
  anaDM = anaDM
  NONE = NONE
  m1 = m1
  m2 = m2
  m3 = m3
  Users = {ana, bo}
  Guilds = {acme}
  Channels = {sales, anaDM}
  Threads = {pricing}
  Requests = {m1, m2, m3}
  Where <- MixedWhere
  CallIds = {i1, i2}
  Statements = {}
  MaxTurns = 2
  MaxCalls = 1
  Overlap = TRUE
INVARIANT TypeOK
INVARIANT ConversationIsolation
INVARIANT TurnsWhole
PROPERTY SaveExtendsLoaded
SYMMETRY IdSymmetry
