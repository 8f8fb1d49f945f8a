SPECIFICATION Spec
CONSTANTS
  ana = ana
  bo = bo
  acme = acme
  sales = sales
  pricing = pricing
  anaDM = anaDM
  NONE = NONE
  m1 = m1
  m2 = m2
  m3 = m3
  Users = {ana, bo}
  Guilds = {acme}
  Channels = {sales, anaDM}
  Threads = {pricing}
  Requests = {m1, m2, m3}
  Where <- ChannelWhere
  CallIds = {i1}
  Statements = {q1}
  MaxTurns = 2
  MaxCalls = 1
  Overlap = TRUE
INVARIANT AnsweredRemembered
