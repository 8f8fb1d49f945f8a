SPECIFICATION FairSpec
CONSTANTS
  ana = ana
  bo = bo
  acme = acme
  sales = sales
  pricing = pricing
  anaDM = anaDM
  NONE = NONE
  m1 = m1
  m2 = m2
  m3 = m3
  Users = {ana, bo}
  Guilds = {acme}
  Channels = {sales, anaDM}
  Threads = {pricing}
  Requests = {m1, m2}
  Where <- DirectWhere
  CallIds = {i1, i2}
  Statements = {q1, q2}
  MaxTurns = 2
  MaxCalls = 2
  Overlap = FALSE
INVARIANT WellFormedPrompt
INVARIANT ReportFaithful
INVARIANT AnsweredRemembered
PROPERTY AppendsTurns
PROPERTY EveryTurnEnds
