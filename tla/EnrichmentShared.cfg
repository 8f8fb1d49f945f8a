SPECIFICATION FairSpec
CONSTANTS
  ana = ana
  bo = bo
  acme = acme
  globex = globex
  lobby = lobby
  e1 = e1
  e2 = e2
  k1 = k1
  s1 = s1
  p1 = p1
  l1 = l1
  shop = shop
  crm = crm
  orders = orders
  users = users
  total = total
  email = email
  NONE = NONE
  Users = {ana, bo}
  Guilds = {acme, globex}
  Channels = {lobby}
  Threads = {}
  Enrichments = {e1, e2}
  Clears = {k1}
  Setups = {s1}
  Prompts = {p1}
  Looks = {l1}
  Where <- TwoGuilds
  Databases = {shop, crm}
  Columns = {total, email}
  Tables = {orders, users}
  TableOf <- Owner
  TablesOf <- Contents
  Commented <- Comments
  MaxCrashes = 1
INVARIANT TypeOK
INVARIANT OwnWorkspace
INVARIANT ClearedForGood
INVARIANT JoinsAskForColumns
PROPERTY EveryCommandEnds
