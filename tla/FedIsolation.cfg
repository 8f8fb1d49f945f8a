SPECIFICATION Spec
CONSTANTS
  ana = ana
  bo = bo
  cy = cy
  acme = acme
  globex = globex
  sales = sales
  support = support
  lobby = lobby
  pricing = pricing
  NONE = NONE
  Users = {ana, bo, cy}
  Guilds = {acme, globex}
  Channels = {sales, support, lobby}
  Threads = {pricing}
  Callers <- TwoGuilds
  Terms = {active}
  Definitions = {d1}
  Names = {team}
  MaxCommands = 3
  MaxCrashes = 1
INVARIANT TypeOK
PROPERTY NonInterference
PROPERTY PersonalStable
PROPERTY ManualGoneByHand
