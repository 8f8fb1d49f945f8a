SPECIFICATION Spec
CONSTANTS
  ana = ana
  bo = bo
  acme = acme
  globex = globex
  lobby = lobby
  f1 = f1
  f2 = f2
  f3 = f3
  c1 = c1
  c2 = c2
  c3 = c3
  NONE = NONE
  Users = {ana, bo}
  Guilds = {acme, globex}
  Channels = {lobby}
  Threads = {}
  Setups = {f1, f2}
  Turns = {c1}
  Where <- OneGuild
  D1 = {f1}
  EnvKeys = {NONE, envKey}
  MaxRestarts = 1
INVARIANT SetupTakesEffect
