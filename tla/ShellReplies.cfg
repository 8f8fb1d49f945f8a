SPECIFICATION FairSpec
CONSTANTS
  i1 = i1
  i2 = i2
  NONE = NONE
  Interactions = {i1, i2}
  Lengths = {0, 1, 1900, 1901, 2001}
  Lines = {1, 50, 51}
  Words <- MCWords
  Numbers <- MCNumbers
  Hosts <- MCHosts
  Ports <- MCPorts
  Names <- MCNames
  Secrets <- MCSecrets
  Paths <- MCPaths
INVARIANT TypeOK
INVARIANT AnswersFit
INVARIANT NoEffectUnacked
INVARIANT SilenceExplained
INVARIANT SetupFaithful
PROPERTY EveryInteractionEnds
