SPECIFICATION FairSpec
CONSTANTS
  t1 = t1
  t2 = t2
  t3 = t3
  NONE = NONE
  Turns = {t1, t2, t3}
  Workers = 2
  MaxCalls <- OneCall
  MaxChanges = 1
  MaxTokens = 5
  DefaultLimit = 3
  MaxRows = 5
INVARIANT TypeOK
INVARIANT FreshTurn
INVARIANT LimitInForce
INVARIANT SentAsWritten
INVARIANT RowsBounded
PROPERTY EveryReadEnds
