SPECIFICATION FairSpec
CONSTANTS
  Requests = {r1, r2}
  None = None
  MaxSeq = 3
  MaxRestarts = 2
\* every doorbell of the bound has been rung
CHECK_DEADLOCK FALSE
PROPERTY Implements
PROPERTY BellAnswered
