SPECIFICATION MCSpec
CONSTANTS
  Notes = {n1, n2}
  Own = {n1}
  Limit = 1
  MaxLog = 2
  MaxGiven = 1
  MaxTroubles = 1
CONSTRAINT Small
INVARIANTS PollingTypeOK NothingElseIsMissed
PROPERTY PageCatchesUp
CHECK_DEADLOCK FALSE
