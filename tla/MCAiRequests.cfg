SPECIFICATION RequestsSpec
CONSTANTS
  Tabs = {t1, t2}
  Keys = {k1, k2, k3}
  Boards = {b1, b2}
  Personas = {p1, p2}
  NoJob = none
  DailyLimit = 3
  MaxJobs = 4
  MaxText = 2
  MaxConversations = 2
CONSTRAINT Apart
SYMMETRY Symmetry
INVARIANTS RequestsTypeOK RequestsAreSound
