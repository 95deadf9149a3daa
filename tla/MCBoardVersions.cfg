SPECIFICATION Spec
CONSTANTS
  Users = {u1, u2}
  Keys = {k1, k2, k3}
  MaxBoards = 3
  MaxEdits = 1
  MaxReturns = 1
  MaxDue = 1
SYMMETRY Symmetry
CONSTRAINT Small
INVARIANT TypeOK
PROPERTIES BoardsStayInOrder OnlyLatestIsEdited
