CONSTANTS
  Texts = {t1}
  Blank = blank
  MaxVersion = 3
  Questions = {q1, q2}
  Notes = {n1}
  Sections = {s1}
  SectionOf <- MCSectionOf
  NoSection = none
  Jobs = {j1}
  Clients = {c1, c2}
  MaxChanges = 2
CONSTRAINT FewChanges
SYMMETRY Symmetry
SPECIFICATION Spec
INVARIANTS TypeOK UsedAtMostOnce
PROPERTIES AppliedAsSeen PeopleStopAtCompletion
CHECK_DEADLOCK FALSE
