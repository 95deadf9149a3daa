CONSTANTS
  Texts = {t1}
  Blank = blank
  MaxVersion = 3
  Questions = {q1}
  Notes = {n1}
  Sections = {s1}
  SectionOf <- MCSectionOf
  NoSection = none
  Jobs = {j1}
  Clients = {c1, c2}
  MaxChanges = 2
CONSTRAINT FewChanges
SYMMETRY Symmetry
SPECIFICATION Spec
PROPERTY CompletedAnswersStand
CHECK_DEADLOCK FALSE
