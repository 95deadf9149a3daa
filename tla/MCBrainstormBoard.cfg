SPECIFICATION Spec
CONSTANTS
  Users = {u1, u2}
  Notes = {n1, n2}
  Lines = {l1, l2}
  Sections = {s1}
  NoSection = none
  Texts = {t1}
  Window = 4
  MaxLog = 6
  MaxReturned = 3
  Room <- MCRoom
SYMMETRY Symmetry
INVARIANTS TypeOK VersionIdentifiesRow LiveLinesJoinLiveNotes
PROPERTIES ReplayPutsRowsBack ReplayMindsLines UndoIsAStack ReplayOverwritesNothing
CHECK_DEADLOCK FALSE
