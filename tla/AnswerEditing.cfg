CONSTANTS
  Texts = {t1, t2}
  Blank = blank
  MaxVersion = 4
  NoText = none
SPECIFICATION Spec
INVARIANTS TypeOK DetailShowsAnswer
PROPERTIES CleanSavesReplaceWhatWasShown
CHECK_DEADLOCK FALSE
