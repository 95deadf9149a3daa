CONSTANTS
  Texts = {t1, t2}
  Blank = blank
  MaxVersion = 3
  NoText = none
SPECIFICATION Spec

PROPERTY SavesReplaceWhatWasShown
CHECK_DEADLOCK FALSE
