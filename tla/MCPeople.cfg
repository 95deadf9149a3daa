SPECIFICATION Spec
CONSTANTS
  Users = {c, a, b}
  Creator = c
  Admins = {b}
  TeamShared = TRUE
  Schedulers = {s}
  MaxComments = 1
  MaxVersion = 2
  MaxNoteVersion = 5
CONSTRAINT Small
INVARIANTS TypeOK MembershipIsSound
PROPERTIES CompletedTakesReviewsAndReturns
