CONSTANTS
    MaxCompletions = 2
    Limit = 1
    MaxRetries = 1
SPECIFICATION Spec
INVARIANTS TypeOK AnswersAreAccountedFor
PROPERTY ContributionFollowsNewest
CHECK_DEADLOCK FALSE
