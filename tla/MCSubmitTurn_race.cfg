SPECIFICATION Spec
CONSTANTS
    Turns = {1, 2, 3}
    Times = {0, 1}
    Life = 1
    Rank <- MCRank
    Skewed = TRUE
    MaxInFlight = 3
    MayLose = TRUE
    None = None
INVARIANTS
    TypeOK
    AnsweredIsClosed
    AnswersAreFresh
    ResolvedIsAnswered
    PlansAreRecorded
PROPERTIES
    ClosedStays
CHECK_DEADLOCK FALSE
