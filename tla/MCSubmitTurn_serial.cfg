SPECIFICATION Spec
CONSTANTS
    Turns = {1, 2, 3}
    Times = {0, 1, 2}
    Life = 2
    Rank <- MCRank
    Skewed = FALSE
    MaxInFlight = 1
    MayLose = TRUE
    None = None
PROPERTIES
    ImplementsDialogue
CHECK_DEADLOCK FALSE
