CONSTANTS
    Tests <- All
    MaxRuns = 3
    Inputs = 2
    maxAttempts = 3
    Events <- FourEvents
    Seed <- SeedOf
    DeniedSeed <- DeniedOf
    Options <- SomeOptions
    CalendarRuns = 2
    MaxAttempts = 1
    MayReset = TRUE
SPECIFICATION EvidenceSpec
CHECK_DEADLOCK FALSE
INVARIANTS
    EvidenceIsSound
    OneFactPerInput
    OneEntryEach
    CalendarEvidenceIsTrue
