CONSTANTS
    p1 = p1
    p2 = p2
    i1 = i1
    i2 = i2
    Packages = {p1, p2}
    RecordItems = {i1, i2}
    Notification = i1
    Strategies = {"best", "latest", "path"}
    MayEdit = FALSE
    MaxCommits = 2
    MaxWrites = 3
    Options <- SomeOptions
    Urls <- SomeUrls
    MaxRuns = 2
    MaxMisses = 2
SPECIFICATION AcceptanceSpec
CHECK_DEADLOCK FALSE
INVARIANTS
    AuditIsSound
    ReviewIsFounded
    RunsAreWhole
