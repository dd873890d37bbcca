CONSTANTS
    p1 = p1
    f1 = f1
    j1 = j1
    j2 = j2
    j3 = j3
    j4 = j4
    o1 = o1
    Original = Original
    None = None
    Empty = Empty
    e1 = e1
    e2 = e2
    e3 = e3
    east = east
    west = west
    nz = nz
    Plans = {p1}
    Facts = {f1}
    Creates <- OneCreates
    SurfaceOf <- OneReminder
    Jobs <- Four
    Kinds = {"mount", "submit", "confirm", "cancel"}
    MaxInFlight = 2
    MayFail = TRUE
    Reload = "any"
    Others = {o1}
    Host = "browser"
    Ids = {e1, e2, e3}
    Times = {1, 2}
    Undated = 9
    ListLimit = 2
    TimelineLimit = 2
    NoFocus = NoFocus
    Clocks = {9, 10, 11}
    Zones = {east, west, nz}
    Texts = {"+09:00", nz}
    OffsetOf <- ThreeZones
    TextOffset <- OffsetTexts
    Offsets <- SomeOffsets
SPECIFICATION PageSpec
CHECK_DEADLOCK FALSE
INVARIANTS
    ToldTheTruth
    NoTurnTwice
    RowsAreSound
PROPERTIES
    TellsOutcomes
    EditsMoveNothingElse
