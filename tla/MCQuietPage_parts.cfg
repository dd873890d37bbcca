CONSTANTS
    p1 = p1
    p2 = p2
    f1 = f1
    f2 = f2
    f3 = f3
    j1 = j1
    j2 = j2
    j3 = j3
    j4 = j4
    j5 = j5
    Original = Original
    None = None
    Plans = {p1, p2}
    Facts = {f1, f2, f3}
    Creates <- Each
    SurfaceOf <- Surface
    Jobs = {j1, j2, j3, j4, j5}
    Kinds = {"mount", "hostContext", "focus", "submit", "attach", "confirm", "cancel", "direct", "edit", "native"}
    MaxInFlight = 1
    MayFail = FALSE
    Reload = "quiet"
    Others = {}
    Host = "ios"
SPECIFICATION QuietSpec
CHECK_DEADLOCK FALSE
INVARIANTS
    OffersWhatAwaits
    ShowsTheFacts
    NativeFollows
