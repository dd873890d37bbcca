SPECIFICATION FairSpec
CONSTANTS
    p1 = p1
    p2 = p2
    make = make
    cancel = cancel
    edit = edit
    seed = seed
    None = None
    Plans = {p1, p2}
    Actions = {make, cancel, edit}
    Seeds = {seed}
    Requests = {r1, r2, r3}
    PlanOf <- MCPlanOf
    Effect <- MCEffect
    Target <- MCTarget
    ClosedAs <- MCClosedAs
    Position <- MCPosition
    Fallible = {make}
    Kinds = {"confirm", "reject", "recover"}
    MaxInFlight = 1
    MayLose = TRUE
PROPERTIES
    ImplementsLifecycle
CHECK_DEADLOCK FALSE
