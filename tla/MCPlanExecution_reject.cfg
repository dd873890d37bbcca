SPECIFICATION Spec
CONSTANTS
    p1 = p1
    p2 = p2
    make = make
    cancel = cancel
    edit = edit
    seed = seed
    None = None
    Plans = {p1, p2}
    Actions = {make, cancel, edit}
    Seeds = {seed}
    Requests = {r1, r2}
    PlanOf <- MCPlanOf
    Effect <- MCEffect
    Target <- MCTarget
    ClosedAs <- MCClosedAs
    Position <- MCPosition
    Fallible = {}
    Kinds = {"confirm", "reject"}
    MaxInFlight = 2
    MayLose = FALSE
INVARIANTS
    RejectedWroteNothing
CHECK_DEADLOCK FALSE
