CONSTANTS
    p1 = p1
    p2 = p2
    make = make
    cancel = cancel
    edit = edit
    seed = seed
    r1 = r1
    r2 = r2
    f1 = f1
    f2 = f2
    j1 = j1
    j2 = j2
    j3 = j3
    Original = Original
    None = None
SPECIFICATION Spec
CHECK_DEADLOCK FALSE
PROPERTIES
    ConfirmSettles
    PageSettles
    BridgeSettles
    ScriptsEnd
