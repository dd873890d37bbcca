CONSTANTS
    r1 = r1
    r2 = r2
    own = own
    Clicked = clicked
    Delivered = arriving
    Reminders <- Three
    Times = {2}
    MaxNow = 2
    MaxSyncs = 1
    MaxReads = 1
    MaxPending = 1
    MaxPolls = 1
    Contents <- RunContents
    MaxEvents = 3
    MaxRequests = 2
    Reloads = 1
SPECIFICATION ShellSpec
CHECK_DEADLOCK FALSE
INVARIANTS
    InOrderOnce
    NothingLost
    NoGhost
    EvidenceIsTrue
