SPECIFICATION FairSpec
CONSTANTS
    p1 = p1
    p2 = p2
    c1 = c1
    c2 = c2
    Procs = {p1, p2}
    Calls = {c1, c2}
    Owner <- MCOwner
    Daemons = {d1, d2}
    None = None
    File = File
    Idle = Idle
    Backoff = Backoff
    NoOne = NoOne
    MaxEvents = 1

INVARIANTS
    LocksMatch
    OneDaemonWhenCalm
PROPERTIES
    RespawnedCallIsServed
    CancelOnlyAfterOutage
    CallsReturn
CHECK_DEADLOCK FALSE
