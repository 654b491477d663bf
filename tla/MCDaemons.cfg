SPECIFICATION FairSpec
CONSTANTS
    Daemons = {d1, d2}
    Inodes = {i1, i2}
    None = None
    File = File
    Outside = Outside
    MaxEvents = 1

ACTION_CONSTRAINTS
    FreshInode OneDaemonEmbeds
INVARIANTS
    TypeOK
    NoFalseEviction
    CutBootExitsClean
    TheftOnlyInWindow
    NoFileOutlivesItsMaker
PROPERTIES
    ImplementsEndpoint OrphanExits ShutdownTakesEffect
CHECK_DEADLOCK FALSE
