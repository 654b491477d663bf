SPECIFICATION FairSpec
CONSTANTS
    v1 = v1
    v2 = v2
    exec = exec
    lib = lib
    Boots = {b1, b2}
    Versions = {v1, v2}
    Files = {exec, lib}
    Exec = exec
    Parts <- MCParts
    Raw = {v2}
    None = None
    Other = Other
    MaxPublish = 1

INVARIANTS
    TypeOK
PROPERTIES
    ReturnsWhatIsInstalled
    LicencesFirst
    BootsEnd
CHECK_DEADLOCK FALSE
