SPECIFICATION FairSpec
CONSTANTS
    Pushers = {p1, p2}
    Routers = {}
    Vectors <- Normalized
    Headers <- PushHeaders
    Short = Short
    Preset = Preset
    NoPreset = NoPreset
    OtherTag = OtherTag
    NoTag = NoTag
    MaxVecs = 1
    NoSet = NoSet
    NoProc = NoProc
    Garbage = Garbage
INVARIANTS
    RestartServesCurrent
    CacheIsWhole
PROPERTIES
    ImplementsIndex
    PushReturns
