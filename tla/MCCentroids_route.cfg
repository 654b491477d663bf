SPECIFICATION Spec
CONSTANTS
    Pushers = {p1}
    Routers = {q1}
    Vectors <- Normalized
    Headers <- RouteHeaders
    Short = Short
    Preset = Preset
    NoPreset = NoPreset
    OtherTag = OtherTag
    NoTag = NoTag
    MaxVecs = 2
    NoSet = NoSet
    NoProc = NoProc
    Garbage = Garbage
INVARIANTS
    TypeOK
    AnswersOnOneSet
