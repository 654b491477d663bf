SPECIFICATION FairSpec
CONSTANTS
    Rpcs = {r1}
    Monitors = {m}
    Tickers = {t}
    Main = main
    Children = {c1}
    NoProc = NoProc
    NoChild = NoChild
PROPERTIES
    IdleReportIsTrue
    SuspendEnds
    ShutdownCompletes
