SPECIFICATION Spec
CONSTANTS
    Rpcs = {r1, r2}
    Monitors = {}
    Tickers = {t}
    Main = main
    Children = {c1, c2}
    NoProc = NoProc
    NoChild = NoChild
SYMMETRY Symmetry
PROPERTY
    OnlyStoppedIsSuspended
