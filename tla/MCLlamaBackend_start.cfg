SPECIFICATION DaemonSpec
CONSTANTS
    Rpcs = {r1}
    Monitors = {}
    Tickers = {t}
    Main = main
    Children = {c1}
    NoProc = NoProc
    NoChild = NoChild
PROPERTY
    StartIsBounded
