SPECIFICATION FairSpec
CONSTANTS
    Rpcs = {r1, r2}
    Monitors = {}
    Tickers = {}
    Main = main
    Children = {c1}
    NoProc = NoProc
    NoChild = NoChild
INVARIANT
    NoCircularWait
PROPERTIES
    EmbedReturns
    WedgedChildReplaced
