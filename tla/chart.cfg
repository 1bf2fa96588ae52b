\* One position, two accounts' symbols, two timeframes; a lost request, a click.
CONSTANTS
    Positions = {"p"}
    Symbols = {"XAUUSD", "GOLD"}
    SymbolOf <- OneSymbol
    Timeframes = {"M5", "H1"}
    Prices = {1, 2}
    Null = 0
    Lots = {1}
    MaxNews = 2
    MaxClicks = 1
    MaxLost = 1
SPECIFICATION FairSpec
INVARIANTS ShowsItsAnswer OneStopDrawn NeverRepaintsRemovedChart
PROPERTIES CatchesUp
