\* A posted signal and one of the autonomous trader, both at market.
\* When every signal has been dealt with there is nothing left to do.
CHECK_DEADLOCK FALSE
CONSTANTS
    Cap = 10
    Percent = 60
    MaxConcurrent = 1
    Signals = {1, 2}
    Own = {2}
    Levels = {1}
    NoLevels = 0
    Trusting = FALSE
    AtLevel = {}
    Override <- NoOverride
    Also = {"executeNow", "decide"}
    Punctual = TRUE
    ByHand = FALSE
    MaxEdits = 0
    MaxLost = 1
    MaxOrders = 2
SPECIFICATION Spec
CONSTRAINT Claimed
INVARIANTS TypeOK OneOrder CapHolds
