\* A posted signal whose order rests, and an added entry; a lost result.
\* When every signal has been dealt with there is nothing left to do.
CHECK_DEADLOCK FALSE
CONSTANTS
    Cap = 10
    Percent = 10
    MaxConcurrent = 1
    Signals = {1, 2}
    Own = {2}
    Levels = {1}
    NoLevels = 0
    Trusting = FALSE
    AtLevel = {1}
    Override <- NoOverride
    Also = {"reviewNow", "follow"}
    Punctual = TRUE
    ByHand = TRUE
    MaxEdits = 1
    MaxLost = 0
    MaxOrders = 1
SPECIFICATION FairSpec
PROPERTIES Decided
