\* A copied one: a provider asking for more room, a hand, a repeated report.
\* One position, followed until it is closed: then nothing is left to do.
CHECK_DEADLOCK FALSE
CONSTANTS
    Origin = "ai"
    Depth = 3
    Ceiling = 4
    PipUnits = 2
    Risk = 2
    Rungs = FALSE
    TrailTrigger = 0
    TrailDistance = 0
    ProtectAtR = 1
    TrailR = 1
    Offset = 1
    Messages = {1}
    Asks <- MoreRoom
    StopsLevel = 0
    MaxRefusals = 0
    MaxLost = 0
    MaxRepeats = 1
    MaxHand = 1
SPECIFICATION Spec
INVARIANTS TypeOK RiskNeverWidened KeepsDistance
