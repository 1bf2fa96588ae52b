\* A strategy position: the trail and break-even, a refusal and a loss.
\* One position, followed until it is closed: then nothing is left to do.
CHECK_DEADLOCK FALSE
CONSTANTS
    Origin = "bot"
    Depth = 1
    Ceiling = 3
    PipUnits = 2
    Risk = 1
    Rungs = TRUE
    TrailTrigger = 2
    TrailDistance = 2
    ProtectAtR = 0
    TrailR = 0
    Offset = 1
    Messages = {}
    Asks <- NoAsks
    StopsLevel = 0
    MaxRefusals = 0
    MaxLost = 1
    MaxRepeats = 0
    MaxHand = 0
SPECIFICATION FairSpec
PROPERTIES TrailNeverLoosens TrailFollows RungProtects
