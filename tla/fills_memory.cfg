\* Reports refused or repeated, a crash, a detach, lots closed by hand; no late requests.
CONSTANTS
    Tickets = {"p"}
    Deals = {1, 2}
    Foreign = "copier-profit-lock"
    Resting = {}
    Volume = 2
    Rung = 1
    Ladder = {"p"}
    Exits = {"tp1", "time_exit"}
    MaxPending = 2
    Outcomes = {"answered", "refused", "unsent", "timeout"}
    MaxFaults = 2
    MaxCrashes = 1
    MaxDetaches = 1
    ByHand = TRUE
SPECIFICATION Spec
INVARIANTS TypeOK HeldIsShown FiguresSettle ReasonsAreSpent
PROPERTIES SnapshotSettles
