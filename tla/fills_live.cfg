\* An order at a level; a crash, a detach and a request that goes wrong, perhaps late.
CONSTANTS
    Tickets = {"p"}
    Deals = {1, 2}
    Foreign = "copier-profit-lock"
    Resting = {"p"}
    Volume = 2
    Rung = 1
    Ladder = {"p"}
    Exits = {"tp1"}
    MaxPending = 3
    Outcomes = {"answered", "refused", "unsent", "timeout", "late"}
    MaxFaults = 1
    MaxCrashes = 1
    MaxDetaches = 1
    ByHand = FALSE
SPECIFICATION FairSpec
INVARIANTS NoCloseLost
PROPERTIES BookSettles ComesToBeManaged
