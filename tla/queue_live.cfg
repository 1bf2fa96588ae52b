\* Losses, a crash and a refusal, then a caller that keeps asking; an order that rests.
CONSTANTS
    e1 = e1
    e2 = e2
    NoAccount = NoAccount
    Keys = {"exit", "order"}
    Callers = {"cron"}
    Protected <- PassSendsCloses
    Executors = {e2}
    AccountOf <- AccountOfKey
    Binding <- BoundToDemo
    Lifetime <- OrderLasts
    StaleClaim = 2
    Backoff = 1
    Limit = 1
    Punctual = TRUE
    Resting = {"order"}
    MaxAttempts = 5
    MaxFaults = 2
    MaxRefusals = 1
SPECIFICATION FairSpec
INVARIANTS NeverRepeated
PROPERTIES LiveRowsCollapse Pursued
