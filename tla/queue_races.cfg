\* Two callers on the same keys, late results, a terminal that may stall, an order that rests.
CONSTANTS
    e1 = e1
    e2 = e2
    NoAccount = NoAccount
    Keys = {"exit", "order"}
    Callers = {"cron", "page"}
    Protected <- PassSendsCloses
    Executors = {e1, e2}
    AccountOf <- AccountOfKey
    Binding <- Unbound
    Lifetime <- OrderExpires
    StaleClaim = 1
    Backoff = 1
    Limit = 1
    Punctual = FALSE
    Resting = {"order"}
    MaxAttempts = 2
    MaxFaults = 1
    MaxRefusals = 1
SPECIFICATION Spec
SYMMETRY Same
INVARIANTS AttemptUnique
PROPERTIES HandsOverWhatWasAsked
