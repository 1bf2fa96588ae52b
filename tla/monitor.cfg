\* Two accounts, a lost answer, a killed run.
CONSTANTS
    Accounts = {"a", "b"}
    Everyone = "-"
    Runs = {1, 2}
    Repeat = 1
    MaxChanges = 2
    MaxLost = 1
    MaxCrashes = 1
SPECIFICATION FairSpec
INVARIANTS TypeOK OneOpenIncident ClearsWhatWasTold
PROPERTIES RecordsSettle TellsHowBad TellsWhenOver
