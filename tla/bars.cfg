\* A position held for a bar, and two bars more, so that one closes after an exit is asked for;
\* two requests at once, an answer late or lost, evaluated inline or by a job.
\* When the last bar has been dealt with there is nothing left to do.
CHECK_DEADLOCK FALSE
CONSTANTS
    MaxBars = 4
    Seen = 2
    Before = "sell"
    Modes = {FALSE, TRUE}
    Requests = {"r1", "r2"}
    Nobody = "-"
    MaxConcurrent = 2
    MaxFaults = 1
SPECIFICATION FairSpec
INVARIANTS TypeOK OneEntryPerBar
PROPERTIES OutBeforeIn Considered ExitComesAbout
