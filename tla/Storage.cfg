\* A server and two backup runs; a release that is two migrations ahead; one fault.
CONSTANTS
    Server = server
    Runs = {b1, b2}
    Releases = {1, 3}
    Retention <- HourAndDay
    StaleAfter = 2
    MaxTime = 3
    MaxEdits = 1
    MaxRuns = 2
    MaxFaults = 1
    None = None
SPECIFICATION Spec
SYMMETRY Names
INVARIANTS
    FinalIsWhole
    LiveTempStays
    RollbackThere
PROPERTIES
    PruneKeepsPeriods
\* Runs are bounded.
CHECK_DEADLOCK FALSE
