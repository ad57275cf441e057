\* The scheduler and POST /dev/tick run passes at the same time, while somebody
\* presses the test button or edits the calendar.
CONSTANTS
    early = early
    distant = distant
    RowIds = {1, 2, 3, 4, 5, 6}
    Reminders = {early}
    Digests = {}
    Tests = {test}
    Lead <- Leads
    LateThreshold = 1
    MaxDigestLateness = 3
    BaseBackoff = 1
    MaxBackoff = 2
    Passes = {scheduler, devtick}
    Scheduler = scheduler
    Devices = {}
    Slots = {1, 2}
    DigestSlot <- Mornings
    Horizon = 2
    MaxBackfill = 2
    DrainBatch = 2
    MaxDrainPasses = 2
    EmailChoices = {FALSE}
    Never = Never
    Nobody = Nobody
    MaxTime = 3
    MaxEdits = 1
    MaxFaults = 0
SPECIFICATION Spec
PROPERTIES
    PassIsExact
    AheadSurvives
