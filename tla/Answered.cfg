\* The whole engine without faults: one reminder that can be set, moved, muted
\* and deleted, one digest, one push subscription. Under fairness every queued
\* row leaves the queue.
CONSTANTS
    early = early
    distant = distant
    RowIds = {1, 2, 3, 4, 5, 6}
    Reminders = {early}
    Digests = {morning}
    Tests = {}
    Lead <- Leads
    LateThreshold = 1
    MaxDigestLateness = 2
    BaseBackoff = 1
    MaxBackoff = 2
    Passes = {scheduler}
    Scheduler = scheduler
    Devices = {phone}
    Slots = {1, 2}
    DigestSlot <- Mornings
    Horizon = 2
    MaxBackfill = 2
    DrainBatch = 2
    MaxDrainPasses = 2
    EmailChoices = {FALSE}
    Never = Never
    Nobody = Nobody
    MaxTime = 4
    MaxEdits = 1
    MaxFaults = 0
SPECIFICATION FairSpec
PROPERTIES
    QueuedIsAnswered
