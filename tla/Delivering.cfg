\* Delivery of one reminder over a push subscription and email, with refusals,
\* errors, crashes and edits at every step.
CONSTANTS
    early = early
    distant = distant
    RowIds = {1, 2, 3, 4, 5}
    Reminders = {distant}
    Digests = {}
    Tests = {}
    Lead <- Leads
    LateThreshold = 1
    MaxDigestLateness = 3
    BaseBackoff = 1
    MaxBackoff = 2
    Passes = {scheduler}
    Scheduler = scheduler
    Devices = {phone}
    Slots = {1, 2}
    DigestSlot <- Mornings
    Horizon = 2
    MaxBackfill = 2
    DrainBatch = 2
    MaxDrainPasses = 2
    EmailChoices = {TRUE, FALSE}
    Never = Never
    Nobody = Nobody
    MaxTime = 5
    MaxEdits = 1
    MaxFaults = 1
SPECIFICATION Spec
INVARIANTS
    SentMeansSettled
PROPERTIES
    SentIsHistory
    MailedOnce
    PassIsExact
    KeepsPromise
