\* A digest and nothing else: no reminder, no edit, no fault. Refuted as soon
\* as one pass has filed the digest and the next one's clock is past its slot.
CONSTANTS
    early = early
    distant = distant
    RowIds = {1, 2, 3, 4, 5, 6}
    Reminders = {}
    Digests = {morning}
    Tests = {}
    Lead <- Leads
    LateThreshold = 1
    MaxDigestLateness = 2
    BaseBackoff = 1
    MaxBackoff = 2
    Passes = {scheduler}
    Scheduler = scheduler
    Devices = {phone}
    Slots = {1, 2}
    DigestSlot <- Mornings
    Horizon = 2
    MaxBackfill = 2
    DrainBatch = 2
    MaxDrainPasses = 2
    EmailChoices = {FALSE}
    Never = Never
    Nobody = Nobody
    MaxTime = 4
    MaxEdits = 0
    MaxFaults = 0
SPECIFICATION Spec
PROPERTIES
    LateIsDelivered
