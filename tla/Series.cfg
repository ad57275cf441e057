\* Three edits of one series over three days of a two-day week, by one member;
\* the last request is left out of the fingerprint, no property reads an old one.
CONSTANTS
    u1 = u1
    u2 = u2
    x = x
    LastDay = 3
    Week = 2
    Span = 1
    Tail = 1
    Rules <- MCRules
    Members = {u1}
    Shapes <- MCShapes
    MaxEvents = 1
    MaxEdits = 3

SPECIFICATION Spec
VIEW tables
\* MaxEdits ends every behaviour.
CHECK_DEADLOCK FALSE

INVARIANTS Linked DaysAgree LinksOpen QueuedIsCurrent EditorIsRight
PROPERTIES EditsAreScoped StruckStaysStruck RemindersAreKept RemindersAsSaved
