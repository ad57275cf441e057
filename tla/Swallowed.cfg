\* The first date and all following dragged onto a date whose occurrence was
\* edited as a copy before.
CONSTANTS
    u1 = u1
    u2 = u2
    x = x
    LastDay = 3
    Week = 2
    Span = 1
    Tail = 1
    Rules <- MCRules
    Members = {u1}
    Shapes <- MCShapes
    MaxEvents = 1
    MaxEdits = 3

SPECIFICATION Spec
VIEW tables
CHECK_DEADLOCK FALSE

PROPERTY MovedIsShown
