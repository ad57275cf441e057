CONSTANTS
    SearchHorizonYears = 100
    LastProbeDays = 32
    PerDay = 48
    MaxLooks = 4
    Diaries <- MCDiaries
    Beginnings <- MCBeginnings
    Hours <- MCHours
    Lengths <- MCLengths
    Spans <- MCSpans
    Drags <- MCDrags
SPECIFICATION Spec
CHECK_DEADLOCK FALSE
INVARIANTS
    ExpandIsRight
    SearchIsRight
    DayStarts
    ClockIsKept
    DayViewIsRight
    DragLands
