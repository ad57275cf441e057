\* Ids of calendars and of changes that are freed and taken again within one
\* second or later, with an error or a crash between any two statements of a
\* pass. Under fairness every change is announced.
CONSTANTS
    CalendarIds = {1, 2}
    Founding = {1, 2}
    LogIds = {1, 2}
    MaxLateness = 0
    Limit = 1
    MaxTime = 2
    MaxEdits = 3
    MaxFaults = 1
SPECIFICATION FairSpec
INVARIANTS
    CursorIsSound
PROPERTIES
    EveryChangeIsTold
\* A household whose calendars are all deleted has nothing left to do once the
\* bounds are used up.
CHECK_DEADLOCK FALSE
