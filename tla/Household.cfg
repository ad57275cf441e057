\* Two requests of three people about a calendar, and about the one that takes
\* over its id; two invitations.
CONSTANTS
    alice = alice
    bob = bob
    carol = carol
    People = {alice, bob, carol}
    Founder = alice
    Tokens = {t1, t2}
    Requests = {r1, r2}
    CalendarIds = {1}
    MaxCalendars = 2
    None = None
SPECIFICATION Spec
SYMMETRY Names
INVARIANTS
    Inhabited
    NothingLeftBehind
PROPERTIES
    JoinsTheNamed
    SparesOthers
\* Nobody is left to ask for anything once the last calendar is deleted.
CHECK_DEADLOCK FALSE
