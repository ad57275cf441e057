\* Two requests over one account: two sessions, two passwords, one reset link; ids
\* of sessions are taken again.
CONSTANTS
    Users = {ann}
    Requests = {r1, r2}
    Links = {link}
    SessionIds = {1, 2}
    MaxTokens = 2
    MaxPasswords = 2
    SessionTTL = 3
    PasswordResetTTL = 2
    TouchInterval = 1
    MaxStall = 1
    MaxTime = 3
    None = None
SPECIFICATION Spec
SYMMETRY Names
INVARIANTS
    OldSessionsEnd
    OneLinkOneChange
    RefusedChangesNothing
    UsedStaysSignedIn
\* Every request ends when the bounds do.
CHECK_DEADLOCK FALSE
