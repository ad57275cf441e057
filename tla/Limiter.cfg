\* A bucket of two tokens that earns one in two units, kept for five: long enough for
\* a bucket to be swept while another key's request still holds an older reading.
CONSTANTS
    Keys = {k1, k2}
    Requests = {r1, r2}
    Burst = 2
    Refill = 2
    IdleTTL = 5
    GCPeriod = 2
    MaxStall = 1
    MaxTime = 8
    None = None
SPECIFICATION Spec
SYMMETRY Names
INVARIANTS
    SweepIsInvisible
    WithinRate
    WaitingHelps
\* Time is bounded.
CHECK_DEADLOCK FALSE
