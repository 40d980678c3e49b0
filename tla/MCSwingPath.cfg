SPECIFICATION Spec
CONSTANTS
    Threads = {t1, t2}
    States = {s1, s2}
    A = A
    B = B
    C = C
    Ticks <- MCTicks
    ShortWindow = 15
    LongWindow = 60
    MaxTicks = 5
    NoState = NoState
    NoThread = NoThread
INVARIANTS
    StateOwnership
    DroppedNeverRegistered
    EmissionOrder
    HourFollowsQuarter
    HourIsItsQuarters
    SwingInv
