SPECIFICATION ServicesSpec
CONSTANTS
    Bars <- MCBars
    ArmedTTL = 1
    MaxTime = 2
    MaxRedeliveries = 1
    Tickers = {t1}
    Window = 4
    Volumes = {0, 1, 3}
    Prices = {100, 104}
    HighZ2 = 2
    MediumZ2 = 1
    LowZ2 = 1
    HighPct = 30
    MediumPct = 15
    MaxQueue = 2
    MaxOrders = 3
    NoEvent = noevent
    Users = {u1, u2}
    Keys = {k1}
    NoKey = nokey
    Threads = {r1, r2}
    MaxSessions = 2
    MaxRestarts = 1
    Idle = idle
    Listeners = {ticks, alerts}
    MaxEmitters = 3
    None = none
INVARIANTS
    PositionMatchesOrders
    OneEntryPerArming
    NeverAnOlderBar
    StatsAreTheWindows
    OrdersAlternate
    OneFeedPerKey
    ConnectedIsRegistered
CHECK_DEADLOCK FALSE
