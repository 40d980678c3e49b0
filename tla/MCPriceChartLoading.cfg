SPECIFICATION Spec
CONSTANTS
    Tickers = {a, b}
    None = none
    Intervals = {"1m", "1d"}
    HistoryDays = 1
    MoreDays = 1
    MinuteDays = 1
    DayMinutes = 1
    MaxRows = 1
    Start = 3
    MaxNow = 3
    MaxFlight = 2
    MaxBuffer = 1
    MaxSwitches = 2
PROPERTY
    LoadingEnds
