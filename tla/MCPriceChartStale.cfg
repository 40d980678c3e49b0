SPECIFICATION Spec
CONSTANTS
    Tickers = {a, b}
    None = none
    Intervals = {"1m", "1d"}
    HistoryDays = 1
    MoreDays = 1
    MinuteDays = 1
    DayMinutes = 1
    MaxRows = 2
    Start = 3
    MaxNow = 4
    MaxFlight = 2
    MaxBuffer = 2
    MaxSwitches = 2
INVARIANT
    LoadMoreNotPolluted
