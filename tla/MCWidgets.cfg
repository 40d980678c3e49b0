SPECIFICATION Spec
CONSTANTS
    LogSize = 2
    LogTickers = {t1}
    MaxEvents = 4
    TOAST_LIMIT = 1
    Hooks = {toaster, panel}
    MaxToasts = 2
    Unset = unset
    MaxSlides = 3
INVARIANTS
    LogsShowNewest
    ToasterShowsStore
    ButtonsTellTheTruth
PROPERTIES
    DismissedLeave
    ToggleIsSeen
CHECK_DEADLOCK FALSE
