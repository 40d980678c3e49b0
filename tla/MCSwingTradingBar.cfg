SPECIFICATION Spec
CONSTANTS
    Bars <- MCBars
    ArmedTTL = 1
    MaxTime = 2
    MaxRedeliveries = 1
INVARIANTS
    EntryOnItsOwnBar
