SPECIFICATION Spec
CONSTANTS
    None = none
    Nil = nil
    MaxAuthCalls = 2
    Stocks = {a}
    Queries = {q1, q2}
    NoText = short
    Match <- MCMatch
    MaxCalls = 2
    MaxInputs = 3
    MaxTogether = 2
INVARIANTS
    CacheHoldsRows
    ListIsRows
    SelectionKeepsUp
    ResultsMatchText
    SavedIsShown
    SessionAgrees
