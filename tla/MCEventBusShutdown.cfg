SPECIFICATION FairSpec
CONSTANTS
    scalping = scalping
    swing = swing
    drain = drain
    market = market
    ai = ai
    Types = {scalping, swing}
    SlowTypes = {}
    Publishers = {drain, market, ai}
    TypeOf <- MCTypeOf
    MaxEvents = 1
PROPERTIES
    ShutdownCompletes
