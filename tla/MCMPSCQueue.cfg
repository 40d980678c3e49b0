SPECIFICATION FairSpec
CONSTANTS
    Producers = {p1, p2}
    Capacity = 2
    MaxPush = 3
INVARIANTS
    IndInv
    NoSlotRace
    ProducerOrder
    NothingLost
PROPERTIES
    FifoSpec
    AcceptedIsDelivered
