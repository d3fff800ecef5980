SPECIFICATION Spec
CONSTANTS
    Packet <- MCPacket
    Instant <- MCInstant
    MaximumNumberOfPackets = 4
    MaxClock = 1
    LastStart = 4
    Lengths = {0, 1, 3}
    Data = {"a"}
INVARIANTS
    TypeOK
    SortedDeque
    BoundedDeque
    ReplyCoversQuery
    ReplyIsARun
    IteratorsOrdered
    ExactForDisjointPackets
PROPERTIES
    EvictsOnlyOldest
    OfferIsAnswered
