SPECIFICATION Spec
CONSTANTS
    Packet <- MCPacket
    Instant <- MCInstant
    MaximumNumberOfPackets = 3
    MaxClock = 0
    LastStart = 3
    Lengths = {1, 3}
    Data = {"a", "b"}
PROPERTIES
    ImplementsRecentPackets
