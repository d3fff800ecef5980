SPECIFICATION Spec
CONSTANTS
    Packet <- MCPacket
    Instant <- MCInstant
    MaximumNumberOfPackets = 3
    MaxClock = 0
    LastStart = 4
    Lengths = {1, 3}
    Data = {"a"}
INVARIANT RepliesAreExact
