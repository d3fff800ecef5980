SPECIFICATION Spec
CONSTANTS
    Packet <- MCPacket
    Streams = {"A"}
    OtherStreams = {}
    LastStart = 1
    Lengths = {1}
    Faulty = {"invalid", "unconvertible"}
    MaximumNumberOfPackets = 2147483647
    MaximumImportQueueSize = 1
    MaximumLatency = 2
    MaximumFutureTime = 0
    MaximumDuration = 1
    MaxDeliveries = 3
    MaxClock = 2
    MaxSetBack = 0
INVARIANTS
    FutureDataIsRejected
