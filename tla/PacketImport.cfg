SPECIFICATION StopSpec
CONSTANTS
    Packet <- MCPacket
    Streams = {}
    OtherStreams = {"A"}
    LastStart = 0
    Lengths = {0}
    Faulty = {"invalid", "unconvertible"}
    MaximumNumberOfPackets = 2147483647
    MaximumImportQueueSize = 2
    MaximumLatency = 1
    MaximumFutureTime = 0
    MaximumDuration = 1
    MaxDeliveries = 3
    MaxClock = 2
    MaxSetBack = 0
INVARIANTS
    StopTypeOK
    PushHasRoom
    OverflowCostsOldest
    LossIsBounded
    EveryPacketAccounted
PROPERTIES
    StopLosesOnlyQueued
    EveryPacketSettles
    StopEndsImport
    ExpiredPacketsLeave
\* The import ends.
CHECK_DEADLOCK FALSE
