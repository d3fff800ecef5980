SPECIFICATION CacheSpec
CONSTANTS
    Packet <- MCPacket
    LastStart = 1
    Lengths = {0, 2}
    Faulty = {"unconvertible"}
    MaximumNumberOfPackets = 2147483647
    MaximumImportQueueSize = 1
    MaximumLatency = 3
    MaximumFutureTime = 0
    MaximumDuration = 1
    MaxDeliveries = 2
    MaxClock = 3
    MaxSetBack = 1
    Piece <- MCPiece
    Canonical <- MCCanonical
    Client = {c1}
    Request <- MCRequest
    TokenRequired = FALSE
    MaxCalls = 1
INVARIANTS
    CachedDataIsServed
    RepliesAreFed
PROPERTIES
    KeepsPromise
    ImportServes
