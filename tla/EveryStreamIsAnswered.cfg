SPECIFICATION Spec
CONSTANTS
    Client = {c1, c2}
    Request <- MCRequest
    TokenRequired = TRUE
    Piece <- MCPiece
    Canonical <- MCCanonical
    Packet <- MCPacket
    Instant <- MCInstant
    MaxCalls = 3
    MaximumNumberOfPackets = 2147483647
    LastStart = 3
PROPERTIES
    EveryStreamIsAnswered
