CONSTANTS
    Directions = {"incoming", "outgoing"}
    IntLen = 2
    HandshakeLen = 3
    BufLen = 5
    Payload <- MCPayload
    Streams <- MCStreams
    Pieces = {1, 2}
    MaxOthers = 1
SPECIFICATION FairSpec
INVARIANTS ReadsSound BitfieldFirst PieceAnnounced
PROPERTY AllRead
CHECK_DEADLOCK FALSE
