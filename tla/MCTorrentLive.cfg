CONSTANTS
    NumPieces = 2
    NChunks <- MCNChunks
    PieceLen <- MCPieceLen
    Peers = {a1, a2}
    NoPeer = NoPeer
    RemotePieces <- MCRemotePieces
    Selected <- MCSelected
    Unsized <- MCUnsized
    Contents = {"good"}
    UnchokePermits = 1
    OnlyAnswers = TRUE
    DiskFaults = FALSE
    MaxPermits = 2
    MaxDeaths = 1
    MaxSteals = 1
    MaxStops = 0
SPECIFICATION FairSpec
INVARIANTS VerifiedOnce NoPieceForgotten FatalOnlyWhenDone
PROPERTY EveryPieceArrives
CHECK_DEADLOCK FALSE
