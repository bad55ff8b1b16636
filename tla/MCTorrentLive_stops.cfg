CONSTANTS
    NumPieces = 2
    NChunks <- MCNChunks
    PieceLen <- MCPieceLen
    Peers = {a1, a2}
    NoPeer = NoPeer
    RemotePieces <- MCRemotePieces
    Selected <- MCSelected
    Unsized <- MCUnsized
    Contents = {"good"}
    UnchokePermits = 2
    OnlyAnswers = FALSE
    DiskFaults = TRUE
    MaxPermits = 2
    MaxDeaths = 1
    MaxSteals = 1
    MaxStops = 1
SPECIFICATION Spec
SYMMETRY Symmetry
INVARIANTS IndInv CountersSound
PROPERTIES ImplementsStore PauseKeepsNeeds
CHECK_DEADLOCK FALSE
