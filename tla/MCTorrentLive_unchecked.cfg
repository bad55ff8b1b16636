CONSTANTS
    NumPieces = 2
    NChunks <- MCNChunks
    PieceLen <- MCPieceLen
    Peers = {a1, a2}
    NoPeer = NoPeer
    RemotePieces <- MCRemotePieces
    Selected <- MCSelected
    Unsized <- MCUnsized
    Contents = {"good", "bad"}
    UnchokePermits = 1
    OnlyAnswers = TRUE
    DiskFaults = FALSE
    MaxPermits = 2
    MaxDeaths = 0
    MaxSteals = 0
    MaxStops = 0
SPECIFICATION Spec
SYMMETRY Symmetry
INVARIANT HaveIsValid
CHECK_DEADLOCK FALSE
