CONSTANTS
    MaxFiles = 3
    FileLens = {0, 1, 2, 3}
    PieceLens = {2, 3, 4}
    ChunkLen = 2
    Found = {"empty", "good", "junk"}
    MaxChecks = 2
SPECIFICATION Spec
INVARIANTS ResultsRight ChunksTile WritesLand
CHECK_DEADLOCK FALSE
