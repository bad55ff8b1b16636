CONSTANTS
    a = a
    b = b
    c = c
    Addrs = {a, b, c}
    InitialAddrs <- MCInitial
    Kinds = {"honest", "repeats", "any", "plain"}
    ChunkSize = 2
    MaxSize = 4
    TrueSize = 3
    Decodes = TRUE
    Sizes = {0, 3, 4, 5}
    Permits = 1
    MaxStream = 2
    MaxAny = 2
SPECIFICATION FairSpec
INVARIANTS InfoIsRight ReadersSound
PROPERTY Resolved
CHECK_DEADLOCK FALSE
