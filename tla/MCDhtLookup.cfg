CONSTANTS
    Nodes = {1, 2, 3}
    AddrOf <- MCAddrOf
    NoId = NoId
    HostAddrs <- MCHostAddrs
    Roots <- MCRoots
    Kinds = {"find_node", "get_peers"}
    Answers <- MCAnswers
    AnnounceNodes = {1, 2}
    MaxDepth = 1
    UsefulLimit = 2
    TidSpace = 3
    Window = 1
    Lifetime = 2
    MaxFuts = 2
    MaxAttempts = 2
    MaxRounds = 1
    MaxRequeries = 1
SPECIFICATION FairSpec
INVARIANTS RequestsMatch UsefulAsked
PROPERTY LookupEnds
CHECK_DEADLOCK FALSE
