CONSTANTS
    IdBits = 3
    K = 2
    MaxSize = 3
    Hashes <- MCHashes
    MaxTokens = 1
    MaxPeers = 1
    MaxDistance <- MCMaxDistance
    NodeAddr <- MCNodeAddr
    SelfIds <- MCSelfIds
    FirstId <- MCFirstId
    Tokens = {1, 2}
    Ports = {2}
    Senders <- MCSenders
    MaxWork = 6
    MaxKills = 1
SPECIFICATION Spec
INVARIANTS TreeSound StoreSound
PROPERTIES OnlyBadEvicted IdKept
CHECK_DEADLOCK FALSE
