CONSTANTS
    Addrs = {a1, a2}
    NoAddr = NoAddr
    Tasks = {t1, t2, t3, t4}
    Limit = 2
    MaxAdds = 2
SPECIFICATION PeersSpec
SYMMETRY Symmetry
INVARIANTS CountsMatch EntriesHaveTasks
PROPERTY BugsNeedExhaustion
CHECK_DEADLOCK FALSE
